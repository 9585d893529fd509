--------------------------- MODULE Fellows_proofs ---------------------------
(***************************************************************************)
(* Proofs about what a Fellow holds: its credentials (FellowCustody), for  *)
(* any sponsors, Fellows, requests and periods, and its allowance          *)
(* (PromotionQuota), for any attempts, limits and clocks.                  *)
(*                                                                         *)
(* CredentialsFollowCustody and SuspendedHoldNothing are inductive once    *)
(* the types are known and what a request in flight remembers: the offer   *)
(* it is about to expire, the offer a rebind is minted for, the instant of *)
(* a panic.  What a suspended sponsor must not get back is stated as a     *)
(* condition on steps (NothingRegained), which every step but the          *)
(* suspension itself meets.                                                *)
(*                                                                         *)
(* The allowance is never exceeded: an attempt that is admitted counts all *)
(* reservations younger than an hour before it, those dated after it too,  *)
(* and so the one inserted last into a window has counted all the others.  *)
(* A refused caller is told the first moment at which there is room: the   *)
(* reservations that leave the window by then are enough, and not before.  *)
(***************************************************************************)
EXTENDS FellowCustody, PromotionQuota, FiniteSetTheorems, NaturalsInduction, WellFoundedInduction, TLAPS

-----------------------------------------------------------------------------
(* Custody *)

Steps == {"start", "write", "expire", "lapse", "redeem", "reserved", "command", "release", "done"}
TransferStatuses == {"none", "pending", "accepted", "rejected", "cancelled", "expired"}
RebindStatuses == Standing \cup {"none", "denied", "superseded", "expired", "redeemed"}
Credentials == Identities \cup Rebinds

Fellows == [sponsor: Sponsors, status: Statuses, granted: Nat, ended: BOOLEAN]
TransferRows == [status: TransferStatuses, expires: Nat, resolved: Nat]
RebindRows ==
    [status: RebindStatuses, transfer: Transfers \cup {Nobody}, expires: Nat, matches: BOOLEAN]
CredentialRows == [issued: Nat, revoked: BOOLEAN]
Accounts ==
    [panic: Nat, suspended: BOOLEAN, deleted: BOOLEAN, head: Nat, holder: Calls \cup {Nobody},
     until: Nat]
Memos ==
    [at: Nat, seen: Transfers \cup {Nobody} \cup Statuses \cup RebindStatuses \cup Nat, head: Nat]

FellowsOK == fellow \in [Identities -> Fellows]
TransfersOK == transfer \in [Transfers -> TransferRows]
RebindsOK == rebind \in [Rebinds -> RebindRows]
CredentialsOK == credential \in [Credentials -> CredentialRows]
AccountsOK == account \in [Sponsors -> Accounts]

\* What a request in flight remembers is what its next step needs.
Placed(c) ==
    /\ step[c] = "expire" => memo[c].seen \in Transfers
    /\ step[c] \in {"lapse", "redeem"} => Op[c] = "poll"
    /\ step[c] \in {"reserved", "command", "release"} => Op[c] \in {"status", "revoke", "panic"}
    /\ Op[c] = "mint" /\ step[c] = "write" => memo[c].seen \in Transfers
    /\ Op[c] = "panic" /\ step[c] = "command" => memo[c].seen \in Nat

CallsOK ==
    /\ moment \in Nat
    /\ step \in [Calls -> Steps]
    /\ memo \in [Calls -> Memos]
    /\ \A c \in Calls : Placed(c)

CustodyTypeOK ==
    FellowsOK /\ TransfersOK /\ RebindsOK /\ CredentialsOK /\ AccountsOK /\ CallsOK

CustodyInv == CustodyTypeOK /\ CredentialsFollowCustody /\ SuspendedHoldNothing

(* What every step but an acceptance and a redemption does: no Fellow changes *)
(* hands, and no credential is issued.                                        *)
CustodyStays ==
    /\ \A f \in Identities : /\ fellow'[f].sponsor = fellow[f].sponsor
                             /\ fellow'[f].granted = fellow[f].granted
    /\ \A c \in Credentials : Unrevoked(c)' => /\ Unrevoked(c)
                                               /\ credential'[c].issued = credential[c].issued

(* What every step but a suspension does: it suspends nobody, and gives       *)
(* nothing to a sponsor that is suspended.                                    *)
NothingRegained ==
    /\ \A s \in Sponsors : account'[s].suspended = account[s].suspended
    /\ \A f \in Identities :
          account[fellow'[f].sponsor].suspended /\ fellow'[f].status \in Awake =>
              fellow'[f].sponsor = fellow[f].sponsor /\ fellow[f].status \in Awake
    /\ \A c \in Credentials : account[SponsorOf(c)].suspended /\ Unrevoked(c)' => Unrevoked(c)
    /\ \A t \in Transfers :
          (account[By[t]].suspended \/ account[To[t]].suspended) /\ transfer'[t].status = "pending" =>
              transfer[t].status = "pending"
    /\ \A r \in Rebinds :
          account[By[r]].suspended /\ rebind'[r].status \in Standing =>
              rebind[r].status \in Standing

-----------------------------------------------------------------------------
(* What requests are about *)

LEMMA Parties ==
    /\ Home \in [Identities -> Sponsors]
    /\ By \in [Calls -> Sponsors]
    /\ Term \in Nat
    /\ Transfers \subseteq Calls /\ Rebinds \subseteq Calls
    /\ \A c \in Calls : c \notin Identities
    /\ \A t \in Transfers : To[t] \in Sponsors
    /\ Nobody \notin Calls
  BY CustodyConstants DEF Transfers, Rebinds, OpsOf

LEMMA Topics ==
    ASSUME NEW c \in Calls
    PROVE  /\ Op[c] \in {"offer", "mint", "status"} => About[c] \in Identities
           /\ Op[c] \in {"accept", "reject", "cancel", "view"} => About[c] \in Transfers
           /\ Op[c] \in {"approve", "deny", "poll"} => About[c] \in Rebinds
           /\ Op[c] = "revoke" => About[c] \in Credentials
           /\ Op[c] = "status" => To[c] \in Statuses
           /\ Op[c] = "offer" <=> c \in Transfers
           /\ Op[c] = "mint" <=> c \in Rebinds
  <1>1. About[c] \in Subjects(Op[c])
    BY CustodyConstants
  <1>2. CASE Op[c] \in {"offer", "mint", "status"}
    <2>1. About[c] \in Identities
      BY <1>1, <1>2 DEF Subjects
    <2> QED
      BY <1>2, <2>1, CustodyConstants DEF Transfers, Rebinds, OpsOf
  <1>3. CASE Op[c] \in {"accept", "reject", "cancel", "view"}
    <2>1. About[c] \in Transfers
      BY <1>1, <1>3 DEF Subjects
    <2> QED
      BY <1>3, <2>1, CustodyConstants DEF Transfers, Rebinds, OpsOf
  <1>4. CASE Op[c] \in {"approve", "deny", "poll"}
    <2>1. About[c] \in Rebinds
      BY <1>1, <1>4 DEF Subjects
    <2> QED
      BY <1>4, <2>1, CustodyConstants DEF Transfers, Rebinds, OpsOf
  <1>5. CASE Op[c] = "revoke"
    <2>1. About[c] \in Credentials
      BY <1>1, <1>5 DEF Subjects, Credentials
    <2> QED
      BY <1>5, <2>1, CustodyConstants DEF Transfers, Rebinds, OpsOf
  <1>6. CASE Op[c] = "panic"
    BY <1>6, CustodyConstants DEF Transfers, Rebinds, OpsOf
  <1> QED
    BY <1>2, <1>3, <1>4, <1>5, <1>6, CustodyConstants

LEMMA Subject ==
    /\ \A t \in Transfers : About[t] \in Identities
    /\ \A r \in Rebinds : About[r] \in Identities
    /\ \A c \in Credentials : Whose(c) \in Identities /\ SponsorOf(c) \in Sponsors
  BY Parties, Topics DEF Credentials, Whose, SponsorOf

-----------------------------------------------------------------------------
(* The two conditions on steps suffice *)

LEMMA StaysInCustody ==
    ASSUME CustodyTypeOK, CredentialsFollowCustody, CustodyStays
    PROVE  CredentialsFollowCustody'
  BY Subject DEF CredentialsFollowCustody, CustodyStays, Credentials, Unrevoked

LEMMA StaysSuspended ==
    ASSUME CustodyTypeOK, SuspendedHoldNothing, NothingRegained
    PROVE  SuspendedHoldNothing'
  <1> SUFFICES ASSUME NEW s \in Sponsors, account'[s].suspended
               PROVE  /\ \A f \in Identities : fellow'[f].sponsor = s => fellow'[f].status \notin Awake
                      /\ \A c \in Credentials : SponsorOf(c) = s => ~Unrevoked(c)'
                      /\ \A t \in Transfers : By[t] = s \/ To[t] = s => transfer'[t].status # "pending"
                      /\ \A r \in Rebinds : By[r] = s => rebind'[r].status \notin Standing
    BY DEF SuspendedHoldNothing, Owns, Involving, Credentials
  <1>1. account[s].suspended
    BY DEF NothingRegained
  <1>2. \A f \in Identities : fellow[f].sponsor = s => fellow[f].status \notin Awake
    BY <1>1 DEF SuspendedHoldNothing, Owns
  <1>3. \A f \in Identities : fellow'[f].sponsor = s => fellow'[f].status \notin Awake
    BY <1>1, <1>2 DEF NothingRegained
  <1>4. \A c \in Credentials : SponsorOf(c) = s => ~Unrevoked(c)'
    BY <1>1 DEF NothingRegained, SuspendedHoldNothing, Credentials
  <1>5. \A t \in Transfers : By[t] = s \/ To[t] = s => transfer'[t].status # "pending"
    BY <1>1 DEF NothingRegained, SuspendedHoldNothing, Involving
  <1>6. \A r \in Rebinds : By[r] = s => rebind'[r].status \notin Standing
    BY <1>1 DEF NothingRegained, SuspendedHoldNothing
  <1> QED
    BY <1>3, <1>4, <1>5, <1>6

LEMMA Preserved ==
    ASSUME CustodyInv, CustodyTypeOK', CustodyStays, NothingRegained
    PROVE  CustodyInv'
  BY StaysInCustody, StaysSuspended DEF CustodyInv

-----------------------------------------------------------------------------
(* Rows and requests *)

LEMMA RevokedRows ==
    ASSUME CredentialsOK, NEW S, credential' = Revoked(S)
    PROVE  /\ CredentialsOK'
           /\ \A c \in Credentials : Unrevoked(c)' => /\ c \notin S /\ Unrevoked(c)
                                                      /\ credential'[c] = credential[c]
  BY DEF CredentialsOK, CredentialRows, Revoked, Unrevoked

LEMMA ResolvedRows ==
    ASSUME TransfersOK, NEW S, NEW status \in TransferStatuses \ {"pending"}, NEW at \in Nat,
           transfer' = Resolved(S, status, at)
    PROVE  /\ TransfersOK'
           /\ \A t \in Transfers :
                 transfer'[t].status = "pending" => t \notin S /\ transfer[t].status = "pending"
  BY DEF TransfersOK, TransferRows, Resolved

LEMMA SupersededRows ==
    ASSUME RebindsOK, NEW R
    PROVE  /\ Superseded(R) \in [Rebinds -> RebindRows]
           /\ \A r \in Rebinds : Superseded(R)[r].status \in Standing =>
                                     r \notin R /\ rebind[r].status \in Standing
  BY DEF RebindsOK, RebindRows, RebindStatuses, Superseded, Standing

(* A rebind gets a status. *)
LEMMA TurnedRows ==
    ASSUME RebindsOK, NEW r \in Rebinds, NEW status \in RebindStatuses, Turns(r, status)
    PROVE  /\ RebindsOK'
           /\ \A q \in Rebinds : q # r => rebind'[q] = rebind[q]
           /\ rebind'[r].status = status
  BY DEF RebindsOK, RebindRows, Turns

LEMMA StepTaken ==
    ASSUME CallsOK, NEW c \in Calls, NEW next \in Steps, step' = [step EXCEPT ![c] = next],
           UNCHANGED <<moment, memo>>, Placed(c)'
    PROVE  CallsOK'
  <1>1. \A d \in Calls : d # c => Placed(d)'
    BY DEF CallsOK, Placed
  <1> QED
    BY <1>1 DEF CallsOK

LEMMA Ended ==
    ASSUME CallsOK, NEW c \in Calls, NEW where, Ends(c, where)
    PROVE  CallsOK'
  <1>1. Placed(c)'
    BY DEF CallsOK, Placed, Ends
  <1> QED
    BY <1>1, StepTaken DEF Ends, Steps

LEMMA RowsKept ==
    ASSUME CustodyInv, CallsOK', UNCHANGED custodyRows
    PROVE  CustodyInv'
  <1>1. CustodyTypeOK'
    BY DEF CustodyInv, CustodyTypeOK, custodyRows, FellowsOK, TransfersOK, RebindsOK,
           CredentialsOK, AccountsOK
  <1>2. CustodyStays /\ NothingRegained
    BY DEF custodyRows, CustodyStays, NothingRegained, Unrevoked
  <1> QED
    BY <1>1, <1>2, Preserved

LEMMA ReadsOnly ==
    ASSUME CustodyInv, NEW c \in Calls, NEW next \in {"write", "expire", "lapse", "redeem"},
           NEW seen \in Transfers \cup {Nobody} \cup RebindStatuses,
           next = "expire" => seen \in Transfers,
           next \in {"lapse", "redeem"} => Op[c] = "poll",
           Op[c] = "mint" /\ next = "write" => seen \in Transfers,
           Reads(c, next, moment, seen)
    PROVE  CustodyInv'
  <1> USE DEF CustodyInv, CustodyTypeOK
  <1>1. moment \in Nat /\ moment' = moment
    BY DEF CallsOK, Reads
  <1>2. step' \in [Calls -> Steps]
    BY DEF CallsOK, Reads, Steps
  <1>3. [at |-> moment, seen |-> seen, head |-> 0] \in Memos
    BY <1>1 DEF Memos
  <1>4. memo' \in [Calls -> Memos]
    BY <1>3 DEF CallsOK, Reads
  <1>5. \A d \in Calls : Placed(d)'
    <2> TAKE d \in Calls
    <2>1. CASE d = c
      BY <2>1 DEF CallsOK, Placed, Reads, Steps
    <2>2. CASE d # c
      BY <2>2 DEF CallsOK, Placed, Reads
    <2> QED
      BY <2>1, <2>2
  <1>6. CallsOK'
    BY <1>1, <1>2, <1>4, <1>5 DEF CallsOK
  <1> QED
    BY <1>6, RowsKept DEF Reads

-----------------------------------------------------------------------------
(* Every step keeps the invariant *)

LEMMA ReadOfferKeeps ==
    ASSUME CustodyInv, NEW c \in Calls, ReadOffer(c)
    PROVE  CustodyInv'
  <1>1. CASE Reads(c, "write", moment, Nobody)
    BY <1>1, ReadsOnly DEF ReadOffer
  <1>2. CASE \E t \in PendingOf(About[c]) : Reads(c, "expire", moment, t)
    BY <1>2, ReadsOnly DEF ReadOffer, PendingOf
  <1> QED
    BY <1>1, <1>2 DEF ReadOffer

LEMMA ReadTransferKeeps ==
    ASSUME CustodyInv, NEW c \in Calls, ReadTransfer(c)
    PROVE  CustodyInv'
  <1>1. About[c] \in Transfers
    BY Topics DEF ReadTransfer
  <1>2. CASE Reads(c, "expire", moment, About[c])
    BY <1>1, <1>2, ReadsOnly DEF ReadTransfer
  <1>3. CASE Reads(c, "write", moment, Nobody)
    BY <1>3, ReadsOnly DEF ReadTransfer
  <1> QED
    BY <1>2, <1>3 DEF ReadTransfer

LEMMA ReadMintKeeps ==
    ASSUME CustodyInv, NEW c \in Calls, ReadMint(c)
    PROVE  CustodyInv'
  BY ReadsOnly DEF ReadMint

LEMMA ReadDecisionKeeps ==
    ASSUME CustodyInv, NEW c \in Calls, ReadDecision(c)
    PROVE  CustodyInv'
  BY ReadsOnly DEF ReadDecision

LEMMA ReadPollKeeps ==
    ASSUME CustodyInv, NEW c \in Calls, ReadPoll(c)
    PROVE  CustodyInv'
  <1>1. CASE Reads(c, "lapse", moment, rebind[About[c]].status)
    BY <1>1, ReadsOnly DEF ReadPoll, RebindStatuses, Standing
  <1>2. CASE Reads(c, "redeem", moment, Nobody)
    BY <1>2, ReadsOnly DEF ReadPoll
  <1> QED
    BY <1>1, <1>2 DEF ReadPoll

LEMMA WriteOfferKeeps ==
    ASSUME CustodyInv, NEW c \in Calls, WriteOffer(c)
    PROVE  CustodyInv'
  <1> USE DEF CustodyInv, CustodyTypeOK
  <1>1. c \in Transfers
    BY Topics DEF WriteOffer
  <1>2. memo[c].at + Term \in Nat
    BY Parties DEF CallsOK, Memos
  <1>3. TransfersOK'
    BY <1>1, <1>2 DEF WriteOffer, TransfersOK, TransferRows, TransferStatuses
  <1>4. \A t \in Transfers : t # c => transfer'[t] = transfer[t]
    BY DEF WriteOffer, TransfersOK
  <1>5. CustodyTypeOK'
    BY <1>3, Ended DEF WriteOffer, FellowsOK, RebindsOK, CredentialsOK, AccountsOK
  <1>6. CustodyStays
    BY DEF WriteOffer, CustodyStays, Unrevoked
  <1>7. NothingRegained
    BY <1>1, <1>4 DEF WriteOffer, NothingRegained, Unrevoked, Barred
  <1> QED
    BY <1>5, <1>6, <1>7, Preserved

LEMMA ExpireKeeps ==
    ASSUME CustodyInv, NEW c \in Calls, Expire(c)
    PROVE  CustodyInv'
  <1> USE DEF CustodyInv, CustodyTypeOK
  <1>1. memo[c].seen \in Transfers /\ memo[c].at \in Nat
    BY DEF Expire, CallsOK, Placed, Memos
  <1>2. TransfersOK'
    BY <1>1 DEF Expire, TransfersOK, TransferRows, TransferStatuses
  <1>3. \A t \in Transfers : transfer'[t].status = "pending" => transfer[t].status = "pending"
    BY <1>1 DEF Expire, TransfersOK, TransferRows
  <1>4. CallsOK'
    <2> DEFINE next == IF Op[c] = "offer" THEN "write" ELSE "done"
    <2>1. Placed(c)'
      BY DEF Expire, CallsOK, Placed
    <2> QED
      BY <2>1, StepTaken, next \in Steps DEF Expire, Steps
  <1>5. CustodyTypeOK'
    BY <1>2, <1>4 DEF Expire, FellowsOK, RebindsOK, CredentialsOK, AccountsOK
  <1>6. CustodyStays /\ NothingRegained
    BY <1>3 DEF Expire, CustodyStays, NothingRegained, Unrevoked
  <1> QED
    BY <1>5, <1>6, Preserved

LEMMA ListTransfersKeeps ==
    ASSUME CustodyInv, NEW s \in Sponsors, ListTransfers(s)
    PROVE  CustodyInv'
  <1> USE DEF CustodyInv, CustodyTypeOK
  <1> DEFINE overdue == {t \in Involving(s) : transfer[t].expires <= moment}
  <1>1. transfer' = Resolved(overdue, "expired", moment) /\ moment \in Nat
    BY DEF ListTransfers, CallsOK
  <1> HIDE DEF overdue
  <1>2. /\ TransfersOK'
        /\ \A t \in Transfers : transfer'[t].status = "pending" => transfer[t].status = "pending"
    BY <1>1, ResolvedRows DEF TransferStatuses
  <1>3. CustodyTypeOK'
    BY <1>2 DEF ListTransfers, FellowsOK, RebindsOK, CredentialsOK, AccountsOK, CallsOK, Placed
  <1>4. CustodyStays /\ NothingRegained
    BY <1>2 DEF ListTransfers, CustodyStays, NothingRegained, Unrevoked
  <1> QED
    BY <1>3, <1>4, Preserved

LEMMA WriteRefusalKeeps ==
    ASSUME CustodyInv, NEW c \in Calls, WriteRefusal(c)
    PROVE  CustodyInv'
  <1> USE DEF CustodyInv, CustodyTypeOK
  <1> DEFINE status == IF Op[c] = "reject" THEN "rejected" ELSE "cancelled"
  <1>1. /\ transfer' = Resolved({About[c]}, status, memo[c].at)
        /\ status \in TransferStatuses \ {"pending"}
        /\ memo[c].at \in Nat
    BY DEF WriteRefusal, TransferStatuses, CallsOK, Memos
  <1> HIDE DEF status
  <1>2. /\ TransfersOK'
        /\ \A t \in Transfers : transfer'[t].status = "pending" => transfer[t].status = "pending"
    BY <1>1, ResolvedRows
  <1>3. CustodyTypeOK'
    BY <1>2, Ended DEF WriteRefusal, FellowsOK, RebindsOK, CredentialsOK, AccountsOK
  <1>4. CustodyStays /\ NothingRegained
    BY <1>2 DEF WriteRefusal, CustodyStays, NothingRegained, Unrevoked
  <1> QED
    BY <1>3, <1>4, Preserved

(* An acceptance revokes every credential of the Fellow it moves, so that     *)
(* nobody is left to hold one for the sponsor of before.                      *)
LEMMA WriteAcceptanceKeeps ==
    ASSUME CustodyInv, NEW c \in Calls, WriteAcceptance(c)
    PROVE  CustodyInv'
  <1> USE DEF CustodyInv, CustodyTypeOK
  <1> DEFINE t == About[c]
             f == About[t]
  <1>1. t \in Transfers /\ f \in Identities /\ To[t] \in Sponsors /\ memo[c].at \in Nat
    BY Topics, Subject, Parties DEF WriteAcceptance, CallsOK, Memos
  <1>2. /\ transfer' = Resolved({t}, "accepted", memo[c].at)
        /\ fellow' = [fellow EXCEPT ![f].sponsor = To[t], ![f].status = "paused",
                                    ![f].granted = memo[c].at]
        /\ credential' = Revoked({k \in Credentials : Whose(k) = f})
        /\ rebind' = Superseded(RebindsOf(f)) \/ rebind' = rebind
        /\ account' = account
        /\ Ends(c, "write")
    <2>1. DOMAIN credential = Credentials
      BY DEF CredentialsOK
    <2> QED
      BY <2>1 DEF WriteAcceptance, Surrendered
  <1> HIDE DEF t, f
  <1>3. /\ FellowsOK'
        /\ \A g \in Identities : g # f => fellow'[g] = fellow[g]
        /\ fellow'[f].status = "paused"
    <2>1. "paused" \in Statuses
      BY DEF Statuses
    <2>2. fellow \in [Identities -> Fellows]
      BY DEF FellowsOK
    <2>3. fellow' = [fellow EXCEPT ![f] = [fellow[f] EXCEPT !.sponsor = To[t], !.status = "paused",
                                                            !.granted = memo[c].at]]
      BY <1>1, <1>2, <2>2
    <2>4. /\ fellow'[f] \in Fellows /\ fellow'[f].status = "paused"
          /\ \A g \in Identities : g # f => fellow'[g] = fellow[g]
      BY <1>1, <2>1, <2>2, <2>3 DEF Fellows
    <2> QED
      BY <2>2, <2>3, <2>4 DEF FellowsOK
  <1>4. /\ TransfersOK'
        /\ \A u \in Transfers : transfer'[u].status = "pending" => transfer[u].status = "pending"
    BY <1>1, <1>2, ResolvedRows DEF TransferStatuses
  <1>5. /\ CredentialsOK'
        /\ \A k \in Credentials : Unrevoked(k)' => /\ Whose(k) # f /\ Unrevoked(k)
                                                   /\ credential'[k] = credential[k]
    BY <1>2, RevokedRows
  <1>6. /\ RebindsOK'
        /\ \A r \in Rebinds : rebind'[r].status \in Standing => rebind[r].status \in Standing
    BY <1>2, SupersededRows DEF RebindsOK
  <1>7. CustodyTypeOK'
    BY <1>2, <1>3, <1>4, <1>5, <1>6, Ended DEF AccountsOK
  <1>8. CredentialsFollowCustody'
    BY <1>3, <1>5, Subject DEF CredentialsFollowCustody, Credentials
  <1>9. NothingRegained
    BY <1>2, <1>3, <1>4, <1>5, <1>6 DEF NothingRegained, Awake
  <1> QED
    BY <1>7, <1>8, <1>9, StaysSuspended

LEMMA WriteMintKeeps ==
    ASSUME CustodyInv, NEW c \in Calls, WriteMint(c)
    PROVE  CustodyInv'
  <1> USE DEF CustodyInv, CustodyTypeOK
  <1> DEFINE row == [status |-> "awaiting-claim", transfer |-> memo[c].seen,
                     expires |-> memo[c].at + Term, matches |-> FALSE]
             others == Superseded(RebindsOf(About[c]))
  <1>1. c \in Rebinds /\ row \in RebindRows
    <2>1. c \in Rebinds /\ memo[c].seen \in Transfers
      BY Topics DEF WriteMint, Ends, CallsOK, Placed
    <2>2. memo[c].at + Term \in Nat
      BY Parties DEF CallsOK, Memos
    <2> QED
      BY <2>1, <2>2 DEF RebindRows, RebindStatuses, Standing
  <1>2. rebind' = [others EXCEPT ![c] = row]
    BY DEF WriteMint
  <1>3. /\ others \in [Rebinds -> RebindRows]
        /\ \A r \in Rebinds : others[r].status \in Standing => rebind[r].status \in Standing
    BY SupersededRows
  <1> HIDE DEF row, others
  <1>4. RebindsOK'
    BY <1>1, <1>2, <1>3 DEF RebindsOK
  <1>5. \A r \in Rebinds : r # c /\ rebind'[r].status \in Standing => rebind[r].status \in Standing
    BY <1>1, <1>2, <1>3
  <1>6. CustodyTypeOK'
    BY <1>4, Ended DEF WriteMint, FellowsOK, TransfersOK, CredentialsOK, AccountsOK
  <1>7. CustodyStays
    BY DEF WriteMint, CustodyStays, Unrevoked
  <1>8. NothingRegained
    BY <1>5 DEF WriteMint, NothingRegained, Unrevoked, Barred
  <1> QED
    BY <1>6, <1>7, <1>8, Preserved

LEMMA ClaimKeeps ==
    ASSUME CustodyInv, NEW r \in Rebinds, Claim(r)
    PROVE  CustodyInv'
  <1> USE DEF CustodyInv, CustodyTypeOK
  <1> PICK matches \in BOOLEAN :
          rebind' = [rebind EXCEPT ![r].status = "awaiting-approval", ![r].matches = matches]
    BY DEF Claim
  <1>1. RebindsOK'
    BY DEF RebindsOK, RebindRows, RebindStatuses, Standing
  <1>2. \A q \in Rebinds : q # r => rebind'[q] = rebind[q]
    BY DEF RebindsOK
  <1>3. CustodyTypeOK'
    BY <1>1 DEF Claim, FellowsOK, TransfersOK, CredentialsOK, AccountsOK, CallsOK, Placed
  <1>4. CustodyStays
    BY DEF Claim, CustodyStays, Unrevoked
  <1>5. NothingRegained
    BY <1>2 DEF Claim, NothingRegained, Unrevoked, Barred
  <1> QED
    BY <1>3, <1>4, <1>5, Preserved

LEMMA WriteDecisionKeeps ==
    ASSUME CustodyInv, NEW c \in Calls, WriteDecision(c)
    PROVE  CustodyInv'
  <1> USE DEF CustodyInv, CustodyTypeOK
  <1> DEFINE r == About[c]
  <1>1. /\ r \in Rebinds
        /\ \/ Turns(r, "approved") /\ ~account[By[r]].suspended
           \/ Turns(r, "denied")
        /\ Ends(c, "write")
        /\ UNCHANGED <<fellow, transfer, credential, account>>
    BY Topics DEF WriteDecision, Barred
  <1> HIDE DEF r
  <1>2. /\ RebindsOK'
        /\ \A q \in Rebinds : q # r => rebind'[q] = rebind[q]
        /\ account[By[r]].suspended => rebind'[r].status = "denied"
    BY <1>1, TurnedRows DEF RebindStatuses, Standing
  <1>3. CustodyTypeOK'
    BY <1>1, <1>2, Ended DEF FellowsOK, TransfersOK, CredentialsOK, AccountsOK
  <1>4. CustodyStays
    BY <1>1 DEF CustodyStays, Unrevoked
  <1>5. NothingRegained
    BY <1>1, <1>2 DEF NothingRegained, Unrevoked, Standing
  <1> QED
    BY <1>3, <1>4, <1>5, Preserved

LEMMA WriteLapseKeeps ==
    ASSUME CustodyInv, NEW c \in Calls, WriteLapse(c)
    PROVE  CustodyInv'
  <1> USE DEF CustodyInv, CustodyTypeOK
  <1> DEFINE r == About[c]
  <1>1. /\ r \in Rebinds /\ Turns(r, "expired") /\ Ends(c, "lapse")
        /\ UNCHANGED <<fellow, transfer, credential, account>>
    BY Topics DEF WriteLapse, Ends, CallsOK, Placed
  <1> HIDE DEF r
  <1>2. /\ RebindsOK'
        /\ \A q \in Rebinds : q # r => rebind'[q] = rebind[q]
        /\ rebind'[r].status = "expired"
    BY <1>1, TurnedRows DEF RebindStatuses
  <1>3. CustodyTypeOK'
    BY <1>1, <1>2, Ended DEF FellowsOK, TransfersOK, CredentialsOK, AccountsOK
  <1>4. CustodyStays /\ NothingRegained
    BY <1>1, <1>2 DEF CustodyStays, NothingRegained, Unrevoked, Standing
  <1> QED
    BY <1>3, <1>4, Preserved

(* A redemption issues a credential, for the sponsor that has the Fellow and  *)
(* no earlier than its grant.                                                 *)
LEMMA RedeemKeeps ==
    ASSUME CustodyInv, NEW c \in Calls, Redeem(c)
    PROVE  CustodyInv'
  <1> USE DEF CustodyInv, CustodyTypeOK
  <1> DEFINE r == About[c]
             f == About[r]
  <1>1. /\ r \in Rebinds /\ f \in Identities /\ memo[c].at \in Nat
        /\ Whose(r) = f /\ SponsorOf(r) = By[r]
    BY Topics, Subject, Parties DEF Redeem, Ends, CallsOK, Placed, Memos, Whose, SponsorOf
  <1>2. /\ fellow[f].sponsor = By[r] /\ memo[c].at >= fellow[f].granted
        /\ ~account[By[r]].suspended
        /\ Turns(r, "redeemed")
        /\ credential' = [credential EXCEPT ![r].issued = memo[c].at]
        /\ Ends(c, "redeem")
        /\ UNCHANGED <<fellow, transfer, account>>
    BY DEF Redeem, StillCurrent, Moved, Owns, Barred
  <1> HIDE DEF r, f
  <1>3. /\ RebindsOK'
        /\ \A q \in Rebinds : q # r => rebind'[q] = rebind[q]
        /\ rebind'[r].status = "redeemed"
    BY <1>1, <1>2, TurnedRows DEF RebindStatuses
  <1>4. /\ CredentialsOK'
        /\ \A k \in Credentials : k # r => credential'[k] = credential[k]
        /\ credential'[r].issued = memo[c].at
    BY <1>1, <1>2 DEF CredentialsOK, CredentialRows, Credentials
  <1>5. CustodyTypeOK'
    BY <1>2, <1>3, <1>4, Ended DEF FellowsOK, TransfersOK, AccountsOK
  <1>6. CredentialsFollowCustody'
    <2> SUFFICES ASSUME NEW k \in Credentials, Unrevoked(k)'
                 PROVE  /\ SponsorOf(k) = fellow[Whose(k)].sponsor
                        /\ credential'[k].issued >= fellow[Whose(k)].granted
      BY <1>2 DEF CredentialsFollowCustody, Credentials
    <2>1. CASE k = r
      BY <2>1, <1>1, <1>2, <1>4
    <2>2. CASE k # r
      BY <2>2, <1>4 DEF CredentialsFollowCustody, Credentials, Unrevoked
    <2> QED
      BY <2>1, <2>2
  <1>7. NothingRegained
    BY <1>1, <1>2, <1>3, <1>4 DEF NothingRegained, Unrevoked, Standing
  <1> QED
    BY <1>5, <1>6, <1>7, StaysSuspended

LEMMA AcquireKeeps ==
    ASSUME CustodyInv, NEW c \in Calls, Acquire(c)
    PROVE  CustodyInv'
  <1> USE DEF CustodyInv, CustodyTypeOK
  <1>1. By[c] \in Sponsors /\ moment \in Nat /\ moment + Term \in Nat
    BY Parties DEF CallsOK
  <1>2. account[By[c]].head \in Nat
    BY <1>1 DEF AccountsOK, Accounts
  <1>3. /\ AccountsOK'
        /\ \A s \in Sponsors : account'[s].suspended = account[s].suspended
    BY <1>1 DEF Acquire, AccountsOK, Accounts
  <1>4. CallsOK'
    <2>1. [at |-> moment, seen |-> Nobody, head |-> account[By[c]].head] \in Memos
      BY <1>1, <1>2 DEF Memos
    <2>2. memo' \in [Calls -> Memos] /\ step' \in [Calls -> Steps]
      BY <2>1 DEF Acquire, CallsOK, Steps
    <2>3. \A d \in Calls : Placed(d)'
      <3> TAKE d \in Calls
      <3>1. CASE d = c
        BY <3>1 DEF Acquire, CallsOK, Placed, Steps
      <3>2. CASE d # c
        BY <3>2 DEF Acquire, CallsOK, Placed
      <3> QED
        BY <3>1, <3>2
    <2> QED
      BY <1>1, <2>2, <2>3 DEF Acquire, CallsOK
  <1>5. CustodyTypeOK'
    BY <1>3, <1>4 DEF Acquire, FellowsOK, TransfersOK, RebindsOK, CredentialsOK
  <1>6. CustodyStays /\ NothingRegained
    BY <1>3 DEF Acquire, CustodyStays, NothingRegained, Unrevoked
  <1> QED
    BY <1>5, <1>6, Preserved

LEMMA SightOK ==
    ASSUME CustodyInv, NEW c \in Calls, step[c] = "reserved"
    PROVE  /\ Sight(c) \in Statuses \cup {Nobody} \cup Nat
           /\ Op[c] = "panic" => Sight(c) \in Nat
  <1> USE DEF CustodyInv, CustodyTypeOK
  <1>1. CASE Op[c] = "status"
    <2>1. About[c] \in Identities
      BY <1>1, Topics
    <2>2. fellow[About[c]].status \in Statuses
      BY <2>1 DEF FellowsOK, Fellows
    <2> QED
      BY <1>1, <2>2 DEF Sight
  <1>2. CASE Op[c] = "panic"
    <2>1. account[By[c]].panic \in Nat /\ memo[c].at \in Nat
      BY Parties DEF AccountsOK, Accounts, CallsOK, Memos
    <2> QED
      BY <1>2, <2>1 DEF Sight
  <1>3. CASE Op[c] = "revoke"
    BY <1>3 DEF Sight
  <1> QED
    BY <1>1, <1>2, <1>3 DEF CallsOK, Placed

LEMMA ExamineKeeps ==
    ASSUME CustodyInv, NEW c \in Calls, Examine(c)
    PROVE  CustodyInv'
  <1> USE DEF CustodyInv, CustodyTypeOK
  <1>1. \A d \in Calls : d # c => Placed(d)'
    BY DEF Examine, CallsOK, Placed
  <1>2. step' \in [Calls -> Steps] /\ moment' \in Nat
    BY DEF Examine, CallsOK, Steps
  <1>3. CASE step' = [step EXCEPT ![c] = "command"] /\ memo' = [memo EXCEPT ![c].seen = Sight(c)]
    <2>1. Sight(c) \in Statuses \cup {Nobody} \cup Nat /\ (Op[c] = "panic" => Sight(c) \in Nat)
      BY SightOK DEF Examine
    <2>2. memo' \in [Calls -> Memos]
      BY <1>3, <2>1 DEF CallsOK, Memos
    <2>3. Placed(c)'
      BY <1>3, <2>1 DEF Examine, CallsOK, Placed
    <2> QED
      BY <1>1, <1>2, <2>2, <2>3, RowsKept DEF Examine, CallsOK
  <1>4. CASE step' = [step EXCEPT ![c] = "release"] /\ memo' = memo
    <2>1. Placed(c)'
      BY <1>4 DEF Examine, CallsOK, Placed
    <2> QED
      BY <1>1, <1>2, <1>4, <2>1, RowsKept DEF Examine, CallsOK
  <1> QED
    BY <1>3, <1>4 DEF Examine

(* A command changes the status of a Fellow, revokes a credential or moves    *)
(* the panic of its sponsor.  It wakes no Fellow of a suspended sponsor.      *)
LEMMA CommandKeeps ==
    ASSUME CustodyInv, NEW c \in Calls, Command(c)
    PROVE  CustodyInv'
  <1> USE DEF CustodyInv, CustodyTypeOK
  <1>1. Op[c] \in {"status", "revoke", "panic"}
    BY DEF Command, CallsOK, Placed
  <1>2. \A next \in {"done", "release"} : step' = [step EXCEPT ![c] = next] => CallsOK'
    <2> TAKE next \in {"done", "release"}
    <2> HAVE step' = [step EXCEPT ![c] = next]
    <2>1. Placed(c)'
      BY <1>1 DEF Command, CallsOK, Placed
    <2> QED
      BY <2>1, StepTaken DEF Command, Steps
  <1>3. CallsOK'
    BY <1>2 DEF Command
  <1>4. CASE Commits(c)
    <2>1. fellow' = fellow \/ (/\ Op[c] = "status"
                               /\ fellow' = [fellow EXCEPT
                                    ![About[c]].status = To[c],
                                    ![About[c]].ended = @ \/ To[c] \in {"revoked", "compromised"}])
      BY <1>4 DEF Command
    <2>2. /\ FellowsOK'
          /\ \A f \in Identities : /\ fellow'[f].sponsor = fellow[f].sponsor
                                   /\ fellow'[f].granted = fellow[f].granted
      BY <2>1, Topics DEF FellowsOK, Fellows
    <2>3. \A f \in Identities :
             account[fellow[f].sponsor].suspended /\ fellow'[f].status \in Awake =>
                 fellow[f].status \in Awake
      <3>1. Op[c] = "status" => /\ Owns(By[c], About[c])
                                /\ To[c] \in Awake => ~account[By[c]].suspended
        BY <1>4 DEF Commits, Current, Barred
      <3> QED
        BY <2>1, <3>1 DEF Owns, FellowsOK, Fellows
    <2>4. /\ CredentialsOK'
          /\ \A k \in Credentials : Unrevoked(k)' => Unrevoked(k) /\ credential'[k] = credential[k]
      <3>1. credential' = Revoked({About[c]}) \/ credential' = credential
        BY <1>4 DEF Command
      <3> QED
        BY <3>1, RevokedRows DEF CredentialsOK, Unrevoked
    <2>5. /\ AccountsOK'
          /\ \A s \in Sponsors : account'[s].suspended = account[s].suspended
      <3>1. Op[c] = "panic" => memo[c].seen \in Nat
        BY DEF Command, CallsOK, Placed
      <3>2. By[c] \in Sponsors
        BY Parties
      <3> QED
        BY <1>4, <3>1, <3>2 DEF Command, AccountsOK, Accounts
    <2>6. CustodyTypeOK'
      BY <1>3, <2>2, <2>4, <2>5 DEF Command, TransfersOK, RebindsOK
    <2>7. CustodyStays
      BY <2>2, <2>4 DEF CustodyStays
    <2>8. NothingRegained
      BY <2>2, <2>3, <2>4, <2>5 DEF Command, NothingRegained
    <2> QED
      BY <2>6, <2>7, <2>8, Preserved
  <1>5. CASE ~Commits(c)
    BY <1>3, <1>5, RowsKept DEF Command, custodyRows
  <1> QED
    BY <1>4, <1>5

LEMMA GiveBackKeeps ==
    ASSUME CustodyInv, NEW c \in Calls, GiveBack(c)
    PROVE  CustodyInv'
  <1> USE DEF CustodyInv, CustodyTypeOK
  <1>1. /\ AccountsOK'
        /\ \A s \in Sponsors : account'[s].suspended = account[s].suspended
    BY Parties DEF GiveBack, AccountsOK, Accounts
  <1>2. CustodyTypeOK'
    BY <1>1, Ended DEF GiveBack, FellowsOK, TransfersOK, RebindsOK, CredentialsOK
  <1>3. CustodyStays /\ NothingRegained
    BY <1>1 DEF GiveBack, CustodyStays, NothingRegained, Unrevoked
  <1> QED
    BY <1>2, <1>3, Preserved

-----------------------------------------------------------------------------
(* The end of an account *)

(* What a suspension and a deletion have in common: nothing of the sponsor is *)
(* left awake, unrevoked, pending or standing, and nobody else gains a thing. *)
LEMMA ClosingRows ==
    ASSUME CustodyInv, NEW s \in Sponsors, NEW from, NEW status \in {"paused", "revoked"},
           Awake \subseteq from, Closes(s, from, status)
    PROVE  /\ FellowsOK' /\ TransfersOK' /\ RebindsOK' /\ CredentialsOK' /\ CallsOK'
           /\ CustodyStays
           /\ \A f \in Identities :
                 fellow'[f].status \in Awake => fellow[f].sponsor # s /\ fellow[f].status \in Awake
           /\ \A c \in Credentials : Unrevoked(c)' => SponsorOf(c) # s /\ Unrevoked(c)
           /\ \A t \in Transfers :
                 transfer'[t].status = "pending" => /\ By[t] # s /\ To[t] # s
                                                    /\ transfer[t].status = "pending"
           /\ \A r \in Rebinds :
                 rebind'[r].status \in Standing => By[r] # s /\ rebind[r].status \in Standing
  <1> USE DEF CustodyInv, CustodyTypeOK
  <1> DEFINE its == {c \in DOMAIN credential : SponsorOf(c) = s}
             theirs == {r \in Rebinds : By[r] = s}
  <1>1. /\ credential' = Revoked(its)
        /\ transfer' = Resolved(Involving(s), "cancelled", moment)
        /\ rebind' = Superseded(theirs)
        /\ fellow' = Ousted(s, from, status)
        /\ moment \in Nat
    BY DEF Closes, CallsOK
  <1>2. /\ CredentialsOK'
        /\ \A c \in Credentials :
              Unrevoked(c)' => c \notin its /\ Unrevoked(c) /\ credential'[c] = credential[c]
    <2> HIDE DEF its
    <2> QED
      BY <1>1, RevokedRows
  <1>3. /\ TransfersOK'
        /\ \A t \in Transfers :
              transfer'[t].status = "pending" => /\ t \notin Involving(s)
                                                 /\ transfer[t].status = "pending"
    BY <1>1, ResolvedRows DEF TransferStatuses
  <1>4. /\ RebindsOK'
        /\ \A r \in Rebinds :
              rebind'[r].status \in Standing => r \notin theirs /\ rebind[r].status \in Standing
    <2> HIDE DEF theirs
    <2> QED
      BY <1>1, SupersededRows DEF RebindsOK
  <1>5. /\ FellowsOK'
        /\ \A f \in Identities : /\ fellow'[f].sponsor = fellow[f].sponsor
                                 /\ fellow'[f].granted = fellow[f].granted
    BY <1>1 DEF Ousted, FellowsOK, Fellows, Statuses
  <1>6. \A f \in Identities :
           fellow'[f].status \in Awake => fellow[f].sponsor # s /\ fellow[f].status \in Awake
    BY <1>1 DEF Ousted, Owns, FellowsOK, Fellows, Awake
  <1>7. \A c \in Credentials : c \in its <=> SponsorOf(c) = s
    BY DEF CredentialsOK
  <1>8. CallsOK'
    BY DEF Closes, CallsOK, Placed
  <1>9. CustodyStays
    BY <1>2, <1>5 DEF CustodyStays
  <1> HIDE DEF its
  <1> QED
    BY <1>2, <1>3, <1>4, <1>5, <1>6, <1>7, <1>8, <1>9 DEF Involving

LEMMA SuspendKeeps ==
    ASSUME CustodyInv, NEW s \in Sponsors, Suspend(s)
    PROVE  CustodyInv'
  <1> USE DEF CustodyInv, CustodyTypeOK
  <1>1. /\ AccountsOK'
        /\ \A q \in Sponsors : q # s => account'[q].suspended = account[q].suspended
    BY DEF Suspend, AccountsOK, Accounts
  <1>2. Closes(s, Awake, "paused")
    BY DEF Suspend
  <1>3. CustodyTypeOK' /\ CustodyStays
    BY <1>1, <1>2, ClosingRows
  <1>4. SuspendedHoldNothing'
    <2> SUFFICES ASSUME NEW q \in Sponsors, account'[q].suspended
                 PROVE  /\ \A f \in Identities : fellow'[f].sponsor = q => fellow'[f].status \notin Awake
                        /\ \A c \in Credentials : SponsorOf(c) = q => ~Unrevoked(c)'
                        /\ \A t \in Transfers :
                              By[t] = q \/ To[t] = q => transfer'[t].status # "pending"
                        /\ \A r \in Rebinds : By[r] = q => rebind'[r].status \notin Standing
      BY DEF SuspendedHoldNothing, Owns, Involving, Credentials
    <2>1. CASE q = s
      BY <1>2, <1>3, <2>1, ClosingRows DEF CustodyStays
    <2>2. CASE q # s
      <3>1. account[q].suspended
        BY <1>1, <2>2
      <3> QED
        BY <1>2, <1>3, <3>1, ClosingRows
        DEF SuspendedHoldNothing, Owns, Involving, Credentials, CustodyStays
    <2> QED
      BY <2>1, <2>2
  <1> QED
    BY <1>3, <1>4, StaysInCustody

LEMMA DeleteKeeps ==
    ASSUME CustodyInv, NEW s \in Sponsors, Delete(s)
    PROVE  CustodyInv'
  <1> USE DEF CustodyInv, CustodyTypeOK
  <1>1. /\ AccountsOK'
        /\ \A q \in Sponsors : account'[q].suspended = account[q].suspended
    BY DEF Delete, AccountsOK, Accounts
  <1>2. Closes(s, Statuses, "revoked") /\ Awake \subseteq Statuses
    BY DEF Delete, Awake, Statuses
  <1>3. CustodyTypeOK' /\ CustodyStays
    BY <1>1, <1>2, ClosingRows
  <1>4. NothingRegained
    BY <1>1, <1>2, <1>3, ClosingRows DEF NothingRegained, CustodyStays
  <1> QED
    BY <1>3, <1>4, Preserved

LEMMA PassKeeps ==
    ASSUME CustodyInv, Pass
    PROVE  CustodyInv'
  <1>1. CallsOK'
    BY DEF CustodyInv, CustodyTypeOK, Pass, CallsOK, Placed
  <1> QED
    BY <1>1, RowsKept DEF Pass

-----------------------------------------------------------------------------
LEMMA InitKeeps == CustodyInit => CustodyInv
  <1> SUFFICES ASSUME CustodyInit PROVE CustodyInv
    OBVIOUS
  <1>1. FellowsOK
    BY Parties DEF CustodyInit, FellowsOK, Fellows, Statuses
  <1>2. TransfersOK /\ RebindsOK
    BY DEF CustodyInit, TransfersOK, TransferRows, TransferStatuses, RebindsOK, RebindRows,
           RebindStatuses
  <1>3. CredentialsOK /\ AccountsOK
    BY DEF CustodyInit, CredentialsOK, CredentialRows, Credentials, AccountsOK, Accounts
  <1>4. CallsOK
    BY DEF CustodyInit, CallsOK, Memos, Steps, Placed
  <1>5. CredentialsFollowCustody
    BY Parties DEF CustodyInit, CredentialsFollowCustody, Unrevoked, Whose, SponsorOf
  <1>6. SuspendedHoldNothing
    BY DEF CustodyInit, SuspendedHoldNothing
  <1> QED
    BY <1>1, <1>2, <1>3, <1>4, <1>5, <1>6 DEF CustodyInv, CustodyTypeOK

LEMMA NextKeeps == CustodyInv /\ [CustodyNext]_custodyVars => CustodyInv'
  <1> SUFFICES ASSUME CustodyInv, [CustodyNext]_custodyVars PROVE CustodyInv'
    OBVIOUS
  <1>1. CASE UNCHANGED custodyVars
    <2>1. CallsOK'
      BY <1>1 DEF CustodyInv, CustodyTypeOK, custodyVars, CallsOK, Placed
    <2> QED
      BY <1>1, <2>1, RowsKept DEF custodyVars
  <1>2. ASSUME NEW c \in Calls,
               ReadOffer(c) \/ WriteOffer(c) \/ ReadTransfer(c) \/ Expire(c) \/ WriteRefusal(c)
        PROVE  CustodyInv'
    BY <1>2, ReadOfferKeeps, WriteOfferKeeps, ReadTransferKeeps, ExpireKeeps, WriteRefusalKeeps
  <1>3. ASSUME NEW c \in Calls, WriteAcceptance(c) \/ ReadMint(c) \/ WriteMint(c)
        PROVE  CustodyInv'
    BY <1>3, WriteAcceptanceKeeps, ReadMintKeeps, WriteMintKeeps
  <1>4. ASSUME NEW c \in Calls, ReadDecision(c) \/ WriteDecision(c) \/ ReadPoll(c)
                                \/ WriteLapse(c) \/ Redeem(c)
        PROVE  CustodyInv'
    BY <1>4, ReadDecisionKeeps, WriteDecisionKeeps, ReadPollKeeps, WriteLapseKeeps, RedeemKeeps
  <1>5. ASSUME NEW c \in Calls, Acquire(c) \/ Examine(c) \/ Command(c) \/ GiveBack(c)
        PROVE  CustodyInv'
    BY <1>5, AcquireKeeps, ExamineKeeps, CommandKeeps, GiveBackKeeps
  <1>6. ASSUME NEW r \in Rebinds, Claim(r) PROVE CustodyInv'
    BY <1>6, ClaimKeeps
  <1>7. ASSUME NEW s \in Sponsors, ListTransfers(s) \/ Suspend(s) \/ Delete(s) PROVE CustodyInv'
    BY <1>7, ListTransfersKeeps, SuspendKeeps, DeleteKeeps
  <1>8. CASE Pass
    BY <1>8, PassKeeps
  <1> QED
    BY <1>1, <1>2, <1>3, <1>4, <1>5, <1>6, <1>7, <1>8 DEF CustodyNext

(* The inductive invariant holds throughout. *)
LEMMA CustodyInvariant == CustodySpec => []CustodyInv
  BY InitKeeps, NextKeeps, PTL DEF CustodySpec

-----------------------------------------------------------------------------
(* Every variable keeps its type, and a request in flight remembers what its  *)
(* next statement needs (the handlers of d1-store.ts).                        *)
THEOREM CustodyTypes == CustodySpec => []CustodyTypeOK
  <1>1. CustodyInv => CustodyTypeOK
    BY DEF CustodyInv
  <1> QED
    BY <1>1, CustodyInvariant, PTL

(* However often a Fellow changes hands, and whatever request is late, a      *)
(* credential that works is held by the sponsor that has the Fellow now,      *)
(* under the grant it has it by (acceptTransfer, pollRebind, 0088, 0089).     *)
THEOREM CustodyIsExclusive == CustodySpec => []CredentialsFollowCustody
  <1>1. CustodyInv => CredentialsFollowCustody
    BY DEF CustodyInv
  <1> QED
    BY <1>1, CustodyInvariant, PTL

(* No request that was admitted before the suspension of a sponsor gives it   *)
(* anything back (the triggers of 0109).                                      *)
THEOREM SuspensionHolds == CustodySpec => []SuspendedHoldNothing
  <1>1. CustodyInv => SuspendedHoldNothing
    BY DEF CustodyInv
  <1> QED
    BY <1>1, CustodyInvariant, PTL

-----------------------------------------------------------------------------
(* What ends, and what does not *)

(* A Fellow that has ended comes back by an acceptance only, as paused, and   *)
(* with the sponsor that accepts it; a revoked one only by an acceptance of   *)
(* an offer that was accepted before, in the same instant.                    *)
RevivedByAcceptance ==
    [][\A f \in Identities :
          fellow[f].status \notin Alive /\ fellow'[f].status \in Alive =>
              \E t \in Transfers :
                  /\ About[t] = f /\ transfer'[t].status = "accepted"
                  /\ fellow'[f].sponsor = To[t] /\ fellow'[f].status = "paused"
                  /\ fellow'[f].granted = transfer'[t].resolved
                  /\ fellow[f].status = "revoked" => transfer'[t] = transfer[t]]_custodyVars

(* An accepted offer is changed by nothing but the expiry of a request that   *)
(* took its clock after the acceptance, and had read the offer before it.     *)
OverwrittenByLateExpiry ==
    [][\A t \in Transfers :
          transfer[t].status = "accepted" /\ transfer'[t] # transfer[t] =>
              \E c \in Calls : /\ step[c] = "expire" /\ memo[c].seen = t
                               /\ memo[c].at > transfer[t].resolved
                               /\ transfer'[t].status = "expired"]_custodyVars

\* What is resolved was pending.
LEMMA ResolvedWere ==
    ASSUME TransfersOK, NEW S, NEW status \in TransferStatuses, NEW at \in Nat,
           transfer' = Resolved(S, status, at), NEW t \in Transfers
    PROVE  \/ transfer'[t] = transfer[t] /\ (t \in S => transfer[t].status # "pending")
           \/ /\ t \in S /\ transfer[t].status = "pending"
              /\ transfer'[t].status = status /\ transfer'[t].resolved = at
              /\ transfer'[t].expires = transfer[t].expires
  BY DEF TransfersOK, TransferRows, Resolved

\* An acceptance, whether it is the first of its instant or not.
LEMMA AcceptanceFacts ==
    ASSUME CustodyTypeOK, NEW c \in Calls, WriteAcceptance(c)
    PROVE  LET t == About[c] IN
           /\ t \in Transfers /\ About[t] \in Identities
           /\ transfer'[t].status = "accepted" /\ transfer'[t].resolved = memo[c].at
           /\ fellow' = [fellow EXCEPT ![About[t]].sponsor = To[t], ![About[t]].status = "paused",
                                       ![About[t]].granted = memo[c].at]
           /\ \A u \in Transfers : transfer'[u] # transfer[u] => u = t /\ Accepts(c)
           /\ transfer'[t].expires = transfer[t].expires
  <1> DEFINE t == About[c]
  <1>1. t \in Transfers /\ About[t] \in Identities
    <2>1. t \in Transfers
      BY Topics DEF WriteAcceptance
    <2> QED
      BY <2>1, Topics, Parties
  <1>2. transfer' = Resolved({t}, "accepted", memo[c].at) /\ memo[c].at \in Nat
    BY DEF WriteAcceptance, CustodyTypeOK, CallsOK, Memos
  <1>3. Accepts(c) \/ Bears(c)
    BY DEF WriteAcceptance
  <1>4. \A u \in Transfers :
           \/ transfer'[u] = transfer[u] /\ (u \in {t} => transfer[u].status # "pending")
           \/ /\ u \in {t} /\ transfer[u].status = "pending"
              /\ transfer'[u].status = "accepted" /\ transfer'[u].resolved = memo[c].at
              /\ transfer'[u].expires = transfer[u].expires
    <2>1. TransfersOK /\ "accepted" \in TransferStatuses
      BY DEF CustodyTypeOK, TransferStatuses
    <2>2. ASSUME NEW u \in Transfers
          PROVE  \/ transfer'[u] = transfer[u] /\ (u \in {t} => transfer[u].status # "pending")
                 \/ /\ u \in {t} /\ transfer[u].status = "pending"
                    /\ transfer'[u].status = "accepted" /\ transfer'[u].resolved = memo[c].at
                    /\ transfer'[u].expires = transfer[u].expires
      BY <1>2, <2>1, ResolvedWere
    <2> QED
      BY <2>2
  <1>5. transfer'[t].status = "accepted" /\ transfer'[t].resolved = memo[c].at
    BY <1>1, <1>3, <1>4 DEF Accepts, Bears
  <1>6. \A u \in Transfers : transfer'[u] # transfer[u] => u = t /\ Accepts(c)
    BY <1>1, <1>3, <1>4 DEF Bears
  <1>7. transfer'[t].expires = transfer[t].expires
    BY <1>1, <1>4
  <1> QED
    BY <1>1, <1>5, <1>6, <1>7 DEF WriteAcceptance

LEMMA OthersStayEnded ==
    ASSUME CustodyTypeOK, [CustodyNext]_custodyVars, NEW f \in Identities, fellow[f].status \notin Alive
    PROVE  \/ fellow'[f].status \notin Alive
           \/ \E c \in Calls : WriteAcceptance(c)
  <1>1. CASE UNCHANGED fellow
    BY <1>1
  <1>2. ASSUME NEW c \in Calls, Command(c), ~UNCHANGED fellow PROVE fellow'[f].status \notin Alive
    <2>1. /\ Op[c] = "status" /\ Allowed(fellow[About[c]].status, To[c])
          /\ fellow' = [fellow EXCEPT ![About[c]].status = To[c],
                                      ![About[c]].ended = @ \/ To[c] \in {"revoked", "compromised"}]
      BY <1>2 DEF Command, Commits, Current
    <2>2. CASE About[c] = f
      BY <2>1, <2>2 DEF CustodyTypeOK, FellowsOK, Fellows, Allowed, Alive
    <2>3. CASE About[c] # f
      BY <2>1, <2>3 DEF CustodyTypeOK, FellowsOK
    <2> QED
      BY <2>2, <2>3
  <1>3. ASSUME NEW s \in Sponsors, Suspend(s) \/ Delete(s) PROVE fellow'[f].status \notin Alive
    <2>1. fellow' = Ousted(s, Awake, "paused") \/ fellow' = Ousted(s, Statuses, "revoked")
      BY <1>3 DEF Suspend, Delete, Closes
    <2> QED
      BY <2>1 DEF Ousted, CustodyTypeOK, FellowsOK, Fellows, Alive, Awake
  <1>4. ASSUME NEW c \in Calls,
               ReadOffer(c) \/ WriteOffer(c) \/ ReadTransfer(c) \/ Expire(c) \/ WriteRefusal(c)
               \/ ReadMint(c) \/ WriteMint(c) \/ ReadDecision(c) \/ WriteDecision(c) \/ ReadPoll(c)
               \/ WriteLapse(c) \/ Redeem(c) \/ Acquire(c) \/ Examine(c) \/ GiveBack(c)
        PROVE  UNCHANGED fellow
    BY <1>4 DEF ReadOffer, WriteOffer, ReadTransfer, Expire, WriteRefusal, ReadMint, WriteMint, ReadDecision,
                WriteDecision, ReadPoll, WriteLapse, Redeem, Acquire, Examine, GiveBack, Reads, custodyRows
  <1>5. ASSUME NEW r \in Rebinds, Claim(r) PROVE UNCHANGED fellow
    BY <1>5 DEF Claim
  <1>6. ASSUME NEW s \in Sponsors, ListTransfers(s) PROVE UNCHANGED fellow
    BY <1>6 DEF ListTransfers
  <1>7. CASE Pass \/ UNCHANGED custodyVars
    BY <1>1, <1>7 DEF Pass, custodyVars, custodyRows
  <1> QED
    BY <1>1, <1>2, <1>3, <1>4, <1>5, <1>6, <1>7 DEF CustodyNext

(* What does hold of "authority cannot be resurrected": no command, rebind,   *)
(* suspension or deletion brings an ended Fellow back, only the acceptance    *)
(* of a transfer (acceptTransfer, the transition trigger of 0109).            *)
THEOREM OnlyAcceptanceRevives == CustodySpec => RevivedByAcceptance
  <1> DEFINE Moves(f) ==
        \E t \in Transfers :
            /\ About[t] = f /\ transfer'[t].status = "accepted"
            /\ fellow'[f].sponsor = To[t] /\ fellow'[f].status = "paused"
            /\ fellow'[f].granted = transfer'[t].resolved
            /\ fellow[f].status = "revoked" => transfer'[t] = transfer[t]
  <1>1. CustodyInv /\ [CustodyNext]_custodyVars =>
           \A f \in Identities : fellow[f].status \notin Alive /\ fellow'[f].status \in Alive => Moves(f)
    <2> SUFFICES ASSUME CustodyInv, [CustodyNext]_custodyVars, NEW f \in Identities,
                        fellow[f].status \notin Alive, fellow'[f].status \in Alive
                 PROVE  Moves(f)
      OBVIOUS
    <2>1. CustodyTypeOK
      BY DEF CustodyInv
    <2>2. PICK c \in Calls : WriteAcceptance(c)
      BY <2>1, OthersStayEnded
    <2>3. PICK t \in Transfers :
             /\ t = About[c] /\ About[t] \in Identities
             /\ transfer'[t].status = "accepted" /\ transfer'[t].resolved = memo[c].at
             /\ fellow' = [fellow EXCEPT ![About[t]].sponsor = To[t], ![About[t]].status = "paused",
                                         ![About[t]].granted = memo[c].at]
             /\ transfer'[t] # transfer[t] => Accepts(c)
      BY <2>1, <2>2, AcceptanceFacts
    <2>4. About[t] = f
      <3>1. About[t] # f => fellow'[f] = fellow[f]
        BY <2>1, <2>3 DEF CustodyTypeOK, FellowsOK
      <3> QED
        BY <3>1
    <2>5. /\ fellow'[f].sponsor = To[t] /\ fellow'[f].status = "paused"
          /\ fellow'[f].granted = memo[c].at
      BY <2>1, <2>3, <2>4 DEF CustodyTypeOK, FellowsOK, Fellows
    <2>6. fellow[f].status = "revoked" => transfer'[t] = transfer[t]
      BY <2>3, <2>4 DEF Accepts, Movable
    <2> QED
      BY <2>3, <2>4, <2>5, <2>6
  <1> QED
    BY <1>1, CustodyInvariant, PTL DEF CustodySpec, RevivedByAcceptance

(* An offer enters once, with the last step of its request, and is accepted   *)
(* before it is overdue; who is about to expire it read its clock after that. *)
OffersAreTimely ==
    /\ \A t \in Transfers : transfer[t].status # "none" => step[t] = "done"
    /\ \A t \in Transfers : transfer[t].status = "accepted" => transfer[t].resolved < transfer[t].expires
    /\ \A c \in Calls : step[c] = "expire" => /\ transfer[memo[c].seen].status # "none"
                                              /\ transfer[memo[c].seen].expires <= memo[c].at

\* What a step may do to an offer.
OfferMoves(t) ==
    \/ transfer'[t] = transfer[t]
    \/ /\ transfer[t].status # "none" /\ transfer'[t].status # "none"
       /\ transfer'[t].expires = transfer[t].expires
       /\ transfer'[t].status = "accepted" => transfer'[t].resolved < transfer'[t].expires
    \/ transfer'[t].status = "pending" /\ step[t] = "write" /\ step'[t] = "done"

\* What a step may do to a request.
RequestMoves(c) ==
    /\ step[c] = "done" => step'[c] = "done"
    /\ step'[c] = "expire" =>
          \/ step[c] = "expire" /\ memo'[c] = memo[c]
          \/ /\ transfer[memo'[c].seen].status # "none" /\ memo'[c].seen \in Transfers
             /\ transfer[memo'[c].seen].expires <= memo'[c].at

LEMMA MovesAreTimely ==
    ASSUME CustodyTypeOK, CustodyTypeOK', OffersAreTimely,
           \A t \in Transfers : OfferMoves(t), \A c \in Calls : RequestMoves(c)
    PROVE  OffersAreTimely'
  <1>1. \A t \in Transfers : transfer'[t].status # "none" => step'[t] = "done"
    BY Parties DEF OffersAreTimely, OfferMoves, RequestMoves
  <1>2. \A t \in Transfers : transfer'[t].status = "accepted" => transfer'[t].resolved < transfer'[t].expires
    BY DEF OffersAreTimely, OfferMoves
  <1>3. \A t \in Transfers : transfer[t].status # "none" => /\ transfer'[t].status # "none"
                                                            /\ transfer'[t].expires = transfer[t].expires
    BY DEF OffersAreTimely, OfferMoves
  <1>4. ASSUME NEW c \in Calls, step'[c] = "expire"
        PROVE  /\ transfer'[memo'[c].seen].status # "none"
               /\ transfer'[memo'[c].seen].expires <= memo'[c].at
    <2>1. memo'[c].seen \in Transfers
      BY <1>4 DEF CustodyTypeOK, CallsOK, Placed
    <2>2. transfer[memo'[c].seen].status # "none" /\ transfer[memo'[c].seen].expires <= memo'[c].at
      BY <1>4 DEF RequestMoves, OffersAreTimely
    <2> QED
      BY <1>3, <2>1, <2>2
  <1> QED
    BY <1>1, <1>2, <1>4 DEF OffersAreTimely

\* A request that takes a step is not done, and does not become one that expires an offer.
LEMMA OneMoves ==
    ASSUME CustodyTypeOK, NEW c \in Calls, NEW next \in Steps \ {"expire"}, step[c] # "done",
           step' = [step EXCEPT ![c] = next], \A d \in Calls : d # c => memo'[d] = memo[d]
    PROVE  \A d \in Calls : RequestMoves(d)
  BY DEF CustodyTypeOK, CallsOK, RequestMoves

LEMMA EndsMoves ==
    ASSUME CustodyTypeOK, NEW c \in Calls, NEW where, where # "done", Ends(c, where)
    PROVE  \A d \in Calls : RequestMoves(d)
  BY OneMoves DEF Ends, Steps

LEMMA ReadsMoves ==
    ASSUME CustodyTypeOK, NEW c \in Calls, NEW next \in Steps, NEW seen, Reads(c, next, moment, seen),
           next = "expire" => /\ seen \in Transfers /\ transfer[seen].status = "pending"
                              /\ transfer[seen].expires <= moment
    PROVE  (\A d \in Calls : RequestMoves(d)) /\ (\A t \in Transfers : OfferMoves(t))
  <1>1. /\ step[c] = "start" /\ step' = [step EXCEPT ![c] = next]
        /\ memo' = [memo EXCEPT ![c] = [at |-> moment, seen |-> seen, head |-> 0]]
        /\ transfer' = transfer
    BY DEF Reads, custodyRows
  <1>2. memo'[c] = [at |-> moment, seen |-> seen, head |-> 0] /\ \A d \in Calls : d # c => memo'[d] = memo[d]
    BY <1>1 DEF CustodyTypeOK, CallsOK
  <1>3. CASE next # "expire"
    BY <1>1, <1>2, <1>3, OneMoves DEF OfferMoves
  <1>4. CASE next = "expire"
    <2>1. \A d \in Calls : d # c => step'[d] = step[d]
      BY <1>1 DEF CustodyTypeOK, CallsOK
    <2>2. \A d \in Calls : d # c => RequestMoves(d)
      BY <1>2, <2>1 DEF RequestMoves
    <2>3. RequestMoves(c)
      BY <1>1, <1>2, <1>4 DEF RequestMoves
    <2> QED
      BY <1>1, <2>2, <2>3 DEF OfferMoves
  <1> QED
    BY <1>3, <1>4

LEMMA RestMoves ==
    ASSUME UNCHANGED <<step, memo>>
    PROVE  \A d \in Calls : RequestMoves(d)
  BY DEF RequestMoves

\* The resolution of pending offers, but to "accepted".
LEMMA ResolutionMoves ==
    ASSUME TransfersOK, NEW S, NEW status \in TransferStatuses \ {"none", "accepted"}, NEW at \in Nat,
           transfer' = Resolved(S, status, at)
    PROVE  \A t \in Transfers : OfferMoves(t) /\ (transfer[t].status = "accepted" => transfer'[t] = transfer[t])
  <1> TAKE t \in Transfers
  <1>1. \/ transfer'[t] = transfer[t]
        \/ /\ transfer[t].status = "pending"
           /\ transfer'[t].status = status /\ transfer'[t].resolved = at
           /\ transfer'[t].expires = transfer[t].expires
    BY DEF TransfersOK, TransferRows, Resolved
  <1> QED
    BY <1>1 DEF OfferMoves

\* Every step moves offers and requests so, and spares an accepted offer unless it expires it.
Spares(t) ==
    \/ transfer[t].status # "accepted" \/ transfer'[t] = transfer[t]
    \/ \E c \in Calls : step[c] = "expire" /\ memo[c].seen = t /\ transfer'[t].status = "expired"

LEMMA TimelySteps ==
    ASSUME CustodyTypeOK, OffersAreTimely, [CustodyNext]_custodyVars
    PROVE  /\ \A d \in Calls : RequestMoves(d)
           /\ \A t \in Transfers : OfferMoves(t) /\ Spares(t)
  <1> USE DEF CustodyTypeOK, Spares
  <1> DEFINE Fine == /\ \A d \in Calls : RequestMoves(d)
                     /\ \A t \in Transfers : OfferMoves(t) /\ Spares(t)
  <1> SUFFICES Fine
    OBVIOUS
  <1>1. ASSUME UNCHANGED transfer, \A d \in Calls : RequestMoves(d) PROVE Fine
    BY <1>1 DEF OfferMoves
  <1>2. ASSUME NEW c \in Calls, NEW next \in Steps, NEW seen, Reads(c, next, moment, seen),
               next = "expire" => /\ seen \in Transfers /\ transfer[seen].status = "pending"
                                  /\ transfer[seen].expires <= moment
        PROVE  Fine
    BY <1>2, ReadsMoves DEF Reads, custodyRows
  <1>3. ASSUME NEW c \in Calls, NEW where, where # "done", Ends(c, where), UNCHANGED transfer PROVE Fine
    BY <1>1, <1>3, EndsMoves
  <1>4. ASSUME NEW c \in Calls, ReadOffer(c) PROVE Fine
    <2>1. CASE Reads(c, "write", moment, Nobody)
      BY <1>2, <2>1 DEF Steps
    <2>2. CASE \E t \in PendingOf(About[c]) : transfer[t].expires <= moment /\ Reads(c, "expire", moment, t)
      <3>1. PICK t \in PendingOf(About[c]) : transfer[t].expires <= moment /\ Reads(c, "expire", moment, t)
        BY <2>2
      <3>2. t \in Transfers /\ transfer[t].status = "pending"
        BY DEF PendingOf
      <3> QED
        BY <1>2, <3>1, <3>2 DEF Steps
    <2> QED
      BY <1>4, <2>1, <2>2 DEF ReadOffer
  <1>5. ASSUME NEW c \in Calls, ReadTransfer(c) PROVE Fine
    <2>1. About[c] \in Transfers /\ transfer[About[c]].status = "pending"
      BY <1>5, Topics DEF ReadTransfer
    <2>2. CASE transfer[About[c]].expires <= moment /\ Reads(c, "expire", moment, About[c])
      BY <1>2, <2>1, <2>2 DEF Steps
    <2>3. CASE Reads(c, "write", moment, Nobody)
      BY <1>2, <2>3 DEF Steps
    <2> QED
      BY <1>5, <2>2, <2>3 DEF ReadTransfer
  <1>6. ASSUME NEW c \in Calls, ReadMint(c) \/ ReadDecision(c) \/ ReadPoll(c) PROVE Fine
    <2>1. \E seen : \E next \in Steps \ {"expire"} : Reads(c, next, moment, seen)
      BY <1>6 DEF ReadMint, ReadDecision, ReadPoll, Steps
    <2> QED
      BY <1>2, <2>1
  <1>7. ASSUME NEW c \in Calls, WriteOffer(c) PROVE Fine
    <2>1. c \in Transfers
      BY <1>7, Topics DEF WriteOffer
    <2>2. step[c] = "write" /\ step'[c] = "done" /\ transfer[c].status = "none"
      BY <1>7, <2>1 DEF WriteOffer, Ends, CallsOK, OffersAreTimely
    <2>3. transfer'[c].status = "pending" /\ \A t \in Transfers : t # c => transfer'[t] = transfer[t]
      BY <1>7, <2>1 DEF WriteOffer, TransfersOK
    <2>4. \A t \in Transfers : OfferMoves(t) /\ Spares(t)
      BY <2>2, <2>3 DEF OfferMoves
    <2> QED
      BY <1>7, <2>4, EndsMoves DEF WriteOffer
  <1>8. ASSUME NEW c \in Calls, Expire(c) PROVE Fine
    <2> DEFINE seen == memo[c].seen
    <2>1. seen \in Transfers /\ step[c] = "expire"
      BY <1>8 DEF Expire, CallsOK, Placed
    <2>2. transfer[seen].status # "none"
      BY <2>1 DEF OffersAreTimely
    <2>3. /\ transfer'[seen].status = "expired" /\ transfer'[seen].expires = transfer[seen].expires
          /\ \A t \in Transfers : t # seen => transfer'[t] = transfer[t]
      BY <1>8, <2>1 DEF Expire, TransfersOK, TransferRows
    <2>4. \A t \in Transfers : OfferMoves(t) /\ Spares(t)
      BY <2>1, <2>2, <2>3 DEF OfferMoves
    <2>5. \A d \in Calls : RequestMoves(d)
      <3>1. CASE Op[c] = "offer"
        BY <1>8, <2>1, <3>1, OneMoves DEF Expire, Steps
      <3>2. CASE Op[c] # "offer"
        BY <1>8, <2>1, <3>2, OneMoves DEF Expire, Steps
      <3> QED
        BY <3>1, <3>2
    <2> QED
      BY <2>4, <2>5
  <1>9. ASSUME NEW c \in Calls, WriteRefusal(c) PROVE Fine
    <2>1. PICK status \in {"rejected", "cancelled"} : transfer' = Resolved({About[c]}, status, memo[c].at)
      BY <1>9 DEF WriteRefusal
    <2>2. memo[c].at \in Nat
      BY DEF CallsOK, Memos
    <2> QED
      BY <1>9, <2>1, <2>2, EndsMoves, ResolutionMoves DEF WriteRefusal, TransferStatuses
  <1>10. ASSUME NEW c \in Calls, WriteAcceptance(c) PROVE Fine
    <2>1. PICK t \in Transfers :
             /\ t = About[c] /\ transfer'[t].status = "accepted" /\ transfer'[t].resolved = memo[c].at
             /\ transfer'[t].expires = transfer[t].expires
             /\ \A u \in Transfers : transfer'[u] # transfer[u] => u = t /\ Accepts(c)
      BY <1>10, AcceptanceFacts
    <2>2. Accepts(c) => transfer[t].status = "pending" /\ transfer[t].expires > memo[c].at
      BY <2>1 DEF Accepts
    <2>3. memo[c].at \in Nat /\ transfer[t].expires \in Nat
      BY DEF CallsOK, Memos, TransfersOK, TransferRows
    <2>4. \A u \in Transfers : OfferMoves(u) /\ Spares(u)
      BY <2>1, <2>2, <2>3 DEF OfferMoves
    <2> QED
      BY <1>10, <2>4, EndsMoves DEF WriteAcceptance
  <1>11. ASSUME NEW c \in Calls,
                WriteMint(c) \/ WriteDecision(c) \/ WriteLapse(c) \/ Redeem(c) \/ GiveBack(c)
         PROVE  Fine
    BY <1>3, <1>11 DEF WriteMint, WriteDecision, WriteLapse, Redeem, GiveBack
  <1>12. ASSUME NEW c \in Calls, Acquire(c) \/ Examine(c) \/ Command(c) PROVE Fine
    <2>1. \E next \in Steps \ {"expire"} :
             /\ step[c] # "done" /\ step' = [step EXCEPT ![c] = next] /\ UNCHANGED transfer
      BY <1>12 DEF Acquire, Examine, Command, Steps, custodyRows
    <2>2. \A d \in Calls : d # c => memo'[d] = memo[d]
      BY <1>12 DEF Acquire, Examine, Command, CallsOK
    <2> QED
      BY <1>1, <2>1, <2>2, OneMoves
  <1>13. ASSUME NEW r \in Rebinds, Claim(r) PROVE Fine
    BY <1>1, <1>13, RestMoves DEF Claim
  <1>14. ASSUME NEW s \in Sponsors, ListTransfers(s) \/ Suspend(s) \/ Delete(s) PROVE Fine
    <2>1. \E S : \E status \in {"expired", "cancelled"} : transfer' = Resolved(S, status, moment)
      BY <1>14 DEF ListTransfers, Suspend, Delete, Closes
    <2>2. UNCHANGED <<step, memo>> /\ moment \in Nat
      BY <1>14 DEF ListTransfers, Suspend, Delete, Closes, CallsOK
    <2> QED
      BY <2>1, <2>2, RestMoves, ResolutionMoves DEF TransferStatuses
  <1>15. CASE Pass \/ UNCHANGED custodyVars
    BY <1>1, <1>15, RestMoves DEF Pass, custodyVars, custodyRows
  <1> HIDE DEF Fine
  <1>16. CASE \E c \in Calls : ReadOffer(c) \/ WriteOffer(c) \/ ReadTransfer(c) \/ Expire(c)
                             \/ WriteRefusal(c) \/ WriteAcceptance(c)
    BY <1>4, <1>5, <1>7, <1>8, <1>9, <1>10, <1>16
  <1>17. CASE \E c \in Calls : ReadMint(c) \/ WriteMint(c) \/ ReadDecision(c) \/ WriteDecision(c)
                             \/ ReadPoll(c) \/ WriteLapse(c) \/ Redeem(c)
                             \/ Acquire(c) \/ Examine(c) \/ Command(c) \/ GiveBack(c)
    BY <1>6, <1>11, <1>12, <1>17
  <1> QED
    BY <1>13, <1>14, <1>15, <1>16, <1>17 DEF CustodyNext

(* What does hold of "only a still-pending offer can be resolved": an offer   *)
(* that was accepted is lost only to a request that read it while it was      *)
(* pending, took its clock when the offer was overdue, and runs the statement *)
(* of initiateTransfer, acceptTransfer, rejectTransfer, cancelTransfer or     *)
(* getTransfer that does not look again.                                      *)
THEOREM OnlyLateExpiryOverwrites == CustodySpec => OverwrittenByLateExpiry
  <1> DEFINE Lost(t) == \E c \in Calls : /\ step[c] = "expire" /\ memo[c].seen = t
                                         /\ memo[c].at > transfer[t].resolved
                                         /\ transfer'[t].status = "expired"
  <1>1. CustodyInit => OffersAreTimely
    BY Parties DEF CustodyInit, OffersAreTimely
  <1>2. CustodyInv /\ CustodyInv' /\ OffersAreTimely /\ [CustodyNext]_custodyVars => OffersAreTimely'
    BY TimelySteps, MovesAreTimely DEF CustodyInv
  <1>3. CustodyInv /\ OffersAreTimely /\ [CustodyNext]_custodyVars =>
           \A t \in Transfers : transfer[t].status = "accepted" /\ transfer'[t] # transfer[t] => Lost(t)
    <2> SUFFICES ASSUME CustodyInv, OffersAreTimely, [CustodyNext]_custodyVars, NEW t \in Transfers,
                        transfer[t].status = "accepted", transfer'[t] # transfer[t]
                 PROVE  Lost(t)
      OBVIOUS
    <2>1. CustodyTypeOK
      BY DEF CustodyInv
    <2>2. PICK c \in Calls : step[c] = "expire" /\ memo[c].seen = t /\ transfer'[t].status = "expired"
      BY <2>1, TimelySteps DEF Spares
    <2>3. transfer[t].resolved < transfer[t].expires /\ transfer[t].expires <= memo[c].at
      BY <2>2 DEF OffersAreTimely
    <2>4. transfer[t].resolved \in Nat /\ transfer[t].expires \in Nat /\ memo[c].at \in Nat
      BY <2>1 DEF CustodyTypeOK, TransfersOK, TransferRows, CallsOK, Memos
    <2> QED
      BY <2>2, <2>3, <2>4
  <1> QED
    BY <1>1, <1>2, <1>3, CustodyInvariant, PTL DEF CustodySpec, OverwrittenByLateExpiry

-----------------------------------------------------------------------------
(* Sets of rows *)

\* A set of n new indices and of old ones that leave room for n is in bounds.
LEMMA RoomForMore ==
    ASSUME NEW R, IsFiniteSet(R), NEW S, NEW lo \in Nat, NEW n \in Nat, NEW cap \in Nat,
           S \subseteq R \cup (lo+1)..(lo+n), Cardinality(R) + n <= cap
    PROVE  Cardinality(S) <= cap
<1>1. IsFiniteSet((lo+1)..(lo+n)) /\ Cardinality((lo+1)..(lo+n)) = n
  <2>1. lo+1 \in Int /\ lo+n \in Int
    OBVIOUS
  <2>2. Cardinality((lo+1)..(lo+n)) = IF lo+1 > lo+n THEN 0 ELSE (lo+n) - (lo+1) + 1
    BY <2>1, FS_Interval
  <2>3. n = IF lo+1 > lo+n THEN 0 ELSE (lo+n) - (lo+1) + 1
    OBVIOUS
  <2> QED
    BY <2>1, <2>2, <2>3, FS_Interval
<1> DEFINE N == (lo+1)..(lo+n)
<1> HIDE DEF N
<1>2. /\ IsFiniteSet(R \cup N)
      /\ Cardinality(R \cup N) = Cardinality(R) + Cardinality(N) - Cardinality(R \cap N)
  BY <1>1, FS_Union DEF N
<1>3. IsFiniteSet(R \cap N)
  BY FS_Intersection
<1>4. Cardinality(R) \in Nat /\ Cardinality(R \cap N) \in Nat /\ Cardinality(R \cup N) \in Nat
  BY <1>2, <1>3, FS_CardinalityType
<1>5. S \subseteq R \cup N
  BY DEF N
<1>6. Cardinality(S) \in Nat /\ Cardinality(S) <= Cardinality(R \cup N)
  <2>1. IsFiniteSet(S) /\ Cardinality(S) <= Cardinality(R \cup N)
    BY <1>2, <1>5, FS_Subset
  <2> QED
    BY <2>1, FS_CardinalityType
<1>7. Cardinality(N) = n
  BY <1>1 DEF N
<1> QED
  BY <1>2, <1>4, <1>6, <1>7

\* A set in bounds has its subsets in bounds.
LEMMA RoomForLess ==
    ASSUME NEW R, IsFiniteSet(R), NEW S, S \subseteq R, NEW cap \in Nat, Cardinality(R) <= cap
    PROVE  Cardinality(S) <= cap
<1>1. IsFiniteSet(S) /\ Cardinality(S) <= Cardinality(R)
  BY FS_Subset
<1>2. Cardinality(S) \in Nat /\ Cardinality(R) \in Nat
  BY <1>1, FS_CardinalityType
<1> QED
  BY <1>1, <1>2

\* Rows are finitely many.
LEMMA RowsAreFinite ==
    ASSUME QuotaTypeOK, NEW S, S \subseteq DOMAIN rows
    PROVE  IsFiniteSet(S)
<1>1. DOMAIN rows = 1..Len(rows) /\ Len(rows) \in Nat
  BY DEF QuotaTypeOK
<1>2. IsFiniteSet(1..Len(rows))
  <2>1. 1 \in Int /\ Len(rows) \in Int
    BY <1>1
  <2> QED
    BY <2>1, FS_Interval
<1> QED
  BY <1>1, <1>2, FS_Subset

-----------------------------------------------------------------------------
(* Settling *)

\* Settling rows changes nothing of them but their status.
LEMMA SettledKeeps ==
    ASSUME QuotaTypeOK, NEW which, NEW status \in {"recovered", "held", "rejected", "failed", "published"}
    PROVE  /\ Settled(which, status) \in Seq(Rows)
           /\ Len(Settled(which, status)) = Len(rows)
           /\ DOMAIN Settled(which, status) = DOMAIN rows
           /\ \A i \in DOMAIN rows :
                 /\ Settled(which, status)[i].by = rows[i].by
                 /\ Settled(which, status)[i].at = rows[i].at
                 /\ Settled(which, status)[i].key = rows[i].key
                 /\ Settled(which, status)[i].status =
                       IF i \in which /\ rows[i].status = "reserved" THEN status ELSE rows[i].status
<1> DEFINE T == Settled(which, status)
<1>1. DOMAIN rows = 1..Len(rows) /\ Len(rows) \in Nat /\ \A i \in DOMAIN rows : rows[i] \in Rows
  BY DEF QuotaTypeOK
<1>2. T = [i \in 1..Len(rows) |-> IF i \in which /\ rows[i].status = "reserved"
                                  THEN [rows[i] EXCEPT !.status = status] ELSE rows[i]]
  BY <1>1 DEF Settled
<1>3. ASSUME NEW i \in 1..Len(rows)
      PROVE  /\ T[i] \in Rows /\ T[i].by = rows[i].by /\ T[i].at = rows[i].at
             /\ T[i].key = rows[i].key
             /\ T[i].status = IF i \in which /\ rows[i].status = "reserved"
                              THEN status ELSE rows[i].status
  <2>1. rows[i] \in Rows
    BY <1>1
  <2>2. T[i] = IF i \in which /\ rows[i].status = "reserved"
               THEN [rows[i] EXCEPT !.status = status] ELSE rows[i]
    BY <1>2
  <2> HIDE DEF T
  <2> QED
    BY <2>1, <2>2 DEF Rows
<1>4. T \in Seq(Rows) /\ Len(T) = Len(rows)
  BY <1>1, <1>2, <1>3
<1> QED
  BY <1>1, <1>2, <1>3, <1>4

\* The rows an admitted attempt adds: its own, dated with its reading.
LEMMA NewRowsAre ==
    ASSUME QuotaTypeOK, NEW a \in Attempts
    PROVE  /\ Len(MembersOf[a]) \in Nat
           /\ NewRows(a) \in Seq(Rows)
           /\ Len(NewRows(a)) = Len(MembersOf[a])
           /\ \A m \in 1..Len(MembersOf[a]) :
                 NewRows(a)[m] = [by |-> a, key |-> MembersOf[a][m], at |-> reading[a],
                                  status |-> "reserved"]
<1>1. DOMAIN MembersOf[a] = 1..Len(MembersOf[a]) /\ Len(MembersOf[a]) \in Nat
  BY QuotaConstants
<1>2. reading[a] \in Nat
  BY DEF QuotaTypeOK
<1>3. ASSUME NEW m \in 1..Len(MembersOf[a])
      PROVE  [by |-> a, key |-> MembersOf[a][m], at |-> reading[a], status |-> "reserved"] \in Rows
  <2>1. MembersOf[a][m] \in Keys(a)
    BY <1>1 DEF Keys
  <2> QED
    BY <1>2, <2>1 DEF Rows
<1> QED
  BY <1>1, <1>3 DEF NewRows

\* What an insertion leaves of the old rows, and what it adds.
LEMMA Insertion ==
    ASSUME QuotaTypeOK, NEW a \in Attempts, NEW kept \in Seq(Rows), Len(kept) = Len(rows)
    PROVE  /\ kept \o NewRows(a) \in Seq(Rows)
           /\ DOMAIN (kept \o NewRows(a)) = DOMAIN rows \cup (Len(rows)+1)..(Len(rows)+Len(MembersOf[a]))
           /\ DOMAIN rows = DOMAIN kept
           /\ \A i \in DOMAIN rows : (kept \o NewRows(a))[i] = kept[i]
           /\ \A i \in (Len(rows)+1)..(Len(rows)+Len(MembersOf[a])) :
                 /\ i - Len(rows) \in 1..Len(MembersOf[a])
                 /\ (kept \o NewRows(a))[i] =
                       [by |-> a, key |-> MembersOf[a][i - Len(rows)], at |-> reading[a],
                        status |-> "reserved"]
<1> DEFINE new == NewRows(a)
           n == Len(MembersOf[a])
<1>1. n \in Nat /\ new \in Seq(Rows) /\ Len(new) = n
  BY NewRowsAre
<1>2. \A m \in 1..n :
         new[m] = [by |-> a, key |-> MembersOf[a][m], at |-> reading[a], status |-> "reserved"]
  BY NewRowsAre
<1>3. DOMAIN rows = 1..Len(rows) /\ Len(rows) \in Nat
  BY DEF QuotaTypeOK
<1> HIDE DEF new, n
<1>4. DOMAIN kept = 1..Len(rows)
  BY <1>3
<1>5. kept \o new \in Seq(Rows) /\ Len(kept \o new) = Len(rows) + n
  BY <1>1
<1>6. DOMAIN (kept \o new) = 1..(Len(rows) + n)
  BY <1>5
<1>7. 1..(Len(rows)+n) = 1..Len(rows) \cup (Len(rows)+1)..(Len(rows)+n)
  BY <1>1, <1>3
<1>8. \A i \in 1..Len(rows) : (kept \o new)[i] = kept[i]
  BY <1>1, <1>3, <1>4
<1>9. \A i \in (Len(rows)+1)..(Len(rows)+n) :
         i - Len(rows) \in 1..n /\ (kept \o new)[i] = new[i - Len(rows)]
  BY <1>1, <1>3, <1>4
<1> QED
  BY <1>2, <1>3, <1>4, <1>5, <1>6, <1>7, <1>8, <1>9 DEF new, n

-----------------------------------------------------------------------------
(* Types *)

LEMMA QuotaInitTypes == QuotaInit => QuotaTypeOK
<1> SUFFICES ASSUME QuotaInit PROVE QuotaTypeOK
  OBVIOUS
<1>1. rows \in Seq(Rows)
  BY DEF QuotaInit
<1>2. control \in [Problems -> Controls]
  BY QuotaConstants DEF QuotaInit, Controls
<1> QED
  BY <1>1, <1>2 DEF QuotaInit, QuotaTypeOK

(* A change of a control keeps the types. *)
LEMMA ControlTypes ==
    ASSUME QuotaTypeOK, NEW p \in Problems, ChangeControl(p)
    PROVE  control' \in [Problems -> Controls]
<1>1. PICK c \in Orders :
         control' = [control EXCEPT ![p] = [limit |-> c.limit, until |-> c.until,
                                            since |-> Len(rows), revision |-> control[p].revision + 1]]
  BY DEF ChangeControl
<1>2. c.limit \in Nat /\ c.until \in Nat
  BY <1>1, QuotaConstants DEF QuotaTypeOK, Orders
<1>3. Len(rows) \in Nat /\ control \in [Problems -> Controls]
  BY DEF QuotaTypeOK
<1>4. control[p].revision + 1 \in Nat
  BY <1>3 DEF Controls
<1>5. [limit |-> c.limit, until |-> c.until, since |-> Len(rows),
       revision |-> control[p].revision + 1] \in Controls
  BY <1>2, <1>3, <1>4 DEF Controls
<1> QED
  BY <1>1, <1>3, <1>5

(* Every step moves the attempts between their stages and keeps what they have read a time. *)
LEMMA StageTypes ==
    ASSUME QuotaTypeOK, NEW a \in Attempts,
           NEW where \in {"start", "check", "reserve", "refused", "screening", "failing",
                          "publish", "done"},
           MoveTo(a, where)
    PROVE  stage' \in [Attempts -> {"start", "check", "reserve", "refused", "screening",
                                    "failing", "publish", "done"}]
BY DEF QuotaTypeOK, MoveTo

\* Every step keeps the types.
LEMMA QuotaStepTypes == QuotaTypeOK /\ [QuotaNext]_quotaVars => QuotaTypeOK'
<1> SUFFICES ASSUME QuotaTypeOK, [QuotaNext]_quotaVars PROVE QuotaTypeOK'
  OBVIOUS
<1>1. CASE UNCHANGED quotaVars
  BY <1>1 DEF quotaVars, QuotaTypeOK, Rows, Controls, Problems
<1>2. CASE Elapse
  <2>1. time' \in Nat /\ UNCHANGED <<rows, control, published, stage, reading>>
    BY <1>2 DEF Elapse, QuotaTypeOK
  <2> QED
    BY <2>1 DEF QuotaTypeOK
<1>3. ASSUME NEW p \in Problems, ChangeControl(p) PROVE QuotaTypeOK'
  <2>1. control' \in [Problems -> Controls]
    BY <1>3, ControlTypes
  <2> QED
    BY <1>3, <2>1 DEF ChangeControl, QuotaTypeOK
<1>4. ASSUME NEW a \in Attempts, Begin(a) PROVE QuotaTypeOK'
  <2>1. PICK at \in time..(time + Drift) :
          /\ reading' = [reading EXCEPT ![a] = at]
          /\ rows' = IF a \in Batches THEN rows ELSE Recovered(a, at)
    BY <1>4 DEF Begin
  <2>2. rows' \in Seq(Rows)
    <3>1. Recovered(a, at) \in Seq(Rows)
      BY SettledKeeps DEF Recovered
    <3> QED
      BY <2>1, <3>1 DEF QuotaTypeOK
  <2>3. reading' \in [Attempts -> Nat]
    <3>1. at \in Nat
      BY QuotaConstants DEF QuotaTypeOK
    <3> QED
      BY <2>1, <3>1 DEF QuotaTypeOK
  <2>4. UNCHANGED <<time, control, published>> /\ MoveTo(a, "check")
    BY <1>4 DEF Begin
  <2> QED
    BY <2>2, <2>3, <2>4, StageTypes DEF QuotaTypeOK
<1>5. ASSUME NEW a \in Attempts, Check(a) PROVE QuotaTypeOK'
  <2>1. UNCHANGED <<time, rows, control, published, reading>>
        /\ (MoveTo(a, "reserve") \/ MoveTo(a, "refused"))
    BY <1>5 DEF Check
  <2> QED
    BY <2>1, StageTypes DEF QuotaTypeOK
<1>6. ASSUME NEW a \in Attempts, Reserve(a) PROVE QuotaTypeOK'
  <2>1. UNCHANGED <<time, control, published, reading>>
        /\ (MoveTo(a, "screening") \/ MoveTo(a, "refused"))
    BY <1>6 DEF Reserve
  <2>2. rows' \in Seq(Rows)
    <3>1. PICK kept : kept = IF a \in Batches THEN Recovered(a, reading[a]) ELSE rows
      OBVIOUS
    <3>2. rows' = kept \o NewRows(a) \/ rows' = rows
      BY <1>6, <3>1 DEF Reserve
    <3>3. kept \in Seq(Rows) /\ Len(kept) = Len(rows)
      BY <3>1, SettledKeeps DEF Recovered, QuotaTypeOK
    <3>4. kept \o NewRows(a) \in Seq(Rows)
      BY <3>3, Insertion
    <3> QED
      BY <3>2, <3>4 DEF QuotaTypeOK
  <2> QED
    BY <2>1, <2>2, StageTypes DEF QuotaTypeOK
<1>7. ASSUME NEW a \in Attempts, Screen(a) PROVE QuotaTypeOK'
  <2>1. UNCHANGED <<time, control, published, reading>>
        /\ (MoveTo(a, "publish") \/ MoveTo(a, "failing"))
    BY <1>7 DEF Screen
  <2>2. rows' \in Seq(Rows)
    <3>1. CASE UNCHANGED rows
      BY <3>1 DEF QuotaTypeOK
    <3>2. ASSUME NEW i \in Own(a), NEW verdict \in {"held", "rejected", "failed"},
                 rows' = Settled({i}, verdict)
          PROVE  rows' \in Seq(Rows)
      BY <3>2, SettledKeeps
    <3> QED
      BY <1>7, <3>1, <3>2 DEF Screen
  <2> QED
    BY <2>1, <2>2, StageTypes DEF QuotaTypeOK
<1>8. ASSUME NEW a \in Attempts, SettleFailed(a) PROVE QuotaTypeOK'
  <2>1. UNCHANGED <<time, control, published, reading>>
    BY <1>8 DEF SettleFailed
  <2>2. CASE MoveTo(a, "done") /\ UNCHANGED rows
    BY <2>1, <2>2, StageTypes DEF QuotaTypeOK
  <2>3. ASSUME NEW i \in Own(a), rows' = Settled({i}, "failed"), UNCHANGED stage
        PROVE  QuotaTypeOK'
    <3>1. rows' \in Seq(Rows)
      BY <2>3, SettledKeeps
    <3> QED
      BY <2>1, <2>3, <3>1 DEF QuotaTypeOK
  <2> QED
    BY <1>8, <2>2, <2>3 DEF SettleFailed
<1>9. ASSUME NEW a \in Attempts, Publish(a) PROVE QuotaTypeOK'
  <2>1. UNCHANGED <<time, control, reading>>
        /\ (MoveTo(a, "failing") \/ MoveTo(a, "done"))
    BY <1>9 DEF Publish
  <2>2. published' \subseteq Attempts
    BY <1>9 DEF Publish, QuotaTypeOK
  <2>3. rows' \in Seq(Rows)
    <3>1. Settled(Own(a), "published") \in Seq(Rows)
      BY SettledKeeps
    <3> QED
      BY <1>9, <3>1 DEF Publish, QuotaTypeOK
  <2> QED
    BY <2>1, <2>2, <2>3, StageTypes DEF QuotaTypeOK
<1> QED
  BY <1>1, <1>2, <1>3, <1>4, <1>5, <1>6, <1>7, <1>8, <1>9 DEF QuotaNext

(* Every variable of the allowance keeps its kind.                          *)
THEOREM QuotaTypes == QuotaSpec => []QuotaTypeOK
BY QuotaInitTypes, QuotaStepTypes, PTL DEF QuotaSpec

-----------------------------------------------------------------------------
(* The windows *)

(* The three sets that WindowsHold bounds. *)
FellowWindow(a, x) == WindowTo(OfFellow(a), x)
PayerWindow(a, x) == WindowTo(OfPayer(a), x)
SlowWindow(a, x) == WindowTo(OfFellow(a) \cap UnderControl(ProblemOf[a]), x)

\* A step that leaves the dates and the control alone leaves the windows.
LEMMA DatesKept ==
    ASSUME QuotaTypeOK, WindowsHold, DOMAIN rows' = DOMAIN rows,
           \A i \in DOMAIN rows : rows'[i].by = rows[i].by /\ rows'[i].at = rows[i].at,
           UNCHANGED control
    PROVE  WindowsHold'
<1> SUFFICES ASSUME NEW a \in Attempts, NEW x \in 0..(MaxClock + Drift)
             PROVE  /\ Cardinality(FellowWindow(a, x))' <= Cap
                    /\ Cardinality(PayerWindow(a, x))' <= PayerCap
                    /\ Cardinality(SlowWindow(a, x))' <= control'[ProblemOf[a]].limit
  BY DEF WindowsHold, FellowWindow, PayerWindow, SlowWindow
<1>1. OfFellow(a)' = OfFellow(a) /\ OfPayer(a)' = OfPayer(a)
  BY DEF OfFellow, OfPayer
<1>2. FellowWindow(a, x)' = FellowWindow(a, x)
  BY <1>1 DEF FellowWindow, WindowTo, OfFellow
<1>3. PayerWindow(a, x)' = PayerWindow(a, x)
  BY <1>1 DEF PayerWindow, WindowTo, OfPayer
<1>4. SlowWindow(a, x)' = SlowWindow(a, x)
  <2>1. UnderControl(ProblemOf[a])' = UnderControl(ProblemOf[a])
    BY DEF UnderControl
  <2> QED
    BY <1>1, <2>1 DEF SlowWindow, WindowTo, OfFellow
<1>5. /\ Cardinality(FellowWindow(a, x)) <= Cap
      /\ Cardinality(PayerWindow(a, x)) <= PayerCap
      /\ Cardinality(SlowWindow(a, x)) <= control[ProblemOf[a]].limit
  BY DEF WindowsHold, FellowWindow, PayerWindow, SlowWindow
<1> QED
  BY <1>2, <1>3, <1>4, <1>5

\* A new control has admitted nothing yet.
LEMMA ControlKeepsWindows ==
    ASSUME QuotaTypeOK, WindowsHold, NEW p \in Problems, ChangeControl(p)
    PROVE  WindowsHold'
<1>1. PICK c \in Orders :
         control' = [control EXCEPT ![p] = [limit |-> c.limit, until |-> c.until,
                                            since |-> Len(rows), revision |-> control[p].revision + 1]]
  BY DEF ChangeControl
<1>2. UNCHANGED rows
  BY DEF ChangeControl
<1>3. control \in [Problems -> Controls]
  BY DEF QuotaTypeOK
<1>4. control' \in [Problems -> Controls]
  BY ControlTypes
<1> SUFFICES ASSUME NEW a \in Attempts, NEW x \in 0..(MaxClock + Drift)
             PROVE  /\ Cardinality(FellowWindow(a, x))' <= Cap
                    /\ Cardinality(PayerWindow(a, x))' <= PayerCap
                    /\ Cardinality(SlowWindow(a, x))' <= control'[ProblemOf[a]].limit
  BY DEF WindowsHold, FellowWindow, PayerWindow, SlowWindow
<1>5. ProblemOf[a] \in Problems
  BY DEF Problems
<1>6. FellowWindow(a, x)' = FellowWindow(a, x) /\ PayerWindow(a, x)' = PayerWindow(a, x)
  BY <1>2 DEF FellowWindow, PayerWindow, WindowTo, OfFellow, OfPayer
<1>7. /\ Cardinality(FellowWindow(a, x)) <= Cap
      /\ Cardinality(PayerWindow(a, x)) <= PayerCap
      /\ Cardinality(SlowWindow(a, x)) <= control[ProblemOf[a]].limit
  BY DEF WindowsHold, FellowWindow, PayerWindow, SlowWindow
<1>8. CASE ProblemOf[a] = p
  <2>1. control'[p].since = Len(rows)
    BY <1>1, <1>3
  <2>2. DOMAIN rows = 1..Len(rows) /\ Len(rows) \in Nat
    BY DEF QuotaTypeOK
  <2>3. UnderControl(ProblemOf[a])' = {}
    BY <1>2, <1>8, <2>1, <2>2 DEF UnderControl
  <2>4. SlowWindow(a, x)' = {}
    BY <2>3 DEF SlowWindow, WindowTo
  <2>5. Cardinality(SlowWindow(a, x)') = 0
    BY <2>4, FS_EmptySet
  <2>6. control'[ProblemOf[a]].limit \in Nat
    BY <1>4, <1>5 DEF Controls
  <2> QED
    BY <1>6, <1>7, <2>5, <2>6
<1>9. CASE ProblemOf[a] # p
  <2>1. control'[ProblemOf[a]] = control[ProblemOf[a]]
    BY <1>1, <1>3, <1>5, <1>9
  <2>2. SlowWindow(a, x)' = SlowWindow(a, x)
    BY <1>2, <2>1 DEF SlowWindow, WindowTo, OfFellow, UnderControl
  <2> QED
    BY <1>6, <1>7, <2>1, <2>2
<1> QED
  BY <1>8, <1>9

(* Either the new rows are dated outside the window, which stays as it is,   *)
(* or every old row of the window was counted when they were admitted.       *)
LEMMA InsertionKeepsWindows ==
    ASSUME QuotaTypeOK, WindowsHold, NEW a \in Attempts, Fits(a, reading[a]),
           NEW N, N = (Len(rows)+1)..(Len(rows)+Len(MembersOf[a])),
           DOMAIN rows' = DOMAIN rows \cup N,
           \A i \in DOMAIN rows : rows'[i].by = rows[i].by /\ rows'[i].at = rows[i].at,
           \A i \in N : rows'[i].by = a /\ rows'[i].at = reading[a],
           UNCHANGED control
    PROVE  WindowsHold'
<1> SUFFICES ASSUME NEW b \in Attempts, NEW x \in 0..(MaxClock + Drift)
             PROVE  /\ Cardinality(FellowWindow(b, x))' <= Cap
                    /\ Cardinality(PayerWindow(b, x))' <= PayerCap
                    /\ Cardinality(SlowWindow(b, x))' <= control'[ProblemOf[b]].limit
  BY DEF WindowsHold, FellowWindow, PayerWindow, SlowWindow
<1>1. PICK at : at = reading[a]
  OBVIOUS
<1>2. at \in Nat /\ Window \in Nat /\ x \in Int /\ Cap \in Nat /\ PayerCap \in Nat
  BY <1>1, QuotaConstants DEF QuotaTypeOK
<1>3. \A i \in DOMAIN rows : rows[i].at \in Nat
  <2>1. \A i \in DOMAIN rows : rows[i] \in Rows
    BY DEF QuotaTypeOK
  <2> QED
    BY <2>1 DEF Rows
<1>4. /\ Cardinality(FellowWindow(b, x)) <= Cap
      /\ Cardinality(PayerWindow(b, x)) <= PayerCap
      /\ Cardinality(SlowWindow(b, x)) <= control[ProblemOf[b]].limit
  BY DEF WindowsHold, FellowWindow, PayerWindow, SlowWindow
<1>5. control[ProblemOf[b]].limit \in Nat /\ control[ProblemOf[b]].until \in Nat
  BY DEF QuotaTypeOK, Controls, Problems
<1>6. /\ IsFiniteSet(FellowWindow(b, x)) /\ IsFiniteSet(PayerWindow(b, x))
      /\ IsFiniteSet(SlowWindow(b, x))
      /\ IsFiniteSet(Recent(OfFellow(a), at)) /\ IsFiniteSet(Recent(OfPayer(a), at))
  <2>1. /\ FellowWindow(b, x) \subseteq DOMAIN rows /\ PayerWindow(b, x) \subseteq DOMAIN rows
        /\ SlowWindow(b, x) \subseteq DOMAIN rows
        /\ Recent(OfFellow(a), at) \subseteq DOMAIN rows /\ Recent(OfPayer(a), at) \subseteq DOMAIN rows
    BY DEF FellowWindow, PayerWindow, SlowWindow, WindowTo, Recent, OfFellow, OfPayer
  <2> QED
    BY <2>1, RowsAreFinite
<1>7. Len(rows) \in Nat /\ Len(MembersOf[a]) \in Nat
  BY QuotaConstants DEF QuotaTypeOK
<1>8. /\ Cardinality(Recent(OfFellow(a), at)) + Len(MembersOf[a]) <= LimitAt(ProblemOf[a], at)
      /\ Cardinality(Recent(OfFellow(a), at)) + Len(MembersOf[a]) <= Cap
      /\ Cardinality(Recent(OfPayer(a), at)) + Len(MembersOf[a]) <= PayerCap
  BY <1>1 DEF Fits
<1>9. Cardinality(FellowWindow(b, x)') <= Cap
  <2>1. CASE x - Window < at /\ at <= x /\ CallerOf[b] = CallerOf[a] /\ ProblemOf[b] = ProblemOf[a]
    <3>1. FellowWindow(b, x)' \subseteq Recent(OfFellow(a), at) \cup N
      BY <1>2, <1>3, <2>1 DEF FellowWindow, WindowTo, OfFellow, Recent
    <3> QED
      BY <1>2, <1>6, <1>7, <1>8, <3>1, RoomForMore
  <2>2. CASE ~(x - Window < at /\ at <= x /\ CallerOf[b] = CallerOf[a] /\ ProblemOf[b] = ProblemOf[a])
    <3>1. FellowWindow(b, x)' \subseteq FellowWindow(b, x)
      BY <1>1, <2>2 DEF FellowWindow, WindowTo, OfFellow
    <3> QED
      BY <1>2, <1>4, <1>6, <3>1, RoomForLess
  <2> QED
    BY <2>1, <2>2
<1>10. Cardinality(PayerWindow(b, x)') <= PayerCap
  <2>1. CASE x - Window < at /\ at <= x /\ PayerOf[b] = PayerOf[a]
    <3>1. PayerWindow(b, x)' \subseteq Recent(OfPayer(a), at) \cup N
      BY <1>2, <1>3, <2>1 DEF PayerWindow, WindowTo, OfPayer, Recent
    <3> QED
      BY <1>2, <1>6, <1>7, <1>8, <3>1, RoomForMore
  <2>2. CASE ~(x - Window < at /\ at <= x /\ PayerOf[b] = PayerOf[a])
    <3>1. PayerWindow(b, x)' \subseteq PayerWindow(b, x)
      BY <1>1, <2>2 DEF PayerWindow, WindowTo, OfPayer
    <3> QED
      BY <1>2, <1>4, <1>6, <3>1, RoomForLess
  <2> QED
    BY <2>1, <2>2
<1>11. Cardinality(SlowWindow(b, x)') <= control[ProblemOf[b]].limit
  <2>1. CASE /\ x - Window < at /\ at <= x
             /\ CallerOf[b] = CallerOf[a] /\ ProblemOf[b] = ProblemOf[a]
             /\ at < control[ProblemOf[b]].until
    <3>1. SlowWindow(b, x)' \subseteq Recent(OfFellow(a), at) \cup N
      BY <1>2, <1>3, <2>1 DEF SlowWindow, WindowTo, OfFellow, Recent
    <3>2. LimitAt(ProblemOf[a], at) = control[ProblemOf[b]].limit
      BY <1>2, <1>5, <2>1 DEF LimitAt
    <3> QED
      BY <1>5, <1>6, <1>7, <1>8, <3>1, <3>2, RoomForMore
  <2>2. CASE ~(/\ x - Window < at /\ at <= x
               /\ CallerOf[b] = CallerOf[a] /\ ProblemOf[b] = ProblemOf[a]
               /\ at < control[ProblemOf[b]].until)
    <3>1. SlowWindow(b, x)' \subseteq SlowWindow(b, x)
      BY <1>1, <2>2 DEF SlowWindow, WindowTo, OfFellow, UnderControl
    <3> QED
      BY <1>4, <1>5, <1>6, <3>1, RoomForLess
  <2> QED
    BY <2>1, <2>2
<1> QED
  BY <1>9, <1>10, <1>11

\* Every step keeps every window within its limits.
LEMMA StepKeepsWindows == QuotaTypeOK /\ WindowsHold /\ [QuotaNext]_quotaVars => WindowsHold'
<1> SUFFICES ASSUME QuotaTypeOK, WindowsHold, [QuotaNext]_quotaVars PROVE WindowsHold'
  OBVIOUS
<1>1. CASE UNCHANGED <<rows, control>>
  BY <1>1, DatesKept
<1>2. ASSUME NEW p \in Problems, ChangeControl(p) PROVE WindowsHold'
  BY <1>2, ControlKeepsWindows
<1>3. ASSUME NEW which, NEW status \in {"recovered", "held", "rejected", "failed", "published"},
             rows' = Settled(which, status), UNCHANGED control
      PROVE  WindowsHold'
  BY <1>3, SettledKeeps, DatesKept
<1>4. ASSUME NEW a \in Attempts, Begin(a) PROVE WindowsHold'
  <2>1. PICK at : rows' = IF a \in Batches THEN rows ELSE Recovered(a, at)
    BY <1>4 DEF Begin
  <2>2. UNCHANGED control
    BY <1>4 DEF Begin
  <2> QED
    BY <1>1, <1>3, <2>1, <2>2 DEF Recovered
<1>5. ASSUME NEW a \in Attempts, Reserve(a) PROVE WindowsHold'
  <2>1. PICK kept : kept = IF a \in Batches THEN Recovered(a, reading[a]) ELSE rows
    OBVIOUS
  <2>2. UNCHANGED control /\ (UNCHANGED rows \/ (Fits(a, reading[a]) /\ rows' = kept \o NewRows(a)))
    BY <1>5, <2>1 DEF Reserve, Admitted
  <2>3. CASE Fits(a, reading[a]) /\ rows' = kept \o NewRows(a)
    <3>1. /\ kept \in Seq(Rows) /\ Len(kept) = Len(rows)
          /\ \A i \in DOMAIN rows : kept[i].by = rows[i].by /\ kept[i].at = rows[i].at
      BY <2>1, SettledKeeps DEF Recovered, QuotaTypeOK
    <3>2. PICK N : N = (Len(rows)+1)..(Len(rows)+Len(MembersOf[a]))
      OBVIOUS
    <3>3. /\ DOMAIN rows' = DOMAIN rows \cup N
          /\ \A i \in DOMAIN rows : rows'[i] = kept[i]
          /\ \A i \in N : rows'[i] = [by |-> a, key |-> MembersOf[a][i - Len(rows)],
                                      at |-> reading[a], status |-> "reserved"]
      BY <2>3, <3>1, <3>2, Insertion
    <3>4. /\ \A i \in DOMAIN rows : rows'[i].by = rows[i].by /\ rows'[i].at = rows[i].at
          /\ \A i \in N : rows'[i].by = a /\ rows'[i].at = reading[a]
      BY <3>1, <3>3
    <3> QED
      BY <2>2, <2>3, <3>2, <3>3, <3>4, InsertionKeepsWindows
  <2> QED
    BY <1>1, <2>2, <2>3
<1>6. ASSUME NEW a \in Attempts, Screen(a) PROVE WindowsHold'
  <2>1. UNCHANGED control
    BY <1>6 DEF Screen
  <2>2. \/ UNCHANGED rows
        \/ \E i, v : v \in {"held", "rejected", "failed"} /\ rows' = Settled({i}, v)
    BY <1>6 DEF Screen
  <2> QED
    BY <1>1, <1>3, <2>1, <2>2
<1>7. ASSUME NEW a \in Attempts, SettleFailed(a) PROVE WindowsHold'
  BY <1>1, <1>3, <1>7 DEF SettleFailed
<1>8. ASSUME NEW a \in Attempts, Publish(a) PROVE WindowsHold'
  BY <1>1, <1>3, <1>8 DEF Publish
<1>9. ASSUME NEW a \in Attempts, Check(a) PROVE WindowsHold'
  BY <1>1, <1>9 DEF Check
<1> QED
  BY <1>1, <1>2, <1>4, <1>5, <1>6, <1>7, <1>8, <1>9 DEF QuotaNext, Elapse, quotaVars

\* The empty table is in bounds.
LEMMA InitWindows == QuotaInit => WindowsHold
<1> SUFFICES ASSUME QuotaInit, NEW a \in Attempts, NEW x \in 0..(MaxClock + Drift)
             PROVE  /\ Cardinality(FellowWindow(a, x)) <= Cap
                    /\ Cardinality(PayerWindow(a, x)) <= PayerCap
                    /\ Cardinality(SlowWindow(a, x)) <= control[ProblemOf[a]].limit
  BY DEF WindowsHold, FellowWindow, PayerWindow, SlowWindow
<1>1. DOMAIN rows = {}
  BY DEF QuotaInit
<1>2. FellowWindow(a, x) = {} /\ PayerWindow(a, x) = {} /\ SlowWindow(a, x) = {}
  BY <1>1 DEF FellowWindow, PayerWindow, SlowWindow, WindowTo, OfFellow, OfPayer
<1>3. control[ProblemOf[a]].limit \in Nat
  <2>1. QuotaTypeOK
    BY QuotaInitTypes
  <2> QED
    BY <2>1 DEF QuotaTypeOK, Controls, Problems
<1>4. Cardinality({}) = 0
  BY FS_EmptySet
<1> QED
  BY <1>2, <1>3, <1>4, QuotaConstants

(* Whatever the clocks of the Workers and however many requests race for     *)
(* the last place, no window holds more reservations than the limits of the  *)
(* hour, of the sponsor and of the problem's control allow.                  *)
THEOREM AllowancesHold == QuotaSpec => []WindowsHold
BY InitWindows, StepKeepsWindows, QuotaTypes, PTL DEF QuotaSpec

-----------------------------------------------------------------------------
(* Settlements *)

\* A row knows how far its attempt has come.
RowIsTrue(i) ==
    LET a == rows[i].by
        s == rows[i].status
    IN
    /\ rows[i].key \in Keys(a)
    /\ stage[a] \in {"screening", "publish", "failing", "done"}
    /\ stage[a] \in {"screening", "publish"} => s \in {"reserved", "recovered"}
    /\ a \in published => s \in {"recovered", "published"}
    /\ s = "published" => a \in published

(* SettlementsAreTrue is not inductive: that no row is settled twice as      *)
(* published follows from the ledger, which has one event per key, and from  *)
(* the rows of an attempt having keys of their own.                          *)
SettlementInv ==
    /\ \A i \in DOMAIN rows : RowIsTrue(i)
    /\ \A i, j \in DOMAIN rows : rows[i].by = rows[j].by /\ rows[i].key = rows[j].key => i = j
    /\ \A a \in published : stage[a] \in {"failing", "done"}
    /\ \A a, b \in published : Keys(a) \cap Keys(b) # {} => a = b

\* The invariant says what settlements promise.
LEMMA InvSettles == QuotaTypeOK /\ SettlementInv => SettlementsAreTrue
<1> SUFFICES ASSUME QuotaTypeOK, SettlementInv, NEW i \in DOMAIN rows
             PROVE  /\ rows[i].status = "published" =>
                          /\ rows[i].by \in published
                          /\ \A j \in DOMAIN rows :
                                rows[j].key = rows[i].key /\ rows[j].status = "published" => j = i
                    /\ rows[i].status \in {"held", "rejected", "failed"} => rows[i].by \notin published
  BY DEF SettlementsAreTrue
<1>1. RowIsTrue(i)
  BY DEF SettlementInv
<1>2. rows[i].status \in {"held", "rejected", "failed"} => rows[i].by \notin published
  BY <1>1 DEF RowIsTrue
<1>3. ASSUME rows[i].status = "published", NEW j \in DOMAIN rows,
             rows[j].key = rows[i].key, rows[j].status = "published"
      PROVE  j = i
  <2>1. RowIsTrue(j)
    BY DEF SettlementInv
  <2>2. rows[i].by \in published /\ rows[j].by \in published
    BY <1>1, <1>3, <2>1 DEF RowIsTrue
  <2>3. rows[i].key \in Keys(rows[i].by) \cap Keys(rows[j].by)
    BY <1>1, <1>3, <2>1 DEF RowIsTrue
  <2>4. rows[i].by = rows[j].by
    BY <2>2, <2>3 DEF SettlementInv
  <2> QED
    BY <1>3, <2>4 DEF SettlementInv
<1> QED
  BY <1>1, <1>2, <1>3 DEF RowIsTrue

\* An attempt that has not come to screening has no rows.
LEMMA NoRowsYet ==
    ASSUME SettlementInv, NEW a \in Attempts, stage[a] \in {"start", "check", "reserve"}
    PROVE  a \notin published /\ \A i \in DOMAIN rows : rows[i].by # a
BY DEF SettlementInv, RowIsTrue

(* The parts of the invariant that are about pairs survive a step that adds  *)
(* no row and no event.                                                      *)
LEMMA PairsKept ==
    ASSUME SettlementInv, DOMAIN rows' = DOMAIN rows, UNCHANGED published,
           \A i \in DOMAIN rows : rows'[i].by = rows[i].by /\ rows'[i].key = rows[i].key,
           \A a \in published : stage'[a] \in {"failing", "done"},
           \A i \in DOMAIN rows : RowIsTrue(i)'
    PROVE  SettlementInv'
BY DEF SettlementInv, Keys

\* Requests that have not reached the ledger settle nothing as published.
LEMMA EarlyStepsSettle ==
    ASSUME QuotaTypeOK, SettlementInv, NEW a \in Attempts,
           Begin(a) \/ Check(a) \/ Screen(a) \/ SettleFailed(a)
    PROVE  SettlementInv'
<1>0. /\ UNCHANGED published
      /\ stage \in [Attempts -> {"start", "check", "reserve", "refused", "screening", "failing",
                                 "publish", "done"}]
  <2>1. UNCHANGED published
    BY DEF Begin, Check, Screen, SettleFailed
  <2> QED
    BY <2>1 DEF QuotaTypeOK
<1>1. \A i \in DOMAIN rows : rows[i].by \in Attempts
  <2>1. \A i \in DOMAIN rows : rows[i] \in Rows
    BY DEF QuotaTypeOK
  <2> QED
    BY <2>1 DEF Rows
<1>2. \A i \in DOMAIN rows : RowIsTrue(i)
  BY DEF SettlementInv
<1>3. \A b \in published : b \in Attempts /\ stage[b] \in {"failing", "done"}
  BY DEF SettlementInv, QuotaTypeOK
<1>4. ASSUME Begin(a) PROVE SettlementInv'
  <2>1. PICK at : rows' = IF a \in Batches THEN rows ELSE Recovered(a, at)
    BY <1>4 DEF Begin
  <2>2. stage[a] = "start" /\ stage' = [stage EXCEPT ![a] = "check"]
    BY <1>4 DEF Begin, MoveTo
  <2>3. DOMAIN rows' = DOMAIN rows /\ \A i \in DOMAIN rows :
           /\ rows'[i].by = rows[i].by /\ rows'[i].key = rows[i].key
           /\ \/ rows'[i].status = rows[i].status
              \/ rows[i].status = "reserved" /\ rows'[i].status = "recovered"
    BY <2>1, SettledKeeps DEF Recovered
  <2>4. \A i \in DOMAIN rows : rows[i].by # a /\ stage'[rows[i].by] = stage[rows[i].by]
    BY <1>0, <1>1, <2>2, NoRowsYet
  <2>5. \A b \in published : stage'[b] \in {"failing", "done"}
    BY <1>0, <1>3, <2>2
  <2>6. \A i \in DOMAIN rows : RowIsTrue(i)'
    BY <1>0, <1>2, <2>3, <2>4 DEF RowIsTrue, Keys
  <2> QED
    BY <1>0, <2>3, <2>5, <2>6, PairsKept
<1>5. ASSUME Check(a) PROVE SettlementInv'
  <2>1. UNCHANGED rows /\ stage[a] = "check"
        /\ (stage' = [stage EXCEPT ![a] = "reserve"] \/ stage' = [stage EXCEPT ![a] = "refused"])
    BY <1>5 DEF Check, MoveTo
  <2>2. \A i \in DOMAIN rows : rows[i].by # a /\ stage'[rows[i].by] = stage[rows[i].by]
    BY <1>0, <1>1, <2>1, NoRowsYet
  <2>3. \A b \in published : stage'[b] \in {"failing", "done"}
    BY <1>0, <1>3, <2>1
  <2>4. \A i \in DOMAIN rows : RowIsTrue(i)'
    BY <1>0, <1>2, <2>1, <2>2 DEF RowIsTrue, Keys
  <2> QED
    BY <1>0, <2>1, <2>3, <2>4, PairsKept
<1>6. ASSUME Screen(a) PROVE SettlementInv'
  <2>1. stage[a] = "screening"
        /\ (stage' = [stage EXCEPT ![a] = "publish"] \/ stage' = [stage EXCEPT ![a] = "failing"])
    BY <1>6 DEF Screen, MoveTo
  <2>2. a \notin published
    BY <1>3, <2>1
  <2>3. \A b \in published : stage'[b] \in {"failing", "done"}
    BY <1>0, <1>3, <2>1, <2>2
  <2>4. CASE UNCHANGED rows
    <3>1. \A i \in DOMAIN rows : RowIsTrue(i)'
      BY <1>0, <1>1, <1>2, <2>1, <2>4 DEF RowIsTrue, Keys
    <3> QED
      BY <1>0, <2>3, <2>4, <3>1, PairsKept
  <2>5. ASSUME NEW k \in Own(a), NEW v \in {"held", "rejected", "failed"},
               rows' = Settled({k}, v), stage' = [stage EXCEPT ![a] = "failing"]
        PROVE  SettlementInv'
    <3>1. DOMAIN rows' = DOMAIN rows /\ \A i \in DOMAIN rows :
             /\ rows'[i].by = rows[i].by /\ rows'[i].key = rows[i].key
             /\ rows'[i].status = rows[i].status \/ (rows[i].by = a /\ rows'[i].status = v)
      BY <2>5, SettledKeeps DEF Own
    <3>2. \A i \in DOMAIN rows : RowIsTrue(i)'
      <4> TAKE i \in DOMAIN rows
      <4>1. RowIsTrue(i) /\ rows[i].by \in Attempts
        BY <1>1, <1>2
      <4>2. CASE rows[i].by = a
        <5>1. stage'[rows[i].by] = "failing"
          BY <1>0, <2>5, <4>2
        <5>2. rows'[i].status \in {"reserved", "recovered", "held", "rejected", "failed"}
          BY <2>1, <3>1, <4>1, <4>2 DEF RowIsTrue
        <5> QED
          BY <1>0, <2>2, <3>1, <4>1, <4>2, <5>1, <5>2 DEF RowIsTrue, Keys
      <4>3. CASE rows[i].by # a
        <5>1. stage'[rows[i].by] = stage[rows[i].by] /\ rows'[i].status = rows[i].status
          BY <1>0, <2>5, <3>1, <4>1, <4>3
        <5> QED
          BY <1>0, <3>1, <4>1, <5>1 DEF RowIsTrue, Keys
      <4> QED
        BY <4>2, <4>3
    <3> QED
      BY <1>0, <2>3, <3>1, <3>2, PairsKept
  <2> QED
    BY <1>6, <2>4, <2>5 DEF Screen, MoveTo
<1>7. ASSUME SettleFailed(a) PROVE SettlementInv'
  <2>1. stage[a] = "failing" /\ (UNCHANGED stage \/ stage' = [stage EXCEPT ![a] = "done"])
    BY <1>7 DEF SettleFailed, MoveTo
  <2>2. \A b \in published : stage'[b] \in {"failing", "done"}
    BY <1>0, <1>3, <2>1
  <2>3. CASE UNCHANGED rows
    <3>1. \A i \in DOMAIN rows : RowIsTrue(i)'
      BY <1>0, <1>1, <1>2, <2>1, <2>3 DEF RowIsTrue, Keys
    <3> QED
      BY <1>0, <2>2, <2>3, <3>1, PairsKept
  <2>4. ASSUME NEW k \in Own(a), rows' = Settled({k}, "failed"), UNCHANGED stage
        PROVE  SettlementInv'
    <3>1. DOMAIN rows' = DOMAIN rows /\ \A i \in DOMAIN rows :
             /\ rows'[i].by = rows[i].by /\ rows'[i].key = rows[i].key
             /\ \/ rows'[i].status = rows[i].status
                \/ /\ rows[i].by = a /\ rows[i].status = "reserved"
                   /\ rows'[i].status = "failed"
      BY <2>4, SettledKeeps DEF Own
    <3>2. \A i \in DOMAIN rows : RowIsTrue(i)'
      <4> TAKE i \in DOMAIN rows
      <4>1. RowIsTrue(i)
        BY <1>2
      <4>0. /\ rows'[i].by = rows[i].by /\ rows'[i].key = rows[i].key
            /\ stage' = stage /\ published' = published
        BY <1>0, <2>4, <3>1
      <4>2. CASE rows'[i].status = rows[i].status
        BY <4>0, <4>1, <4>2 DEF RowIsTrue, Keys
      <4>3. CASE rows[i].by = a /\ rows[i].status = "reserved" /\ rows'[i].status = "failed"
        <5>1. a \notin published
          BY <4>1, <4>3 DEF RowIsTrue
        <5> QED
          BY <2>1, <4>0, <4>1, <4>3, <5>1 DEF RowIsTrue, Keys
      <4> QED
        BY <3>1, <4>2, <4>3
    <3> QED
      BY <1>0, <2>2, <3>1, <3>2, PairsKept
  <2> QED
    BY <1>7, <2>3, <2>4 DEF SettleFailed
<1> QED
  BY <1>4, <1>5, <1>6, <1>7

\* An insertion adds rows of an attempt that had none.
LEMMA InsertionSettles ==
    ASSUME QuotaTypeOK, SettlementInv, NEW a \in Attempts, Reserve(a)
    PROVE  SettlementInv'
<1>0. /\ UNCHANGED published
      /\ stage \in [Attempts -> {"start", "check", "reserve", "refused", "screening", "failing",
                                 "publish", "done"}]
  <2>1. UNCHANGED published
    BY DEF Reserve
  <2> QED
    BY <2>1 DEF QuotaTypeOK
<1>1. stage[a] = "reserve" /\ a \notin published /\ \A i \in DOMAIN rows : rows[i].by # a
  <2>1. stage[a] = "reserve"
    BY DEF Reserve
  <2> QED
    BY <2>1, NoRowsYet
<1>2. \A i \in DOMAIN rows : RowIsTrue(i) /\ rows[i].by \in Attempts
  <2>1. \A i \in DOMAIN rows : rows[i] \in Rows
    BY DEF QuotaTypeOK
  <2> QED
    BY <2>1 DEF Rows, SettlementInv
<1>3. \A b \in published : b \in Attempts /\ b # a /\ stage[b] \in {"failing", "done"}
  BY <1>1 DEF SettlementInv, QuotaTypeOK
<1>4. CASE UNCHANGED rows /\ stage' = [stage EXCEPT ![a] = "refused"]
  <2>1. \A b \in published : stage'[b] \in {"failing", "done"}
    BY <1>0, <1>3, <1>4
  <2>2. \A i \in DOMAIN rows : stage'[rows[i].by] = stage[rows[i].by]
    BY <1>0, <1>1, <1>2, <1>4
  <2>3. \A i \in DOMAIN rows : RowIsTrue(i)'
    BY <1>0, <1>2, <1>4, <2>2 DEF RowIsTrue, Keys
  <2> QED
    BY <1>0, <1>4, <2>1, <2>3, PairsKept
<1>5. ASSUME NEW kept, kept = IF a \in Batches THEN Recovered(a, reading[a]) ELSE rows,
             rows' = kept \o NewRows(a), stage' = [stage EXCEPT ![a] = "screening"]
      PROVE  SettlementInv'
  <2>1. /\ kept \in Seq(Rows) /\ Len(kept) = Len(rows)
        /\ \A i \in DOMAIN rows :
              /\ kept[i].by = rows[i].by /\ kept[i].key = rows[i].key
              /\ \/ kept[i].status = rows[i].status
                 \/ rows[i].status = "reserved" /\ kept[i].status = "recovered"
    BY <1>5, SettledKeeps DEF Recovered, QuotaTypeOK
  <2>2. PICK N : N = (Len(rows)+1)..(Len(rows)+Len(MembersOf[a]))
    OBVIOUS
  <2>3. /\ DOMAIN rows' = DOMAIN rows \cup N
        /\ \A i \in DOMAIN rows : rows'[i] = kept[i]
        /\ \A i \in N : /\ i - Len(rows) \in 1..Len(MembersOf[a])
                        /\ rows'[i] = [by |-> a, key |-> MembersOf[a][i - Len(rows)],
                                       at |-> reading[a], status |-> "reserved"]
    BY <1>5, <2>1, <2>2, Insertion
  <2>4. \A b \in published : stage'[b] \in {"failing", "done"}
    BY <1>0, <1>3, <1>5
  <2>5. ASSUME NEW i \in DOMAIN rows PROVE RowIsTrue(i)'
    <3>1. RowIsTrue(i) /\ rows[i].by # a /\ rows[i].by \in Attempts
      BY <1>1, <1>2
    <3>2. /\ rows'[i].by = rows[i].by /\ rows'[i].key = rows[i].key
          /\ \/ rows'[i].status = rows[i].status
             \/ rows[i].status = "reserved" /\ rows'[i].status = "recovered"
      BY <2>1, <2>3
    <3>3. stage'[rows[i].by] = stage[rows[i].by] /\ published' = published
      BY <1>0, <1>5, <3>1
    <3> QED
      BY <3>1, <3>2, <3>3 DEF RowIsTrue, Keys
  <2>6. ASSUME NEW i \in N PROVE RowIsTrue(i)'
    <3>1. /\ rows'[i].by = a /\ rows'[i].key = MembersOf[a][i - Len(rows)]
          /\ rows'[i].status = "reserved" /\ i - Len(rows) \in DOMAIN MembersOf[a]
      BY <2>3, QuotaConstants
    <3>2. stage'[a] = "screening" /\ a \notin published'
      BY <1>0, <1>1, <1>5
    <3> QED
      BY <3>1, <3>2 DEF RowIsTrue, Keys
  <2>7. ASSUME NEW i \in DOMAIN rows', NEW j \in DOMAIN rows',
               rows'[i].by = rows'[j].by, rows'[i].key = rows'[j].key
        PROVE  i = j
    <3>1. CASE i \in DOMAIN rows /\ j \in DOMAIN rows
      <4>1. rows[i].by = rows[j].by /\ rows[i].key = rows[j].key
        BY <2>1, <2>3, <2>7, <3>1
      <4> QED
        BY <3>1, <4>1 DEF SettlementInv
    <3>2. CASE i \in N /\ j \in N
      <4>1. /\ i - Len(rows) \in DOMAIN MembersOf[a] /\ j - Len(rows) \in DOMAIN MembersOf[a]
            /\ MembersOf[a][i - Len(rows)] = MembersOf[a][j - Len(rows)]
        BY <2>3, <2>7, <3>2, QuotaConstants
      <4>2. i - Len(rows) = j - Len(rows)
        BY <4>1, QuotaConstants
      <4>3. Len(rows) \in Nat /\ Len(MembersOf[a]) \in Nat
        BY QuotaConstants DEF QuotaTypeOK
      <4> QED
        BY <2>2, <3>2, <4>2, <4>3
    <3>3. CASE (i \in DOMAIN rows /\ j \in N) \/ (i \in N /\ j \in DOMAIN rows)
      <4>1. \A k \in DOMAIN rows : rows'[k].by # a
        BY <1>1, <2>1, <2>3
      <4>2. \A k \in N : rows'[k].by = a
        BY <2>3
      <4> QED
        BY <2>7, <3>3, <4>1, <4>2
    <3> QED
      BY <2>3, <2>7, <3>1, <3>2, <3>3
  <2>8. \A i \in DOMAIN rows' : RowIsTrue(i)'
    BY <2>3, <2>5, <2>6
  <2> QED
    BY <1>0, <2>4, <2>7, <2>8 DEF SettlementInv, Keys
<1> QED
  BY <1>4, <1>5 DEF Reserve, MoveTo

\* The ledger settles what it publishes, and publishes a key once.
LEMMA PublishSettles ==
    ASSUME QuotaTypeOK, SettlementInv, NEW a \in Attempts, Publish(a)
    PROVE  SettlementInv'
<1>0. /\ stage \in [Attempts -> {"start", "check", "reserve", "refused", "screening", "failing",
                                 "publish", "done"}]
      /\ stage[a] = "publish"
      /\ (stage' = [stage EXCEPT ![a] = "failing"] \/ stage' = [stage EXCEPT ![a] = "done"])
  <2>1. stage[a] = "publish" /\ (MoveTo(a, "failing") \/ MoveTo(a, "done"))
    BY DEF Publish
  <2> QED
    BY <2>1 DEF QuotaTypeOK, MoveTo
<1>1. \A i \in DOMAIN rows : RowIsTrue(i) /\ rows[i].by \in Attempts
  <2>1. \A i \in DOMAIN rows : rows[i] \in Rows
    BY DEF QuotaTypeOK
  <2> QED
    BY <2>1 DEF Rows, SettlementInv
<1>2. \A b \in published : b \in Attempts /\ b # a /\ stage[b] \in {"failing", "done"}
  BY <1>0 DEF SettlementInv, QuotaTypeOK
<1>3. CASE UNCHANGED <<published, rows>>
  <2>1. \A b \in published : stage'[b] \in {"failing", "done"}
    BY <1>0, <1>2
  <2>2. ASSUME NEW i \in DOMAIN rows PROVE RowIsTrue(i)'
    <3>1. RowIsTrue(i) /\ rows' = rows /\ published' = published
      BY <1>1, <1>3
    <3>2. CASE rows[i].by = a
      <4>1. stage'[rows[i].by] \in {"failing", "done"}
        BY <1>0, <1>1, <3>2
      <4>2. rows[i].status \in {"reserved", "recovered"} /\ rows[i].by \notin published
        BY <1>0, <1>2, <3>1, <3>2 DEF RowIsTrue
      <4> QED
        BY <3>1, <4>1, <4>2 DEF RowIsTrue, Keys
    <3>3. CASE rows[i].by # a
      <4>1. stage'[rows[i].by] = stage[rows[i].by]
        BY <1>0, <1>1, <3>3
      <4> QED
        BY <3>1, <4>1 DEF RowIsTrue, Keys
    <3> QED
      BY <3>2, <3>3
  <2> QED
    BY <1>3, <2>1, <2>2, PairsKept
<1>4. CASE ~Taken(a) /\ published' = published \cup {a} /\ rows' = Settled(Own(a), "published")
  <2>1. DOMAIN rows' = DOMAIN rows /\ \A i \in DOMAIN rows :
           /\ rows'[i].by = rows[i].by /\ rows'[i].key = rows[i].key
           /\ rows'[i].status = IF rows[i].by = a /\ rows[i].status = "reserved"
                                THEN "published" ELSE rows[i].status
    BY <1>4, SettledKeeps DEF Own
  <2>2. \A b \in published' : stage'[b] \in {"failing", "done"}
    BY <1>0, <1>2, <1>4
  <2>3. ASSUME NEW i \in DOMAIN rows PROVE RowIsTrue(i)'
    <3>1. /\ RowIsTrue(i) /\ rows'[i].by = rows[i].by /\ rows'[i].key = rows[i].key
          /\ published' = published \cup {a}
      BY <1>1, <1>4, <2>1
    <3>2. CASE rows[i].by = a
      <4>1. stage'[rows[i].by] \in {"failing", "done"}
        BY <1>0, <1>1, <3>2
      <4>2. rows[i].status \in {"reserved", "recovered"}
        BY <1>0, <3>1, <3>2 DEF RowIsTrue
      <4>3. rows'[i].status \in {"recovered", "published"}
        BY <2>1, <3>2, <4>2
      <4> QED
        BY <3>1, <3>2, <4>1, <4>3 DEF RowIsTrue, Keys
    <3>3. CASE rows[i].by # a
      <4>1. stage'[rows[i].by] = stage[rows[i].by] /\ rows'[i].status = rows[i].status
        BY <1>0, <1>1, <2>1, <3>3
      <4> QED
        BY <3>1, <3>3, <4>1 DEF RowIsTrue, Keys
    <3> QED
      BY <3>2, <3>3
  <2>4. \A i, j \in DOMAIN rows' :
           rows'[i].by = rows'[j].by /\ rows'[i].key = rows'[j].key => i = j
    BY <2>1 DEF SettlementInv
  <2>5. ASSUME NEW b \in published', NEW c \in published', Keys(b) \cap Keys(c) # {}
        PROVE  b = c
    <3>1. \A d \in published : Keys(a) \cap Keys(d) = {} /\ Keys(d) \cap Keys(a) = {}
      BY <1>4 DEF Taken
    <3> QED
      BY <1>4, <2>5, <3>1 DEF SettlementInv
  <2>6. \A b, c \in published' : (Keys(b) \cap Keys(c))' # {} => b = c
    BY <2>5 DEF Keys
  <2> QED
    BY <2>1, <2>2, <2>3, <2>4, <2>6 DEF SettlementInv
<1> QED
  BY <1>3, <1>4 DEF Publish

\* The settlement invariant is inductive.
LEMMA StepSettles == QuotaTypeOK /\ SettlementInv /\ [QuotaNext]_quotaVars => SettlementInv'
<1> SUFFICES ASSUME QuotaTypeOK, SettlementInv, [QuotaNext]_quotaVars PROVE SettlementInv'
  OBVIOUS
<1>1. CASE UNCHANGED <<rows, published, stage>>
  <2>1. \A i \in DOMAIN rows : RowIsTrue(i)'
    BY <1>1 DEF SettlementInv, RowIsTrue, Keys
  <2>2. \A b \in published : stage'[b] \in {"failing", "done"}
    BY <1>1 DEF SettlementInv
  <2> QED
    BY <1>1, <2>1, <2>2, PairsKept
<1> QED
  BY <1>1, EarlyStepsSettle, InsertionSettles, PublishSettles
     DEF QuotaNext, Elapse, ChangeControl, quotaVars

(* A reservation is settled as what became of its attempt, whatever answer   *)
(* was lost and whichever retry recovered it before.                         *)
THEOREM TruthfulSettlements == QuotaSpec => []SettlementsAreTrue
<1>1. QuotaInit => SettlementInv
  BY DEF QuotaInit, SettlementInv
<1> QED
  BY <1>1, QuotaTypes, StepSettles, InvSettles, PTL DEF QuotaSpec
-----------------------------------------------------------------------------
(* The advice of a refusal *)

\* A set of natural numbers has a least element.
LEMMA LeastTime ==
    ASSUME NEW S \in SUBSET Nat, S # {}
    PROVE  \E m \in S : \A n \in S : m <= n
<1>1. PICK m \in S : \A n \in S : <<n, m>> \notin OpToRel(<, Nat)
  BY NatLessThanWellFounded, WFMin
<1>2. ASSUME NEW n \in S PROVE m <= n
  <2>1. m \in Nat /\ n \in Nat /\ ~(n < m)
    BY <1>1 DEF OpToRel
  <2> QED
    BY <2>1
<1> QED
  BY <1>2

(* What the advice relies on: no reservation is dated after the last time    *)
(* the fastest clock shows, and no control allows more than the hour does.   *)
DatesAreBounded ==
    /\ time <= MaxClock
    /\ \A a \in Attempts : reading[a] <= MaxClock + Drift
    /\ \A i \in DOMAIN rows : rows[i].at <= MaxClock + Drift
    /\ \A p \in Problems : control[p].limit <= Cap

\* The reservations of a set as a number.
LEMMA Counted ==
    ASSUME QuotaTypeOK, NEW S, S \subseteq DOMAIN rows
    PROVE  Cardinality(S) \in Nat
BY RowsAreFinite, FS_CardinalityType

\* The dates of reservations are times.
LEMMA DatesAreTimes == QuotaTypeOK => \A i \in DOMAIN rows : rows[i].at \in Nat
<1> SUFFICES ASSUME QuotaTypeOK, NEW i \in DOMAIN rows PROVE rows[i].at \in Nat
  OBVIOUS
<1>1. rows[i] \in Rows
  BY DEF QuotaTypeOK
<1> QED
  BY <1>1 DEF Rows

\* Those of a set that are dated up to a time.
DatedBy(S, x) == {i \in S : rows[i].at <= x}

(* The first time at which enough of a set are in the past. *)
LEMMA Threshold ==
    ASSUME QuotaTypeOK, DatesAreBounded, NEW S, S \subseteq DOMAIN rows,
           NEW k \in Nat \ {0}, k <= Cardinality(S)
    PROVE  \E x0 \in Nat : /\ \A x \in Int : Cardinality(DatedBy(S, x)) >= k <=> x >= x0
                           /\ \E i \in S : rows[i].at = x0
<1>1. \A i \in S : rows[i].at \in Nat /\ rows[i].at <= MaxClock + Drift
  BY DatesAreTimes DEF DatesAreBounded
<1>2. \A x \in Int : IsFiniteSet(DatedBy(S, x)) /\ Cardinality(DatedBy(S, x)) \in Nat
  <2> TAKE x \in Int
  <2>1. DatedBy(S, x) \subseteq DOMAIN rows
    BY DEF DatedBy
  <2> QED
    BY <2>1, RowsAreFinite, Counted
<1>3. ASSUME NEW x \in Int, NEW y \in Int, x <= y
      PROVE  Cardinality(DatedBy(S, x)) <= Cardinality(DatedBy(S, y))
  <2>1. DatedBy(S, x) \subseteq DatedBy(S, y)
    BY <1>1, <1>3 DEF DatedBy
  <2> QED
    BY <1>2, <2>1, FS_Subset
<1> DEFINE T == {x \in Nat : Cardinality(DatedBy(S, x)) >= k}
<1>4. T # {}
  <2>1. DatedBy(S, MaxClock + Drift) = S
    BY <1>1 DEF DatedBy
  <2>2. MaxClock + Drift \in Nat /\ Cardinality(S) \in Nat
    BY QuotaConstants, Counted
  <2> QED
    BY <2>1, <2>2
<1>5. PICK x0 \in T : \A x \in T : x0 <= x
  <2>1. T \in SUBSET Nat
    OBVIOUS
  <2> HIDE DEF T
  <2> QED
    BY <1>4, <2>1, LeastTime
<1>6. ASSUME NEW x \in Int PROVE Cardinality(DatedBy(S, x)) >= k <=> x >= x0
  <2>1. CASE x >= x0
    <3>1. Cardinality(DatedBy(S, x0)) <= Cardinality(DatedBy(S, x))
      BY <1>3, <2>1
    <3>2. Cardinality(DatedBy(S, x0)) \in Nat /\ Cardinality(DatedBy(S, x)) \in Nat
      BY <1>2
    <3> QED
      BY <2>1, <3>1, <3>2
  <2>2. CASE x < x0 /\ x >= 0
    BY <1>2, <1>5, <2>2
  <2>3. CASE x < 0
    <3>1. DatedBy(S, x) = {}
      BY <1>1, <2>3 DEF DatedBy
    <3>2. Cardinality(DatedBy(S, x)) = 0
      BY <3>1, FS_EmptySet
    <3> QED
      BY <2>3, <3>2
  <2> QED
    BY <2>1, <2>2, <2>3
<1>7. \E i \in S : rows[i].at = x0
  <2>1. SUFFICES ASSUME \A i \in S : rows[i].at # x0 PROVE FALSE
    OBVIOUS
  <2>2. DatedBy(S, x0) = DatedBy(S, x0 - 1)
    BY <1>1, <2>1 DEF DatedBy
  <2> QED
    BY <1>6, <2>2
<1> QED
  BY <1>6, <1>7

(* The recovery of a group that fits at all is one moment: before it there   *)
(* is no room, and from then on there is.                                    *)
LEMMA RecoveryIsExact ==
    ASSUME QuotaTypeOK, DatesAreBounded, NEW mine, mine \subseteq DOMAIN rows,
           NEW count \in Nat, NEW cap \in Nat, NEW at \in Nat, count <= cap
    PROVE  \E t \in Nat :
              /\ t >= at /\ RecoveryTimes(mine, count, cap, at) = {t}
              /\ \A u \in Nat : u >= at =>
                    (Cardinality(Recent(mine, u)) + count <= cap <=> u >= t)
<1> DEFINE R == Recent(mine, at)
           k == Surplus(mine, count, cap, at)
<1>1. \A i \in mine : rows[i].at \in Nat
  BY DatesAreTimes
<1>2. R \subseteq DOMAIN rows /\ IsFiniteSet(R) /\ Cardinality(R) \in Nat
  <2>1. R \subseteq DOMAIN rows
    BY DEF Recent
  <2> QED
    BY <2>1, RowsAreFinite, Counted
<1>3. k = Cardinality(R) + count - cap /\ k \in Int
  BY <1>2 DEF Surplus
<1>4. ASSUME NEW u \in Nat, u >= at
      PROVE  /\ Cardinality(Recent(mine, u)) = Cardinality(R) - Cardinality(DatedBy(R, u - Window))
             /\ Cardinality(DatedBy(R, u - Window)) \in Nat
             /\ Cardinality(Recent(mine, u)) \in Nat
  <2>0. u - Window \in Int /\ at - Window \in Int
    BY QuotaConstants
  <2>1. Recent(mine, u) = R \ DatedBy(R, u - Window)
    BY <1>1, <1>4, QuotaConstants DEF Recent, DatedBy
  <2>2. R \cap DatedBy(R, u - Window) = DatedBy(R, u - Window)
    BY DEF DatedBy
  <2>3. Cardinality(R \ DatedBy(R, u - Window))
           = Cardinality(R) - Cardinality(R \cap DatedBy(R, u - Window))
    BY <1>2, FS_Difference
  <2>4. DatedBy(R, u - Window) \subseteq DOMAIN rows /\ Recent(mine, u) \subseteq DOMAIN rows
    BY <1>2 DEF DatedBy, Recent
  <2> QED
    BY <2>1, <2>2, <2>3, <2>4, Counted
<1>5. CASE k <= 0
  <2>1. RecoveryTimes(mine, count, cap, at) = {at}
    BY <1>5 DEF RecoveryTimes
  <2>2. \A u \in Nat : u >= at => Cardinality(Recent(mine, u)) + count <= cap
    <3> SUFFICES ASSUME NEW u \in Nat, u >= at PROVE Cardinality(Recent(mine, u)) + count <= cap
      OBVIOUS
    <3> HIDE DEF R, k
    <3> QED
      BY <1>2, <1>3, <1>4, <1>5
  <2> QED
    BY <2>1, <2>2
<1>6. CASE k > 0
  <2>1. k \in Nat \ {0} /\ k <= Cardinality(R)
    BY <1>2, <1>3, <1>6
  <2> HIDE DEF R, k
  <2>2. PICK x0 \in Nat : /\ \A x \in Int : Cardinality(DatedBy(R, x)) >= k <=> x >= x0
                          /\ \E i \in R : rows[i].at = x0
    BY <1>2, <2>1, Threshold
  <2> DEFINE last == {i \in R : /\ Cardinality(DatedBy(R, rows[i].at)) >= k
                                /\ Cardinality(DatedBy(R, rows[i].at - 1)) < k}
  <2>3. \A i \in R : /\ rows[i].at \in Nat /\ rows[i].at - 1 \in Int
                     /\ Cardinality(DatedBy(R, rows[i].at - 1)) \in Nat
    <3>1. \A i \in R : rows[i].at \in Nat
      BY <1>1 DEF R, Recent
    <3>2. \A x \in Int : Cardinality(DatedBy(R, x)) \in Nat
      <4> TAKE x \in Int
      <4>1. DatedBy(R, x) \subseteq DOMAIN rows
        BY <1>2 DEF DatedBy
      <4> QED
        BY <4>1, Counted
    <3> QED
      BY <3>1, <3>2
  <2>4. last = {i \in R : rows[i].at = x0}
    <3> SUFFICES ASSUME NEW i \in R
                 PROVE  /\ Cardinality(DatedBy(R, rows[i].at)) >= k
                        /\ Cardinality(DatedBy(R, rows[i].at - 1)) < k
                        <=> rows[i].at = x0
      OBVIOUS
    <3>1. Cardinality(DatedBy(R, rows[i].at)) >= k <=> rows[i].at >= x0
      BY <2>2, <2>3
    <3>2. Cardinality(DatedBy(R, rows[i].at - 1)) >= k <=> rows[i].at - 1 >= x0
      BY <2>2, <2>3
    <3>3. Cardinality(DatedBy(R, rows[i].at - 1)) < k <=> ~(Cardinality(DatedBy(R, rows[i].at - 1)) >= k)
      BY <2>1, <2>3
    <3> QED
      BY <2>3, <3>1, <3>2, <3>3
  <2>5. RecoveryTimes(mine, count, cap, at) = {rows[i].at + Window : i \in last}
    <3>1. ~(count > cap) /\ ~(k <= 0)
      BY <1>6, <2>1
    <3> QED
      BY <3>1 DEF RecoveryTimes, DatedBy, R, k
  <2>6. RecoveryTimes(mine, count, cap, at) = {x0 + Window}
    BY <2>2, <2>4, <2>5
  <2>7. x0 + Window \in Nat /\ x0 + Window >= at
    BY <2>2, QuotaConstants DEF R, Recent
  <2>8. ASSUME NEW u \in Nat, u >= at
        PROVE  Cardinality(Recent(mine, u)) + count <= cap <=> u >= x0 + Window
    <3>1. u - Window \in Int /\ Window \in Nat
      BY QuotaConstants
    <3>2. Cardinality(DatedBy(R, u - Window)) >= k <=> u - Window >= x0
      BY <2>2, <3>1
    <3>3. Cardinality(Recent(mine, u)) + count <= cap <=> Cardinality(DatedBy(R, u - Window)) >= k
      BY <1>2, <1>3, <1>4, <2>8
    <3> QED
      BY <3>1, <3>2, <3>3
  <2> QED
    BY <2>6, <2>7, <2>8
<1> QED
  BY <1>3, <1>5, <1>6

\* The earliest of some times, but not before the next moment.
LEMMA EarliestIs ==
    ASSUME NEW times, NEW m \in times, \A y \in times : y \in Nat /\ m <= y, NEW at \in Nat
    PROVE  Earliest(times, at) = LaterOf(at + 1, m)
<1>1. (CHOOSE x \in times : \A y \in times : x <= y) = m
  BY Z3
<1> QED
  BY <1>1 DEF Earliest

\* One time is its own earliest.
LEMMA EarliestOfOne ==
    ASSUME NEW m \in Nat, NEW at \in Nat
    PROVE  Earliest({m}, at) = LaterOf(at + 1, m)
<1>1. m \in {m} /\ \A y \in {m} : y \in Nat /\ m <= y
  OBVIOUS
<1> QED
  BY <1>1, EarliestIs

\* A group above the capacity never recovers.
LEMMA NeverRecovers ==
    ASSUME NEW mine, NEW count \in Nat, NEW cap \in Nat, NEW at, count > cap
    PROVE  RecoveryTimes(mine, count, cap, at) = {}
BY DEF RecoveryTimes

(* A Fellow's attempt fits from one moment on, and that is the earliest of   *)
(* the times it recovers: under the limit in force, or when that expires.    *)
LEMMA FellowRecovers ==
    ASSUME QuotaTypeOK, DatesAreBounded, NEW a \in Attempts, Len(MembersOf[a]) <= Cap, NEW at \in Nat
    PROVE  LET count == Len(MembersOf[a])
               until == control[ProblemOf[a]].until
               tight == RecoveryTimes(OfFellow(a), count, LimitAt(ProblemOf[a], at), at)
               loose == IF until > at THEN RecoveryTimes(OfFellow(a), count, Cap, at) ELSE {}
           IN \E m \in Nat :
                 /\ Earliest(tight \cup {LaterOf(until, x) : x \in loose}, at) = LaterOf(at + 1, m)
                 /\ \A u \in Nat : u >= at =>
                       (/\ Cardinality(Recent(OfFellow(a), u)) + count <= LimitAt(ProblemOf[a], u)
                        /\ Cardinality(Recent(OfFellow(a), u)) + count <= Cap
                        <=> u >= m)
<1> DEFINE count == Len(MembersOf[a])
           p == ProblemOf[a]
           until == control[p].until
           limit == control[p].limit
           C(u) == Cardinality(Recent(OfFellow(a), u))
           tight == RecoveryTimes(OfFellow(a), count, LimitAt(p, at), at)
           loose == IF until > at THEN RecoveryTimes(OfFellow(a), count, Cap, at) ELSE {}
           times == tight \cup {LaterOf(until, x) : x \in loose}
<1>1. count \in Nat /\ Cap \in Nat /\ until \in Nat /\ limit \in Nat /\ limit <= Cap /\ count <= Cap
  <2>1. p \in Problems
    BY DEF Problems
  <2> QED
    BY <2>1, QuotaConstants DEF QuotaTypeOK, DatesAreBounded, Controls
<1>2. OfFellow(a) \subseteq DOMAIN rows
  BY DEF OfFellow
<1>3. \A u \in Nat : C(u) \in Nat
  <2> TAKE u \in Nat
  <2>1. Recent(OfFellow(a), u) \subseteq DOMAIN rows
    BY <1>2 DEF Recent
  <2> QED
    BY <2>1, Counted
<1>4. PICK tl \in Nat : /\ tl >= at /\ RecoveryTimes(OfFellow(a), count, Cap, at) = {tl}
                        /\ \A u \in Nat : u >= at => (C(u) + count <= Cap <=> u >= tl)
  <2> HIDE DEF count
  <2> QED
    BY <1>1, <1>2, RecoveryIsExact
<1>5. \A u \in Nat : LimitAt(p, u) = IF until > u THEN limit ELSE Cap
  BY DEF LimitAt
<1> SUFFICES \E m \in Nat :
                 /\ Earliest(times, at) = LaterOf(at + 1, m)
                 /\ \A u \in Nat : u >= at =>
                       (C(u) + count <= LimitAt(p, u) /\ C(u) + count <= Cap <=> u >= m)
  OBVIOUS
<1>6. CASE until <= at
  <2>1. tight = {tl} /\ loose = {}
    BY <1>1, <1>4, <1>5, <1>6
  <2>2. times = {tl}
    BY <2>1
  <2> HIDE DEF tight, loose, times, C, count, until, limit, p
  <2>3. Earliest(times, at) = LaterOf(at + 1, tl)
    BY <2>2, EarliestOfOne
  <2>4. ASSUME NEW u \in Nat, u >= at
        PROVE  C(u) + count <= LimitAt(p, u) /\ C(u) + count <= Cap <=> u >= tl
    <3>1. LimitAt(p, u) = Cap
      BY <1>1, <1>5, <1>6, <2>4
    <3> QED
      BY <1>4, <2>4, <3>1
  <2> QED
    BY <2>3, <2>4
<1>7. CASE until > at
  <2>1. loose = {tl} /\ tight = RecoveryTimes(OfFellow(a), count, limit, at)
    BY <1>1, <1>4, <1>5, <1>7
  <2>2. times = tight \cup {LaterOf(until, tl)}
    BY <2>1
  <2> DEFINE late == LaterOf(until, tl)
  <2>3. late \in Nat /\ late = IF until > tl THEN until ELSE tl
    BY <1>1, <1>4 DEF LaterOf
  <2>4. CASE count > limit
    <3>1. tight = {}
      <4>1. RecoveryTimes(OfFellow(a), count, limit, at) = {}
        <5> HIDE DEF count, limit
        <5> QED
          BY <1>1, <2>4, NeverRecovers
      <4> QED
        BY <2>1, <4>1
    <3>2. times = {late}
      BY <2>2, <3>1
    <3> HIDE DEF tight, loose, times, C, count, until, limit, p, late
    <3>3. Earliest(times, at) = LaterOf(at + 1, late)
      BY <2>3, <3>2, EarliestOfOne
    <3>4. ASSUME NEW u \in Nat, u >= at
          PROVE  C(u) + count <= LimitAt(p, u) /\ C(u) + count <= Cap <=> u >= late
      <4>1. CASE until > u
        <5>1. LimitAt(p, u) = limit
          BY <1>5, <4>1
        <5>2. ~(C(u) + count <= limit)
          BY <1>1, <1>3, <2>4
        <5> QED
          BY <1>1, <1>4, <2>3, <4>1, <5>1, <5>2
      <4>2. CASE ~(until > u)
        <5>1. LimitAt(p, u) = Cap
          BY <1>5, <4>2
        <5> QED
          BY <1>1, <1>4, <2>3, <3>4, <4>2, <5>1
      <4> QED
        BY <4>1, <4>2
    <3> QED
      BY <2>3, <3>3, <3>4
  <2>5. CASE count <= limit
    <3> HIDE DEF count, C, p, until, limit, tight, loose, times, late
    <3>1. PICK tt \in Nat : /\ tt >= at /\ RecoveryTimes(OfFellow(a), count, limit, at) = {tt}
                            /\ \A u \in Nat : u >= at => (C(u) + count <= limit <=> u >= tt)
      BY <1>1, <1>2, <2>5, RecoveryIsExact DEF C
    <3>2. tl <= tt
      <4>1. C(tt) + count <= limit /\ C(tt) \in Nat
        BY <1>3, <3>1
      <4>2. C(tt) + count <= Cap
        BY <1>1, <4>1
      <4> QED
        BY <1>4, <3>1, <4>2
    <3>3. times = {tt, late}
      BY <2>1, <2>2, <3>1 DEF late
    <3> DEFINE m == IF tt < until THEN tt ELSE late
    <3>4. m \in times /\ m \in Nat /\ \A y \in times : y \in Nat /\ m <= y
      BY <1>1, <1>4, <2>3, <3>1, <3>2, <3>3
    <3>5. Earliest(times, at) = LaterOf(at + 1, m)
      <4> HIDE DEF m
      <4> QED
        BY <3>4, EarliestIs
    <3>6. ASSUME NEW u \in Nat, u >= at
          PROVE  C(u) + count <= LimitAt(p, u) /\ C(u) + count <= Cap <=> u >= m
      <4>1. (C(u) + count <= limit <=> u >= tt) /\ (C(u) + count <= Cap <=> u >= tl)
        BY <1>4, <3>1, <3>6
      <4>2. CASE until > u
        <5>1. LimitAt(p, u) = limit
          BY <1>5, <4>2
        <5> QED
          BY <1>1, <1>4, <2>3, <3>1, <3>2, <4>1, <4>2, <5>1
      <4>3. CASE ~(until > u)
        <5>1. LimitAt(p, u) = Cap
          BY <1>5, <4>3
        <5> QED
          BY <1>1, <1>4, <2>3, <3>1, <3>2, <4>1, <4>3, <5>1
      <4> QED
        BY <4>2, <4>3
    <3> QED
      BY <3>4, <3>5, <3>6
  <2> HIDE DEF C, p, count, until, limit, times
  <2> QED
    BY <1>1, <2>4, <2>5
<1> HIDE DEF C, p, count, until, limit, times
<1> QED
  BY <1>1, <1>6, <1>7

\* From the bounds: the advice is the first moment at which both parts fit.
LEMMA AdviceFollows == QuotaTypeOK /\ DatesAreBounded => AdviceHolds
<1> SUFFICES ASSUME QuotaTypeOK, DatesAreBounded, NEW a \in Attempts,
                    NEW at \in 0..(MaxClock + Drift),
                    Len(MembersOf[a]) <= Cap, Len(MembersOf[a]) <= PayerCap
             PROVE  /\ Fits(a, RetryAt(a, at))
                    /\ RetryAt(a, at) > at + 1 => ~Fits(a, RetryAt(a, at) - 1)
  BY DEF AdviceHolds
<1>1. at \in Nat /\ Len(MembersOf[a]) \in Nat /\ PayerCap \in Nat
  BY QuotaConstants
<1> DEFINE count == Len(MembersOf[a])
           until == control[ProblemOf[a]].until
           tight == RecoveryTimes(OfFellow(a), count, LimitAt(ProblemOf[a], at), at)
           loose == IF until > at THEN RecoveryTimes(OfFellow(a), count, Cap, at) ELSE {}
           forFellow == Earliest(tight \cup {LaterOf(until, x) : x \in loose}, at)
           forSponsor == Earliest(RecoveryTimes(OfPayer(a), count, PayerCap, at), at)
<1>2. PICK m \in Nat :
         /\ forFellow = LaterOf(at + 1, m)
         /\ \A u \in Nat : u >= at =>
               (/\ Cardinality(Recent(OfFellow(a), u)) + count <= LimitAt(ProblemOf[a], u)
                /\ Cardinality(Recent(OfFellow(a), u)) + count <= Cap
                <=> u >= m)
  BY <1>1, FellowRecovers
<1>3. PICK t \in Nat :
         /\ t >= at /\ RecoveryTimes(OfPayer(a), count, PayerCap, at) = {t}
         /\ \A u \in Nat : u >= at =>
               (Cardinality(Recent(OfPayer(a), u)) + count <= PayerCap <=> u >= t)
  <2>1. OfPayer(a) \subseteq DOMAIN rows
    BY DEF OfPayer
  <2> HIDE DEF count
  <2> QED
    BY <1>1, <2>1, RecoveryIsExact DEF count
<1>4. forSponsor = LaterOf(at + 1, t)
  BY <1>1, <1>3, EarliestOfOne
<1>5. RetryAt(a, at) = LaterOf(forFellow, forSponsor)
  BY DEF RetryAt
<1>6. ASSUME NEW u \in Nat, u >= at PROVE Fits(a, u) <=> u >= m /\ u >= t
  BY <1>2, <1>3, <1>6 DEF Fits
<1> HIDE DEF forFellow, forSponsor
<1> DEFINE then == RetryAt(a, at)
<1>7. /\ then \in Nat /\ then >= at + 1 /\ then >= m /\ then >= t
      /\ then = at + 1 \/ then = m \/ then = t
  BY <1>1, <1>2, <1>4, <1>5 DEF LaterOf
<1> HIDE DEF then
<1>8. Fits(a, then)
  <2>1. then >= at
    BY <1>1, <1>7
  <2> QED
    BY <1>6, <1>7, <2>1
<1>9. ASSUME then > at + 1 PROVE ~Fits(a, then - 1)
  <2>1. then - 1 \in Nat /\ then - 1 >= at /\ ~(then - 1 >= m /\ then - 1 >= t)
    BY <1>1, <1>7, <1>9
  <2> QED
    BY <1>6, <2>1
<1> QED
  BY <1>8, <1>9 DEF then

-----------------------------------------------------------------------------
(* The bounds are invariant *)

\* An insertion is dated with a clock that was read, and an order stays below the cap of the hour.
LEMMA DatesStayBounded ==
    ASSUME QuotaTypeOK, DatesAreBounded, [QuotaNext]_quotaVars
    PROVE  DatesAreBounded'
<1>0. /\ time \in Nat /\ MaxClock \in Nat /\ Drift \in Nat
      /\ reading \in [Attempts -> Nat] /\ control \in [Problems -> Controls]
  BY QuotaConstants DEF QuotaTypeOK
<1>1. ASSUME NEW S, NEW status \in {"recovered", "held", "rejected", "failed", "published"},
             rows' = Settled(S, status)
      PROVE  \A i \in DOMAIN rows' : rows'[i].at <= MaxClock + Drift
  BY <1>1, SettledKeeps DEF DatesAreBounded
<1>2. CASE UNCHANGED quotaVars
  BY <1>2 DEF quotaVars, DatesAreBounded, Problems
<1>3. CASE Elapse
  BY <1>0, <1>3 DEF Elapse, DatesAreBounded, Problems
<1>4. ASSUME NEW p \in Problems, ChangeControl(p) PROVE DatesAreBounded'
  <2>1. PICK c \in Orders :
           control' = [control EXCEPT ![p] = [limit |-> c.limit, until |-> c.until,
                                              since |-> Len(rows), revision |-> control[p].revision + 1]]
    BY <1>4 DEF ChangeControl
  <2>2. c.limit <= Cap
    <3>1. CASE c = [limit |-> Cap, until |-> 0]
      BY <3>1, QuotaConstants
    <3>2. ASSUME NEW x \in SlowCaps, NEW v \in (time + 1)..MaxClock,
                 c = [limit |-> x, until |-> v]
          PROVE  c.limit <= Cap
      <4>1. x \in 1..Cap
        BY QuotaConstants
      <4> QED
        BY <3>2, <4>1
    <3> QED
      BY <2>1, <3>1, <3>2 DEF Orders
  <2>3. \A q \in Problems : control'[q].limit <= Cap
    BY <1>0, <2>1, <2>2 DEF DatesAreBounded
  <2> QED
    BY <1>4, <2>3 DEF ChangeControl, DatesAreBounded, Problems
<1>5. ASSUME NEW a \in Attempts, Begin(a) PROVE DatesAreBounded'
  <2>1. PICK at \in time..(time + Drift) :
          /\ reading' = [reading EXCEPT ![a] = at]
          /\ rows' = IF a \in Batches THEN rows ELSE Recovered(a, at)
    BY <1>5 DEF Begin
  <2>2. \A b \in Attempts : reading'[b] <= MaxClock + Drift
    <3>1. at <= MaxClock + Drift
      BY <1>0 DEF DatesAreBounded
    <3> QED
      BY <1>0, <2>1, <3>1 DEF DatesAreBounded
  <2>3. \A i \in DOMAIN rows' : rows'[i].at <= MaxClock + Drift
    <3>1. CASE a \in Batches
      BY <2>1, <3>1 DEF DatesAreBounded
    <3>2. CASE a \notin Batches
      BY <1>1, <2>1, <3>2 DEF Recovered
    <3> QED
      BY <3>1, <3>2
  <2> QED
    BY <1>5, <2>2, <2>3 DEF Begin, DatesAreBounded, Problems
<1>6. ASSUME NEW a \in Attempts, Check(a) PROVE DatesAreBounded'
  BY <1>6 DEF Check, DatesAreBounded, Problems
<1>7. ASSUME NEW a \in Attempts, Reserve(a) PROVE DatesAreBounded'
  <2>1. PICK kept : kept = IF a \in Batches THEN Recovered(a, reading[a]) ELSE rows
    OBVIOUS
  <2>2. /\ UNCHANGED <<time, control, published, reading>>
        /\ rows' = kept \o NewRows(a) \/ rows' = rows
    BY <1>7, <2>1 DEF Reserve
  <2>3. /\ kept \in Seq(Rows) /\ Len(kept) = Len(rows)
        /\ \A i \in DOMAIN rows : kept[i].at = rows[i].at
    BY <2>1, SettledKeeps DEF Recovered, QuotaTypeOK
  <2>4. \A i \in DOMAIN rows' : rows'[i].at <= MaxClock + Drift
    <3>1. CASE rows' = rows
      BY <3>1 DEF DatesAreBounded
    <3>2. CASE rows' = kept \o NewRows(a)
      <4>1. PICK N : N = (Len(rows)+1)..(Len(rows)+Len(MembersOf[a]))
        OBVIOUS
      <4>2. /\ DOMAIN rows' = DOMAIN rows \cup N
            /\ \A i \in DOMAIN rows : rows'[i] = kept[i]
            /\ \A i \in N : rows'[i].at = reading[a]
        <5>1. PICK all : all = kept \o NewRows(a)
          OBVIOUS
        <5>2. /\ DOMAIN all = DOMAIN rows \cup N
              /\ \A i \in DOMAIN rows : all[i] = kept[i]
              /\ \A i \in N : all[i] = [by |-> a, key |-> MembersOf[a][i - Len(rows)],
                                         at |-> reading[a], status |-> "reserved"]
          BY <2>3, <4>1, <5>1, Insertion
        <5>3. \A i \in N : all[i].at = reading[a]
          BY <5>2
        <5> QED
          BY <3>2, <5>1, <5>2, <5>3
      <4> QED
        BY <2>3, <4>2 DEF DatesAreBounded
    <3> QED
      BY <2>2, <3>1, <3>2
  <2> QED
    BY <2>2, <2>4 DEF DatesAreBounded, Problems
<1>8. ASSUME NEW a \in Attempts, Screen(a) \/ SettleFailed(a) \/ Publish(a) PROVE DatesAreBounded'
  <2>1. UNCHANGED <<time, control, reading>>
    BY <1>8 DEF Screen, SettleFailed, Publish
  <2>2. CASE rows' = rows
    BY <2>1, <2>2 DEF DatesAreBounded, Problems
  <2>3. ASSUME NEW S, NEW status \in {"recovered", "held", "rejected", "failed", "published"},
               rows' = Settled(S, status)
        PROVE  DatesAreBounded'
    <3>1. \A i \in DOMAIN rows' : rows'[i].at <= MaxClock + Drift
      BY <1>1, <2>3
    <3> QED
      BY <2>1, <3>1 DEF DatesAreBounded, Problems
  <2>4. \/ rows' = rows \/ rows' = Settled(Own(a), "published")
        \/ \E i \in Own(a), verdict \in {"held", "rejected", "failed"} :
              rows' = Settled({i}, verdict)
    <3>1. CASE Screen(a)
      BY <3>1 DEF Screen
    <3>2. CASE SettleFailed(a)
      BY <3>2 DEF SettleFailed
    <3>3. CASE Publish(a)
      BY <3>3 DEF Publish
    <3> QED
      BY <1>8, <3>1, <3>2, <3>3
  <2> QED
    BY <2>2, <2>3, <2>4
<1> QED
  BY <1>2, <1>3, <1>4, <1>5, <1>6, <1>7, <1>8 DEF QuotaNext

(* A refused caller is told the first moment at which it would be admitted,  *)
(* if nothing else happens: quotaRetryDelay looks at both dimensions and at  *)
(* the expiry of a temporary limit.                                          *)
THEOREM AdviceIsRight == QuotaSpec => []AdviceHolds
<1>1. QuotaInit => DatesAreBounded
  <2> SUFFICES ASSUME QuotaInit PROVE DatesAreBounded
    OBVIOUS
  <2>1. MaxClock \in Nat /\ Drift \in Nat /\ Cap \in Nat
    BY QuotaConstants
  <2> QED
    BY <2>1 DEF QuotaInit, DatesAreBounded
<1> QED
  BY <1>1, QuotaTypes, DatesStayBounded, AdviceFollows, PTL DEF QuotaSpec
=============================================================================
