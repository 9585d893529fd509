---------------------------- MODULE FellowCustody ----------------------------
(***************************************************************************)
(* Who may speak as a Fellow: the transfer of a Fellow to another sponsor, *)
(* the rebind by which the receiving sponsor gives it a fresh credential,  *)
(* the lifecycle commands of a sponsor, and the end of a sponsor's account *)
(* (enrollment/d1-store.ts, the triggers of migrations 0012, 0077,         *)
(* 0087-0090 and 0109, moderation/sponsor-suspension.ts).                  *)
(*                                                                         *)
(* A request reads the clock and the rows in one step and runs its batch   *)
(* in a later one; what it has read may have changed in between, and a     *)
(* batch that a trigger aborts changes nothing.  A request may stop after  *)
(* any of its steps.                                                       *)
(***************************************************************************)
EXTENDS Integers

CONSTANTS
    Sponsors,
    Identities,  \* the enrolled Fellows
    Home,        \* the sponsor that enrolled each of them
    Calls,       \* requests; an offer names its transfer, a mint its rebind
    Op,          \* what each request asks for
    By,          \* the sponsor that makes it
    About,       \* the Fellow, transfer, rebind or credential it is about
    To,          \* the receiving sponsor of an offer, the status a change asks for
    Nobody,      \* no holder of a lease
    Term,        \* how long an offer, a rebind or a lease lasts
    MaxMoment    \* bounds the clock

OpsOf(ops) == {c \in Calls : Op[c] \in ops}
Transfers == OpsOf({"offer"})
Rebinds == OpsOf({"mint"})
Statuses == {"active", "paused", "suspicious_review", "revoked", "compromised", "archived"}

\* What each kind of request is about.
Subjects(op) ==
    CASE op \in {"offer", "mint", "status"} -> Identities
      [] op \in {"accept", "reject", "cancel", "view"} -> Transfers
      [] op \in {"approve", "deny", "poll"} -> Rebinds
      [] op = "revoke" -> Identities \cup Rebinds
      [] op = "panic" -> Sponsors

ASSUME CustodyConstants ==
    /\ Home \in [Identities -> Sponsors]
    /\ Op \in [Calls -> {"offer", "accept", "reject", "cancel", "view", "mint", "approve",
                         "deny", "poll", "status", "revoke", "panic"}]
    /\ By \in [Calls -> Sponsors]
    /\ \A c \in Calls : About[c] \in Subjects(Op[c])
    /\ \A c \in Transfers : To[c] \in Sponsors \ {By[c]}
    /\ \A c \in OpsOf({"status"}) : To[c] \in Statuses
    /\ Identities \cap Calls = {}
    /\ Nobody \notin Calls
    /\ Term \in Nat \ {0} /\ MaxMoment \in Nat \ {0}

VARIABLES
    moment,      \* the clock
    fellow,      \* enrollment_fellows with their grants; `ended' is a security row
    transfer,    \* sponsor_fellow_transfers
    rebind,      \* fellow_rebinds
    credential,  \* fellow_tokens: of the enrollment of a Fellow, or of a rebind
    account,     \* sponsors: panic, suspension, deletion, lifecycle head and lease
    step, memo  \* the requests

custodyRows == <<fellow, transfer, rebind, credential, account>>
custodyVars == <<moment, custodyRows, step, memo>>

Whose(c) == IF c \in Identities THEN c ELSE About[c]
SponsorOf(c) == IF c \in Identities THEN Home[c] ELSE By[c]

CustodyInit ==
    /\ moment = 1
    /\ fellow = [f \in Identities |->
                    [sponsor |-> Home[f], status |-> "active", granted |-> 1, ended |-> FALSE]]
    /\ transfer = [t \in Transfers |-> [status |-> "none", expires |-> 0, resolved |-> 0]]
    /\ rebind = [r \in Rebinds |->
                    [status |-> "none", transfer |-> Nobody, expires |-> 0, matches |-> FALSE]]
    /\ credential = [c \in Identities \cup Rebinds |->
                        [issued |-> IF c \in Identities THEN 1 ELSE 0, revoked |-> FALSE]]
    /\ account = [s \in Sponsors |-> [panic |-> 0, suspended |-> FALSE, deleted |-> FALSE,
                                      head |-> 0, holder |-> Nobody, until |-> 0]]
    /\ step = [c \in Calls |-> "start"]
    /\ memo = [c \in Calls |-> [at |-> 0, seen |-> Nobody, head |-> 0]]

-----------------------------------------------------------------------------
(* Rows *)

Alive == {"active", "paused", "suspicious_review"}
Awake == {"active", "suspicious_review"}
Standing == {"awaiting-claim", "awaiting-approval", "approved"}   \* a live rebind

Unrevoked(c) == credential[c].issued > 0 /\ ~credential[c].revoked

\* Mutant: only the sponsor who acts is looked at.
Barred_Actor(acting, other) == account[acting].suspended

(* A trigger of 0109 refuses what concerns a suspended sponsor. *)
Barred(acting, other) == account[acting].suspended \/ account[other].suspended

Revoked(S) == [c \in DOMAIN credential |->
                  IF c \in S /\ Unrevoked(c) THEN [credential[c] EXCEPT !.revoked = TRUE]
                  ELSE credential[c]]

\* The pending transfers among S, resolved with the given status.
Resolved(S, status, at) ==
    [t \in Transfers |-> IF t \in S /\ transfer[t].status = "pending"
                         THEN [transfer[t] EXCEPT !.status = status, !.resolved = at]
                         ELSE transfer[t]]

\* The live rebinds among R, superseded.
Superseded(R) ==
    [r \in Rebinds |-> IF r \in R /\ rebind[r].status \in Standing
                       THEN [rebind[r] EXCEPT !.status = "superseded"] ELSE rebind[r]]

RebindsOf(f) == {r \in Rebinds : About[r] = f}
Involving(s) == {t \in Transfers : By[t] = s \/ To[t] = s}

-----------------------------------------------------------------------------
(* Requests *)

Reads(c, next, at, seen) ==
    /\ step[c] = "start"
    /\ step' = [step EXCEPT ![c] = next]
    /\ memo' = [memo EXCEPT ![c] = [at |-> at, seen |-> seen, head |-> 0]]
    /\ UNCHANGED <<moment, custodyRows>>

Ends(c, where) ==
    /\ step[c] = where
    /\ step' = [step EXCEPT ![c] = "done"]
    /\ UNCHANGED <<moment, memo>>

-----------------------------------------------------------------------------
(* Transfers *)

Owns(s, f) == fellow[f].sponsor = s

\* initiateTransfer and acceptTransfer exclude nothing but a revoked Fellow.
Movable(s, f) == Owns(s, f) /\ fellow[f].status # "revoked"

PendingOf(f) == {t \in Transfers : About[t] = f /\ transfer[t].status = "pending"}

(* initiateTransfer: an offer of the Fellow that is pending and overdue is   *)
(* expired first.                                                            *)
ReadOffer(c) ==
    LET f == About[c] IN
    /\ Op[c] = "offer"
    /\ ~account[By[c]].deleted /\ ~account[To[c]].deleted
    /\ Movable(By[c], f)
    /\ \/ PendingOf(f) = {} /\ Reads(c, "write", moment, Nobody)
       \/ \E t \in PendingOf(f) : transfer[t].expires <= moment /\ Reads(c, "expire", moment, t)

WriteOffer(c) ==
    /\ Op[c] = "offer"
    /\ Ends(c, "write")
    /\ PendingOf(About[c]) = {}                       \* one pending offer of a Fellow
    /\ ~Barred(By[c], To[c])
    /\ transfer' = [transfer EXCEPT ![c] = [status |-> "pending", resolved |-> 0,
                                            expires |-> memo[c].at + Term]]
    /\ UNCHANGED <<fellow, rebind, credential, account>>

\* Who may resolve or see a transfer.
Party(c) ==
    CASE Op[c] \in {"accept", "reject"} -> By[c] = To[About[c]]
      [] Op[c] = "cancel" -> By[c] = By[About[c]]
      [] OTHER -> By[c] \in {By[About[c]], To[About[c]]}

(* acceptTransfer, rejectTransfer, cancelTransfer and getTransfer read the   *)
(* offer; one that is overdue is expired by a later statement.               *)
ReadTransfer(c) ==
    LET t == About[c] IN
    /\ Op[c] \in {"accept", "reject", "cancel", "view"}
    /\ Party(c)
    /\ transfer[t].status = "pending"
    /\ IF transfer[t].expires <= moment
       THEN Reads(c, "expire", moment, t)
       ELSE /\ Op[c] # "view"
            /\ Op[c] = "accept" => ~account[By[c]].deleted /\ Movable(By[t], About[t])
            /\ Reads(c, "write", moment, Nobody)

(* The expiry names the transfer and does not ask whether it is pending.     *)
Expire(c) ==
    /\ step[c] = "expire"
    /\ transfer' = [transfer EXCEPT ![memo[c].seen].status = "expired",
                                    ![memo[c].seen].resolved = memo[c].at]
    /\ step' = [step EXCEPT ![c] = IF Op[c] = "offer" THEN "write" ELSE "done"]
    /\ UNCHANGED <<moment, memo, fellow, rebind, credential, account>>

(* listTransfers expires all offers of a sponsor that are overdue.           *)
ListTransfers(s) ==
    LET overdue == {t \in Involving(s) : transfer[t].expires <= moment} IN
    /\ transfer' = Resolved(overdue, "expired", moment)
    /\ transfer' # transfer
    /\ UNCHANGED <<moment, fellow, rebind, credential, account, step, memo>>

WriteRefusal(c) ==
    /\ Op[c] \in {"reject", "cancel"}
    /\ Ends(c, "write")
    /\ transfer' = Resolved({About[c]}, IF Op[c] = "reject" THEN "rejected" ELSE "cancelled",
                            memo[c].at)
    /\ UNCHANGED <<fellow, rebind, credential, account>>

\* The first statement of an acceptance finds the offer as it must be.
Accepts(c) ==
    LET t == About[c] IN
    /\ transfer[t].status = "pending"
    /\ transfer[t].expires > memo[c].at
    /\ Movable(By[t], About[t])

\* acceptedByThisAttempt: the offer bears this attempt's clock.
Bears(c) == transfer[About[c]].status = "accepted" /\ transfer[About[c]].resolved = memo[c].at

\* Mutant: an acceptance leaves the credentials of the old sponsor alone.
Surrendered_Nothing(f) == credential

Surrendered(f) == Revoked({c \in DOMAIN credential : Whose(c) = f})

(* acceptTransfer, one batch.  Every later statement asks whether the offer  *)
(* bears the clock of this attempt, which a second acceptance of the same    *)
(* instant may find as well; the triggers want the Fellow to come from a     *)
(* sponsor with an accepted offer, and no credential from the future.        *)
WriteAcceptance(c) ==
    LET t == About[c]
        f == About[t]
    IN
    /\ Op[c] = "accept"
    /\ Ends(c, "write")
    /\ Accepts(c) \/ Bears(c)
    /\ ~Barred(By[t], To[t]) /\ ~Barred(fellow[f].sponsor, To[t])
    /\ \/ Accepts(c)
       \/ fellow[f].sponsor = To[t]
       \/ \E u \in Transfers : /\ About[u] = f /\ transfer[u].status = "accepted"
                               /\ By[u] = fellow[f].sponsor /\ To[u] = To[t]
    /\ \A k \in DOMAIN credential :
          Whose(k) = f /\ Unrevoked(k) => credential[k].issued <= memo[c].at
    /\ transfer' = Resolved({t}, "accepted", memo[c].at)
    /\ rebind' = IF Accepts(c) THEN Superseded(RebindsOf(f)) ELSE rebind
    /\ fellow' = [fellow EXCEPT ![f].sponsor = To[t], ![f].status = "paused",
                                ![f].granted = memo[c].at]
    /\ credential' = Surrendered(f)
    /\ UNCHANGED account

-----------------------------------------------------------------------------
(* Rebinds *)

(* The Fellow is live and was moved to sponsor s by transfer t, after any    *)
(* panic of s: REBIND_STILL_CURRENT_SQL.                                     *)
Moved(t, s, f) ==
    /\ Owns(s, f)
    /\ fellow[f].status \in Alive
    /\ About[t] = f /\ To[t] = s
    /\ transfer[t].status = "accepted"
    /\ transfer[t].resolved = fellow[f].granted
    /\ fellow[f].granted > account[s].panic

StillCurrent(r) == rebind[r].transfer \in Transfers /\ Moved(rebind[r].transfer, By[r], About[r])

ReadMint(c) ==
    /\ Op[c] = "mint"
    /\ \E t \in Transfers : Moved(t, By[c], About[c]) /\ Reads(c, "write", moment, t)

(* createRebind: one live rebind of a Fellow. *)
WriteMint(c) ==
    /\ Op[c] = "mint"
    /\ Ends(c, "write")
    /\ Moved(memo[c].seen, By[c], About[c])
    /\ ~Barred(By[c], By[c])
    /\ rebind' = [Superseded(RebindsOf(About[c])) EXCEPT ![c] =
                     [status |-> "awaiting-claim", transfer |-> memo[c].seen,
                      expires |-> memo[c].at + Term, matches |-> FALSE]]
    /\ UNCHANGED <<fellow, transfer, credential, account>>

\* The status of rebind r becomes `status'.
Turns(r, status) == rebind' = [rebind EXCEPT ![r].status = status]

(* claimRebind, by whoever holds the secret, with an identity that is the    *)
(* Fellow's or is not.                                                       *)
Claim(r) ==
    /\ rebind[r].status = "awaiting-claim"
    /\ rebind[r].expires > moment
    /\ StillCurrent(r)
    /\ ~Barred(By[r], By[r])
    /\ \E matches \in BOOLEAN :
          rebind' = [rebind EXCEPT ![r].status = "awaiting-approval", ![r].matches = matches]
    /\ UNCHANGED <<moment, fellow, transfer, credential, account, step, memo>>

Undecided(r, at) == rebind[r].status = "awaiting-approval" /\ rebind[r].expires > at

ReadDecision(c) ==
    LET r == About[c] IN
    /\ Op[c] \in {"approve", "deny"}
    /\ By[c] = By[r]
    /\ Undecided(r, moment)
    /\ Op[c] = "approve" => rebind[r].matches
    /\ Reads(c, "write", moment, Nobody)

(* decideRebind: an approval looks at the Fellow again. *)
WriteDecision(c) ==
    LET r == About[c] IN
    /\ Op[c] \in {"approve", "deny"}
    /\ Ends(c, "write")
    /\ Undecided(r, memo[c].at)
    /\ \/ /\ Op[c] = "approve"
          /\ Owns(By[r], About[r]) /\ fellow[About[r]].status \in Alive
          /\ rebind[r].matches
          /\ ~Barred(By[r], By[r])
          /\ Turns(r, "approved")
       \/ Op[c] = "deny" /\ Turns(r, "denied")
    /\ UNCHANGED <<fellow, transfer, credential, account>>

(* pollRebind: a claim that is overdue or not current any more has expired,  *)
(* an approved one is redeemed.                                              *)
ReadPoll(c) ==
    LET r == About[c] IN
    /\ Op[c] = "poll"
    /\ rebind[r].status \in {"awaiting-approval", "approved"}
    /\ IF rebind[r].expires <= moment \/ ~StillCurrent(r)
       THEN Reads(c, "lapse", moment, rebind[r].status)
       ELSE rebind[r].status = "approved" /\ Reads(c, "redeem", moment, Nobody)

WriteLapse(c) ==
    /\ Ends(c, "lapse")
    /\ rebind[About[c]].status = memo[c].seen
    /\ Turns(About[c], "expired")
    /\ UNCHANGED <<fellow, transfer, credential, account>>

(* The one credential of a rebind, no older than the grant or than any other *)
(* credential of the Fellow.  The cap of three is left out.                  *)
Redeem(c) ==
    LET r == About[c]
        f == About[r]
    IN
    /\ Ends(c, "redeem")
    /\ rebind[r].status = "approved"
    /\ rebind[r].expires > memo[c].at
    /\ StillCurrent(r)
    /\ ~Barred(By[r], By[r])
    /\ memo[c].at >= fellow[f].granted
    /\ \A k \in DOMAIN credential : Whose(k) = f => credential[k].issued <= memo[c].at
    /\ Turns(r, "redeemed")
    /\ credential' = [credential EXCEPT ![r].issued = memo[c].at]
    /\ UNCHANGED <<fellow, transfer, account>>

-----------------------------------------------------------------------------
(* Lifecycle commands of a sponsor *)

\* fellowLifecycleTransitionAllowed, and the same table in 0012.
Allowed(from, to) ==
    \/ from = "active" /\ to \in {"paused", "revoked", "compromised", "suspicious_review"}
    \/ from = "paused" /\ to \in {"active", "revoked", "compromised", "suspicious_review"}
    \/ from = "suspicious_review" /\ to \in {"active", "paused", "revoked", "compromised"}
    \/ from \in {"revoked", "compromised"} /\ to = "archived"

(* acquireLifecycleLease: it remembers the head it reserves; a lease whose   *)
(* time is up may be taken over.                                             *)
Acquire(c) ==
    LET s == By[c] IN
    /\ Op[c] \in {"status", "revoke", "panic"}
    /\ step[c] = "start"
    /\ account[s].holder = Nobody \/ account[s].until <= moment
    /\ account' = [account EXCEPT ![s].holder = c, ![s].until = moment + Term]
    /\ step' = [step EXCEPT ![c] = "reserved"]
    /\ memo' = [memo EXCEPT ![c] = [at |-> moment, seen |-> Nobody, head |-> account[s].head]]
    /\ UNCHANGED <<moment, fellow, transfer, rebind, credential>>

\* What the command asks for can be done to the rows as they are.
Current(c) ==
    CASE Op[c] = "status" -> Owns(By[c], About[c]) /\ Allowed(fellow[About[c]].status, To[c])
      [] Op[c] = "revoke" -> /\ SponsorOf(About[c]) = By[c] /\ Unrevoked(About[c])
                             /\ credential[About[c]].issued <= memo[c].at
      [] OTHER -> TRUE

(* The rows it is about, which the command has to find again.  A panic takes *)
(* the instant after the last one, if its own is not later.                  *)
Sight(c) ==
    CASE Op[c] = "status" -> fellow[About[c]].status
      [] Op[c] = "panic" -> IF memo[c].at > account[By[c]].panic THEN memo[c].at
                            ELSE account[By[c]].panic + 1
      [] OTHER -> Nobody

Examine(c) ==
    LET ok == account[By[c]].head = memo[c].head /\ Current(c) IN
    /\ step[c] = "reserved"
    /\ step' = [step EXCEPT ![c] = IF ok THEN "command" ELSE "release"]
    /\ memo' = IF ok THEN [memo EXCEPT ![c].seen = Sight(c)] ELSE memo
    /\ UNCHANGED <<moment, custodyRows>>

\* fellow_lifecycle_events_command_guard, and the triggers behind it.
Commits(c) ==
    /\ account[By[c]].holder = c
    /\ account[By[c]].head = memo[c].head
    /\ Current(c)
    /\ Op[c] = "status" => /\ fellow[About[c]].status = memo[c].seen
                           /\ To[c] \in Awake => ~Barred(By[c], By[c])
                           /\ To[c] \in {"revoked", "compromised"} => ~fellow[About[c]].ended
    /\ Op[c] = "panic" => memo[c].seen > account[By[c]].panic

(* The insertion of the event applies the command (0012).                    *)
Command(c) ==
    /\ step[c] = "command"
    /\ IF Commits(c)
       THEN /\ fellow' = IF Op[c] = "status"
                         THEN [fellow EXCEPT ![About[c]].status = To[c],
                                             ![About[c]].ended = @ \/ To[c] \in {"revoked", "compromised"}]
                         ELSE fellow
            /\ credential' = IF Op[c] = "revoke" THEN Revoked({About[c]}) ELSE credential
            /\ account' = [account EXCEPT ![By[c]].head = @ + 1, ![By[c]].holder = Nobody,
                                          ![By[c]].panic = IF Op[c] = "panic" THEN memo[c].seen ELSE @]
            /\ step' = [step EXCEPT ![c] = "done"]
       ELSE /\ step' = [step EXCEPT ![c] = "release"]
            /\ UNCHANGED <<fellow, credential, account>>
    /\ UNCHANGED <<moment, memo, transfer, rebind>>

(* releaseLifecycleLease: its own lease, if it still has it. *)
GiveBack(c) ==
    /\ Ends(c, "release")
    /\ account' = [account EXCEPT ![By[c]].holder = IF @ = c THEN Nobody ELSE @]
    /\ UNCHANGED <<fellow, transfer, rebind, credential>>

-----------------------------------------------------------------------------
(* The end of an account.  Both commands compare what they have read with    *)
(* the rows in the statement that acts on it, so that they are one step.     *)

Ousted(s, from, status) ==
    [f \in Identities |-> IF Owns(s, f) /\ fellow[f].status \in from
                          THEN [fellow[f] EXCEPT !.status = status] ELSE fellow[f]]

Closes(s, from, status) ==
    /\ ~account[s].deleted
    /\ fellow' = Ousted(s, from, status)
    /\ credential' = Revoked({c \in DOMAIN credential : SponsorOf(c) = s})
    /\ transfer' = Resolved(Involving(s), "cancelled", moment)
    /\ rebind' = Superseded({r \in Rebinds : By[r] = s})
    /\ UNCHANGED <<moment, step, memo>>

Suspend(s) ==
    /\ ~account[s].suspended
    /\ account' = [account EXCEPT ![s].suspended = TRUE]
    /\ Closes(s, Awake, "paused")

Delete(s) ==
    /\ account' = [account EXCEPT ![s].deleted = TRUE]
    /\ Closes(s, Statuses, "revoked")

-----------------------------------------------------------------------------
Pass == moment < MaxMoment /\ moment' = moment + 1 /\ UNCHANGED <<custodyRows, step, memo>>

CustodyNext ==
    \/ \E c \in Calls :
          \/ ReadOffer(c) \/ WriteOffer(c) \/ ReadTransfer(c) \/ Expire(c)
          \/ WriteRefusal(c) \/ WriteAcceptance(c)
          \/ ReadMint(c) \/ WriteMint(c) \/ ReadDecision(c) \/ WriteDecision(c)
          \/ ReadPoll(c) \/ WriteLapse(c) \/ Redeem(c)
          \/ Acquire(c) \/ Examine(c) \/ Command(c) \/ GiveBack(c)
    \/ \E r \in Rebinds : Claim(r)
    \/ \E s \in Sponsors : ListTransfers(s) \/ Suspend(s) \/ Delete(s)
    \/ Pass

CustodySpec == CustodyInit /\ [][CustodyNext]_custodyVars

-----------------------------------------------------------------------------
(* A credential that is not revoked is held by the sponsor that has the      *)
(* Fellow now, and is no older than the grant under which that sponsor has   *)
(* it, through any number of transfers there and back, rebinds, lost races   *)
(* and late batches (0088, 0089: hmda, x223).                                *)
CredentialsFollowCustody ==
    \A c \in Identities \cup Rebinds :
        Unrevoked(c) => /\ SponsorOf(c) = fellow[Whose(c)].sponsor
                        /\ credential[c].issued >= fellow[Whose(c)].granted

(* 0109:177-178: "A request authenticated before the suspension cannot       *)
(* commit after it or mint a fresh credential around it": a suspended        *)
(* sponsor has no working Fellow, credential, offer or rebind, ever again.   *)
SuspendedHoldNothing ==
    \A s \in Sponsors : account[s].suspended =>
        /\ \A f \in Identities : Owns(s, f) => fellow[f].status \notin Awake
        /\ \A c \in Identities \cup Rebinds : SponsorOf(c) = s => ~Unrevoked(c)
        /\ \A t \in Involving(s) : transfer[t].status # "pending"
        /\ \A r \in Rebinds : By[r] = s => rebind[r].status \notin Standing

(* 0011:2226-2227: "Revoked, compromised and archived authority cannot be    *)
(* resurrected."                                                             *)
EndedStayEnded ==
    [][\A f \in Identities :
          fellow[f].status \notin Alive => fellow'[f].status \notin Alive]_custodyVars

(* d1-store.ts:4119: "Only a still-pending offer can be resolved; a racing   *)
(* accept, reject or cancel won": an offer that was accepted stays accepted, *)
(* whoever has looked at it meanwhile.                                       *)
AcceptedStayAccepted ==
    [][\A t \in Transfers :
          transfer[t].status = "accepted" => transfer'[t] = transfer[t]]_custodyVars
=============================================================================
