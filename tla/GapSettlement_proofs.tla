------------------------ MODULE GapSettlement_proofs ------------------------
(***************************************************************************)
(* What the settlements of an object leave behind.  A request publishes at *)
(* most one event, at the sequence its idempotency row keeps; the row of   *)
(* the object is stamped once and every later settlement that is published *)
(* has found it stamped with its own outcome and time.                     *)
(***************************************************************************)
EXTENDS GapSettlement, TLAPS

-----------------------------------------------------------------------------
(* Types *)

Chains == Seq(Requests \cup {None})
Heads == [seq : Nat, chain : Chains]
EventRows == [id : Requests \cup {None}, object : Nat, chain : Chains]
ObjectRows == [status : {"open", "closed-by", "withdrawn", "disputed"}, at : Nat,
               by : Requests \cup {None}]

\* The rows of D1.
RowTypes ==
    /\ publicSeq \in Nat /\ chain \in Chains
    /\ events \in Seq(EventRows)
    /\ objects \in [DOMAIN objects -> ObjectRows] /\ DOMAIN objects \subseteq 1..Len(events)
    /\ settled \in [Requests -> 0..Len(events)]
    /\ replays \in [Requests -> 0..Len(events)]

\* The Worker invocations.
CallTypes ==
    /\ authorized \subseteq Requests
    /\ pc \in [Requests -> {"check", "preflight", "head", "batch", "caught", "settle", "failed",
                            "answered", "crashed"}]
    /\ before \in [Requests -> Heads]
    /\ retryCount \in [Requests -> 0..MaxRetries]
    /\ retryable \in [Requests -> BOOLEAN]
    /\ answers \in [Requests -> [status : {"none", "ok", "refused"}, seq : 0..Len(events)]]

TypeOK == RowTypes /\ CallTypes

-----------------------------------------------------------------------------
(* The inductive invariant *)

\* An event and the idempotency row of its request point at each other.
EventsAreSettled ==
    /\ \A i \in 1..Len(events) : events[i].id # None => settled[events[i].id] = i
    /\ \A r \in Requests : settled[r] # 0 => events[settled[r]].id = r
    /\ replays = settled

\* An event is about an object there is; a settlement about the one it was asked to settle.
EventsHaveObjects ==
    \A i \in 1..Len(events) :
        /\ events[i].object \in DOMAIN objects
        /\ events[i].id # None => (OpOf[events[i].id] # "file" =>
                                       events[i].object = ObjectOf[events[i].id])

\* A disputed relation names the event that disputed it.
DisputesAreNamed ==
    \A o \in DOMAIN objects :
        /\ objects[o].by # None => settled[objects[o].by] # 0
        /\ \A i \in Settlements(o) :
              OpOf[events[i].id] = "disputed" => objects[o].by = events[i].id

\* The head is at the last event or, after a bump without one, beyond it.
HeadStands ==
    /\ publicSeq >= Len(events)
    /\ publicSeq = Len(events) =>
          chain = IF publicSeq = 0 THEN <<>> ELSE events[publicSeq].chain

\* The digest of an event commits to the events up to it, each in its place.
ChainsCommit ==
    \A i \in 1..Len(events) :
        Len(events[i].chain) = i /\ \A j \in 1..i : events[i].chain[j] = events[j].id

LedgerInv ==
    /\ EventsAreSettled /\ EventsHaveObjects /\ DisputesAreNamed
    /\ HeadStands /\ ChainsCommit /\ RowMatchesLedger

\* What a request has found out and what it has told its caller.
CallOK(r) ==
    /\ pc[r] \in {"preflight", "head", "batch", "caught"} =>
          (OpOf[r] # "file" => ObjectOf[r] \in DOMAIN objects)
    /\ pc[r] = "check" => settled[r] = 0
    /\ answers[r].status # "none" => pc[r] = "answered"
    /\ answers[r].status = "refused" => settled[r] = 0
    /\ answers[r].status = "ok" => settled[r] # 0 /\ answers[r].seq = settled[r]

CallInv == \A r \in Requests : CallOK(r)

Inv == TypeOK /\ LedgerInv /\ CallInv

LEMMA InitialState == SettlementInit => Inv
<1> SUFFICES ASSUME SettlementInit
             PROVE  Inv
  OBVIOUS
<1>1. Opened \in Nat /\ MaxRetries \in Nat /\ None \notin Requests
  BY SettlementConstants
<1>2. /\ chain \in Chains /\ Len(chain) = Opened
      /\ \A i \in 1..Opened : [j \in 1..i |-> None] \in Chains
      /\ \A i \in 1..Opened : Len([j \in 1..i |-> None]) = i
  BY <1>1 DEF SettlementInit, Chains
<1>3. /\ events \in Seq(EventRows) /\ Len(events) = Opened /\ DOMAIN events = 1..Opened
      /\ \A i \in 1..Opened : /\ events[i].id = None /\ events[i].object = i
                              /\ events[i].chain = [j \in 1..i |-> None]
  <2>1. \A i \in 1..Opened : [id |-> None, object |-> i, chain |-> [j \in 1..i |-> None]] \in EventRows
    BY <1>1, <1>2 DEF EventRows
  <2>2. events \in [1..Opened -> EventRows]
    BY <2>1 DEF SettlementInit
  <2> QED
    BY <1>1, <2>2 DEF SettlementInit
<1>4. RowTypes
  BY <1>1, <1>2, <1>3 DEF SettlementInit, RowTypes, OpenRow, ObjectRows
<1>5. CallTypes
  BY <1>1, <1>3 DEF SettlementInit, CallTypes, Unread, Unanswered, Heads, Chains
<1>6. EventsAreSettled /\ EventsHaveObjects
  BY <1>3 DEF SettlementInit, EventsAreSettled, EventsHaveObjects
<1>7. DisputesAreNamed /\ RowMatchesLedger
  <2>1. \A o \in DOMAIN objects : objects[o] = OpenRow /\ Settlements(o) = {}
    BY <1>3 DEF SettlementInit, Settlements
  <2> QED
    BY <2>1 DEF DisputesAreNamed, RowMatchesLedger, OpenRow
<1>8. HeadStands /\ ChainsCommit
  BY <1>1, <1>2, <1>3 DEF SettlementInit, HeadStands, ChainsCommit
<1>9. CallInv
  BY DEF SettlementInit, CallInv, CallOK, Unanswered
<1> QED
  BY <1>4, <1>5, <1>6, <1>7, <1>8, <1>9 DEF Inv, TypeOK, LedgerInv

-----------------------------------------------------------------------------
(* Steps that leave D1 alone *)

LEMMA RowsAlone ==
    ASSUME Inv, UNCHANGED rowVars
    PROVE  RowTypes' /\ LedgerInv'
<1>1. UNCHANGED <<publicSeq, chain, events, objects, settled, replays>>
  BY DEF rowVars
<1>2. RowTypes'
  BY <1>1 DEF Inv, TypeOK, RowTypes
<1>3. \A o : Settlements(o)' = Settlements(o)
  BY <1>1 DEF Settlements
<1>4. EventsAreSettled' /\ EventsHaveObjects' /\ HeadStands' /\ ChainsCommit'
  BY <1>1 DEF Inv, LedgerInv, EventsAreSettled, EventsHaveObjects, HeadStands, ChainsCommit
<1>5. DisputesAreNamed' /\ RowMatchesLedger'
  BY <1>1, <1>3 DEF Inv, LedgerInv, DisputesAreNamed, RowMatchesLedger
<1> QED
  BY <1>2, <1>4, <1>5 DEF LedgerInv

\* A step of one request settles nobody else and removes no object.
LEMMA OthersStay ==
    ASSUME Inv, NEW r \in Requests,
           \A q \in Requests \ {r} : pc'[q] = pc[q] /\ answers'[q] = answers[q] /\ settled'[q] = settled[q],
           DOMAIN objects \subseteq DOMAIN objects',
           CallOK(r)'
    PROVE  CallInv'
<1> SUFFICES ASSUME NEW q \in Requests \ {r}
             PROVE  CallOK(q)'
  BY DEF CallInv
<1> QED
  BY DEF Inv, CallInv, CallOK

\* What Answer and Conclude do to the variables of an invocation.
LEMMA Leaving ==
    ASSUME TypeOK, NEW r \in Requests, NEW how \in {"answered", "crashed"}, Conclude(r, how)
    PROVE  /\ pc' = [pc EXCEPT ![r] = how]
           /\ pc' \in [Requests -> {"check", "preflight", "head", "batch", "caught", "settle", "failed",
                                    "answered", "crashed"}]
           /\ before' \in [Requests -> Heads]
           /\ retryCount' \in [Requests -> 0..MaxRetries]
           /\ retryable' \in [Requests -> BOOLEAN]
<1>1. 0 \in 0..MaxRetries /\ Unread \in Heads
  BY SettlementConstants DEF Unread, Heads, Chains
<1> QED
  BY <1>1 DEF Conclude, Goto, TypeOK, CallTypes

LEMMA Going ==
    ASSUME TypeOK, NEW r \in Requests,
           NEW where \in {"preflight", "head", "batch", "caught", "settle", "failed"}, Goto(r, where)
    PROVE  /\ pc' \in [Requests -> {"check", "preflight", "head", "batch", "caught", "settle", "failed",
                                    "answered", "crashed"}]
           /\ pc'[r] = where /\ \A q \in Requests \ {r} : pc'[q] = pc[q]
BY DEF Goto, TypeOK, CallTypes

LEMMA Answering ==
    ASSUME TypeOK, NEW r \in Requests, NEW status \in {"ok", "refused"}, NEW seq \in 0..Len(events),
           Answer(r, status, seq), Len(events') = Len(events), UNCHANGED authorized
    PROVE  /\ CallTypes' /\ pc'[r] = "answered" /\ answers'[r] = [status |-> status, seq |-> seq]
           /\ \A q \in Requests \ {r} : pc'[q] = pc[q] /\ answers'[q] = answers[q]
<1>1. Conclude(r, "answered") /\ answers' = [answers EXCEPT ![r] = [status |-> status, seq |-> seq]]
  BY DEF Answer
<1> QED
  BY <1>1, Leaving DEF TypeOK, CallTypes

LEMMA QuietSteps ==
    ASSUME Inv, NEW r \in Requests,
           \/ CheckOpen(r) \/ Preflight(r) \/ ReadHead(r) \/ BatchAborts(r)
           \/ CatchBatch(r) \/ ReadSettlement(r) \/ RouteCatch(r) \/ Crash(r) \/ RevokeAuthority(r)
    PROVE  Inv'
<1>1. TypeOK /\ CallOK(r) /\ Len(events) \in Nat /\ replays = settled
  BY DEF Inv, CallInv, TypeOK, RowTypes, LedgerInv, EventsAreSettled
<1>2. UNCHANGED <<publicSeq, chain, events, objects, settled, replays>>
  BY DEF CheckOpen, Preflight, ReadHead, BatchAborts, CatchBatch, ReadSettlement, RouteCatch, Crash,
         RevokeAuthority, rowVars
<1>3. RowTypes' /\ LedgerInv'
  BY <1>2, RowsAlone DEF rowVars
<1>4. ASSUME CallTypes', CallOK(r)',
             \A q \in Requests \ {r} : pc'[q] = pc[q] /\ answers'[q] = answers[q]
      PROVE  Inv'
  BY <1>2, <1>3, <1>4, OthersStay DEF Inv, TypeOK
<1>5. CASE CheckOpen(r)
  <2> DEFINE open == OpOf[r] # "file" => ObjectOf[r] \in DOMAIN objects /\ objects[ObjectOf[r]] = OpenRow
  <2>1. CASE r \in authorized /\ open
    <3>1. UNCHANGED authorized /\ pc[r] = "check"
      BY <1>5 DEF CheckOpen
    <3>2. Goto(r, "preflight") /\ UNCHANGED <<before, retryCount, retryable, answers>>
      BY <1>5, <2>1 DEF CheckOpen
    <3>3. CallTypes'
      BY <1>1, <1>2, <3>1, <3>2, Going DEF TypeOK, CallTypes
    <3>4. CallOK(r)'
      BY <1>1, <1>2, <2>1, <3>1, <3>2, Going DEF CallOK
    <3> QED
      BY <1>1, <1>4, <3>2, <3>3, <3>4, Going
  <2>2. CASE ~(r \in authorized /\ open)
    <3>0. Answer(r, "refused", 0)
      BY <1>5, <2>2 DEF CheckOpen
    <3>1. UNCHANGED authorized /\ pc[r] = "check" /\ 0 \in 0..Len(events)
      BY <1>1, <1>5 DEF CheckOpen
    <3>2. /\ CallTypes' /\ pc'[r] = "answered" /\ answers'[r] = [status |-> "refused", seq |-> 0]
          /\ \A q \in Requests \ {r} : pc'[q] = pc[q] /\ answers'[q] = answers[q]
      BY <1>1, <1>2, <3>0, <3>1, Answering
    <3> QED
      BY <1>1, <1>2, <1>4, <3>1, <3>2 DEF CallOK
  <2> QED
    BY <2>1, <2>2
<1>6. CASE Preflight(r)
  <2>1. /\ pc[r] = "preflight" /\ (Goto(r, "head") \/ Goto(r, "failed"))
        /\ UNCHANGED <<authorized, before, retryCount, retryable, answers>>
    BY <1>6 DEF Preflight
  <2>2. CallTypes' /\ CallOK(r)'
    BY <1>1, <1>2, <2>1, Going DEF TypeOK, CallTypes, CallOK
  <2> QED
    BY <1>1, <1>4, <2>1, <2>2, Going
<1>7. CASE ReadHead(r)
  <2>1. /\ pc[r] = "head" /\ Goto(r, "batch")
        /\ before' = [before EXCEPT ![r] = ProblemHead]
        /\ UNCHANGED <<authorized, retryCount, retryable, answers>>
    BY <1>7 DEF ReadHead
  <2>2. ProblemHead \in Heads
    BY <1>1 DEF ProblemHead, Heads, TypeOK, RowTypes
  <2>3. CallTypes' /\ CallOK(r)'
    BY <1>1, <1>2, <2>1, <2>2, Going DEF TypeOK, CallTypes, CallOK
  <2> QED
    BY <1>1, <1>4, <2>1, <2>3, Going
<1>8. CASE BatchAborts(r)
  <2>1. PICK busy \in BOOLEAN : Throw(r, busy)
    BY <1>8 DEF BatchAborts
  <2>2. /\ pc[r] = "batch" /\ Goto(r, "caught") /\ retryable' = [retryable EXCEPT ![r] = busy]
        /\ UNCHANGED <<authorized, before, retryCount, answers>>
    BY <1>8, <2>1 DEF BatchAborts, Throw
  <2>3. CallTypes' /\ CallOK(r)'
    BY <1>1, <1>2, <2>2, Going DEF TypeOK, CallTypes, CallOK
  <2> QED
    BY <1>1, <1>4, <2>2, <2>3, Going
<1>9. CASE CatchBatch(r)
  <2>1. pc[r] = "caught" /\ UNCHANGED <<authorized, before, retryable, answers>>
    BY <1>9 DEF CatchBatch
  <2>2. CASE retryCount[r] < MaxRetries /\ retryCount' = [retryCount EXCEPT ![r] = @ + 1] /\ Goto(r, "head")
    <3>1. retryCount[r] + 1 \in 0..MaxRetries
      BY <1>1, <2>2, SettlementConstants DEF TypeOK, CallTypes
    <3>2. CallTypes' /\ CallOK(r)'
      BY <1>1, <1>2, <2>1, <2>2, <3>1, Going DEF TypeOK, CallTypes, CallOK
    <3> QED
      BY <1>1, <1>4, <2>1, <2>2, <3>2, Going
  <2>3. CASE Goto(r, "failed") /\ UNCHANGED retryCount
    <3>1. CallTypes' /\ CallOK(r)'
      BY <1>1, <1>2, <2>1, <2>3, Going DEF TypeOK, CallTypes, CallOK
    <3> QED
      BY <1>1, <1>4, <2>1, <2>3, <3>1, Going
  <2> QED
    BY <1>9, <2>2, <2>3 DEF CatchBatch
<1>10. ASSUME NEW status \in {"ok", "refused"}, NEW seq \in 0..Len(events), Answer(r, status, seq),
              UNCHANGED authorized,
              status = "refused" => settled[r] = 0,
              status = "ok" => settled[r] # 0 /\ seq = settled[r]
       PROVE  Inv'
  <2>1. /\ CallTypes' /\ pc'[r] = "answered" /\ answers'[r] = [status |-> status, seq |-> seq]
        /\ \A q \in Requests \ {r} : pc'[q] = pc[q] /\ answers'[q] = answers[q]
    BY <1>1, <1>2, <1>10, Answering
  <2>2. CallOK(r)'
    BY <1>1, <1>2, <1>10, <2>1 DEF CallOK
  <2> QED
    BY <1>4, <2>1, <2>2
<1>11. CASE ReadSettlement(r)
  <2>1. pc[r] = "settle" /\ UNCHANGED authorized
    BY <1>11 DEF ReadSettlement
  <2>2. CASE settled[r] = 0
    <3>1. Goto(r, "failed") /\ UNCHANGED <<before, retryCount, retryable, answers>>
      BY <1>11, <2>2 DEF ReadSettlement
    <3>2. CallTypes' /\ CallOK(r)'
      BY <1>1, <1>2, <2>1, <3>1, Going DEF TypeOK, CallTypes, CallOK
    <3> QED
      BY <1>1, <1>4, <3>1, <3>2, Going
  <2>3. CASE settled[r] # 0
    <3>1. Answer(r, "ok", settled[r]) /\ settled[r] \in 0..Len(events)
      BY <1>1, <1>11, <2>3 DEF ReadSettlement, TypeOK, RowTypes
    <3> QED
      BY <1>10, <2>1, <2>3, <3>1
  <2> QED
    BY <2>2, <2>3
<1>12. CASE RouteCatch(r)
  <2>1. UNCHANGED authorized /\ settled[r] \in 0..Len(events) /\ 0 \in 0..Len(events)
    BY <1>1, <1>12 DEF RouteCatch, TypeOK, RowTypes
  <2>2. CASE settled[r] # 0
    BY <1>1, <1>10, <1>12, <2>1, <2>2 DEF RouteCatch
  <2>3. CASE settled[r] = 0
    BY <1>1, <1>10, <1>12, <2>1, <2>3 DEF RouteCatch
  <2> QED
    BY <2>2, <2>3
<1>13. CASE Crash(r)
  <2>1. Conclude(r, "crashed") /\ UNCHANGED <<authorized, answers>> /\ pc[r] # "answered"
    BY <1>13 DEF Crash
  <2>2. pc'[r] = "crashed" /\ \A q \in Requests \ {r} : pc'[q] = pc[q]
    BY <1>1, <2>1 DEF Conclude, Goto, TypeOK, CallTypes
  <2>3. CallTypes'
    BY <1>1, <1>2, <2>1, Leaving DEF TypeOK, CallTypes
  <2>4. CallOK(r)'
    BY <1>1, <1>2, <2>1, <2>2 DEF CallOK
  <2> QED
    BY <1>4, <2>1, <2>2, <2>3, <2>4
<1>14. CASE RevokeAuthority(r)
  <2>1. UNCHANGED <<pc, before, retryCount, retryable, answers>> /\ authorized' \subseteq authorized
    BY <1>14 DEF RevokeAuthority
  <2>2. CallTypes' /\ CallOK(r)'
    BY <1>1, <1>2, <2>1 DEF TypeOK, CallTypes, CallOK
  <2> QED
    BY <1>4, <2>1, <2>2
<1> QED
  BY <1>5, <1>6, <1>7, <1>8, <1>9, <1>11, <1>12, <1>13, <1>14

-----------------------------------------------------------------------------
(* The batch *)

LEMMA Committing ==
    ASSUME TypeOK, NEW r \in Requests, Committed(r), UNCHANGED <<authorized, before, retryCount, answers>>,
           Len(events) <= Len(events'), Len(events') \in Nat
    PROVE  /\ CallTypes' /\ pc'[r] \in {"settle", "caught"}
           /\ \A q \in Requests \ {r} : pc'[q] = pc[q] /\ answers'[q] = answers[q]
<1>1. retryable' \in [Requests -> BOOLEAN] /\ (Goto(r, "settle") \/ Goto(r, "caught"))
  BY DEF Committed, Throw, TypeOK, CallTypes
<1>2. Len(events) \in Nat /\ 0..Len(events) \subseteq 0..Len(events')
  BY DEF TypeOK, RowTypes
<1>3. answers' \in [Requests -> [status : {"none", "ok", "refused"}, seq : 0..Len(events')]]
  BY <1>2 DEF TypeOK, CallTypes
<1> QED
  BY <1>1, <1>3, Going DEF TypeOK, CallTypes

LEMMA LosingKeeps ==
    ASSUME Inv, NEW r \in Requests, BatchLoses(r)
    PROVE  Inv'
<1>1. /\ pc[r] = "batch" /\ settled[r] = 0 /\ Committed(r)
      /\ UNCHANGED <<events, objects, settled, replays, authorized, before, retryCount, answers>>
      /\ \/ UNCHANGED <<publicSeq, chain>>
         \/ before[r] = ProblemHead /\ Elect(r)
  BY DEF BatchLoses, HeadMoved
<1>2. TypeOK /\ CallOK(r) /\ Len(events) \in Nat /\ before[r] \in Heads
  BY DEF Inv, CallInv, TypeOK, RowTypes, CallTypes
<1>3. /\ CallTypes' /\ pc'[r] \in {"settle", "caught"}
      /\ \A q \in Requests \ {r} : pc'[q] = pc[q] /\ answers'[q] = answers[q]
  BY <1>1, <1>2, Committing
<1>4. publicSeq' \in Nat /\ chain' \in Chains /\ (UNCHANGED <<publicSeq, chain>> \/ publicSeq' > publicSeq)
  <2>1. publicSeq \in Nat /\ chain \in Seq(Requests \cup {None})
    BY <1>2 DEF TypeOK, RowTypes, Chains
  <2>2. CASE UNCHANGED <<publicSeq, chain>>
    BY <2>1, <2>2 DEF Chains
  <2>3. CASE before[r] = ProblemHead /\ Elect(r)
    <3>1. publicSeq' = publicSeq + 1 /\ chain' = Append(chain, r)
      BY <2>3 DEF Elect, ProblemHead
    <3> QED
      BY <2>1, <3>1 DEF Chains
  <2> QED
    BY <1>1, <2>2, <2>3
<1>5. RowTypes'
  BY <1>1, <1>2, <1>4 DEF TypeOK, RowTypes
<1>6. HeadStands'
  BY <1>1, <1>2, <1>4 DEF Inv, LedgerInv, HeadStands, TypeOK, RowTypes
<1>7. EventsAreSettled' /\ EventsHaveObjects' /\ ChainsCommit'
  BY <1>1 DEF Inv, LedgerInv, EventsAreSettled, EventsHaveObjects, ChainsCommit
<1>8. DisputesAreNamed' /\ RowMatchesLedger'
  <2>1. \A o : Settlements(o)' = Settlements(o)
    BY <1>1 DEF Settlements
  <2> QED
    BY <1>1, <2>1 DEF Inv, LedgerInv, DisputesAreNamed, RowMatchesLedger
<1>9. CallOK(r)'
  BY <1>1, <1>2, <1>3 DEF CallOK
<1>10. CallInv'
  BY <1>1, <1>3, <1>9, OthersStay
<1> QED
  BY <1>3, <1>5, <1>6, <1>7, <1>8, <1>10 DEF Inv, TypeOK, LedgerInv

\* A batch that publishes stands at the head, and the head at the last event.
LEMMA PublishingAtTheHead ==
    ASSUME Inv, NEW r \in Requests, BatchPublishes(r)
    PROVE  /\ before[r] = ProblemHead /\ publicSeq = Len(events) /\ settled[r] = 0
           /\ pc[r] = "batch"
           /\ OpOf[r] # "file" => OwnsTransition(r) /\ ObjectOf[r] \in DOMAIN objects
           /\ publicSeq' = Len(events) + 1
           /\ chain' = Append(chain, r)
           /\ events' = Append(events, [id |-> r, object |-> Object(r), chain |-> Append(chain, r)])
<1>1. /\ pc[r] = "batch" /\ settled[r] = 0 /\ ~HeadMoved(r) /\ ~PredecessorMissing(r)
      /\ OpOf[r] # "file" => OwnsTransition(r)
  BY DEF BatchPublishes, Publishes, Aborts
<1>2. before[r] = ProblemHead /\ before[r].seq = publicSeq /\ before[r].chain = chain
  BY <1>1 DEF HeadMoved, ProblemHead
<1>3. publicSeq = Len(events)
  BY <1>1, <1>2 DEF PredecessorMissing
<1>4. OpOf[r] # "file" => ObjectOf[r] \in DOMAIN objects
  BY <1>1 DEF Inv, CallInv, CallOK
<1>5. /\ publicSeq' = before[r].seq + 1 /\ chain' = Append(before[r].chain, r)
      /\ events' = Append(events, [id |-> r, object |-> Object(r), chain |-> Append(before[r].chain, r)])
  BY DEF BatchPublishes, Elect
<1> QED
  BY <1>1, <1>2, <1>3, <1>4, <1>5

\* What appending one event does to the ledger.
LEMMA EventAppended ==
    ASSUME NEW s \in Seq(EventRows), NEW e \in EventRows, NEW t, t = Append(s, e)
    PROVE  /\ t \in Seq(EventRows) /\ Len(t) = Len(s) + 1 /\ Len(s) \in Nat
           /\ \A i \in 1..Len(s) : i \in 1..Len(t) /\ t[i] = s[i]
           /\ \A i \in 1..Len(t) : i \in 1..Len(s) \/ i = Len(s) + 1
           /\ t[Len(s) + 1] = e
OBVIOUS

\* A settlement that is published finds its object open and stamps it, or finds it stamped
\* with its own outcome and time; a dispute only the former.
LEMMA Transition ==
    ASSUME Inv, NEW r \in Requests, OpOf[r] # "file", OwnsTransition(r), settled[r] = 0,
           ObjectOf[r] \in DOMAIN objects
    PROVE  LET o == ObjectOf[r] IN
           /\ \A p \in DOMAIN objects \ {o} : Stamped(r)[p] = objects[p]
           /\ DOMAIN Stamped(r) = DOMAIN objects
           /\ Stamped(r) \in [DOMAIN objects -> ObjectRows]
           /\ Stamped(r)[o] # OpenRow
           /\ Stamped(r)[o].status = OpOf[r] /\ Stamped(r)[o].at = CreatedAt[r]
           /\ OpOf[r] = "disputed" => Stamped(r)[o].by = r
           /\ \/ objects[o] = OpenRow /\ Stamped(r)[o].by = r
              \/ objects[o] # OpenRow /\ Stamped(r) = objects /\ OpOf[r] # "disputed"
<1> DEFINE o == ObjectOf[r]
<1>1. OpOf[r] \in {"closed-by", "withdrawn", "disputed"} /\ CreatedAt[r] \in Nat /\ r # None /\ Object(r) = o
  BY SettlementConstants DEF Object
<1>2. objects \in [DOMAIN objects -> ObjectRows]
  BY DEF Inv, TypeOK, RowTypes
<1>3. CASE objects[o] = OpenRow
  <2>1. Stamped(r) = [objects EXCEPT ![o] = [status |-> OpOf[r], at |-> CreatedAt[r], by |-> r]]
    BY <1>1, <1>3 DEF Stamped
  <2> QED
    BY <1>1, <1>2, <1>3, <2>1 DEF ObjectRows, OpenRow
<1>4. CASE objects[o] # OpenRow
  <2>1. Stamped(r) = objects
    BY <1>1, <1>4 DEF Stamped
  <2>2. OpOf[r] # "disputed"
    <3>1. objects[o].by = r => settled[r] # 0
      BY <1>1 DEF Inv, LedgerInv, DisputesAreNamed
    <3> QED
      BY <1>1, <2>1, <3>1 DEF OwnsTransition
  <2> QED
    BY <1>1, <1>2, <1>4, <2>1, <2>2 DEF OwnsTransition
<1> QED
  BY <1>3, <1>4

LEMMA PublishingKeeps ==
    ASSUME Inv, NEW r \in Requests, BatchPublishes(r)
    PROVE  Inv'
<1> DEFINE n == Len(events) + 1
           e == [id |-> r, object |-> Object(r), chain |-> Append(chain, r)]
<1>o. PICK ob : ob = Object(r)
  OBVIOUS
<1>1. /\ before[r] = ProblemHead /\ publicSeq = Len(events) /\ settled[r] = 0 /\ pc[r] = "batch"
      /\ OpOf[r] # "file" => OwnsTransition(r) /\ ObjectOf[r] \in DOMAIN objects
      /\ publicSeq' = n /\ chain' = Append(chain, r) /\ events' = Append(events, e)
  BY PublishingAtTheHead
<1>2. TypeOK /\ CallOK(r) /\ Len(events) \in Nat /\ r # None /\ chain \in Chains /\ events \in Seq(EventRows)
  BY SettlementConstants DEF Inv, CallInv, TypeOK, RowTypes
<1>3. Object(r) = IF OpOf[r] = "file" THEN n ELSE ObjectOf[r]
  BY <1>1 DEF Object, ProblemHead
<1>4. e \in EventRows /\ chain' \in Chains
  BY <1>1, <1>2, <1>3, SettlementConstants DEF EventRows, Chains
<1>5. /\ events' \in Seq(EventRows) /\ Len(events') = n
      /\ \A i \in 1..Len(events) : i \in 1..n /\ events'[i] = events[i]
      /\ \A i \in 1..n : i \in 1..Len(events) \/ i = n
      /\ events'[n].id = r /\ events'[n].object = Object(r) /\ events'[n].chain = chain'
  BY <1>1, <1>2, <1>4, EventAppended
<1>6. /\ settled' = [settled EXCEPT ![r] = n] /\ replays' = [replays EXCEPT ![r] = n]
      /\ settled \in [Requests -> 0..Len(events)] /\ replays = settled
  BY <1>1 DEF BatchPublishes, Inv, TypeOK, RowTypes, LedgerInv, EventsAreSettled
<1>7. /\ settled' \in [Requests -> 0..n] /\ replays' = settled'
      /\ settled'[r] = n /\ \A q \in Requests \ {r} : settled'[q] = settled[q]
      /\ n # 0 /\ n \in 1..n
  BY <1>2, <1>6
<1>8. /\ CallTypes' /\ pc'[r] \in {"settle", "caught"}
      /\ \A q \in Requests \ {r} : pc'[q] = pc[q] /\ answers'[q] = answers[q]
  BY <1>2, <1>5, Committing DEF BatchPublishes
<1>9. /\ objects' \in [DOMAIN objects' -> ObjectRows] /\ DOMAIN objects \subseteq DOMAIN objects'
      /\ DOMAIN objects' \subseteq 1..n /\ Object(r) \in DOMAIN objects'
      /\ \A p \in DOMAIN objects \ {Object(r)} : objects'[p] = objects[p]
      /\ DOMAIN objects' \subseteq DOMAIN objects \cup {Object(r)}
      /\ OpOf[r] = "file" => Object(r) \notin DOMAIN objects /\ objects'[Object(r)] = OpenRow
      /\ OpOf[r] # "file" => objects' = Stamped(r)
  <2>1. DOMAIN objects \subseteq 1..Len(events) /\ objects \in [DOMAIN objects -> ObjectRows]
    BY <1>2 DEF TypeOK, RowTypes
  <2>2. CASE OpOf[r] = "file"
    <3>1. objects' = [o \in DOMAIN objects \cup {n} |-> IF o = n THEN OpenRow ELSE objects[o]]
      BY <1>3, <2>2 DEF BatchPublishes
    <3>2. OpenRow \in ObjectRows /\ n \notin DOMAIN objects
      BY <1>2, <2>1 DEF OpenRow, ObjectRows
    <3> QED
      BY <1>3, <1>5, <1>7, <2>1, <2>2, <3>1, <3>2
  <2>3. CASE OpOf[r] # "file"
    <3>1. objects' = Stamped(r)
      BY <2>3 DEF BatchPublishes
    <3> QED
      BY <1>1, <1>3, <1>5, <2>1, <2>3, <3>1, Transition
  <2> QED
    BY <2>2, <2>3
<1>10. RowTypes'
  BY <1>1, <1>2, <1>4, <1>5, <1>7, <1>9 DEF RowTypes
<1>11. EventsAreSettled'
  BY <1>1, <1>5, <1>6, <1>7 DEF Inv, LedgerInv, EventsAreSettled
<1>12. EventsHaveObjects'
  BY <1>3, <1>5, <1>9 DEF Inv, LedgerInv, EventsHaveObjects
<1>13. HeadStands'
  BY <1>1, <1>2, <1>5, <1>7 DEF HeadStands
<1>14. ChainsCommit'
  <2>1. chain = IF publicSeq = 0 THEN <<>> ELSE events[publicSeq].chain
    BY <1>1 DEF Inv, LedgerInv, HeadStands
  <2>2. Len(chain) = Len(events) /\ \A j \in 1..Len(events) : chain[j] = events[j].id
    BY <1>1, <1>2, <2>1 DEF Inv, LedgerInv, ChainsCommit
  <2>3. Len(chain') = n /\ \A j \in 1..n : chain'[j] = events'[j].id
    BY <1>1, <1>2, <1>5, <2>2 DEF Chains
  <2> QED
    BY <1>5, <2>3 DEF Inv, LedgerInv, ChainsCommit
<1>15. /\ \A o : o # ob => Settlements(o)' = Settlements(o)
       /\ OpOf[r] # "file" => Settlements(ob)' = Settlements(ob) \cup {n}
       /\ OpOf[r] = "file" => Settlements(ob)' = {}
  <2>1. \A o : Settlements(o)' =
           {i \in 1..n : /\ events'[i].object = o /\ events'[i].id # None
                         /\ OpOf[events'[i].id] # "file"}
    BY <1>5 DEF Settlements
  <2>2. \A o : \A i \in 1..Len(events) : i \in Settlements(o)' <=> i \in Settlements(o)
    BY <1>5, <2>1 DEF Settlements
  <2>3. \A o : n \in Settlements(o)' <=> o = ob /\ OpOf[r] # "file"
    BY <1>o, <1>2, <1>5, <1>7, <2>1
  <2>4. \A o : Settlements(o) \subseteq 1..Len(events) /\ Settlements(o)' \subseteq 1..n
    BY <2>1 DEF Settlements
  <2>5. OpOf[r] = "file" => Settlements(ob) = {}
    BY <1>o, <1>9 DEF Settlements, Inv, LedgerInv, EventsHaveObjects
  <2> QED
    <3>1. ASSUME NEW o
          PROVE  /\ o # ob => Settlements(o)' = Settlements(o)
                 /\ o = ob /\ OpOf[r] # "file" => Settlements(o)' = Settlements(o) \cup {n}
                 /\ o = ob /\ OpOf[r] = "file" => Settlements(o)' = {}
      <4>1. PICK S, T : S = Settlements(o) /\ T = Settlements(o)'
        OBVIOUS
      <4>2. S \subseteq 1..Len(events) /\ T \subseteq 1..n /\ (n \in T <=> o = ob /\ OpOf[r] # "file")
        BY <2>3, <2>4, <4>1
      <4>3. \A i \in 1..Len(events) : i \in T <=> i \in S
        BY <2>2, <4>1
      <4>4. o = ob /\ OpOf[r] = "file" => S = {}
        BY <2>5, <4>1
      <4>5. \A i \in T : i \in 1..Len(events) \/ i = n
        BY <1>5, <4>2
      <4> HIDE DEF n
      <4>6. /\ o # ob => T = S
            /\ o = ob /\ OpOf[r] # "file" => T = S \cup {n}
            /\ o = ob /\ OpOf[r] = "file" => T = {}
        BY <4>2, <4>3, <4>4, <4>5
      <4> QED
        BY <4>1, <4>6
    <3> QED
      BY <3>1
<1>16. \A o \in DOMAIN objects' : /\ objects'[o] = OpenRow <=> Settlements(o)' = {}
                                  /\ \A i \in Settlements(o)' :
                                        /\ objects'[o].status = OpOf[events'[i].id]
                                        /\ objects'[o].at = CreatedAt[events'[i].id]
                                        /\ OpOf[events'[i].id] = "disputed" => objects'[o].by = events'[i].id
                                  /\ objects'[o].by # None => settled'[objects'[o].by] # 0
  <2> SUFFICES ASSUME NEW o \in DOMAIN objects'
               PROVE  /\ objects'[o] = OpenRow <=> Settlements(o)' = {}
                      /\ \A i \in Settlements(o)' :
                            /\ objects'[o].status = OpOf[events'[i].id]
                            /\ objects'[o].at = CreatedAt[events'[i].id]
                            /\ OpOf[events'[i].id] = "disputed" => objects'[o].by = events'[i].id
                      /\ objects'[o].by # None => settled'[objects'[o].by] # 0
    OBVIOUS
  <2>1. ASSUME o \in DOMAIN objects
        PROVE  /\ objects[o] = OpenRow <=> Settlements(o) = {}
               /\ \A i \in Settlements(o) :
                     /\ objects[o].status = OpOf[events[i].id]
                     /\ objects[o].at = CreatedAt[events[i].id]
                     /\ OpOf[events[i].id] = "disputed" => objects[o].by = events[i].id
                     /\ events'[i] = events[i]
               /\ objects[o].by # None => settled[objects[o].by] # 0 /\ settled'[objects[o].by] # 0
    <3>1. \A i \in Settlements(o) : events'[i] = events[i]
      BY <1>5 DEF Settlements
    <3>2. objects[o].by \in Requests \cup {None}
      BY <1>2, <2>1 DEF TypeOK, RowTypes, ObjectRows
    <3> QED
      BY <1>7, <2>1, <3>1, <3>2 DEF Inv, LedgerInv, RowMatchesLedger, DisputesAreNamed
  <2>2. CASE o # ob
    BY <1>o, <1>9, <1>15, <2>1, <2>2
  <2>3. CASE o = ob /\ OpOf[r] = "file"
    BY <1>o, <1>9, <1>15, <2>3 DEF OpenRow
  <2>4. CASE o = ob /\ OpOf[r] # "file"
    <3>1. o = ObjectOf[r] /\ o \in DOMAIN objects /\ objects' = Stamped(r) /\ Settlements(o)' = Settlements(o) \cup {n}
      BY <1>o, <1>1, <1>3, <1>9, <1>15, <2>4
    <3>2. /\ objects'[o] # OpenRow
          /\ objects'[o].status = OpOf[r] /\ objects'[o].at = CreatedAt[r]
          /\ OpOf[r] = "disputed" => objects'[o].by = r
          /\ \/ objects[o] = OpenRow /\ objects'[o].by = r
             \/ objects[o] # OpenRow /\ objects' = objects /\ OpOf[r] # "disputed"
      BY <1>1, <2>4, <3>1, Transition
    <3>3. CASE objects[o] = OpenRow
      <4>1. Settlements(o)' = {n}
        BY <2>1, <3>1, <3>3
      <4> QED
        BY <1>5, <1>7, <3>2, <3>3, <4>1
    <3>4. CASE objects[o] # OpenRow
      <4>1. objects' = objects
        BY <3>2, <3>4
      <4>2. ASSUME NEW i \in Settlements(o)'
            PROVE  /\ objects'[o].status = OpOf[events'[i].id]
                   /\ objects'[o].at = CreatedAt[events'[i].id]
                   /\ OpOf[events'[i].id] = "disputed" => objects'[o].by = events'[i].id
        <5>1. CASE i = n
          BY <1>5, <3>2, <5>1
        <5>2. CASE i \in Settlements(o)
          BY <2>1, <3>1, <4>1, <5>2
        <5> QED
          BY <3>1, <4>2, <5>1, <5>2
      <4> QED
        BY <2>1, <3>1, <3>2, <4>1, <4>2
    <3> QED
      BY <3>3, <3>4
  <2> QED
    BY <2>2, <2>3, <2>4
<1>17. DisputesAreNamed' /\ RowMatchesLedger'
  BY <1>16 DEF DisputesAreNamed, RowMatchesLedger
<1>18. CallOK(r)'
  BY <1>2, <1>1, <1>7, <1>8, <1>9 DEF CallOK, BatchPublishes
<1>19. CallInv'
  BY <1>7, <1>8, <1>9, <1>18, OthersStay
<1> QED
  BY <1>8, <1>10, <1>11, <1>12, <1>13, <1>14, <1>17, <1>19 DEF Inv, TypeOK, LedgerInv

LEMMA NextStep == Inv /\ [SettlementNext]_settlementVars => Inv'
<1> SUFFICES ASSUME Inv, [SettlementNext]_settlementVars
             PROVE  Inv'
  OBVIOUS
<1>1. ASSUME NEW r \in Requests, Step(r) \/ Crash(r) \/ RevokeAuthority(r)
      PROVE  Inv'
  BY <1>1, QuietSteps, PublishingKeeps, LosingKeeps DEF Step
<1>2. CASE UNCHANGED settlementVars
  <2>1. UNCHANGED <<publicSeq, chain, events, objects, settled, replays, authorized, pc, before,
                    retryCount, retryable, answers>>
    BY <1>2 DEF settlementVars
  <2>2. RowTypes' /\ LedgerInv'
    BY <2>1, RowsAlone DEF rowVars
  <2>3. CallTypes' /\ CallInv'
    BY <2>1 DEF Inv, TypeOK, CallTypes, CallInv, CallOK
  <2> QED
    BY <2>2, <2>3 DEF Inv, TypeOK
<1> QED
  BY <1>1, <1>2 DEF SettlementNext

-----------------------------------------------------------------------------
(* What the run checks, for every instance *)

LEMMA Invariance == SettlementSpec => []Inv
<1> QED
  BY InitialState, NextStep, PTL DEF SettlementSpec

(* Every variable of the ledger and of the Worker invocations keeps its type, and no        *)
(* object, idempotency row, replay row or answer is about a sequence without an event.      *)
THEOREM TypeCorrectness == SettlementSpec => []TypeOK
<1>1. Inv => TypeOK
  BY DEF Inv
<1> QED
  BY <1>1, Invariance, PTL

(* settleGuardSql and disputeGuardSql let a batch publish only a settlement the row of the  *)
(* object shows, with its outcome and its time, even when two settle in one millisecond.    *)
THEOREM RowsMatchTheLedger == SettlementSpec => []RowMatchesLedger
<1>1. Inv => RowMatchesLedger
  BY DEF Inv, LedgerInv
<1> QED
  BY <1>1, Invariance, PTL

(* No lost response, retry or crash makes the route refuse what it has published, or name   *)
(* a sequence that is not the request's own event.                                          *)
THEOREM AnswersTellTheLedger == SettlementSpec => []AnswersAreTrue
<1>1. Inv => AnswersAreTrue
  <2> SUFFICES ASSUME Inv, NEW r \in Requests
               PROVE  /\ answers[r].status = "refused" => \A i \in 1..Len(events) : events[i].id # r
                      /\ answers[r].status = "ok" =>
                            answers[r].seq \in 1..Len(events) /\ events[answers[r].seq].id = r
    BY DEF AnswersAreTrue
  <2>1. /\ CallOK(r) /\ EventsAreSettled /\ r # None
        /\ settled \in [Requests -> 0..Len(events)] /\ Len(events) \in Nat
    BY SettlementConstants DEF Inv, CallInv, LedgerInv, TypeOK, RowTypes
  <2>2. settled[r] # 0 => settled[r] \in 1..Len(events)
    BY <2>1
  <2>3. settled[r] = 0 => \A i \in 1..Len(events) : events[i].id # r
    BY <2>1 DEF EventsAreSettled
  <2> QED
    BY <2>1, <2>2, <2>3 DEF CallOK, EventsAreSettled
<1> QED
  BY <1>1, Invariance, PTL

\* No two requests for one outcome of one gap reach the writer in the same millisecond.
SettledApart ==
    \A r, q \in Requests :
        /\ OpOf[r] = OpOf[q] /\ OpOf[r] \in {"closed-by", "withdrawn"}
        /\ ObjectOf[r] = ObjectOf[q] /\ CreatedAt[r] = CreatedAt[q]
        => r = q

(* Two published settlements of one object are the same: of a dispute always, since its     *)
(* guard goes by the event id, and of a gap as soon as equal outcomes differ in time.       *)
LEMMA OneSettlement ==
    ASSUME Inv, NEW o \in DOMAIN objects, NEW i \in Settlements(o), NEW j \in Settlements(o),
           SettledApart \/ OpOf[events[i].id] = "disputed"
    PROVE  i = j
<1> DEFINE r == events[i].id
           q == events[j].id
<1>1. i \in 1..Len(events) /\ j \in 1..Len(events) /\ events \in Seq(EventRows) /\ r # None /\ q # None
      /\ OpOf[r] # "file" /\ OpOf[q] # "file" /\ events[i].object = o /\ events[j].object = o
  BY DEF Settlements, Inv, TypeOK, RowTypes
<1>2. r \in Requests /\ q \in Requests
  <2>1. events[i] \in EventRows /\ events[j] \in EventRows
    BY <1>1
  <2> QED
    BY <1>1, <2>1 DEF EventRows
<1>3. OpOf[r] = OpOf[q] /\ CreatedAt[r] = CreatedAt[q]
  BY DEF Inv, LedgerInv, RowMatchesLedger
<1>4. ObjectOf[r] = o /\ ObjectOf[q] = o
  BY <1>1 DEF Inv, LedgerInv, EventsHaveObjects
<1>5. r = q
  <2>1. CASE OpOf[r] = "disputed"
    BY <1>3, <2>1 DEF Inv, LedgerInv, DisputesAreNamed
  <2>2. CASE OpOf[r] # "disputed"
    <3>1. OpOf[r] \in {"closed-by", "withdrawn"} /\ SettledApart
      BY <1>1, <1>2, <2>2, SettlementConstants
    <3> QED
      BY <1>2, <1>3, <1>4, <3>1 DEF SettledApart
  <2> QED
    BY <2>1, <2>2
<1>6. settled[r] = i /\ settled[q] = j
  BY <1>1 DEF Inv, LedgerInv, EventsAreSettled
<1> QED
  BY <1>5, <1>6

(* An object is settled by one event only, provided that no two requests for the same       *)
(* outcome of it are stamped in one millisecond: settleGuardSql cannot tell those apart.    *)
THEOREM SettledOnceApart ==
    ASSUME SettledApart
    PROVE  SettlementSpec => []SettledOnce
<1>1. Inv => SettledOnce
  BY SettledApart, OneSettlement DEF SettledOnce
<1> QED
  BY <1>1, Invariance, PTL

(* A relation is disputed by one event only, whatever the clock says: disputeGuardSql asks  *)
(* for the event's own id.                                                                  *)
THEOREM DisputedOnce ==
    SettlementSpec => [](\A o \in DOMAIN objects : \A i, j \in Settlements(o) :
                  OpOf[events[i].id] = "disputed" => i = j)
<1>1. Inv => \A o \in DOMAIN objects : \A i, j \in Settlements(o) :
                OpOf[events[i].id] = "disputed" => i = j
  BY OneSettlement
<1> QED
  BY <1>1, Invariance, PTL

(* The chain of a published event lists every event up to it in its place, and while the    *)
(* head is at the last event the next one extends it.                                       *)
THEOREM ChainIsUnbroken == SettlementSpec => [](ChainsCommit /\ HeadStands)
<1>1. Inv => ChainsCommit /\ HeadStands
  BY DEF Inv, LedgerInv
<1> QED
  BY <1>1, Invariance, PTL

(* Once a loser has bumped the head beyond the last event, the problem takes no event and   *)
(* no settlement any more: the bump is never caught up with.                                *)
THEOREM PhantomHeadFreezes ==
    SettlementSpec => [][publicSeq # Len(events) =>
                   UNCHANGED <<events, objects, settled>> /\ publicSeq' # Len(events')]_settlementVars
<1> DEFINE Frozen == publicSeq # Len(events) =>
                         UNCHANGED <<events, objects, settled>> /\ publicSeq' # Len(events')
<1>1. Inv /\ [SettlementNext]_settlementVars => [Frozen]_settlementVars
  <2> SUFFICES ASSUME Inv, SettlementNext, publicSeq # Len(events)
               PROVE  UNCHANGED <<events, objects, settled>> /\ publicSeq' # Len(events')
    OBVIOUS
  <2>1. PICK r \in Requests : Step(r) \/ Crash(r) \/ RevokeAuthority(r)
    BY DEF SettlementNext
  <2>2. publicSeq > Len(events) /\ publicSeq \in Nat /\ Len(events) \in Nat
    BY DEF Inv, LedgerInv, HeadStands, TypeOK, RowTypes
  <2>3. ~BatchPublishes(r)
    BY <2>2, PublishingAtTheHead
  <2>4. CASE BatchLoses(r)
    <3>1. UNCHANGED <<events, objects, settled>>
      BY <2>4 DEF BatchLoses
    <3>2. publicSeq' = publicSeq \/ publicSeq' = publicSeq + 1
      BY <2>4 DEF BatchLoses, HeadMoved, Elect, ProblemHead
    <3> QED
      BY <2>2, <3>1, <3>2
  <2>5. CASE UNCHANGED rowVars
    BY <2>2, <2>5 DEF rowVars
  <2> QED
    BY <2>1, <2>3, <2>4, <2>5 DEF Step, CheckOpen, Preflight, ReadHead, BatchAborts, CatchBatch,
                                  ReadSettlement, RouteCatch, Crash, RevokeAuthority
<1>2. SettlementSpec => [][SettlementNext]_settlementVars
  BY PTL DEF SettlementSpec
<1> QED
  BY <1>1, <1>2, Invariance, PTL
=============================================================================
