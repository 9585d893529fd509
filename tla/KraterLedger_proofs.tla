------------------------- MODULE KraterLedger_proofs -------------------------
(***************************************************************************)
(* Proofs about KraterLedger for any number of requests, caller keys,      *)
(* Fellows and retries.                                                    *)
(*                                                                         *)
(* The argument rests on one observation: a batch that commits an event    *)
(* does so from the head it read and finds no replay row for its caller    *)
(* key (CommitFacts).  Sequences, digests, settlement and replay rows then *)
(* move in lockstep (LedgerConsistent), and a request owns an event only   *)
(* while, or after, its writer has run (RequestsConsistent).               *)
(***************************************************************************)
EXTENDS KraterLedgerProperties, SequenceTheorems, TLAPS

(* A replay row stands for the one event of its key; the settlement of a     *)
(* request stands for its own event.                                         *)
LedgerConsistent ==
    /\ ChainIntegrity
    /\ TransitionsOnce
    /\ \A i \in 1..Len(events) :
          /\ settled[events[i].id] = i
          /\ replays[KeyOf[events[i].id]] = [owner |-> events[i].id, seq |-> i]
          /\ BodyOf[events[i].id].op = "transition" => events[i].object \notin openRoutes
    /\ \A r \in Requests : settled[r] # 0 =>
          settled[r] \in 1..Len(events) /\ events[settled[r]].id = r
    /\ \A k \in CallerKeys : replays[k] # NoReplay =>
          /\ replays[k].seq \in 1..Len(events)
          /\ events[replays[k].seq].id = replays[k].owner
          /\ KeyOf[replays[k].owner] = k

(* A request has no event before its writer runs, and no answer before it    *)
(* leaves.                                                                   *)
RequestsConsistent ==
    \A r \in Requests :
        /\ pc[r] \in {"arrive", "check"} => settled[r] = 0
        /\ pc[r] # "answered" => answers[r] = Unanswered

IInv == TypeOK /\ LedgerConsistent /\ RequestsConsistent /\ AnswersAreTrue

-----------------------------------------------------------------------------
(* Hashing one more event: the events so far after an append. *)
LEMMA EventsSoFarAppend ==
    ASSUME NEW s, NEW e, s \in Seq([id : Requests, object : Nat, version : Nat,
                                    chain : Seq(Requests)]),
           e \in [id : Requests, object : Nat, version : Nat, chain : Seq(Requests)]
    PROVE  /\ Len(Append(s, e)) = Len(s) + 1
           /\ \A i \in 1..Len(s) : Append(s, e)[i] = s[i]
           /\ Append(s, e)[Len(s) + 1] = e
           /\ Append(s, e) \in Seq([id : Requests, object : Nat, version : Nat,
                                    chain : Seq(Requests)])
  OBVIOUS

(* The events of a well-typed ledger are events of requests. *)
LEMMA EventIds ==
    ASSUME TypeOK, NEW i \in 1..Len(events)
    PROVE  events[i].id \in Requests
<1>1. events \in Seq([id : Requests, object : Nat, version : Nat, chain : Seq(Requests)])
  BY DEF TypeOK
<1>2. events[i] \in [id : Requests, object : Nat, version : Nat, chain : Seq(Requests)]
  BY <1>1, ElementOfSeq
<1>3. QED
  BY <1>2

(* Extending a history by one request is appending to it.                    *)
LEMMA HistoryAppend ==
    ASSUME NEW n \in Nat, NEW f, NEW r \in Requests, \A i \in 1..n : f[i] \in Requests
    PROVE  Append([i \in 1..n |-> f[i]], r) = [i \in 1..(n + 1) |-> IF i = n + 1 THEN r ELSE f[i]]
<1> DEFINE h == [i \in 1..n |-> f[i]]
<1>1. h \in Seq(Requests) /\ Len(h) = n
  OBVIOUS
<1>2. Append(h, r) = [i \in 1..(n + 1) |-> IF i <= n THEN h[i] ELSE r]
  BY <1>1
<1>3. QED
  BY <1>2

-----------------------------------------------------------------------------
(* Which batches commit an event *)

(* The optimistic election and the ownership of the replay row, together: a  *)
(* committed event continues the current head and is the first of its key,   *)
(* and the author may still write.                                           *)
LEMMA CommitFacts ==
    ASSUME NEW r \in Requests, BatchCommits(r)
    PROVE  /\ pc[r] = "batch"
           /\ before[r] = ProblemHead
           /\ settled[r] = 0
           /\ replays[KeyOf[r]] = NoReplay
           /\ Author(r) \in live /\ Author(r) \in open
           /\ BodyOf[r].op = "revise" => BodyOf[r].object \notin held
           /\ BodyOf[r].op = "transition" => BodyOf[r].object \in openRoutes
<1> USE LedgerConstants
<1>1. pc[r] = "batch" /\ settled[r] = 0 /\ ~Eventless(r) /\ ~ChainConflict(r) /\ ~CompanionAborts(r)
  BY DEF BatchCommits
<1>2. ~ReplayUnowned(r)
  BY <1>1 DEF CompanionAborts
<1>3. BodyOf[r] \in Bodies /\ BodyOf[r].op \in {"create", "revise", "transition"}
  OBVIOUS
<1>4. ~HeadMoved(r)
  <2>1. CASE BodyOf[r].op = "create"
    BY <1>1, <2>1 DEF ChainConflict
  <2>2. CASE BodyOf[r].op # "create"
    BY <1>1, <2>2 DEF Eventless
  <2>3. QED
    BY <2>1, <2>2
<1>5. /\ BodyOf[r].op = "revise" => BodyOf[r].object \notin held
      /\ BodyOf[r].op = "transition" => BodyOf[r].object \in openRoutes
  <2>1. BodyOf[r].op # "create" => Admissible(r)
    BY <1>1 DEF Eventless
  <2>2. QED
    BY <2>1 DEF Admissible
<1>6. QED
  BY <1>1, <1>2, <1>4, <1>5 DEF ReplayUnowned, HeadMoved

(* The ledger variables after a commit, without the conditions that led to it. *)
LEMMA CommitEffect ==
    ASSUME IInv, NEW r \in Requests, BatchCommits(r)
    PROVE  LET n == Len(events)
               e == [id |-> r, object |-> EventObject(r), version |-> EventVersion(r),
                     chain |-> Append(chain, r)]
           IN  /\ n \in Nat /\ publicSeq = n
               /\ e \in [id : Requests, object : Nat, version : Nat, chain : Seq(Requests)]
               /\ publicSeq' = n + 1
               /\ chain' = Append(chain, r)
               /\ events' = Append(events, e)
               /\ checkpoints' = Append(checkpoints, Append(chain, r))
               /\ settled' = [settled EXCEPT ![r] = n + 1]
               /\ replays' = [replays EXCEPT ![KeyOf[r]] = [owner |-> r, seq |-> n + 1]]
               /\ publicCursor' = publicCursor + 1
               /\ BodyOf[r].op = "transition" => openRoutes' = openRoutes \ {BodyOf[r].object}
               /\ BodyOf[r].op # "transition" => openRoutes' = openRoutes
               /\ DOMAIN claims' \subseteq Nat
               /\ outbox' \subseteq Nat
<1> USE LedgerConstants
<1>1. before[r] = ProblemHead
  BY CommitFacts
<1>2. publicSeq = Len(events) /\ Len(events) \in Nat /\ chain \in Seq(Requests)
  BY DEF IInv, TypeOK, LedgerConsistent, ChainIntegrity
<1>3. before[r].seq = Len(events) /\ before[r].chain = chain
  BY <1>1, <1>2 DEF ProblemHead
<1>4. CommitEvent(r)
  BY DEF BatchCommits
<1>5. EventObject(r) \in Nat /\ EventVersion(r) \in Nat
  BY <1>2, <1>3 DEF EventObject, EventVersion
<1>6. ProjectEvent(r)
  BY <1>4 DEF CommitEvent
<1>7. /\ BodyOf[r].op = "transition" => openRoutes' = openRoutes \ {BodyOf[r].object}
      /\ BodyOf[r].op # "transition" => openRoutes' = openRoutes
      /\ DOMAIN claims' \subseteq Nat
      /\ outbox' \subseteq Nat
  <2>1. DOMAIN claims \subseteq Nat /\ outbox \subseteq Nat
    BY DEF IInv, TypeOK
  <2>2. CASE BodyOf[r].op = "transition"
    BY <1>6, <2>1, <2>2 DEF ProjectEvent
  <2>3. CASE BodyOf[r].op # "transition"
    <3>1. /\ DOMAIN claims' = DOMAIN claims \cup {EventObject(r)}
          /\ outbox' = outbox \cup {before[r].seq + 1}
          /\ openRoutes' = openRoutes
      BY <1>6, <2>3 DEF ProjectEvent
    <3>2. DOMAIN claims' \subseteq Nat
      BY <1>5, <2>1, <3>1
    <3>3. before[r].seq + 1 \in Nat
      BY <1>2, <1>3
    <3>4. outbox' \subseteq Nat
      BY <2>1, <3>1, <3>3
    <3>5. QED
      BY <2>3, <3>1, <3>2, <3>4
  <2>4. QED
    BY <2>2, <2>3
<1>8. QED
  BY <1>2, <1>3, <1>4, <1>5, <1>7 DEF CommitEvent

-----------------------------------------------------------------------------
(* The invariant is kept by a commit *)

LEMMA CommitKeepsChain ==
    ASSUME IInv, NEW r \in Requests, BatchCommits(r)
    PROVE  ChainIntegrity'
<1> DEFINE n == Len(events)
           e == [id |-> r, object |-> EventObject(r), version |-> EventVersion(r),
                 chain |-> Append(chain, r)]
<1>1. /\ ChainIntegrity
      /\ events \in Seq([id : Requests, object : Nat, version : Nat, chain : Seq(Requests)])
      /\ checkpoints \in Seq(Seq(Requests))
      /\ chain \in Seq(Requests)
  BY DEF IInv, TypeOK, LedgerConsistent
<1>2. /\ n \in Nat
      /\ e \in [id : Requests, object : Nat, version : Nat, chain : Seq(Requests)]
      /\ publicSeq' = n + 1
      /\ chain' = Append(chain, r)
      /\ events' = Append(events, e)
      /\ checkpoints' = Append(checkpoints, Append(chain, r))
  BY CommitEffect
<1> HIDE DEF n, e
<1>3. /\ Len(events') = n + 1
      /\ \A i \in 1..n : events'[i] = events[i]
      /\ events'[n + 1] = e
  BY <1>1, <1>2, EventsSoFarAppend DEF n
<1>4. e.id = r /\ e.chain = Append(chain, r)
  BY DEF e
<1>5. /\ Len(checkpoints) = n
      /\ Len(checkpoints') = n + 1
      /\ \A i \in 1..n : checkpoints'[i] = checkpoints[i]
      /\ checkpoints'[n + 1] = Append(chain, r)
  <2>1. Len(checkpoints) = n
    BY <1>1 DEF ChainIntegrity, n
  <2>2. Append(chain, r) \in Seq(Requests)
    BY <1>1
  <2>3. QED
    BY <1>1, <1>2, <2>1, <2>2
<1>6. chain = [i \in 1..n |-> events[i].id]
  BY <1>1 DEF ChainIntegrity, EventsSoFar, n
<1>7. \A i \in 1..n : events[i].id \in Requests
  BY EventIds DEF n, IInv
<1>8. chain' = [i \in 1..(n + 1) |-> events'[i].id]
  <2> DEFINE f == [i \in 1..n |-> events[i].id]
  <2>1. \A i \in 1..n : f[i] \in Requests
    BY <1>7
  <2>2. chain = [i \in 1..n |-> f[i]]
    BY <1>6
  <2> HIDE DEF f
  <2>3. Append([i \in 1..n |-> f[i]], r)
          = [i \in 1..(n + 1) |-> IF i = n + 1 THEN r ELSE f[i]]
    BY <1>2, <2>1, HistoryAppend
  <2>4. \A i \in 1..(n + 1) : (IF i = n + 1 THEN r ELSE f[i]) = events'[i].id
    BY <1>2, <1>3, <1>4 DEF f
  <2>5. QED
    BY <1>2, <2>2, <2>3, <2>4
<1>9. \A m \in 1..(n + 1) :
         /\ events'[m].chain = [i \in 1..m |-> events'[i].id]
         /\ checkpoints'[m] = events'[m].chain
  <2>1. TAKE m \in 1..(n + 1)
  <2>2. CASE m = n + 1
    BY <1>2, <1>3, <1>4, <1>5, <1>8, <2>2
  <2>3. CASE m \in 1..n
    <3>1. events[m].chain = [i \in 1..m |-> events[i].id] /\ checkpoints[m] = events[m].chain
      BY <1>1, <2>3 DEF ChainIntegrity, EventsSoFar, n
    <3>2. \A i \in 1..m : events'[i].id = events[i].id
      BY <1>2, <1>3, <2>3
    <3>3. QED
      BY <1>3, <1>5, <2>3, <3>1, <3>2
  <2>4. m = n + 1 \/ m \in 1..n
    BY <1>2
  <2>5. QED
    BY <2>2, <2>3, <2>4
<1>10. QED
  BY <1>2, <1>3, <1>5, <1>8, <1>9 DEF ChainIntegrity, EventsSoFar

(* The commit of an event keeps the ledger part of the invariant. *)
LEMMA CommitKeepsLedger ==
    ASSUME IInv, NEW r \in Requests, BatchCommits(r)
    PROVE  LedgerConsistent'
<1> USE LedgerConstants
<1> DEFINE n == Len(events)
           e == [id |-> r, object |-> EventObject(r), version |-> EventVersion(r),
                 chain |-> Append(chain, r)]
           k == KeyOf[r]
<1>1. /\ LedgerConsistent
      /\ events \in Seq([id : Requests, object : Nat, version : Nat, chain : Seq(Requests)])
      /\ settled \in [Requests -> Nat]
      /\ replays \in [CallerKeys -> [owner : Requests \cup {None}, seq : Nat]]
  BY DEF IInv, TypeOK
<1>2. /\ n \in Nat
      /\ e \in [id : Requests, object : Nat, version : Nat, chain : Seq(Requests)]
      /\ events' = Append(events, e)
      /\ settled' = [settled EXCEPT ![r] = n + 1]
      /\ replays' = [replays EXCEPT ![k] = [owner |-> r, seq |-> n + 1]]
      /\ BodyOf[r].op = "transition" => openRoutes' = openRoutes \ {BodyOf[r].object}
      /\ BodyOf[r].op # "transition" => openRoutes' = openRoutes
  BY CommitEffect
<1>3. settled[r] = 0 /\ replays[k] = NoReplay
  BY CommitFacts
<1>4. e.id = r /\ (BodyOf[r].op = "transition" => e.object = BodyOf[r].object)
  BY DEF EventObject
<1> HIDE DEF n, e, k
<1>5. /\ Len(events') = n + 1
      /\ \A i \in 1..n : events'[i] = events[i]
      /\ events'[n + 1] = e
  BY <1>1, <1>2, EventsSoFarAppend DEF n
<1>6. \A i \in 1..n : events[i].id \in Requests /\ events[i].id # r /\ KeyOf[events[i].id] # k
  <2>1. TAKE i \in 1..n
  <2>2. events[i].id \in Requests
    BY EventIds DEF n, IInv
  <2>3. settled[events[i].id] = i /\ replays[KeyOf[events[i].id]] = [owner |-> events[i].id, seq |-> i]
    BY <1>1 DEF LedgerConsistent, n
  <2>4. replays[KeyOf[events[i].id]] # NoReplay
    BY <2>2, <2>3 DEF NoReplay
  <2>5. QED
    BY <1>2, <1>3, <2>2, <2>3, <2>4
<1>7. \A i \in 1..(n + 1) :
         /\ settled'[events'[i].id] = i
         /\ replays'[KeyOf[events'[i].id]] = [owner |-> events'[i].id, seq |-> i]
         /\ BodyOf[events'[i].id].op = "transition" => events'[i].object \notin openRoutes'
  <2>1. TAKE i \in 1..(n + 1)
  <2>2. CASE i = n + 1
    BY <1>1, <1>2, <1>4, <1>5, <2>2 DEF k
  <2>3. CASE i \in 1..n
    <3>1. /\ settled[events[i].id] = i
          /\ replays[KeyOf[events[i].id]] = [owner |-> events[i].id, seq |-> i]
          /\ BodyOf[events[i].id].op = "transition" => events[i].object \notin openRoutes
      BY <1>1, <2>3 DEF LedgerConsistent, n
    <3>2. openRoutes' \subseteq openRoutes
      BY <1>2
    <3>3. settled'[events[i].id] = i
      BY <1>1, <1>2, <1>6, <2>3, <3>1
    <3>4. replays'[KeyOf[events[i].id]] = [owner |-> events[i].id, seq |-> i]
      BY <1>1, <1>2, <1>6, <2>3, <3>1
    <3>5. QED
      BY <1>5, <2>3, <3>1, <3>2, <3>3, <3>4
  <2>4. i = n + 1 \/ i \in 1..n
    BY <1>2
  <2>5. QED
    BY <2>2, <2>3, <2>4
<1>8. \A q \in Requests : settled'[q] # 0 =>
         settled'[q] \in 1..(n + 1) /\ events'[settled'[q]].id = q
  <2>1. TAKE q \in Requests
  <2>2. CASE q = r
    BY <1>1, <1>2, <1>4, <1>5, <2>2
  <2>3. CASE q # r
    BY <1>1, <1>2, <1>5, <2>3 DEF LedgerConsistent, n
  <2>4. QED
    BY <2>2, <2>3
<1>9. \A c \in CallerKeys : replays'[c] # NoReplay =>
         /\ replays'[c].seq \in 1..(n + 1)
         /\ events'[replays'[c].seq].id = replays'[c].owner
         /\ KeyOf[replays'[c].owner] = c
  <2>1. TAKE c \in CallerKeys
  <2>2. CASE c = k
    BY <1>1, <1>2, <1>4, <1>5, <2>2 DEF k
  <2>3. CASE c # k
    <3>1. replays'[c] = replays[c]
      BY <1>1, <1>2, <2>3
    <3>2. replays[c] # NoReplay =>
             /\ replays[c].seq \in 1..n
             /\ events[replays[c].seq].id = replays[c].owner
             /\ KeyOf[replays[c].owner] = c
      BY <1>1 DEF LedgerConsistent, n
    <3>3. \A i \in 1..n : events'[i] = events[i] /\ i \in 1..(n + 1)
      BY <1>2, <1>5
    <3>4. QED
      BY <3>1, <3>2, <3>3
  <2>4. QED
    BY <2>2, <2>3
<1>10. ChainIntegrity'
  BY CommitKeepsChain
<1>11. TransitionsOnce'
  <2>1. SUFFICES ASSUME NEW i \in 1..(n + 1), NEW j \in 1..(n + 1),
                        BodyOf[events'[i].id].op = "transition",
                        BodyOf[events'[j].id].op = "transition",
                        events'[i].object = events'[j].object
                 PROVE  i = j
    BY <1>5 DEF TransitionsOnce
  <2>2. /\ i = n + 1 \/ i \in 1..n
        /\ j = n + 1 \/ j \in 1..n
    BY <1>2
  <2>3. CASE i \in 1..n /\ j \in 1..n
    BY <1>1, <1>5, <2>1, <2>3 DEF LedgerConsistent, TransitionsOnce, n
  <2>4. \A m \in 1..n : BodyOf[events[m].id].op = "transition" => events[m].object \notin openRoutes
    BY <1>1 DEF LedgerConsistent, n
  <2>5. BodyOf[r].op = "transition" => e.object \in openRoutes
    BY <1>4, CommitFacts
  <2>6. QED
    BY <1>4, <1>5, <2>1, <2>2, <2>3, <2>4, <2>5
<1>12. QED
  BY <1>5, <1>7, <1>8, <1>9, <1>10, <1>11 DEF LedgerConsistent, NoReplay

(* The answers given so far stay true when the ledger grows. *)
LEMMA CommitKeepsRequests ==
    ASSUME IInv, NEW r \in Requests, BatchCommits(r)
    PROVE  TypeOK' /\ RequestsConsistent' /\ AnswersAreTrue'
<1> USE LedgerConstants
<1> DEFINE n == Len(events)
           e == [id |-> r, object |-> EventObject(r), version |-> EventVersion(r),
                 chain |-> Append(chain, r)]
<1>1. TypeOK /\ LedgerConsistent /\ RequestsConsistent /\ AnswersAreTrue
  BY DEF IInv
<1>2. /\ n \in Nat /\ publicSeq = n
      /\ e \in [id : Requests, object : Nat, version : Nat, chain : Seq(Requests)]
      /\ publicSeq' = n + 1
      /\ chain' = Append(chain, r)
      /\ events' = Append(events, e)
      /\ checkpoints' = Append(checkpoints, Append(chain, r))
      /\ settled' = [settled EXCEPT ![r] = n + 1]
      /\ replays' = [replays EXCEPT ![KeyOf[r]] = [owner |-> r, seq |-> n + 1]]
      /\ publicCursor' = publicCursor + 1
      /\ BodyOf[r].op = "transition" => openRoutes' = openRoutes \ {BodyOf[r].object}
      /\ BodyOf[r].op # "transition" => openRoutes' = openRoutes
      /\ DOMAIN claims' \subseteq Nat
      /\ outbox' \subseteq Nat
  BY CommitEffect
<1>3. pc[r] = "batch" /\ settled[r] = 0
  BY CommitFacts
<1>4. /\ \/ pc' = [pc EXCEPT ![r] = "settle"] /\ retryable' = retryable
         \/ pc' = [pc EXCEPT ![r] = "caught"] /\ retryable' = [retryable EXCEPT ![r] = FALSE]
      /\ UNCHANGED <<before, retryCount, answers, live, open, held>>
  BY DEF BatchCommits, Goto, Throw, authorityVars
<1>5. events \in Seq([id : Requests, object : Nat, version : Nat, chain : Seq(Requests)])
  BY <1>1 DEF TypeOK
<1> HIDE DEF n, e
<1>6. /\ Len(events') = n + 1
      /\ \A i \in 1..n : events'[i] = events[i]
      /\ events'[n + 1] = e
      /\ events' \in Seq([id : Requests, object : Nat, version : Nat, chain : Seq(Requests)])
  BY <1>2, <1>5, EventsSoFarAppend DEF n
<1>7. e.id = r
  BY DEF e
<1>8. TypeOK'
  <2>1. publicSeq' \in Nat /\ publicCursor' \in Nat
    BY <1>1, <1>2 DEF TypeOK
  <2>2. chain' \in Seq(Requests) /\ checkpoints' \in Seq(Seq(Requests))
    BY <1>1, <1>2 DEF TypeOK
  <2>3. settled' \in [Requests -> Nat]
    BY <1>1, <1>2 DEF TypeOK
  <2>4. replays' \in [CallerKeys -> [owner : Requests \cup {None}, seq : Nat]]
    BY <1>1, <1>2 DEF TypeOK
  <2>5. openRoutes' \subseteq Routes
    BY <1>1, <1>2 DEF TypeOK
  <2>6. pc' \in [Requests -> {"arrive", "check", "head", "batch", "caught", "settle", "failed",
                              "answered", "crashed"}]
    BY <1>1, <1>4 DEF TypeOK
  <2>7. retryable' \in [Requests -> BOOLEAN]
    BY <1>1, <1>4 DEF TypeOK
  <2>8. /\ before' \in [Requests -> [seq : Nat, chain : Seq(Requests)]]
        /\ retryCount' \in [Requests -> 0..MaxRetries]
        /\ answers' \in [Requests -> [status : {"none", "ok", "conflict", "refused"}, seq : Nat]]
        /\ live' \subseteq Fellows /\ open' \subseteq Fellows /\ held' \subseteq Nat
    BY <1>1, <1>4 DEF TypeOK
  <2>9. QED
    BY <1>2, <1>6, <2>1, <2>2, <2>3, <2>4, <2>5, <2>6, <2>7, <2>8 DEF TypeOK
<1>9. RequestsConsistent'
  <2>1. SUFFICES ASSUME NEW q \in Requests
                 PROVE  /\ pc'[q] \in {"arrive", "check"} => settled'[q] = 0
                        /\ pc'[q] # "answered" => answers'[q] = Unanswered
    BY DEF RequestsConsistent, Unanswered
  <2>2. CASE q = r
    BY <1>1, <1>3, <1>4, <2>2 DEF RequestsConsistent, TypeOK
  <2>3. CASE q # r
    BY <1>1, <1>2, <1>4, <2>3 DEF RequestsConsistent, TypeOK
  <2>4. QED
    BY <2>2, <2>3
<1>10. AnswersAreTrue'
  <2>1. SUFFICES ASSUME NEW q \in Requests
                 PROVE  /\ answers[q].status = "refused" => \A i \in 1..(n + 1) : events'[i].id # q
                        /\ answers[q].status = "ok" =>
                              /\ answers[q].seq \in 1..(n + 1)
                              /\ LET d == events'[answers[q].seq].id
                                 IN  KeyOf[d] = KeyOf[q] /\ BodyOf[d] = BodyOf[q]
    BY <1>4, <1>6 DEF AnswersAreTrue
  <2>2. answers[q].status = "refused" => \A i \in 1..(n + 1) : events'[i].id # q
    <3>1. SUFFICES ASSUME answers[q].status = "refused", NEW i \in 1..(n + 1)
                   PROVE  events'[i].id # q
      OBVIOUS
    <3>2. answers[r].status = "none"
      BY <1>1, <1>3 DEF RequestsConsistent, Unanswered
    <3>3. q # r
      BY <3>1, <3>2
    <3>4. i = n + 1 \/ i \in 1..n
      BY <1>2
    <3>5. i \in 1..n => events[i].id # q
      BY <1>1, <3>1 DEF AnswersAreTrue, n
    <3>6. QED
      BY <1>6, <1>7, <3>3, <3>4, <3>5
  <2>3. answers[q].status = "ok" =>
           /\ answers[q].seq \in 1..(n + 1)
           /\ KeyOf[events'[answers[q].seq].id] = KeyOf[q]
           /\ BodyOf[events'[answers[q].seq].id] = BodyOf[q]
    <3>1. answers[q].status = "ok" =>
             /\ answers[q].seq \in 1..n
             /\ KeyOf[events[answers[q].seq].id] = KeyOf[q]
             /\ BodyOf[events[answers[q].seq].id] = BodyOf[q]
      BY <1>1 DEF AnswersAreTrue, n
    <3>2. \A i \in 1..n : i \in 1..(n + 1)
      BY <1>2
    <3>3. \A i \in 1..n : events'[i] = events[i]
      BY <1>6
    <3>4. QED
      BY <3>1, <3>2, <3>3
  <2>4. QED
    BY <2>2, <2>3
<1>11. QED
  BY <1>8, <1>9, <1>10

-----------------------------------------------------------------------------
(* The invariant is kept by every other step *)

(* The ledger's own part depends on the ledger variables only. *)
LEMMA QuietKeepsLedger ==
    ASSUME IInv, UNCHANGED ledgerVars
    PROVE  LedgerConsistent'
<1>1. LedgerConsistent
  BY DEF IInv
<1>2. UNCHANGED <<publicSeq, chain, events, checkpoints, settled, replays, openRoutes>>
  BY DEF ledgerVars
<1>3. ChainIntegrity'
  BY <1>1, <1>2 DEF LedgerConsistent, ChainIntegrity, EventsSoFar
<1>4. TransitionsOnce'
  BY <1>1, <1>2 DEF LedgerConsistent, TransitionsOnce
<1>5. QED
  BY <1>1, <1>2, <1>3, <1>4 DEF LedgerConsistent, NoReplay

(* A step inside a request that answers nobody. *)
LEMMA LocalKeeps ==
    ASSUME IInv, NEW r \in Requests,
           NEW w \in {"check", "head", "batch", "caught", "settle", "failed", "crashed"},
           pc[r] # "answered",
           w = "check" => pc[r] = "arrive",
           pc' = [pc EXCEPT ![r] = w],
           before' \in [Requests -> [seq : Nat, chain : Seq(Requests)]],
           retryCount' \in [Requests -> 0..MaxRetries],
           retryable' \in [Requests -> BOOLEAN],
           UNCHANGED <<answers, ledgerVars, authorityVars>>
    PROVE  IInv'
<1>1. TypeOK /\ RequestsConsistent /\ AnswersAreTrue
  BY DEF IInv
<1>2. LedgerConsistent'
  BY QuietKeepsLedger
<1>3. TypeOK'
  BY <1>1 DEF TypeOK, ledgerVars, authorityVars
<1>4. RequestsConsistent'
  BY <1>1 DEF RequestsConsistent, TypeOK, Unanswered, ledgerVars
<1>5. AnswersAreTrue'
  BY <1>1 DEF AnswersAreTrue, ledgerVars
<1>6. QED
  BY <1>2, <1>3, <1>4, <1>5 DEF IInv

(* The end of an invocation clears its local variables. *)
LEMMA LeaveTypes ==
    ASSUME TypeOK, NEW r \in Requests, NEW how, Leave(r, how)
    PROVE  /\ pc' = [pc EXCEPT ![r] = how]
           /\ before' \in [Requests -> [seq : Nat, chain : Seq(Requests)]]
           /\ retryCount' \in [Requests -> 0..MaxRetries]
           /\ retryable' \in [Requests -> BOOLEAN]
  BY LedgerConstants DEF Leave, Goto, Unread, TypeOK

(* A request that is answered truthfully. *)
LEMMA AnswerKeeps ==
    ASSUME IInv, NEW r \in Requests,
           NEW status \in {"ok", "conflict", "refused"}, NEW seq \in Nat,
           Answer(r, status, seq),
           status = "refused" => \A i \in 1..Len(events) : events[i].id # r,
           status = "ok" => /\ seq \in 1..Len(events)
                            /\ KeyOf[events[seq].id] = KeyOf[r]
                            /\ BodyOf[events[seq].id] = BodyOf[r],
           UNCHANGED <<ledgerVars, authorityVars>>
    PROVE  IInv'
<1>1. TypeOK /\ RequestsConsistent /\ AnswersAreTrue
  BY DEF IInv
<1>2. /\ pc' = [pc EXCEPT ![r] = "answered"]
      /\ before' \in [Requests -> [seq : Nat, chain : Seq(Requests)]]
      /\ retryCount' \in [Requests -> 0..MaxRetries]
      /\ retryable' \in [Requests -> BOOLEAN]
      /\ answers' = [answers EXCEPT ![r] = [status |-> status, seq |-> seq]]
  BY <1>1, LeaveTypes DEF Answer
<1>3. LedgerConsistent'
  BY QuietKeepsLedger
<1>4. TypeOK'
  BY <1>1, <1>2 DEF TypeOK, ledgerVars, authorityVars
<1>5. RequestsConsistent'
  BY <1>1, <1>2 DEF RequestsConsistent, TypeOK, Unanswered, ledgerVars
<1>6. AnswersAreTrue'
  <2>1. events' = events
    BY DEF ledgerVars
  <2>2. SUFFICES ASSUME NEW q \in Requests
                 PROVE  /\ answers'[q].status = "refused" => \A i \in 1..Len(events) : events[i].id # q
                        /\ answers'[q].status = "ok" =>
                              /\ answers'[q].seq \in 1..Len(events)
                              /\ LET d == events[answers'[q].seq].id
                                 IN  KeyOf[d] = KeyOf[q] /\ BodyOf[d] = BodyOf[q]
    BY <2>1 DEF AnswersAreTrue
  <2>3. CASE q = r
    BY <1>1, <1>2, <2>3 DEF TypeOK
  <2>4. CASE q # r
    <3>1. answers'[q] = answers[q]
      BY <1>1, <1>2, <2>4 DEF TypeOK
    <3>2. QED
      BY <1>1, <3>1 DEF AnswersAreTrue
  <2>5. QED
    BY <2>3, <2>4
<1>7. QED
  BY <1>3, <1>4, <1>5, <1>6 DEF IInv

(* The replay row answers truthfully: it names the event of its key, and its *)
(* digest has been compared.                                                 *)
LEMMA ReplayAnswerKeeps ==
    ASSUME IInv, NEW r \in Requests, AnswerFromReplay(r),
           UNCHANGED <<ledgerVars, authorityVars>>
    PROVE  IInv'
<1> DEFINE row == replays[KeyOf[r]]
<1>1. KeyOf[r] \in CallerKeys
  BY LedgerConstants
<1>2. row # NoReplay
  BY DEF AnswerFromReplay
<1>3. row.seq \in 1..Len(events) /\ events[row.seq].id = row.owner /\ KeyOf[row.owner] = KeyOf[r]
  BY <1>1, <1>2 DEF IInv, LedgerConsistent
<1>4. row.seq \in Nat
  BY <1>1 DEF IInv, TypeOK
<1>5. CASE BodyOf[row.owner] = BodyOf[r]
  <2>1. Answer(r, "ok", row.seq)
    BY <1>5 DEF AnswerFromReplay
  <2>2. QED
    BY <1>3, <1>4, <1>5, <2>1, AnswerKeeps
<1>6. CASE BodyOf[row.owner] # BodyOf[r]
  <2>1. Answer(r, "conflict", 0)
    BY <1>6 DEF AnswerFromReplay
  <2>2. QED
    BY <2>1, AnswerKeeps
<1>7. QED
  BY <1>5, <1>6

(* A request refused before its writer ran, or after its writer failed with  *)
(* no replay row for its key, has no event.                                  *)
LEMMA NoEventOf ==
    ASSUME IInv, NEW r \in Requests, settled[r] = 0 \/ replays[KeyOf[r]] = NoReplay
    PROVE  \A i \in 1..Len(events) : events[i].id # r
<1>1. SUFFICES ASSUME NEW i \in 1..Len(events), events[i].id = r
               PROVE  FALSE
  OBVIOUS
<1>2. settled[r] = i /\ replays[KeyOf[r]] = [owner |-> r, seq |-> i]
  BY <1>1 DEF IInv, LedgerConsistent
<1>3. r # None
  BY LedgerConstants
<1>4. QED
  BY <1>2, <1>3 DEF NoReplay

(* A request may be refused only when it has no event; then the invariant holds. *)
LEMMA RefusalKeeps ==
    ASSUME IInv, NEW r \in Requests, Answer(r, "refused", 0),
           settled[r] = 0 \/ replays[KeyOf[r]] = NoReplay,
           UNCHANGED <<ledgerVars, authorityVars>>
    PROVE  IInv'
  BY NoEventOf, AnswerKeeps

(* Every step of a request keeps the invariant. *)
LEMMA StepKeeps ==
    ASSUME IInv, NEW r \in Requests, Step(r)
    PROVE  IInv'
<1> USE LedgerConstants
<1>1. TypeOK /\ RequestsConsistent
  BY DEF IInv
<1>2. /\ before \in [Requests -> [seq : Nat, chain : Seq(Requests)]]
      /\ retryCount \in [Requests -> 0..MaxRetries]
      /\ retryable \in [Requests -> BOOLEAN]
  BY <1>1 DEF TypeOK
<1>3. ProblemHead \in [seq : Nat, chain : Seq(Requests)]
  BY <1>1 DEF TypeOK, ProblemHead
<1>4. \A w, q : Throw(q, w) /\ w \in BOOLEAN =>
         pc' = [pc EXCEPT ![q] = "caught"] /\ retryable' \in [Requests -> BOOLEAN]
  BY <1>2 DEF Throw, Goto
<1>5. Retry(r) => /\ pc' = [pc EXCEPT ![r] = "head"]
                  /\ retryCount' \in [Requests -> 0..MaxRetries]
  BY <1>2 DEF Retry, Goto
<1>6. CASE Arrive(r)
  <2>1. pc[r] = "arrive" /\ UNCHANGED <<ledgerVars, authorityVars>>
    BY <1>6 DEF Arrive
  <2>2. settled[r] = 0
    BY <1>1, <2>1 DEF RequestsConsistent
  <2>3. CASE Answer(r, "refused", 0)
    BY <2>1, <2>2, <2>3, RefusalKeeps
  <2>4. CASE AnswerFromReplay(r)
    BY <2>1, <2>4, ReplayAnswerKeeps
  <2>5. CASE Goto(r, "check") /\ Stay /\ UNCHANGED answers
    BY <1>2, <2>1, <2>5, LocalKeeps DEF Goto, Stay
  <2>6. QED
    BY <1>6, <2>3, <2>4, <2>5 DEF Arrive
<1>7. CASE CheckPreconditions(r)
  <2>1. pc[r] = "check" /\ UNCHANGED <<ledgerVars, authorityVars>>
    BY <1>7 DEF CheckPreconditions
  <2>2. settled[r] = 0
    BY <1>1, <2>1 DEF RequestsConsistent
  <2>3. CASE Answer(r, "refused", 0)
    BY <2>1, <2>2, <2>3, RefusalKeeps
  <2>4. CASE Goto(r, "head") /\ Stay /\ UNCHANGED answers
    BY <1>2, <2>1, <2>4, LocalKeeps DEF Goto, Stay
  <2>5. QED
    BY <1>7, <2>3, <2>4 DEF CheckPreconditions
<1>8. CASE ReadHead(r)
  <2>1. /\ pc[r] = "head" /\ pc' = [pc EXCEPT ![r] = "batch"]
        /\ before' = [before EXCEPT ![r] = ProblemHead]
        /\ UNCHANGED <<retryCount, retryable, answers, ledgerVars, authorityVars>>
    BY <1>8 DEF ReadHead, Goto
  <2>2. before' \in [Requests -> [seq : Nat, chain : Seq(Requests)]]
    BY <1>2, <1>3, <2>1
  <2>3. QED
    BY <1>2, <2>1, <2>2, LocalKeeps
<1>9. CASE BatchCommits(r)
  BY <1>9, CommitKeepsLedger, CommitKeepsRequests DEF IInv
<1>10. CASE BatchEventless(r)
  BY <1>2, <1>10, LocalKeeps DEF BatchEventless, Goto
<1>11. CASE BatchAborts(r)
  <2>1. /\ pc[r] = "batch"
        /\ \E w \in BOOLEAN : Throw(r, w)
        /\ UNCHANGED <<before, retryCount, answers, ledgerVars, authorityVars>>
    BY <1>11 DEF BatchAborts
  <2>2. pc' = [pc EXCEPT ![r] = "caught"] /\ retryable' \in [Requests -> BOOLEAN]
    BY <1>4, <2>1
  <2>3. QED
    BY <1>2, <2>1, <2>2, LocalKeeps
<1>12. CASE CatchBatch(r)
  <2>1. pc[r] = "caught" /\ UNCHANGED <<before, retryable, answers, ledgerVars, authorityVars>>
    BY <1>12 DEF CatchBatch
  <2>2. CASE Retry(r)
    BY <1>2, <1>5, <2>1, <2>2, LocalKeeps
  <2>3. CASE Goto(r, "failed") /\ UNCHANGED retryCount
    BY <1>2, <2>1, <2>3, LocalKeeps DEF Goto
  <2>4. QED
    BY <1>12, <2>2, <2>3 DEF CatchBatch
<1>13. CASE ReadSettlement(r)
  <2>1. pc[r] = "settle" /\ UNCHANGED <<ledgerVars, authorityVars>>
    BY <1>13 DEF ReadSettlement
  <2>2. CASE Retry(r) /\ UNCHANGED <<before, retryable, answers>>
    BY <1>2, <1>5, <2>1, <2>2, LocalKeeps
  <2>3. CASE Goto(r, "failed") /\ Stay /\ UNCHANGED answers
    BY <1>2, <2>1, <2>3, LocalKeeps DEF Goto, Stay
  <2>4. CASE AnswerFromReplay(r)
    BY <2>1, <2>4, ReplayAnswerKeeps
  <2>5. QED
    BY <1>13, <2>2, <2>3, <2>4 DEF ReadSettlement
<1>14. CASE RouteCatch(r)
  <2>1. pc[r] = "failed" /\ UNCHANGED <<ledgerVars, authorityVars>>
    BY <1>14 DEF RouteCatch
  <2>2. CASE AnswerFromReplay(r)
    BY <2>1, <2>2, ReplayAnswerKeeps
  <2>3. CASE replays[KeyOf[r]] = NoReplay /\ Answer(r, "refused", 0)
    BY <2>1, <2>3, RefusalKeeps
  <2>4. QED
    BY <1>14, <2>2, <2>3 DEF RouteCatch
<1>15. QED
  BY <1>6, <1>7, <1>8, <1>9, <1>10, <1>11, <1>12, <1>13, <1>14 DEF Step

(* Revocations, closes and leases keep the invariant. *)
LEMMA EnvironmentKeeps ==
    ASSUME IInv, Environment
    PROVE  IInv'
<1>1. TypeOK /\ RequestsConsistent /\ AnswersAreTrue
  BY DEF IInv
<1>2. CASE \E r \in Requests : Crash(r)
  <2>1. PICK r \in Requests : Crash(r)
    BY <1>2
  <2>2. pc[r] # "answered" /\ Leave(r, "crashed") /\ UNCHANGED <<answers, ledgerVars, authorityVars>>
    BY <2>1 DEF Crash
  <2>3. QED
    BY <1>1, <2>2, LeaveTypes, LocalKeeps
<1>3. CASE UNCHANGED <<ledgerVars, requestVars>> /\ live' \subseteq live /\ open' \subseteq open
                                                 /\ held' \subseteq Nat
  <2>1. LedgerConsistent'
    BY <1>3, QuietKeepsLedger
  <2>2. TypeOK'
    BY <1>1, <1>3 DEF TypeOK, ledgerVars, requestVars
  <2>3. RequestsConsistent'
    BY <1>1, <1>3 DEF RequestsConsistent, Unanswered, ledgerVars, requestVars
  <2>4. AnswersAreTrue'
    BY <1>1, <1>3 DEF AnswersAreTrue, ledgerVars, requestVars
  <2>5. QED
    BY <2>1, <2>2, <2>3, <2>4 DEF IInv
<1>4. CASE \E f \in Fellows : RevokeCredential(f) \/ CloseSession(f)
  BY <1>1, <1>3, <1>4 DEF RevokeCredential, CloseSession, TypeOK
<1>5. CASE \E c \in DOMAIN claims : TakeLease(c)
  BY <1>1, <1>3, <1>5 DEF TakeLease, TypeOK
<1>6. CASE \E c \in held : ReleaseLease(c)
  BY <1>1, <1>3, <1>6 DEF ReleaseLease, TypeOK
<1>7. QED
  BY <1>2, <1>4, <1>5, <1>6 DEF Environment

(* The invariant is inductive. *)
LEMMA NextKeeps == IInv /\ [Next]_vars => IInv'
<1>1. SUFFICES ASSUME IInv, [Next]_vars
               PROVE  IInv'
  OBVIOUS
<1>2. CASE Next
  BY <1>1, <1>2, StepKeeps, EnvironmentKeeps DEF Next
<1>3. CASE UNCHANGED vars
  <2>1. UNCHANGED <<ledgerVars, authorityVars, requestVars>>
    BY <1>3 DEF vars, ledgerVars, authorityVars, requestVars
  <2>2. LedgerConsistent'
    BY <1>1, <2>1, QuietKeepsLedger
  <2>3. TypeOK'
    BY <1>1, <2>1 DEF IInv, TypeOK, ledgerVars, authorityVars, requestVars
  <2>4. RequestsConsistent'
    BY <1>1, <2>1 DEF IInv, RequestsConsistent, Unanswered, ledgerVars, requestVars
  <2>5. AnswersAreTrue'
    BY <1>1, <2>1 DEF IInv, AnswersAreTrue, ledgerVars, requestVars
  <2>6. QED
    BY <2>2, <2>3, <2>4, <2>5 DEF IInv
<1>4. QED
  BY <1>1, <1>2, <1>3

(* The invariant holds initially. *)
LEMMA InitHolds == Init => IInv
<1> USE LedgerConstants
<1>1. SUFFICES ASSUME Init
               PROVE  IInv
  OBVIOUS
<1>2. Len(events) = 0 /\ 1..Len(events) = {}
  BY <1>1 DEF Init
<1>3. TypeOK
  <2>1. chain \in Seq(Requests) /\ checkpoints \in Seq(Seq(Requests))
    BY <1>1 DEF Init
  <2>2. events \in Seq([id : Requests, object : Nat, version : Nat, chain : Seq(Requests)])
    BY <1>1 DEF Init
  <2>3. before \in [Requests -> [seq : Nat, chain : Seq(Requests)]]
    BY <1>1 DEF Init, Unread
  <2>4. replays \in [CallerKeys -> [owner : Requests \cup {None}, seq : Nat]]
    BY <1>1 DEF Init, NoReplay
  <2>5. answers \in [Requests -> [status : {"none", "ok", "conflict", "refused"}, seq : Nat]]
    BY <1>1 DEF Init, Unanswered
  <2>6. DOMAIN claims = {}
    BY <1>1 DEF Init
  <2>7. QED
    BY <1>1, <2>1, <2>2, <2>3, <2>4, <2>5, <2>6 DEF Init, TypeOK
<1>4. ChainIntegrity
  BY <1>1, <1>2 DEF Init, ChainIntegrity, EventsSoFar
<1>5. LedgerConsistent
  BY <1>1, <1>2, <1>4 DEF Init, LedgerConsistent, TransitionsOnce
<1>6. RequestsConsistent /\ AnswersAreTrue
  BY <1>1 DEF Init, RequestsConsistent, AnswersAreTrue, Unanswered
<1>7. QED
  BY <1>3, <1>5, <1>6 DEF IInv

-----------------------------------------------------------------------------
(* What follows for every behaviour *)

(* The inductive invariant holds throughout. *)
THEOREM Consistency == Spec => []IInv
  BY InitHolds, NextKeeps, PTL DEF Spec

(* Type correctness of the ledger and of every request's local state. *)
THEOREM TypeCorrectness == Spec => []TypeOK
<1>1. IInv => TypeOK
  BY DEF IInv
<1>2. QED
  BY <1>1, Consistency, PTL

(* The chain hashes exactly the published events, in order. *)
THEOREM ChainCorrectness == Spec => []ChainIntegrity
<1>1. IInv => ChainIntegrity
  BY DEF IInv, LedgerConsistent
<1>2. QED
  BY <1>1, Consistency, PTL

(* One Idempotency-Key never gets two events. *)
THEOREM AtMostOneEventPerKey == Spec => []ExactlyOnce
<1>1. IInv => ExactlyOnce
  <2>1. SUFFICES ASSUME IInv, NEW i \in 1..Len(events), NEW j \in 1..Len(events),
                        KeyOf[events[i].id] = KeyOf[events[j].id]
                 PROVE  i = j
    BY DEF ExactlyOnce
  <2>2. /\ replays[KeyOf[events[i].id]] = [owner |-> events[i].id, seq |-> i]
        /\ replays[KeyOf[events[j].id]] = [owner |-> events[j].id, seq |-> j]
    BY <2>1 DEF IInv, LedgerConsistent
  <2>3. QED
    BY <2>1, <2>2
<1>2. QED
  BY <1>1, Consistency, PTL

(* Events and sealed responses exist together, or not at all. *)
THEOREM ReplaysAreAtomic == Spec => []ReplayMatchesEvent
<1>1. IInv => ReplayMatchesEvent
  <2>1. SUFFICES ASSUME IInv
                 PROVE  ReplayMatchesEvent
    OBVIOUS
  <2>2. \A i \in 1..Len(events) : replays[KeyOf[events[i].id]] # NoReplay
    <3>1. TAKE i \in 1..Len(events)
    <3>2. replays[KeyOf[events[i].id]] = [owner |-> events[i].id, seq |-> i]
      BY <2>1 DEF IInv, LedgerConsistent
    <3>3. QED
      BY <3>2 DEF NoReplay
  <2>3. QED
    BY <2>1, <2>2 DEF IInv, LedgerConsistent, ReplayMatchesEvent
<1>2. QED
  BY <1>1, Consistency, PTL

(* No caller is told something that is not so. *)
THEOREM TruthfulAnswers == Spec => []AnswersAreTrue
<1>1. IInv => AnswersAreTrue
  BY DEF IInv
<1>2. QED
  BY <1>1, Consistency, PTL

(* A hypothesis is killed by at most one event. *)
THEOREM OneKillPerRoute == Spec => []TransitionsOnce
<1>1. IInv => TransitionsOnce
  BY DEF IInv, LedgerConsistent
<1>2. QED
  BY <1>1, Consistency, PTL

(* Only a commit settles a request, and it settles only that request.        *)
LEMMA SettledByCommit ==
    ASSUME IInv, [Next]_vars, NEW r \in Requests, settled[r] = 0, settled'[r] # 0
    PROVE  BatchCommits(r)
<1>1. settled \in [Requests -> Nat]
  BY DEF IInv, TypeOK
<1>2. settled' # settled
  OBVIOUS
<1>3. PICK q \in Requests : BatchCommits(q)
  BY <1>2 DEF Next, Step, Environment, Arrive, CheckPreconditions, ReadHead, BatchEventless,
              BatchAborts, CatchBatch, ReadSettlement, RouteCatch, Crash, RevokeCredential,
              CloseSession, TakeLease, ReleaseLease, ledgerVars, vars
<1>4. settled' = [settled EXCEPT ![q] = Len(events) + 1]
  BY <1>3, CommitEffect
<1>5. QED
  BY <1>1, <1>3, <1>4

(* Authority is checked at the commit, not only at the door. *)
THEOREM AuthorityHoldsAtCommit == Spec => AuthorityAtCommit
<1>1. IInv /\ [Next]_vars =>
        [\A r \in Requests :
          settled[r] = 0 /\ settled'[r] # 0 =>
              /\ Author(r) \in live
              /\ Author(r) \in open
              /\ BodyOf[r].op = "revise" => BodyOf[r].object \notin held]_vars
  BY SettledByCommit, CommitFacts
<1>2. QED
  BY <1>1, Consistency, PTL DEF Spec, AuthorityAtCommit

-----------------------------------------------------------------------------
(* The versions of a claim *)

(* Claims are named after the event that creates them, and every event about *)
(* a claim is about one that exists.                                         *)
ClaimsStand ==
    /\ DOMAIN claims \subseteq 1..Len(events)
    /\ \A i \in 1..Len(events) :
          BodyOf[events[i].id].op # "transition" => events[i].object \in DOMAIN claims
    /\ VersionsFollowTheirBase

(* What a commit does to the claims: nothing, a new claim under the sequence *)
(* of its event, or the next version of the version it was based on.         *)
LEMMA CommitClaims ==
    ASSUME IInv, NEW r \in Requests, BatchCommits(r)
    PROVE  LET n == Len(events)
               op == BodyOf[r].op
               c == EventObject(r)
           IN  /\ op = "transition" => claims' = claims
               /\ op # "transition" =>
                     /\ DOMAIN claims' = DOMAIN claims \cup {c}
                     /\ \A x \in DOMAIN claims \ {c} : claims'[x] = claims[x]
                     /\ claims'[c].author = Author(r) /\ claims'[c].version = EventVersion(r)
                     /\ claims'[c].source = n + 1
               /\ op = "create" => c = n + 1 /\ EventVersion(r) = 1
               /\ op = "revise" => /\ c \in DOMAIN claims /\ claims[c].author = Author(r)
                                   /\ EventVersion(r) = claims[c].version + 1
               /\ op \in {"create", "revise", "transition"}
<1>1. before[r].seq = Len(events)
  BY CommitFacts DEF ProblemHead, IInv, LedgerConsistent, ChainIntegrity
<1>2. ProjectEvent(r)
  BY DEF BatchCommits, CommitEvent
<1>3. BodyOf[r].op \in {"create", "revise", "transition"}
  BY LedgerConstants
<1>4. ASSUME BodyOf[r].op # "transition"
      PROVE  LET c == EventObject(r) IN
             /\ DOMAIN claims' = DOMAIN claims \cup {c}
             /\ \A x \in DOMAIN claims \ {c} : claims'[x] = claims[x]
             /\ claims'[c].author = Author(r) /\ claims'[c].version = EventVersion(r)
             /\ claims'[c].source = Len(events) + 1
  BY <1>1, <1>2, <1>4 DEF ProjectEvent, ClaimHead
<1>5. BodyOf[r].op = "revise" => Admissible(r)
  BY DEF BatchCommits, Eventless
<1>6. BodyOf[r].op = "revise" => /\ EventObject(r) \in DOMAIN claims
                                 /\ claims[EventObject(r)].author = Author(r)
                                 /\ EventVersion(r) = claims[EventObject(r)].version + 1
  BY <1>5 DEF Admissible, EventObject, EventVersion
<1>7. BodyOf[r].op = "transition" => claims' = claims
  BY <1>2 DEF ProjectEvent
<1>8. BodyOf[r].op = "create" => EventObject(r) = Len(events) + 1 /\ EventVersion(r) = 1
  BY <1>1 DEF EventObject, EventVersion
<1> QED
  BY <1>3, <1>4, <1>6, <1>7, <1>8

LEMMA CommitKeepsClaims ==
    ASSUME IInv, ClaimsStand, NEW r \in Requests, BatchCommits(r)
    PROVE  ClaimsStand'
<1> DEFINE n == Len(events)
           c == EventObject(r)
           v == EventVersion(r)
           e == [id |-> r, object |-> c, version |-> v, chain |-> Append(chain, r)]
           op == BodyOf[r].op
<1>1. /\ events \in Seq([id : Requests, object : Nat, version : Nat, chain : Seq(Requests)])
      /\ n \in Nat /\ events' = Append(events, e)
      /\ e \in [id : Requests, object : Nat, version : Nat, chain : Seq(Requests)]
  BY CommitEffect DEF IInv, TypeOK
<1>2. e.id = r /\ e.object = c /\ e.version = v /\ v \in Nat
  BY <1>1
<1>3. /\ op = "transition" => claims' = claims
      /\ op # "transition" =>
            /\ DOMAIN claims' = DOMAIN claims \cup {c}
            /\ \A x \in DOMAIN claims \ {c} : claims'[x] = claims[x]
            /\ claims'[c].author = Author(r) /\ claims'[c].version = v
            /\ claims'[c].source = n + 1
      /\ op = "create" => c = n + 1 /\ v = 1
      /\ op = "revise" => c \in DOMAIN claims /\ claims[c].author = Author(r) /\ v = claims[c].version + 1
      /\ op \in {"create", "revise", "transition"}
  BY CommitClaims
<1> HIDE DEF e, c, v
<1>4. /\ Len(events') = n + 1 /\ events'[n + 1] = e
      /\ \A i \in 1..n : events'[i] = events[i]
  BY <1>1, EventsSoFarAppend
<1>5. \A i \in 1..n : events[i].version \in Nat
  <2>1. \A i \in 1..n : events[i] \in [id : Requests, object : Nat, version : Nat, chain : Seq(Requests)]
    BY <1>1, ElementOfSeq
  <2> QED
    BY <2>1
<1>6. /\ DOMAIN claims \subseteq 1..n
      /\ \A i \in 1..n : BodyOf[events[i].id].op # "transition" => events[i].object \in DOMAIN claims
      /\ VersionsFollowTheirBase
  BY DEF ClaimsStand
<1>7. DOMAIN claims' \subseteq 1..(n + 1) /\ n + 1 \in 1..(n + 1)
  BY <1>1, <1>3, <1>6
<1>8. ASSUME NEW i \in 1..(n + 1), BodyOf[events'[i].id].op # "transition"
      PROVE  events'[i].object \in DOMAIN claims'
  <2>1. CASE i = n + 1
    BY <1>2, <1>3, <1>4, <1>8, <2>1
  <2>2. CASE i \in 1..n
    BY <1>3, <1>4, <1>6, <1>8, <2>2
  <2> QED
    BY <1>1, <2>1, <2>2
\* The events about a claim: those there were, and perhaps the new one.
<1>9. ASSUME NEW x
      PROVE  ClaimEvents(x)' = IF op # "transition" /\ c = x THEN ClaimEvents(x) \cup {n + 1}
                               ELSE ClaimEvents(x)
  <2>1. \A i \in 1..(n + 1) : i \in 1..n \/ i = n + 1
    BY <1>1
  <2>2. \A i \in 1..n : i \in 1..(n + 1) /\ i # n + 1
    BY <1>1
  <2>3. \A i \in 1..n : i \in ClaimEvents(x)' <=> i \in ClaimEvents(x)
    BY <1>4, <2>2 DEF ClaimEvents
  <2>4. n + 1 \in ClaimEvents(x)' <=> op # "transition" /\ c = x
    BY <1>2, <1>4, <1>7 DEF ClaimEvents
  <2>5. ClaimEvents(x) \subseteq 1..n /\ ClaimEvents(x)' \subseteq 1..(n + 1)
    BY <1>4 DEF ClaimEvents
  <2> QED
    BY <2>1, <2>2, <2>3, <2>4, <2>5
<1>10. \A x : ClaimEvents(x) \subseteq 1..n
  BY DEF ClaimEvents
<1>11. ASSUME NEW x \in DOMAIN claims'
       PROVE  /\ \A i \in ClaimEvents(x)' :
                    LET earlier == {j \in ClaimEvents(x)' : j < i} IN
                    /\ \A j \in earlier : events'[j].version < events'[i].version
                    /\ events'[i].version > 1 =>
                          \E j \in earlier : events'[j].version + 1 = events'[i].version
                    /\ Author(events'[i].id) = claims'[x].author
              /\ claims'[x].source \in ClaimEvents(x)'
              /\ \A i \in ClaimEvents(x)' : i <= claims'[x].source
              /\ claims'[x].version = events'[claims'[x].source].version
  <2>1. CASE op = "transition" \/ x # c
    <3>1. /\ x \in DOMAIN claims /\ claims'[x] = claims[x] /\ ClaimEvents(x)' = ClaimEvents(x)
      BY <1>3, <1>9, <1>11, <2>1
    <3>2. \A i \in ClaimEvents(x) : events'[i] = events[i]
      BY <1>4, <1>10
    <3> QED
      BY <1>6, <3>1, <3>2 DEF VersionsFollowTheirBase
  <2>2. CASE op = "create" /\ x = c
    <3>1. ClaimEvents(x) = {}
      <4>1. n + 1 \notin DOMAIN claims
        BY <1>1, <1>6
      <4> QED
        BY <1>3, <1>6, <2>2, <4>1 DEF ClaimEvents
    <3>2. ClaimEvents(x)' = {n + 1}
      BY <1>9, <2>2, <3>1
    <3> QED
      BY <1>1, <1>2, <1>3, <1>4, <2>2, <3>2
  <2>3. CASE op = "revise" /\ x = c
    <3> DEFINE last == claims[x].source
    <3>1. /\ \A i \in ClaimEvents(x) :
                LET earlier == {j \in ClaimEvents(x) : j < i} IN
                /\ \A j \in earlier : events[j].version < events[i].version
                /\ events[i].version > 1 => \E j \in earlier : events[j].version + 1 = events[i].version
                /\ Author(events[i].id) = claims[x].author
          /\ last \in ClaimEvents(x) /\ \A i \in ClaimEvents(x) : i <= last
          /\ claims[x].version = events[last].version
      BY <1>3, <1>6, <2>3 DEF VersionsFollowTheirBase
    <3> HIDE DEF last
    <3>2. ClaimEvents(x)' = ClaimEvents(x) \cup {n + 1} /\ last \in 1..n
      BY <1>9, <1>10, <2>3, <3>1
    <3>3. \A i \in ClaimEvents(x) : i \in 1..n /\ events'[i] = events[i]
      BY <1>4, <1>10
    <3>4. \A i \in ClaimEvents(x) : events[i].version < v
      <4>1. TAKE i \in ClaimEvents(x)
      <4>2. i = last \/ i < last
        <5>1. i \in 1..n /\ last \in 1..n
          BY <3>2, <3>3
        <5>2. i <= last
          BY <3>1
        <5>3. i \in Int /\ last \in Int
          BY <5>1
        <5> QED
          BY <5>2, <5>3
      <4>3. i < last => events[i].version < events[last].version
        BY <3>1
      <4>4. events[i].version \in Nat /\ events[last].version \in Nat
        BY <1>5, <3>2, <3>3
      <4>5. v = events[last].version + 1
        BY <1>3, <2>3, <3>1
      <4> QED
        BY <4>2, <4>3, <4>4, <4>5
    <3>5. claims'[x].author = Author(r) /\ claims[x].author = Author(r) /\ claims'[x].version = v
          /\ claims'[x].source = n + 1 /\ v = events[last].version + 1
      BY <1>3, <2>3, <3>1
    <3>6. ASSUME NEW i \in ClaimEvents(x)'
          PROVE  LET earlier == {j \in ClaimEvents(x)' : j < i} IN
                 /\ \A j \in earlier : events'[j].version < events'[i].version
                 /\ events'[i].version > 1 =>
                       \E j \in earlier : events'[j].version + 1 = events'[i].version
                 /\ Author(events'[i].id) = claims'[x].author
      <4>1. CASE i = n + 1
        <5>1. events'[i] = e
          BY <1>4, <4>1
        <5>2. \A j \in ClaimEvents(x)' : j < i => j \in ClaimEvents(x)
          BY <1>1, <3>2, <4>1
        <5>3. last \in ClaimEvents(x)' /\ last < i
          BY <1>1, <3>1, <3>2, <4>1
        <5> QED
          BY <1>2, <3>1, <3>3, <3>4, <3>5, <5>1, <5>2, <5>3
      <4>2. CASE i \in ClaimEvents(x)
        <5>1. {j \in ClaimEvents(x)' : j < i} = {j \in ClaimEvents(x) : j < i}
          BY <1>1, <3>2, <3>3, <4>2
        <5> QED
          BY <3>1, <3>3, <3>5, <4>2, <5>1
      <4> QED
        BY <3>2, <4>1, <4>2
    <3>7. \A i \in ClaimEvents(x)' : i <= n + 1
      BY <1>1, <3>2, <3>3
    <3> QED
      BY <1>2, <1>4, <2>3, <3>2, <3>5, <3>6, <3>7
  <2> QED
    BY <1>3, <2>1, <2>2, <2>3
<1> QED
  BY <1>4, <1>7, <1>8, <1>11 DEF ClaimsStand, VersionsFollowTheirBase

LEMMA NextKeepsClaims == IInv /\ ClaimsStand /\ [Next]_vars => ClaimsStand'
<1> SUFFICES ASSUME IInv, ClaimsStand, [Next]_vars
             PROVE  ClaimsStand'
  OBVIOUS
<1>1. CASE \E r \in Requests : BatchCommits(r)
  BY <1>1, CommitKeepsClaims
<1>2. CASE ~\E r \in Requests : BatchCommits(r)
  <2>1. UNCHANGED <<events, claims>>
    BY <1>2 DEF Next, Step, Environment, Arrive, CheckPreconditions, ReadHead, BatchEventless,
                BatchAborts, CatchBatch, ReadSettlement, RouteCatch, Crash, RevokeCredential,
                CloseSession, TakeLease, ReleaseLease, ledgerVars, vars
  <2> QED
    BY <2>1 DEF ClaimsStand, VersionsFollowTheirBase, ClaimEvents
<1> QED
  BY <1>1, <1>2

(* Two revisions of one base never both succeed: the versions of a claim are *)
(* minted one after another by its author, and its row stands at the last.   *)
THEOREM RevisionsFollow == Spec => []VersionsFollowTheirBase
<1>1. Init => ClaimsStand
  <2> SUFFICES ASSUME Init
               PROVE  ClaimsStand
    OBVIOUS
  <2>1. DOMAIN claims = {} /\ 1..Len(events) = {}
    BY DEF Init
  <2> QED
    BY <2>1 DEF ClaimsStand, VersionsFollowTheirBase
<1>2. ClaimsStand => VersionsFollowTheirBase
  BY DEF ClaimsStand
<1> QED
  BY <1>1, <1>2, NextKeepsClaims, Consistency, PTL DEF Spec

-----------------------------------------------------------------------------
(* The writers implement the append-only log *)

(* The abstract log of a consistent ledger is its chain. *)
LEMMA LogIsChain ==
    ASSUME IInv
    PROVE  /\ EventsSoFar(Len(events)) = chain
           /\ Len(chain) = Len(events)
           /\ \A i \in 1..Len(events) : chain[i] = events[i].id
<1>1. chain = EventsSoFar(Len(events)) /\ Len(events) \in Nat
  BY DEF IInv, LedgerConsistent, ChainIntegrity, TypeOK
<1>2. chain = [i \in 1..Len(events) |-> events[i].id]
  BY <1>1 DEF EventsSoFar
<1>3. chain \in Seq(Requests)
  BY DEF IInv, TypeOK
<1>4. Len(chain) = Len(events)
  BY <1>1, <1>2, <1>3
<1>5. QED
  BY <1>1, <1>2, <1>4

(* An answer taken from the replay row is an acknowledgement or a conflict.  *)
LEMMA ReplayAnswerRefines ==
    ASSUME IInv, NEW r \in Requests, pc[r] # "answered", AnswerFromReplay(r),
           chain' = chain
    PROVE  LET log == chain
           IN  /\ answers[r] = Unanswered
               /\ \E i \in 1..Len(log) :
                    /\ KeyOf[log[i]] = KeyOf[r]
                    /\ \/ /\ BodyOf[log[i]] = BodyOf[r]
                          /\ answers' = [answers EXCEPT ![r] = [status |-> "ok", seq |-> i]]
                       \/ /\ BodyOf[log[i]] # BodyOf[r]
                          /\ answers' = [answers EXCEPT ![r] = [status |-> "conflict", seq |-> 0]]
<1> DEFINE row == replays[KeyOf[r]]
<1>1. KeyOf[r] \in CallerKeys
  BY LedgerConstants
<1>2. row # NoReplay
  BY DEF AnswerFromReplay
<1>3. row.seq \in 1..Len(events) /\ events[row.seq].id = row.owner /\ KeyOf[row.owner] = KeyOf[r]
  BY <1>1, <1>2 DEF IInv, LedgerConsistent
<1>4. row.seq \in 1..Len(chain) /\ chain[row.seq] = row.owner
  BY <1>3, LogIsChain
<1>5. answers[r] = Unanswered
  BY DEF IInv, RequestsConsistent
<1>6. \/ /\ BodyOf[row.owner] = BodyOf[r]
         /\ answers' = [answers EXCEPT ![r] = [status |-> "ok", seq |-> row.seq]]
      \/ /\ BodyOf[row.owner] # BodyOf[r]
         /\ answers' = [answers EXCEPT ![r] = [status |-> "conflict", seq |-> 0]]
  BY DEF AnswerFromReplay, Answer
<1>7. QED
  BY <1>3, <1>4, <1>5, <1>6

(* Every step maps to a step of the log or leaves it unchanged. *)
LEMMA StepRefines ==
    ASSUME IInv, IInv', NEW r \in Requests, Step(r)
    PROVE  Log!Next \/ UNCHANGED Log!vars
<1> USE LedgerConstants
<1>1. EventsSoFar(Len(events)) = chain /\ EventsSoFar(Len(events))' = chain'
  <2>1. EventsSoFar(Len(events)) = chain
    BY LogIsChain
  <2>2. chain' = EventsSoFar(Len(events))'
    BY DEF IInv, LedgerConsistent, ChainIntegrity
  <2>3. QED
    BY <2>1, <2>2
<1>2. ASSUME chain' = chain, answers' = answers
      PROVE  UNCHANGED Log!vars
  BY <1>1, <1>2 DEF Log!vars
<1>3. ASSUME pc[r] # "answered", AnswerFromReplay(r), chain' = chain
      PROVE  Log!Next
  <2>1. Log!Acknowledge(r) \/ Log!Conflict(r)
    BY <1>1, <1>3, ReplayAnswerRefines DEF Log!Acknowledge, Log!Conflict, Log!Unanswered, Unanswered
  <2>2. QED
    BY <2>1 DEF Log!Next
<1>4. ASSUME pc[r] # "answered", Answer(r, "refused", 0), chain' = chain,
             settled[r] = 0 \/ replays[KeyOf[r]] = NoReplay
      PROVE  Log!Next
  <2>1. \A i \in 1..Len(chain) : chain[i] # r
    BY <1>4, NoEventOf, LogIsChain
  <2>2. answers[r] = Unanswered
    BY <1>4 DEF IInv, RequestsConsistent
  <2>3. answers' = [answers EXCEPT ![r] = [status |-> "refused", seq |-> 0]]
    BY <1>4 DEF Answer
  <2>4. Log!Refuse(r)
    BY <1>1, <1>4, <2>1, <2>2, <2>3 DEF Log!Refuse, Log!Unanswered, Unanswered
  <2>5. QED
    BY <2>4 DEF Log!Next
<1>5. CASE BatchCommits(r)
  <2>1. chain' = Append(chain, r) /\ answers' = answers
    BY <1>5, CommitEffect DEF BatchCommits
  <2>2. \A i \in 1..Len(chain) : KeyOf[chain[i]] # KeyOf[r]
    <3>1. SUFFICES ASSUME NEW i \in 1..Len(events), KeyOf[events[i].id] = KeyOf[r]
                   PROVE  FALSE
      BY LogIsChain
    <3>2. replays[KeyOf[r]] = [owner |-> events[i].id, seq |-> i]
      BY <3>1 DEF IInv, LedgerConsistent
    <3>3. replays[KeyOf[r]] = NoReplay
      BY <1>5, CommitFacts
    <3>4. QED
      BY <3>2, <3>3 DEF NoReplay
  <2>3. Log!Publish(r)
    BY <1>1, <2>1, <2>2 DEF Log!Publish
  <2>4. QED
    BY <2>3 DEF Log!Next
<1>6. CASE Arrive(r)
  <2>1. /\ pc[r] = "arrive" /\ chain' = chain
        /\ Answer(r, "refused", 0) \/ AnswerFromReplay(r) \/ UNCHANGED answers
    BY <1>6 DEF Arrive, ledgerVars
  <2>2. settled[r] = 0
    BY <2>1 DEF IInv, RequestsConsistent
  <2>3. QED
    BY <1>2, <1>3, <1>4, <2>1, <2>2
<1>7. CASE CheckPreconditions(r)
  <2>1. /\ pc[r] = "check" /\ chain' = chain
        /\ Answer(r, "refused", 0) \/ UNCHANGED answers
    BY <1>7 DEF CheckPreconditions, ledgerVars
  <2>2. settled[r] = 0
    BY <2>1 DEF IInv, RequestsConsistent
  <2>3. QED
    BY <1>2, <1>4, <2>1, <2>2
<1>8. CASE ReadSettlement(r)
  <2>1. /\ pc[r] = "settle" /\ chain' = chain
        /\ AnswerFromReplay(r) \/ UNCHANGED answers
    BY <1>8 DEF ReadSettlement, ledgerVars
  <2>2. QED
    BY <1>2, <1>3, <2>1
<1>9. CASE RouteCatch(r)
  <2>1. /\ pc[r] = "failed" /\ chain' = chain
        /\ \/ AnswerFromReplay(r)
           \/ replays[KeyOf[r]] = NoReplay /\ Answer(r, "refused", 0)
    BY <1>9 DEF RouteCatch, ledgerVars
  <2>2. QED
    BY <1>3, <1>4, <2>1
<1>10. CASE ReadHead(r) \/ BatchEventless(r) \/ BatchAborts(r) \/ CatchBatch(r)
  <2>1. chain' = chain /\ answers' = answers
    BY <1>10 DEF ReadHead, BatchEventless, BatchAborts, CatchBatch, ledgerVars
  <2>2. QED
    BY <1>2, <2>1
<1>11. QED
  BY <1>5, <1>6, <1>7, <1>8, <1>9, <1>10 DEF Step

(* Every behaviour of the writers is a behaviour of AppendLog. *)
THEOREM LedgerRefinesLog == Spec => ImplementsAppendLog
<1>1. Init => Log!Init
  <2>1. SUFFICES ASSUME Init
                 PROVE  Log!Init
    OBVIOUS
  <2>2. EventsSoFar(Len(events)) = <<>>
    <3>1. IInv
      BY <2>1, InitHolds
    <3>2. chain = <<>>
      BY <2>1 DEF Init
    <3>3. QED
      BY <3>1, <3>2, LogIsChain
  <2>3. QED
    BY <2>1, <2>2 DEF Init, Log!Init, Log!Unanswered, Unanswered
<1>2. IInv /\ IInv' /\ [Next]_vars => [Log!Next]_(Log!vars)
  <2>1. SUFFICES ASSUME IInv, IInv', [Next]_vars
                 PROVE  Log!Next \/ UNCHANGED Log!vars
    OBVIOUS
  <2>2. CASE \E r \in Requests : Step(r)
    BY <2>1, <2>2, StepRefines
  <2>3. ASSUME events' = events, answers' = answers
        PROVE  UNCHANGED Log!vars
    BY <2>3 DEF Log!vars, EventsSoFar
  <2>4. CASE Environment
    BY <2>3, <2>4 DEF Environment, Crash, RevokeCredential, CloseSession, TakeLease,
                      ReleaseLease, ledgerVars, requestVars
  <2>5. CASE UNCHANGED vars
    BY <2>3, <2>5 DEF vars
  <2>6. QED
    BY <2>1, <2>2, <2>4, <2>5 DEF Next
<1>3. QED
  BY <1>1, <1>2, Consistency, PTL DEF Spec, ImplementsAppendLog, Log!Spec
=============================================================================
