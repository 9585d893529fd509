----------------------- MODULE KraterLedgerProperties -----------------------
(***************************************************************************)
(* What the writers of KraterLedger guarantee, however their requests      *)
(* interleave, retry, crash or lose a response.                            *)
(***************************************************************************)
EXTENDS KraterLedger

EventsSoFar(n) == [i \in 1..n |-> events[i].id]

(* Every variable holds a value of its kind. *)
TypeOK ==
    /\ publicSeq \in Nat
    /\ chain \in Seq(Requests)
    /\ events \in Seq([id : Requests, object : Nat, version : Nat, chain : Seq(Requests)])
    /\ checkpoints \in Seq(Seq(Requests))
    /\ settled \in [Requests -> Nat]
    /\ replays \in [CallerKeys -> [owner : Requests \cup {None}, seq : Nat]]
    /\ DOMAIN claims \subseteq Nat
    /\ openRoutes \subseteq Routes
    /\ outbox \subseteq Nat
    /\ publicCursor \in Nat
    /\ live \subseteq Fellows
    /\ open \subseteq Fellows
    /\ held \subseteq Nat
    /\ pc \in [Requests -> {"arrive", "check", "head", "batch", "caught", "settle", "failed",
                            "answered", "crashed"}]
    /\ before \in [Requests -> [seq : Nat, chain : Seq(Requests)]]
    /\ retryCount \in [Requests -> 0..MaxRetries]
    /\ retryable \in [Requests -> BOOLEAN]
    /\ answers \in [Requests -> [status : {"none", "ok", "conflict", "refused"}, seq : Nat]]

(* The head, every event and every checkpoint carry the digest of exactly    *)
(* the events up to them: no writer ever hashed a stale predecessor into the *)
(* chain (UPDATE problems ... WHERE public_seq = ? AND chain_digest = ?).    *)
ChainIntegrity ==
    /\ publicSeq = Len(events)
    /\ Len(checkpoints) = Len(events)
    /\ chain = EventsSoFar(Len(events))
    /\ \A n \in 1..Len(events) :
          /\ events[n].chain = EventsSoFar(n)
          /\ checkpoints[n] = events[n].chain

(* However many requests carry one Idempotency-Key, and however often each   *)
(* of them retries an attempt whose response was lost, the ledger holds at   *)
(* most one event for it (the replay-row ownership of the companion).        *)
ExactlyOnce ==
    \A i, j \in 1..Len(events) : KeyOf[events[i].id] = KeyOf[events[j].id] => i = j

(* The replay row of a caller key exists exactly when its event does, and    *)
(* its sealed response names that event: a response is never sealed for an   *)
(* event that rolled back, and no event is left without its response.        *)
ReplayMatchesEvent ==
    /\ \A k \in CallerKeys :
          LET row == replays[k] IN
          row # NoReplay => /\ row.seq \in 1..Len(events)
                            /\ events[row.seq].id = row.owner
                            /\ KeyOf[row.owner] = k
    /\ \A i \in 1..Len(events) : replays[KeyOf[events[i].id]] # NoReplay

(* A request that was told "no" has nothing on the ledger, and one that was  *)
(* told "ok" was told the place of an event with its own key and body.       *)
AnswersAreTrue ==
    \A r \in Requests :
        /\ answers[r].status = "refused" => \A i \in 1..Len(events) : events[i].id # r
        /\ answers[r].status = "ok" =>
              /\ answers[r].seq \in 1..Len(events)
              /\ LET e == events[answers[r].seq].id
                 IN  KeyOf[e] = KeyOf[r] /\ BodyOf[e] = BodyOf[r]

ClaimEvents(c) == {i \in 1..Len(events) : BodyOf[events[i].id].op # "transition"
                                          /\ events[i].object = c}

(* The versions of a claim are minted one after another, each by its author  *)
(* from exactly the version before it, and the claims row stands at the last *)
(* one: two revisions of one base never both succeed (claimRevisionProjection *)
(* re-reads MAX(version) inside the batch).                                  *)
VersionsFollowTheirBase ==
    \A c \in DOMAIN claims :
        /\ \A i \in ClaimEvents(c) :
              LET earlier == {j \in ClaimEvents(c) : j < i} IN
              /\ \A j \in earlier : events[j].version < events[i].version
              /\ events[i].version > 1 => \E j \in earlier : events[j].version + 1 = events[i].version
              /\ Author(events[i].id) = claims[c].author
        /\ claims[c].source \in ClaimEvents(c)
        /\ \A i \in ClaimEvents(c) : i <= claims[c].source
        /\ claims[c].version = events[claims[c].source].version

(* A route is killed by at most one event (the precondition of the guarded   *)
(* transition is evaluated in the transaction that publishes it).            *)
TransitionsOnce ==
    \A i, j \in 1..Len(events) :
        /\ BodyOf[events[i].id].op = "transition"
        /\ BodyOf[events[j].id].op = "transition"
        /\ events[i].object = events[j].object
        => i = j

(* Nothing is published for a Fellow whose credential has been revoked or    *)
(* whose session has been closed by the time of the commit, nor over another *)
(* Fellow's exclusive lease, however long ago the route checked them.        *)
AuthorityAtCommit ==
    [][\A r \in Requests :
          settled[r] = 0 /\ settled'[r] # 0 =>
              /\ Author(r) \in live
              /\ Author(r) \in open
              /\ BodyOf[r].op = "revise" => BodyOf[r].object \notin held]_vars

(* Every request that arrives and whose invocation survives is answered,     *)
(* whatever its rivals do: the bounded retry loop always leaves.             *)
EveryRequestAnswered ==
    \A r \in Requests : (pc[r] # "arrive") ~> (pc[r] \in {"answered", "crashed"})

(* The writers implement the append-only log with one entry per key. *)
Log == INSTANCE AppendLog WITH log <- EventsSoFar(Len(events))

ImplementsAppendLog == Log!Spec
=============================================================================
