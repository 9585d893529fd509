--------------------------- MODULE GapSettlement ---------------------------
(***************************************************************************)
(* One-shot settlements of ledger objects: filing a proof gap and settling *)
(* it as closed-by or withdrawn (writeGapEvent), and disputing an asserted *)
(* relation (writeRelationDisputeEvent), with the routes that call them.   *)
(*                                                                         *)
(* These writers differ from the guarded ones of KraterLedger: the         *)
(* statement that elects the sequence does not depend on the object being  *)
(* open.  It bumps the head whenever the head is the one the attempt read, *)
(* and only the statements after it are guarded by the attempt owning the  *)
(* transition.                                                             *)
(***************************************************************************)
EXTENDS Integers, Sequences

CONSTANTS
    Requests,     \* HTTP requests, one Idempotency-Key and one event id each
    OpOf,         \* "file", "closed-by", "withdrawn" or "disputed"
    ObjectOf,     \* the gap or relation a settlement is about
    CreatedAt,    \* the millisecond at which the route calls the writer
    Opened,       \* objects 1..Opened were filed or asserted beforehand
    MaxRetries,   \* MAX_CHAIN_RETRIES
    None          \* no request

ASSUME SettlementConstants ==
    /\ OpOf \in [Requests -> {"file", "closed-by", "withdrawn", "disputed"}]
    /\ ObjectOf \in [Requests -> Nat]
    /\ CreatedAt \in [Requests -> Nat]
    /\ Opened \in Nat
    /\ MaxRetries \in Nat
    /\ None \notin Requests

VARIABLES
    publicSeq, chain,   \* the problem's row
    events,             \* events, in sequence order, with their chain digest
    objects,            \* proof_gaps and claim_relations, by opening sequence
    settled,            \* event_seq of the request's own idempotency row, 0 if none
    replays,            \* sequence sealed in the request's replay row, 0 if none
    authorized,         \* requests with a live credential and an open session
    pc, before, retryCount, retryable, answers   \* the Worker invocations

rowVars == <<publicSeq, chain, events, objects, settled, replays>>
settlementVars == <<publicSeq, chain, events, objects, settled, replays, authorized,
          pc, before, retryCount, retryable, answers>>

OpenRow == [status |-> "open", at |-> 0, by |-> None]
Unanswered == [status |-> "none", seq |-> 0]
ProblemHead == [seq |-> publicSeq, chain |-> chain]
Unread == [seq |-> 0, chain |-> <<>>]

\* A problem with some open gaps and asserted relations, each by one event.
SettlementInit ==
    /\ publicSeq = Opened
    /\ chain = [i \in 1..Opened |-> None]
    /\ events = [i \in 1..Opened |-> [id |-> None, object |-> i, chain |-> [j \in 1..i |-> None]]]
    /\ objects = [o \in 1..Opened |-> OpenRow]
    /\ settled = [r \in Requests |-> 0]
    /\ replays = [r \in Requests |-> 0]
    /\ authorized = Requests
    /\ pc = [r \in Requests |-> "check"]
    /\ before = [r \in Requests |-> Unread]
    /\ retryCount = [r \in Requests |-> 0]
    /\ retryable = [r \in Requests |-> FALSE]
    /\ answers = [r \in Requests |-> Unanswered]

Goto(r, where) == pc' = [pc EXCEPT ![r] = where]

Conclude(r, how) ==
    /\ before' = [before EXCEPT ![r] = Unread]
    /\ retryCount' = [retryCount EXCEPT ![r] = 0]
    /\ retryable' = [retryable EXCEPT ![r] = FALSE]
    /\ Goto(r, how)

Answer(r, status, seq) ==
    /\ answers' = [answers EXCEPT ![r] = [status |-> status, seq |-> seq]]
    /\ Conclude(r, "answered")

-----------------------------------------------------------------------------
(* The route: an open session, and an object that exists and is still open.  *)
(* Screening follows, so the answer may be stale when the writer starts.     *)
CheckOpen(r) ==
    /\ pc[r] = "check"
    /\ IF /\ r \in authorized
          /\ OpOf[r] # "file" => ObjectOf[r] \in DOMAIN objects /\ objects[ObjectOf[r]] = OpenRow
       THEN Goto(r, "preflight") /\ UNCHANGED <<before, retryCount, retryable, answers>>
       ELSE Answer(r, "refused", 0)
    /\ UNCHANGED <<rowVars, authorized>>

(* backfillKraterIntegrity: a head without its own event and checkpoint is   *)
(* a partial integrity state, and every write on it is refused.              *)
TerminalComplete ==
    /\ publicSeq = Len(events)
    /\ publicSeq > 0 => chain = events[publicSeq].chain

Preflight(r) ==
    /\ pc[r] = "preflight"
    /\ Goto(r, IF TerminalComplete THEN "head" ELSE "failed")
    /\ UNCHANGED <<rowVars, authorized, before, retryCount, retryable, answers>>

ReadHead(r) ==
    /\ pc[r] = "head"
    /\ before' = [before EXCEPT ![r] = ProblemHead]
    /\ Goto(r, "batch")
    /\ UNCHANGED <<rowVars, authorized, retryCount, retryable, answers>>

-----------------------------------------------------------------------------
(* The batch *)

HeadMoved(r) == before[r] # ProblemHead

\* A gap is named by the sequence its filing is a candidate for.
Object(r) == IF OpOf[r] = "file" THEN before[r].seq + 1 ELSE ObjectOf[r]

\* Mutant: the UPDATE of the row no longer requires it to be open.
Stamped_Overwrites(r) ==
    [objects EXCEPT ![Object(r)] = [status |-> OpOf[r], at |-> CreatedAt[r], by |-> r]]

(* The row after UPDATE ... SET status = ?, closed_at = ? WHERE status =     *)
(* 'open'.  A relation also keeps the event that disputed it.                *)
Stamped(r) ==
    IF objects[Object(r)] = OpenRow
    THEN [objects EXCEPT ![Object(r)] = [status |-> OpOf[r], at |-> CreatedAt[r], by |-> r]]
    ELSE objects

(* settleGuardSql recognises its own UPDATE by outcome and timestamp,        *)
(* disputeGuardSql by the event id.                                          *)
OwnsTransition(r) ==
    LET row == Stamped(r)[Object(r)] IN
    /\ row.status = OpOf[r]
    /\ IF OpOf[r] = "disputed" THEN row.by = r ELSE row.at = CreatedAt[r]

\* Mutant: the statements after the election are not guarded.
Publishes_Unguarded(r) == settled[r] = 0

(* The event, content and checkpoint statements select a row. *)
Publishes(r) == settled[r] = 0 /\ (OpOf[r] # "file" => OwnsTransition(r))

\* event_chain_v2_contiguous_before_insert.
PredecessorMissing(r) == Len(events) # before[r].seq

(* A published event aborts the batch if it is not at the head (the chain    *)
(* trigger), lacks its predecessor, or its replay row cannot be owned; an    *)
(* attempt after its own lost commit fails on screening_publications.        *)
Aborts(r) ==
    \/ settled[r] # 0
    \/ Publishes(r) /\ (HeadMoved(r) \/ PredecessorMissing(r) \/ r \notin authorized)

Throw(r, isRetryable) ==
    /\ retryable' = [retryable EXCEPT ![r] = isRetryable]
    /\ Goto(r, "caught")

BatchAborts(r) ==
    /\ pc[r] = "batch"
    /\ \/ Publishes(r) /\ HeadMoved(r) /\ Throw(r, TRUE)
       \/ Aborts(r) /\ ~(Publishes(r) /\ HeadMoved(r)) /\ Throw(r, FALSE)
       \/ \E busy \in BOOLEAN : Throw(r, busy)
    /\ UNCHANGED <<rowVars, authorized, before, retryCount, answers>>

\* D1 committed; its response arrives or is lost.
Committed(r) ==
    \/ Goto(r, "settle") /\ UNCHANGED retryable
    \/ Throw(r, FALSE)

Elect(r) ==
    /\ publicSeq' = before[r].seq + 1
    /\ chain' = Append(before[r].chain, r)

(* The attempt owns the transition: head, row, event and answer together. *)
BatchPublishes(r) ==
    /\ pc[r] = "batch"
    /\ Publishes(r) /\ ~Aborts(r)
    /\ Elect(r)
    /\ events' = Append(events, [id |-> r, object |-> Object(r),
                                 chain |-> Append(before[r].chain, r)])
    /\ objects' = IF OpOf[r] = "file"
                  THEN [o \in DOMAIN objects \cup {Object(r)} |->
                           IF o = Object(r) THEN OpenRow ELSE objects[o]]
                  ELSE Stamped(r)
    /\ settled' = [settled EXCEPT ![r] = publicSeq']
    /\ replays' = [replays EXCEPT ![r] = publicSeq']
    /\ Committed(r)
    /\ UNCHANGED <<authorized, before, retryCount, answers>>

(* The attempt has lost the transition: nothing is published, but the head   *)
(* is bumped all the same if it is the one this attempt read.                *)
BatchLoses(r) ==
    /\ pc[r] = "batch"
    /\ settled[r] = 0 /\ ~Publishes(r)
    /\ IF HeadMoved(r) THEN UNCHANGED <<publicSeq, chain>> ELSE Elect(r)
    /\ Committed(r)
    /\ UNCHANGED <<events, objects, settled, replays, authorized, before, retryCount, answers>>

(* Another attempt for a chain conflict or a moved head, while any is left. *)
CatchBatch(r) ==
    /\ pc[r] = "caught"
    /\ IF retryCount[r] < MaxRetries /\ (retryable[r] \/ HeadMoved(r))
       THEN retryCount' = [retryCount EXCEPT ![r] = @ + 1] /\ Goto(r, "head")
       ELSE Goto(r, "failed") /\ UNCHANGED retryCount
    /\ UNCHANGED <<rowVars, authorized, before, retryable, answers>>

(* The read-back: an unsettled key is an error, never a retry. *)
ReadSettlement(r) ==
    /\ pc[r] = "settle"
    /\ IF settled[r] = 0
       THEN Goto(r, "failed") /\ UNCHANGED <<before, retryCount, retryable, answers>>
       ELSE Answer(r, "ok", replays[r])
    /\ UNCHANGED <<rowVars, authorized>>

\* Mutant: the route reports the error without looking for a replay row.
RouteCatch_Refuses(r) ==
    /\ pc[r] = "failed"
    /\ Answer(r, "refused", 0)
    /\ UNCHANGED <<rowVars, authorized>>

(* The route's catch: a replay row answers; without one, GAP_ALREADY_SETTLED,*)
(* a refusal or an internal error.                                           *)
RouteCatch(r) ==
    /\ pc[r] = "failed"
    /\ IF replays[r] # 0 THEN Answer(r, "ok", replays[r]) ELSE Answer(r, "refused", 0)
    /\ UNCHANGED <<rowVars, authorized>>

Crash(r) ==
    /\ pc[r] \notin {"answered", "crashed"}
    /\ Conclude(r, "crashed")
    /\ UNCHANGED <<rowVars, authorized, answers>>

\* The credential is revoked or the session closed.
RevokeAuthority(r) ==
    /\ r \in authorized
    /\ authorized' = authorized \ {r}
    /\ UNCHANGED <<rowVars, pc, before, retryCount, retryable, answers>>

Step(r) ==
    \/ CheckOpen(r) \/ Preflight(r) \/ ReadHead(r)
    \/ BatchPublishes(r) \/ BatchLoses(r) \/ BatchAborts(r)
    \/ CatchBatch(r) \/ ReadSettlement(r) \/ RouteCatch(r)

SettlementNext == \E r \in Requests : Step(r) \/ Crash(r) \/ RevokeAuthority(r)

SettlementSpec == SettlementInit /\ [][SettlementNext]_settlementVars

-----------------------------------------------------------------------------
Settlements(o) ==
    {i \in 1..Len(events) : /\ events[i].object = o
                            /\ events[i].id # None
                            /\ OpOf[events[i].id] # "file"}

(* An object is settled by at most one event: the guards make a loser of     *)
(* every settlement but the first (settleGuardSql, disputeGuardSql).         *)
SettledOnce == \A o \in DOMAIN objects : \A i, j \in Settlements(o) : i = j

(* The row of an object and the ledger tell the same story: the row is open  *)
(* exactly while no settlement is published, and otherwise shows the outcome *)
(* and the time of every published settlement.                               *)
RowMatchesLedger ==
    \A o \in DOMAIN objects :
        /\ objects[o] = OpenRow <=> Settlements(o) = {}
        /\ \A i \in Settlements(o) :
              /\ objects[o].status = OpOf[events[i].id]
              /\ objects[o].at = CreatedAt[events[i].id]

(* A refused request has published nothing, and an accepted one has its own  *)
(* event at the sequence it was told, even if it lost the batch's response.  *)
AnswersAreTrue ==
    \A r \in Requests :
        /\ answers[r].status = "refused" => \A i \in 1..Len(events) : events[i].id # r
        /\ answers[r].status = "ok" =>
              answers[r].seq \in 1..Len(events) /\ events[answers[r].seq].id = r

(* The writer's comment on the settle guard: "a losing batch no-ops          *)
(* entirely"; so the head only moves together with an event that stands at   *)
(* it.                                                                       *)
LosersChangeNothing ==
    [][publicSeq' # publicSeq => Len(events') = publicSeq']_settlementVars
=============================================================================
