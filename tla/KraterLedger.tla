---------------------------- MODULE KraterLedger ----------------------------
(***************************************************************************)
(* The public ledger of one problem: the promote, revise and guarded       *)
(* transition routes of sessions/router-core.ts together with the writers  *)
(* of krater/krater.ts they call.                                          *)
(*                                                                         *)
(* Each request runs in its own Worker invocation, so the steps of two     *)
(* requests interleave at every await.  One db.batch is one SQLite         *)
(* transaction: it commits whole, commits without an event (a guarded      *)
(* writer whose precondition is false), or aborts.                         *)
(*                                                                         *)
(* Digests are modelled by what they fix: an event's row digest by the     *)
(* request whose event it is, the chain digest of a head by the sequence   *)
(* of the events hashed into it, a request digest by the request's body.   *)
(***************************************************************************)
EXTENDS Integers, Sequences

CONSTANTS
    Requests,     \* HTTP requests; each mints its own event id and claim token
    CallerKeys,   \* (scope, principal, Idempotency-Key) triples
    Fellows,      \* the agents the keys belong to
    Bodies,       \* [op, statement, object, base]: what a request asks for
    Routes,       \* one-shot routes (hypotheses) open at the start
    KeyOf, BodyOf,  \* key and body of a request
    FellowOf,     \* the Fellow a caller key belongs to
    MaxRetries,   \* MAX_CHAIN_RETRIES
    None          \* no request

ASSUME LedgerConstants ==
    /\ KeyOf \in [Requests -> CallerKeys]
    /\ BodyOf \in [Requests -> Bodies]
    /\ FellowOf \in [CallerKeys -> Fellows]
    /\ \A b \in Bodies : /\ b.op \in {"create", "revise", "transition"}
                         /\ b.object \in Nat
                         /\ b.base \in Nat
    /\ Routes \subseteq Nat
    /\ MaxRetries \in Nat
    /\ None \notin Requests

VARIABLES
    \* D1, the problem's rows
    publicSeq,    \* problems.public_seq
    chain,        \* problems.chain_digest
    events,       \* events with their chain digest (event_chain_v2)
    checkpoints,  \* integrity_checkpoints.root_chain_digest by checkpoint_seq
    settled,      \* idempotency.event_seq under the request's own Krater key, 0 if no row
    replays,      \* session_write_replays: owning request and sealed sequence
    claims,       \* claims heads, by the sequence that created them ("C-<seq>")
    openRoutes,   \* routes whose guarded transition is still admissible
    outbox,       \* event sequences with a search.index outbox row
    publicCursor, \* public_cursor.cursor
    live,         \* Fellows whose credential is live
    open,         \* Fellows whose session is open
    held,         \* claims some other Fellow holds an exclusive lease on
    \* one Worker invocation per request
    pc, before, retryCount, retryable, answers

ledgerVars == <<publicSeq, chain, events, checkpoints, settled, replays, claims,
                openRoutes, outbox, publicCursor>>
authorityVars == <<live, open, held>>
requestVars == <<pc, before, retryCount, retryable, answers>>
vars == <<publicSeq, chain, events, checkpoints, settled, replays, claims, openRoutes, outbox,
          publicCursor, live, open, held, pc, before, retryCount, retryable, answers>>

NoReplay == [owner |-> None, seq |-> 0]
Unanswered == [status |-> "none", seq |-> 0]
Unread == [seq |-> 0, chain |-> <<>>]     \* no head read yet
ProblemHead == [seq |-> publicSeq, chain |-> chain]
Author(r) == FellowOf[KeyOf[r]]

Init ==
    /\ publicSeq = 0
    /\ chain = <<>>
    /\ events = <<>>
    /\ checkpoints = <<>>
    /\ settled = [r \in Requests |-> 0]
    /\ replays = [k \in CallerKeys |-> NoReplay]
    /\ claims = <<>>
    /\ openRoutes = Routes
    /\ outbox = {}
    /\ publicCursor = 0
    /\ live = Fellows
    /\ open = Fellows
    /\ held = {}
    /\ pc = [r \in Requests |-> "arrive"]
    /\ before = [r \in Requests |-> Unread]
    /\ retryCount = [r \in Requests |-> 0]
    /\ retryable = [r \in Requests |-> FALSE]
    /\ answers = [r \in Requests |-> Unanswered]

-----------------------------------------------------------------------------
(* The route, before the writer *)

Goto(r, where) == pc' = [pc EXCEPT ![r] = where]

(* The invocation ends, and its local variables with it. *)
Leave(r, how) ==
    /\ before' = [before EXCEPT ![r] = Unread]
    /\ retryCount' = [retryCount EXCEPT ![r] = 0]
    /\ retryable' = [retryable EXCEPT ![r] = FALSE]
    /\ Goto(r, how)

Stay == UNCHANGED <<before, retryCount, retryable>>

Answer(r, status, seq) ==
    /\ answers' = [answers EXCEPT ![r] = [status |-> status, seq |-> seq]]
    /\ Leave(r, "answered")

\* Mutant: the replay lookup forgets to compare the request digest.
AnswerFromReplay_AnyBody(r) ==
    /\ replays[KeyOf[r]] # NoReplay
    /\ Answer(r, "ok", replays[KeyOf[r]].seq)

(* readReplayRecord: a row of the caller key answers the request, with the   *)
(* sealed bytes if it was sealed for the same request digest, with 409 if    *)
(* not.                                                                      *)
AnswerFromReplay(r) ==
    LET row == replays[KeyOf[r]] IN
    /\ row # NoReplay
    /\ IF BodyOf[row.owner] = BodyOf[r] THEN Answer(r, "ok", row.seq)
                                        ELSE Answer(r, "conflict", 0)

(* Authentication, then the replay lookup that precedes every mutable        *)
(* precondition.                                                             *)
Arrive(r) ==
    /\ pc[r] = "arrive"
    /\ \/ Author(r) \notin live /\ Answer(r, "refused", 0)
       \/ Author(r) \in live /\ AnswerFromReplay(r)
       \/ /\ Author(r) \in live
          /\ replays[KeyOf[r]] = NoReplay
          /\ Goto(r, "check") /\ Stay
          /\ UNCHANGED answers
    /\ UNCHANGED <<ledgerVars, authorityVars>>

(* claims_problem_norm_hash_idx: another claim already has this statement. *)
Duplicates(b) ==
    \E c \in DOMAIN claims : claims[c].statement = b.statement /\ (b.op = "revise" => c # b.object)

\* Mutant: revise checks the author and the lease but not the base version.
Admissible_AnyBase(r) ==
    LET b == BodyOf[r] IN
    \/ b.op = "create"
    \/ /\ b.op = "revise"
       /\ b.object \in DOMAIN claims \ held
       /\ claims[b.object].author = Author(r)
    \/ b.op = "transition" /\ b.object \in openRoutes

(* What the guarded writers require, in the route and again inside the batch. *)
Admissible(r) ==
    LET b == BodyOf[r] IN
    \/ b.op = "create"
    \/ /\ b.op = "revise"
       /\ b.object \in DOMAIN claims \ held
       /\ claims[b.object].author = Author(r)
       /\ claims[b.object].version = b.base
    \/ b.op = "transition" /\ b.object \in openRoutes

(* Session, duplicate and precondition checks of the route.  The paid        *)
(* screening call follows, so what is read here is old when the batch runs.  *)
CheckPreconditions(r) ==
    /\ pc[r] = "check"
    /\ IF /\ Author(r) \in open
          /\ Admissible(r)
          /\ BodyOf[r].op # "transition" => ~Duplicates(BodyOf[r])
       THEN Goto(r, "head") /\ Stay /\ UNCHANGED answers
       ELSE Answer(r, "refused", 0)
    /\ UNCHANGED <<ledgerVars, authorityVars>>

-----------------------------------------------------------------------------
(* The writer: writeClaim, writeClaimRevision, writeLedgerEvent *)

(* readProblemHead.  Every digest of the attempt is computed from this row. *)
ReadHead(r) ==
    /\ pc[r] = "head"
    /\ before' = [before EXCEPT ![r] = ProblemHead]
    /\ Goto(r, "batch")
    /\ UNCHANGED <<retryCount, retryable, answers, ledgerVars, authorityVars>>

HeadMoved(r) == before[r] # ProblemHead

\* Mutant: the guarded writer trusts the precondition its route checked.
Eventless_HeadOnly(r) ==
    /\ settled[r] = 0
    /\ BodyOf[r].op # "create"
    /\ HeadMoved(r)

(* A guarded writer whose head or precondition no longer holds elects no     *)
(* sequence; every later statement of its batch is then a no-op and the      *)
(* unsettled idempotency row is deleted again.                               *)
Eventless(r) ==
    /\ settled[r] = 0
    /\ BodyOf[r].op # "create"
    /\ HeadMoved(r) \/ ~Admissible(r)

\* Mutant: a creation no longer elects its sequence against the head it read.
ChainConflict_NoHead(r) ==
    /\ settled[r] = 0
    /\ ~Eventless(r)
    /\ BodyOf[r].op # "transition" /\ Duplicates(BodyOf[r])

(* Constraint failures that isRetryableChainConflict recognises: the chain   *)
(* trigger of a creation whose head moved, and the unique statement index.   *)
ChainConflict(r) ==
    /\ settled[r] = 0
    /\ ~Eventless(r)
    /\ \/ BodyOf[r].op = "create" /\ HeadMoved(r)
       \/ BodyOf[r].op # "transition" /\ Duplicates(BodyOf[r])

\* Mutants: the companion loses its ownership check, or its live credential.
ReplayUnowned_Shared(r) == Author(r) \notin live \/ Author(r) \notin open
ReplayUnowned_Revoked(r) == Author(r) \notin open \/ replays[KeyOf[r]] # NoReplay

(* The companion's deliberate NULL: the replay row cannot be owned, because  *)
(* the credential or the session is gone or another request of the same      *)
(* caller key owns it.                                                       *)
ReplayUnowned(r) ==
    \/ Author(r) \notin live
    \/ Author(r) \notin open
    \/ replays[KeyOf[r]] # NoReplay

(* An attempt that finds its own event committed by an earlier attempt whose *)
(* response was lost inserts that event's rows twice and fails on their      *)
(* primary keys (screening_publications, event_content).                     *)
CompanionAborts(r) ==
    \/ settled[r] # 0
    \/ ~Eventless(r) /\ ~ChainConflict(r) /\ ReplayUnowned(r)

Throw(r, isRetryable) ==
    /\ retryable' = [retryable EXCEPT ![r] = isRetryable]
    /\ Goto(r, "caught")

(* The batch aborts, or fails before it reaches the database. *)
BatchAborts(r) ==
    /\ pc[r] = "batch"
    /\ \/ ChainConflict(r) /\ Throw(r, TRUE)
       \/ CompanionAborts(r) /\ Throw(r, FALSE)
       \/ \E busy \in BOOLEAN : Throw(r, busy)
    /\ UNCHANGED <<before, retryCount, answers, ledgerVars, authorityVars>>

(* The batch commits without an event. *)
BatchEventless(r) ==
    /\ pc[r] = "batch"
    /\ Eventless(r)
    /\ Goto(r, "settle")
    /\ UNCHANGED <<before, retryCount, retryable, answers, ledgerVars, authorityVars>>

(* What the committed event does to the object it is about. *)
ClaimHead(author, version, statement, source) ==
    [author |-> author, version |-> version, statement |-> statement, source |-> source]

EventObject(r) == IF BodyOf[r].op = "create" THEN before[r].seq + 1 ELSE BodyOf[r].object

EventVersion(r) == IF BodyOf[r].op = "revise" THEN BodyOf[r].base + 1 ELSE 1

ProjectEvent(r) ==
    LET b == BodyOf[r]
        seq == before[r].seq + 1
        c == EventObject(r)
    IN
    IF b.op = "transition"
    THEN /\ openRoutes' = openRoutes \ {b.object}
         /\ UNCHANGED <<claims, outbox>>
    ELSE /\ claims' = [x \in DOMAIN claims \cup {c} |->
                          IF x = c THEN ClaimHead(Author(r), EventVersion(r), b.statement, seq)
                                   ELSE claims[x]]
         /\ outbox' = outbox \cup {seq}
         /\ UNCHANGED openRoutes

(* The whole batch: sequence election, event, content, projection, outbox    *)
(* row, checkpoint, idempotency settlement, replay row and public cursor.    *)
CommitEvent(r) ==
    LET seq == before[r].seq + 1
        digest == Append(before[r].chain, r)
    IN
    /\ publicSeq' = seq
    /\ chain' = digest
    /\ events' = Append(events, [id |-> r, object |-> EventObject(r),
                                 version |-> EventVersion(r), chain |-> digest])
    /\ ProjectEvent(r)
    /\ checkpoints' = Append(checkpoints, digest)
    /\ settled' = [settled EXCEPT ![r] = seq]
    /\ replays' = [replays EXCEPT ![KeyOf[r]] = [owner |-> r, seq |-> seq]]
    /\ publicCursor' = publicCursor + 1

BatchCommits(r) ==
    /\ pc[r] = "batch"
    /\ settled[r] = 0
    /\ ~Eventless(r)
    /\ ~ChainConflict(r)
    /\ ~CompanionAborts(r)
    /\ CommitEvent(r)
    /\ \/ Goto(r, "settle") /\ UNCHANGED retryable
       \/ Throw(r, FALSE)          \* D1 committed, the response was lost
    /\ UNCHANGED <<before, retryCount, answers, authorityVars>>

\* Mutant: the retry loop does not count.
Retry_Uncounted(r) ==
    /\ retryCount[r] < MaxRetries
    /\ UNCHANGED retryCount
    /\ Goto(r, "head")

(* Another attempt, if the budget allows one. *)
Retry(r) ==
    /\ retryCount[r] < MaxRetries
    /\ retryCount' = [retryCount EXCEPT ![r] = @ + 1]
    /\ Goto(r, "head")

(* The catch of db.batch: retry a chain conflict, and anything else only if  *)
(* the head has moved since this attempt read it.                            *)
CatchBatch(r) ==
    /\ pc[r] = "caught"
    /\ \/ (retryable[r] \/ HeadMoved(r)) /\ Retry(r)
       \/ /\ retryCount[r] = MaxRetries \/ ~(retryable[r] \/ HeadMoved(r))
          /\ Goto(r, "failed")
          /\ UNCHANGED retryCount
    /\ UNCHANGED <<before, retryable, answers, ledgerVars, authorityVars>>

(* The claim writers read their claim back by the sequence they settled at,  *)
(* and throw if a later revision has moved its head already.                 *)
ClaimMovedOn(r) ==
    /\ BodyOf[r].op # "transition"
    /\ claims[events[settled[r]].object].source # settled[r]

(* The read-back after a batch that did not throw, then the sealed replay.   *)
ReadSettlement(r) ==
    /\ pc[r] = "settle"
    /\ \/ /\ settled[r] = 0 /\ HeadMoved(r)
          /\ Retry(r)
          /\ UNCHANGED <<before, retryable, answers>>
       \/ /\ settled[r] = 0
          /\ retryCount[r] = MaxRetries \/ ~HeadMoved(r)
          /\ Goto(r, "failed") /\ Stay
          /\ UNCHANGED answers
       \/ /\ settled[r] # 0
          /\ IF ClaimMovedOn(r) THEN Goto(r, "failed") /\ Stay /\ UNCHANGED answers
                                ELSE AnswerFromReplay(r)
    /\ UNCHANGED <<ledgerVars, authorityVars>>

-----------------------------------------------------------------------------
(* The route, after a writer that threw *)

\* Mutant: a failed writer is a refusal, without looking for a replay row.
RouteCatch_Refuses(r) ==
    /\ pc[r] = "failed"
    /\ Answer(r, "refused", 0)
    /\ UNCHANGED <<ledgerVars, authorityVars>>

(* The catch of the route: whatever went wrong, a replay row of the caller   *)
(* key still answers; without one, the request is refused.                   *)
RouteCatch(r) ==
    /\ pc[r] = "failed"
    /\ \/ AnswerFromReplay(r)
       \/ replays[KeyOf[r]] = NoReplay /\ Answer(r, "refused", 0)
    /\ UNCHANGED <<ledgerVars, authorityVars>>

(* The invocation or the connection dies: the caller gets no answer. *)
Crash(r) ==
    /\ pc[r] \notin {"answered", "crashed"}
    /\ Leave(r, "crashed")
    /\ UNCHANGED <<answers, ledgerVars, authorityVars>>

-----------------------------------------------------------------------------
(* What happens around the writers *)

RevokeCredential(f) ==
    /\ f \in live
    /\ live' = live \ {f}
    /\ UNCHANGED <<open, held, ledgerVars, requestVars>>

CloseSession(f) ==
    /\ f \in open
    /\ open' = open \ {f}
    /\ UNCHANGED <<live, held, ledgerVars, requestVars>>

(* A Fellow other than the author takes, or gives up, an exclusive lease. *)
TakeLease(c) ==
    /\ c \in DOMAIN claims \ held
    /\ held' = held \cup {c}
    /\ UNCHANGED <<live, open, ledgerVars, requestVars>>

ReleaseLease(c) ==
    /\ c \in held
    /\ held' = held \ {c}
    /\ UNCHANGED <<live, open, ledgerVars, requestVars>>

Step(r) ==
    \/ Arrive(r) \/ CheckPreconditions(r) \/ ReadHead(r)
    \/ BatchCommits(r) \/ BatchEventless(r) \/ BatchAborts(r)
    \/ CatchBatch(r) \/ ReadSettlement(r) \/ RouteCatch(r)

Environment ==
    \/ \E r \in Requests : Crash(r)
    \/ \E f \in Fellows : RevokeCredential(f) \/ CloseSession(f)
    \/ \E c \in DOMAIN claims : TakeLease(c)
    \/ \E c \in held : ReleaseLease(c)

Next == (\E r \in Requests : Step(r)) \/ Environment

Spec == Init /\ [][Next]_vars

(* A Worker invocation that has begun and is not killed runs to its end. *)
Fairness == \A r \in Requests : WF_vars(pc[r] # "arrive" /\ Step(r))
=============================================================================
