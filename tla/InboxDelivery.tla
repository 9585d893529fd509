---------------------------- MODULE InboxDelivery ----------------------------
(***************************************************************************)
(* The inbox: the queue that every published review, evidence and          *)
(* statement revision enters (migrations 0066, 0068, 0104), the cron       *)
(* passes that fan a queued event out to its recipients                    *)
(* (inbox/event-delivery.ts), the request that revises a statement and     *)
(* notifies the followers itself (inbox/store.ts), and the clients that    *)
(* poll with a cursor and acknowledge.                                     *)
(*                                                                         *)
(* D1 runs one batch at a time; a pass interleaves with everything else    *)
(* between its reads and its batches.  Passes overlap when a tick is slow, *)
(* and die with their Worker.  updated_at is abstracted to the order of    *)
(* the queue, in which a running pass stands at the moment it started.     *)
(***************************************************************************)
EXTENDS Integers, FiniteSets, SequencesExt

CONSTANTS
    Fellows,     \* fellow identifiers, in the order of fellow_id
    Events,      \* the events that enqueue, in ledger order: 1..N
    Kind,        \* what an event is: a revision, a critique of a claim or of a hypothesis
    Author,      \* the fellow whose object a critique addresses
    Corrupt,     \* events whose stored payload fails validation
    Poison,      \* events whose delivery batch always fails
    Passes,      \* cron passes that may overlap
    PageSize,    \* INBOX_DELIVERY_RECIPIENT_LIMIT
    JobLimit,    \* INBOX_DELIVERY_JOB_LIMIT
    ReadLimit,   \* limit of an inbox read
    MaxFaults,   \* bound on failures
    MaxChanges   \* bound on follows, unfollows, withdrawals, hides and restores

ASSUME InboxConstants ==
    /\ Fellows \subseteq Nat \ {0}
    /\ Events \subseteq Nat \ {0}
    /\ IsFiniteSet(Fellows)
    /\ Kind \in [Events -> {"revision", "claim", "hypothesis"}]
    /\ Author \in [Events -> Fellows]
    /\ Corrupt \subseteq Events
    /\ Poison \subseteq Events
    /\ Events \cap Passes = {}
    /\ PageSize \in Nat \ {0}
    /\ JobLimit \in Nat \ {0}
    /\ ReadLimit \in Nat \ {0}
    /\ MaxFaults \in Nat
    /\ MaxChanges \in Nat

VARIABLES
    source,   \* the event's public content: absent, public, redacted or withdrawn
    control,  \* the latest content control of a hypothesis or of its evidence
    job,      \* inbox_event_deliveries: state and after_fellow_id
    line,     \* the pending jobs by updated_at, and the running passes among them
    follows,  \* problem_follows: created_at, and as history the time it was committed
    inbox,    \* fellow_inbox_notices of every fellow
    passes,   \* what every pass is doing
    writer,   \* the notices that the request of a revision still owes
    readers,  \* the cursor of every polling client, and what it has seen
    faults,   \* failures so far
    changes   \* follows, unfollows, withdrawals, hides and restores so far

ledgerVars == <<source, control, follows, changes>>
vars == <<ledgerVars, job, line, inbox, passes, writer, readers, faults>>

None == [stamp |-> -1, made |-> -1]                      \* no follow
NoJob == [state |-> "absent", after |-> 0]
NoPass == [at |-> "idle", jobs |-> {}, page |-> {}, more |-> FALSE]
Turn(jobs) == [at |-> "job", jobs |-> jobs, page |-> {}, more |-> FALSE]  \* the next job's turn

Init ==
    /\ source = [e \in Events |-> "absent"]
    /\ control = [e \in Events |-> "none"]
    /\ job = [e \in Events |-> NoJob]
    /\ line = <<>>
    /\ follows \in [Fellows -> {None, [stamp |-> 0, made |-> 0]}]
    /\ inbox = [f \in Fellows |-> {}]
    /\ passes = [p \in Passes |-> NoPass]
    /\ writer = [e \in Events |-> [due |-> FALSE, left |-> {}]]
    /\ readers = [f \in Fellows |-> [cursor |-> 0, seen |-> {}]]
    /\ faults = 0
    /\ changes = 0

-----------------------------------------------------------------------------
(* The ledger and the subscriptions *)

Published == {e \in Events : source[e] # "absent"}
Latest == IF Published = {} THEN 0 ELSE Max(Published)

(* Append an event; the trigger enqueues its delivery in the transaction.    *)
(* The request that revised the statement goes on to notify.                 *)
Publish(e) ==
    /\ e > Latest
    /\ source' = [source EXCEPT ![e] = "public"]
    /\ job' = [job EXCEPT ![e].state = "pending"]
    /\ line' = Append(line, e)
    /\ writer' = [writer EXCEPT ![e].due = (Kind[e] = "revision")]
    /\ UNCHANGED <<control, follows, changes, inbox, passes, readers, faults>>

Change == changes < MaxChanges /\ changes' = changes + 1

(* Redaction of the event, or the retraction of evidence on a hypothesis.    *)
Withdraw(e) ==
    /\ Change
    /\ source[e] = "public"
    /\ \/ source' = [source EXCEPT ![e] = "redacted"]
       \/ Kind[e] = "hypothesis" /\ source' = [source EXCEPT ![e] = "withdrawn"]
    /\ UNCHANGED <<control, job, line, follows, inbox, passes, writer, readers, faults>>

(* A moderator hides evidence on a hypothesis or the hypothesis, or restores *)
(* it with a later control.  No other notice looks at the controls.          *)
Moderate(e) ==
    /\ Change
    /\ source[e] # "absent" /\ Kind[e] = "hypothesis"
    /\ control' = [control EXCEPT ![e] = IF @ = "hidden" THEN "visible" ELSE "hidden"]
    /\ UNCHANGED <<source, job, line, follows, inbox, passes, writer, readers, faults>>

(* created_at is the clock of the request, which may have read it before the *)
(* latest event was appended.                                                *)
Follow(f) ==
    /\ Change
    /\ follows[f] = None
    /\ \E stamp \in {Latest, Latest - 1} \cap Nat :
          follows' = [follows EXCEPT ![f] = [stamp |-> stamp, made |-> Latest]]
    /\ UNCHANGED <<source, control, job, line, inbox, passes, writer, readers, faults>>

Unfollow(f) ==
    /\ Change
    /\ follows[f] # None
    /\ follows' = [follows EXCEPT ![f] = None]
    /\ UNCHANGED <<source, control, job, line, inbox, passes, writer, readers, faults>>

(* RECIPIENT_SQL: subscribed no later than the event, or the author of what  *)
(* it addresses.                                                             *)
Recipient(f, e) ==
    IF Kind[e] = "revision" THEN follows[f] # None /\ follows[f].stamp < e ELSE f = Author[e]

-----------------------------------------------------------------------------
(* Notices *)

Told(f, e) == \E n \in inbox[f] : n.event = e

\* Mutant: the cursor counts the notices that are not acknowledged.
NextSeq_Unread(f) == Cardinality({n \in inbox[f] : ~n.acked}) + 1
(* Allocated in the insert; acknowledged notices count.                      *)
NextSeq(f) == Max({0} \cup {n.seq : n \in inbox[f]}) + 1

(* The guarded insert, for every fellow of a set that has no such notice.    *)
Notify(fellows, e) ==
    inbox' = [f \in Fellows |->
        IF f \in fellows /\ ~Told(f, e)
        THEN inbox[f] \cup {[seq |-> NextSeq(f), event |-> e, acked |-> FALSE]}
        ELSE inbox[f]]

(* notifyProblemFollowersOfStatementRevision, after the commit: it lists the *)
(* followers, whenever they subscribed, and notifies them one by one.        *)
List(e) ==
    /\ writer[e].due
    /\ writer' = [writer EXCEPT ![e] = [due |-> FALSE, left |-> {f \in Fellows : follows[f] # None}]]
    /\ UNCHANGED <<ledgerVars, job, line, inbox, passes, readers, faults>>

NotifyFollower(e, f) ==
    /\ f \in writer[e].left
    /\ Notify({f}, e)
    /\ writer' = [writer EXCEPT ![e].left = @ \ {f}]
    /\ UNCHANGED <<ledgerVars, job, line, passes, readers, faults>>

-----------------------------------------------------------------------------
(* deliverInboxEvents *)

(* The place of a pending job in the queue, and the places there are.        *)
Place(i) == Cardinality({j \in 1..i : line[j] \in Events})
Pending == {i \in DOMAIN line : line[i] \in Events}

(* ORDER BY updated_at, id LIMIT 8, with what each job's row says now.       *)
Begin(p) ==
    LET picked == {i \in Pending : Place(i) <= JobLimit}
        snapshots == {[place |-> Place(i), event |-> line[i], after |-> job[line[i]].after,
                       redacted |-> source[line[i]] = "redacted"] : i \in picked} IN
    /\ passes[p].at = "idle"
    /\ picked # {}
    /\ passes' = [passes EXCEPT ![p] = Turn(snapshots)]
    /\ line' = Append(line, p)
    /\ UNCHANGED <<ledgerVars, job, inbox, writer, readers, faults>>

At(p, step) == passes[p].at = step /\ passes[p].jobs # {}
Snap(p) == CHOOSE s \in passes[p].jobs : \A t \in passes[p].jobs : s.place <= t.place

(* The pass has done with a job. *)
Done(p) ==
    passes' = [passes EXCEPT ![p] = Turn(passes[p].jobs \ {Snap(p)})]

\* Mutant: the updates look at the state of the job and not at its cursor.
Current_Pending(p) == job[Snap(p).event].state = "pending"
(* The guard of every update: the job is where the pass found it.            *)
Current(p) == job[Snap(p).event].state = "pending" /\ job[Snap(p).event].after = Snap(p).after

(* The queue without one of its jobs or passes; none is in it twice.         *)
Without(x) == RemoveAt(line, CHOOSE i \in DOMAIN line : line[i] = x)

(* Settle a job, if it is where the pass found it. *)
Dispose(p, state) ==
    LET e == Snap(p).event IN
    /\ IF Current(p)
       THEN job' = [job EXCEPT ![e].state = state] /\ line' = Without(e)
       ELSE UNCHANGED <<job, line>>
    /\ Done(p)
    /\ UNCHANGED <<ledgerVars, inbox, writer, readers, faults>>

(* The source as visibleHypothesisNoticeSql, or redacted_at alone, shows it. *)
Live(e) == source[e] = "public" /\ control[e] # "hidden"

(* Redacted when the pass began, or hypothesis evidence not available now.   *)
Check(p) ==
    LET e == Snap(p).event IN
    /\ At(p, "job")
    /\ passes' = [passes EXCEPT ![p].at =
           IF Snap(p).redacted \/ (Kind[e] = "hypothesis" /\ ~Live(e)) THEN "gone" ELSE "template"]
    /\ UNCHANGED <<ledgerVars, job, line, inbox, writer, readers, faults>>

(* SOURCE_WITHDRAWN. *)
Suppress(p) ==
    /\ At(p, "gone")
    /\ ~Live(Snap(p).event)
    /\ Dispose(p, "suppressed")

(* The source has been restored in between: its job waits for another pass.  *)
Spare(p) ==
    /\ At(p, "gone")
    /\ Live(Snap(p).event)
    /\ Done(p)
    /\ UNCHANGED <<ledgerVars, job, line, inbox, writer, readers, faults>>

(* templateFor finds no valid source. *)
Invalid(e) == e \in Corrupt \/ (Kind[e] = "hypothesis" /\ ~Live(e))

Quarantine(p) ==
    /\ At(p, "template")
    /\ Invalid(Snap(p).event)
    /\ Dispose(p, "quarantined")

(* The recipients behind the cursor, in order; one more than a page is read. *)
Candidates(e, after) == {f \in Fellows : Recipient(f, e) /\ f > after}
Rank(f, S) == Cardinality({g \in S : g <= f})
Page(S) == {f \in S : Rank(f, S) <= PageSize}

ReadPage(p) ==
    LET candidates == Candidates(Snap(p).event, Snap(p).after) IN
    /\ At(p, "template")
    /\ ~Invalid(Snap(p).event)
    /\ passes' = [passes EXCEPT ![p].at = "page", ![p].page = Page(candidates),
                                ![p].more = Cardinality(candidates) > PageSize]
    /\ UNCHANGED <<ledgerVars, job, line, inbox, writer, readers, faults>>

\* Mutant: the election does not look at the source again.
Elected_Blind(p) == Current(p)
Elected(p) == Current(p) /\ Live(Snap(p).event)

\* Mutant: the cursor moves to the last candidate read, which is beyond the page.
Advanced_BeyondPage(after, page) == Max({after} \cup {f \in Fellows : \E g \in page : f <= g + 1})
Advanced(after, page) == Max({after} \cup page)

\* Mutant: a stamped job keeps its place.
Stamped_InPlace(e, p) == line
(* updated_at = the start of the pass: among the others that it stamped,     *)
(* behind whatever nobody touched since.                                     *)
Stamped(e, p) ==
    LET rest == Without(e)
        i == CHOOSE k \in 1..Len(rest) : rest[k] = p IN
    InsertAt(rest, i, e)

(* deliveryStatements, one batch: elect, notify those who still qualify,     *)
(* and advance.  An election that is lost makes the rest void.               *)
Batch(p) ==
    LET e == Snap(p).event
        w == passes[p] IN
    IF Elected(p)
    THEN /\ Notify({f \in w.page : Recipient(f, e)}, e)
         /\ job' = [job EXCEPT ![e] = [state |-> IF w.more THEN "pending" ELSE "delivered",
                                       after |-> Advanced(Snap(p).after, w.page)]]
         /\ line' = IF w.more THEN Stamped(e, p) ELSE Without(e)
    ELSE UNCHANGED <<inbox, job, line>>

Deliver(p) ==
    /\ At(p, "page")
    /\ Snap(p).event \notin Poison
    /\ Batch(p)
    /\ Done(p)
    /\ UNCHANGED <<ledgerVars, writer, readers, faults>>

Fault == faults < MaxFaults /\ faults' = faults + 1

(* The batch commits and its answer is lost. *)
LoseAnswer(p) ==
    /\ At(p, "page")
    /\ Snap(p).event \notin Poison
    /\ Fault
    /\ Batch(p)
    /\ passes' = [passes EXCEPT ![p].at = "failed"]
    /\ UNCHANGED <<ledgerVars, writer, readers>>

(* A read or a batch of the job fails: always, for a poisoned batch.         *)
Fail(p) ==
    /\ \/ At(p, "page") /\ Snap(p).event \in Poison /\ UNCHANGED faults
       \/ Fault /\ passes[p].at \in {"job", "gone", "template", "page"} /\ passes[p].jobs # {}
    /\ passes' = [passes EXCEPT ![p].at = "failed"]
    /\ UNCHANGED <<ledgerVars, job, line, inbox, writer, readers>>

(* The failed job goes behind the others, unless that fails as well.         *)
Rotate(p) ==
    /\ At(p, "failed")
    /\ \/ /\ line' = IF Current(p) THEN Stamped(Snap(p).event, p) ELSE line
          /\ UNCHANGED faults
       \/ Fault /\ UNCHANGED line
    /\ Done(p)
    /\ UNCHANGED <<ledgerVars, job, inbox, writer, readers>>

Ended(p) ==
    /\ passes' = [passes EXCEPT ![p] = NoPass]
    /\ line' = Without(p)
    /\ UNCHANGED <<ledgerVars, job, inbox, writer, readers>>

End(p) == passes[p].at = "job" /\ passes[p].jobs = {} /\ Ended(p) /\ UNCHANGED faults

(* The Worker dies. *)
Crash(p) == passes[p].at # "idle" /\ Fault /\ Ended(p)

-----------------------------------------------------------------------------
(* Clients *)

(* VISIBLE_INBOX_NOTICE_SQL: a notice about a hypothesis follows its source. *)
Visible(n) == Kind[n.event] # "hypothesis" \/ Live(n.event)

(* getInboxNotices after the client's cursor; it adopts next_cursor.         *)
Poll(f) ==
    LET fresh == {n \in inbox[f] : n.seq > readers[f].cursor /\ Visible(n)}
        page == {n \in fresh : Cardinality({m \in fresh : m.seq < n.seq}) < ReadLimit} IN
    /\ page # {}
    /\ readers' = [readers EXCEPT ![f] =
           [cursor |-> Max({n.seq : n \in page}), seen |-> @.seen \cup {n.event : n \in page}]]
    /\ UNCHANGED <<ledgerVars, job, line, inbox, passes, writer, faults>>

(* ackInboxNotices until the cursor. *)
Acknowledge(f) ==
    /\ inbox' = [inbox EXCEPT ![f] =
           {IF n.seq <= readers[f].cursor /\ Visible(n) THEN [n EXCEPT !.acked = TRUE] ELSE n : n \in @}]
    /\ inbox' # inbox
    /\ UNCHANGED <<ledgerVars, job, line, passes, writer, readers, faults>>

-----------------------------------------------------------------------------

Step(p) ==
    \/ Check(p) \/ Suppress(p) \/ Spare(p) \/ Quarantine(p) \/ ReadPage(p)
    \/ Deliver(p) \/ Fail(p) \/ Rotate(p) \/ End(p)

Next ==
    \/ \E e \in Events : Publish(e) \/ Withdraw(e) \/ Moderate(e) \/ List(e)
    \/ \E e \in Events, f \in Fellows : NotifyFollower(e, f)
    \/ \E f \in Fellows : Follow(f) \/ Unfollow(f) \/ Poll(f) \/ Acknowledge(f)
    \/ \E p \in Passes : Begin(p) \/ Step(p) \/ LoseAnswer(p) \/ Crash(p)

(* Cron keeps starting passes, and a pass that runs goes on.                 *)
Fairness == \A p \in Passes : WF_vars(Begin(p)) /\ WF_vars(Step(p))

Spec == Init /\ [][Next]_vars /\ Fairness

-----------------------------------------------------------------------------
(* Properties *)

(* Every cell holds a value of its kind; a notice's cursor is positive, as   *)
(* the receipt of createInboxNotice requires (store.ts:307).                 *)
TypeOK ==
    /\ source \in [Events -> {"absent", "public", "redacted", "withdrawn"}]
    /\ control \in [Events -> {"none", "hidden", "visible"}]
    /\ job \in [Events -> [state : {"absent", "pending", "delivered", "suppressed", "quarantined"},
                           after : Fellows \cup {0}]]
    /\ line \in Seq(Events \cup Passes)
    /\ follows \in [Fellows -> [stamp : Int, made : Int]]
    /\ inbox \in [Fellows -> SUBSET [seq : Nat \ {0}, event : Events, acked : BOOLEAN]]
    /\ passes \in [Passes -> [at : {"idle", "job", "gone", "template", "page", "failed"},
                              jobs : SUBSET [place : 1..JobLimit, event : Events, after : Fellows \cup {0},
                                             redacted : BOOLEAN],
                              page : SUBSET Fellows, more : BOOLEAN]]
    /\ writer \in [Events -> [due : BOOLEAN, left : SUBSET Fellows]]
    /\ readers \in [Fellows -> [cursor : Nat, seen : SUBSET Events]]
    /\ faults \in 0..MaxFaults
    /\ changes \in 0..MaxChanges

(* event-delivery.ts:319-322: retries and overlapping passes skip nobody.    *)
(* Whoever the cursor of a job has passed, or every recipient once the job   *)
(* is delivered, has the notice, if the subscription that the job looks for  *)
(* was there when the event was appended and still is.                       *)
Passed(f, e) == job[e].state = "delivered" \/ f <= job[e].after
(* A recipient whose subscription was there when the event was appended.     *)
LongStanding(f, e) == Recipient(f, e) /\ (Kind[e] = "revision" => follows[f].made < e)
NobodySkipped ==
    \A e \in Published, f \in Fellows : Passed(f, e) /\ LongStanding(f, e) => Told(f, e)

(* notice-write.ts:4-8: a client that polls with a cursor skips no notice    *)
(* that it may see, and never acknowledges one that it has not read.  The    *)
(* exception is a notice whose source has been hidden: the cursor may have   *)
(* passed it by then, and a restore puts it behind.                          *)
PollsMissNothing ==
    \A f \in Fellows : \A n \in inbox[f] :
        control[n.event] = "none" /\ ((n.seq <= readers[f].cursor /\ Visible(n)) \/ n.acked)
            => n.event \in readers[f].seen

(* event-delivery.ts:51-53: whatever a pass read, and however long ago, its  *)
(* batch notifies of no source that is gone, and only those who qualify.     *)
PassesTellOnlyRecipients ==
    [][\A e \in Events, f \in Fellows :
          (~Told(f, e) /\ Told(f, e)') => (Recipient(f, e) /\ Live(e)) \/ f \in writer[e].left]_vars

(* A stale pass neither reopens a settled job nor moves a cursor back.       *)
ProgressIsKept ==
    [][\A e \in Published :
          /\ job[e].state # "pending" => job'[e] = job[e]
          /\ job'[e].after >= job[e].after]_vars

(* event-delivery.ts:319-322, in full: the queue with its passes, and the    *)
(* requests that notify by themselves, are a fan-out that skips nobody,      *)
(* takes nothing back and stays closed.                                      *)
Stage(e) ==
    CASE source[e] = "absent" -> "absent"
      [] source[e] # "absent" /\ job[e].state = "pending" -> "open"
      [] source[e] # "absent" /\ job[e].state = "delivered" -> "complete"
      [] OTHER -> "dropped"
Owed(e) == {f \in Fellows : source[e] # "absent" /\ LongStanding(f, e)}
Promise == INSTANCE FanOut WITH
    stage <- [e \in Events |-> Stage(e)],
    reached <- [e \in Events |-> job[e].after],
    owed <- [e \in Events |-> Owed(e)],
    told <- [e \in Events |-> {f \in Fellows : Told(f, e)}]
ImplementsFanOut == Promise!Spec

(* event-delivery.ts:319: one failed or corrupt source cannot starve other   *)
(* jobs.                                                                     *)
HealthyJobsSettle ==
    \A e \in Events \ Poison : (job[e].state = "pending") ~> (job[e].state # "pending")
=============================================================================
