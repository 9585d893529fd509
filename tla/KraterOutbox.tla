---------------------------- MODULE KraterOutbox ----------------------------
(***************************************************************************)
(* The handoff of public claims to the search index: outbox rows in D1,    *)
(* drained by the singleton Durable Object of krater/outbox-do.ts.         *)
(*                                                                         *)
(* A drain runs under blockConcurrencyWhile, so commands and alarms wait   *)
(* for it to end; the ledger's own writes to D1 do not, and interleave     *)
(* with each of its statements.  A row is named by its outbox id, and the  *)
(* event it hands off by the same number, in commit order.                 *)
(*                                                                         *)
(* Not modelled: diagnostic counters, the sweep of legacy quarantine keys, *)
(* and the harness route that plants a stale wrap.                         *)
(***************************************************************************)
EXTENDS Integers, Sequences, FiniteSetsExt

CONSTANTS
    Claims,
    NoClaim,       \* what a legacy job that hands off no claim event is about
    Legacy,        \* how many such jobs are pending at the start
    DrainBatch,    \* OUTBOX_DRAIN_BATCH_SIZE
    ReclaimBatch,  \* OUTBOX_ATTEMPT_RECLAIM_BATCH_SIZE
    MaxRows,       \* bound: outbox rows
    MaxCommands,   \* bound: nudges and direct drains
    MaxMishaps     \* bound: crashes, failures, redactions, restores, corruptions

ASSUME OutboxConstants ==
    /\ NoClaim \notin Claims
    /\ Legacy \in 0..MaxRows
    /\ DrainBatch \in Nat \ {0}
    /\ ReclaimBatch \in Nat \ {0}
    /\ MaxRows \in Nat /\ MaxCommands \in Nat /\ MaxMishaps \in Nat

VARIABLES
    \* D1
    rows,         \* outbox rows: claim handed off, state, is the digest well formed
    redacted,     \* events whose content is withdrawn
    fts,          \* public_claim_fts: the event whose statement is indexed, 0 if none
    \* Durable Object storage
    cursor,       \* scan_after_id
    wrap,         \* scan_wrap_through_id, 0 if absent
    alarm,        \* "none", "hot" (at most 2 s away) or "idle" (5 minutes)
    attempts,     \* rows with an attempt tally
    reclaimAfter, \* attempt_reclaim_after, 0 if absent
    \* the drain under way
    phase, source, page, scanAfter, needsAlarm,
    \* bounds
    commands, mishaps

handoffVars == <<rows, redacted, fts>>
sweepVars == <<attempts, reclaimAfter>>
drainVars == <<phase, source, page, scanAfter, needsAlarm>>
boundVars == <<commands, mishaps>>
outboxVars == <<rows, redacted, fts, cursor, wrap, alarm, attempts, reclaimAfter,
          phase, source, page, scanAfter, needsAlarm, commands, mishaps>>

Row(claim) == [claim |-> claim, state |-> "pending", sound |-> TRUE]

OutboxInit ==
    /\ rows = [i \in 1..Legacy |-> Row(NoClaim)]
    /\ redacted = {}
    /\ fts = [c \in Claims |-> 0]
    /\ cursor = 0 /\ wrap = 0
    /\ alarm = "none"
    /\ attempts = {} /\ reclaimAfter = 0
    /\ phase = "idle" /\ source = "none"
    /\ page = {} /\ scanAfter = 0 /\ needsAlarm = FALSE
    /\ commands = 0 /\ mishaps = 0

Pending == {i \in DOMAIN rows : rows[i].state = "pending"}

\* ORDER BY id LIMIT n: the first n elements of a set of ids.
FirstOf(n, S) == {i \in S : Cardinality({j \in S : j < i}) < n}

\* pendingRows; through = 0 leaves the interval open.
PendingRows(after, through) ==
    FirstOf(DrainBatch, {i \in Pending : i > after /\ (through # 0 => i <= through)})

HeadOf(c) == Max({i \in DOMAIN rows : rows[i].claim = c} \cup {0})

Superseded(i) == rows[i].claim \in Claims /\ i < HeadOf(rows[i].claim)

-----------------------------------------------------------------------------
(* The ledger and the rest of the system *)

(* writeClaim or writeClaimRevision: the claim's head and its outbox row. *)
Commit(c) ==
    /\ Len(rows) < MaxRows
    /\ rows' = Append(rows, Row(c))
    /\ UNCHANGED <<redacted, fts, cursor, wrap, alarm, sweepVars, drainVars, boundVars>>

(* rebuildPublicClaimFts. *)
RebuildPublicClaimFts ==
    /\ commands < MaxCommands
    /\ commands' = commands + 1
    /\ fts' = [c \in Claims |-> HeadOf(c)]
    /\ UNCHANGED <<rows, redacted, cursor, wrap, alarm, sweepVars, drainVars, mishaps>>

Mishap ==
    /\ mishaps < MaxMishaps
    /\ mishaps' = mishaps + 1
    /\ UNCHANGED commands

(* redactEventContent. *)
Redact(i) ==
    /\ Mishap
    /\ i \in DOMAIN rows \ redacted
    /\ redacted' = redacted \cup {i}
    /\ UNCHANGED <<rows, fts, cursor, wrap, alarm, sweepVars, drainVars>>

(* A pending row is corrupted under the drain (plantMalformedOutboxForHarness). *)
PlantMalformed(i) ==
    /\ Mishap
    /\ i \in Pending /\ rows[i].sound
    /\ rows' = [rows EXCEPT ![i].sound = FALSE]
    /\ UNCHANGED <<redacted, fts, cursor, wrap, alarm, sweepVars, drainVars>>

(* A restore of D1 makes a delivered row pending again, whatever the cursor. *)
RestoreRow(i) ==
    /\ Mishap
    /\ i \in DOMAIN rows /\ rows[i].state = "delivered"
    /\ rows' = [rows EXCEPT ![i].state = "pending"]
    /\ UNCHANGED <<redacted, fts, cursor, wrap, alarm, sweepVars, drainVars>>

-----------------------------------------------------------------------------
(* How a drain starts and ends *)

Begin(how) ==
    /\ phase = "idle"
    /\ phase' = "sweep" /\ source' = how
    /\ UNCHANGED <<handoffVars, cursor, wrap, sweepVars, page, scanAfter, needsAlarm, mishaps>>

AlarmFires ==
    /\ alarm # "none"
    /\ Begin("alarm")
    /\ alarm' = "none"
    /\ UNCHANGED commands

Command ==
    /\ commands < MaxCommands
    /\ commands' = commands + 1

DrainNow == Command /\ Begin("fetch") /\ UNCHANGED alarm

(* /nudge: best effort after a commit, and from the five-minute cron. *)
Nudge ==
    /\ Command
    /\ phase = "idle"
    /\ alarm' = "hot"
    /\ UNCHANGED <<handoffVars, cursor, wrap, sweepVars, drainVars, mishaps>>

EndDrain ==
    /\ phase' = "idle" /\ source' = "none"
    /\ page' = {} /\ scanAfter' = 0 /\ needsAlarm' = FALSE

(* The catch of drain: the alarm is armed for a retry, nothing else is kept. *)
DrainFails ==
    /\ Mishap
    /\ phase # "idle"
    /\ alarm' = "hot"
    /\ EndDrain
    /\ UNCHANGED <<handoffVars, cursor, wrap, sweepVars>>

(* The object is evicted mid-drain; the runtime retries a failed alarm. *)
Evict ==
    /\ Mishap
    /\ phase # "idle"
    /\ alarm' = IF source = "alarm" THEN "hot" ELSE alarm
    /\ EndDrain
    /\ UNCHANGED <<handoffVars, cursor, wrap, sweepVars>>

-----------------------------------------------------------------------------
(* The steps of a drain *)

(* One page of attempt tallies, in key order from the lexical cursor: those  *)
(* whose row is not pending any more are deleted.                            *)
ReclaimAttemptKeys ==
    LET keys == FirstOf(ReclaimBatch, {i \in attempts : i > reclaimAfter})
        full == Cardinality(keys) = ReclaimBatch
    IN
    /\ attempts' = attempts \ {i \in keys : i \notin Pending}
    /\ reclaimAfter' = IF full THEN Max(keys) ELSE 0
    /\ needsAlarm' = full

(* The sweep never fails the drain: a failed sweep asks for a hot alarm. *)
Sweep ==
    /\ phase = "sweep"
    /\ phase' = "select"
    /\ \/ ReclaimAttemptKeys /\ UNCHANGED boundVars
       \/ Mishap /\ needsAlarm' = TRUE /\ UNCHANGED sweepVars
    /\ UNCHANGED <<handoffVars, cursor, wrap, alarm, source, page, scanAfter>>

(* The next page of pending rows.  A wrap marker at or behind the cursor is  *)
(* discarded with it, and a cursor with nothing beyond it restarts once.     *)
Select ==
    LET stale == wrap # 0 /\ cursor >= wrap
        through == IF stale THEN 0 ELSE wrap
        after == IF stale THEN 0 ELSE cursor
        restart == through = 0 /\ PendingRows(after, 0) = {}
        from == IF restart THEN 0 ELSE after
    IN
    /\ phase = "select"
    /\ wrap' = through
    /\ cursor' = from
    /\ scanAfter' = from
    /\ page' = {[id |-> i, sound |-> rows[i].sound] : i \in PendingRows(from, through)}
    /\ phase' = "row"
    /\ UNCHANGED <<handoffVars, alarm, sweepVars, source, needsAlarm, boundVars>>

\* The drain works through its page in the order of the ids.
Current == CHOOSE row \in page : \A other \in page : row.id <= other.id

\* Mutant: the update is keyed by the row id alone.
Unchanged_ById(row) == rows[row.id].state = "pending"

(* The compare-and-set of quarantine and acknowledge: the row is still       *)
(* pending and still the tuple this drain selected.                          *)
Unchanged(row) == rows[row.id].state = "pending" /\ rows[row.id].sound = row.sound

NextRow ==
    /\ scanAfter' = Current.id
    /\ page' = page \ {Current}
    /\ phase' = "row"

Quarantine ==
    /\ IF Unchanged(Current)
       THEN /\ rows' = [rows EXCEPT ![Current.id].state = "quarantined"]
            /\ attempts' = attempts \ {Current.id}
       ELSE UNCHANGED <<rows, attempts>>
    /\ NextRow
    /\ UNCHANGED <<redacted, fts, cursor, wrap, alarm, reclaimAfter, source, needsAlarm, boundVars>>

(* validateOutboxRow. *)
QuarantineMalformed ==
    /\ phase = "row" /\ page # {} /\ ~Current.sound
    /\ Quarantine

RecordAttempt ==
    /\ phase = "row" /\ page # {} /\ Current.sound
    /\ attempts' = attempts \cup {Current.id}
    /\ phase' = "source"
    /\ UNCHANGED <<handoffVars, cursor, wrap, alarm, reclaimAfter, source, page, scanAfter,
                   needsAlarm, boundVars>>

\* Mutant: a superseded event is indexed all the same.
SourceOf_IgnoresHead(i) ==
    IF rows[i].claim \notin Claims THEN "invalid"
    ELSE IF i \in redacted THEN "retired"
    ELSE "valid"

(* applySearchIndexEffect's reads: the event must be its claim's head and    *)
(* not withdrawn.  An overtaken or withdrawn handoff is retired without an   *)
(* effect, anything else is an invalid source.                               *)
SourceOf(i) ==
    IF rows[i].claim \notin Claims THEN "invalid"
    ELSE IF Superseded(i) \/ i \in redacted THEN "retired"
    ELSE "valid"

ReadSource ==
    /\ phase = "source"
    /\ phase' = CASE SourceOf(Current.id) = "valid" -> "apply"
               [] SourceOf(Current.id) = "retired" -> "ack"
               [] OTHER -> "refuse"
    /\ UNCHANGED <<handoffVars, cursor, wrap, alarm, sweepVars, source, page, scanAfter,
                   needsAlarm, boundVars>>

QuarantineSource == phase = "refuse" /\ Quarantine

(* The FTS batch, with the statement read before it. *)
ApplyEffect ==
    /\ phase = "apply"
    /\ fts' = [fts EXCEPT ![rows[Current.id].claim] = Current.id]
    /\ phase' = "ack"
    /\ UNCHANGED <<rows, redacted, cursor, wrap, alarm, sweepVars, source, page, scanAfter,
                   needsAlarm, boundVars>>

(* The harness faults hold-before-ack and fail-once. *)
HoldBeforeAck ==
    /\ Mishap
    /\ phase = "ack"
    /\ cursor' = scanAfter
    /\ alarm' = "hot"
    /\ EndDrain
    /\ UNCHANGED <<handoffVars, wrap, sweepVars>>

Acknowledge ==
    /\ phase = "ack"
    /\ attempts' = attempts \ {Current.id}
    /\ IF Unchanged(Current)
       THEN /\ rows' = [rows EXCEPT ![Current.id].state = "delivered"]
            /\ NextRow
            /\ UNCHANGED <<cursor, alarm, source, needsAlarm>>
       ELSE /\ cursor' = scanAfter
            /\ alarm' = "hot"
            /\ EndDrain
            /\ UNCHANGED rows
    /\ UNCHANGED <<redacted, fts, wrap, reclaimAfter, boundVars>>

(* The acknowledgement commits, and the object dies before the tally is      *)
(* deleted.                                                                  *)
AcknowledgeThenCrash ==
    /\ phase = "ack" /\ Unchanged(Current)
    /\ Mishap
    /\ rows' = [rows EXCEPT ![Current.id].state = "delivered"]
    /\ alarm' = IF source = "alarm" THEN "hot" ELSE alarm
    /\ EndDrain
    /\ UNCHANGED <<redacted, fts, cursor, wrap, sweepVars>>

PersistCursor ==
    /\ phase = "row" /\ page = {}
    /\ cursor' = scanAfter
    /\ phase' = "finish"
    /\ UNCHANGED <<handoffVars, wrap, alarm, sweepVars, source, page, scanAfter, needsAlarm,
                   boundVars>>

\* Mutants: an empty snapshot clears the alarm, or is polled as hard as work.
IdleAlarm_Cleared == IF needsAlarm THEN "hot" ELSE "none"
IdleAlarm_Hot == "hot"

IdleAlarm == IF needsAlarm THEN "hot" ELSE "idle"

(* The object arms its alarm, or dies after the storage writes before it. *)
Arm(which) ==
    \/ alarm' = which /\ UNCHANGED boundVars
    \/ Mishap /\ alarm' = IF source = "alarm" THEN "hot" ELSE alarm

(* After the page: more work in this interval, the end of a wrapped          *)
(* interval, the start of one, or nothing left.                              *)
Finish ==
    /\ phase = "finish"
    /\ LET more == PendingRows(scanAfter, wrap) # {} IN
       \/ more /\ UNCHANGED <<cursor, wrap>> /\ Arm("hot") /\ EndDrain
       \/ /\ ~more /\ wrap # 0
          /\ wrap' = 0 /\ cursor' = wrap
          /\ phase' = "wrapped"
          /\ UNCHANGED <<alarm, source, page, scanAfter, needsAlarm, boundVars>>
       \/ /\ ~more /\ wrap = 0 /\ scanAfter # 0
          /\ cursor' = 0 /\ wrap' = scanAfter
          /\ Arm("hot") /\ EndDrain
       \/ /\ ~more /\ wrap = 0 /\ scanAfter = 0
          /\ UNCHANGED <<cursor, wrap>>
          /\ Arm(IdleAlarm) /\ EndDrain
    /\ UNCHANGED <<handoffVars, sweepVars>>

(* A finished wrap: rows beyond it are next, and a row that reappeared below *)
(* it, which only a restore can cause, restarts the scan from the beginning. *)
EndWrap ==
    /\ phase = "wrapped"
    /\ cursor' = IF PendingRows(cursor, 0) = {} /\ Pending # {} THEN 0 ELSE cursor
    /\ Arm(IF Pending # {} THEN "hot" ELSE IdleAlarm)
    /\ EndDrain
    /\ UNCHANGED <<handoffVars, wrap, sweepVars>>

DrainStep ==
    \/ Sweep \/ Select \/ QuarantineMalformed \/ RecordAttempt \/ ReadSource
    \/ QuarantineSource \/ ApplyEffect \/ Acknowledge \/ PersistCursor \/ Finish \/ EndWrap

OutboxEnvironment ==
    \/ \E c \in Claims : Commit(c)
    \/ \E i \in DOMAIN rows : Redact(i) \/ PlantMalformed(i) \/ RestoreRow(i)
    \/ RebuildPublicClaimFts \/ Nudge \/ DrainNow
    \/ DrainFails \/ Evict \/ HoldBeforeAck \/ AcknowledgeThenCrash

OutboxNext == AlarmFires \/ DrainStep \/ OutboxEnvironment

OutboxSpec == OutboxInit /\ [][OutboxNext]_outboxVars

(* An armed alarm fires and a drain that is not killed runs on.  Nothing is  *)
(* assumed of nudges: they are best effort.                                  *)
OutboxFairness == WF_outboxVars(AlarmFires) /\ WF_outboxVars(DrainStep)

-----------------------------------------------------------------------------
(* Once the handoff of a claim's newest event is delivered, the index holds  *)
(* that event's statement and nothing older, unless its content has been     *)
(* withdrawn, however often older rows are replayed after it.                *)
DeliveredHeadIsIndexed ==
    \A c \in Claims :
        LET h == HeadOf(c) IN
        h # 0 /\ h \notin redacted /\ rows[h].state = "delivered" => fts[c] = h

(* A sound handoff of a claim is never quarantined, even if it is overtaken  *)
(* or withdrawn while it waits; a corrupt one or one without a claim is      *)
(* never recorded as delivered.                                              *)
OnlyBadRowsQuarantined ==
    \A i \in DOMAIN rows :
        /\ rows[i].state = "quarantined" => ~rows[i].sound \/ rows[i].claim = NoClaim
        /\ rows[i].state = "delivered" => rows[i].sound /\ rows[i].claim # NoClaim

(* Once any nudge has armed the alarm, every pending row reaches a terminal  *)
(* state without another one: neither the scan cursor, the wrapped interval, *)
(* a failed drain nor a commit that no nudge followed can strand a row.      *)
EveryRowDrains ==
    <>(alarm # "none") => \A i \in 1..MaxRows : i \in Pending ~> i \notin Pending

(* With nothing left to do the drainer falls back to the five-minute alarm:  *)
(* neither a wrap nor a sweep keeps it polling.                              *)
EventuallyQuiet == <>[](alarm # "hot")
=============================================================================
