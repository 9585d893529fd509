-------------------------- MODULE SessionLifecycle --------------------------
(***************************************************************************)
(* Work sessions of the Fellows on one problem, and the leases they hold:  *)
(* sessions/idle.ts, sessions/implicit-session.ts and the session and      *)
(* lease routes of sessions/router-core.ts.                                *)
(*                                                                         *)
(* A session is open until its Fellow closes it, the idle sweep retires    *)
(* it, or, if a direct append opened it, the last direct append that uses  *)
(* it gives back its count.  A request reads the clock of its Worker and   *)
(* the rows in one step and runs its batch in a later one; the D1 clock,   *)
(* the rows and the credential may all have changed in between.            *)
(***************************************************************************)
EXTENDS Integers, Sequences, FiniteSets

CONSTANTS
    Requests,     \* HTTP requests of Fellows
    OpOf,         \* the route of each
    FellowOf,     \* the Fellow of each
    ObjectOf,     \* the public object an acquisition is about
    ParallelOf,   \* whether it asks for a parallel-safe lease
    Sweepers,     \* scheduled idle sweeps that may overlap
    ShortIdle,    \* 30 minutes: a session a direct append uses, a holder seen lately
    LeaseTerm,    \* two hours
    LongIdle,     \* SESSION_IDLE_MS, twelve hours: an explicit session
    Skew,         \* how far the clock of a Worker may run ahead of D1's
    MaxTime,      \* bounds the clock
    MaxFaults     \* bounds crashes and lost answers

Ops == {"open", "append", "heartbeat", "acquire", "release", "challenge", "close"}

ASSUME SessionConstants ==
    /\ IsFiniteSet(Requests)
    /\ OpOf \in [Requests -> Ops]
    /\ ParallelOf \in [Requests -> BOOLEAN]
    /\ ShortIdle \in Nat /\ LeaseTerm \in Nat /\ LongIdle \in Nat /\ Skew \in Nat
    /\ MaxTime \in Nat /\ MaxFaults \in Nat

VARIABLES
    now,        \* the clock of D1
    sessions,   \* the sessions, in the order they were opened
    leases,     \* the leases, in the order they were acquired
    handbacks,  \* leases with a lease.released event in the ledger
    revoked,    \* Fellows whose credential has been revoked
    pc, task,   \* the requests
    sweep,      \* the sessions each sweeper has selected and not yet treated
    faults

rowVars == <<sessions, leases, handbacks>>
vars == <<now, sessions, leases, handbacks, revoked, pc, task, sweep, faults>>

Fellows == {FellowOf[r] : r \in Requests}

(* What a request remembers: its timestamp, a session, a lease, rows it read, *)
(* and whether it has tried to create a session before.                       *)
Memo(at, s, l, seen) == [at |-> at, session |-> s, lease |-> l, seen |-> seen, again |-> FALSE]
Again(again) == [at |-> 0, session |-> 0, lease |-> 0, seen |-> {}, again |-> again]
Note(at, s, l) == Memo(at, s, l, {})
Blank == Note(0, 0, 0)

Init ==
    /\ now = 0
    /\ sessions = <<>>
    /\ leases = <<>>
    /\ handbacks = {}
    /\ revoked = {}
    /\ pc = [r \in Requests |-> "start"]
    /\ task = [r \in Requests |-> Blank]
    /\ sweep = [w \in Sweepers |-> {}]
    /\ faults = 0

-----------------------------------------------------------------------------
(* Sessions *)

Open(s) == sessions[s].end = "open"

\* Open, and before its idle deadline by the clock of D1.
Joinable(s) == Open(s) /\ sessions[s].idle > now

OwnOpen(f) == {s \in DOMAIN sessions : sessions[s].fellow = f /\ Open(s)}

(* A session as the route or a direct append inserts it: `beat' is its       *)
(* last_heartbeat_at, `idle' its idle_close_at, and `lost' counts the direct *)
(* appends that can no longer give their count back.                         *)
NewSession(f, isImplicit, at) ==
    [fellow |-> f, implicit |-> isImplicit, inflight |-> IF isImplicit THEN 1 ELSE 0,
     lost |-> 0, beat |-> at, idle |-> at + IF isImplicit THEN ShortIdle ELSE LongIdle,
     end |-> "open"]

\* The leases of session s, retired with the given status.
Retired(s, from, status) ==
    [l \in DOMAIN leases |->
        IF leases[l].session = s /\ leases[l].status \in from
        THEN [leases[l] EXCEPT !.status = status] ELSE leases[l]]

Later(a, b) == IF a > b THEN a ELSE b

-----------------------------------------------------------------------------
(* Requests *)

Goto(r, where, what) ==
    /\ pc' = [pc EXCEPT ![r] = where]
    /\ task' = [task EXCEPT ![r] = what]

Done(r) == Goto(r, "done", Blank)

\* What a Worker's clock may show.
WorkerClock == now..(now + Skew)

\* Sessions get a deadline only while the bounded clock can still reach it.
Reachable(deadline) == deadline <= MaxTime

Fault == faults < MaxFaults /\ faults' = faults + 1

-----------------------------------------------------------------------------
(* The idle sweep *)

\* Mutant: a session that counts direct appends is left to their releases.
Selectable_Unused(s, at) == Open(s) /\ sessions[s].idle <= at /\ sessions[s].inflight = 0

Selectable(s, at) == Open(s) /\ sessions[s].idle <= at

(* The sessions a Worker whose clock shows `at' selects, with the deadline   *)
(* it has seen.                                                              *)
Selected(fs, at) ==
    {[session |-> s, deadline |-> sessions[s].idle] :
        s \in {s \in DOMAIN sessions : sessions[s].fellow \in fs /\ Selectable(s, at)}}

\* Mutant: the batch only requires the session to be open.
StillIdle_Open(i) == Open(i.session)

\* STILL_IDLE: the deadline is still the one the sweep has seen pass.
StillIdle(i) == Open(i.session) /\ sessions[i.session].idle = i.deadline

(* IDLE_SESSION_LEASES_SQL and IDLE_SESSION_CLOSE_SQL in one batch. *)
CloseIdle(i) ==
    IF StillIdle(i)
    THEN /\ sessions' = [sessions EXCEPT ![i.session].end = "idle"]
         /\ leases' = Retired(i.session, {"active", "challenged"}, "expired")
    ELSE UNCHANGED <<sessions, leases>>

Select(w) ==
    /\ sweep[w] = {}
    /\ \E at \in WorkerClock :
          /\ Selected(Fellows, at) # {}
          /\ sweep' = [sweep EXCEPT ![w] = Selected(Fellows, at)]
    /\ UNCHANGED <<now, rowVars, revoked, pc, task, faults>>

CloseNext(w) ==
    \E i \in sweep[w] :
        /\ CloseIdle(i)
        /\ sweep' = [sweep EXCEPT ![w] = @ \ {i}]
        /\ UNCHANGED <<now, handbacks, revoked, pc, task, faults>>

\* A batch throws, or the Worker dies: the rest waits for the next tick.
SweepFails(w) ==
    /\ sweep[w] # {}
    /\ Fault
    /\ sweep' = [sweep EXCEPT ![w] = {}]
    /\ UNCHANGED <<now, rowVars, revoked, pc, task>>

-----------------------------------------------------------------------------
(* Opening a session, explicitly or by a direct append *)

(* Either way the Fellow's own abandoned sessions are swept first. *)
SelectOwn(r) ==
    /\ pc[r] = "start" /\ OpOf[r] \in {"open", "append"}
    /\ \E at \in WorkerClock :
          Goto(r, "retire", Memo(0, 0, 0, Selected({FellowOf[r]}, at)))
    /\ UNCHANGED <<now, rowVars, revoked, sweep, faults>>

RetireOwn(r) ==
    /\ pc[r] = "retire"
    /\ \/ \E i \in task[r].seen :
             CloseIdle(i) /\ Goto(r, "retire", [task[r] EXCEPT !.seen = @ \ {i}])
       \/ /\ task[r].seen = {}
          /\ Goto(r, IF OpOf[r] = "open" THEN "admit" ELSE "find", Blank)
          /\ UNCHANGED <<sessions, leases>>
    /\ UNCHANGED <<now, handbacks, revoked, sweep, faults>>

Admit(r) ==
    /\ pc[r] = "admit" /\ OpOf[r] = "open"
    /\ \E at \in WorkerClock :
          /\ Reachable(at + LongIdle)
          /\ IF OwnOpen(FellowOf[r]) = {}
             THEN Goto(r, "commit", Note(at, 0, 0))
             ELSE Done(r)
    /\ UNCHANGED <<now, rowVars, revoked, sweep, faults>>

CommitOpen(r) ==
    /\ pc[r] = "commit" /\ OpOf[r] = "open"
    /\ IF OwnOpen(FellowOf[r]) = {} /\ FellowOf[r] \notin revoked
       THEN sessions' = Append(sessions, NewSession(FellowOf[r], FALSE, task[r].at))
       ELSE UNCHANGED sessions
    /\ Done(r)
    /\ UNCHANGED <<now, leases, handbacks, revoked, sweep, faults>>

(* joinOpenSession: the Fellow's open session, with the timestamps the join  *)
(* would give it.  Without one a first attempt creates a session, and one    *)
(* that has already lost a creation starts over.                             *)
Find(r) ==
    /\ pc[r] = "find"
    /\ \E at \in WorkerClock :
          LET mine == {s \in OwnOpen(FellowOf[r]) : Joinable(s)} IN
          /\ Reachable(at + ShortIdle)
          /\ \/ \E s \in mine : Goto(r, "join", [task[r] EXCEPT !.session = s, !.at = at])
             \/ mine = {} /\ task[r].again /\ Goto(r, "start", Blank)
             \/ mine = {} /\ ~task[r].again /\ Goto(r, "create", [task[r] EXCEPT !.at = at])
    /\ UNCHANGED <<now, rowVars, revoked, sweep, faults>>

Joined(s, at) ==
    [sessions EXCEPT ![s].beat = Later(@, at),
                     ![s].idle = Later(@, at + ShortIdle),
                     ![s].inflight = IF sessions[s].implicit THEN @ + 1 ELSE @]

(* A join that finds its session closed or idle looks again, at most four    *)
(* times, which the model leaves open.                                       *)
Join(r) ==
    /\ pc[r] = "join"
    /\ LET s == task[r].session IN
       IF Joinable(s)
       THEN sessions' = Joined(s, task[r].at) /\ Goto(r, "writing", Note(0, s, 0))
       ELSE UNCHANGED sessions /\ Goto(r, "find", Again(task[r].again))
    /\ UNCHANGED <<now, leases, handbacks, revoked, sweep, faults>>

\* The join took its count, but its answer is lost and the request fails.
JoinLost(r) ==
    /\ pc[r] = "join" /\ Joinable(task[r].session)
    /\ Fault
    /\ sessions' = [Joined(task[r].session, task[r].at) EXCEPT
                        ![task[r].session].lost = IF sessions[task[r].session].implicit
                                                  THEN @ + 1 ELSE @]
    /\ Done(r)
    /\ UNCHANGED <<now, leases, handbacks, revoked, sweep>>

(* The unique index on the open session of a Fellow and problem makes a      *)
(* second creation fail; its request then looks for the winner.              *)
Create(r) ==
    /\ pc[r] = "create"
    /\ IF OwnOpen(FellowOf[r]) = {}
       THEN /\ sessions' = Append(sessions, NewSession(FellowOf[r], TRUE, task[r].at))
            /\ Goto(r, "writing", Note(0, Len(sessions) + 1, 0))
       ELSE UNCHANGED sessions /\ Goto(r, "find", Again(TRUE))
    /\ UNCHANGED <<now, leases, handbacks, revoked, sweep, faults>>

\* The session was created, but its answer is lost: it is found and joined.
CreateLost(r) ==
    /\ pc[r] = "create" /\ OwnOpen(FellowOf[r]) = {}
    /\ Fault
    /\ sessions' = Append(sessions, [NewSession(FellowOf[r], TRUE, task[r].at) EXCEPT !.lost = 1])
    /\ Goto(r, "find", Again(TRUE))
    /\ UNCHANGED <<now, leases, handbacks, revoked, sweep>>

Counted(s) == Open(s) /\ sessions[s].inflight >= 1

\* Mutant: whoever opened or joined the session closes it.
IsLast_Always(s) == TRUE

IsLast(s) == sessions[s].inflight = 1

(* IMPLICIT_SESSION_RELEASE_SQL and IMPLICIT_SESSION_LEASES_SQL: the count   *)
(* goes back, and the last one closes the session and retires its leases.    *)
Release(r) ==
    /\ pc[r] = "writing"
    /\ LET s == task[r].session IN
       IF Counted(s)
       THEN /\ sessions' = [sessions EXCEPT ![s].inflight = @ - 1,
                                            ![s].end = IF IsLast(s) THEN "released" ELSE @]
            /\ leases' = IF IsLast(s) THEN Retired(s, {"active", "challenged"}, "expired")
                                      ELSE leases
       ELSE UNCHANGED <<sessions, leases>>
    /\ Done(r)
    /\ UNCHANGED <<now, handbacks, revoked, sweep, faults>>

\* The release fails, or the Worker dies with the count in its hands.
ReleaseLost(r) ==
    /\ pc[r] = "writing"
    /\ Fault
    /\ sessions' = [sessions EXCEPT ![task[r].session].lost =
                        IF sessions[task[r].session].implicit THEN @ + 1 ELSE @]
    /\ Done(r)
    /\ UNCHANGED <<now, leases, handbacks, revoked, sweep>>

-----------------------------------------------------------------------------
(* Leases *)

(* A lease that has not lapsed by the clock that shows `at'. *)
LiveAt(l, at) == leases[l].status = "active" /\ leases[l].until > at
Live(l) == LiveAt(l, now)

HolderOf(l) == sessions[leases[l].session].fellow

\* A request of its Fellow on one of the Fellow's open sessions.
Prepare(r, op, s) ==
    /\ pc[r] = "start" /\ OpOf[r] = op
    /\ s \in OwnOpen(FellowOf[r])
    /\ UNCHANGED <<now, rowVars, revoked, sweep, faults>>

\* Mutant: only the credential is checked again in the transaction.
Authorized_AnySession(r) == FellowOf[r] \notin revoked

(* The credential and the session of the request, as its replay claim or the *)
(* ledger companion checks them in the transaction.                          *)
Authorized(r) == FellowOf[r] \notin revoked /\ Open(task[r].session)

\* A batch that is elected takes effect; one that is not changes nothing.
Commit(r, op, elected, newSessions, newLeases) ==
    /\ pc[r] = "commit" /\ OpOf[r] = op
    /\ sessions' = IF elected THEN newSessions ELSE sessions
    /\ leases' = IF elected THEN newLeases ELSE leases
    /\ Done(r)
    /\ UNCHANGED <<now, revoked, sweep, faults>>

\* The leases of session s that are live at a time, with their deadlines.
Holdings(s, at) ==
    {[lease |-> l, until |-> leases[l].until] :
        l \in {l \in DOMAIN leases : leases[l].session = s /\ LiveAt(l, at)}}

PrepareHeartbeat(r) ==
    \E at \in WorkerClock, s \in DOMAIN sessions :
        /\ Reachable(at + LongIdle)
        /\ Prepare(r, "heartbeat", s)
        /\ Goto(r, "commit", Memo(at, s, 0, Holdings(s, at)))

(* The claim is elected only on the rows the response was made from: no      *)
(* later heartbeat, an open session that is not idle, and by the clock of D1 *)
(* the leases that were live by the Worker's.                                *)
CommitHeartbeat(r) ==
    LET s == task[r].session
        at == task[r].at
    IN
    /\ Commit(r, "heartbeat",
              Authorized(r) /\ Joinable(s) /\ sessions[s].beat <= at
                            /\ Holdings(s, now) = task[r].seen,
              [sessions EXCEPT ![s].beat = at, ![s].idle = at + LongIdle],
              [l \in DOMAIN leases |->
                  IF task[r].seen # {} /\ leases[l].session = s /\ LiveAt(l, at)
                  THEN [leases[l] EXCEPT !.until = at + LeaseTerm] ELSE leases[l]])
    /\ UNCHANGED handbacks

(* A lease on the object that was live at the given time stands in the way,  *)
(* unless it and the new one are parallel-safe and belong to two Fellows.    *)
Excluded(r, at) ==
    \E l \in DOMAIN leases :
        /\ leases[l].object = ObjectOf[r] /\ LiveAt(l, at)
        /\ HolderOf(l) = FellowOf[r] \/ ~leases[l].parallel \/ ~ParallelOf[r]

PrepareAcquire(r) ==
    \E at \in WorkerClock, s \in DOMAIN sessions :
        /\ ~Excluded(r, at)
        /\ Prepare(r, "acquire", s)
        /\ Goto(r, "commit", Note(at, s, 0))

\* Mutant: the route's check is not repeated inside the ledger transaction.
Acquirable_Checked(r) == TRUE

Acquirable(r) == ~Excluded(r, task[r].at)

(* The lapsed leases of the object expire and the new one is granted.  The   *)
(* time is that of the route's check, before screening and retries, and by   *)
(* the Worker's clock: it may be ahead of D1's.                              *)
CommitAcquire(r) ==
    LET at == task[r].at
        lapsed(l) == leases[l].object = ObjectOf[r] /\ leases[l].status = "active"
                                                    /\ leases[l].until <= at
    IN
    /\ Commit(r, "acquire", Authorized(r) /\ Acquirable(r), sessions,
              Append([l \in DOMAIN leases |-> IF lapsed(l)
                                              THEN [leases[l] EXCEPT !.status = "expired"]
                                              ELSE leases[l]],
                     [object |-> ObjectOf[r], session |-> task[r].session,
                      parallel |-> ParallelOf[r], until |-> at + LeaseTerm, status |-> "active"]))
    /\ UNCHANGED handbacks

PrepareRelease(r) ==
    \E at \in WorkerClock, l \in DOMAIN leases, s \in DOMAIN sessions :
        /\ LiveAt(l, at) /\ HolderOf(l) = FellowOf[r]
        /\ Prepare(r, "release", s)
        /\ Goto(r, "commit", Note(at, s, l))

\* The handback publishes a lease.released event with the new status.
CommitRelease(r) ==
    LET l == task[r].lease
        elected == Authorized(r) /\ LiveAt(l, task[r].at)
    IN
    /\ Commit(r, "release", elected, sessions, [leases EXCEPT ![l].status = "released"])
    /\ handbacks' = IF elected THEN handbacks \cup {l} ELSE handbacks

\* The session has not been used for half an hour.
Quiet(s, at) == sessions[s].beat + ShortIdle < at

(* A lease may be challenged once it has lapsed or its holder is gone. *)
Stale(l, at) ==
    leases[l].until <= at \/ ~Open(leases[l].session) \/ Quiet(leases[l].session, at)

PrepareChallenge(r) ==
    \E at \in WorkerClock, l \in DOMAIN leases, s \in DOMAIN sessions :
        /\ leases[l].status = "active" /\ Stale(l, at)
        /\ Prepare(r, "challenge", s)
        /\ Goto(r, "commit", Note(0, s, l))

\* Staleness is checked again in the transaction, by the clock of D1.
CommitChallenge(r) ==
    LET l == task[r].lease IN
    /\ Commit(r, "challenge", Authorized(r) /\ leases[l].status = "active" /\ Stale(l, now), sessions,
              [leases EXCEPT ![l].status = "challenged"])
    /\ UNCHANGED handbacks

-----------------------------------------------------------------------------
(* Closing a session without promotions *)

PrepareClose(r) ==
    \E s \in DOMAIN sessions :
        /\ Prepare(r, "close", s)
        /\ Goto(r, "commit", Note(0, s, 0))

(* The session is closed only under the replay claim.  The statement that    *)
(* releases its leases asks for no claim: a close that is refused because    *)
(* the credential is gone executes it all the same.                          *)
CommitClose(r) ==
    LET s == task[r].session IN
    /\ pc[r] = "commit" /\ OpOf[r] = "close"
    /\ sessions' = IF Authorized(r) THEN [sessions EXCEPT ![s].end = "handback"] ELSE sessions
    /\ leases' = Retired(s, {"active"}, "released")
    /\ Done(r)
    /\ UNCHANGED <<now, handbacks, revoked, sweep, faults>>

-----------------------------------------------------------------------------
Revoke(f) ==
    /\ f \notin revoked
    /\ revoked' = revoked \cup {f}
    /\ UNCHANGED <<now, rowVars, pc, task, sweep, faults>>

Tick ==
    /\ now < MaxTime
    /\ now' = now + 1
    /\ UNCHANGED <<rowVars, revoked, pc, task, sweep, faults>>

Step(r) ==
    \/ SelectOwn(r) \/ RetireOwn(r) \/ Admit(r) \/ CommitOpen(r)
    \/ Find(r) \/ Join(r) \/ JoinLost(r) \/ Create(r) \/ CreateLost(r)
    \/ Release(r) \/ ReleaseLost(r)
    \/ PrepareHeartbeat(r) \/ CommitHeartbeat(r) \/ PrepareAcquire(r) \/ CommitAcquire(r)
    \/ PrepareRelease(r) \/ CommitRelease(r) \/ PrepareChallenge(r) \/ CommitChallenge(r)
    \/ PrepareClose(r) \/ CommitClose(r)

Sweep(w) == Select(w) \/ CloseNext(w)

Next ==
    \/ Tick
    \/ \E r \in Requests : Step(r)
    \/ \E w \in Sweepers : Sweep(w) \/ SweepFails(w)
    \/ \E f \in Fellows : Revoke(f)

Spec == Init /\ [][Next]_vars

(* Time passes and the scheduled sweep comes round.  Nothing is assumed of   *)
(* any request: its client may never send it, its Worker may die anywhere.   *)
Fairness == WF_vars(Tick) /\ \A w \in Sweepers : WF_vars(Sweep(w))

FairSpec == Spec /\ Fairness

-----------------------------------------------------------------------------
Sessions == [fellow : Fellows, implicit : BOOLEAN, inflight : Nat, lost : Nat, beat : Nat,
             idle : Nat, end : {"open", "idle", "released", "handback"}]
Leases == [object : {ObjectOf[r] : r \in Requests}, session : DOMAIN sessions,
           parallel : BOOLEAN, until : Nat,
           status : {"active", "released", "expired", "challenged"}]
Sightings == [session : DOMAIN sessions, deadline : Nat]
Tasks == [at : Nat, session : DOMAIN sessions \cup {0}, lease : DOMAIN leases \cup {0},
          seen : SUBSET (Sightings \cup [lease : DOMAIN leases, until : Nat]), again : BOOLEAN]

(* Every variable holds a value of its kind; in particular no release takes  *)
(* the count of a session below zero.                                        *)
TypeOK ==
    /\ now \in 0..MaxTime
    /\ sessions \in Seq(Sessions)
    /\ leases \in Seq(Leases)
    /\ handbacks \subseteq DOMAIN leases
    /\ revoked \subseteq Fellows
    /\ pc \in [Requests -> {"start", "retire", "admit", "find", "join", "create", "writing",
                            "commit", "done"}]
    /\ task \in [Requests -> Tasks]
    /\ sweep \in [Sweepers -> SUBSET Sightings]
    /\ faults \in 0..MaxFaults

(* Whatever closes a session retires its leases, and nothing grants one to a *)
(* session that was closed while the grant was being screened.               *)
ClosedHoldsNothing == \A l \in DOMAIN leases : leases[l].status = "active" => Open(leases[l].session)

(* Two live leases on one object belong to two Fellows and are both          *)
(* parallel-safe, although routes check and renew them with clocks and rows  *)
(* they have read before.                                                    *)
LeasesExclude ==
    \A k, l \in DOMAIN leases :
        k # l /\ Live(k) /\ Live(l) /\ leases[k].object = leases[l].object =>
            HolderOf(k) # HolderOf(l) /\ leases[k].parallel /\ leases[l].parallel

Users(s) == {r \in Requests : pc[r] = "writing" /\ task[r].session = s}

\* Past its deadline by some clock of a Worker.
Silent(s) == \E at \in WorkerClock : sessions[s].idle <= at
Lapsed(l) == \E at \in WorkerClock : leases[l].until <= at

(* The comments of idle.ts and implicit-session.ts, in one: a session that   *)
(* somebody uses is closed by nobody but its Fellow.  Otherwise it has been  *)
(* silent up to its deadline, as that stands when it is closed and not only  *)
(* as it stood when it was selected, or the direct append that closes it is  *)
(* the last one that uses it.  And while its session is neither closed nor   *)
(* silent nor quiet, a live lease is only ever given back, or taken over     *)
(* once it has lapsed by the clock of the Worker that grants the next one;   *)
(* nobody challenges it.                                                     *)
LivingSessionsAreSpared ==
    [][/\ \A s \in DOMAIN sessions :
             Open(s) /\ sessions'[s].end \notin {"open", "handback"} =>
                Silent(s) \/ (sessions[s].implicit /\ Users(s)' = {})
       /\ \A l \in DOMAIN leases :
             LET s == leases[l].session IN
             Live(l) /\ ~Silent(s) /\ ~Quiet(s, now) /\ sessions'[s].end = "open" =>
                \/ leases'[l].status \in {"active", "released"}
                \/ leases'[l].status = "expired" /\ Lapsed(l)]_vars

(* The slot of a Fellow on the problem becomes free again, also when the     *)
(* count of its session can never return to zero because a release, or the   *)
(* answer of a join, was lost: "a failed release leaves the session to the    *)
(* idle sweep".                                                               *)
SlotsAreFreed == \A f \in Fellows : OwnOpen(f) # {} ~> OwnOpen(f) = {}

(* The comment on replayOrCommit: "every side effect is conditional on that  *)
(* exact token".  So a lease counts as released only if its Fellow handed it *)
(* back by an event or closed the session.                                   *)
ReleasesAreElected ==
    \A l \in DOMAIN leases :
        leases[l].status = "released" => l \in handbacks \/ ~Open(leases[l].session)
=============================================================================
