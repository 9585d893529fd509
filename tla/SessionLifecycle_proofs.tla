----------------------- MODULE SessionLifecycle_proofs -----------------------
(***************************************************************************)
(* Proofs about SessionLifecycle, for any requests, sweepers and periods.  *)
(*                                                                         *)
(* The inductive invariant speaks of all active leases, lapsed ones        *)
(* included, and of what a request in flight still remembers: the clock it *)
(* has read, the session it works in, and a count of the session for every *)
(* direct append that has one.                                             *)
(***************************************************************************)
EXTENDS SessionLifecycle, FiniteSetTheorems, SequenceTheorems, TLAPS

USE SessionConstants

Places == {"start", "retire", "admit", "find", "join", "create", "writing", "commit", "done"}

(* A request about to commit works in a session of its own Fellow. *)
Owned(r, what) ==
    /\ what.session \in DOMAIN sessions
    /\ sessions[what.session].fellow = FellowOf[r]
    /\ OpOf[r] = "release" => what.lease \in DOMAIN leases

Prepared == \A r \in Requests : pc[r] = "commit" /\ OpOf[r] # "open" => Owned(r, task[r])

(* Active leases exclude each other whether they have lapsed or not: that,   *)
(* unlike LeasesExclude, survives a renewal with an older clock.             *)
ActiveExclude ==
    \A k, l \in DOMAIN leases :
        k # l /\ leases[k].status = "active" /\ leases[l].status = "active"
              /\ leases[k].object = leases[l].object =>
            HolderOf(k) # HolderOf(l) /\ leases[k].parallel /\ leases[l].parallel

(* A deadline that was seen to have passed, by some Worker's clock. *)
Passed(is) == \A i \in is : i \in Sightings /\ i.deadline <= now + Skew

(* So is what a request remembers of the clock. *)
ClocksBehind ==
    /\ \A r \in Requests : task[r].at <= now + Skew /\ (pc[r] = "retire" => Passed(task[r].seen))
    /\ \A w \in Sweepers : Passed(sweep[w])

(* An open implicit session counts at least the direct appends that use it. *)
CountsCover ==
    \A s \in DOMAIN sessions :
        IF sessions[s].implicit THEN Open(s) => Cardinality(Users(s)) <= sessions[s].inflight
                                ELSE sessions[s].inflight = 0

IInv == TypeOK /\ Prepared /\ ClosedHoldsNothing /\ ActiveExclude /\ ClocksBehind /\ CountsCover

(* What every step does to the sessions there are: it keeps their Fellow and *)
(* kind and never opens one again.                                           *)
SessionsStay ==
    /\ sessions' \in Seq(Sessions)
    /\ \A s \in DOMAIN sessions :
          /\ s \in DOMAIN sessions'
          /\ sessions'[s].fellow = sessions[s].fellow
          /\ sessions'[s].implicit = sessions[s].implicit
          /\ sessions'[s].end = "open" => Open(s)

(* What every step but an acquisition does to the leases: it activates none, *)
(* and leaves none active in a session that it closes.                       *)
LeasesStay ==
    /\ leases' \in Seq(Leases')
    /\ DOMAIN leases' = DOMAIN leases
    /\ \A l \in DOMAIN leases :
          /\ leases'[l].object = leases[l].object
          /\ leases'[l].session = leases[l].session
          /\ leases'[l].parallel = leases[l].parallel
          /\ leases'[l].status = "active" =>
                leases[l].status = "active"
                /\ (Open(leases[l].session) => sessions'[leases[l].session].end = "open")

-----------------------------------------------------------------------------
(* Sequences *)

(* An update in place keeps the type and the domain of a sequence. *)
LEMMA SeqUpdate ==
    ASSUME NEW S, NEW q \in Seq(S), NEW i, NEW e, i \in DOMAIN q => e \in S
    PROVE  [q EXCEPT ![i] = e] \in Seq(S) /\ DOMAIN [q EXCEPT ![i] = e] = DOMAIN q
  <1>1. CASE i \in DOMAIN q
    BY <1>1, ExceptSeq
  <1>2. CASE i \notin DOMAIN q
    <2>1. [q EXCEPT ![i] = e] = q
      BY <1>2
    <2> QED
      BY <2>1
  <1> QED
    BY <1>1, <1>2

(* So does a pointwise change. *)
LEMMA SeqMap ==
    ASSUME NEW S, NEW T, NEW q \in Seq(S), NEW p \in [DOMAIN q -> T]
    PROVE  p \in Seq(T) /\ DOMAIN p = DOMAIN q
  OBVIOUS

(* Sequences over a set are sequences over a larger one. *)
LEMMA SeqMono ==
    ASSUME NEW S, NEW T, S \subseteq T, NEW q \in Seq(S)
    PROVE  q \in Seq(T)
  OBVIOUS

(* An appended element takes the next index. *)
LEMMA SeqAppend ==
    ASSUME NEW S, NEW q \in Seq(S), NEW e \in S
    PROVE  /\ Append(q, e) \in Seq(S)
           /\ DOMAIN Append(q, e) = DOMAIN q \cup {Len(q) + 1}
           /\ Len(q) + 1 \notin DOMAIN q
           /\ Append(q, e)[Len(q) + 1] = e
           /\ \A i \in DOMAIN q : Append(q, e)[i] = q[i]
  OBVIOUS

(* The rows of the two tables. *)
LEMMA RowTypes ==
    ASSUME TypeOK
    PROVE  /\ \A s \in DOMAIN sessions :
                 /\ sessions[s] \in Sessions
                 /\ sessions[s].inflight \in Nat /\ sessions[s].implicit \in BOOLEAN
                 /\ sessions[s].idle \in Nat /\ sessions[s].beat \in Nat
           /\ \A l \in DOMAIN leases :
                 leases[l] \in Leases /\ leases[l].session \in DOMAIN sessions
  <1>1. /\ sessions \in [DOMAIN sessions -> Sessions]
        /\ leases \in [DOMAIN leases -> Leases]
    BY LenProperties DEF TypeOK
  <1>2. ASSUME NEW s \in DOMAIN sessions PROVE sessions[s] \in Sessions
    BY <1>1
  <1>3. ASSUME NEW l \in DOMAIN leases PROVE leases[l] \in Leases
    BY <1>1
  <1> QED
    BY <1>2, <1>3 DEF Sessions, Leases

-----------------------------------------------------------------------------
(* Steps of a request *)

(* Goto moves one request. *)
LEMMA GotoMoves ==
    ASSUME TypeOK, NEW r \in Requests, NEW where \in Places, NEW what \in Tasks,
           Goto(r, where, what)
    PROVE  /\ pc' \in [Requests -> Places] /\ task' \in [Requests -> Tasks]
           /\ pc'[r] = where /\ task'[r] = what
           /\ \A q \in Requests \ {r} : pc'[q] = pc[q] /\ task'[q] = task[q]
  BY DEF TypeOK, Goto, Places

(* What is remembered stays a memory when rows are added. *)
LEMMA TasksGrow ==
    ASSUME DOMAIN sessions \subseteq DOMAIN sessions', DOMAIN leases \subseteq DOMAIN leases'
    PROVE  Tasks \subseteq Tasks' /\ Sightings \subseteq Sightings' /\ Leases \subseteq Leases'
  <1>1. Sightings \subseteq Sightings'
    BY DEF Sightings
  <1>2. [lease : DOMAIN leases, until : Nat] \subseteq [lease : DOMAIN leases', until : Nat]
    OBVIOUS
  <1>3. Tasks \subseteq Tasks'
    <2> SUFFICES ASSUME NEW t \in Tasks PROVE t \in Tasks'
      OBVIOUS
    <2>1. t.seen \subseteq Sightings' \cup [lease : DOMAIN leases', until : Nat]
      BY <1>1, <1>2 DEF Tasks
    <2> QED
      BY <2>1 DEF Tasks
  <1>4. Leases \subseteq Leases'
    BY DEF Leases
  <1> QED
    BY <1>1, <1>3, <1>4

(* A step of one request that does its part for the rows. *)
LEMMA RequestStep ==
    ASSUME IInv, NEW r \in Requests, NEW where \in Places, NEW what \in Tasks',
           pc' = [pc EXCEPT ![r] = where], task' = [task EXCEPT ![r] = what],
           SessionsStay, leases' \in Seq(Leases'), DOMAIN leases \subseteq DOMAIN leases',
           handbacks' \subseteq DOMAIN leases', UNCHANGED <<now, revoked, sweep>>,
           faults' \in 0..MaxFaults, what.at <= now + Skew,
           where = "retire" => Passed(what.seen),
           where = "commit" /\ OpOf[r] # "open" => Owned(r, what),
           ClosedHoldsNothing', ActiveExclude', CountsCover'
    PROVE  IInv'
  <1>0. DOMAIN sessions \subseteq DOMAIN sessions'
    BY DEF SessionsStay
  <1>1. Tasks \subseteq Tasks' /\ Sightings \subseteq Sightings'
    BY <1>0, TasksGrow
  <1>2. /\ pc' \in [Requests -> Places] /\ task' \in [Requests -> Tasks']
        /\ pc'[r] = where /\ task'[r] = what
        /\ \A q \in Requests \ {r} : pc'[q] = pc[q] /\ task'[q] = task[q]
    BY <1>1 DEF IInv, TypeOK, Places
  <1>3. TypeOK'
    <2>1. sweep' \in [Sweepers -> SUBSET Sightings']
      BY <1>1 DEF IInv, TypeOK
    <2> QED
      BY <1>2, <2>1 DEF IInv, TypeOK, SessionsStay, Sessions, Places
  <1>4. Prepared'
    <2> SUFFICES ASSUME NEW q \in Requests, pc'[q] = "commit", OpOf[q] # "open"
                 PROVE  Owned(q, task[q])'
      BY DEF Prepared
    <2>1. Owned(q, task'[q])
      BY <1>2 DEF IInv, Prepared
    <2> QED
      BY <2>1 DEF Owned, SessionsStay
  <1>5. \A is : Passed(is) => Passed(is)'
    BY <1>1 DEF Passed
  <1>6. ClocksBehind'
    <2>1. ASSUME NEW q \in Requests
          PROVE  task'[q].at <= now' + Skew /\ (pc'[q] = "retire" => Passed(task[q].seen)')
      BY <1>2, <1>5 DEF IInv, ClocksBehind
    <2>2. ASSUME NEW w \in Sweepers PROVE Passed(sweep[w])'
      BY <1>5 DEF IInv, ClocksBehind
    <2> QED
      BY <2>1, <2>2 DEF ClocksBehind
  <1> QED
    BY <1>3, <1>4, <1>6 DEF IInv

(* The requests that use session s when `p' says where each request is and   *)
(* `t' what it remembers.                                                    *)
UsersIn(p, t, s) == {q \in Requests : p[q] = "writing" /\ t[q].session = s}

(* The users of a session before and after a step of one request. *)
LEMMA UsersMove ==
    ASSUME NEW r \in Requests, NEW s,
           \A q \in Requests \ {r} : pc'[q] = pc[q] /\ task'[q] = task[q]
    PROVE  /\ Cardinality(UsersIn(pc, task, s)) \in Nat /\ Cardinality(UsersIn(pc', task', s)) \in Nat
           /\ Cardinality(UsersIn(pc', task', s)) <= Cardinality(UsersIn(pc, task, s)) + 1
           /\ pc'[r] # "writing" \/ task'[r].session # s =>
                 /\ UsersIn(pc', task', s) \subseteq UsersIn(pc, task, s)
                 /\ Cardinality(UsersIn(pc', task', s)) <= Cardinality(UsersIn(pc, task, s))
                 /\ r \in UsersIn(pc, task, s) =>
                       Cardinality(UsersIn(pc', task', s)) = Cardinality(UsersIn(pc, task, s)) - 1
           /\ Cardinality(UsersIn(pc', task', s)) = 0 => UsersIn(pc', task', s) = {}
  <1> DEFINE U == UsersIn(pc, task, s)
             V == UsersIn(pc', task', s)
  <1>1. U \subseteq Requests /\ V \subseteq Requests
    BY DEF UsersIn
  <1>2. /\ IsFiniteSet(U) /\ IsFiniteSet(V)
        /\ Cardinality(U) \in Nat /\ Cardinality(V) \in Nat
    BY <1>1, FS_Subset, FS_CardinalityType
  <1>3. /\ pc'[r] = "writing" /\ task'[r].session = s => V = U \cup {r}
        /\ ~(pc'[r] = "writing" /\ task'[r].session = s) => V = U \ {r}
    BY DEF UsersIn
  <1> HIDE DEF U, V
  <1>4. /\ Cardinality(U \cup {r}) = IF r \in U THEN Cardinality(U) ELSE Cardinality(U) + 1
        /\ Cardinality(U \ {r}) = IF r \in U THEN Cardinality(U) - 1 ELSE Cardinality(U)
    BY <1>2, FS_AddElement, FS_RemoveElement
  <1>5. Cardinality(V) = 0 => V = {}
    BY <1>2, FS_EmptySet
  <1>6. CASE pc'[r] = "writing" /\ task'[r].session = s
    <2>1. V = U \cup {r}
      BY <1>3, <1>6
    <2>2. Cardinality(V) = Cardinality(U) \/ Cardinality(V) = Cardinality(U) + 1
      BY <1>4, <2>1
    <2>3. Cardinality(V) <= Cardinality(U) + 1
      BY <1>2, <2>2
    <2> QED
      BY <1>2, <1>5, <1>6, <2>3 DEF U, V
  <1>7. CASE pc'[r] # "writing" \/ task'[r].session # s
    <2>1. V = U \ {r} /\ Cardinality(V) <= Cardinality(U)
      BY <1>2, <1>3, <1>4, <1>7
    <2>2. r \in U => Cardinality(V) = Cardinality(U) - 1
      BY <1>4, <2>1
    <2>3. Cardinality(V) <= Cardinality(U) + 1
      BY <1>2, <2>1
    <2> QED
      BY <1>2, <1>5, <2>1, <2>2, <2>3 DEF U, V
  <1> QED
    BY <1>6, <1>7

(* Nobody uses a session that does not exist. *)
LEMMA NoUsersYet ==
    ASSUME TypeOK, NEW s, s \notin DOMAIN sessions, s # 0
    PROVE  UsersIn(pc, task, s) = {}
  <1>1. \A q \in Requests : task[q].session \in DOMAIN sessions \cup {0}
    BY DEF TypeOK, Tasks
  <1> QED
    BY <1>1 DEF UsersIn

(* A step of a request that takes no count keeps every count good.           *)
LEMMA CountsStay ==
    ASSUME IInv, NEW r \in Requests, NEW where, NEW what, where # "writing",
           pc' = [pc EXCEPT ![r] = where], task' = [task EXCEPT ![r] = what],
           SessionsStay,
           \A s \in DOMAIN sessions :
              IF sessions[s].implicit THEN sessions'[s].inflight >= sessions[s].inflight
                                      ELSE sessions'[s].inflight = sessions[s].inflight,
           \A s \in DOMAIN sessions' \ DOMAIN sessions :
              sessions'[s].implicit \/ sessions'[s].inflight = 0
    PROVE  CountsCover'
  <1> SUFFICES ASSUME NEW s \in DOMAIN sessions'
               PROVE  IF sessions'[s].implicit
                      THEN sessions'[s].end = "open" =>
                              Cardinality(UsersIn(pc', task', s)) <= sessions'[s].inflight
                      ELSE sessions'[s].inflight = 0
    BY DEF CountsCover, Open, Users, UsersIn
  <1>1. /\ Cardinality(UsersIn(pc, task, s)) \in Nat /\ Cardinality(UsersIn(pc', task', s)) \in Nat
        /\ Cardinality(UsersIn(pc', task', s)) <= Cardinality(UsersIn(pc, task, s))
    <2>1. pc'[r] = where /\ \A q \in Requests \ {r} : pc'[q] = pc[q] /\ task'[q] = task[q]
      BY DEF IInv, TypeOK
    <2> QED
      BY <2>1, UsersMove
  <1>2. sessions'[s].inflight \in Nat /\ sessions'[s].implicit \in BOOLEAN
    <2>1. sessions' \in [DOMAIN sessions' -> Sessions]
      BY LenProperties DEF SessionsStay
    <2>2. sessions'[s] \in Sessions
      BY <2>1
    <2> QED
      BY <2>2 DEF Sessions
  <1>3. CASE s \in DOMAIN sessions
    <2>1. sessions[s].inflight \in Nat /\ sessions[s].implicit \in BOOLEAN
      BY <1>3, RowTypes DEF IInv
    <2> QED
      BY <1>1, <1>2, <1>3, <2>1 DEF IInv, CountsCover, SessionsStay, Open, Users, UsersIn
  <1>4. CASE s \notin DOMAIN sessions
    <2>1. s # 0
      BY LenProperties DEF SessionsStay
    <2>2. Cardinality(UsersIn(pc, task, s)) = 0
      BY <1>4, <2>1, NoUsersYet, FS_EmptySet DEF IInv
    <2> QED
      BY <1>1, <1>2, <1>4, <2>2
  <1> QED
    BY <1>3, <1>4

(* Steps that grant no lease keep what is said of the leases. *)
LEMMA LeasesKeep ==
    ASSUME IInv, SessionsStay, LeasesStay
    PROVE  ClosedHoldsNothing' /\ ActiveExclude'
  <1>1. \A l \in DOMAIN leases : leases[l].session \in DOMAIN sessions
    BY RowTypes DEF IInv
  <1>2. ClosedHoldsNothing'
    BY <1>1 DEF IInv, ClosedHoldsNothing, SessionsStay, LeasesStay, Open
  <1>3. ASSUME NEW k \in DOMAIN leases', NEW l \in DOMAIN leases', k # l,
               leases'[k].status = "active", leases'[l].status = "active",
               leases'[k].object = leases'[l].object
        PROVE  HolderOf(k)' # HolderOf(l)' /\ leases'[k].parallel /\ leases'[l].parallel
    <2>1. HolderOf(k)' = HolderOf(k) /\ HolderOf(l)' = HolderOf(l)
      BY <1>1 DEF SessionsStay, LeasesStay, HolderOf
    <2> QED
      BY <1>3, <2>1 DEF IInv, ActiveExclude, LeasesStay
  <1> QED
    BY <1>2, <1>3 DEF ActiveExclude

(* Leases that nobody touches stay, if no session closes. *)
LEMMA LeasesSame ==
    ASSUME TypeOK, SessionsStay, leases' = leases,
           \A s \in DOMAIN sessions : Open(s) => sessions'[s].end = "open"
    PROVE  LeasesStay
  <1>1. Leases \subseteq Leases'
    BY DEF Leases, SessionsStay
  <1>2. leases \in Seq(Leases')
    BY <1>1, SeqMono DEF TypeOK
  <1> QED
    BY <1>2, RowTypes DEF LeasesStay

(* Retiring the active leases of the one session that closes. *)
LEMMA RetiredStay ==
    ASSUME TypeOK, NEW s, NEW from, NEW status \in {"expired", "released"}, "active" \in from,
           leases' = Retired(s, from, status), DOMAIN sessions' = DOMAIN sessions,
           \A z \in DOMAIN sessions \ {s} : sessions'[z] = sessions[z]
    PROVE  LeasesStay
  <1>1. Leases = Leases'
    BY DEF Leases
  <1>2. ASSUME NEW l \in DOMAIN leases
        PROVE  /\ leases'[l] \in Leases
               /\ leases'[l].object = leases[l].object
               /\ leases'[l].session = leases[l].session
               /\ leases'[l].parallel = leases[l].parallel
               /\ leases'[l].status = "active" =>
                     leases[l].status = "active" /\ leases[l].session # s
    BY <1>2, RowTypes DEF Retired, Leases
  <1>3. leases' \in [DOMAIN leases -> Leases']
    BY <1>1, <1>2 DEF Retired
  <1>4. leases' \in Seq(Leases') /\ DOMAIN leases' = DOMAIN leases
    BY <1>3, SeqMap DEF TypeOK
  <1>5. ASSUME NEW l \in DOMAIN leases, leases[l].session # s, Open(leases[l].session)
        PROVE  sessions'[leases[l].session].end = "open"
    BY <1>5, RowTypes DEF Open
  <1> QED
    BY <1>2, <1>4, <1>5 DEF LeasesStay

(* A step of one request that grants no lease and takes no count. *)
LEMMA RowStep ==
    ASSUME IInv, NEW r \in Requests, NEW where \in Places \ {"writing"}, NEW what \in Tasks,
           pc' = [pc EXCEPT ![r] = where], task' = [task EXCEPT ![r] = what],
           SessionsStay, LeasesStay, handbacks' \subseteq DOMAIN leases,
           UNCHANGED <<now, revoked, sweep>>,
           faults' \in 0..MaxFaults, what.at <= now + Skew,
           where = "retire" => Passed(what.seen),
           where = "commit" /\ OpOf[r] # "open" => Owned(r, what),
           \A s \in DOMAIN sessions :
              IF sessions[s].implicit THEN sessions'[s].inflight >= sessions[s].inflight
                                      ELSE sessions'[s].inflight = sessions[s].inflight,
           \A s \in DOMAIN sessions' \ DOMAIN sessions :
              sessions'[s].implicit \/ sessions'[s].inflight = 0
    PROVE  IInv'
  <1>1. CountsCover'
    BY CountsStay
  <1>2. ClosedHoldsNothing' /\ ActiveExclude'
    BY LeasesKeep
  <1>3. leases' \in Seq(Leases') /\ DOMAIN leases' = DOMAIN leases
    BY DEF LeasesStay
  <1>4. DOMAIN leases \subseteq DOMAIN leases' /\ handbacks' \subseteq DOMAIN leases'
    BY <1>3
  <1>5. what \in Tasks'
    <2>1. DOMAIN sessions \subseteq DOMAIN sessions'
      BY DEF SessionsStay
    <2> QED
      BY <1>4, <2>1, TasksGrow
  <1>6. where \in Places
    OBVIOUS
  <1> QED
    BY <1>1, <1>2, <1>3, <1>4, <1>5, <1>6, RequestStep

(* A step of one request that changes no row. *)
LEMMA PrivateStep ==
    ASSUME IInv, NEW r \in Requests, NEW where \in Places \ {"writing"}, NEW what \in Tasks,
           Goto(r, where, what), UNCHANGED <<now, rowVars, revoked, sweep, faults>>,
           what.at <= now + Skew, where = "retire" => Passed(what.seen),
           where = "commit" /\ OpOf[r] # "open" => Owned(r, what)
    PROVE  IInv'
  <1>1. SessionsStay
    BY DEF IInv, TypeOK, rowVars, SessionsStay, Open
  <1>2. LeasesStay
    BY <1>1, LeasesSame DEF IInv, rowVars, Open
  <1>4. \A s \in DOMAIN sessions : sessions[s].inflight >= sessions[s].inflight
    BY RowTypes DEF IInv
  <1>5. handbacks' \subseteq DOMAIN leases /\ faults' \in 0..MaxFaults
    BY DEF IInv, TypeOK, rowVars
  <1> QED
    BY <1>1, <1>2, <1>4, <1>5, RowStep DEF Goto, rowVars

(* The sweep of one session: it stays as it is, or closes with its leases. *)
LEMMA IdleClosed ==
    ASSUME IInv, NEW i \in Sightings, CloseIdle(i)
    PROVE  /\ SessionsStay /\ LeasesStay
           /\ \A s \in DOMAIN sessions : sessions'[s].inflight = sessions[s].inflight
           /\ DOMAIN sessions' = DOMAIN sessions
  <1>0. i.session \in DOMAIN sessions
    BY DEF Sightings
  <1>1. CASE StillIdle(i)
    <2>1. sessions' = [sessions EXCEPT ![i.session] = [sessions[i.session] EXCEPT !.end = "idle"]]
      BY <1>1 DEF CloseIdle
    <2>2. [sessions[i.session] EXCEPT !.end = "idle"] \in Sessions
      BY <1>0, RowTypes DEF IInv, Sessions
    <2>3. sessions' \in Seq(Sessions) /\ DOMAIN sessions' = DOMAIN sessions
      BY <2>1, <2>2, SeqUpdate DEF IInv, TypeOK
    <2>4. /\ \A s \in DOMAIN sessions \ {i.session} : sessions'[s] = sessions[s]
          /\ sessions'[i.session] = [sessions[i.session] EXCEPT !.end = "idle"]
      BY <1>0, <2>1
    <2>5. /\ SessionsStay
          /\ \A s \in DOMAIN sessions : sessions'[s].inflight = sessions[s].inflight
      <3> DEFINE row == [sessions[i.session] EXCEPT !.end = "idle"]
      <3>1. /\ row.fellow = sessions[i.session].fellow
            /\ row.implicit = sessions[i.session].implicit
            /\ row.inflight = sessions[i.session].inflight
            /\ row.end = "idle"
        BY <1>0, RowTypes DEF IInv, Sessions
      <3> HIDE DEF row
      <3>2. \A s \in DOMAIN sessions :
               /\ sessions'[s].fellow = sessions[s].fellow
               /\ sessions'[s].implicit = sessions[s].implicit
               /\ sessions'[s].inflight = sessions[s].inflight
               /\ sessions'[s].end = "open" => sessions[s].end = "open"
        BY <2>4, <3>1 DEF row
      <3> QED
        BY <2>3, <3>2 DEF SessionsStay, Open
    <2>6. leases' = Retired(i.session, {"active", "challenged"}, "expired")
      BY <1>1 DEF CloseIdle
    <2>7. LeasesStay
      BY <2>3, <2>4, <2>6, RetiredStay DEF IInv
    <2> QED
      BY <2>3, <2>5, <2>7
  <1>2. CASE ~StillIdle(i)
    <2>1. sessions' = sessions /\ leases' = leases
      BY <1>2 DEF CloseIdle
    <2>2. SessionsStay
      BY <2>1 DEF IInv, TypeOK, SessionsStay, Open
    <2>3. LeasesStay
      BY <2>1, <2>2, LeasesSame DEF IInv, Open
    <2> QED
      BY <2>1, <2>2, <2>3
  <1> QED
    BY <1>1, <1>2

-----------------------------------------------------------------------------
(* The steps that change no row *)

(* The clocks of the Workers show times no later than D1's by more than Skew. *)
LEMMA Clocks ==
    ASSUME TypeOK
    PROVE  /\ \A at \in WorkerClock : at \in Nat /\ at <= now + Skew
           /\ now + Skew \in WorkerClock
  BY SessionConstants DEF TypeOK, WorkerClock

(* What a sweep selects has passed its deadline by the clock it uses. *)
LEMMA SelectedPassed ==
    ASSUME TypeOK, NEW fs, NEW at \in WorkerClock
    PROVE  Selected(fs, at) \subseteq Sightings /\ Passed(Selected(fs, at))
  <1>1. ASSUME NEW i \in Selected(fs, at)
        PROVE  i \in Sightings /\ i.deadline <= now + Skew
    <2>1. PICK s \in DOMAIN sessions :
             i = [session |-> s, deadline |-> sessions[s].idle] /\ Selectable(s, at)
      BY <1>1 DEF Selected
    <2> QED
      BY <2>1, RowTypes, Clocks, SessionConstants DEF Selectable, Sightings, TypeOK
  <1> QED
    BY <1>1 DEF Passed

\* The rows a request may remember: sessions a sweep selected, or leases it saw.
Rows == Sightings \cup [lease : DOMAIN leases, until : Nat]

(* A memory of a session, a lease and rows. *)
LEMMA Memos ==
    ASSUME NEW at \in Nat, NEW z \in DOMAIN sessions \cup {0}, NEW l \in DOMAIN leases \cup {0},
           NEW seen \in SUBSET Rows
    PROVE  /\ Memo(at, z, l, seen) \in Tasks
           /\ Memo(at, z, l, seen).at = at
           /\ Memo(at, z, l, seen).session = z
           /\ Memo(at, z, l, seen).lease = l
           /\ Memo(at, z, l, seen).seen = seen
  BY DEF Tasks, Memo, Rows

(* The same of rows alone. *)
LEMMA Sights ==
    ASSUME NEW seen \in SUBSET Rows
    PROVE  /\ Memo(0, 0, 0, seen) \in Tasks
           /\ Memo(0, 0, 0, seen).at = 0 /\ Memo(0, 0, 0, seen).seen = seen
  BY DEF Tasks, Memo, Rows

(* The same without rows. *)
LEMMA Notes ==
    ASSUME NEW at \in Nat, NEW z \in DOMAIN sessions \cup {0}, NEW l \in DOMAIN leases \cup {0}
    PROVE  /\ Note(at, z, l) \in Tasks
           /\ Note(at, z, l).at = at /\ Note(at, z, l).session = z /\ Note(at, z, l).lease = l
  BY DEF Tasks, Note, Memo

(* A first or a later attempt to create a session, and nothing at all. *)
LEMMA Blanks ==
    ASSUME NEW again \in BOOLEAN
    PROVE  /\ Again(again) \in Tasks /\ Again(again).at = 0
           /\ Blank \in Tasks /\ Blank.at = 0 /\ Blank.seen = {}
  BY DEF Tasks, Again, Blank, Note, Memo

(* The requests that read, and the one that selects the Fellow's own idle    *)
(* sessions.                                                                 *)
LEMMA ReadingSteps ==
    ASSUME IInv, NEW r \in Requests,
           \/ SelectOwn(r) \/ Admit(r) \/ Find(r)
           \/ PrepareHeartbeat(r) \/ PrepareAcquire(r) \/ PrepareRelease(r)
           \/ PrepareChallenge(r) \/ PrepareClose(r)
    PROVE  IInv'
  <1>0. /\ TypeOK /\ now \in Nat
        /\ task[r] \in Tasks /\ task[r].at <= now + Skew
        /\ \A s \in OwnOpen(FellowOf[r]) :
              s \in DOMAIN sessions /\ sessions[s].fellow = FellowOf[r]
    BY DEF IInv, TypeOK, ClocksBehind, OwnOpen
  <1>n. /\ now \in Nat /\ Skew \in Nat
        /\ \A at \in WorkerClock : at \in Nat /\ at <= now + Skew
    BY <1>0, Clocks, SessionConstants
  <1>1. CASE SelectOwn(r)
    <2>1. PICK at \in WorkerClock :
             Goto(r, "retire", Memo(0, 0, 0, Selected({FellowOf[r]}, at)))
      BY <1>1 DEF SelectOwn
    <2> DEFINE own == Selected({FellowOf[r]}, at)
               what == Memo(0, 0, 0, own)
    <2>2. own \subseteq Sightings /\ Passed(own)
      BY <1>0, SelectedPassed
    <2> HIDE DEF own
    <2>a. own \in SUBSET Rows
      BY <2>2 DEF Rows
    <2>3. what \in Tasks /\ what.at <= now + Skew /\ what.seen = own
      <3>1. what \in Tasks /\ what.at = 0 /\ what.seen = own
        BY <2>a, Sights
      <3> HIDE DEF what
      <3> QED
        BY <1>n, <3>1
    <2> HIDE DEF what
    <2>4. Goto(r, "retire", what)
      BY <2>1 DEF own, what
    <2>5. UNCHANGED <<now, rowVars, revoked, sweep, faults>>
      BY <1>1 DEF SelectOwn
    <2>6. "retire" \in Places \ {"writing"} /\ "retire" # "commit"
      BY DEF Places
    <2> QED
      BY <2>2, <2>3, <2>4, <2>5, <2>6, PrivateStep
  <1>2. ASSUME NEW where \in {"commit", "done", "join", "start", "create"}, NEW what \in Tasks,
               Goto(r, where, what), what.at <= now + Skew, where = "commit" => OpOf[r] = "open",
               UNCHANGED <<now, rowVars, revoked, sweep, faults>>
        PROVE  IInv'
    <2>1. where \in Places \ {"writing"} /\ where # "retire"
      BY DEF Places
    <2> QED
      BY <1>2, <2>1, PrivateStep
  <1>3. Blank \in Tasks /\ Blank.at <= now + Skew
    BY <1>n, Blanks
  <1>4. ASSUME NEW op \in Ops, NEW s \in DOMAIN sessions, Prepare(r, op, s),
               NEW what \in Tasks, Goto(r, "commit", what), what.session = s, what.at <= now + Skew,
               op = "release" => what.lease \in DOMAIN leases
        PROVE  IInv'
    <2>1. Owned(r, what) /\ UNCHANGED <<now, rowVars, revoked, sweep, faults>>
      BY <1>0, <1>4 DEF Prepare, Owned
    <2>2. "commit" \in Places \ {"writing"} /\ "commit" # "retire"
      BY DEF Places
    <2> QED
      BY <1>4, <2>1, <2>2, PrivateStep
  <1>5. CASE PrepareHeartbeat(r)
    <2>1. PICK at \in WorkerClock, s \in DOMAIN sessions :
             Prepare(r, "heartbeat", s) /\ Goto(r, "commit", Memo(at, s, 0, Holdings(s, at)))
      BY <1>5 DEF PrepareHeartbeat
    <2>2. Holdings(s, at) \subseteq [lease : DOMAIN leases, until : Nat]
      BY <1>0, RowTypes DEF Holdings, Leases
    <2> DEFINE seen == Holdings(s, at)
               what == Memo(at, s, 0, seen)
    <2>a. seen \in SUBSET Rows
      BY <2>2 DEF Rows
    <2> HIDE DEF seen
    <2>3. what \in Tasks /\ what.session = s /\ what.at <= now + Skew
      BY <1>n, <2>a, Memos
    <2> HIDE DEF what
    <2>4. Goto(r, "commit", what) /\ "heartbeat" \in Ops
      BY <2>1 DEF what, seen, Ops
    <2> QED
      BY <1>4, <2>1, <2>3, <2>4
  <1>6. CASE PrepareAcquire(r)
    <2>1. PICK at \in WorkerClock, s \in DOMAIN sessions :
             Prepare(r, "acquire", s) /\ Goto(r, "commit", Note(at, s, 0))
      BY <1>6 DEF PrepareAcquire
    <2> DEFINE what == Note(at, s, 0)
    <2>3. what \in Tasks /\ what.session = s /\ what.at <= now + Skew
      BY <1>n, Notes
    <2> HIDE DEF what
    <2>4. Goto(r, "commit", what) /\ "acquire" \in Ops
      BY <2>1 DEF what, Ops
    <2> QED
      BY <1>4, <2>1, <2>3, <2>4
  <1>7. CASE PrepareRelease(r)
    <2>1. PICK at \in WorkerClock, l \in DOMAIN leases, s \in DOMAIN sessions :
             Prepare(r, "release", s) /\ Goto(r, "commit", Note(at, s, l))
      BY <1>7 DEF PrepareRelease
    <2> DEFINE what == Note(at, s, l)
    <2>3. what \in Tasks /\ what.session = s /\ what.at <= now + Skew /\ what.lease = l
      BY <1>n, Notes
    <2> HIDE DEF what
    <2>4. Goto(r, "commit", what) /\ "release" \in Ops
      BY <2>1 DEF what, Ops
    <2> QED
      BY <1>4, <2>1, <2>3, <2>4
  <1>8. CASE PrepareChallenge(r)
    <2>1. PICK l \in DOMAIN leases, s \in DOMAIN sessions :
             Prepare(r, "challenge", s) /\ Goto(r, "commit", Note(0, s, l))
      BY <1>8 DEF PrepareChallenge
    <2> DEFINE what == Note(0, s, l)
    <2>3. what \in Tasks /\ what.session = s /\ what.at <= now + Skew
      BY <1>n, Notes
    <2> HIDE DEF what
    <2>4. Goto(r, "commit", what) /\ "challenge" \in Ops
      BY <2>1 DEF what, Ops
    <2> QED
      BY <1>4, <2>1, <2>3, <2>4
  <1>9. CASE PrepareClose(r)
    <2>1. PICK s \in DOMAIN sessions :
             Prepare(r, "close", s) /\ Goto(r, "commit", Note(0, s, 0))
      BY <1>9 DEF PrepareClose
    <2> DEFINE what == Note(0, s, 0)
    <2>3. what \in Tasks /\ what.session = s /\ what.at <= now + Skew
      BY <1>n, Notes
    <2> HIDE DEF what
    <2>4. Goto(r, "commit", what) /\ "close" \in Ops
      BY <2>1 DEF what, Ops
    <2> QED
      BY <1>4, <2>1, <2>3, <2>4
  <1>10. CASE Admit(r)
    <2>1. ASSUME NEW at \in WorkerClock
          PROVE  Note(at, 0, 0) \in Tasks /\ Note(at, 0, 0).at <= now + Skew
      BY <1>n, Notes
    <2>2. \/ \E at \in WorkerClock : Goto(r, "commit", Note(at, 0, 0)) /\ OpOf[r] = "open"
          \/ Goto(r, "done", Blank)
      BY <1>10 DEF Admit, Done
    <2>3. UNCHANGED <<now, rowVars, revoked, sweep, faults>>
      BY <1>10 DEF Admit
    <2> QED
      BY <1>2, <1>3, <2>1, <2>2, <2>3
  <1>11. CASE Find(r)
    <2>1. UNCHANGED <<now, rowVars, revoked, sweep, faults>>
      BY <1>11 DEF Find
    <2>2. CASE \E at \in WorkerClock, s \in OwnOpen(FellowOf[r]) :
                  Goto(r, "join", [task[r] EXCEPT !.session = s, !.at = at])
      <3>1. PICK at \in WorkerClock, s \in OwnOpen(FellowOf[r]) :
               Goto(r, "join", [task[r] EXCEPT !.session = s, !.at = at])
        BY <2>2
      <3> DEFINE what == [task[r] EXCEPT !.session = s, !.at = at]
      <3>2. what \in Tasks /\ what.at <= now + Skew
        <4>1. s \in DOMAIN sessions
          BY <1>0
        <4> DEFINE first == [task[r] EXCEPT !.session = s]
        <4>2. first \in Tasks
          BY <1>0, <4>1 DEF Tasks
        <4>3. what = [first EXCEPT !.at = at]
          OBVIOUS
        <4> HIDE DEF first
        <4> QED
          BY <1>n, <4>2, <4>3 DEF Tasks
      <3>3. Goto(r, "join", what)
        BY <3>1
      <3> HIDE DEF what
      <3> QED
        BY <1>2, <2>1, <3>2, <3>3
    <2>3. CASE Goto(r, "start", Blank)
      BY <1>2, <1>3, <2>1, <2>3
    <2>4. CASE \E at \in WorkerClock : Goto(r, "create", [task[r] EXCEPT !.at = at])
      <3>0. PICK at \in WorkerClock : Goto(r, "create", [task[r] EXCEPT !.at = at])
        BY <2>4
      <3> DEFINE what == [task[r] EXCEPT !.at = at]
      <3>1. what \in Tasks /\ what.at <= now + Skew
        BY <1>0, <1>n DEF Tasks
      <3>2. Goto(r, "create", what)
        BY <3>0
      <3> HIDE DEF what
      <3> QED
        BY <1>2, <2>1, <3>1, <3>2
    <2> QED
      BY <1>11, <2>2, <2>3, <2>4 DEF Find
  <1> QED
    BY <1>1, <1>5, <1>6, <1>7, <1>8, <1>9, <1>10, <1>11

-----------------------------------------------------------------------------
(* Opening, joining and leaving *)

(* The sweep that precedes an opening. *)
LEMMA RetireSteps ==
    ASSUME IInv, NEW r \in Requests, RetireOwn(r)
    PROVE  IInv'
  <1>0. /\ pc[r] = "retire" /\ task[r] \in Tasks /\ task[r].at <= now + Skew /\ now \in Nat
        /\ Passed(task[r].seen) /\ handbacks \subseteq DOMAIN leases /\ faults \in 0..MaxFaults
        /\ UNCHANGED <<now, handbacks, revoked, sweep, faults>>
    BY DEF IInv, TypeOK, ClocksBehind, RetireOwn
  <1>1. ASSUME NEW i \in task[r].seen, CloseIdle(i),
               Goto(r, "retire", [task[r] EXCEPT !.seen = @ \ {i}])
        PROVE  IInv'
    <2> DEFINE what == [task[r] EXCEPT !.seen = @ \ {i}]
    <2>1. /\ what \in Tasks /\ what.at <= now + Skew
          /\ what.seen \subseteq task[r].seen
      BY <1>0 DEF Tasks
    <2>2. Goto(r, "retire", what)
      BY <1>1
    <2> HIDE DEF what
    <2>3. Passed(what.seen) /\ i \in Sightings
      BY <1>0, <1>1, <2>1 DEF Passed
    <2>4. /\ SessionsStay /\ LeasesStay
          /\ \A s \in DOMAIN sessions : sessions'[s].inflight = sessions[s].inflight
          /\ DOMAIN sessions' = DOMAIN sessions
      BY <1>1, <2>3, IdleClosed
    <2>5. /\ \A s \in DOMAIN sessions :
                IF sessions[s].implicit THEN sessions'[s].inflight >= sessions[s].inflight
                                        ELSE sessions'[s].inflight = sessions[s].inflight
          /\ \A s \in DOMAIN sessions' \ DOMAIN sessions :
                sessions'[s].implicit \/ sessions'[s].inflight = 0
      BY <2>4, RowTypes DEF IInv
    <2>6. "retire" \in Places \ {"writing"} /\ "retire" # "commit"
      BY DEF Places
    <2>7. pc' = [pc EXCEPT ![r] = "retire"] /\ task' = [task EXCEPT ![r] = what]
      BY <2>2 DEF Goto
    <2>8. UNCHANGED <<now, revoked, sweep>> /\ handbacks' \subseteq DOMAIN leases
          /\ faults' \in 0..MaxFaults
      BY <1>0
    <2> QED
      BY <2>1, <2>3, <2>4, <2>5, <2>6, <2>7, <2>8, RowStep
  <1>2. ASSUME NEW where \in {"admit", "find"}, Goto(r, where, Blank),
               UNCHANGED <<sessions, leases>>
        PROVE  IInv'
    <2>1. Blank \in Tasks /\ Blank.at <= now + Skew
      BY <1>0, Blanks
    <2>2. UNCHANGED <<now, rowVars, revoked, sweep, faults>>
      BY <1>0, <1>2 DEF rowVars
    <2>3. where \in Places \ {"writing"} /\ where # "commit" /\ where # "retire"
      BY DEF Places
    <2> QED
      BY <1>2, <2>1, <2>2, <2>3, PrivateStep
  <1> QED
    BY <1>1, <1>2 DEF RetireOwn

(* A row of the sessions changes in place. *)
LEMMA SessionUpdate ==
    ASSUME TypeOK, NEW s \in DOMAIN sessions, NEW row \in Sessions,
           sessions' = [sessions EXCEPT ![s] = row],
           row.fellow = sessions[s].fellow, row.implicit = sessions[s].implicit,
           row.end = "open" => Open(s)
    PROVE  /\ SessionsStay /\ DOMAIN sessions' = DOMAIN sessions /\ sessions'[s] = row
           /\ \A z \in DOMAIN sessions \ {s} : sessions'[z] = sessions[z]
  <1>1. sessions' \in Seq(Sessions) /\ DOMAIN sessions' = DOMAIN sessions
    BY SeqUpdate DEF TypeOK
  <1>2. sessions'[s] = row /\ \A z \in DOMAIN sessions \ {s} : sessions'[z] = sessions[z]
    OBVIOUS
  <1>3. ASSUME NEW z \in DOMAIN sessions
        PROVE  /\ sessions'[z].fellow = sessions[z].fellow
               /\ sessions'[z].implicit = sessions[z].implicit
               /\ sessions'[z].end = "open" => Open(z)
    BY <1>2 DEF Open
  <1> QED
    BY <1>1, <1>2, <1>3 DEF SessionsStay

(* A session is inserted. *)
LEMMA SessionAppend ==
    ASSUME TypeOK, NEW row \in Sessions, sessions' = Append(sessions, row)
    PROVE  /\ SessionsStay
           /\ DOMAIN sessions' = DOMAIN sessions \cup {Len(sessions) + 1}
           /\ Len(sessions) + 1 \notin DOMAIN sessions
           /\ sessions'[Len(sessions) + 1] = row
           /\ \A z \in DOMAIN sessions : sessions'[z] = sessions[z]
  BY SeqAppend DEF TypeOK, SessionsStay, Open

(* A request takes a count of the session it is going to use. *)
LEMMA TakingStep ==
    ASSUME IInv, NEW r \in Requests, NEW what \in Tasks',
           pc' = [pc EXCEPT ![r] = "writing"], task' = [task EXCEPT ![r] = what], what.at <= now + Skew,
           SessionsStay, leases' = leases, \A s \in DOMAIN sessions : Open(s) => sessions'[s].end = "open",
           UNCHANGED <<now, handbacks, revoked, sweep, faults>>,
           \A s \in DOMAIN sessions :
              IF sessions[s].implicit
              THEN sessions'[s].inflight
                      >= IF s = what.session THEN sessions[s].inflight + 1 ELSE sessions[s].inflight
              ELSE sessions'[s].inflight = sessions[s].inflight,
           \A s \in DOMAIN sessions' \ DOMAIN sessions :
              IF sessions'[s].implicit THEN sessions'[s].inflight >= 1 ELSE sessions'[s].inflight = 0
    PROVE  IInv'
  <1>1. LeasesStay
    BY LeasesSame DEF IInv
  <1>2. ClosedHoldsNothing' /\ ActiveExclude'
    BY <1>1, LeasesKeep
  <1>3. /\ leases' \in Seq(Leases') /\ DOMAIN leases \subseteq DOMAIN leases'
        /\ handbacks' \subseteq DOMAIN leases' /\ faults' \in 0..MaxFaults
    BY <1>1 DEF LeasesStay, IInv, TypeOK
  <1>4. ASSUME NEW s \in DOMAIN sessions'
        PROVE  IF sessions'[s].implicit
               THEN sessions'[s].end = "open" =>
                       Cardinality(UsersIn(pc', task', s)) <= sessions'[s].inflight
               ELSE sessions'[s].inflight = 0
    <2>1. sessions'[s].inflight \in Nat
      <3>1. sessions' \in [DOMAIN sessions' -> Sessions]
        BY LenProperties DEF SessionsStay
      <3>2. sessions'[s] \in Sessions
        BY <3>1
      <3> QED
        BY <3>2 DEF Sessions
    <2>2. task'[r] = what /\ \A q \in Requests \ {r} : pc'[q] = pc[q] /\ task'[q] = task[q]
      BY DEF IInv, TypeOK
    <2>3. /\ Cardinality(UsersIn(pc, task, s)) \in Nat /\ Cardinality(UsersIn(pc', task', s)) \in Nat
          /\ Cardinality(UsersIn(pc', task', s)) <= Cardinality(UsersIn(pc, task, s)) + 1
          /\ what.session # s =>
                Cardinality(UsersIn(pc', task', s)) <= Cardinality(UsersIn(pc, task, s))
      BY <2>2, UsersMove
    <2>4. CASE s \in DOMAIN sessions
      <3>1. sessions[s].inflight \in Nat
        BY <2>4, RowTypes DEF IInv
      <3>2. sessions'[s].implicit = sessions[s].implicit /\ (sessions'[s].end = "open" => Open(s))
        BY <2>4 DEF SessionsStay
      <3>3. IF sessions[s].implicit THEN Open(s) => Cardinality(UsersIn(pc, task, s)) <= sessions[s].inflight
                                    ELSE sessions[s].inflight = 0
        BY <2>4 DEF IInv, CountsCover, Users, UsersIn
      <3> QED
        BY <2>1, <2>3, <2>4, <3>1, <3>2, <3>3
    <2>5. CASE s \notin DOMAIN sessions
      <3>1. s # 0
        BY LenProperties DEF SessionsStay
      <3>2. Cardinality(UsersIn(pc, task, s)) = 0
        BY <2>5, <3>1, NoUsersYet, FS_EmptySet DEF IInv
      <3> QED
        BY <2>1, <2>3, <2>5, <3>2
    <2> QED
      BY <2>4, <2>5
  <1>5. CountsCover'
    BY <1>4 DEF CountsCover, Open, Users, UsersIn
  <1>6. "writing" \in Places /\ "writing" # "retire" /\ "writing" # "commit"
    BY DEF Places
  <1> QED
    BY <1>2, <1>3, <1>5, <1>6, RequestStep

(* A new session is a row of the table. *)
LEMMA NewSessions ==
    ASSUME NEW f \in Fellows, NEW implicit \in BOOLEAN, NEW at \in Nat
    PROVE  /\ NewSession(f, implicit, at) \in Sessions
           /\ NewSession(f, implicit, at).implicit = implicit
           /\ NewSession(f, implicit, at).inflight = IF implicit THEN 1 ELSE 0
  BY DEF NewSession, Sessions

(* The row that a join leaves. *)
LEMMA JoinedRow ==
    ASSUME TypeOK, NEW s \in DOMAIN sessions, NEW at \in Nat
    PROVE  \E row \in Sessions :
              /\ Joined(s, at) = [sessions EXCEPT ![s] = row]
              /\ row.fellow = sessions[s].fellow /\ row.implicit = sessions[s].implicit
              /\ row.end = sessions[s].end
              /\ row.inflight = IF sessions[s].implicit THEN sessions[s].inflight + 1
                                                        ELSE sessions[s].inflight
  <1> DEFINE old == sessions[s]
             row == [old EXCEPT !.beat = Later(@, at),
                                !.idle = Later(@, at + ShortIdle),
                                !.inflight = IF old.implicit THEN @ + 1 ELSE @]
  <1>1. old \in Sessions /\ Later(old.beat, at) \in Nat /\ Later(old.idle, at + ShortIdle) \in Nat
    BY RowTypes DEF Later
  <1>2. Joined(s, at) = [sessions EXCEPT ![s] = row]
    BY LenProperties DEF Joined, TypeOK
  <1>3. /\ row \in Sessions
        /\ row.fellow = old.fellow /\ row.implicit = old.implicit /\ row.end = old.end
        /\ row.inflight = IF old.implicit THEN old.inflight + 1 ELSE old.inflight
    <2> DEFINE beat == Later(old.beat, at)
               idle == Later(old.idle, at + ShortIdle)
               first == [old EXCEPT !.beat = beat]
               second == [first EXCEPT !.idle = idle]
               count == IF old.implicit THEN old.inflight + 1 ELSE old.inflight
    <2>1. beat \in Nat /\ idle \in Nat /\ count \in Nat
      BY <1>1, RowTypes
    <2> HIDE DEF beat, idle
    <2>2. first \in Sessions /\ first.inflight = old.inflight /\ first.implicit = old.implicit
          /\ first.fellow = old.fellow /\ first.end = old.end /\ first.idle = old.idle
      BY <1>1, <2>1 DEF Sessions
    <2>3. row = [second EXCEPT !.inflight = count]
      BY DEF beat, idle
    <2> HIDE DEF count
    <2> HIDE DEF first
    <2>4. second \in Sessions /\ second.inflight = old.inflight /\ second.implicit = old.implicit
          /\ second.fellow = old.fellow /\ second.end = old.end
      BY <2>1, <2>2 DEF Sessions
    <2> HIDE DEF second, row
    <2>5. row \in Sessions
      BY <2>1, <2>3, <2>4 DEF Sessions
    <2>6. row.fellow = old.fellow /\ row.implicit = old.implicit /\ row.end = old.end
          /\ row.inflight = count
      BY <2>3, <2>4 DEF Sessions
    <2> QED
      BY <2>5, <2>6 DEF count
  <1> QED
    BY <1>2, <1>3

(* A request that is where it should be has a typed memory. *)
LEMMA RequestTypes ==
    ASSUME IInv, NEW r \in Requests
    PROVE  /\ TypeOK /\ now \in Nat
           /\ task[r] \in Tasks /\ task[r].at \in Nat /\ task[r].at <= now + Skew
           /\ task[r].session \in DOMAIN sessions \cup {0} /\ task[r].again \in BOOLEAN
           /\ FellowOf[r] \in Fellows
           /\ handbacks \subseteq DOMAIN leases /\ faults \in 0..MaxFaults
           /\ leases \in Seq(Leases)
  BY DEF IInv, TypeOK, ClocksBehind, Tasks, Fellows

(* A request that ends, or goes back to search, after it touched the table  *)
(* of sessions without closing one or lowering a count.                      *)
LEMMA TouchingStep ==
    ASSUME IInv, NEW r \in Requests, NEW where \in {"done", "find"}, NEW again \in BOOLEAN,
           NEW what \in {Blank, Again(again)}, Goto(r, where, what),
           SessionsStay, \A s \in DOMAIN sessions : Open(s) => sessions'[s].end = "open",
           leases' = leases, handbacks' = handbacks, UNCHANGED <<now, revoked, sweep>>,
           faults' \in 0..MaxFaults,
           \A s \in DOMAIN sessions :
              IF sessions[s].implicit THEN sessions'[s].inflight >= sessions[s].inflight
                                      ELSE sessions'[s].inflight = sessions[s].inflight,
           \A s \in DOMAIN sessions' \ DOMAIN sessions :
              sessions'[s].implicit \/ sessions'[s].inflight = 0
    PROVE  IInv'
  <1>1. LeasesStay
    BY LeasesSame DEF IInv
  <1>2. what \in Tasks /\ what.at <= now + Skew
    BY Blanks, RequestTypes
  <1>3. where \in Places \ {"writing"} /\ where # "retire" /\ where # "commit"
    BY DEF Places
  <1>4. handbacks' \subseteq DOMAIN leases
    BY RequestTypes
  <1> QED
    BY <1>1, <1>2, <1>3, <1>4, RowStep DEF Goto

(* A request that joins the open session of its Fellow. *)
LEMMA JoinSteps ==
    ASSUME IInv, NEW r \in Requests, Join(r) \/ JoinLost(r)
    PROVE  IInv'
  <1> DEFINE s == task[r].session
             at == task[r].at
  <1>0. /\ TypeOK /\ now \in Nat /\ at \in Nat /\ at <= now + Skew /\ s \in DOMAIN sessions \cup {0}
        /\ task[r].again \in BOOLEAN /\ faults \in 0..MaxFaults
    BY RequestTypes
  <1>1. /\ UNCHANGED <<now, leases, handbacks, revoked, sweep>>
        /\ Join(r) => faults' = faults
        /\ JoinLost(r) => faults' \in 0..MaxFaults
    BY <1>0 DEF Join, JoinLost, Fault
  <1>2. ASSUME sessions' = sessions
        PROVE  /\ SessionsStay
               /\ \A z \in DOMAIN sessions : Open(z) => sessions'[z].end = "open"
               /\ \A z \in DOMAIN sessions : sessions[z].inflight >= sessions[z].inflight
    BY <1>0, <1>2, RowTypes DEF TypeOK, SessionsStay, Open
  <1>3. CASE Join(r) /\ ~Joinable(s)
    <2>1. sessions' = sessions /\ Goto(r, "find", Again(task[r].again))
      BY <1>3 DEF Join
    <2> QED
      BY <1>0, <1>1, <1>2, <1>3, <2>1, TouchingStep
  <1>4. CASE Join(r) /\ Joinable(s)
    <2>1. sessions' = Joined(s, at) /\ Goto(r, "writing", Note(0, s, 0))
      BY <1>4 DEF Join
    <2> DEFINE what == Note(0, s, 0)
    <2>2. what \in Tasks /\ what.at <= now + Skew /\ what.session = s
      BY <1>0 DEF Tasks, Note, Memo
    <2>3. pc' = [pc EXCEPT ![r] = "writing"] /\ task' = [task EXCEPT ![r] = what]
      BY <2>1 DEF Goto
    <2> HIDE DEF what
    <2>4. CASE s \in DOMAIN sessions
      <3>1. PICK row \in Sessions :
               /\ Joined(s, at) = [sessions EXCEPT ![s] = row]
               /\ row.fellow = sessions[s].fellow /\ row.implicit = sessions[s].implicit
               /\ row.end = sessions[s].end
               /\ row.inflight = IF sessions[s].implicit THEN sessions[s].inflight + 1
                                                         ELSE sessions[s].inflight
        BY <1>0, <2>4, JoinedRow
      <3>2. /\ SessionsStay /\ DOMAIN sessions' = DOMAIN sessions /\ sessions'[s] = row
            /\ \A z \in DOMAIN sessions \ {s} : sessions'[z] = sessions[z]
        BY <1>0, <2>1, <2>4, <3>1, SessionUpdate DEF Open
      <3>3. ASSUME NEW z \in DOMAIN sessions
            PROVE  /\ Open(z) => sessions'[z].end = "open"
                   /\ IF sessions[z].implicit
                      THEN sessions'[z].inflight
                              >= IF z = what.session THEN sessions[z].inflight + 1
                                                     ELSE sessions[z].inflight
                      ELSE sessions'[z].inflight = sessions[z].inflight
        BY <1>0, <2>2, <3>1, <3>2, RowTypes DEF Open
      <3>4. what \in Tasks'
        BY <1>1, <2>2, <3>2, TasksGrow
      <3> QED
        BY <1>1, <1>4, <2>2, <2>3, <3>2, <3>3, <3>4, TakingStep
    <2>5. CASE s \notin DOMAIN sessions
      <3>1. sessions' = sessions
        BY <1>0, <2>1, <2>5 DEF Joined, TypeOK
      <3>2. what \in Tasks' /\ \A z \in DOMAIN sessions : z # what.session
        BY <1>1, <2>2, <2>5, <3>1, TasksGrow
      <3> QED
        BY <1>1, <1>2, <1>4, <2>2, <2>3, <3>1, <3>2, TakingStep
    <2> QED
      BY <2>4, <2>5
  <1>5. CASE JoinLost(r)
    <2>1. Goto(r, "done", Blank)
      BY <1>5 DEF JoinLost, Done
    <2> DEFINE after == Joined(s, at)
    <2>2. CASE s \in DOMAIN sessions
      <3>1. PICK row \in Sessions :
               /\ after = [sessions EXCEPT ![s] = row]
               /\ row.fellow = sessions[s].fellow /\ row.implicit = sessions[s].implicit
               /\ row.end = sessions[s].end
               /\ row.inflight = IF sessions[s].implicit THEN sessions[s].inflight + 1
                                                         ELSE sessions[s].inflight
        BY <1>0, <2>2, JoinedRow
      <3> DEFINE lost == IF sessions[s].implicit THEN row.lost + 1 ELSE row.lost
                 new == [row EXCEPT !.lost = lost]
      <3>2. sessions' = [after EXCEPT ![s].lost = lost]
        BY <1>5, <2>2, <3>1 DEF JoinLost
      <3>3. lost \in Nat
        BY DEF Sessions
      <3> HIDE DEF lost, after
      <3>4. new \in Sessions /\ new.fellow = row.fellow /\ new.implicit = row.implicit
            /\ new.end = row.end /\ new.inflight = row.inflight
        BY <3>3 DEF Sessions
      <3>5. sessions' = [sessions EXCEPT ![s] = new]
        BY <2>2, <3>1, <3>2
      <3> HIDE DEF new
      <3>6. /\ SessionsStay /\ DOMAIN sessions' = DOMAIN sessions /\ sessions'[s] = new
            /\ \A z \in DOMAIN sessions \ {s} : sessions'[z] = sessions[z]
        BY <1>0, <2>2, <3>1, <3>4, <3>5, SessionUpdate DEF Open
      <3>7. ASSUME NEW z \in DOMAIN sessions
            PROVE  /\ Open(z) => sessions'[z].end = "open"
                   /\ IF sessions[z].implicit THEN sessions'[z].inflight >= sessions[z].inflight
                      ELSE sessions'[z].inflight = sessions[z].inflight
        BY <1>0, <3>1, <3>4, <3>6, RowTypes DEF Open
      <3> QED
        BY <1>0, <1>1, <1>5, <2>1, <3>6, <3>7, TouchingStep
    <2>3. CASE s \notin DOMAIN sessions
      <3>1. sessions' = sessions
        BY <1>0, <1>5, <2>3 DEF JoinLost, Joined, TypeOK
      <3> QED
        BY <1>0, <1>1, <1>2, <1>5, <2>1, <3>1, TouchingStep
    <2> QED
      BY <2>2, <2>3
  <1> QED
    BY <1>3, <1>4, <1>5

(* A request that inserts a session. *)
LEMMA OpeningSteps ==
    ASSUME IInv, NEW r \in Requests, CommitOpen(r) \/ Create(r) \/ CreateLost(r)
    PROVE  IInv'
  <1> DEFINE at == task[r].at
             f == FellowOf[r]
             n == Len(sessions) + 1
  <1>0. TypeOK /\ now \in Nat /\ at \in Nat /\ f \in Fellows /\ faults \in 0..MaxFaults /\ n \in Nat
    BY RequestTypes, LenProperties DEF TypeOK
  <1>1. /\ UNCHANGED <<now, leases, handbacks, revoked, sweep>>
        /\ faults' \in 0..MaxFaults /\ (Create(r) => faults' = faults)
    <2>1. CommitOpen(r) \/ Create(r) => UNCHANGED <<now, leases, handbacks, revoked, sweep, faults>>
      BY DEF CommitOpen, Create
    <2>2. CreateLost(r) => UNCHANGED <<now, leases, handbacks, revoked, sweep>>
                           /\ faults < MaxFaults /\ faults' = faults + 1
      BY DEF CreateLost, Fault
    <2> QED
      BY <1>0, <2>1, <2>2
  <1>2. ASSUME sessions' = sessions
        PROVE  /\ SessionsStay
               /\ \A z \in DOMAIN sessions : Open(z) => sessions'[z].end = "open"
               /\ \A z \in DOMAIN sessions : sessions[z].inflight >= sessions[z].inflight
    BY <1>0, <1>2, RowTypes DEF TypeOK, SessionsStay, Open
  <1>3. ASSUME NEW row \in Sessions, sessions' = Append(sessions, row)
        PROVE  /\ SessionsStay /\ DOMAIN sessions' = DOMAIN sessions \cup {n}
               /\ n \notin DOMAIN sessions /\ sessions'[n] = row
               /\ \A z \in DOMAIN sessions :
                     /\ Open(z) => sessions'[z].end = "open"
                     /\ sessions'[z].inflight = sessions[z].inflight
                     /\ sessions'[z].inflight >= sessions[z].inflight
    BY <1>0, <1>3, SessionAppend, RowTypes DEF Open
  <1>4. CASE CommitOpen(r)
    <2>1. Goto(r, "done", Blank)
      BY <1>4 DEF CommitOpen, Done
    <2>2. CASE sessions' = sessions
      BY <1>1, <1>2, <2>1, <2>2, TouchingStep
    <2>3. CASE sessions' = Append(sessions, NewSession(f, FALSE, at))
      <3> DEFINE row == NewSession(f, FALSE, at)
      <3>1. row \in Sessions /\ row.inflight = 0
        BY <1>0, NewSessions
      <3> HIDE DEF row
      <3>2. sessions' = Append(sessions, row)
        BY <2>3 DEF row
      <3>3. /\ SessionsStay /\ DOMAIN sessions' = DOMAIN sessions \cup {n}
            /\ n \notin DOMAIN sessions /\ sessions'[n] = row
            /\ \A z \in DOMAIN sessions :
                  /\ Open(z) => sessions'[z].end = "open"
                  /\ sessions'[z].inflight = sessions[z].inflight
                  /\ sessions'[z].inflight >= sessions[z].inflight
        BY <1>3, <3>1, <3>2
      <3> QED
        BY <1>1, <2>1, <3>1, <3>3, TouchingStep
    <2> QED
      BY <1>4, <2>2, <2>3 DEF CommitOpen
  <1>5. CASE Create(r) /\ OwnOpen(f) # {}
    <2>1. sessions' = sessions /\ Goto(r, "find", Again(TRUE))
      BY <1>5 DEF Create
    <2> DEFINE again == TRUE
    <2>2. again \in BOOLEAN /\ Goto(r, "find", Again(again))
      BY <2>1
    <2> HIDE DEF again
    <2> QED
      BY <1>1, <1>2, <1>5, <2>1, <2>2, TouchingStep
  <1>6. CASE CreateLost(r)
    <2> DEFINE kept == NewSession(f, TRUE, at)
               row == [kept EXCEPT !.lost = 1]
               again == TRUE
    <2>0. kept \in Sessions /\ kept.implicit
      BY <1>0, NewSessions
    <2> HIDE DEF kept
    <2>1. row \in Sessions /\ row.implicit
      BY <2>0 DEF Sessions
    <2>2. sessions' = Append(sessions, row) /\ again \in BOOLEAN /\ Goto(r, "find", Again(again))
      BY <1>6 DEF CreateLost, kept
    <2> HIDE DEF row, again
    <2>3. /\ SessionsStay /\ DOMAIN sessions' = DOMAIN sessions \cup {n}
          /\ n \notin DOMAIN sessions /\ sessions'[n] = row
          /\ \A z \in DOMAIN sessions :
                /\ Open(z) => sessions'[z].end = "open"
                /\ sessions'[z].inflight = sessions[z].inflight
                /\ sessions'[z].inflight >= sessions[z].inflight
      BY <1>3, <2>1, <2>2
    <2> QED
      BY <1>1, <2>1, <2>2, <2>3, TouchingStep
  <1>7. CASE Create(r) /\ OwnOpen(f) = {}
    <2> DEFINE row == NewSession(f, TRUE, at)
               what == Note(0, n, 0)
    <2>1. /\ sessions' = Append(sessions, row) /\ Goto(r, "writing", what)
      BY <1>7 DEF Create
    <2>2. row \in Sessions /\ row.implicit /\ row.inflight = 1
      BY <1>0, NewSessions
    <2> HIDE DEF row
    <2>3. /\ SessionsStay /\ DOMAIN sessions' = DOMAIN sessions \cup {n}
          /\ n \notin DOMAIN sessions /\ sessions'[n] = row
          /\ \A z \in DOMAIN sessions :
                /\ Open(z) => sessions'[z].end = "open"
                /\ sessions'[z].inflight = sessions[z].inflight
                /\ sessions'[z].inflight >= sessions[z].inflight
      BY <1>3, <2>1, <2>2
    <2>4. what \in Tasks' /\ what.session = n /\ what.at <= now + Skew
      BY <1>0, <2>3 DEF Tasks, Note, Memo
    <2> HIDE DEF what
    <2>5. pc' = [pc EXCEPT ![r] = "writing"] /\ task' = [task EXCEPT ![r] = what]
      BY <2>1 DEF Goto
    <2>6. /\ \A z \in DOMAIN sessions : z # what.session
          /\ \A z \in DOMAIN sessions' \ DOMAIN sessions :
                sessions'[z].implicit /\ sessions'[z].inflight >= 1
      BY <2>2, <2>3, <2>4
    <2> QED
      BY <1>1, <1>7, <2>3, <2>4, <2>5, <2>6, TakingStep
  <1> QED
    BY <1>4, <1>5, <1>6, <1>7

(* A direct append gives its count back, or leaves with it. *)
LEMMA LeavingStep ==
    ASSUME IInv, NEW r \in Requests, pc[r] = "writing", Goto(r, "done", Blank),
           SessionsStay, LeasesStay, UNCHANGED <<now, handbacks, revoked, sweep>>,
           faults' \in 0..MaxFaults, DOMAIN sessions' = DOMAIN sessions,
           \A s \in DOMAIN sessions :
              IF sessions[s].implicit /\ s = task[r].session
              THEN sessions'[s].inflight >= sessions[s].inflight - 1
              ELSE sessions'[s].inflight = sessions[s].inflight
    PROVE  IInv'
  <1>1. ClosedHoldsNothing' /\ ActiveExclude'
    BY LeasesKeep
  <1>2. /\ leases' \in Seq(Leases') /\ DOMAIN leases' = DOMAIN leases
        /\ handbacks' \subseteq DOMAIN leases'
    BY RequestTypes DEF LeasesStay
  <1>3. Blank \in Tasks' /\ Blank.at <= now + Skew
    BY <1>2, Blanks, TasksGrow, RequestTypes
  <1>4. /\ "done" \in Places /\ "done" # "retire" /\ "done" # "commit" /\ "done" # "writing"
    BY DEF Places
  <1>5. ASSUME NEW s \in DOMAIN sessions'
        PROVE  IF sessions'[s].implicit
               THEN sessions'[s].end = "open" =>
                       Cardinality(UsersIn(pc', task', s)) <= sessions'[s].inflight
               ELSE sessions'[s].inflight = 0
    <2>1. pc'[r] = "done" /\ \A q \in Requests \ {r} : pc'[q] = pc[q] /\ task'[q] = task[q]
      BY DEF IInv, TypeOK, Goto
    <2>2. /\ Cardinality(UsersIn(pc, task, s)) \in Nat /\ Cardinality(UsersIn(pc', task', s)) \in Nat
          /\ Cardinality(UsersIn(pc', task', s)) <= Cardinality(UsersIn(pc, task, s))
          /\ r \in UsersIn(pc, task, s) =>
                Cardinality(UsersIn(pc', task', s)) = Cardinality(UsersIn(pc, task, s)) - 1
      BY <2>1, <1>4, UsersMove
    <2>3. s = task[r].session => r \in UsersIn(pc, task, s)
      BY DEF UsersIn
    <2>4. sessions[s].inflight \in Nat
      BY RowTypes DEF IInv
    <2>5. sessions'[s].implicit = sessions[s].implicit /\ (sessions'[s].end = "open" => Open(s))
      BY DEF SessionsStay
    <2>6. IF sessions[s].implicit THEN Open(s) => Cardinality(UsersIn(pc, task, s)) <= sessions[s].inflight
                                  ELSE sessions[s].inflight = 0
      BY DEF IInv, CountsCover, Users, UsersIn
    <2>7. sessions'[s].inflight \in Nat
      <3>1. sessions' \in [DOMAIN sessions' -> Sessions]
        BY LenProperties DEF SessionsStay
      <3>2. sessions'[s] \in Sessions
        BY <3>1
      <3> QED
        BY <3>2 DEF Sessions
    <2> QED
      BY <2>2, <2>3, <2>4, <2>5, <2>6, <2>7
  <1>6. CountsCover'
    BY <1>5 DEF CountsCover, Open, Users, UsersIn
  <1>7. pc' = [pc EXCEPT ![r] = "done"] /\ task' = [task EXCEPT ![r] = Blank]
    BY DEF Goto
  <1> HIDE DEF Blank
  <1> QED
    BY <1>1, <1>2, <1>3, <1>4, <1>6, <1>7, RequestStep

(* The release of a direct append, whether it arrives or is lost. *)
LEMMA ReleaseSteps ==
    ASSUME IInv, NEW r \in Requests, Release(r) \/ ReleaseLost(r)
    PROVE  IInv'
  <1> DEFINE s == task[r].session
             old == sessions[s]
  <1>0. /\ TypeOK /\ s \in DOMAIN sessions \cup {0} /\ faults \in 0..MaxFaults
        /\ pc[r] = "writing" /\ Goto(r, "done", Blank)
        /\ UNCHANGED <<now, handbacks, revoked, sweep>>
    BY RequestTypes DEF Release, ReleaseLost, Done
  <1>1. faults' \in 0..MaxFaults
    <2>1. Release(r) => faults' = faults
      BY DEF Release
    <2>2. ReleaseLost(r) => faults < MaxFaults /\ faults' = faults + 1
      BY DEF ReleaseLost, Fault
    <2> QED
      BY <1>0, <2>1, <2>2
  <1>2. \A z \in DOMAIN sessions : sessions[z].inflight \in Nat
    BY <1>0, RowTypes
  <1>3. ASSUME sessions' = sessions
        PROVE  /\ SessionsStay /\ DOMAIN sessions' = DOMAIN sessions
               /\ \A z \in DOMAIN sessions : Open(z) => sessions'[z].end = "open"
               /\ \A z \in DOMAIN sessions :
                     IF sessions[z].implicit /\ z = s
                     THEN sessions'[z].inflight >= sessions[z].inflight - 1
                     ELSE sessions'[z].inflight = sessions[z].inflight
    BY <1>0, <1>2, <1>3 DEF TypeOK, SessionsStay, Open
  <1>4. CASE Release(r) /\ ~Counted(s)
    <2>1. sessions' = sessions /\ leases' = leases
      BY <1>4 DEF Release
    <2>2. LeasesStay
      BY <1>0, <1>3, <2>1, LeasesSame
    <2> QED
      BY <1>0, <1>1, <1>3, <2>1, <2>2, LeavingStep
  <1>5. CASE Release(r) /\ Counted(s) /\ s \in DOMAIN sessions
    <2> DEFINE count == old.inflight - 1
               end == IF IsLast(s) THEN "released" ELSE old.end
               half == [old EXCEPT !.inflight = count]
               row == [half EXCEPT !.end = end]
    <2>1. sessions' = [sessions EXCEPT ![s].inflight = @ - 1,
                                       ![s].end = IF IsLast(s) THEN "released" ELSE @]
      BY <1>5 DEF Release
    <2>2. old \in Sessions /\ count \in Nat
          /\ end \in {"open", "idle", "released", "handback"} /\ (end = "open" => Open(s))
      BY <1>0, <1>5, RowTypes DEF Counted, Open, Sessions
    <2>3. sessions' = [sessions EXCEPT ![s] = row]
      BY <1>0, <1>5, <2>1, LenProperties DEF TypeOK
    <2> HIDE DEF count, end
    <2>4. half \in Sessions /\ half.fellow = old.fellow /\ half.implicit = old.implicit
          /\ half.inflight = count
      BY <2>2 DEF Sessions
    <2> HIDE DEF half
    <2>5. row \in Sessions /\ row.fellow = old.fellow /\ row.implicit = old.implicit
          /\ row.inflight = count /\ row.end = end
      BY <2>2, <2>4 DEF Sessions
    <2> HIDE DEF row
    <2>6. /\ SessionsStay /\ DOMAIN sessions' = DOMAIN sessions /\ sessions'[s] = row
          /\ \A z \in DOMAIN sessions \ {s} : sessions'[z] = sessions[z]
      BY <1>0, <1>5, <2>2, <2>3, <2>5, SessionUpdate
    <2>7. LeasesStay
      <3>1. CASE IsLast(s)
        <4>1. leases' = Retired(s, {"active", "challenged"}, "expired")
          BY <1>5, <3>1 DEF Release
        <4> QED
          BY <1>0, <2>6, <4>1, RetiredStay
      <3>2. CASE ~IsLast(s)
        <4>1. leases' = leases /\ end = old.end
          BY <1>5, <3>2 DEF Release, end
        <4>2. \A z \in DOMAIN sessions : Open(z) => sessions'[z].end = "open"
          BY <2>5, <2>6, <4>1 DEF Open
        <4> QED
          BY <1>0, <2>6, <4>1, <4>2, LeasesSame
      <3> QED
        BY <3>1, <3>2
    <2>8. old.implicit
      BY <1>2, <1>5 DEF IInv, CountsCover, Counted
    <2>9. ASSUME NEW z \in DOMAIN sessions
          PROVE  IF sessions[z].implicit /\ z = s
                 THEN sessions'[z].inflight >= sessions[z].inflight - 1
                 ELSE sessions'[z].inflight = sessions[z].inflight
      BY <1>2, <2>2, <2>5, <2>6, <2>8 DEF count
    <2> QED
      BY <1>0, <1>1, <2>6, <2>7, <2>9, LeavingStep
  <1>6. CASE Release(r) /\ Counted(s) /\ s \notin DOMAIN sessions
    <2>1. sessions' = sessions
      BY <1>0, <1>6 DEF Release, TypeOK
    <2>2. LeasesStay
      <3>1. CASE leases' = Retired(s, {"active", "challenged"}, "expired")
        BY <1>0, <2>1, <3>1, RetiredStay
      <3>2. CASE leases' = leases
        BY <1>0, <1>3, <2>1, <3>2, LeasesSame
      <3> QED
        BY <1>6, <3>1, <3>2 DEF Release
    <2> QED
      BY <1>0, <1>1, <1>3, <2>1, <2>2, LeavingStep
  <1>7. CASE ReleaseLost(r)
    <2>1. leases' = leases
      BY <1>7 DEF ReleaseLost
    <2>2. CASE s \in DOMAIN sessions
      <3> DEFINE lost == IF old.implicit THEN old.lost + 1 ELSE old.lost
                 row == [old EXCEPT !.lost = lost]
      <3>1. old \in Sessions /\ lost \in Nat
        BY <1>0, <2>2, RowTypes DEF Sessions
      <3>2. sessions' = [sessions EXCEPT ![s] = row]
        BY <1>7 DEF ReleaseLost
      <3> HIDE DEF lost
      <3>3. row \in Sessions /\ row.fellow = old.fellow /\ row.implicit = old.implicit
            /\ row.inflight = old.inflight /\ row.end = old.end
        BY <3>1 DEF Sessions
      <3> HIDE DEF row
      <3>4. /\ SessionsStay /\ DOMAIN sessions' = DOMAIN sessions /\ sessions'[s] = row
            /\ \A z \in DOMAIN sessions \ {s} : sessions'[z] = sessions[z]
        BY <1>0, <2>2, <3>2, <3>3, SessionUpdate DEF Open
      <3>5. \A z \in DOMAIN sessions : Open(z) => sessions'[z].end = "open"
        BY <3>3, <3>4 DEF Open
      <3>6. LeasesStay
        BY <1>0, <2>1, <3>4, <3>5, LeasesSame
      <3>7. ASSUME NEW z \in DOMAIN sessions
            PROVE  IF sessions[z].implicit /\ z = s
                   THEN sessions'[z].inflight >= sessions[z].inflight - 1
                   ELSE sessions'[z].inflight = sessions[z].inflight
        BY <1>2, <3>3, <3>4
      <3> QED
        BY <1>0, <1>1, <3>4, <3>6, <3>7, LeavingStep
    <2>3. CASE s \notin DOMAIN sessions
      <3>1. sessions' = sessions
        BY <1>0, <1>7, <2>3 DEF ReleaseLost, TypeOK
      <3>2. LeasesStay
        BY <1>0, <1>3, <2>1, <3>1, LeasesSame
      <3> QED
        BY <1>0, <1>1, <1>3, <3>1, <3>2, LeavingStep
    <2> QED
      BY <2>2, <2>3
  <1> QED
    BY <1>4, <1>5, <1>6, <1>7

-----------------------------------------------------------------------------
(* The batches of the session and lease routes *)

(* A request that ends and takes no count. *)
LEMMA EndingStep ==
    ASSUME IInv, NEW r \in Requests, Done(r), SessionsStay, LeasesStay,
           DOMAIN sessions' = DOMAIN sessions,
           \A s \in DOMAIN sessions : sessions'[s].inflight = sessions[s].inflight,
           handbacks' \subseteq DOMAIN leases, UNCHANGED <<now, revoked, sweep, faults>>
    PROVE  IInv'
  <1>1. Blank \in Tasks /\ Blank.at <= now + Skew
    BY Blanks, RequestTypes
  <1>2. "done" \in Places \ {"writing"} /\ "done" # "retire" /\ "done" # "commit"
    BY DEF Places
  <1>3. pc' = [pc EXCEPT ![r] = "done"] /\ task' = [task EXCEPT ![r] = Blank]
        /\ faults' \in 0..MaxFaults
    BY RequestTypes DEF Done, Goto
  <1>4. \A s \in DOMAIN sessions :
           IF sessions[s].implicit THEN sessions'[s].inflight >= sessions[s].inflight
                                   ELSE sessions'[s].inflight = sessions[s].inflight
    BY RowTypes DEF IInv
  <1> HIDE DEF Blank
  <1> QED
    BY <1>1, <1>2, <1>3, <1>4, RowStep

(* A batch that is not elected changes nothing. *)
LEMMA Refused ==
    ASSUME IInv, NEW r \in Requests, Done(r),
           UNCHANGED <<now, sessions, leases, handbacks, revoked, sweep, faults>>
    PROVE  IInv'
  <1>1. SessionsStay
    BY RequestTypes DEF TypeOK, SessionsStay, Open
  <1>2. LeasesStay
    BY <1>1, LeasesSame, RequestTypes DEF Open
  <1> QED
    BY <1>1, <1>2, EndingStep, RequestTypes

(* A lease that changes its status, and becomes active by no means. *)
LEMMA LeaseEnds ==
    ASSUME TypeOK, NEW l, NEW status \in {"released", "challenged"},
           sessions' = sessions, leases' = [leases EXCEPT ![l].status = status]
    PROVE  LeasesStay
  <1>1. Leases = Leases' /\ \A s : Open(s) => sessions'[s].end = "open"
    BY DEF Leases, Open
  <1>2. CASE l \in DOMAIN leases
    <2> DEFINE row == [leases[l] EXCEPT !.status = status]
    <2>1. row \in Leases /\ row.object = leases[l].object /\ row.session = leases[l].session
          /\ row.parallel = leases[l].parallel /\ row.status # "active"
      BY <1>2, RowTypes DEF Leases
    <2>2. leases' = [leases EXCEPT ![l] = row]
      OBVIOUS
    <2> HIDE DEF row
    <2>3. leases' \in Seq(Leases) /\ DOMAIN leases' = DOMAIN leases
      <3>1. leases \in Seq(Leases)
        BY DEF TypeOK
      <3>2. [leases EXCEPT ![l] = row] \in Seq(Leases)
            /\ DOMAIN [leases EXCEPT ![l] = row] = DOMAIN leases
        BY <2>1, <3>1, SeqUpdate
      <3> QED
        BY <2>2, <3>2
    <2>4. leases'[l] = row /\ \A k \in DOMAIN leases \ {l} : leases'[k] = leases[k]
      BY <1>2, <2>2
    <2> QED
      BY <1>1, <2>1, <2>3, <2>4 DEF LeasesStay
  <1>3. CASE l \notin DOMAIN leases
    <2>1. leases' = leases
      BY <1>3 DEF TypeOK
    <2> QED
      BY <1>1, <2>1 DEF LeasesStay, TypeOK
  <1> QED
    BY <1>2, <1>3

(* A handback, and a challenge. *)
LEMMA LeaseEndingSteps ==
    ASSUME IInv, NEW r \in Requests, CommitRelease(r) \/ CommitChallenge(r)
    PROVE  IInv'
  <1> DEFINE l == task[r].lease
  <1>1. /\ TypeOK /\ handbacks \subseteq DOMAIN leases
        /\ Done(r) /\ UNCHANGED <<now, revoked, sweep, faults>> /\ sessions' = sessions
        /\ CommitRelease(r) => l \in DOMAIN leases
    BY RequestTypes DEF CommitRelease, CommitChallenge, Commit, IInv, Prepared, Owned
  <1>2. CASE UNCHANGED <<leases, handbacks>>
    BY <1>1, <1>2, Refused
  <1>3. ASSUME NEW status \in {"released", "challenged"},
               leases' = [leases EXCEPT ![l].status = status], handbacks' \subseteq DOMAIN leases
        PROVE  IInv'
    <2>1. LeasesStay
      BY <1>1, <1>3, LeaseEnds
    <2>2. SessionsStay
      BY <1>1 DEF TypeOK, SessionsStay, Open
    <2> QED
      BY <1>1, <1>3, <2>1, <2>2, EndingStep
  <1>4. CASE CommitRelease(r)
    <2>1. \/ UNCHANGED <<leases, handbacks>>
          \/ leases' = [leases EXCEPT ![l].status = "released"] /\ handbacks' = handbacks \cup {l}
      BY <1>4 DEF CommitRelease, Commit
    <2> QED
      BY <1>1, <1>2, <1>3, <1>4, <2>1
  <1>5. CASE CommitChallenge(r)
    <2>1. handbacks' = handbacks
          /\ (leases' = leases \/ leases' = [leases EXCEPT ![l].status = "challenged"])
      BY <1>5 DEF CommitChallenge, Commit
    <2> QED
      BY <1>1, <1>2, <1>3, <2>1
  <1> QED
    BY <1>4, <1>5

(* The close of a session by its Fellow. *)
LEMMA CloseSteps ==
    ASSUME IInv, NEW r \in Requests, CommitClose(r)
    PROVE  IInv'
  <1> DEFINE s == task[r].session
             row == [sessions[s] EXCEPT !.end = "handback"]
  <1>1. /\ TypeOK /\ s \in DOMAIN sessions /\ handbacks \subseteq DOMAIN leases
        /\ Done(r) /\ UNCHANGED <<now, handbacks, revoked, sweep, faults>>
        /\ leases' = Retired(s, {"active"}, "released")
    BY RequestTypes DEF CommitClose, IInv, Prepared, Owned
  <1>2. row \in Sessions /\ row.fellow = sessions[s].fellow /\ row.implicit = sessions[s].implicit
        /\ row.inflight = sessions[s].inflight /\ row.end = "handback"
    BY <1>1, RowTypes DEF Sessions
  <1>3. sessions' = [sessions EXCEPT ![s] = row] \/ sessions' = sessions
    BY DEF CommitClose
  <1> HIDE DEF row
  <1>4. /\ SessionsStay /\ DOMAIN sessions' = DOMAIN sessions
        /\ \A z \in DOMAIN sessions : sessions'[z].inflight = sessions[z].inflight
        /\ \A z \in DOMAIN sessions \ {s} : sessions'[z] = sessions[z]
    <2>1. CASE sessions' = [sessions EXCEPT ![s] = row]
      BY <1>1, <1>2, <2>1, SessionUpdate
    <2>2. CASE sessions' = sessions
      BY <1>1, <2>2 DEF TypeOK, SessionsStay, Open
    <2> QED
      BY <1>3, <2>1, <2>2
  <1>5. LeasesStay
    <2> DEFINE from == {"active"}
    <2>1. leases' = Retired(s, from, "released") /\ "active" \in from
      BY <1>1
    <2> HIDE DEF from
    <2> QED
      BY <1>1, <1>4, <2>1, RetiredStay
  <1> QED
    BY <1>1, <1>4, <1>5, EndingStep

(* A heartbeat renews the session and its live leases. *)
LEMMA HeartbeatSteps ==
    ASSUME IInv, NEW r \in Requests, CommitHeartbeat(r)
    PROVE  IInv'
  <1> DEFINE s == task[r].session
             at == task[r].at
             old == sessions[s]
             renewed == [l \in DOMAIN leases |->
                            IF task[r].seen # {} /\ leases[l].session = s /\ LiveAt(l, at)
                            THEN [leases[l] EXCEPT !.until = at + LeaseTerm] ELSE leases[l]]
  <1>1. /\ TypeOK /\ at \in Nat /\ s \in DOMAIN sessions /\ handbacks \subseteq DOMAIN leases
        /\ pc[r] = "commit" /\ OpOf[r] = "heartbeat"
        /\ Done(r) /\ UNCHANGED <<now, handbacks, revoked, sweep, faults>>
    <2>1. /\ pc[r] = "commit" /\ OpOf[r] = "heartbeat"
          /\ Done(r) /\ UNCHANGED <<now, handbacks, revoked, sweep, faults>>
      BY DEF CommitHeartbeat, Commit
    <2>2. s \in DOMAIN sessions
      BY <2>1 DEF IInv, Prepared, Owned
    <2> QED
      BY <2>1, <2>2, RequestTypes
  <1>2. CASE UNCHANGED <<sessions, leases>>
    BY <1>1, <1>2, Refused
  <1>3. ASSUME sessions' = [sessions EXCEPT ![s].beat = at, ![s].idle = at + LongIdle],
               leases' = renewed
        PROVE  IInv'
    <2> DEFINE idle == at + LongIdle
               half == [old EXCEPT !.beat = at]
               row == [half EXCEPT !.idle = idle]
    <2>1. sessions' = [sessions EXCEPT ![s] = row]
      BY <1>1, <1>3, LenProperties DEF TypeOK
    <2>2. old \in Sessions /\ idle \in Nat
      BY <1>1, RowTypes
    <2> HIDE DEF idle
    <2>3. half \in Sessions /\ half.fellow = old.fellow /\ half.implicit = old.implicit
          /\ half.inflight = old.inflight /\ half.end = old.end
      BY <1>1, <2>2 DEF Sessions
    <2> HIDE DEF half
    <2>4. row \in Sessions /\ row.fellow = old.fellow /\ row.implicit = old.implicit
          /\ row.inflight = old.inflight /\ row.end = old.end
      BY <2>2, <2>3 DEF Sessions
    <2> HIDE DEF row
    <2>5. /\ SessionsStay /\ DOMAIN sessions' = DOMAIN sessions /\ sessions'[s] = row
          /\ \A z \in DOMAIN sessions \ {s} : sessions'[z] = sessions[z]
      BY <1>1, <2>1, <2>4, SessionUpdate DEF Open
    <2>6. ASSUME NEW z \in DOMAIN sessions
          PROVE  sessions'[z].inflight = sessions[z].inflight /\ (Open(z) => sessions'[z].end = "open")
      BY <2>4, <2>5 DEF Open
    <2>7. ASSUME NEW l \in DOMAIN leases
          PROVE  /\ leases'[l] \in Leases /\ leases'[l].object = leases[l].object
                 /\ leases'[l].session = leases[l].session
                 /\ leases'[l].parallel = leases[l].parallel
                 /\ leases'[l].status = leases[l].status
      <3> DEFINE until == at + LeaseTerm
                 new == [leases[l] EXCEPT !.until = until]
      <3>1. until \in Nat /\ leases[l] \in Leases
        BY <1>1, RowTypes
      <3>2. leases'[l] = leases[l] \/ leases'[l] = new
        BY <1>3
      <3> HIDE DEF until
      <3>3. new \in Leases /\ new.object = leases[l].object /\ new.session = leases[l].session
            /\ new.parallel = leases[l].parallel /\ new.status = leases[l].status
        BY <3>1 DEF Leases
      <3> QED
        BY <3>1, <3>2, <3>3
    <2>8. Leases = Leases'
      BY <2>5 DEF Leases
    <2>9. leases' \in [DOMAIN leases -> Leases']
      BY <1>3, <2>7, <2>8
    <2>10. leases' \in Seq(Leases') /\ DOMAIN leases' = DOMAIN leases
      BY <1>1, <2>9, SeqMap DEF TypeOK
    <2>11. \A l \in DOMAIN leases : leases[l].session \in DOMAIN sessions
      BY <1>1, RowTypes
    <2>12. LeasesStay
      BY <2>6, <2>7, <2>10, <2>11 DEF LeasesStay
    <2> QED
      BY <1>1, <2>5, <2>6, <2>12, EndingStep
  <1>4. \/ UNCHANGED <<sessions, leases>>
        \/ /\ sessions' = [sessions EXCEPT ![s].beat = at, ![s].idle = at + LongIdle]
           /\ leases' = renewed
    BY DEF CommitHeartbeat, Commit
  <1> QED
    BY <1>2, <1>3, <1>4

(* A new lease stands beside the leases that have not lapsed. *)
LEMMA AcquireSteps ==
    ASSUME IInv, NEW r \in Requests, CommitAcquire(r)
    PROVE  IInv'
  <1> DEFINE s == task[r].session
             at == task[r].at
             kept == [l \in DOMAIN leases |->
                         IF /\ leases[l].object = ObjectOf[r] /\ leases[l].status = "active"
                            /\ leases[l].until <= at
                         THEN [leases[l] EXCEPT !.status = "expired"] ELSE leases[l]]
             row == [object |-> ObjectOf[r], session |-> s, parallel |-> ParallelOf[r],
                     until |-> at + LeaseTerm, status |-> "active"]
  <1>1. /\ TypeOK /\ at \in Nat /\ s \in DOMAIN sessions /\ sessions[s].fellow = FellowOf[r]
        /\ handbacks \subseteq DOMAIN leases
        /\ Done(r) /\ UNCHANGED <<now, sessions, handbacks, revoked, sweep, faults>>
    <2>1. /\ pc[r] = "commit" /\ OpOf[r] = "acquire"
          /\ Done(r) /\ UNCHANGED <<now, sessions, handbacks, revoked, sweep, faults>>
      BY DEF CommitAcquire, Commit
    <2>2. s \in DOMAIN sessions /\ sessions[s].fellow = FellowOf[r]
      BY <2>1 DEF IInv, Prepared, Owned
    <2> QED
      BY <2>1, <2>2, RequestTypes
  <1>2. CASE leases' = leases
    BY <1>1, <1>2, Refused
  <1>3. ASSUME Open(s), ~Excluded(r, at), leases' = Append(kept, row)
        PROVE  IInv'
    <2>1. ASSUME NEW l \in DOMAIN leases
          PROVE  /\ kept[l] \in Leases
                 /\ kept[l].object = leases[l].object /\ kept[l].session = leases[l].session
                 /\ kept[l].parallel = leases[l].parallel
                 /\ kept[l].status = "active" =>
                       /\ leases[l].status = "active"
                       /\ leases[l].object = ObjectOf[r] => leases[l].until > at
      <3> DEFINE new == [leases[l] EXCEPT !.status = "expired"]
      <3>1. leases[l] \in Leases /\ leases[l].until \in Nat
        BY <1>1, RowTypes DEF Leases
      <3>2. new \in Leases /\ new.object = leases[l].object /\ new.session = leases[l].session
            /\ new.parallel = leases[l].parallel /\ new.status # "active"
        BY <3>1 DEF Leases
      <3>3. \/ kept[l] = new
            \/ kept[l] = leases[l] /\ ~(/\ leases[l].object = ObjectOf[r]
                                        /\ leases[l].status = "active" /\ leases[l].until <= at)
        OBVIOUS
      <3> HIDE DEF new, kept
      <3>4. CASE kept[l] = new
        BY <3>2, <3>4
      <3>5. CASE kept[l] = leases[l] /\ ~(/\ leases[l].object = ObjectOf[r]
                                          /\ leases[l].status = "active" /\ leases[l].until <= at)
        BY <1>1, <3>1, <3>5
      <3> QED
        BY <3>3, <3>4, <3>5
    <2>2. kept \in [DOMAIN leases -> Leases]
      BY <2>1
    <2>3. kept \in Seq(Leases) /\ DOMAIN kept = DOMAIN leases
      <3>1. leases \in Seq(Leases)
        BY <1>1 DEF TypeOK
      <3> HIDE DEF kept
      <3> QED
        BY <2>2, <3>1, SeqMap
    <2>4. row \in Leases /\ row.object = ObjectOf[r] /\ row.session = s
          /\ row.parallel = ParallelOf[r] /\ row.status = "active"
      BY <1>1 DEF Leases
    <2> HIDE DEF kept, row
    <2>5. PICK n : n = Len(leases) + 1 /\ n = Len(kept) + 1
      BY <1>1, <2>3, LenProperties DEF TypeOK
    <2>6. /\ leases' \in Seq(Leases) /\ DOMAIN leases' = DOMAIN leases \cup {n}
          /\ n \notin DOMAIN leases /\ leases'[n] = row
          /\ \A l \in DOMAIN leases : leases'[l] = kept[l]
      BY <1>3, <2>3, <2>4, <2>5, SeqAppend
    <2>7. /\ leases' \in Seq(Leases') /\ DOMAIN leases \subseteq DOMAIN leases'
          /\ handbacks' \subseteq DOMAIN leases'
      BY <1>1, <2>6 DEF Leases
    <2>8. SessionsStay
      BY <1>1 DEF TypeOK, SessionsStay, Open
    <2>9. \A l \in DOMAIN leases : leases[l].session \in DOMAIN sessions
      BY <1>1, RowTypes
    <2>10. ClosedHoldsNothing'
      BY <1>1, <1>3, <2>1, <2>4, <2>6 DEF IInv, ClosedHoldsNothing, Open
    <2>11. /\ HolderOf(n)' = FellowOf[r]
           /\ \A l \in DOMAIN leases : HolderOf(l)' = HolderOf(l)
      BY <1>1, <2>1, <2>4, <2>6 DEF HolderOf
    <2>12. ASSUME NEW l \in DOMAIN leases, leases'[l].status = "active",
                  leases'[l].object = ObjectOf[r]
           PROVE  HolderOf(l) # FellowOf[r] /\ leases'[l].parallel /\ ParallelOf[r]
      <3>1. /\ leases[l].status = "active" /\ leases[l].object = ObjectOf[r]
            /\ leases[l].until > at /\ leases'[l].parallel = leases[l].parallel
        BY <2>1, <2>6, <2>12
      <3>2. ~(HolderOf(l) = FellowOf[r] \/ ~leases[l].parallel \/ ~ParallelOf[r])
        BY <1>3, <3>1 DEF Excluded, LiveAt
      <3> QED
        BY <3>1, <3>2
    <2>13. ASSUME NEW k \in DOMAIN leases', NEW l \in DOMAIN leases', k # l,
                  leases'[k].status = "active", leases'[l].status = "active",
                  leases'[k].object = leases'[l].object
           PROVE  HolderOf(k)' # HolderOf(l)' /\ leases'[k].parallel /\ leases'[l].parallel
      <3>1. CASE k = n
        BY <2>4, <2>6, <2>11, <2>12, <2>13, <3>1
      <3>2. CASE l = n
        BY <2>4, <2>6, <2>11, <2>12, <2>13, <3>2
      <3>3. CASE k # n /\ l # n
        <4>1. /\ k \in DOMAIN leases /\ l \in DOMAIN leases
              /\ leases[k].status = "active" /\ leases[l].status = "active"
              /\ leases[k].object = leases[l].object
              /\ leases'[k].parallel = leases[k].parallel
              /\ leases'[l].parallel = leases[l].parallel
          BY <2>1, <2>6, <2>13, <3>3
        <4>2. HolderOf(k) # HolderOf(l) /\ leases[k].parallel /\ leases[l].parallel
          BY <2>13, <4>1 DEF IInv, ActiveExclude
        <4> QED
          BY <2>11, <4>1, <4>2
      <3> QED
        BY <3>1, <3>2, <3>3
    <2>14. ActiveExclude'
      BY <2>13 DEF ActiveExclude
    <2>15. pc' = [pc EXCEPT ![r] = "done"] /\ task' = [task EXCEPT ![r] = Blank]
           /\ faults' \in 0..MaxFaults
      BY <1>1, RequestTypes DEF Done, Goto
    <2>16. /\ "done" \in Places /\ "done" # "retire" /\ "done" # "commit" /\ "done" # "writing"
      BY DEF Places
    <2>17. Blank \in Tasks' /\ Blank.at <= now + Skew
      BY <1>1, <2>7, Blanks, TasksGrow, RequestTypes
    <2> HIDE DEF Blank
    <2>18. CountsCover'
      <3>1. \A z \in DOMAIN sessions :
               IF sessions[z].implicit THEN sessions'[z].inflight >= sessions[z].inflight
                                       ELSE sessions'[z].inflight = sessions[z].inflight
        BY <1>1, RowTypes
      <3> QED
        BY <1>1, <2>8, <2>15, <2>16, <3>1, CountsStay
    <2> QED
      BY <1>1, <2>7, <2>8, <2>10, <2>14, <2>15, <2>16, <2>17, <2>18, RequestStep
  <1>4. leases' = leases \/ (Open(s) /\ ~Excluded(r, at) /\ leases' = Append(kept, row))
    BY DEF CommitAcquire, Commit, Authorized, Acquirable
  <1> QED
    BY <1>2, <1>3, <1>4

-----------------------------------------------------------------------------
(* The clock, the sweepers and the credentials *)

(* A step that leaves the requests alone, and adds no row. *)
LEMMA OtherStep ==
    ASSUME IInv, SessionsStay, LeasesStay, DOMAIN sessions' = DOMAIN sessions,
           \A s \in DOMAIN sessions : sessions'[s].inflight = sessions[s].inflight,
           handbacks' = handbacks, UNCHANGED <<pc, task>>,
           now' \in 0..MaxTime, now <= now', revoked' \subseteq Fellows, faults' \in 0..MaxFaults,
           sweep' \in [Sweepers -> SUBSET Sightings], \A w \in Sweepers : Passed(sweep'[w])
    PROVE  IInv'
  <1>0. TypeOK /\ now \in Nat /\ now' \in Nat
    BY DEF IInv, TypeOK
  <1>1. ClosedHoldsNothing' /\ ActiveExclude'
    BY LeasesKeep
  <1>2. Tasks \subseteq Tasks' /\ Sightings \subseteq Sightings'
    BY TasksGrow DEF LeasesStay
  <1>3. TypeOK'
    <2>1. /\ task' \in [Requests -> Tasks'] /\ sweep' \in [Sweepers -> SUBSET Sightings']
      BY <1>0, <1>2 DEF TypeOK
    <2>2. /\ leases' \in Seq(Leases') /\ handbacks' \subseteq DOMAIN leases'
          /\ sessions' \in Seq(Sessions) /\ Sessions' = Sessions
      BY <1>0 DEF LeasesStay, SessionsStay, TypeOK, Sessions
    <2>3. pc' \in [Requests -> {"start", "retire", "admit", "find", "join", "create", "writing",
                                "commit", "done"}]
      BY <1>0 DEF TypeOK
    <2> QED
      BY <2>1, <2>2, <2>3 DEF TypeOK, Fellows
  <1>4. Prepared'
    <2>1. ASSUME NEW q \in Requests, pc'[q] = "commit", OpOf[q] # "open"
          PROVE  Owned(q, task[q])'
      <3>1. Owned(q, task[q])
        BY <2>1 DEF IInv, Prepared
      <3> QED
        BY <3>1 DEF Owned, SessionsStay, LeasesStay
    <2> QED
      BY <2>1 DEF Prepared
  <1>5. ClocksBehind'
    <2>1. \A is : Passed(is) => Passed(is)'
      <3>1. \A i \in Sightings : i.deadline \in Nat
        BY DEF Sightings
      <3> QED
        BY <1>0, <1>2, <3>1 DEF Passed
    <2>2. ASSUME NEW q \in Requests
          PROVE  task'[q].at <= now' + Skew /\ (pc'[q] = "retire" => Passed(task[q].seen)')
      <3>1. task[q].at <= now + Skew /\ task[q].at \in Nat /\ (pc[q] = "retire" => Passed(task[q].seen))
        BY RequestTypes DEF IInv, ClocksBehind
      <3> QED
        BY <1>0, <2>1, <3>1
    <2>3. ASSUME NEW w \in Sweepers PROVE Passed(sweep[w])'
      <3>1. Passed(sweep'[w])
        OBVIOUS
      <3> QED
        BY <1>0, <1>2, <3>1 DEF Passed, Sightings
    <2> QED
      BY <2>2, <2>3 DEF ClocksBehind
  <1>6. CountsCover'
    <2>1. ASSUME NEW s \in DOMAIN sessions'
          PROVE  IF sessions'[s].implicit
                 THEN sessions'[s].end = "open" => Cardinality(UsersIn(pc, task, s)) <= sessions'[s].inflight
                 ELSE sessions'[s].inflight = 0
      <3>1. IF sessions[s].implicit THEN Open(s) => Cardinality(UsersIn(pc, task, s)) <= sessions[s].inflight
                                    ELSE sessions[s].inflight = 0
        BY DEF IInv, CountsCover, Users, UsersIn
      <3> QED
        BY <3>1 DEF SessionsStay
    <2> QED
      BY <2>1 DEF CountsCover, Open, Users, UsersIn
  <1> QED
    BY <1>1, <1>3, <1>4, <1>5, <1>6 DEF IInv

(* Time passes, a credential goes, a sweeper selects, gives up, or closes.   *)
LEMMA OtherSteps ==
    ASSUME IInv,
           \/ Tick \/ (\E f \in Fellows : Revoke(f))
           \/ (\E w \in Sweepers : Select(w) \/ CloseNext(w) \/ SweepFails(w))
           \/ UNCHANGED vars
    PROVE  IInv'
  <1>0. /\ TypeOK /\ now \in 0..MaxTime /\ faults \in 0..MaxFaults /\ revoked \subseteq Fellows
        /\ sweep \in [Sweepers -> SUBSET Sightings] /\ \A w \in Sweepers : Passed(sweep[w])
    BY DEF IInv, TypeOK, ClocksBehind
  <1>1. ASSUME UNCHANGED <<rowVars, pc, task>>,
               now' \in 0..MaxTime, now <= now', revoked' \subseteq Fellows,
               faults' \in 0..MaxFaults,
               sweep' \in [Sweepers -> SUBSET Sightings], \A w \in Sweepers : Passed(sweep'[w])
        PROVE  IInv'
    <2>1. SessionsStay
      BY <1>0, <1>1 DEF TypeOK, rowVars, SessionsStay, Open
    <2>2. LeasesStay
      BY <1>0, <1>1, <2>1, LeasesSame DEF rowVars, Open
    <2> QED
      BY <1>1, <2>1, <2>2, OtherStep DEF rowVars
  <1>2. CASE Tick
    BY <1>0, <1>1, <1>2 DEF Tick
  <1>3. ASSUME NEW f \in Fellows, Revoke(f) PROVE IInv'
    BY <1>0, <1>1, <1>3 DEF Revoke
  <1>4. ASSUME NEW w \in Sweepers, Select(w) PROVE IInv'
    <2>1. PICK at \in WorkerClock : sweep' = [sweep EXCEPT ![w] = Selected(Fellows, at)]
      BY <1>4 DEF Select
    <2>2. Selected(Fellows, at) \subseteq Sightings /\ Passed(Selected(Fellows, at))
      BY <1>0, SelectedPassed
    <2>3. sweep' \in [Sweepers -> SUBSET Sightings] /\ \A v \in Sweepers : Passed(sweep'[v])
      BY <1>0, <2>1, <2>2
    <2> QED
      BY <1>0, <1>1, <1>4, <2>3 DEF Select
  <1>5. ASSUME NEW w \in Sweepers, SweepFails(w) PROVE IInv'
    <2>1. sweep' \in [Sweepers -> SUBSET Sightings] /\ \A v \in Sweepers : Passed(sweep'[v])
      BY <1>0, <1>5 DEF SweepFails, Passed
    <2> QED
      BY <1>0, <1>1, <1>5, <2>1 DEF SweepFails, Fault
  <1>6. ASSUME NEW w \in Sweepers, CloseNext(w) PROVE IInv'
    <2>1. PICK i \in sweep[w] :
             /\ CloseIdle(i) /\ sweep' = [sweep EXCEPT ![w] = @ \ {i}]
             /\ UNCHANGED <<now, handbacks, revoked, pc, task, faults>>
      BY <1>6 DEF CloseNext
    <2>2. i \in Sightings
      BY <1>0
    <2>3. /\ SessionsStay /\ LeasesStay /\ DOMAIN sessions' = DOMAIN sessions
          /\ \A s \in DOMAIN sessions : sessions'[s].inflight = sessions[s].inflight
      BY <2>1, <2>2, IdleClosed
    <2>4. sweep' \in [Sweepers -> SUBSET Sightings] /\ \A v \in Sweepers : Passed(sweep'[v])
      BY <1>0, <2>1 DEF Passed
    <2>5. now' \in 0..MaxTime /\ now <= now' /\ revoked' \subseteq Fellows /\ faults' \in 0..MaxFaults
      BY <1>0, <2>1
    <2> QED
      BY <2>1, <2>3, <2>4, <2>5, OtherStep
  <1>7. CASE UNCHANGED vars
    BY <1>0, <1>1, <1>7 DEF vars, rowVars
  <1> QED
    BY <1>2, <1>3, <1>4, <1>5, <1>6, <1>7

-----------------------------------------------------------------------------
(* The theorems *)

(* The invariant holds initially. *)
LEMMA InitIInv == Init => IInv
  <1> SUFFICES ASSUME Init PROVE IInv
    OBVIOUS
  <1>1. sessions = <<>> /\ leases = <<>> /\ DOMAIN sessions = {} /\ DOMAIN leases = {}
        /\ sessions \in Seq(Sessions) /\ leases \in Seq(Leases)
    BY DEF Init
  <1>2. Blank \in Tasks /\ Blank.at = 0
    BY Blanks
  <1>3. /\ now = 0 /\ handbacks = {} /\ revoked = {} /\ faults = 0
        /\ pc = [r \in Requests |-> "start"] /\ task = [r \in Requests |-> Blank]
        /\ sweep = [w \in Sweepers |-> {}]
    BY DEF Init
  <1> HIDE DEF Blank
  <1>4. TypeOK
    BY <1>1, <1>2, <1>3 DEF TypeOK
  <1>5. ClocksBehind
    BY <1>2, <1>3 DEF ClocksBehind, Passed
  <1>6. Prepared /\ ClosedHoldsNothing /\ ActiveExclude /\ CountsCover
    BY <1>1, <1>3 DEF Prepared, ClosedHoldsNothing, ActiveExclude, CountsCover
  <1> QED
    BY <1>4, <1>5, <1>6 DEF IInv

(* Every step keeps the invariant: one lemma for each kind of step. *)
LEMMA NextIInv == IInv /\ [Next]_vars => IInv'
  <1> SUFFICES ASSUME IInv, [Next]_vars PROVE IInv'
    OBVIOUS
  <1>1. ASSUME NEW r \in Requests, Step(r) PROVE IInv'
    BY <1>1, ReadingSteps, RetireSteps, OpeningSteps, JoinSteps, ReleaseSteps, HeartbeatSteps,
       AcquireSteps, LeaseEndingSteps, CloseSteps DEF Step
  <1>2. CASE ~(\E r \in Requests : Step(r))
    BY <1>2, OtherSteps DEF Next, Sweep
  <1> QED
    BY <1>1, <1>2

(* The invariant holds in every state the requests, sweeps, faults and       *)
(* revocations can reach.                                                    *)
THEOREM Invariance == Spec => []IInv
  BY InitIInv, NextIInv, PTL DEF Spec

(* Every variable keeps its type; in particular the release of a direct      *)
(* append (IMPLICIT_SESSION_RELEASE_SQL) takes no count below zero.          *)
THEOREM TypeCorrect == Spec => []TypeOK
  <1>1. IInv => TypeOK
    BY DEF IInv
  <1> QED
    BY <1>1, Invariance, PTL

(* No active lease outlives its session, however the session was closed and  *)
(* whatever was in flight then.                                              *)
THEOREM LeasesEndWithSessions == Spec => []ClosedHoldsNothing
  <1>1. IInv => ClosedHoldsNothing
    BY DEF IInv
  <1> QED
    BY <1>1, Invariance, PTL

(* Live leases on one object exclude each other unless they are              *)
(* parallel-safe and belong to two Fellows, for any number of requests and   *)
(* whatever the clocks they have read.                                       *)
THEOREM Exclusion == Spec => []LeasesExclude
  <1>1. IInv => LeasesExclude
    BY DEF IInv, ActiveExclude, LeasesExclude, Live, LiveAt
  <1> QED
    BY <1>1, Invariance, PTL

-----------------------------------------------------------------------------
(* Nobody closes a session that somebody uses *)

\* The two halves of LivingSessionsAreSpared, for one step.
SessionsSpared ==
    \A s \in DOMAIN sessions :
        Open(s) /\ sessions'[s].end \notin {"open", "handback"} =>
            Silent(s) \/ (sessions[s].implicit /\ Users(s)' = {})
LeasesSpared ==
    \A l \in DOMAIN leases :
        Live(l) /\ ~Silent(leases[l].session) /\ ~Quiet(leases[l].session, now)
                /\ sessions'[leases[l].session].end = "open" =>
            \/ leases'[l].status \in {"active", "released"}
            \/ leases'[l].status = "expired" /\ Lapsed(l)

(* A step that closes no session and leaves the leases alone spares all. *)
LEMMA SparedAlike ==
    ASSUME TypeOK, leases' = leases, \A s \in DOMAIN sessions : Open(s) => sessions'[s].end = "open"
    PROVE  SessionsSpared /\ LeasesSpared
  BY DEF SessionsSpared, LeasesSpared, Live, LiveAt

(* A sweep closes a session only if its deadline still is the one it has     *)
(* seen pass.                                                                *)
LEMMA SparedByIdle ==
    ASSUME IInv, NEW i \in Sightings, i.deadline <= now + Skew, CloseIdle(i)
    PROVE  SessionsSpared /\ LeasesSpared
  <1> DEFINE z == i.session
  <1>0. TypeOK /\ z \in DOMAIN sessions
    BY DEF IInv, Sightings
  <1>1. CASE ~StillIdle(i)
    BY <1>0, <1>1, SparedAlike DEF CloseIdle, Open
  <1>2. CASE StillIdle(i)
    <2>1. /\ sessions' = [sessions EXCEPT ![z] = [sessions[z] EXCEPT !.end = "idle"]]
          /\ leases' = Retired(z, {"active", "challenged"}, "expired")
      BY <1>2 DEF CloseIdle
    <2>2. Silent(z)
      <3>1. now + Skew \in WorkerClock /\ i.deadline <= now + Skew
        BY <1>0, <1>2, Clocks
      <3> QED
        BY <1>2, <3>1 DEF StillIdle, Silent
    <2>3. /\ sessions'[z].end = "idle" /\ \A s \in DOMAIN sessions \ {z} : sessions'[s] = sessions[s]
      <3>1. sessions[z] \in Sessions
        BY <1>0, RowTypes
      <3>2. [sessions[z] EXCEPT !.end = "idle"].end = "idle"
        BY <3>1 DEF Sessions
      <3> QED
        BY <1>0, <2>1, <3>2
    <2>4. \A l \in DOMAIN leases : leases[l].session # z => leases'[l] = leases[l]
      BY <2>1 DEF Retired
    <2>5. SessionsSpared
      BY <2>2, <2>3 DEF SessionsSpared, Open
    <2>6. LeasesSpared
      BY <2>3, <2>4 DEF LeasesSpared, Live, LiveAt
    <2> QED
      BY <2>5, <2>6
  <1> QED
    BY <1>1, <1>2

(* The last release closes a session that no other direct append uses. *)
LEMMA SparedByRelease ==
    ASSUME IInv, NEW r \in Requests, Release(r)
    PROVE  SessionsSpared /\ LeasesSpared
  <1>z. PICK z : z = task[r].session
    OBVIOUS
  <1>0. /\ TypeOK /\ pc[r] = "writing" /\ Goto(r, "done", Blank)
        /\ z \in DOMAIN sessions \cup {0}
    BY <1>z, RequestTypes DEF Release, Done
  <1>1. CASE ~(Counted(z) /\ IsLast(z) /\ z \in DOMAIN sessions)
    <2>1. \A s \in DOMAIN sessions : Open(s) => sessions'[s].end = "open"
      <3>1. CASE z \in DOMAIN sessions /\ ~Counted(z)
        BY <1>z, <3>1 DEF Release, Open
      <3>2. CASE z \in DOMAIN sessions /\ Counted(z) /\ ~IsLast(z)
        <4> DEFINE half == [sessions[z] EXCEPT !.inflight = @ - 1]
                   row == [half EXCEPT !.end = @]
        <4>1. sessions' = [sessions EXCEPT ![z].inflight = @ - 1, ![z].end = @]
          BY <1>z, <3>2 DEF Release
        <4>2. sessions' = [sessions EXCEPT ![z] = row]
          <5>1. sessions = [s \in DOMAIN sessions |-> sessions[s]]
            BY <1>0, LenProperties DEF TypeOK
          <5> QED
            BY <3>2, <4>1, <5>1
        <4>3. sessions[z] \in Sessions
          BY <1>0, <3>2, RowTypes
        <4>4. row.end = sessions[z].end
          BY <4>3 DEF Sessions
        <4> HIDE DEF row
        <4> QED
          BY <3>2, <4>2, <4>4 DEF Open
      <3>3. CASE z \notin DOMAIN sessions
        <4>1. sessions' = sessions
          BY <1>z, <1>0, <3>3 DEF Release, TypeOK
        <4> QED
          BY <4>1 DEF Open
      <3> QED
        BY <1>1, <3>1, <3>2, <3>3
    <2>2. \A l \in DOMAIN leases : leases'[l] = leases[l]
      <3>1. CASE z \in DOMAIN sessions
        BY <1>z, <1>1, <3>1 DEF Release
      <3>2. CASE z \notin DOMAIN sessions
        <4>1. \A l \in DOMAIN leases : leases[l].session # z
          BY <1>0, <3>2, RowTypes
        <4> QED
          BY <1>z, <4>1 DEF Release, Retired
      <3> QED
        BY <3>1, <3>2
    <2> QED
      BY <2>1, <2>2 DEF SessionsSpared, LeasesSpared, Live, LiveAt
  <1>2. CASE Counted(z) /\ IsLast(z) /\ z \in DOMAIN sessions
    <2>1. /\ sessions' = [sessions EXCEPT ![z].inflight = @ - 1, ![z].end = "released"]
          /\ leases' = Retired(z, {"active", "challenged"}, "expired")
      BY <1>z, <1>2 DEF Release
    <2>2. /\ sessions'[z].end = "released"
          /\ \A s \in DOMAIN sessions \ {z} : sessions'[s] = sessions[s]
      <3> DEFINE half == [sessions[z] EXCEPT !.inflight = @ - 1]
                 row == [half EXCEPT !.end = "released"]
      <3>1. sessions' = [sessions EXCEPT ![z] = row]
        BY <1>0, <1>2, <2>1, LenProperties DEF TypeOK
      <3>2. sessions[z] \in Sessions
        BY <1>0, <1>2, RowTypes
      <3>3. row.end = "released"
        BY <3>2 DEF Sessions
      <3> HIDE DEF row
      <3> QED
        BY <1>0, <1>2, <3>1, <3>3 DEF TypeOK
    <2>3. \A l \in DOMAIN leases : leases[l].session # z => leases'[l] = leases[l]
      BY <2>1 DEF Retired
    <2>4. sessions[z].implicit /\ Users(z)' = {}
      <3>1. sessions[z].implicit \in BOOLEAN /\ sessions[z].inflight = 1 /\ Open(z)
        BY <1>0, <1>2, RowTypes DEF IsLast, Counted
      <3>2. sessions[z].implicit /\ Cardinality(UsersIn(pc, task, z)) <= 1
        BY <1>2, <3>1 DEF IInv, CountsCover, Users, UsersIn
      <3>3. pc'[r] = "done" /\ \A q \in Requests \ {r} : pc'[q] = pc[q] /\ task'[q] = task[q]
        BY <1>0 DEF TypeOK, Goto
      <3>4. r \in UsersIn(pc, task, z)
        BY <1>z, <1>0 DEF UsersIn
      <3>5. /\ Cardinality(UsersIn(pc, task, z)) \in Nat /\ Cardinality(UsersIn(pc', task', z)) \in Nat
            /\ Cardinality(UsersIn(pc', task', z)) = Cardinality(UsersIn(pc, task, z)) - 1
            /\ Cardinality(UsersIn(pc', task', z)) = 0 => UsersIn(pc', task', z) = {}
        BY <3>3, <3>4, UsersMove
      <3>6. UsersIn(pc', task', z) = {}
        BY <3>2, <3>5
      <3>7. \A x : Users(x)' = UsersIn(pc', task', x)
        BY DEF Users, UsersIn
      <3> QED
        BY <3>2, <3>6, <3>7
    <2>5. SessionsSpared
      BY <2>2, <2>4 DEF SessionsSpared, Open
    <2>6. LeasesSpared
      BY <2>2, <2>3 DEF LeasesSpared, Live, LiveAt
    <2> QED
      BY <2>5, <2>6
  <1> QED
    BY <1>1, <1>2

(* Steps that open, join or leave a session without closing one. *)
LEMMA SparedByEntering ==
    ASSUME IInv, NEW r \in Requests,
           Join(r) \/ JoinLost(r) \/ ReleaseLost(r) \/ CommitOpen(r) \/ Create(r) \/ CreateLost(r)
    PROVE  SessionsSpared /\ LeasesSpared
  <1> DEFINE z == task[r].session
             at == task[r].at
  <1>0. TypeOK /\ at \in Nat /\ z \in DOMAIN sessions \cup {0} /\ FellowOf[r] \in Fellows
    BY RequestTypes
  <1>1. leases' = leases
    BY DEF Join, JoinLost, ReleaseLost, CommitOpen, Create, CreateLost
  <1>2. \A s \in DOMAIN sessions : sessions'[s].end = sessions[s].end
    <2>1. CASE UNCHANGED sessions
      BY <2>1
    <2>2. CASE Join(r) \/ JoinLost(r)
      <3> DEFINE after == Joined(z, at)
      <3>1. \A s \in DOMAIN sessions : after[s].end = sessions[s].end
        <4>1. CASE z \in DOMAIN sessions
          <5>1. PICK row \in Sessions :
                   /\ after = [sessions EXCEPT ![z] = row]
                   /\ row.fellow = sessions[z].fellow /\ row.implicit = sessions[z].implicit
                   /\ row.end = sessions[z].end
                   /\ row.inflight = IF sessions[z].implicit THEN sessions[z].inflight + 1
                                                             ELSE sessions[z].inflight
            BY <1>0, <4>1, JoinedRow
          <5> QED
            BY <4>1, <5>1
        <4>2. CASE z \notin DOMAIN sessions
          BY <1>0, <4>2 DEF Joined, TypeOK
        <4> QED
          BY <4>1, <4>2
      <3>2. DOMAIN after = DOMAIN sessions
        BY <1>0 DEF Joined, TypeOK
      <3>3. CASE sessions' = after
        BY <3>1, <3>3
      <3>4. CASE JoinLost(r)
        <4>1. PICK lost : sessions' = [after EXCEPT ![z].lost = lost]
          BY <3>4 DEF JoinLost
        <4>2. \A s \in DOMAIN after : [after EXCEPT ![z].lost = lost][s].end = after[s].end
          OBVIOUS
        <4> HIDE DEF after
        <4> QED
          BY <3>1, <3>2, <4>1, <4>2
      <3> QED
        BY <2>1, <2>2, <3>3, <3>4 DEF Join
    <2>3. CASE ReleaseLost(r)
      BY <2>3 DEF ReleaseLost
    <2>4. CASE \E row : sessions' = Append(sessions, row)
      <3>1. PICK row : sessions' = Append(sessions, row)
        BY <2>4
      <3>2. sessions \in Seq(Sessions) /\ \A s \in DOMAIN sessions : s \in 1..Len(sessions)
        BY <1>0, LenProperties DEF TypeOK
      <3>3. \A s \in DOMAIN sessions : sessions'[s] = sessions[s]
        BY <3>1, <3>2
      <3> QED
        BY <3>3
    <2> QED
      BY <2>1, <2>2, <2>3, <2>4 DEF CommitOpen, Create, CreateLost
  <1> QED
    BY <1>0, <1>1, <1>2, SparedAlike DEF Open

(* Steps about leases, and the close of a session by its Fellow. *)
LEMMA SparedByLeases ==
    ASSUME IInv, NEW r \in Requests,
           \/ CommitHeartbeat(r) \/ CommitAcquire(r) \/ CommitRelease(r) \/ CommitChallenge(r)
           \/ CommitClose(r)
    PROVE  SessionsSpared /\ LeasesSpared
  <1> DEFINE z == task[r].session
             at == task[r].at
  <1>0. /\ TypeOK /\ now \in Nat /\ at \in Nat /\ at <= now + Skew
        /\ \A l \in DOMAIN leases : leases[l] \in Leases /\ leases[l].until \in Nat
    BY RequestTypes, RowTypes DEF Leases
  <1>1. \A s \in DOMAIN sessions :
           Open(s) => sessions'[s].end = "open" \/ (CommitClose(r) /\ sessions'[s].end = "handback")
    <2>1. CASE CommitHeartbeat(r)
      <3> DEFINE idle == at + LongIdle
                 after == [sessions EXCEPT ![z].beat = at, ![z].idle = idle]
      <3>1. sessions' = sessions \/ sessions' = after
        BY <2>1 DEF CommitHeartbeat, Commit
      <3>2. \A s \in DOMAIN sessions : after[s].end = sessions[s].end
        OBVIOUS
      <3> HIDE DEF after
      <3> QED
        BY <3>1, <3>2 DEF Open
    <2>2. CASE CommitAcquire(r) \/ CommitRelease(r) \/ CommitChallenge(r)
      <3>1. sessions' = sessions
        BY <2>2 DEF CommitAcquire, CommitRelease, CommitChallenge, Commit
      <3> QED
        BY <3>1 DEF Open
    <2>3. CASE CommitClose(r)
      <3>1. sessions' = sessions \/ sessions' = [sessions EXCEPT ![z].end = "handback"]
        BY <2>3 DEF CommitClose
      <3>2. \A s \in DOMAIN sessions :
               \/ [sessions EXCEPT ![z].end = "handback"][s].end = sessions[s].end
               \/ [sessions EXCEPT ![z].end = "handback"][s].end = "handback"
        BY RowTypes, <1>0 DEF Sessions
      <3> QED
        BY <2>3, <3>1, <3>2 DEF Open
    <2> QED
      BY <2>1, <2>2, <2>3
  <1>2. SessionsSpared
    BY <1>1 DEF SessionsSpared
  <1>3. ASSUME NEW l \in DOMAIN leases, Live(l), ~Quiet(leases[l].session, now),
               sessions'[leases[l].session].end = "open"
        PROVE  \/ leases'[l].status \in {"active", "released"}
               \/ leases'[l].status = "expired" /\ Lapsed(l)
    <2>0. leases[l].status = "active" /\ leases[l].until > now /\ leases[l] \in Leases
      BY <1>0, <1>3 DEF Live, LiveAt
    <2>1. CASE leases' = leases
      BY <2>0, <2>1
    <2>2. CASE CommitHeartbeat(r)
      <3> DEFINE until == at + LeaseTerm
      <3>1. leases'[l] = leases[l] \/ leases'[l] = [leases[l] EXCEPT !.until = until]
        BY <2>2 DEF CommitHeartbeat, Commit
      <3>2. [leases[l] EXCEPT !.until = until].status = leases[l].status
        BY <2>0 DEF Leases
      <3> QED
        BY <2>0, <3>1, <3>2
    <2>3. CASE CommitAcquire(r)
      <3> DEFINE kept == [k \in DOMAIN leases |->
                             IF /\ leases[k].object = ObjectOf[r] /\ leases[k].status = "active"
                                /\ leases[k].until <= at
                             THEN [leases[k] EXCEPT !.status = "expired"] ELSE leases[k]]
      <3>1. leases' = leases \/ \E row : leases' = Append(kept, row)
        BY <2>3 DEF CommitAcquire, Commit
      <3>2. kept[l] = leases[l] \/ (kept[l].status = "expired" /\ Lapsed(l))
        <4>1. CASE leases[l].until <= at
          <5>1. now + Skew \in WorkerClock /\ leases[l].until <= now + Skew
            BY <1>0, <4>1, Clocks, SessionConstants
          <5>2. [leases[l] EXCEPT !.status = "expired"].status = "expired"
            BY <2>0 DEF Leases
          <5> QED
            BY <5>1, <5>2 DEF Lapsed
        <4>2. CASE ~(leases[l].until <= at)
          BY <4>2
        <4> QED
          BY <4>1, <4>2
      <3>3. Len(kept) = Len(leases) /\ l \in 1..Len(leases) /\ DOMAIN kept = 1..Len(leases)
        <4>1. leases \in Seq(Leases) /\ DOMAIN leases = 1..Len(leases) /\ Len(leases) \in Nat
          BY <1>0, LenProperties DEF TypeOK
        <4> DEFINE T == {kept[k] : k \in DOMAIN leases}
        <4>2. kept \in [DOMAIN leases -> T]
          OBVIOUS
        <4> HIDE DEF kept, T
        <4>3. kept \in Seq(T) /\ DOMAIN kept = DOMAIN leases
          BY <4>1, <4>2, SeqMap
        <4>4. DOMAIN kept = 1..Len(kept) /\ Len(kept) \in Nat
          BY <4>3, LenProperties
        <4> QED
          BY <1>3, <4>1, <4>3, <4>4
      <3> HIDE DEF kept
      <3>4. \A row : Append(kept, row)[l] = kept[l]
        BY <3>3
      <3> QED
        BY <2>0, <3>1, <3>2, <3>4
    <2>4. CASE CommitRelease(r)
      <3> DEFINE m == task[r].lease
      <3>1. leases' = leases \/ leases' = [leases EXCEPT ![m].status = "released"]
        BY <2>4 DEF CommitRelease, Commit
      <3>2. [leases EXCEPT ![m].status = "released"][l].status \in {"active", "released"}
        BY <2>0 DEF Leases
      <3> QED
        BY <2>0, <3>1, <3>2
    <2>5. CASE CommitChallenge(r)
      <3> DEFINE m == task[r].lease
      <3>1. \/ leases' = leases
            \/ Stale(m, now) /\ sessions' = sessions /\ leases' = [leases EXCEPT ![m].status = "challenged"]
        BY <2>5 DEF CommitChallenge, Commit
      <3>2. sessions' = sessions => ~Stale(l, now)
        BY <1>0, <1>3, <2>0 DEF Stale, Open
      <3>3. m # l => [leases EXCEPT ![m].status = "challenged"][l] = leases[l]
        OBVIOUS
      <3> QED
        BY <2>0, <3>1, <3>2, <3>3
    <2>6. CASE CommitClose(r)
      <3>1. leases'[l] = leases[l] \/ leases'[l] = [leases[l] EXCEPT !.status = "released"]
        BY <2>6 DEF CommitClose, Retired
      <3>2. [leases[l] EXCEPT !.status = "released"].status = "released"
        BY <2>0 DEF Leases
      <3> QED
        BY <2>0, <3>1, <3>2
    <2> QED
      BY <2>2, <2>3, <2>4, <2>5, <2>6
  <1>4. LeasesSpared
    BY <1>3 DEF LeasesSpared
  <1> QED
    BY <1>2, <1>4

(* No step closes a session, or ends a lease, that it has to spare. *)
LEMMA EveryStepSpares == IInv /\ [Next]_vars => SessionsSpared /\ LeasesSpared
  <1> SUFFICES ASSUME IInv, [Next]_vars PROVE SessionsSpared /\ LeasesSpared
    OBVIOUS
  <1>0. TypeOK
    BY DEF IInv
  <1>1. CASE UNCHANGED <<sessions, leases>>
    BY <1>0, <1>1, SparedAlike DEF Open
  <1>2. ASSUME NEW r \in Requests, RetireOwn(r) PROVE SessionsSpared /\ LeasesSpared
    <2>1. CASE \E i \in task[r].seen : CloseIdle(i)
      <3>1. PICK i \in task[r].seen : CloseIdle(i)
        BY <2>1
      <3>2. i \in Sightings /\ i.deadline <= now + Skew
        BY <1>2, <3>1 DEF IInv, ClocksBehind, RetireOwn, Passed
      <3> QED
        BY <3>1, <3>2, SparedByIdle
    <2> QED
      BY <1>1, <1>2, <2>1 DEF RetireOwn
  <1>3. ASSUME NEW w \in Sweepers, CloseNext(w) PROVE SessionsSpared /\ LeasesSpared
    <2>1. PICK i \in sweep[w] : CloseIdle(i)
      BY <1>3 DEF CloseNext
    <2>2. i \in Sightings /\ i.deadline <= now + Skew
      BY <2>1 DEF IInv, ClocksBehind, Passed
    <2> QED
      BY <2>1, <2>2, SparedByIdle
  <1>4. ASSUME NEW r \in Requests,
               \/ SelectOwn(r) \/ Admit(r) \/ Find(r)
               \/ PrepareHeartbeat(r) \/ PrepareAcquire(r) \/ PrepareRelease(r)
               \/ PrepareChallenge(r) \/ PrepareClose(r)
        PROVE  SessionsSpared /\ LeasesSpared
    BY <1>1, <1>4 DEF SelectOwn, Admit, Find, PrepareHeartbeat, PrepareAcquire, PrepareRelease,
       PrepareChallenge, PrepareClose, Prepare, rowVars
  <1>5. ASSUME NEW r \in Requests, Step(r) PROVE SessionsSpared /\ LeasesSpared
    BY <1>2, <1>4, <1>5, SparedByEntering, SparedByRelease, SparedByLeases DEF Step
  <1>6. CASE \/ Tick \/ (\E f \in Fellows : Revoke(f)) \/ UNCHANGED vars
             \/ (\E w \in Sweepers : Select(w) \/ SweepFails(w))
    BY <1>1, <1>6 DEF Tick, Revoke, Select, SweepFails, vars, rowVars
  <1> QED
    BY <1>3, <1>5, <1>6 DEF Next, Sweep

(* The comments of idle.ts and implicit-session.ts: no sweep, no release and *)
(* no request of anybody else closes a session that is in use, or takes a    *)
(* live lease from its holder, unless that lease has lapsed by the clock of  *)
(* some Worker.                                                              *)
THEOREM Sparing == Spec => LivingSessionsAreSpared
  <1>1. SessionsSpared /\ LeasesSpared =>
           /\ \A s \in DOMAIN sessions :
                 Open(s) /\ sessions'[s].end \notin {"open", "handback"} =>
                    Silent(s) \/ (sessions[s].implicit /\ Users(s)' = {})
           /\ \A l \in DOMAIN leases :
                 LET s == leases[l].session IN
                 Live(l) /\ ~Silent(s) /\ ~Quiet(s, now) /\ sessions'[s].end = "open" =>
                    \/ leases'[l].status \in {"active", "released"}
                    \/ leases'[l].status = "expired" /\ Lapsed(l)
    BY DEF SessionsSpared, LeasesSpared
  <1>2. IInv /\ [Next]_vars =>
           [/\ \A s \in DOMAIN sessions :
                  Open(s) /\ sessions'[s].end \notin {"open", "handback"} =>
                     Silent(s) \/ (sessions[s].implicit /\ Users(s)' = {})
            /\ \A l \in DOMAIN leases :
                  LET s == leases[l].session IN
                  Live(l) /\ ~Silent(s) /\ ~Quiet(s, now) /\ sessions'[s].end = "open" =>
                     \/ leases'[l].status \in {"active", "released"}
                     \/ leases'[l].status = "expired" /\ Lapsed(l)]_vars
    BY <1>1, EveryStepSpares
  <1> QED
    BY <1>2, Invariance, PTL DEF Spec, LivingSessionsAreSpared
=============================================================================
