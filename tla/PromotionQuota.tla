--------------------------- MODULE PromotionQuota ---------------------------
(***************************************************************************)
(* The allowance of publication attempts, sessions/quota.ts with the       *)
(* triggers of db/migrations/0044 and 0108.                                *)
(*                                                                         *)
(* Screening is paid for, so a route reserves its attempts first: the      *)
(* reservations of the last hour are limited per Fellow and problem, and   *)
(* per sponsor, and an operator or steward may slow a problem down.  The   *)
(* time of a reservation is the clock of the Worker that makes it, and the *)
(* allowance it has read may be gone when it inserts.                      *)
(***************************************************************************)
EXTENDS Integers, Sequences, FiniteSets

CONSTANTS
    Attempts,     \* requests that want to publish
    Batches,      \* those that reserve all their members in one transaction
    MembersOf,    \* the in-flight keys (Fellow, route, Idempotency-Key) of each
    CallerOf,     \* its Fellow
    ProblemOf,    \* its problem
    PayerOf,      \* the sponsor of its Fellow
    Window,       \* PROMOTION_RATE_LIMIT_WINDOW_MS, an hour
    Hold,         \* RESERVATION_EXPIRY_MS, a minute
    Cap,          \* PROMOTION_RATE_LIMIT_PER_HOUR per Fellow and problem
    PayerCap,     \* SPONSOR_PROMOTION_RATE_LIMIT
    SlowCaps,     \* the limits a control may set
    Drift,        \* how far the clock of a Worker may run ahead
    MaxClock,     \* bounds the clock
    MaxControls   \* bounds the changes of a problem's control

ASSUME QuotaConstants ==
    /\ Batches \subseteq Attempts
    /\ \A a \in Attempts :
          /\ DOMAIN MembersOf[a] = 1..Len(MembersOf[a]) /\ Len(MembersOf[a]) \in Nat
          /\ \A m, n \in DOMAIN MembersOf[a] : MembersOf[a][m] = MembersOf[a][n] => m = n
    /\ Window \in Nat \ {0} /\ Hold \in Nat /\ Drift \in Nat
    /\ Cap \in Nat /\ PayerCap \in Nat /\ SlowCaps \subseteq 1..Cap
    /\ MaxClock \in Nat /\ MaxControls \in Nat

VARIABLES
    time,       \* the true time
    rows,       \* public_write_attempt_reservations, in the order of insertion
    control,    \* the latest slow-mode control of each problem
    published,  \* the attempts whose events are in the ledger
    stage,      \* the attempts
    reading     \* the clock each of them has read

quotaVars == <<time, rows, control, published, stage, reading>>

Problems == {ProblemOf[a] : a \in Attempts}

QuotaInit ==
    /\ time = 0
    /\ rows = <<>>
    /\ control = [p \in Problems |-> [limit |-> Cap, until |-> 0, since |-> 0, revision |-> 0]]
    /\ published = {}
    /\ stage = [a \in Attempts |-> "start"]
    /\ reading = [a \in Attempts |-> 0]

-----------------------------------------------------------------------------
(* The allowance *)

OfFellow(a) == {i \in DOMAIN rows : /\ CallerOf[rows[i].by] = CallerOf[a]
                                    /\ ProblemOf[rows[i].by] = ProblemOf[a]}
OfPayer(a) == {i \in DOMAIN rows : PayerOf[rows[i].by] = PayerOf[a]}

(* Every attempt counts, whatever became of it, and also one that a faster   *)
(* clock has dated after this one.                                           *)
Recent(mine, at) == {i \in mine : rows[i].at > at - Window}

\* The limit of a problem at a time: a control needs no sweep to expire.
LimitAt(p, at) == IF control[p].until > at THEN control[p].limit ELSE Cap

Fits(a, at) ==
    /\ Cardinality(Recent(OfFellow(a), at)) + Len(MembersOf[a]) <= LimitAt(ProblemOf[a], at)
    /\ Cardinality(Recent(OfFellow(a), at)) + Len(MembersOf[a]) <= Cap
    /\ Cardinality(Recent(OfPayer(a), at)) + Len(MembersOf[a]) <= PayerCap

-----------------------------------------------------------------------------
(* When a refused caller is told to come back *)

LaterOf(x, y) == IF x > y THEN x ELSE y

\* Mutant: one more reservation may stay in the window.
Surplus_OffByOne(mine, count, cap, at) == Cardinality(Recent(mine, at)) + count - cap - 1

\* How many reservations have to leave the window for `count' new ones.
Surplus(mine, count, cap, at) == Cardinality(Recent(mine, at)) + count - cap

(* recoveryAt: now if there is room, else when the last of the surplus       *)
(* leaves, and never for a group above the capacity.                         *)
RecoveryTimes(mine, count, cap, at) ==
    LET k == Surplus(mine, count, cap, at)
        dated(x) == {i \in Recent(mine, at) : rows[i].at <= x}
        last == {i \in Recent(mine, at) : /\ Cardinality(dated(rows[i].at)) >= k
                                          /\ Cardinality(dated(rows[i].at - 1)) < k}
    IN CASE count > cap -> {}
         [] count <= cap /\ k <= 0 -> {at}
         [] OTHER -> {rows[i].at + Window : i \in last}

Earliest(times, at) ==
    IF times = {} THEN at + Window
    ELSE LaterOf(at + 1, CHOOSE x \in times : \A y \in times : x <= y)

(* quotaRetryDelay for both dimensions, the later of the two.  A temporary   *)
(* limit also recovers when it expires, subject to the ceiling of the hour.  *)
RetryAt(a, at) ==
    LET count == Len(MembersOf[a])
        until == control[ProblemOf[a]].until
        tight == RecoveryTimes(OfFellow(a), count, LimitAt(ProblemOf[a], at), at)
        loose == IF until > at THEN RecoveryTimes(OfFellow(a), count, Cap, at) ELSE {}
        sponsor == RecoveryTimes(OfPayer(a), count, PayerCap, at)
    IN LaterOf(Earliest(tight \cup {LaterOf(until, x) : x \in loose}, at), Earliest(sponsor, at))

-----------------------------------------------------------------------------
(* An attempt *)

Own(a) == {i \in DOMAIN rows : rows[i].by = a}

\* Mutant: what has been settled is settled again.
Settled_Any(which, status) ==
    [i \in DOMAIN rows |-> IF i \in which THEN [rows[i] EXCEPT !.status = status] ELSE rows[i]]

\* The rows in `which' that are still reserved get the given status.
Settled(which, status) ==
    [i \in DOMAIN rows |-> IF i \in which /\ rows[i].status = "reserved"
                           THEN [rows[i] EXCEPT !.status = status] ELSE rows[i]]

\* The Fellow's own reservations that have expired become `recovered'.
Recovered(a, at) ==
    Settled({i \in DOMAIN rows : CallerOf[rows[i].by] = CallerOf[a] /\ rows[i].at + Hold <= at},
            "recovered")

MoveTo(a, where) == stage' = [stage EXCEPT ![a] = where]

(* The clock is read once.  A single attempt first recovers what has expired, *)
(* a batch does so in the transaction that reserves its members.              *)
Begin(a) ==
    /\ stage[a] = "start"
    /\ \E at \in time..(time + Drift) :
          /\ reading' = [reading EXCEPT ![a] = at]
          /\ rows' = IF a \in Batches THEN rows ELSE Recovered(a, at)
    /\ MoveTo(a, "check")
    /\ UNCHANGED <<time, control, published>>

\* Another request with this key is being screened.
InFlight(a) ==
    \E i \in DOMAIN rows, m \in DOMAIN MembersOf[a] :
        /\ rows[i].key = MembersOf[a][m] /\ rows[i].status = "reserved"
        /\ rows[i].at + Hold > reading[a]

(* getRemainingBudget and the look for a request in flight: advice only, so  *)
(* their reads are one step.                                                 *)
Check(a) ==
    /\ stage[a] = "check"
    /\ MoveTo(a, IF Fits(a, reading[a]) /\ (a \in Batches \/ ~InFlight(a))
                 THEN "reserve" ELSE "refused")
    /\ UNCHANGED <<time, rows, control, published, reading>>

NewRows(a) ==
    [m \in 1..Len(MembersOf[a]) |->
        [by |-> a, key |-> MembersOf[a][m], at |-> reading[a], status |-> "reserved"]]

\* Mutant: the insertion relies on the allowance that was read before.
Admitted_AsChecked(a) == TRUE

\* The triggers of public_write_attempt_reservations.
Admitted(a) == Fits(a, reading[a])

(* The insertion, all members or none.  The triggers count again, and the    *)
(* unique index admits one reserved row per key.                             *)
Reserve(a) ==
    LET kept == IF a \in Batches THEN Recovered(a, reading[a]) ELSE rows
        taken == \E i \in DOMAIN kept, m \in DOMAIN MembersOf[a] :
                    kept[i].key = MembersOf[a][m] /\ kept[i].status = "reserved"
    IN
    /\ stage[a] = "reserve"
    /\ \/ Admitted(a) /\ ~taken /\ rows' = kept \o NewRows(a) /\ MoveTo(a, "screening")
       \/ ~(Admitted(a) /\ ~taken) /\ UNCHANGED rows /\ MoveTo(a, "refused")
    /\ UNCHANGED <<time, control, published, reading>>

(* The provider passes the attempt, or one member is held, rejected or fails *)
(* and is settled so.                                                        *)
Screen(a) ==
    /\ stage[a] = "screening"
    /\ \/ MoveTo(a, "publish") /\ UNCHANGED rows
       \/ \E i \in Own(a), verdict \in {"held", "rejected", "failed"} :
             rows' = Settled({i}, verdict) /\ MoveTo(a, "failing")
    /\ UNCHANGED <<time, control, published, reading>>

\* The rest is settled as failed, one row at a time.
SettleFailed(a) ==
    /\ stage[a] = "failing"
    /\ \/ \E i \in Own(a) : rows' = Settled({i}, "failed") /\ UNCHANGED stage
       \/ /\ \A i \in Own(a) : rows[i].status # "reserved"
          /\ MoveTo(a, "done")
          /\ UNCHANGED rows
    /\ UNCHANGED <<time, control, published, reading>>

Keys(a) == {MembersOf[a][m] : m \in DOMAIN MembersOf[a]}

\* An event with one of the keys is in the ledger already.
Taken(a) == \E b \in published : Keys(a) \cap Keys(b) # {}

(* The ledger transaction settles the rows with their events.  Its answer    *)
(* may be lost; then, as after an abort, the route returns the response it   *)
(* finds or settles its rows as failed.                                      *)
Publish(a) ==
    /\ stage[a] = "publish"
    /\ \/ /\ ~Taken(a)
          /\ published' = published \cup {a}
          /\ rows' = Settled(Own(a), "published")
       \/ UNCHANGED <<published, rows>>
    /\ MoveTo(a, "failing") \/ ((a \in published' \/ Taken(a)) /\ MoveTo(a, "done"))
    /\ UNCHANGED <<time, control, reading>>

-----------------------------------------------------------------------------
(* A steward or operator sets or clears the limit of a problem; revisions     *)
(* follow one another.                                                        *)
Orders == {[limit |-> x, until |-> t] : x \in SlowCaps, t \in (time + 1)..MaxClock}
          \cup {[limit |-> Cap, until |-> 0]}

ChangeControl(p) ==
    /\ control[p].revision < MaxControls
    /\ \E c \in Orders :
          control' = [control EXCEPT ![p] = [limit |-> c.limit, until |-> c.until,
                                             since |-> Len(rows), revision |-> @.revision + 1]]
    /\ UNCHANGED <<time, rows, published, stage, reading>>

Elapse ==
    /\ time < MaxClock
    /\ time' = time + 1
    /\ UNCHANGED <<rows, control, published, stage, reading>>

QuotaNext ==
    \/ Elapse
    \/ \E p \in Problems : ChangeControl(p)
    \/ \E a \in Attempts :
          \/ Begin(a) \/ Check(a) \/ Reserve(a) \/ Screen(a) \/ SettleFailed(a) \/ Publish(a)

QuotaSpec == QuotaInit /\ [][QuotaNext]_quotaVars

-----------------------------------------------------------------------------
Rows == [by : Attempts, key : UNION {Keys(a) : a \in Attempts}, at : Nat,
         status : {"reserved", "recovered", "held", "rejected", "failed", "published"}]
Controls == [limit : Nat, until : Nat, since : Nat, revision : Nat]

\* Every variable holds a value of its kind.
QuotaTypeOK ==
    /\ time \in Nat
    /\ rows \in Seq(Rows)
    /\ control \in [Problems -> Controls]
    /\ published \subseteq Attempts
    /\ stage \in [Attempts -> {"start", "check", "reserve", "refused", "screening", "failing",
                               "publish", "done"}]
    /\ reading \in [Attempts -> Nat]

\* The reservations among `mine' that are dated in the window that ends at x.
WindowTo(mine, x) == {i \in mine : x - Window < rows[i].at /\ rows[i].at <= x}

\* Those admitted under the control of the problem now in force.
UnderControl(p) == {i \in DOMAIN rows : i > control[p].since /\ rows[i].at < control[p].until}

(* "Bounded screening capacity": no window of an hour, wherever it begins,   *)
(* holds more reservations of a Fellow and problem, or of a sponsor, than    *)
(* allowed, and a control bounds the windows of what it has admitted.  The   *)
(* reservations need not be inserted in the order of their dates.            *)
WindowsHold ==
    \A a \in Attempts : \A x \in 0..(MaxClock + Drift) :
        /\ Cardinality(WindowTo(OfFellow(a), x)) <= Cap
        /\ Cardinality(WindowTo(OfPayer(a), x)) <= PayerCap
        /\ Cardinality(WindowTo(OfFellow(a) \cap UnderControl(ProblemOf[a]), x))
              <= control[ProblemOf[a]].limit

(* The advice of a refusal is right: if nothing else happens, the attempt is *)
(* admitted at the time it was told, and not a moment before, unless its     *)
(* group is larger than the capacity and never fits.                         *)
AdviceHolds ==
    \A a \in Attempts : \A at \in 0..(MaxClock + Drift) :
        LET then == RetryAt(a, at) IN
        Len(MembersOf[a]) <= Cap /\ Len(MembersOf[a]) <= PayerCap =>
            Fits(a, then) /\ (then > at + 1 => ~Fits(a, then - 1))

(* What a reservation was settled as is what became of its attempt, even     *)
(* when the answer of the ledger was lost or a retry has recovered the row:  *)
(* a published one has its event and is the only one of its key, and one     *)
(* that was held, rejected or failed has none.                               *)
SettlementsAreTrue ==
    \A i \in DOMAIN rows :
        /\ rows[i].status = "published" =>
              /\ rows[i].by \in published
              /\ \A j \in DOMAIN rows : rows[j].key = rows[i].key /\ rows[j].status = "published" => j = i
        /\ rows[i].status \in {"held", "rejected", "failed"} => rows[i].by \notin published
=============================================================================
