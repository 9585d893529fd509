--------------------------- MODULE MCKraterLedger ---------------------------
(***************************************************************************)
(* Instances of KraterLedger for TLC.  The safety run explores several      *)
(* workloads in one graph: a behaviour picks one at the start, and only the *)
(* requests of that workload arrive in it.                                  *)
(***************************************************************************)
EXTENDS KraterLedgerProperties, TLC

CONSTANTS s1, s2, c1, v1, v2, t1, t2, k1, k2, k3, k4, k5, ann, bob

VARIABLE workload    \* the requests of this behaviour

Create(s) == [op |-> "create", statement |-> s, object |-> 0, base |-> 0]
Revise(c, base, s) == [op |-> "revise", statement |-> s, object |-> c, base |-> base]
Kill(route) == [op |-> "transition", statement |-> "", object |-> route, base |-> 0]

(* One caller key used three times: twice for one body (a client retry that  *)
(* overlaps the first attempt), once for another (a key reused by mistake).  *)
SameKey == {s1, s2, c1}
(* A claim and two revisions of it, by its author under keys of their own. *)
Revisions == {c1, v1, v2}
(* Two Fellows kill one route while a third request publishes a claim. *)
Transitions == {c1, t1, t2}

Workloads == {SameKey, Revisions, Transitions}

WorkKeyOf == s1 :> k1 @@ s2 :> k1 @@ c1 :> k1 @@ v1 :> k2 @@ v2 :> k3 @@ t1 :> k4 @@ t2 :> k5
WorkBodyOf == s1 :> Create("s") @@ s2 :> Create("s") @@ c1 :> Create("t")
              @@ v1 :> Revise(1, 1, "u") @@ v2 :> Revise(1, 1, "w")
              @@ t1 :> Kill(1) @@ t2 :> Kill(1)
WorkFellowOf == [k \in CallerKeys |-> IF k = k5 THEN bob ELSE ann]
WorkBodies == {Create("s"), Create("t"), Revise(1, 1, "u"), Revise(1, 1, "w"), Kill(1)}

(* The two requests that repeat one body under one key are interchangeable. *)
Twins == Permutations({s1, s2})

(* The other workloads' requests never arrive.  Leases only matter to a       *)
(* revision, so nobody takes one elsewhere, and of the two Fellows only ann   *)
(* may lose her credential or her session.                                    *)
InWorkload ==
    /\ \A r \in Requests \ workload : pc[r] = "arrive"
    /\ workload # Revisions => held = {}
    /\ bob \in live \cap open

WorkloadInit == Init /\ workload \in Workloads
WorkloadNext == Next /\ UNCHANGED workload /\ InWorkload'
WorkloadSpec == WorkloadInit /\ [][WorkloadNext]_<<vars, workload>>
=============================================================================
