------------------------ MODULE MCSessionLifecycle ------------------------
(***************************************************************************)
(* Instances of SessionLifecycle and of PromotionQuota for TLC, as          *)
(* workloads of one graph.  Ann and Bob work on one problem and want the   *)
(* same object; one sponsor pays for what they publish.                    *)
(***************************************************************************)
EXTENDS SessionLifecycle, PromotionQuota, TLC

CONSTANTS a1, a2, o1, o2, hb, x1, x2, ch, rl, cl, p1, p2, ann, bob, lemma,
          q1, q2, q3, q4, k1, k2, k3, k4, k5, paper, lab

VARIABLE workload

MCOpOf == a1 :> "append" @@ a2 :> "append" @@ o1 :> "open" @@ o2 :> "open" @@
          hb :> "heartbeat" @@ x1 :> "acquire" @@ x2 :> "acquire" @@ ch :> "challenge" @@
          rl :> "release" @@ cl :> "close" @@ p1 :> "acquire" @@ p2 :> "acquire"
MCFellowOf == [r \in Requests |-> IF r \in {o2, x2, ch, p2} THEN bob ELSE ann]
MCObjectOf == [r \in Requests |-> lemma]
MCParallelOf == [r \in Requests |-> r \in {p1, p2}]

Only(rs) == \A r \in Requests : pc[r] # "start" => r \in rs
After(r, later) == pc[later] # "start" => pc[r] = "done"
Opened == now = 0 \/ \A r \in {o1, o2} : pc[r] = "done"

MCMembersOf == q1 :> <<k1>> @@ q2 :> <<k1>> @@ q3 :> <<k2, k3>> @@ q4 :> <<k4, k5>>
MCCallerOf == [a \in Attempts |-> IF a = q4 THEN bob ELSE ann]
MCProblemOf == [a \in Attempts |-> paper]
MCPayerOf == [a \in Attempts |-> lab]

OnlyAttempts(as) == \A a \in Attempts : stage[a] # "start" => a \in as
NoControls == \A p \in Problems : control[p].revision = 0

(* "appending": two direct appends of Ann share a session and may lose a     *)
(*              join, a creation or a release.                               *)
(* "holding":   the session they share also holds a lease, from before the   *)
(*              second append.                                               *)
(* "closing":   Ann closes the session under them.                           *)
(* "joining":   a direct append works in the explicit session Ann keeps up.  *)
(* "leasing":   Bob wants the lease that Ann holds and then renews; both     *)
(*              open their sessions at the start.                            *)
(* "challenging": Bob may challenge the lease that Ann holds and renews.     *)
(* "sharing":   Ann and Bob ask for parallel-safe leases, in sessions opened *)
(*              at the start.                                                *)
(* "leaving":   Ann renews, hands back and closes, and may be revoked.       *)
(* "retrying":  Ann publishes and tries again with the same key.             *)
(* "paying":    batches of Ann and Bob exhaust the limit of their sponsor.   *)
(* "slowed":    two requests of Ann while the problem may be slowed down;    *)
(*              what becomes of their reservations does not matter here.     *)
InWorkload ==
    CASE workload = "appending" -> Only({a1, a2}) /\ revoked = {}
      [] workload = "holding" -> Only({a1, a2, x1}) /\ After(x1, a2) /\ revoked = {} /\ faults = 0
      [] workload = "closing" -> Only({a1, a2, cl}) /\ revoked = {} /\ faults = 0
      [] workload = "joining" -> Only({o1, a1, cl, hb}) /\ revoked = {} /\ faults = 0
      [] workload = "leasing" ->
            Only({o1, o2, x1, x2, hb}) /\ Opened /\ After(x1, hb) /\ revoked = {} /\ faults = 0
      [] workload = "challenging" -> Only({o1, o2, x1, hb, ch}) /\ revoked = {} /\ faults = 0
      [] workload = "sharing" ->
            Only({o1, o2, p1, p2}) /\ Opened /\ revoked = {} /\ faults = 0
      [] workload = "leaving" -> Only({o1, x1, hb, rl, cl}) /\ bob \notin revoked /\ faults = 0
      [] workload = "retrying" -> OnlyAttempts({q1, q2}) /\ NoControls
      [] workload = "paying" -> OnlyAttempts({q3, q4}) /\ NoControls
      [] workload = "slowed" ->
            OnlyAttempts({q1, q3}) /\ \A a \in Attempts : stage[a] \notin {"publish", "failing"}

SessionWorkloads ==
    {"appending", "holding", "closing", "joining", "leasing", "challenging", "sharing", "leaving"}
QuotaWorkloads == {"retrying", "paying", "slowed"}

WorkloadInit == Init /\ QuotaInit /\ workload \in SessionWorkloads \cup QuotaWorkloads
WorkloadNext ==
    /\ \/ workload \in SessionWorkloads /\ Next /\ UNCHANGED quotaVars
       \/ workload \in QuotaWorkloads /\ QuotaNext /\ UNCHANGED vars
    /\ UNCHANGED workload
    /\ InWorkload'
WorkloadSpec == WorkloadInit /\ [][WorkloadNext]_<<vars, quotaVars, workload>> /\ Fairness
=============================================================================
