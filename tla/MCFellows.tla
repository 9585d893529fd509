------------------------------ MODULE MCFellows ------------------------------
(***************************************************************************)
(* What a Fellow holds, in one graph for TLC: its sessions and leases, its *)
(* allowance (MCSessionLifecycle) and its credentials (MCFellowCustody).   *)
(***************************************************************************)
EXTENDS MCSessionLifecycle, MCFellowCustody

FellowsInit ==
    /\ CustodyInit
    /\ \/ WorkloadInit
       \/ Init /\ QuotaInit /\ workload \in CustodyWorkloads

FellowsNext ==
    \/ workload \notin CustodyWorkloads /\ WorkloadNext /\ UNCHANGED custodyVars
    \/ /\ workload \in CustodyWorkloads
       /\ CustodyNext
       /\ UNCHANGED <<vars, quotaVars, workload>>
       /\ InCustody(workload)'

FellowsSpec ==
    FellowsInit /\ [][FellowsNext]_<<vars, quotaVars, custodyVars, workload>> /\ Fairness
=============================================================================
