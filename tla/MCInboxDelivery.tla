-------------------------- MODULE MCInboxDelivery --------------------------
(***************************************************************************)
(* Instances of InboxDelivery for TLC, as workloads of one graph.          *)
(***************************************************************************)
EXTENDS InboxDelivery

CONSTANTS p1, p2

VARIABLE workload

MCFellows == 1..2
MCEvents == 1..5
MCKind == <<"claim", "claim", "hypothesis", "claim", "revision">>
MCAuthor == <<1, 1, 1, 1, 1>>

Of(events) == \A e \in Events \ events : source[e] = "absent"
Unread == \A f \in Fellows : readers[f].cursor = 0
NoFollows == follows = [f \in Fellows |-> None]
OnePass == passes[p2] = NoPass

(* "fanout":  a revision for two fellows, whose subscriptions change, by two *)
(*            passes and by the request itself, with a failure.              *)
(* "queue":   two poisoned sources, which fill a pass, and a hypothesis.     *)
(* "corrupt": a poisoned and a corrupt source, with a failure.               *)
(* "reading": a hypothesis and a revision by one pass, polled and            *)
(*            acknowledged; something changes once, or the hypothesis is     *)
(*            hidden and then restored.                                      *)
Quiet == NoFollows /\ Unread /\ changes = 0
InWorkload ==
    CASE workload = "fanout" -> Of({5}) /\ Unread
      [] workload = "queue" -> Of({1, 2, 3}) /\ Quiet /\ faults = 0
      [] workload = "corrupt" -> Of({1, 4}) /\ Quiet
      [] workload = "reading" -> Of({3, 5}) /\ OnePass /\ faults = 0 /\ (changes <= 1 \/ control[3] = "visible")
WorkloadInit == Init /\ workload \in {"fanout", "queue", "corrupt", "reading"} /\ InWorkload
WorkloadNext == Next /\ UNCHANGED workload /\ InWorkload'
WorkloadSpec == WorkloadInit /\ [][WorkloadNext]_<<vars, workload>> /\ Fairness
=============================================================================
