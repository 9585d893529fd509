----------------------------- MODULE MCProgress -----------------------------
(***************************************************************************)
(* Instances of KraterLedger, and of SearchFreshness and so KraterOutbox,  *)
(* for TLC, as workloads of one graph: a write is answered, and what it    *)
(* has handed to the search index is drained.                              *)
(***************************************************************************)
EXTENDS KraterLedgerProperties, SearchFreshness

CONSTANTS create, kill, k1, k2, ann, bob, c1, c2

VARIABLE workload

(* The smallest race of two writes: a creation and a kill. *)
RaceKeyOf == [r \in Requests |-> IF r = create THEN k1 ELSE k2]
RaceBodyOf ==
    [r \in Requests |->
        IF r = create THEN [op |-> "create", statement |-> "t", object |-> 0, base |-> 0]
        ELSE [op |-> "transition", statement |-> "", object |-> 1, base |-> 0]]
RaceFellowOf == [k \in CallerKeys |-> IF k = k1 THEN ann ELSE bob]
RaceBodies == {RaceBodyOf[r] : r \in Requests}

(* "writing":   the two writes.                                              *)
(* "searching": a search among the drains of up to three rows, of two        *)
(*              claims, with a mishap, until the search ends.                *)
(* "crowded":   up to four rows of two claims, with a mishap.                *)
(* "draining":  up to four rows of one claim, with two mishaps.              *)
SearchWorkloads == {"searching", "crowded", "draining"}
InSearch(w) ==
    CASE w = "searching" -> Len(rows) <= 3 /\ mishaps <= 1
      [] w = "crowded" -> at = "start" /\ mishaps <= 1
      [] w = "draining" -> at = "start" /\ \A i \in DOMAIN rows : rows[i].claim # c2

(* Before its first step neither component has anything that fairness asks   *)
(* it to do, so that it may rest for the whole of the other's workload.      *)
ProgressInit == Init /\ SearchInit /\ workload \in SearchWorkloads \cup {"writing"}
ProgressNext ==
    \/ workload = "writing" /\ Next /\ UNCHANGED <<searchingVars, workload>>
    \/ /\ workload \in SearchWorkloads
       /\ at \notin {"answered", "changed"}
       /\ SearchNext
       /\ UNCHANGED <<vars, workload>>
       /\ InSearch(workload)'
ProgressSpec ==
    ProgressInit /\ [][ProgressNext]_<<vars, searchingVars, workload>> /\ Fairness /\ OutboxFairness
=============================================================================
