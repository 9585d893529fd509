-------------------------- MODULE MCGapSettlement --------------------------
(***************************************************************************)
(* Instances of GapSettlement for TLC.                                     *)
(***************************************************************************)
EXTENDS GapSettlement, TLC

CONSTANTS g1, g2, g3, d1, d2

(* g1 and g2 settle the one open gap; g3 files a new gap and so moves the    *)
(* head; d1 and d2 dispute one relation.                                     *)
Race(first, second) ==
    [r \in Requests |-> CASE r = g1 -> first [] r = g2 -> second [] r = g3 -> "file"
                          [] OTHER -> "disputed"]
GapOpOf == Race("withdrawn", "closed-by")
GapObjectOf == [r \in Requests |-> IF r = g3 THEN 0 ELSE 1]

(* Each settlement in its own millisecond; both disputes in one. *)
DistinctTimes ==
    [r \in Requests |-> CASE r = g1 -> 1 [] r = g2 -> 2 [] r = g3 -> 3 [] OTHER -> 4]

(* "filing":    both settlements and the filing, with crashes.              *)
(* "settling":  both settlements, with crashes and revocations.              *)
(* "disputing": both disputes, with crashes and revocations.                 *)
SettlementWorkloads == {"filing", "settling", "disputing"}
Busy(w) ==
    CASE w = "filing" -> {g1, g2, g3}
      [] w = "settling" -> {g1, g2}
      [] w = "disputing" -> {d1, d2}

(* The other requests do not move, and keep their authority. *)
InSettlement(w) ==
    /\ \A r \in Requests \ Busy(w) : pc[r] = "check" /\ r \in authorized
    /\ w = "filing" => authorized = Requests
=============================================================================
