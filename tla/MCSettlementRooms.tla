------------------------- MODULE MCSettlementRooms -------------------------
(***************************************************************************)
(* Instances of GapSettlement and of HeraldRooms for TLC, as workloads of  *)
(* one graph: the settlements of an object, and the room that announces    *)
(* commits.                                                                *)
(***************************************************************************)
EXTENDS MCGapSettlement, MCHeraldRooms

VARIABLE workload

(* Each component rests for the whole of the other's workloads; at rest      *)
(* fairness asks nothing of the room.                                        *)
SettlementRoomsInit ==
    /\ SettlementInit
    /\ Init
    /\ workload \in SettlementWorkloads \cup RoomWorkloads
SettlementRoomsNext ==
    /\ UNCHANGED workload
    /\ \/ workload \in SettlementWorkloads /\ SettlementNext /\ InSettlement(workload)' /\ UNCHANGED vars
       \/ workload \in RoomWorkloads /\ Next /\ InRoom(workload)' /\ UNCHANGED settlementVars
SettlementRoomsSpec ==
    SettlementRoomsInit /\ [][SettlementRoomsNext]_<<settlementVars, vars, workload>> /\ Fairness
=============================================================================
