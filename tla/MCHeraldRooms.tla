--------------------------- MODULE MCHeraldRooms ---------------------------
(***************************************************************************)
(* Instances of HeraldRooms for TLC.                                       *)
(***************************************************************************)
EXTENDS HeraldRooms, TLC

CONSTANTS s1, s2, h1, h2, h3

(* "racing":  one socket, two handlers, so that nudges, the upgrade and      *)
(*            acknowledgements overlap.                                      *)
(* "failing": one socket, one handler, with a failure and a revocation.      *)
(* "sharing": two sockets, which every sweep treats together.                *)
RoomWorkloads == {"racing", "failing", "sharing"}
InRoom(w) ==
    CASE w = "racing" -> sockets[s2] = New /\ faults = 0 /\ ~sockets[s1].revoked
      [] w = "failing" -> sockets[s2] = New /\ handlers[h2] = Idle
      [] w = "sharing" -> /\ handlers[h2] = Idle
                          /\ faults = 0
                          /\ \A s \in Sockets : ~sockets[s].revoked /\ ~sockets[s].overdue
=============================================================================
