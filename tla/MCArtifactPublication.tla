------------------------ MODULE MCArtifactPublication ------------------------
(***************************************************************************)
(* Instances of ArtifactPublication for TLC: two overlapping deliveries    *)
(* and two requests of the owner.                                          *)
(***************************************************************************)
EXTENDS ArtifactPublication

CONSTANTS v1, v2, r1, r2
=============================================================================
