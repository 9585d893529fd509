--------------------------- MODULE ReleaseBoundary ---------------------------
(***************************************************************************)
(* What a Fellow who consents to publish an artifact is promised.          *)
(*                                                                         *)
(* Bytes are private until a release is authorized, and the release is     *)
(* irrevocable: nothing is called private again once its bytes may be      *)
(* public, and nothing is called published before they are.                *)
(***************************************************************************)
VARIABLES
    stage,      \* "private", "released" or "delivered"
    exposed     \* are the bytes in the public bucket

vars == <<stage, exposed>>

Init == stage = "private" /\ exposed = FALSE

Authorize == stage = "private" /\ stage' = "released" /\ UNCHANGED exposed

(* The upload may land long after it was sent, and after its job is done.  *)
Expose == stage # "private" /\ exposed' = TRUE /\ UNCHANGED stage

Deliver == stage = "released" /\ exposed /\ stage' = "delivered" /\ UNCHANGED exposed

Next == Authorize \/ Expose \/ Deliver

Spec == Init /\ [][Next]_vars
=============================================================================
