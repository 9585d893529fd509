------------------------------- MODULE FanOut -------------------------------
(***************************************************************************)
(* What the inbox promises of an event that fans out.                      *)
(*                                                                         *)
(* Fellows are announced to in their order.  Whoever has been owed a       *)
(* notice since the event entered is never passed over, nothing announced  *)
(* is taken back, the fan-out does not go backwards, and once it is closed *)
(* it stays closed.  A fellow may stop being owed a notice, but does not   *)
(* begin to be; the author of the event may tell anybody of it directly.   *)
(***************************************************************************)
EXTENDS Naturals

CONSTANTS
    Fellows,   \* numbered from 1
    Events

VARIABLES
    stage,     \* of an event: "absent", "open", "complete" or "dropped"
    reached,   \* of an event: the fellow up to whom it has been announced
    owed,      \* of an event: the fellows who are owed a notice of it
    told       \* of an event: the fellows who have one

vars == <<stage, reached, owed, told>>

Init ==
    /\ stage = [e \in Events |-> "absent"]
    /\ reached = [e \in Events |-> 0]
    /\ owed = [e \in Events |-> {}]
    /\ told = [e \in Events |-> {}]

Enter(e) ==
    /\ stage[e] = "absent"
    /\ stage' = [stage EXCEPT ![e] = "open"]
    /\ \E fellows \in SUBSET Fellows : owed' = [owed EXCEPT ![e] = fellows]
    /\ UNCHANGED <<reached, told>>

Excuse(f) ==
    /\ \E events \in SUBSET Events :
          owed' = [e \in Events |-> IF e \in events THEN owed[e] \ {f} ELSE owed[e]]
    /\ UNCHANGED <<stage, reached, told>>

(* A piece of the fan-out, perhaps the last, of whom it leaves nobody out.   *)
Announce(e, fellows, last, next) ==
    /\ stage[e] = "open"
    /\ last >= reached[e]
    /\ \A f \in owed[e] : f <= last \/ next = "complete" => f \in told[e] \cup fellows
    /\ stage' = [stage EXCEPT ![e] = next]
    /\ reached' = [reached EXCEPT ![e] = last]
    /\ told' = [told EXCEPT ![e] = @ \cup fellows]
    /\ UNCHANGED owed

Drop(e) ==
    /\ stage[e] = "open"
    /\ stage' = [stage EXCEPT ![e] = "dropped"]
    /\ UNCHANGED <<reached, owed, told>>

Tell(e, f) ==
    /\ stage[e] # "absent"
    /\ told' = [told EXCEPT ![e] = @ \cup {f}]
    /\ UNCHANGED <<stage, reached, owed>>

Next ==
    \/ \E e \in Events : Enter(e) \/ Drop(e)
    \/ \E f \in Fellows : Excuse(f)
    \/ \E e \in Events, f \in Fellows : Tell(e, f)
    \/ \E e \in Events, fellows \in SUBSET Fellows, last \in Fellows \cup {0}, next \in {"open", "complete"} :
          Announce(e, fellows, last, next)

Spec == Init /\ [][Next]_vars
=============================================================================
