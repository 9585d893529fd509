--------------------------- MODULE MCFellowCustody ---------------------------
(***************************************************************************)
(* Instances of FellowCustody for TLC.  The Fellow Fay is enrolled by Acme *)
(* and may be transferred to Bolt and back.                                *)
(***************************************************************************)
EXTENDS FellowCustody, TLC

CONSTANTS
    fay, acme, bolt,
    offer, reoffer, take, retake, again, refuse, recall, view,
    mint, remint, approve, reapprove, deny, poll, repoll,
    flag, file, resume, revoke, panic

CustodyHome == fay :> acme
CustodyOp ==
    [c \in Calls |-> CASE c \in {offer, reoffer} -> "offer" [] c \in {take, retake, again} -> "accept"
                       [] c = refuse -> "reject" [] c = recall -> "cancel" [] c = view -> "view"
                       [] c \in {mint, remint} -> "mint" [] c \in {approve, reapprove} -> "approve"
                       [] c = deny -> "deny" [] c \in {poll, repoll} -> "poll"
                       [] c \in {flag, file, resume} -> "status"
                       [] c = revoke -> "revoke" [] c = panic -> "panic"]
CustodyBy ==
    [c \in Calls |-> IF c \in {offer, recall, retake, remint, reapprove, repoll, flag, file, revoke}
                     THEN acme ELSE bolt]
CustodyAbout ==
    [c \in Calls |-> CASE c \in {take, again, refuse, recall, view} -> offer [] c = retake -> reoffer
                       [] c \in {approve, deny, poll} -> mint [] c \in {reapprove, repoll} -> remint
                       [] c = panic -> bolt [] OTHER -> fay]
CustodyTo ==
    [c \in Calls |-> CASE c = offer -> bolt [] c = reoffer -> acme [] c = flag -> "compromised"
                       [] c = file -> "archived" [] c = resume -> "active" [] OTHER -> Nobody]

OnlyCalls(cs) == \A c \in Calls : step[c] # "start" => c \in cs
NoneSuspended == \A s \in Sponsors : ~account[s].suspended
NoneDeleted == \A s \in Sponsors : ~account[s].deleted

(* "parting":    Bolt accepts Fay and gives it a credential, while Fay is on *)
(*               its way back.                                               *)
(* "returning":  Fay is back and gets a new credential from Acme.            *)
(* "hurrying":   Bolt accepts twice, while others look at the offer.         *)
(* "refusing":   the offer is accepted, rejected or recalled, or an account  *)
(*               ends.                                                       *)
(* "suspending": an account is suspended while Bolt rebinds Fay.             *)
(* "resuming":   it is suspended or deleted while Bolt resumes Fay.          *)
(* "ending":     Acme ends Fay, by command, while it is being transferred.   *)
(* "revoking":   Acme revokes the credential of Fay meanwhile.               *)
(* "panicking":  Bolt panics while it rebinds Fay.                           *)
CustodyWorkloads == {"parting", "returning", "hurrying", "refusing", "suspending", "resuming",
                     "ending", "revoking", "panicking"}
InCustody(w) ==
    CASE w = "parting" ->
            OnlyCalls({offer, take, mint, approve, poll, reoffer, retake}) /\ NoneSuspended /\ NoneDeleted
      [] w = "returning" ->
            OnlyCalls({offer, take, reoffer, retake, remint, reapprove, repoll}) /\ NoneSuspended /\ NoneDeleted
      [] w = "hurrying" -> OnlyCalls({offer, take, again, view}) /\ NoneSuspended /\ NoneDeleted
      [] w = "refusing" -> OnlyCalls({offer, take, recall, refuse}) /\ NoneDeleted /\ moment <= 3
      [] w = "suspending" -> OnlyCalls({offer, take, mint, approve, deny, poll}) /\ NoneDeleted
      [] w = "resuming" -> OnlyCalls({offer, take, resume}) /\ moment <= 3
      [] w = "ending" ->
            OnlyCalls({offer, take, flag, file}) /\ NoneSuspended /\ NoneDeleted /\ moment <= 3
      [] w = "revoking" -> OnlyCalls({offer, take, revoke}) /\ NoneSuspended /\ NoneDeleted
      [] w = "panicking" -> OnlyCalls({offer, take, mint, approve, poll, panic}) /\ NoneSuspended /\ NoneDeleted
=============================================================================
