-------------------------- MODULE ApprovalSession --------------------------
(***************************************************************************)
(* What one run of `semsql resolve --mode web` promises: it waits for an   *)
(* approval, saves at most one, and ends once.  It ends well only after a  *)
(* save and times out only without one; an error or a cancellation says    *)
(* nothing about whether the approval was saved.                           *)
(***************************************************************************)
CONSTANT Mappings

VARIABLES approved, outcome

vars == <<approved, outcome>>

Init == approved = {} /\ outcome = "waiting"

Approve(m) ==
  /\ outcome = "waiting" /\ approved = {}
  /\ approved' = {m}
  /\ UNCHANGED outcome

End ==
  /\ outcome = "waiting"
  /\ \/ outcome' = "ok" /\ approved # {}
     \/ outcome' = "timeout" /\ approved = {}
     \/ outcome' \in {"error", "cancelled"}
  /\ UNCHANGED approved

Next == (\E m \in Mappings : Approve(m)) \/ End

Spec == Init /\ [][Next]_vars
=============================================================================
