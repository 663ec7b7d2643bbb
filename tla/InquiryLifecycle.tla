-------------------------- MODULE InquiryLifecycle --------------------------
(***************************************************************************)
(* What InquiryService promises of each inquiry: it is received, quoted    *)
(* and done, in this order, before the next one is taken; between two it   *)
(* may be rejected. An inquiry may be sent again, or arrive quoted.        *)
(***************************************************************************)
CONSTANT Ids

VARIABLE phase        \* identifier -> where its inquiry is

Phases == {"Unknown", "RECEIVED", "QUOTED", "DONE", "REJECTED"}

Open(id) == phase[id] \in {"RECEIVED", "QUOTED"}

NoneOpen == \A id \in Ids : ~Open(id)

Init == phase = [id \in Ids |-> "Unknown"]

Arrive(id) ==
  /\ NoneOpen
  /\ \E first \in {"RECEIVED", "QUOTED"} :
       phase' = [phase EXCEPT ![id] = first]

Quote(id) ==
  /\ phase[id] = "RECEIVED"
  /\ phase' = [phase EXCEPT ![id] = "QUOTED"]

Complete(id) ==
  /\ phase[id] = "QUOTED"
  /\ phase' = [phase EXCEPT ![id] = "DONE"]

Reject(id) ==
  /\ NoneOpen
  /\ phase' = [phase EXCEPT ![id] = "REJECTED"]

Next == \E id \in Ids : Arrive(id) \/ Quote(id) \/ Complete(id) \/ Reject(id)

Fairness == \A id \in Ids : WF_phase(Quote(id)) /\ WF_phase(Complete(id))

Spec == Init /\ [][Next]_phase /\ Fairness
=============================================================================
