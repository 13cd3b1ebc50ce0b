------------------------------ MODULE Handover ------------------------------
(***************************************************************************)
(* What the activation component promises: the internal setup of a         *)
(* customer waits for two parties who act on their own, the one who signs  *)
(* and the one who fills in the data, and it is announced when both have.  *)
(***************************************************************************)
VARIABLES
    data,       \* "open", or "complete" for good
    signed,
    phase,      \* of the internal setup
    announced   \* the message that the setup may begin, sent once

vars == <<data, signed, phase, announced>>

Init == data = "open" /\ signed = FALSE /\ phase = "waiting" /\ announced = FALSE

Complete == data = "open" /\ data' = "complete" /\ UNCHANGED <<signed, phase, announced>>

Sign == ~signed /\ signed' = TRUE /\ UNCHANGED <<data, phase, announced>>

Both == data = "complete" /\ signed

Announce == Both /\ announced' = TRUE /\ UNCHANGED <<data, signed, phase>>

Proceed ==
    /\ Both
    /\ \/ phase = "waiting" /\ phase' \in {"setup", "active"}
       \/ phase = "setup" /\ phase' = "active"
    /\ UNCHANGED <<data, signed, announced>>

Next == Complete \/ Sign \/ Announce \/ Proceed

Spec == Init /\ [][Next]_vars

=============================================================================
