--------------------------- MODULE MCFinalization ---------------------------
(* Two overlapping server processes and one failure fewer than attempts.    *)
EXTENDS Finalization

=============================================================================
