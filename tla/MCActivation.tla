---------------------------- MODULE MCActivation ----------------------------
(* Two requests at once, an owner and a delegate for one section.  *)
EXTENDS Activation

MCDelegated == {"users"}
MCLegacy == {"goods"}

=============================================================================
