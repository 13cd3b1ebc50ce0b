---------------------------- MODULE MCSignature ----------------------------
(* Two requests that may overlap: a small instance of Signature.           *)
EXTENDS Signature

=============================================================================
