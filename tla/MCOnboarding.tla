---------------------------- MODULE MCOnboarding ----------------------------
(* One value for each section: a stale save is seen by what it undoes.  *)
EXTENDS Onboarding
=============================================================================
