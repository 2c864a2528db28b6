-------------------------- MODULE MCContextLifecycle --------------------------
(***************************************************************************)
(* Instances of ContextLifecycle.                                          *)
(***************************************************************************)
EXTENDS ContextLifecycle
=============================================================================
