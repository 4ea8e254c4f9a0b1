--------------------------- MODULE MCStackLifecycle ---------------------------
(* A small instance of StackLifecycle.                                     *)
EXTENDS StackLifecycle

MCTrigger == Start \X {"timer", "msg"}
=============================================================================
