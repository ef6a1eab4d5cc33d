---------------------------- MODULE MCTraceeTree ----------------------------
(* Three thread ids, so that a process, its thread and its child meet.     *)
EXTENDS TraceeTree, TLC
=============================================================================
