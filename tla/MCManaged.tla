------------------------------ MODULE MCManaged ------------------------------
(***************************************************************************)
(* Instances of ManagedNative for TLC.                                     *)
(***************************************************************************)
EXTENDS ManagedNative
=============================================================================
