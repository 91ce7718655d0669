------------------------------ MODULE MCBridge ------------------------------
(***************************************************************************)
(* Instances of BridgeClient for TLC.                                      *)
(***************************************************************************)
EXTENDS BridgeClient

CONSTANTS r1, r2
=============================================================================
