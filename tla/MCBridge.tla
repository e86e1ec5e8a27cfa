------------------------------ MODULE MCBridge ------------------------------
(***************************************************************************)
(* The instance of module BridgeEngine that TLC checks: buffers small      *)
(* enough for each of them to fill while the others hold a record.         *)
(***************************************************************************)
EXTENDS BridgeEngine
=============================================================================
