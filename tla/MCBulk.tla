------------------------------- MODULE MCBulk -------------------------------
(***************************************************************************)
(* The instance of module BulkIngest that TLC checks: two batches and two  *)
(* vehicles are the fewest that lock rows in opposite orders.              *)
(***************************************************************************)
EXTENDS BulkIngest
=============================================================================
