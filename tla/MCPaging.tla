------------------------------ MODULE MCPaging ------------------------------
(***************************************************************************)
(* The instance of module Paging that TLC checks: limits below and above   *)
(* what the server allows, none, pages that come out even and that do not. *)
(***************************************************************************)
EXTENDS Paging

MCId == 1..5
=============================================================================
