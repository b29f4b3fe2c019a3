------------------------------ MODULE Entities ------------------------------
(* The identifiers every component refers to. *)
CONSTANTS
  Node,  \* node ids
  Job    \* job ids
=============================================================================
