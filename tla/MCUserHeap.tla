----------------------------- MODULE MCUserHeap -----------------------------
(* One argument block of two bytes.                                          *)
EXTENDS UserHeap

MCArgSizes == <<2>>
=============================================================================
