-------------------------- MODULE MCIndexedContainer ------------------------
(***************************************************************************)
(* IndexedContainer for TLC: up to three slots, each freed twice.          *)
(***************************************************************************)
EXTENDS IndexedContainer

=============================================================================
