-------------------------- MODULE MCSamplesBrowser --------------------------
(***************************************************************************)
(* SamplesBrowser for TLC.                                                 *)
(***************************************************************************)
EXTENDS SamplesBrowser

AllObservers == System \cup Sample

=============================================================================
