---------------------------- MODULE MCComparison ----------------------------
(* A small instance of Comparison for TLC: a tick is half a second. *)
EXTENDS Comparison

MCClocks == 0 .. 5
MCOffset == [naive |-> 0, UTC |-> 0, CET |-> 2]
=============================================================================
