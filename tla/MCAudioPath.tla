---------------------------- MODULE MCAudioPath ----------------------------
(* A ring of two slots, so that a span can be longer than the ring, and    *)
(* indices that wrap at four, after two rounds of it.  Positions go back   *)
(* and forth between events and lie before, at and behind the end of a     *)
(* block.                                                                  *)
EXTENDS AudioPath

MCEvent == 1..6
MCSamplePosition == <<0, 5, 1, 0, 1, 6>>

=============================================================================
