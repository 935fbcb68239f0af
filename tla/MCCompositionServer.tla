------------------------ MODULE MCCompositionServer ------------------------
(* Two clients that change their prompts and come back with their seeds,   *)
(* and may meet in a seed; with SharedSeed they send the same requests.    *)
EXTENDS CompositionServer, TLC

CONSTANTS c1, c2, short, long, bad

MCSize == (short :> 1) @@ (long :> 2) @@ (bad :> 1)
MCSizeShared == (short :> 1) @@ (long :> 2)

Ask(s, p) == [seed |-> s, prompt |-> p]

SomeSeeds ==
  (c1 :> {Ask(1, short), Ask(1, long), Ask(1, bad)}) @@
  (c2 :> {Ask(2, long), Ask(1, short), Ask(0, short)})

SharedSeed == [c \in {c1, c2} |-> {Ask(1, short), Ask(1, long)}]

=============================================================================
