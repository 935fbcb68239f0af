---------------------------- MODULE MCWorkflows ----------------------------
(* Two callers and one file of the user, which one of them writes while    *)
(* the other one regenerates it.  With a step of 5 the second seed wraps.  *)
EXTENDS Workflows, TLC

CONSTANTS c1, c2, song

Ask(kind, output, smf, count, delta) ==
  [kind |-> kind, output |-> output, smf |-> smf, count |-> count,
   delta |-> delta, seed |-> 5, valid |-> TRUE]

MCRequests ==
  (c1 :> {Ask("W2", song, NoPath, 0, 0), Ask("W10", NoPath, NoPath, 0, 0),
          Ask("W6", NoPath, NoPath, 3, 5), Ask("W6", NoPath, NoPath, 2, 0),
          Ask("W6", NoPath, NoPath, 0, 1)}) @@
  (c2 :> {Ask("W5", NoPath, song, 0, 0),
          [Ask("W5", NoPath, NoPath, 0, 0) EXCEPT !.valid = FALSE],
          Ask("W3", song, NoPath, 0, 0)})

=============================================================================
