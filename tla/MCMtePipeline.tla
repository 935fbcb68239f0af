--------------------------- MODULE MCMtePipeline ---------------------------
(* Four bars: the whole progression, its repeated last chord and the       *)
(* drummer's fill.  The arrangements are the default one, one in which a   *)
(* guitar takes the part of the piano, and one without a fitting role.     *)
EXTENDS MtePipeline

MCArrangements ==
  {<<"comping", "bass", "drum">>, <<"bass", "rhythm", "lead">>, <<"pad">>}
MCHumanDraw == {[jitter |-> -3, delta |-> 5], [jitter |-> 3, delta |-> -5]}

(* The edges of every length of a variable-length quantity.                *)
ASSUME VlqRoundTrip ==
  \A v \in {0, 1, 127, 128, 16383, 16384, 2097151, 2097152, 268435455} :
    decode_vlq(encode_vlq(v)) = v

=============================================================================
