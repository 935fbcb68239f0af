----------------------------- MODULE EngineCall -----------------------------
(***************************************************************************)
(* A call of one of the theory engines (engine/cpp/src/theory).  The       *)
(* engines are const objects that share nothing, so a behaviour is one     *)
(* call: the request, and the answer as it is built.  Every number drawn   *)
(* from std::mt19937_64, whose seed the request holds, is a choice.        *)
(***************************************************************************)
EXTENDS Theory

VARIABLES
  call,  \* the request, with the engine it is for
  out,   \* the answer so far
  at,    \* the index of the loop the engine is in
  step   \* the step the engine has reached, "done" at the end

vars == <<call, out, at, step>>

(* One of these requests arrives.                                          *)
Start(requests) ==
  /\ call \in requests
  /\ out = <<>> /\ at = 0
  /\ step = call.engine

=============================================================================
