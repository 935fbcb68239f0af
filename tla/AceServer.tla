----------------------------- MODULE AceServer -----------------------------
(***************************************************************************)
(* The life of the ACE process (engine/go/main.go and internal/server/     *)
(* grpc.go): it removes a stale unix socket, listens, serves RPCs, and on  *)
(* SIGINT/SIGTERM drains them and exits.  Several processes may share the  *)
(* address; any of them may crash at any moment.                           *)
(*                                                                         *)
(* Serve runs two goroutines of an errgroup: acc is srv.Serve(lis), stp is *)
(* the one that waits for the context and calls GracefulStop.  What        *)
(* grpc-go and net do (closing a unix listener unlinks its path, whoever   *)
(* is bound there now) is modelled from how Serve uses them.               *)
(***************************************************************************)
EXTENDS Naturals, FiniteSets

CONSTANTS
  Proc,       \* the ACE processes that may be started on the address
  Client,     \* callers, one RPC in flight each
  MaxStarts   \* bound: starts altogether

(* The value of sock while no file is at the socket path.                  *)
NoSock == "none"

ASSUME AceAssumption == MaxStarts \in Nat /\ NoSock \notin Proc

VARIABLES
  main,       \* where main/Serve of each process is
  acc, stp,   \* the two goroutines of Serve
  cancelled,  \* the signal context of the process is done
  serve_err,  \* srv.Serve returned an error
  sock,       \* whose listener the socket path leads to, or NoSock
  inflight,   \* the RPCs each process is handling
  cut,        \* history: clients whose RPC a clean exit cut short
  blocked,    \* history: processes that the system refused to remove the old
              \* socket, or to listen at a path where none was
  overlapped, \* history: a process was started while another one ran
  starts      \* history: number of starts

vars == <<main, acc, stp, cancelled, serve_err, sock, inflight, cut, blocked, overlapped, starts>>

Over == {"down", "exited", "failed", "crashed"}
Running(p) == main[p] \notin Over
Accepting(p) == main[p] = "serving" /\ acc[p] = "accepting"

Init ==
  /\ main = [p \in Proc |-> "down"]
  /\ acc = [p \in Proc |-> "none"] /\ stp = [p \in Proc |-> "none"]
  /\ cancelled = [p \in Proc |-> FALSE] /\ serve_err = [p \in Proc |-> FALSE]
  /\ sock = NoSock
  /\ inflight = [p \in Proc |-> {}]
  /\ cut = {} /\ blocked = {} /\ overlapped = FALSE /\ starts = 0

-----------------------------------------------------------------------------
(* main: boot, remove the stale socket, listen.                            *)
Start(p) ==
  /\ ~Running(p) /\ starts < MaxStarts
  /\ main' = [main EXCEPT ![p] = "remove"]
  /\ cancelled' = [cancelled EXCEPT ![p] = FALSE]
  /\ serve_err' = [serve_err EXCEPT ![p] = FALSE]
  /\ blocked' = blocked \ {p}
  /\ overlapped' = (overlapped \/ \E q \in Proc : Running(q))
  /\ starts' = starts + 1
  /\ UNCHANGED <<acc, stp, sock, inflight, cut>>

(* Mutant: the stale socket stays.                                         *)
RemoveStaleForgotten(p) ==
  /\ main[p] = "remove"
  /\ main' = [main EXCEPT ![p] = "listen"]
  /\ UNCHANGED <<acc, stp, cancelled, serve_err, sock, inflight, cut, blocked, overlapped, starts>>

RemoveStale(p) ==
  /\ main[p] = "remove"
  /\ sock' = NoSock
  /\ main' = [main EXCEPT ![p] = "listen"]
  /\ UNCHANGED <<acc, stp, cancelled, serve_err, inflight, cut, blocked, overlapped, starts>>

(* Removing or listening can be refused with or without a socket there     *)
(* (permissions, a missing directory, descriptors); listening always fails *)
(* on a path that is in use.                                               *)
RemoveFails(p) ==
  /\ main[p] = "remove"
  /\ main' = [main EXCEPT ![p] = "failed"]
  /\ blocked' = blocked \cup {p}
  /\ UNCHANGED <<acc, stp, cancelled, serve_err, sock, inflight, cut, overlapped, starts>>

(* Mutant: the stale socket is removed after listening.                    *)
ListenThenRemove(p) ==
  /\ main[p] = "listen" /\ sock = NoSock
  /\ main' = [main EXCEPT ![p] = "serving"]
  /\ acc' = [acc EXCEPT ![p] = "start"] /\ stp' = [stp EXCEPT ![p] = "wait"]
  /\ UNCHANGED <<cancelled, serve_err, sock, inflight, cut, blocked, overlapped, starts>>

Listen(p) ==
  /\ main[p] = "listen" /\ sock = NoSock
  /\ sock' = p
  /\ main' = [main EXCEPT ![p] = "serving"]
  /\ acc' = [acc EXCEPT ![p] = "start"] /\ stp' = [stp EXCEPT ![p] = "wait"]
  /\ UNCHANGED <<cancelled, serve_err, inflight, cut, blocked, overlapped, starts>>

ListenFails(p) ==
  /\ main[p] = "listen"
  /\ main' = [main EXCEPT ![p] = "failed"]
  /\ blocked' = IF sock = NoSock THEN blocked \cup {p} ELSE blocked
  /\ UNCHANGED <<acc, stp, cancelled, serve_err, sock, inflight, cut, overlapped, starts>>

-----------------------------------------------------------------------------
(* The goroutine that serves.  Serve on a stopped server closes the        *)
(* listener and returns ErrServerStopped, which counts as clean.           *)
Stopped(p) == stp[p] \in {"draining", "returned"}

ServeBegins(p) ==
  /\ main[p] = "serving" /\ acc[p] = "start" /\ ~Stopped(p)
  /\ acc' = [acc EXCEPT ![p] = "accepting"]
  /\ UNCHANGED <<main, stp, cancelled, serve_err, sock, inflight, cut, blocked, overlapped, starts>>

(* Mutant: a server that was stopped first leaves its listener open.       *)
ServeTooLateLeaks(p) ==
  /\ main[p] = "serving" /\ acc[p] = "start" /\ Stopped(p)
  /\ acc' = [acc EXCEPT ![p] = "returned"]
  /\ UNCHANGED <<main, stp, cancelled, serve_err, sock, inflight, cut, blocked, overlapped, starts>>

ServeTooLate(p) ==
  /\ main[p] = "serving" /\ acc[p] = "start" /\ Stopped(p)
  /\ acc' = [acc EXCEPT ![p] = "returned"]
  /\ sock' = NoSock
  /\ UNCHANGED <<main, stp, cancelled, serve_err, inflight, cut, blocked, overlapped, starts>>

AcceptFails(p) ==
  /\ Accepting(p)
  /\ acc' = [acc EXCEPT ![p] = "returned"]
  /\ serve_err' = [serve_err EXCEPT ![p] = TRUE]
  /\ sock' = NoSock
  /\ UNCHANGED <<main, stp, cancelled, inflight, cut, blocked, overlapped, starts>>

-----------------------------------------------------------------------------
(* The signal and the goroutine that stops: egctx is done when the signal  *)
(* context is or when srv.Serve failed.  GracefulStop closes the listener, *)
(* which makes srv.Serve return nil, and waits for the RPCs.               *)
Signal(p) ==
  /\ Running(p) /\ ~cancelled[p]
  /\ cancelled' = [cancelled EXCEPT ![p] = TRUE]
  /\ UNCHANGED <<main, acc, stp, serve_err, sock, inflight, cut, blocked, overlapped, starts>>

(* Mutant: only a failing srv.Serve wakes the stopping goroutine.          *)
StopOnErrorOnly(p) ==
  /\ main[p] = "serving" /\ stp[p] = "wait"
  /\ serve_err[p]
  /\ stp' = [stp EXCEPT ![p] = "draining"]
  /\ IF acc[p] = "accepting"
     THEN sock' = NoSock /\ acc' = [acc EXCEPT ![p] = "returned"]
     ELSE UNCHANGED <<sock, acc>>
  /\ UNCHANGED <<main, cancelled, serve_err, inflight, cut, blocked, overlapped, starts>>

GracefulStop(p) ==
  /\ main[p] = "serving" /\ stp[p] = "wait"
  /\ cancelled[p] \/ serve_err[p]
  /\ stp' = [stp EXCEPT ![p] = "draining"]
  /\ IF acc[p] = "accepting"
     THEN sock' = NoSock /\ acc' = [acc EXCEPT ![p] = "returned"]
     ELSE UNCHANGED <<sock, acc>>
  /\ UNCHANGED <<main, cancelled, serve_err, inflight, cut, blocked, overlapped, starts>>

Drained(p) ==
  /\ main[p] = "serving" /\ stp[p] = "draining" /\ inflight[p] = {}
  /\ stp' = [stp EXCEPT ![p] = "returned"]
  /\ UNCHANGED <<main, acc, cancelled, serve_err, sock, inflight, cut, blocked, overlapped, starts>>

(* Mutant: main ends as soon as srv.Serve has returned, without eg.Wait.   *)
ExitWithoutWait(p) ==
  /\ main[p] = "serving" /\ acc[p] = "returned"
  /\ main' = [main EXCEPT ![p] = IF serve_err[p] THEN "failed" ELSE "exited"]
  /\ cut' = cut \cup inflight[p]
  /\ inflight' = [inflight EXCEPT ![p] = {}]
  /\ UNCHANGED <<acc, stp, cancelled, serve_err, sock, blocked, overlapped, starts>>

(* eg.Wait, and the end of main: exit code 1 when srv.Serve failed.        *)
Exit(p) ==
  /\ main[p] = "serving" /\ acc[p] = "returned" /\ stp[p] = "returned"
  /\ main' = [main EXCEPT ![p] = IF serve_err[p] THEN "failed" ELSE "exited"]
  /\ cut' = cut \cup inflight[p]
  /\ inflight' = [inflight EXCEPT ![p] = {}]
  /\ UNCHANGED <<acc, stp, cancelled, serve_err, sock, blocked, overlapped, starts>>

(* The process dies without running anything: its socket file stays.       *)
Crash(p) ==
  /\ Running(p)
  /\ main' = [main EXCEPT ![p] = "crashed"]
  /\ inflight' = [inflight EXCEPT ![p] = {}]
  /\ UNCHANGED <<acc, stp, cancelled, serve_err, sock, cut, blocked, overlapped, starts>>

-----------------------------------------------------------------------------
(* A client finds the process through the socket path.                     *)
Begin(c) ==
  /\ sock # NoSock
  /\ Accepting(sock) /\ \A p \in Proc : c \notin inflight[p]
  /\ inflight' = [inflight EXCEPT ![sock] = @ \cup {c}]
  /\ UNCHANGED <<main, acc, stp, cancelled, serve_err, sock, cut, blocked, overlapped, starts>>

Finish(c) ==
  /\ \E p \in Proc :
       /\ c \in inflight[p]
       /\ inflight' = [inflight EXCEPT ![p] = @ \ {c}]
  /\ UNCHANGED <<main, acc, stp, cancelled, serve_err, sock, cut, blocked, overlapped, starts>>

-----------------------------------------------------------------------------
Boot(p) == RemoveStale(p) \/ RemoveFails(p) \/ Listen(p) \/ ListenFails(p)
Work(p) ==
  \/ ServeBegins(p) \/ ServeTooLate(p) \/ GracefulStop(p) \/ Drained(p) \/ Exit(p)

Next ==
  \/ \E p \in Proc :
       Start(p) \/ Boot(p) \/ Work(p) \/ Signal(p) \/ AcceptFails(p) \/ Crash(p)
  \/ \E c \in Client : Begin(c) \/ Finish(c)

Spec == Init /\ [][Next]_vars

(* Every goroutine that can run runs, and every handler returns (mte_cli   *)
(* terminates or is killed).  Signals, crashes and calls are never forced. *)
FairSpec ==
  /\ Spec
  /\ \A p \in Proc :
       /\ WF_vars(Boot(p))
       /\ WF_vars(ServeBegins(p) \/ ServeTooLate(p))
       /\ WF_vars(GracefulStop(p)) /\ WF_vars(Drained(p)) /\ WF_vars(Exit(p))
  /\ \A c \in Client : WF_vars(Finish(c))

-----------------------------------------------------------------------------
(* The variables keep their shapes; only a serving process handles RPCs.   *)
TypeOK ==
  /\ main \in [Proc -> Over \cup {"remove", "listen", "serving"}]
  /\ acc \in [Proc -> {"none", "start", "accepting", "returned"}]
  /\ stp \in [Proc -> {"none", "wait", "draining", "returned"}]
  /\ cancelled \in [Proc -> BOOLEAN] /\ serve_err \in [Proc -> BOOLEAN]
  /\ sock \in Proc \cup {NoSock}
  /\ overlapped \in BOOLEAN
  /\ inflight \in [Proc -> SUBSET Client]
  /\ \A p \in Proc : inflight[p] # {} => main[p] = "serving"

(* A process that serves can be reached.  A second process on the same     *)
(* address takes the socket away from the first, so this needs a proviso.  *)
ServingIsReachable == \A p \in Proc : Accepting(p) => sock = p

(* As long as processes only follow one another, the one that serves can   *)
(* be reached: neither a stale socket nor the end of its predecessor gets  *)
(* in its way.                                                             *)
LoneServerIsReachable == ~overlapped => ServingIsReachable

(* Restarting always works: a process fails because the system refuses to  *)
(* remove the old socket or to listen at a free path, because accepting    *)
(* fails, or because another process is being started beside it; never     *)
(* because of a socket that was left behind.  And a clean shutdown leaves  *)
(* nothing to recover from: when all processes have left by themselves, no *)
(* socket file is behind them, whether the signals came before, while or   *)
(* after srv.Serve started to accept.                                      *)
RestartRecovers ==
  /\ \A p \in Proc : main[p] = "failed" =>
       overlapped \/ p \in blocked \/ serve_err[p]
  /\ (\A p \in Proc : main[p] \in {"down", "exited"}) => sock = NoSock

(* Graceful shutdown drains: no RPC that was accepted is cut short by an   *)
(* exit, whichever goroutine of Serve returns first.                       *)
NoRpcCut == cut = {}

(* A signalled process ends, whatever the RPCs and the other goroutine are *)
(* doing, also when the signal comes before it listens.                    *)
SignalEndsProcess == \A p \in Proc : cancelled[p] ~> main[p] \in Over

=============================================================================
