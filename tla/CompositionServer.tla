------------------------- MODULE CompositionServer -------------------------
(***************************************************************************)
(* NewComposition of the gRPC server (engine/go/internal/server/           *)
(* composition.go): each call runs on its own goroutine, hands the work to *)
(* a mte_cli process of its own, and picks the result up from a file of    *)
(* the server's temporary directory whose name depends on the seed alone.  *)
(*                                                                         *)
(* Steps are split where another call or process can come in between: the  *)
(* removal of the old output, and mte_cli's opening and writing of the     *)
(* file.  A file is an inode with a name in the directory, so a name that  *)
(* is removed or replaced does not disturb a process that has it open.     *)
(***************************************************************************)
EXTENDS Naturals, Sequences, FiniteSets

CONSTANTS
  Client,       \* concurrent callers, one call in flight each
  RequestsOf,   \* the requests each of them may send
  Seeds,        \* the values rand.Uint64() may return for seed 0
  Size,         \* length of the SMF that a prompt leads to
  Buffered,     \* the prompts whose SMF fits the buffer of std::ofstream
  BadPrompts,   \* the prompts that lead to a key or scale mte_cli rejects
  DiskMayFill,  \* whether writing may fail
  MaxCalls      \* bound: calls per client

Requests == UNION {RequestsOf[c] : c \in Client}
Prompts == {r.prompt : r \in Requests}
Names == Seeds \cup ({r.seed : r \in Requests} \ {0})
NoFile == 0
Inode == 1..(2 * Cardinality(Client) + Cardinality(Names))

ASSUME ServerAssumption ==
  /\ Requests \subseteq [seed : Nat, prompt : Prompts]
  /\ \A c \in Client : RequestsOf[c] # {}
  /\ Seeds \subseteq Nat \ {0}
  /\ IsFiniteSet(Client) /\ IsFiniteSet(Names)
  /\ Size \in [Prompts -> Nat \ {0}]
  /\ Buffered \subseteq Prompts /\ BadPrompts \subseteq Prompts
  /\ DiskMayFill \in BOOLEAN /\ MaxCalls \in Nat

VARIABLES
  pc,       \* where each call is
  req,      \* its request, with the seed it settled on
  fd,       \* the inode its mte_cli has open
  dir,      \* the temporary directory: output_<seed>.mid
  data,     \* the contents of the inodes
  answers,  \* history: the successful responses
  calls,    \* history: how many calls each client made
  met       \* history: whether a call ran beside another one with its seed

vars == <<pc, req, fd, dir, data, answers, calls, met>>

Smf(r) == [i \in 1..Size[r.prompt] |-> r]

Init ==
  /\ pc = [c \in Client |-> "idle"]
  /\ req = [c \in Client |-> CHOOSE r \in RequestsOf[c] : TRUE]
  /\ fd = [c \in Client |-> NoFile]
  /\ dir = [n \in Names |-> NoFile]
  /\ data = [i \in Inode |-> <<>>]
  /\ answers = {} /\ calls = [c \in Client |-> 0]
  /\ met = [c \in Client |-> FALSE]

-----------------------------------------------------------------------------
(* The handler up to the removal of the previous output.                   *)
Call(c, r) ==
  /\ pc[c] = "idle" /\ calls[c] < MaxCalls
  /\ \E s \in IF r.seed = 0 THEN Seeds ELSE {r.seed} :
       req' = [req EXCEPT ![c] = [r EXCEPT !.seed = s]]
  /\ LET beside == {d \in Client \ {c} : pc[d] # "idle" /\ req[d].seed = req'[c].seed}
     IN met' = [d \in Client |->
                  IF d = c THEN beside # {} ELSE met[d] \/ d \in beside]
  /\ calls' = [calls EXCEPT ![c] = @ + 1]
  /\ pc' = [pc EXCEPT ![c] = "remove"]
  /\ UNCHANGED <<fd, dir, data, answers>>

RemovePrevious(c) ==
  /\ pc[c] = "remove"
  /\ dir' = [dir EXCEPT ![req[c].seed] = NoFile]
  /\ pc' = [pc EXCEPT ![c] = "start"]
  /\ UNCHANGED <<req, fd, data, answers, calls, met>>

(* CombinedOutput returned an error: the response says so.                 *)
AnswerError(c) ==
  /\ pc' = [pc EXCEPT ![c] = "idle"]
  /\ fd' = [fd EXCEPT ![c] = NoFile]
  /\ UNCHANGED <<req, dir, answers, calls, met>>

(* mte_cli is not found or not started, rejects the key or the scale, or   *)
(* cannot open its output.                                                 *)
CliRejects(c) ==
  /\ pc[c] = "start"
  /\ AnswerError(c)
  /\ UNCHANGED data

(* std::ofstream out(args.output): create the file or truncate it.         *)
Unused == Inode \ ({dir[n] : n \in Names} \cup {fd[c] : c \in Client})
FreshInode == CHOOSE i \in Unused : TRUE

CliOpen(c) ==
  /\ pc[c] = "start" /\ req[c].prompt \notin BadPrompts
  /\ LET old == dir[req[c].seed]
         i == IF old = NoFile THEN FreshInode ELSE old
     IN /\ dir' = [dir EXCEPT ![req[c].seed] = i]
        /\ fd' = [fd EXCEPT ![c] = i]
        /\ data' = [data EXCEPT ![i] = <<>>]
  /\ pc' = [pc EXCEPT ![c] = "open"]
  /\ UNCHANGED <<req, answers, calls, met>>

(* out.write: the bytes replace what the inode holds at their offsets.     *)
Overlay(new, old) == new \o SubSeq(old, Len(new) + 1, Len(old))

CliWrite(c) ==
  /\ pc[c] = "open"
  /\ data' = [data EXCEPT ![fd[c]] = Overlay(Smf(req[c]), @)]
  /\ fd' = [fd EXCEPT ![c] = NoFile]
  /\ pc' = [pc EXCEPT ![c] = "exited"]
  /\ UNCHANGED <<req, dir, answers, calls, met>>

(* The disk is full.  A composition that fits the stream's buffer is only  *)
(* written by the destructor of out, after the last look at its state, and *)
(* mte_cli exits with 0.  A longer one is written, as far as it goes, by   *)
(* out.write itself, which reports the failure.                            *)
CliWriteLost(c) ==
  /\ DiskMayFill /\ pc[c] = "open" /\ req[c].prompt \in Buffered
  /\ fd' = [fd EXCEPT ![c] = NoFile]
  /\ pc' = [pc EXCEPT ![c] = "exited"]
  /\ UNCHANGED <<req, dir, data, answers, calls, met>>

CliWriteFails(c) ==
  /\ DiskMayFill /\ pc[c] = "open" /\ req[c].prompt \notin Buffered
  /\ \E n \in 0..(Size[req[c].prompt] - 1) :
       data' = [data EXCEPT ![fd[c]] = Overlay(SubSeq(Smf(req[c]), 1, n), @)]
  /\ AnswerError(c)

(* Mutant: the error of CombinedOutput is ignored.                         *)
CancelIgnored(c) ==
  /\ pc[c] \in {"start", "open"}
  /\ pc' = [pc EXCEPT ![c] = "exited"]
  /\ fd' = [fd EXCEPT ![c] = NoFile]
  /\ UNCHANGED <<req, dir, data, answers, calls, met>>

(* The caller goes away or its deadline passes: CommandContext kills       *)
(* mte_cli wherever it is, and what it wrote stays behind.                 *)
Cancel(c) ==
  /\ pc[c] \in {"start", "open"}
  /\ AnswerError(c)
  /\ UNCHANGED data

(* Mutant: the handler tries again until the output is there.              *)
ReadMissingRetries(c) ==
  /\ pc[c] = "exited" /\ dir[req[c].seed] = NoFile
  /\ UNCHANGED vars

(* os.ReadFile and the response.                                           *)
ReadMissing(c) ==
  /\ pc[c] = "exited" /\ dir[req[c].seed] = NoFile
  /\ AnswerError(c)
  /\ UNCHANGED data

ReadBack(c) ==
  /\ pc[c] = "exited" /\ dir[req[c].seed] # NoFile
  /\ answers' = answers \cup 
       {[req |-> req[c], smf |-> data[dir[req[c].seed]], alone |-> ~met[c]]}
  /\ pc' = [pc EXCEPT ![c] = "idle"]
  /\ UNCHANGED <<req, fd, dir, data, calls, met>>

-----------------------------------------------------------------------------
Progress(c) ==
  \/ RemovePrevious(c) \/ CliRejects(c) \/ CliOpen(c)
  \/ CliWrite(c) \/ CliWriteLost(c) \/ CliWriteFails(c)
  \/ ReadMissing(c) \/ ReadBack(c)

Next == \E c \in Client :
  \/ \E r \in RequestsOf[c] : Call(c, r)
  \/ Progress(c)
  \/ Cancel(c)

Spec == Init /\ [][Next]_vars

(* A goroutine that can go on goes on, and a mte_cli that was started      *)
(* ends.  Nobody has to call, and nobody has to cancel.                    *)
FairSpec == Spec /\ \A c \in Client : WF_vars(Progress(c))

-----------------------------------------------------------------------------
(* The variables keep their shapes.                                        *)
TypeOK ==
  /\ pc \in [Client -> {"idle", "remove", "start", "open", "exited"}]
  /\ req \in [Client -> [seed : Nat, prompt : Prompts]]
  /\ \A c \in Client : pc[c] # "idle" => req[c].seed \in Names
  /\ fd \in [Client -> Inode \cup {NoFile}]
  /\ dir \in [Names -> Inode \cup {NoFile}]
  /\ \A c \in Client : pc[c] = "open" <=> fd[c] # NoFile
  /\ DOMAIN data = Inode
  /\ calls \in [Client -> 0..MaxCalls] /\ met \in [Client -> BOOLEAN]

(* A response with Success carries the whole composition of its own seed   *)
(* and prompt: not the file of an earlier prompt with that seed, not what  *)
(* a killed mte_cli left behind, not bytes of another call.  Only a call   *)
(* beside another one with its seed, and the flush that a full disk        *)
(* swallows, are excepted.                                                 *)
SuccessIsOwnComposition ==
  \A a \in answers : a.alone =>
    \/ a.smf = Smf(a.req)
    \/ DiskMayFill /\ a.req.prompt \in Buffered /\ a.smf = <<>>

(* The same seed and prompt give the same bytes, whoever asks and when     *)
(* (README.md: "Same seed + same prompt = identical MIDI output").         *)
SeedDeterminism == \A a, b \in answers : a.req = b.req => a.smf = b.smf

(* Every call is answered, also when another call removes its output, when *)
(* its mte_cli is killed, and when the disk is full.                       *)
EveryCallAnswered == \A c \in Client : pc[c] # "idle" ~> pc[c] = "idle"

=============================================================================
