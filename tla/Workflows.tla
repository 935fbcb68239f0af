----------------------------- MODULE Workflows -----------------------------
(***************************************************************************)
(* The workflows of the ACE (engine/go/internal/workflow): InstrumentCom-  *)
(* poser (W2), AudioAssisted (W3), SmartRegeneration (W5),                 *)
(* GenerateVariations (W6) and Arrange (W10), called concurrently on one   *)
(* WorkflowManager.  Each runs mte_cli (W3 also dsp_cli), which leave      *)
(* their results in temporary files with random names, and returns the     *)
(* path of a file.                                                         *)
(*                                                                         *)
(* A file is the sequence of its SMF chunks, a header with the number of   *)
(* tracks and the tracks; a chunk whose data ends too early is Cut, and a  *)
(* file without a whole chunk is an empty one.  mte_cli and dsp_cli are    *)
(* the programs that MTE_CLI_PATH and DSP_CLI_PATH name: they succeed,     *)
(* fail or are killed, and may then leave a part of their file.            *)
(***************************************************************************)
EXTENDS Integers, Sequences, SequencesExt, FiniteSets

CONSTANTS
  Client,       \* concurrent callers
  RequestsOf,   \* the requests each of them may send
  UserFiles,    \* files of the user, for OutputPath and for SMFPath
  NoPath,       \* the empty path
  Cut,          \* a chunk whose data ends too early
  Padded,       \* what readSMF makes of a track like that
  Torn,         \* bytes that are a track of no version of the file
  Json,         \* the analysis dsp_cli writes
  DiskMayFill,  \* whether writing a file may fail half way
  SeedMod,      \* 2^64: seeds are int64
  MaxCalls      \* bound: calls per client

Requests == UNION {RequestsOf[c] : c \in Client}

(* The names of temporary files: what they are for, the call and, for W6,  *)
(* the variation.  No file of the user has one.                            *)
TempPath == {"out", "merged", "analysis"} \X Client \X Nat \X Nat

(* The pieces that a file is about: a file of the user, or one call's.     *)
Songs == UserFiles \cup (Client \X Nat \X Nat)

ASSUME WorkflowsAssumption ==
  /\ \A c \in Client : RequestsOf[c] # {}
  /\ UserFiles \cap TempPath = {} /\ NoPath \notin TempPath
  /\ {Cut, Torn} \cap [song : Songs, tracks : Nat] = {} /\ Cut # Torn
  /\ \A r \in Requests :
       /\ r.kind \in {"W2", "W3", "W5", "W6", "W10"}
       /\ r.output \in UserFiles \cup {NoPath}
       /\ r.smf \in UserFiles \cup {NoPath} /\ r.valid \in BOOLEAN
       /\ r.count \in Int /\ r.delta \in Int /\ r.seed \in Int
  /\ DiskMayFill \in BOOLEAN /\ SeedMod \in Nat \ {0} /\ MaxCalls \in Nat

VARIABLES
  pc,        \* where each caller's workflow is
  req,       \* its request
  calls,     \* the number of its call, part of its temporary names
  index,     \* the variation W6 works on
  results,   \* the Variations of W6 so far
  smfPath,   \* what runMTE returned last
  cleanup,   \* deferred removals
  base,      \* the chunks mergeSMF has read of the user's file
  lengths,   \* the chunks whose lengths took the reader to its position
  files,     \* the files that exist and what is in them
  versions,  \* history: what each user file has ever held, the empty file apart
  quiet,     \* history: nobody has written the user's file since its header was read
  answers    \* history: the responses, with the call's files at that time

reading == <<base, lengths>>
call == <<pc, req, calls, index, results, smfPath, cleanup, reading>>
vars == <<call, files, versions, quiet, answers>>

Header(song, k) == [song |-> song, tracks |-> k]
Track(song, n) == [song |-> song, n |-> n]
Smf(song, k) == <<Header(song, k)>> \o [i \in 1..k |-> Track(song, i)]
Song(c) == <<c, calls[c], index[c]>>
TempName(c, what) == <<what, c, calls[c], index[c]>>
Exists(path) == path \in DOMAIN files
Without(paths) == [p \in DOMAIN files \ paths |-> files[p]]
With(path, tracks) ==
  [p \in DOMAIN files \cup {path} |-> IF p = path THEN tracks ELSE files[p]]
OwnTemp(c) ==
  {p \in DOMAIN files \ UserFiles : p[2] = c /\ p[3] = calls[c]}
Goto(c, l) == pc' = [pc EXCEPT ![c] = l]

Init ==
  /\ pc = [c \in Client |-> "idle"]
  /\ req = [c \in Client |-> CHOOSE r \in RequestsOf[c] : TRUE]
  /\ calls = [c \in Client |-> 0] /\ index = [c \in Client |-> 0]
  /\ results = [c \in Client |-> <<>>]
  /\ smfPath = [c \in Client |-> NoPath]
  /\ cleanup = [c \in Client |-> {}]
  /\ base = [c \in Client |-> <<>>] /\ lengths = [c \in Client |-> <<>>]
  /\ files = [u \in UserFiles |-> Smf(u, 2)]
  /\ versions = [u \in UserFiles |-> {Smf(u, 2)}]
  /\ quiet = [c \in Client |-> TRUE]
  /\ answers = {}

-----------------------------------------------------------------------------
(* Returning runs the deferred removals.                                   *)
Answer(c, ok, paths, now) ==
  /\ UNCHANGED <<req, calls, index, results>>
  /\ files' = [p \in DOMAIN now \ cleanup[c] |-> now[p]]
  /\ answers' = answers \cup
       {[by |-> c, call |-> calls[c], req |-> req[c], ok |-> ok,
         paths |-> paths, results |-> results[c], quiet |-> quiet[c],
         files |-> [p \in DOMAIN files' \cap (OwnTemp(c)' \cup paths) |-> files'[p]]]}
  /\ Goto(c, "idle")
  /\ cleanup' = [cleanup EXCEPT ![c] = {}]
  /\ smfPath' = [smfPath EXCEPT ![c] = NoPath]
  /\ base' = [base EXCEPT ![c] = <<>>] /\ lengths' = [lengths EXCEPT ![c] = <<>>]

(* A file of the user gets new contents: the readers of it are disturbed.  *)
Written(path, smf) ==
  /\ versions' = [versions EXCEPT ![path] = IF smf = <<>> THEN @ ELSE @ \cup {smf}]
  /\ quiet' = [d \in Client |-> quiet[d] /\ req[d].smf # path]

Fail(c, now) == Answer(c, FALSE, {}, now) /\ UNCHANGED <<versions, quiet>>
Succeed(c, path, now) == Answer(c, TRUE, {path}, now)

-----------------------------------------------------------------------------
(* The tests of the arguments, and the first step of each workflow.  A     *)
(* request that is not valid lacks an instrument, a blueprint, an          *)
(* accessible audio file, an existing SMF or a region of bars.             *)
Invalid(r) == ~r.valid \/ (r.kind = "W6" /\ r.count <= 0)

Call(c, r) ==
  /\ pc[c] = "idle" /\ calls[c] < MaxCalls
  /\ req' = [req EXCEPT ![c] = r]
  /\ calls' = [calls EXCEPT ![c] = @ + 1]
  /\ index' = [index EXCEPT ![c] = 0]
  /\ results' = [results EXCEPT ![c] = <<>>]
  /\ Goto(c, CASE Invalid(r) -> "invalid"
               [] ~Invalid(r) /\ r.kind = "W3" -> "dsp"
               [] ~Invalid(r) /\ r.kind = "W5" -> "parse"
               [] OTHER -> "mte")
  /\ UNCHANGED <<smfPath, cleanup, reading, files, versions, quiet, answers>>

Refuse(c) ==
  /\ pc[c] = "invalid"
  /\ Fail(c, files)

(* readSMF takes the header and its number of tracks.  f.Read may deliver  *)
(* less than a track's length without an error, and the rest of the buffer *)
(* stays zero.                                                             *)
Readable(path) ==
  Exists(path) /\ files[path] # <<>> /\ Len(files[path]) > files[path][1].tracks
readChunk(chunk) == IF chunk = Cut THEN Padded ELSE chunk
readSMF(path) == [i \in DOMAIN files[path] |-> readChunk(files[path][i])]

(* Mutant: the workflow waits for a file that it can read.                 *)
ParseBaseWaits(c) ==
  /\ pc[c] = "parse"
  /\ IF Readable(req[c].smf) THEN Goto(c, "mte") ELSE UNCHANGED pc
  /\ UNCHANGED <<req, calls, index, results, smfPath, cleanup, reading, files,
                 versions, quiet, answers>>

(* The first readSMF of W5.  Its tracks are dropped, so it only matters    *)
(* whether it succeeds: it does not unless there is a file to read at its  *)
(* last step, and it may fail after any write of others.                   *)
ParseBase(c) ==
  /\ pc[c] = "parse"
  /\ \/ /\ Readable(req[c].smf)
        /\ Goto(c, "mte")
        /\ UNCHANGED <<req, calls, index, results, smfPath, cleanup, reading, files,
                       versions, quiet, answers>>
     \/ Fail(c, files)

-----------------------------------------------------------------------------
(* runDSP, and the look at its analysis, which is removed on return.  An   *)
(* analysis of a dsp_cli that failed or was killed stays.                  *)
runDSP(c) ==
  /\ pc[c] = "dsp"
  /\ files' = With(TempName(c, "analysis"), <<Json>>)
  /\ cleanup' = [cleanup EXCEPT ![c] = @ \cup {TempName(c, "analysis")}]
  /\ Goto(c, "analysis")
  /\ UNCHANGED <<req, calls, index, results, smfPath, reading, versions, quiet, answers>>

runDSPFails(c) ==
  /\ pc[c] = "dsp"
  /\ \E now \in {files} \cup {With(TempName(c, "analysis"), x) : x \in {<<>>, <<Cut>>}} :
       Fail(c, now)

(* The analysis may be unreadable, or without key or scale.                *)
UseAnalysis(c) ==
  /\ pc[c] = "analysis"
  /\ \/ /\ Goto(c, "mte")
        /\ UNCHANGED <<req, calls, index, results, smfPath, cleanup, reading, files,
                       versions, quiet, answers>>
     \/ Fail(c, files)

-----------------------------------------------------------------------------
(* runMTE.  The file is there when mte_cli has exited with 0; on a full    *)
(* disk it may be cut all the same, as mte_cli does not notice.            *)
AfterMTE(r) ==
  CASE r.kind = "W6" -> "variation"
    [] r.kind = "W5" -> "merge"
    [] r.kind \in {"W2", "W3", "W10"} /\ r.output # NoPath -> "copy"
    [] OTHER -> "return"

(* What there is of a file when writing it stops early.                    *)
Partial(header) == {<<>>, <<header>>, <<header, Cut>>}
Shortened(song) == IF DiskMayFill THEN Partial(Header(song, 1)) ELSE {}

(* Mutant: nothing is deferred.                                            *)
runMTENotDeferred(c) ==
  /\ pc[c] = "mte"
  /\ files' = With(TempName(c, "out"), Smf(Song(c), 1))
  /\ smfPath' = [smfPath EXCEPT ![c] = TempName(c, "out")]
  /\ Goto(c, AfterMTE(req[c]))
  /\ UNCHANGED <<req, calls, index, results, cleanup, reading, versions, quiet, answers>>

runMTE(c) ==
  /\ pc[c] = "mte"
  /\ \E smf \in {Smf(Song(c), 1)} \cup Shortened(Song(c)) :
       files' = With(TempName(c, "out"), smf)
  /\ smfPath' = [smfPath EXCEPT ![c] = TempName(c, "out")]
  /\ cleanup' = [cleanup EXCEPT ![c] =
       IF req[c].kind \in {"W5", "W6"} THEN @ \cup {TempName(c, "out")} ELSE @]
  /\ Goto(c, AfterMTE(req[c]))
  /\ UNCHANGED <<req, calls, index, results, reading, versions, quiet, answers>>

(* mte_cli fails, or the caller's context ends and it is killed, before or *)
(* after it has written a part of its output, which nobody removes.  W6    *)
(* goes on with the next variation.                                        *)
runMTEFails(c) ==
  /\ pc[c] = "mte"
  /\ \E now \in {files} \cup
       {With(TempName(c, "out"), x) : x \in Partial(Header(Song(c), 1))} :
       IF req[c].kind = "W6"
       THEN /\ files' = now
            /\ smfPath' = [smfPath EXCEPT ![c] = NoPath]
            /\ Goto(c, "variation")
            /\ UNCHANGED <<req, calls, index, results, cleanup, reading, versions, quiet, answers>>
       ELSE Fail(c, now)

-----------------------------------------------------------------------------
(* W6: note the variation, and go on.  The sum is one of int64, and wraps. *)

Step(r) == IF r.delta = 0 THEN 1 ELSE r.delta
Wrap(n) == ((n + SeedMod \div 2) % SeedMod) - SeedMod \div 2
Seed(r, i) == Wrap(r.seed + i * Step(r))

(* Mutant: a variation that failed is left out.                            *)
AddVariationIfThere(c) ==
  /\ pc[c] = "variation"
  /\ results' = [results EXCEPT ![c] =
       IF smfPath[c] = NoPath THEN @
       ELSE Append(@, [seed |-> Seed(req[c], index[c]), path |-> smfPath[c]])]
  /\ index' = [index EXCEPT ![c] = @ + 1]
  /\ Goto(c, IF index[c] + 1 < req[c].count THEN "mte" ELSE "return")
  /\ UNCHANGED <<req, calls, smfPath, cleanup, reading, files, versions, quiet, answers>>

AddVariation(c) ==
  /\ pc[c] = "variation"
  /\ results' = [results EXCEPT ![c] =
       Append(@, [seed |-> Seed(req[c], index[c]), path |-> smfPath[c]])]
  /\ index' = [index EXCEPT ![c] = @ + 1]
  /\ Goto(c, IF index[c] + 1 < req[c].count THEN "mte" ELSE "return")
  /\ UNCHANGED <<req, calls, smfPath, cleanup, reading, files, versions, quiet, answers>>

-----------------------------------------------------------------------------
(* W5: mergeSMF reads the user's file again and then the new material.     *)
(* readSMF takes the header, and of every track the magic, the length and  *)
(* as many bytes as that, in three reads between which others may write    *)
(* the file.  The lengths read so far give the position.  In a file with   *)
(* the chunks they were read from it is the start of the next chunk; in    *)
(* another one it may be, by chance, or the bytes there are Torn.          *)
BaseRead(c) ==
  pc[c] = "merge" /\ base[c] # <<>> /\ Len(base[c]) = base[c][1].tracks + 1

Aligned(c, file) ==
  \A i \in 2..Len(lengths[c]) : i \in DOMAIN file /\ lengths[c][i] = file[i]

ChunksAt(c) ==
  LET file == files[req[c].smf]
      k == Len(base[c]) + 1
  IN IF file = <<>> THEN {}
     ELSE {file[i] : i \in DOMAIN file \cap {k}} \cup
          (IF Aligned(c, file) THEN {} ELSE {Torn})

readHeader(c) ==
  /\ pc[c] = "merge" /\ base[c] = <<>>
  /\ \E chunk \in ChunksAt(c) :
       base' = [base EXCEPT ![c] = <<chunk>>] /\ lengths' = [lengths EXCEPT ![c] = <<chunk>>]
  /\ quiet' = [quiet EXCEPT ![c] = TRUE]
  /\ UNCHANGED <<pc, req, calls, index, results, smfPath, cleanup, files, versions, answers>>

(* The bytes at the position are "MTrk", which Torn ones may be.           *)
readMagic(c) ==
  /\ pc[c] = "merge" /\ base[c] # <<>> /\ ~BaseRead(c)
  /\ ChunksAt(c) # {}
  /\ Goto(c, "length")
  /\ UNCHANGED <<req, calls, index, results, smfPath, cleanup, reading, files,
                 versions, quiet, answers>>

readLength(c) ==
  /\ pc[c] = "length"
  /\ \E chunk \in ChunksAt(c) : lengths' = [lengths EXCEPT ![c] = Append(@, chunk)]
  /\ Goto(c, "data")
  /\ UNCHANGED <<req, calls, index, results, smfPath, cleanup, base, files,
                 versions, quiet, answers>>

readData(c) ==
  /\ pc[c] = "data"
  /\ \E chunk \in ChunksAt(c) : base' = [base EXCEPT ![c] = Append(@, readChunk(chunk))]
  /\ Goto(c, "merge")
  /\ UNCHANGED <<req, calls, index, results, smfPath, cleanup, lengths, files,
                 versions, quiet, answers>>

Merged(c) ==
  LET chunks == base[c] \o Tail(readSMF(smfPath[c]))
  IN [chunks EXCEPT ![1].tracks = Len(chunks) - 1]

(* Mutants: the deferred removal takes the merged file; the new material   *)
(* replaces the tracks of the base.                                        *)
mergeSMFRemoved(c) ==
  /\ BaseRead(c) /\ Readable(smfPath[c])
  /\ Succeed(c, TempName(c, "merged"), files)
  /\ UNCHANGED <<versions, quiet>>

mergeSMFReplaces(c) ==
  /\ BaseRead(c) /\ Readable(smfPath[c])
  /\ LET merged == TempName(c, "merged")
     IN Succeed(c, merged, With(merged, readSMF(smfPath[c])))
  /\ UNCHANGED <<versions, quiet>>

mergeSMF(c) ==
  /\ BaseRead(c) /\ Readable(smfPath[c])
  /\ LET merged == TempName(c, "merged")
     IN Succeed(c, merged, With(merged, Merged(c)))
  /\ UNCHANGED <<versions, quiet>>

(* A file cannot be read or created, or the merged one is written in part. *)
mergeSMFFails(c) ==
  \/ pc[c] \in {"merge", "length", "data"} /\ Fail(c, files)
  \/ /\ BaseRead(c) /\ Readable(smfPath[c])
     /\ \E x \in Partial(Merged(c)[1]) : Fail(c, With(TempName(c, "merged"), x))

-----------------------------------------------------------------------------
(* W2, W3 and W10: copy the result to OutputPath.  os.WriteFile truncates  *)
(* the file and then writes it.                                            *)
CopyTruncate(c) ==
  /\ pc[c] = "copy"
  /\ files' = With(req[c].output, <<>>)
  /\ Written(req[c].output, <<>>)
  /\ Goto(c, "write")
  /\ UNCHANGED <<req, calls, index, results, smfPath, cleanup, reading, answers>>

CopyWrite(c) ==
  /\ pc[c] = "write"
  /\ files' = With(req[c].output, files[smfPath[c]])
  /\ Written(req[c].output, files[smfPath[c]])
  /\ Goto(c, "remove")
  /\ UNCHANGED <<req, calls, index, results, smfPath, cleanup, reading, answers>>

CopyFails(c) ==
  \/ pc[c] = "copy" /\ Fail(c, files)
  \/ /\ pc[c] = "write"
     /\ \E smf \in Shortened(Song(c)) :
          /\ Answer(c, FALSE, {}, With(req[c].output, smf))
          /\ Written(req[c].output, smf)

RemoveTemp(c) ==
  /\ pc[c] = "remove"
  /\ files' = Without({smfPath[c]})
  /\ smfPath' = [smfPath EXCEPT ![c] = req[c].output]
  /\ Goto(c, "return")
  /\ UNCHANGED <<req, calls, index, results, cleanup, reading, versions, quiet, answers>>

(* The response: the path, or the paths of the variations.                 *)
Return(c) ==
  /\ pc[c] = "return"
  /\ Answer(c, TRUE,
            IF req[c].kind = "W6"
            THEN {r.path : r \in ToSet(results[c])} \ {NoPath}
            ELSE {smfPath[c]},
            files)
  /\ UNCHANGED <<versions, quiet>>

-----------------------------------------------------------------------------
Progress(c) ==
  \/ Refuse(c) \/ ParseBase(c)
  \/ runDSP(c) \/ runDSPFails(c) \/ UseAnalysis(c)
  \/ runMTE(c) \/ runMTEFails(c) \/ AddVariation(c)
  \/ readHeader(c) \/ readMagic(c) \/ readLength(c) \/ readData(c)
  \/ mergeSMF(c) \/ mergeSMFFails(c)
  \/ CopyTruncate(c) \/ CopyWrite(c) \/ CopyFails(c) \/ RemoveTemp(c)
  \/ Return(c)

Next == \E c \in Client : (\E r \in RequestsOf[c] : Call(c, r)) \/ Progress(c)

Spec == Init /\ [][Next]_vars

(* A goroutine that can go on goes on, and the programs it runs end.       *)
FairSpec == Spec /\ \A c \in Client : WF_vars(Progress(c))

-----------------------------------------------------------------------------
(* The variables keep their shapes; a result is only named while a call is *)
(* under way.                                                              *)
TypeOK ==
  /\ pc \in [Client -> {"idle", "invalid", "dsp", "analysis", "parse", "mte",
                        "variation", "merge", "length", "data", "copy", "write", "remove",
                        "return"}]
  /\ \A c \in Client : cleanup[c] \subseteq DOMAIN files
  /\ \A c \in Client : smfPath[c] # NoPath => pc[c] # "idle" /\ Exists(smfPath[c])
  /\ \A c \in Client : base[c] # <<>> =>
       pc[c] \in {"merge", "length", "data"} /\ base[c][1].tracks \in Nat
  /\ \A p \in DOMAIN files : p \in UserFiles \/ p \in TempPath

(* A call that succeeds leaves its result and nothing else: the file that  *)
(* a response of W2, W3, W5 or W10 names is there after copying, merging   *)
(* and the deferred removals, and the temporary directory holds nothing    *)
(* beside it; material that was merged and the audio analysis are removed. *)
(* The files that a response of W6 names are all gone when the caller gets *)
(* it, and what is left is what mte_cli had written of a variation that    *)
(* failed, whole or in part.                                               *)
SuccessLeavesItsFiles ==
  \A a \in answers : a.ok =>
    /\ a.req.kind # "W6" => DOMAIN a.files = a.paths
    /\ a.req.kind = "W6" => \A p \in DOMAIN a.files :
         p \notin a.paths /\ p[1] = "out" /\ a.results[p[4] + 1].path = NoPath

(* SmartRegeneration keeps the user's material, and never answers with a   *)
(* file that contradicts its header: the merged file has the header of a   *)
(* version of the user's file with one more track, and the new track comes *)
(* last.  Unless somebody has written the user's file while it was read,   *)
(* the tracks between are those of that version, all of them and in their  *)
(* places; a track that a full disk cut is there as well, padded.  After a *)
(* write each of them is from some version, or the bytes of none.          *)
MergeIsConsistent ==
  \A a \in answers : a.ok /\ a.req.kind = "W5" =>
    \A p \in a.paths :
      LET smf == a.files[p]
          read == versions[a.req.smf]
      IN /\ Len(smf) = smf[1].tracks + 1
         /\ Last(smf) \in {Track(<<a.by, a.call, 0>>, 1), Padded}
         /\ \E v \in read :
              /\ v[1].song = smf[1].song /\ v[1].tracks + 1 = smf[1].tracks
              /\ a.quiet => \A i \in 2..(Len(smf) - 1) :
                               i \in DOMAIN v /\ readChunk(v[i]) = smf[i]
         /\ \A i \in 2..(Len(smf) - 1) :
              smf[i] = Torn \/ \E v \in read : i \in DOMAIN v /\ readChunk(v[i]) = smf[i]

(* GenerateVariations answers with every variation it was asked for, the   *)
(* failed ones too, in order, and each with a seed of its own as long as   *)
(* the seeds do not go round all of int64.                                 *)
EveryVariationReported ==
  \A a \in answers : a.ok /\ a.req.kind = "W6" =>
    /\ Len(a.results) = a.req.count
    /\ a.req.count * Step(a.req) \in (-SeedMod)..SeedMod =>
         \A i, j \in DOMAIN a.results :
           i # j => a.results[i].seed # a.results[j].seed
    /\ \A i \in DOMAIN a.results :
         a.results[i].path # NoPath => a.results[i].path[4] = i - 1

(* Every call returns, whatever the programs, the disk and the other calls *)
(* do.                                                                     *)
EveryCallReturns == \A c \in Client : pc[c] # "idle" ~> pc[c] = "idle"

=============================================================================
