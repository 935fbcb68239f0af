-------------------------- MODULE Workflows_proofs --------------------------
(***************************************************************************)
(* Proofs about the workflows of the ACE, for every set of callers,        *)
(* requests and files of the user, and any number of calls.                *)
(*                                                                         *)
(* The callers share the file system, but each one works on temporary      *)
(* files of its own call, and on files of the user.  So the invariant is   *)
(* one formula per call, about its own variables and its own temporary     *)
(* files (CallInv), and one about the files of the user (FilesInv), which  *)
(* hold a version or are empty while os.WriteFile is at work.  Another     *)
(* caller's step (OwnChange) keeps the second, and disturbs the first only *)
(* by writing the file that mergeSMF reads, after which the call is not    *)
(* quiet.                                                                  *)
(***************************************************************************)
EXTENDS Workflows, SequenceTheorems, TLAPS

Headers == [song : Songs, tracks : Nat]
Chunks == Headers \cup [song : Songs, n : Nat] \cup {Cut, Padded, Torn, Json}

(* A file that is not empty begins with a header.                          *)
WellFormed(f) == f \in Seq(Chunks) /\ (f # <<>> => f[1] \in Headers)

FilesInv ==
  /\ files = [p \in DOMAIN files |-> files[p]]
  /\ UserFiles \subseteq DOMAIN files
  /\ \A p \in DOMAIN files :
       p \in UserFiles \/ (p \in TempPath /\ p[3] <= calls[p[2]])
  /\ DOMAIN versions = UserFiles /\ versions = [u \in UserFiles |-> versions[u]]
  /\ \A u \in UserFiles : files[u] = <<>> \/ files[u] \in versions[u]
  /\ \A u \in UserFiles : \A v \in versions[u] : v # <<>> /\ WellFormed(v)

-----------------------------------------------------------------------------
(* One call.  First the shapes of its variables.                           *)
Variation == [seed : Int, path : UserFiles \cup TempPath \cup {NoPath}]
Mine(c) == {p \in TempPath : p[2] = c /\ p[3] = calls[c]}
Removable(c) == {p \in Mine(c) : p[1] \in {"out", "analysis"}}
Copied(r) == r.kind \in {"W2", "W3", "W10"}
Merging == {"merge", "length", "data"}

(* Which workflow is where, and what it has set by then.                   *)
Stages(c) ==
  /\ pc[c] \in {"dsp", "analysis"} => req[c].kind = "W3"
  /\ pc[c] \in {"parse"} \cup Merging => req[c].kind = "W5"
  /\ pc[c] = "variation" => req[c].kind = "W6"
  /\ pc[c] \in {"copy", "write", "remove"} => Copied(req[c]) /\ req[c].output \in UserFiles
  /\ pc[c] = "return" => req[c].kind # "W5"
  /\ pc[c] \in {"mte"} \cup Merging /\ req[c].kind = "W5" => req[c].smf \in UserFiles
  /\ pc[c] # "idle" /\ req[c].kind # "W6" => index[c] = 0

(* What mte_cli may leave behind.                                          *)
Outputs(song) == {Smf(song, 1)} \cup Partial(Header(song, 1))

(* The file of mte_cli is there until it is copied or the call returns.    *)
Produced(c) ==
  /\ pc[c] \in Merging \cup {"copy", "write", "remove"} =>
       /\ smfPath[c] = TempName(c, "out") /\ Exists(smfPath[c])
       /\ files[smfPath[c]] \in Outputs(Song(c))
  /\ pc[c] = "return" /\ Copied(req[c]) =>
       /\ smfPath[c] \in UserFiles \cup {TempName(c, "out")} /\ Exists(smfPath[c])
  /\ Copied(req[c]) => \A p \in cleanup[c] : p[1] = "analysis"

(* A variation that failed has left the file.                              *)
LeftBy(c, p) ==
  /\ req[c].kind = "W6" /\ p[1] = "out"
  /\ \/ p[4] + 1 \in 1..Len(results[c]) /\ results[c][p[4] + 1].path = NoPath
     \/ pc[c] = "variation" /\ p[4] = index[c] /\ smfPath[c] = NoPath

(* What the call has in the temporary directory will be removed, is its    *)
(* result or was left by a variation that failed.                          *)
Tidy(c) ==
  /\ cleanup[c] \subseteq Removable(c) /\ (pc[c] = "idle" => cleanup[c] = {})
  /\ pc[c] # "idle" => \A p \in OwnTemp(c) :
       \/ p \in cleanup[c]
       \/ LeftBy(c, p)
       \/ pc[c] \in {"copy", "write", "remove", "return"} /\ Copied(req[c]) /\ p = smfPath[c]

(* What mergeSMF has read of the user's file: the header of one version,   *)
(* and each track from some version or Torn.                               *)
FromVersions(chunks, u) ==
  /\ chunks \in Seq(Chunks)
  /\ chunks # <<>> =>
       /\ chunks[1] \in Headers
       /\ \E v \in versions[u] : v[1] = chunks[1]
       /\ \A i \in 2..Len(chunks) :
            chunks[i] = Torn
            \/ \E v \in versions[u] : i \in DOMAIN v /\ readChunk(v[i]) = chunks[i]

(* While nobody writes the file, it is what was read, and the position is  *)
(* that of the next chunk.                                                 *)
FromFile(chunks, f) ==
  f # <<>> /\ chunks[1] = f[1]
  /\ \A i \in 2..Len(chunks) : i \in DOMAIN f /\ chunks[i] = readChunk(f[i])

BaseInv(c) ==
  /\ pc[c] \notin Merging => base[c] = <<>> /\ lengths[c] = <<>>
  /\ pc[c] \in Merging => FromVersions(base[c], req[c].smf)
  /\ pc[c] \in {"length", "data"} => base[c] # <<>>
  /\ Len(lengths[c]) = IF pc[c] = "data" THEN Len(base[c]) + 1 ELSE Len(base[c])
  /\ base[c] # <<>> /\ quiet[c] =>
       FromFile(base[c], files[req[c].smf]) /\ Aligned(c, files[req[c].smf])

(* W6 has noted one variation for each seed it has come to, and will       *)
(* remove its file.                                                        *)
Variations(c) ==
  req[c].kind = "W6" /\ pc[c] \in {"mte", "variation", "return"} =>
    /\ Len(results[c]) = index[c]
    /\ \A i \in 1..Len(results[c]) :
         /\ results[c][i].seed = Seed(req[c], i - 1)
         /\ results[c][i].path # NoPath =>
              results[c][i].path[4] = i - 1 /\ results[c][i].path \in cleanup[c]
    /\ IF pc[c] = "return" THEN index[c] = req[c].count ELSE index[c] < req[c].count
    /\ pc[c] = "variation" => smfPath[c] \in {NoPath, TempName(c, "out")} \cap ({NoPath} \cup cleanup[c])

CallInv(c) ==
  Stages(c) /\ Produced(c) /\ Tidy(c) /\ BaseInv(c) /\ Variations(c)

Shapes ==
  /\ pc \in [Client -> {"idle", "invalid", "dsp", "analysis", "parse", "mte",
                        "variation", "merge", "length", "data", "copy", "write", "remove",
                        "return"}]
  /\ req \in [Client -> Requests] /\ calls \in [Client -> Nat] /\ index \in [Client -> Nat]
  /\ results \in [Client -> Seq(Variation)]
  /\ smfPath \in [Client -> UserFiles \cup TempPath \cup {NoPath}]
  /\ cleanup \in [Client -> SUBSET TempPath] /\ base \in [Client -> Seq(Chunks)]
  /\ lengths \in [Client -> Seq(Chunks)] /\ quiet \in [Client -> BOOLEAN]

(* What the properties say of one response.                                *)
LeavesItsFiles(a) ==
  /\ a.req.kind # "W6" => DOMAIN a.files = a.paths
  /\ a.req.kind = "W6" => \A p \in DOMAIN a.files :
       p \notin a.paths /\ p[1] = "out" /\ a.results[p[4] + 1].path = NoPath

MergeOf(smf, read, a) ==
  /\ Len(smf) = smf[1].tracks + 1
  /\ Last(smf) \in {Track(<<a.by, a.call, 0>>, 1), Padded}
  /\ \E v \in read :
       /\ v[1].song = smf[1].song /\ v[1].tracks + 1 = smf[1].tracks
       /\ a.quiet => \A i \in 2..(Len(smf) - 1) :
                        i \in DOMAIN v /\ readChunk(v[i]) = smf[i]
  /\ \A i \in 2..(Len(smf) - 1) :
       smf[i] = Torn \/ \E v \in read : i \in DOMAIN v /\ readChunk(v[i]) = smf[i]

MergesVersions(a) ==
  a.req.smf \in UserFiles
  /\ \A p \in a.paths : MergeOf(a.files[p], versions[a.req.smf], a)

ReportsAll(a) ==
  /\ Len(a.results) = a.req.count
  /\ a.req.count * Step(a.req) \in (-SeedMod)..SeedMod =>
       \A i, j \in DOMAIN a.results :
         i # j => a.results[i].seed # a.results[j].seed
  /\ \A i \in DOMAIN a.results :
       a.results[i].path # NoPath => a.results[i].path[4] = i - 1

Claim(a) ==
  a.ok => /\ LeavesItsFiles(a)
          /\ a.req.kind = "W5" => MergesVersions(a)
          /\ a.req.kind = "W6" => ReportsAll(a)

Claims == \A a \in answers : Claim(a)

WorkflowsInv == Shapes /\ FilesInv /\ (\A c \in Client : CallInv(c)) /\ Claims

-----------------------------------------------------------------------------
(* Both parts of a concatenation stay in their order.                      *)
LEMMA Concatenation ==
  ASSUME NEW S, NEW h \in Seq(S), NEW t \in Seq(S)
  PROVE  /\ h \o t \in Seq(S) /\ Len(h \o t) = Len(h) + Len(t)
         /\ \A i \in 1..Len(h) : (h \o t)[i] = h[i]
         /\ \A i \in 1..Len(t) : (h \o t)[Len(h) + i] = t[i]
<1>1. h \o t \in Seq(S) /\ Len(h \o t) = Len(h) + Len(t)
    BY ConcatProperties, ZenonT(60)
<1>2. Len(h) \in Nat /\ Len(t) \in Nat
    BY LenProperties
<1>3. \A i \in 1..(Len(h) + Len(t)) : (h \o t)[i] = IF i <= Len(h) THEN h[i] ELSE t[i - Len(h)]
    BY ConcatProperties, ZenonT(60)
<1>4. ASSUME NEW i \in 1..Len(h) PROVE (h \o t)[i] = h[i]
    BY <1>2, <1>3
<1>5. ASSUME NEW i \in 1..Len(t) PROVE (h \o t)[Len(h) + i] = t[i]
  <2>1. Len(h) + i \in 1..(Len(h) + Len(t)) /\ ~(Len(h) + i <= Len(h)) /\ (Len(h) + i) - Len(h) = i
      BY <1>2
  <2> QED BY <1>3, <2>1
<1> QED BY <1>1, <1>4, <1>5

USE WorkflowsAssumption

(* The name of a temporary file tells the call and the variation.          *)
LEMMA TempNames ==
  ASSUME Shapes, NEW c \in Client, NEW what \in {"out", "merged", "analysis"}
  PROVE  /\ TempName(c, what) \in Mine(c) /\ TempName(c, what) \in TempPath
         /\ TempName(c, what)[1] = what /\ TempName(c, what)[4] = index[c]
         /\ TempName(c, what) \notin UserFiles
<1>1. calls[c] \in Nat /\ index[c] \in Nat
    BY DEF Shapes
<1>2. TempName(c, what) \in TempPath
    BY <1>1 DEF TempName, TempPath
<1> QED BY <1>2 DEF Mine, TempName

(* What c may do to the files: anything to the files of its call, and new  *)
(* contents for files of the user.                                         *)
OwnChange(c, now) ==
  /\ now = [p \in DOMAIN now |-> now[p]]
  /\ DOMAIN now \subseteq DOMAIN files \cup Mine(c)
  /\ DOMAIN files \ Mine(c) \subseteq DOMAIN now
  /\ \A p \in DOMAIN files \ (Mine(c) \cup UserFiles) : now[p] = files[p]

SameCall(d) ==
  /\ pc'[d] = pc[d] /\ req'[d] = req[d] /\ calls'[d] = calls[d] /\ index'[d] = index[d]
  /\ results'[d] = results[d] /\ smfPath'[d] = smfPath[d]
  /\ cleanup'[d] = cleanup[d] /\ base'[d] = base[d] /\ lengths'[d] = lengths[d]

(* Those who are quiet after a step of c that makes the files now are      *)
(* reading a file that c has left alone.                                   *)
Undisturbed(c, now) ==
  \A d \in Client : d # c /\ quiet'[d] =>
    quiet[d] /\ (req[d].smf \in UserFiles => now[req[d].smf] = files[req[d].smf])

VersionsGrow == \A u \in UserFiles : versions[u] \subseteq versions'[u]

(* A call is not disturbed by another one.                                 *)
LEMMA OthersUndisturbed ==
  ASSUME WorkflowsInv, NEW c \in Client, NEW d \in Client, d # c,
         OwnChange(c, files'), SameCall(d), VersionsGrow, Undisturbed(c, files')
  PROVE  CallInv(d)'
<1>0. Shapes /\ FilesInv /\ CallInv(d)
    BY DEF WorkflowsInv
<1>1. Mine(d) \cap Mine(c) = {} /\ Mine(d) \cap UserFiles = {} /\ Mine(d)' = Mine(d)
    BY DEF Mine, SameCall
<1>2. \A p \in Mine(d) : (p \in DOMAIN files' <=> p \in DOMAIN files)
                          /\ (p \in DOMAIN files => files'[p] = files[p])
    BY <1>1 DEF OwnChange
<1>3. \A what \in {"out", "merged", "analysis"} :
        TempName(d, what)' = TempName(d, what) /\ TempName(d, what) \in Mine(d)
    BY <1>0, TempNames DEF SameCall, TempName
<1>4. Song(d)' = Song(d)
    BY DEF Song, SameCall
<1>5. OwnTemp(d)' = OwnTemp(d) /\ OwnTemp(d) \subseteq Mine(d)
  <2>1. \A p \in DOMAIN files \ UserFiles : p \in TempPath
      BY <1>0 DEF FilesInv
  <2>2. \A p \in DOMAIN files' \ UserFiles : p \in TempPath
      BY <2>1 DEF OwnChange, Mine
  <2>3. OwnTemp(d) = Mine(d) \cap DOMAIN files
      BY <1>1, <2>1 DEF OwnTemp, Mine
  <2>4. OwnTemp(d)' = Mine(d)' \cap DOMAIN files'
      BY <1>1, <2>2 DEF OwnTemp, Mine
  <2> QED BY <1>1, <1>2, <2>3, <2>4
<1>6. Stages(d)'
    BY <1>0 DEF CallInv, Stages, SameCall
<1>7. Produced(d)'
  <2>1. UserFiles \subseteq DOMAIN files'
      BY <1>0, <1>1 DEF FilesInv, OwnChange, Mine
  <2>2. Produced(d)
      BY <1>0 DEF CallInv
  <2> QED BY <1>1, <1>2, <1>3, <1>4, <2>1, <2>2 DEF Produced, SameCall, Exists
<1>8. Tidy(d)'
  <2>1. Removable(d)' = Removable(d)
      BY <1>1 DEF Removable
  <2>2. \A p \in OwnTemp(d) : files'[p] = files[p]
      BY <1>2, <1>5 DEF OwnTemp
  <2>3. Tidy(d)
      BY <1>0 DEF CallInv
  <2> QED BY <1>5, <2>1, <2>2, <2>3 DEF Tidy, SameCall, LeftBy
<1>9. BaseInv(d)'
  <2>1. pc[d] \in Merging => req[d].smf \in UserFiles
      BY <1>0 DEF CallInv, Stages
  <2>2. BaseInv(d)
      BY <1>0 DEF CallInv
  <2>3. pc[d] \in Merging => FromVersions(base[d], req[d].smf)'
      BY <2>1, <2>2, SMTT(40) DEF BaseInv, FromVersions, SameCall, VersionsGrow
  <2>4. base'[d] # <<>> /\ quiet'[d] =>
          FromFile(base[d], files[req[d].smf])' /\ Aligned(d, files[req[d].smf])'
    <3> SUFFICES ASSUME base'[d] # <<>>, quiet'[d]
                 PROVE  FromFile(base[d], files[req[d].smf])' /\ Aligned(d, files[req[d].smf])'
        OBVIOUS
    <3>1. pc[d] \in Merging /\ quiet[d] /\ base[d] # <<>>
        BY <2>2 DEF BaseInv, SameCall, Undisturbed
    <3>2. files'[req'[d].smf] = files[req[d].smf]
        BY <2>1, <3>1 DEF Undisturbed, SameCall
    <3>3. FromFile(base[d], files[req[d].smf]) /\ Aligned(d, files[req[d].smf])
        BY <2>2, <3>1 DEF BaseInv
    <3> QED BY <3>2, <3>3 DEF FromFile, Aligned, SameCall
  <2> QED BY <2>2, <2>3, <2>4 DEF BaseInv, SameCall
<1>10. Variations(d)'
    BY <1>0, <1>3 DEF CallInv, Variations, SameCall
<1> QED BY <1>6, <1>7, <1>8, <1>9, <1>10 DEF CallInv

(* The files of the user stay files of the user.                           *)
LEMMA FilesKept ==
  ASSUME WorkflowsInv, NEW c \in Client, OwnChange(c, files'), VersionsGrow,
         \A d \in Client : calls[d] <= calls'[d], calls' \in [Client -> Nat],
         versions' = [u \in UserFiles |-> versions'[u]],
         \A u \in UserFiles : files'[u] = <<>> \/ files'[u] \in versions'[u],
         \A u \in UserFiles : \A v \in versions'[u] :
           v \in versions[u] \/ (v # <<>> /\ WellFormed(v))
  PROVE  FilesInv'
<1>0. Shapes /\ FilesInv
    BY DEF WorkflowsInv
<1>1. files' = [p \in DOMAIN files' |-> files'[p]]
    BY DEF OwnChange
<1>2. UserFiles \subseteq DOMAIN files'
    BY <1>0 DEF FilesInv, OwnChange, Mine
<1>3. ASSUME NEW p \in DOMAIN files', p \notin UserFiles
      PROVE  p \in TempPath /\ p[3] <= calls'[p[2]]
  <2>1. p \in TempPath /\ p[3] <= calls[p[2]]
    <3>1. CASE p \in DOMAIN files
        BY <1>0, <1>3, <3>1 DEF FilesInv
    <3>2. CASE p \in Mine(c)
      <4>1. p \in TempPath /\ p[3] = calls[c] /\ p[2] = c
          BY <3>2 DEF Mine
      <4>2. calls[c] \in Nat
          BY <1>0 DEF Shapes
      <4> QED BY <4>1, <4>2
    <3> QED BY <3>1, <3>2 DEF OwnChange
  <2>2. p[2] \in Client /\ p[3] \in Nat
      BY <2>1 DEF TempPath
  <2>3. calls[p[2]] \in Nat /\ calls'[p[2]] \in Nat /\ calls[p[2]] <= calls'[p[2]]
      BY <1>0, <2>2 DEF Shapes
  <2> QED BY <2>1, <2>2, <2>3
<1>4. DOMAIN versions' = UserFiles
    OBVIOUS
<1>5. \A u \in UserFiles : \A v \in versions'[u] : v # <<>> /\ WellFormed(v)
    BY <1>0 DEF FilesInv
<1> QED BY <1>1, <1>2, <1>3, <1>4, <1>5 DEF FilesInv, WellFormed

(* Returning from a call: the removals concern the call's own files, and   *)
(* the caller is ready for the next one.                                   *)
LEMMA AnswerStep ==
  ASSUME WorkflowsInv, NEW c \in Client, NEW ok, NEW paths, NEW now,
         Answer(c, ok, paths, now), OwnChange(c, now), quiet' \in [Client -> BOOLEAN]
  PROVE  /\ OwnChange(c, files') /\ (\A d \in Client : d # c => SameCall(d))
         /\ Shapes' /\ CallInv(c)' /\ calls' = calls
         /\ \A u \in UserFiles : files'[u] = now[u]
<1>0. Shapes /\ FilesInv /\ CallInv(c)
    BY DEF WorkflowsInv
<1>1. cleanup[c] \subseteq Mine(c) /\ Mine(c) \cap UserFiles = {}
    BY <1>0 DEF CallInv, Tidy, Removable, Mine
<1>2. files' = [p \in DOMAIN now \ cleanup[c] |-> now[p]]
    BY DEF Answer
<1>3. OwnChange(c, files')
    BY <1>1, <1>2 DEF OwnChange
<1>4. \A u \in UserFiles : files'[u] = now[u]
  <2>1. UserFiles \subseteq DOMAIN now
      BY <1>0, <1>1 DEF FilesInv, OwnChange
  <2> QED BY <1>1, <1>2, <2>1
<1>5. \A d \in Client : d # c => SameCall(d)
    BY <1>0 DEF Answer, Goto, SameCall, Shapes
<1>6. Shapes'
    BY <1>0 DEF Answer, Goto, Shapes
<1>7. /\ pc'[c] = "idle" /\ cleanup'[c] = {} /\ base'[c] = <<>> /\ lengths'[c] = <<>>
      /\ calls' = calls /\ req' = req
    BY <1>0 DEF Answer, Goto, Shapes
<1>8. CallInv(c)'
    BY <1>7 DEF CallInv, Stages, Produced, Tidy, BaseInv, Variations, Merging
<1> QED BY <1>3, <1>4, <1>5, <1>6, <1>7, <1>8

(* The claims of earlier responses stay true when files of the user get    *)
(* new versions.                                                           *)
LEMMA ClaimsStay ==
  ASSUME WorkflowsInv, VersionsGrow, NEW a \in answers
  PROVE  Claim(a)'
<1>1. Claim(a)
    BY DEF WorkflowsInv, Claims
<1>2. MergesVersions(a) => MergesVersions(a)'
    BY SMTT(40) DEF MergesVersions, MergeOf, VersionsGrow, readChunk
<1> QED BY <1>1, <1>2 DEF Claim, LeavesItsFiles, ReportsAll

(* A step that goes on within a call.                                      *)
LEMMA InnerStep ==
  ASSUME WorkflowsInv, NEW c \in Client, OwnChange(c, files'),
         \A d \in Client : d # c => SameCall(d), Shapes', CallInv(c)',
         FilesInv', VersionsGrow, Undisturbed(c, files'), answers' = answers
  PROVE  WorkflowsInv'
<1>1. \A d \in Client : CallInv(d)'
    BY OthersUndisturbed
<1>2. Claims'
    BY ClaimsStay DEF Claims
<1> QED BY <1>1, <1>2 DEF WorkflowsInv

(* A step that ends it.                                                    *)
LEMMA LastStep ==
  ASSUME WorkflowsInv, NEW c \in Client, NEW ok, NEW paths, NEW now,
         Answer(c, ok, paths, now), OwnChange(c, now), VersionsGrow,
         quiet' \in [Client -> BOOLEAN], Undisturbed(c, now),
         versions' = [u \in UserFiles |-> versions'[u]],
         \A u \in UserFiles : now[u] = <<>> \/ now[u] \in versions'[u],
         \A u \in UserFiles : \A v \in versions'[u] :
           v \in versions[u] \/ (v # <<>> /\ WellFormed(v)),
         \A a \in answers' \ answers : Claim(a)'
  PROVE  WorkflowsInv'
<1>1. /\ OwnChange(c, files') /\ (\A d \in Client : d # c => SameCall(d))
      /\ Shapes' /\ CallInv(c)' /\ calls' = calls
      /\ \A u \in UserFiles : files'[u] = now[u]
    BY AnswerStep
<1>2. calls' \in [Client -> Nat] /\ \A d \in Client : calls[d] <= calls'[d]
    BY <1>1 DEF WorkflowsInv, Shapes
<1>3. FilesInv'
    BY <1>1, <1>2, FilesKept
<1>4. \A d \in Client : CallInv(d)'
  <2>1. Undisturbed(c, files')
      BY <1>1 DEF Undisturbed
  <2> QED BY <1>1, <2>1, OthersUndisturbed
<1>5. Claims'
    BY ClaimsStay DEF Claims
<1> QED BY <1>1, <1>3, <1>4, <1>5 DEF WorkflowsInv

-----------------------------------------------------------------------------
(* Creating or rewriting a file of the call, or of the user, is allowed.   *)
LEMMA WriteIsOwn ==
  ASSUME WorkflowsInv, NEW c \in Client, NEW path \in Mine(c) \cup UserFiles, NEW x
  PROVE  /\ OwnChange(c, With(path, x)) /\ OwnChange(c, files)
         /\ DOMAIN With(path, x) = DOMAIN files \cup {path} /\ With(path, x)[path] = x
         /\ \A p \in DOMAIN files : p # path => With(path, x)[p] = files[p]
BY DEF WorkflowsInv, FilesInv, OwnChange, With

(* Who leaves the files of the user alone disturbs nobody.                 *)
LEMMA NobodyDisturbed ==
  ASSUME WorkflowsInv, NEW c \in Client, NEW now,
         \A d \in Client : d # c => quiet'[d] = quiet[d],
         \A u \in UserFiles : now[u] = files[u]
  PROVE  Undisturbed(c, now)
BY DEF Undisturbed

(* The step leaves the versions alone.                                     *)
LEMMA VersionsStay ==
  ASSUME WorkflowsInv, versions' = versions
  PROVE  /\ VersionsGrow /\ versions' = [u \in UserFiles |-> versions'[u]]
         /\ \A u \in UserFiles : files[u] = <<>> \/ files[u] \in versions'[u]
         /\ \A u \in UserFiles : \A v \in versions'[u] : v \in versions[u]
BY DEF WorkflowsInv, FilesInv, VersionsGrow

(* An error is returned.                                                   *)
LEMMA FailStep ==
  ASSUME WorkflowsInv, NEW c \in Client, NEW now, Fail(c, now), OwnChange(c, now),
         \A u \in UserFiles : now[u] = files[u]
  PROVE  WorkflowsInv'
<1>1. Answer(c, FALSE, {}, now) /\ versions' = versions /\ quiet' = quiet
    BY DEF Fail
<1>2. \A a \in answers' \ answers : Claim(a)'
  <2>1. \A a \in answers' \ answers : a.ok = FALSE
      BY <1>1 DEF Answer
  <2> QED BY <2>1 DEF Claim
<1>3. \A u \in UserFiles : now[u] = <<>> \/ now[u] \in versions'[u]
    BY <1>1, VersionsStay
<1>4. quiet' \in [Client -> BOOLEAN] /\ Undisturbed(c, now)
    BY <1>1, NobodyDisturbed DEF WorkflowsInv, Shapes
<1> QED BY <1>1, <1>2, <1>3, <1>4, VersionsStay, LastStep

(* Every way to fail: at once, or with a part of a file left behind.       *)
LEMMA FailingSteps ==
  ASSUME WorkflowsInv, NEW c \in Client,
         \/ Fail(c, files)
         \/ \E what \in {"out", "merged", "analysis"} : \E x : Fail(c, With(TempName(c, what), x))
  PROVE  WorkflowsInv'
<1>0. Shapes /\ FilesInv
    BY DEF WorkflowsInv
<1>1. CASE Fail(c, files)
  <2>1. OwnChange(c, files)
      BY <1>0 DEF OwnChange, FilesInv
  <2> QED BY <1>1, <2>1, FailStep
<1>2. ASSUME NEW what \in {"out", "merged", "analysis"}, NEW x,
             Fail(c, With(TempName(c, what), x))
      PROVE  WorkflowsInv'
  <2> DEFINE path == TempName(c, what)
             now == With(path, x)
  <2>1. path \in Mine(c) \cup UserFiles /\ path \notin UserFiles
      BY <1>0, TempNames
  <2>2. Fail(c, now)
      BY <1>2
  <2> HIDE DEF path
  <2>3. OwnChange(c, now) /\ \A p \in DOMAIN files : p # path => now[p] = files[p]
      BY <1>0, <2>1 DEF OwnChange, With, FilesInv
  <2> HIDE DEF now
  <2>4. \A u \in UserFiles : now[u] = files[u]
      BY <1>0, <2>1, <2>3 DEF FilesInv
  <2> QED BY <2>2, <2>3, <2>4, FailStep
<1> QED BY <1>1, <1>2

(* A new call.                                                             *)
LEMMA CallStep ==
  ASSUME WorkflowsInv, NEW c \in Client, NEW r \in RequestsOf[c], Call(c, r)
  PROVE  WorkflowsInv'
<1>0. Shapes /\ FilesInv /\ CallInv(c) /\ r \in Requests
    BY DEF WorkflowsInv, Requests
<1>1. /\ pc[c] = "idle" /\ req' = [req EXCEPT ![c] = r] /\ calls' = [calls EXCEPT ![c] = @ + 1]
      /\ index' = [index EXCEPT ![c] = 0] /\ results' = [results EXCEPT ![c] = <<>>]
      /\ UNCHANGED <<smfPath, cleanup, base, lengths, files, versions, quiet, answers>>
    BY DEF Call, reading
<1>2. /\ r.kind \in {"W2", "W3", "W5", "W6", "W10"} /\ r.count \in Int
      /\ pc' = [pc EXCEPT ![c] = IF Invalid(r) THEN "invalid" ELSE IF r.kind = "W3" THEN "dsp"
                                 ELSE IF r.kind = "W5" THEN "parse" ELSE "mte"]
    BY <1>0 DEF Call, Goto
<1>3. Shapes'
    BY <1>0, <1>1, <1>2 DEF Shapes
<1>4. \A d \in Client : d # c => SameCall(d)
    BY <1>0, <1>1, <1>2 DEF SameCall, Shapes
<1>5. OwnChange(c, files') /\ VersionsGrow /\ Undisturbed(c, files')
    BY <1>0, <1>1, VersionsStay, NobodyDisturbed DEF OwnChange, FilesInv
<1>6. FilesInv'
  <2>1. calls' \in [Client -> Nat] /\ \A d \in Client : calls[d] <= calls'[d]
      BY <1>0, <1>1 DEF Shapes
  <2> QED BY <1>1, <1>5, <2>1, FilesKept, VersionsStay
<1>7. /\ pc'[c] = (IF Invalid(r) THEN "invalid" ELSE IF r.kind = "W3" THEN "dsp"
                   ELSE IF r.kind = "W5" THEN "parse" ELSE "mte")
      /\ req'[c] = r /\ calls'[c] = calls[c] + 1 /\ calls[c] \in Nat /\ index'[c] = 0
      /\ results'[c] = <<>> /\ cleanup'[c] = {} /\ base'[c] = <<>> /\ lengths'[c] = <<>>
    BY <1>0, <1>1, <1>2 DEF Shapes, CallInv, Tidy, BaseInv, Merging
<1>8. Stages(c)' /\ Produced(c)' /\ BaseInv(c)'
    BY <1>2, <1>7 DEF Stages, Produced, BaseInv, Merging
<1>9. OwnTemp(c)' = {}
  <2>1. ASSUME NEW p \in DOMAIN files, p \notin UserFiles, p[2] = c, p[3] = calls[c] + 1
        PROVE  FALSE
    <3>1. p \in TempPath /\ p[3] <= calls[p[2]]
        BY <1>0, <2>1 DEF FilesInv
    <3> QED BY <1>7, <2>1, <3>1
  <2> QED BY <1>1, <1>7, <2>1 DEF OwnTemp
<1>10. Tidy(c)'
    BY <1>7, <1>9 DEF Tidy
<1>11. Variations(c)'
    BY <1>2, <1>7 DEF Variations, Invalid
<1>12. CallInv(c)'
    BY <1>8, <1>10, <1>11 DEF CallInv
<1> QED BY <1>1, <1>3, <1>4, <1>5, <1>6, <1>12, InnerStep

-----------------------------------------------------------------------------
(* What a call has in the temporary directory bears its name.              *)
LEMMA OwnTempIsMine ==
  ASSUME FilesInv, NEW c \in Client
  PROVE  OwnTemp(c) = Mine(c) \cap DOMAIN files
BY DEF FilesInv, OwnTemp, Mine

(* The steps that leave the files alone.                                   *)
LEMMA FilesStay ==
  ASSUME WorkflowsInv, NEW c \in Client, UNCHANGED <<files, versions, calls>>,
         \A d \in Client : d # c => quiet'[d] = quiet[d]
  PROVE  /\ OwnChange(c, files') /\ VersionsGrow /\ FilesInv' /\ Undisturbed(c, files')
         /\ OwnTemp(c)' = OwnTemp(c) /\ Mine(c)' = Mine(c) /\ Removable(c)' = Removable(c)
<1>1. OwnChange(c, files') /\ VersionsGrow
    BY VersionsStay DEF OwnChange, WorkflowsInv, FilesInv
<1>2. FilesInv'
    BY DEF WorkflowsInv, FilesInv, WellFormed
<1>3. OwnTemp(c)' = OwnTemp(c) /\ Mine(c)' = Mine(c)
    BY DEF OwnTemp, Mine
<1>4. Undisturbed(c, files')
    BY NobodyDisturbed
<1> QED BY <1>1, <1>2, <1>3, <1>4 DEF Removable

(* The steps that write a temporary file.                                  *)
LEMMA TempWritten ==
  ASSUME WorkflowsInv, NEW c \in Client, NEW what \in {"out", "merged", "analysis"}, NEW x,
         files' = With(TempName(c, what), x), UNCHANGED <<versions, quiet, calls>>
  PROVE  /\ OwnChange(c, files') /\ VersionsGrow /\ FilesInv' /\ Undisturbed(c, files')
         /\ OwnTemp(c)' = OwnTemp(c) \cup {TempName(c, what)}
         /\ Mine(c)' = Mine(c) /\ Removable(c)' = Removable(c)
         /\ TempName(c, what) \in DOMAIN files' /\ files'[TempName(c, what)] = x
         /\ \A p \in DOMAIN files : p \in DOMAIN files' /\ (p # TempName(c, what) => files'[p] = files[p])
<1>0. Shapes /\ FilesInv
    BY DEF WorkflowsInv
<1> DEFINE path == TempName(c, what)
<1>1. path \in Mine(c) /\ path \notin UserFiles
    BY <1>0, TempNames
<1>2. files' = With(path, x)
    OBVIOUS
<1> HIDE DEF path
<1>3. /\ OwnChange(c, files') /\ DOMAIN files' = DOMAIN files \cup {path} /\ files'[path] = x
      /\ \A p \in DOMAIN files : p # path => files'[p] = files[p]
    BY <1>0, <1>1, <1>2 DEF OwnChange, With, FilesInv
<1>4. \A u \in UserFiles : files'[u] = files[u]
    BY <1>0, <1>1, <1>3 DEF FilesInv
<1>5. VersionsGrow
    BY VersionsStay
<1>6. FilesInv'
  <2>1. calls' \in [Client -> Nat] /\ \A d \in Client : calls[d] <= calls'[d]
      BY <1>0 DEF Shapes
  <2>2. \A u \in UserFiles : files'[u] = <<>> \/ files'[u] \in versions'[u]
      BY <1>4, VersionsStay
  <2> QED BY <1>3, <1>5, <2>1, <2>2, FilesKept, VersionsStay
<1>7. Mine(c)' = Mine(c)
    BY DEF Mine
<1>8. OwnTemp(c)' = Mine(c)' \cap DOMAIN files'
    BY <1>6 DEF FilesInv, OwnTemp, Mine
<1>9. OwnTemp(c)' = OwnTemp(c) \cup {path}
    BY <1>0, <1>1, <1>3, <1>7, <1>8, OwnTempIsMine
<1>10. Undisturbed(c, files')
    BY <1>4, NobodyDisturbed
<1> QED BY <1>3, <1>5, <1>6, <1>7, <1>9, <1>10 DEF path, Removable

(* The user's file is read and parsed, the analysis is used.               *)
LEMMA GoOnStep ==
  ASSUME WorkflowsInv, NEW c \in Client,
         \/ pc[c] = "parse" /\ Readable(req[c].smf)
         \/ pc[c] = "analysis",
         Goto(c, "mte"),
         UNCHANGED <<req, calls, index, results, smfPath, cleanup, base, lengths, files,
                     versions, quiet, answers>>
  PROVE  WorkflowsInv'
<1>0. Shapes /\ FilesInv /\ CallInv(c)
    BY DEF WorkflowsInv
<1>1. /\ OwnChange(c, files') /\ VersionsGrow /\ FilesInv' /\ Undisturbed(c, files')
      /\ OwnTemp(c)' = OwnTemp(c) /\ Removable(c)' = Removable(c)
    BY FilesStay
<1>2. Shapes' /\ pc'[c] = "mte" /\ \A d \in Client : d # c => SameCall(d)
    BY <1>0 DEF Goto, Shapes, SameCall
<1>3. pc[c] = "parse" => req[c].smf \in UserFiles
  <2> SUFFICES ASSUME pc[c] = "parse" PROVE req[c].smf \in UserFiles
      OBVIOUS
  <2>1. req[c].smf \in DOMAIN files
      BY DEF Readable, Exists
  <2>2. req[c].smf \in UserFiles \cup {NoPath}
      BY <1>0 DEF Shapes
  <2> QED BY <1>0, <2>1, <2>2 DEF FilesInv
<1>4. Stages(c)'
    BY <1>0, <1>2, <1>3 DEF CallInv, Stages, Merging
<1>5. Produced(c)'
    BY <1>0, <1>2 DEF CallInv, Produced, Merging
<1>6. Tidy(c)'
    BY <1>0, <1>1, <1>2 DEF CallInv, Tidy, LeftBy
<1>7. BaseInv(c)' /\ Variations(c)'
    BY <1>0, <1>2 DEF CallInv, BaseInv, Variations, Stages, Merging
<1> QED BY <1>1, <1>2, <1>4, <1>5, <1>6, <1>7, InnerStep DEF CallInv

(* dsp_cli has written its analysis.                                       *)
LEMMA DspStep ==
  ASSUME WorkflowsInv, NEW c \in Client, runDSP(c)
  PROVE  WorkflowsInv'
<1>0. Shapes /\ FilesInv /\ CallInv(c)
    BY DEF WorkflowsInv
<1> DEFINE path == TempName(c, "analysis")
<1>1. /\ pc[c] = "dsp" /\ files' = With(path, <<Json>>) /\ Goto(c, "analysis")
      /\ cleanup' = [cleanup EXCEPT ![c] = @ \cup {path}]
      /\ UNCHANGED <<req, calls, index, results, smfPath, base, lengths, versions, quiet, answers>>
    BY DEF runDSP, reading
<1>2. /\ OwnChange(c, files') /\ VersionsGrow /\ FilesInv' /\ Undisturbed(c, files')
      /\ OwnTemp(c)' = OwnTemp(c) \cup {path} /\ Removable(c)' = Removable(c)
      /\ \A p \in DOMAIN files : p # path => files'[p] = files[p]
    BY <1>1, TempWritten
<1>3. path \in Mine(c) /\ path \in TempPath /\ path[1] = "analysis" /\ path \in Removable(c)
    BY <1>0, TempNames DEF Removable
<1> HIDE DEF path
<1>4. Shapes' /\ pc'[c] = "analysis" /\ (\A d \in Client : d # c => SameCall(d))
      /\ cleanup'[c] = cleanup[c] \cup {path}
    BY <1>0, <1>1, <1>3 DEF Goto, Shapes, SameCall
<1>5. Stages(c)'
    BY <1>0, <1>1, <1>4 DEF CallInv, Stages, Merging
<1>6. Produced(c)'
    BY <1>0, <1>1, <1>3, <1>4 DEF CallInv, Produced, Merging
<1>7. Tidy(c)'
  <2>1. OwnTemp(c) \subseteq DOMAIN files
      BY DEF OwnTemp
  <2> QED BY <1>0, <1>1, <1>2, <1>3, <1>4, <2>1 DEF CallInv, Tidy, LeftBy
<1>8. BaseInv(c)' /\ Variations(c)'
    BY <1>0, <1>1, <1>4 DEF CallInv, BaseInv, Variations, Stages, Merging
<1> QED BY <1>1, <1>2, <1>4, <1>5, <1>6, <1>7, <1>8, InnerStep DEF CallInv

(* mte_cli has exited with 0.                                              *)
LEMMA MteStep ==
  ASSUME WorkflowsInv, NEW c \in Client, runMTE(c)
  PROVE  WorkflowsInv'
<1>0. Shapes /\ FilesInv /\ CallInv(c)
    BY DEF WorkflowsInv
<1> DEFINE path == TempName(c, "out")
<1>1. PICK smf \in Outputs(Song(c)) : files' = With(path, smf)
    BY DEF runMTE, Outputs, Shortened
<1>2. /\ pc[c] = "mte" /\ Goto(c, AfterMTE(req[c]))
      /\ smfPath' = [smfPath EXCEPT ![c] = path]
      /\ cleanup' = [cleanup EXCEPT ![c] =
           IF req[c].kind \in {"W5", "W6"} THEN @ \cup {path} ELSE @]
      /\ UNCHANGED <<req, calls, index, results, base, lengths, versions, quiet, answers>>
    BY DEF runMTE, reading
<1>3. /\ OwnChange(c, files') /\ VersionsGrow /\ FilesInv' /\ Undisturbed(c, files')
      /\ OwnTemp(c)' = OwnTemp(c) \cup {path} /\ Removable(c)' = Removable(c)
      /\ path \in DOMAIN files' /\ files'[path] = smf
      /\ \A p \in DOMAIN files : p # path => files'[p] = files[p]
    BY <1>1, <1>2, TempWritten
<1>4. path \in TempPath /\ path \in Removable(c) /\ path' = path /\ Song(c)' = Song(c)
    BY <1>0, <1>2, TempNames DEF Removable, TempName, Song
<1>5. /\ req[c] \in Requests /\ req[c].kind \in {"W2", "W3", "W5", "W6", "W10"}
      /\ req[c].output \in UserFiles \cup {NoPath}
    BY <1>0 DEF Shapes
<1>6. /\ req[c].kind = "W6" => AfterMTE(req[c]) = "variation"
      /\ req[c].kind = "W5" => AfterMTE(req[c]) = "merge"
      /\ Copied(req[c]) => AfterMTE(req[c]) = (IF req[c].output # NoPath THEN "copy" ELSE "return")
      /\ Copied(req[c]) <=> req[c].kind \notin {"W5", "W6"}
    BY <1>5 DEF AfterMTE, Copied
<1>7. /\ Shapes' /\ pc'[c] = AfterMTE(req[c]) /\ smfPath'[c] = path
      /\ cleanup'[c] = (IF req[c].kind \in {"W5", "W6"} THEN cleanup[c] \cup {path} ELSE cleanup[c])
      /\ \A d \in Client : d # c => SameCall(d)
  <2>1. AfterMTE(req[c]) \in {"variation", "merge", "copy", "return"}
      BY <1>5, <1>6
  <2> HIDE DEF path
  <2> QED BY <1>0, <1>2, <1>4, <2>1 DEF Goto, Shapes, SameCall
<1>8. Stages(c)'
    BY <1>0, <1>2, <1>5, <1>6, <1>7 DEF CallInv, Stages, Merging
<1>9. Produced(c)'
    BY <1>0, <1>2, <1>3, <1>4, <1>5, <1>6, <1>7 DEF CallInv, Produced, Exists, Merging
<1>10. Tidy(c)'
  <2>1. OwnTemp(c) \subseteq DOMAIN files
      BY DEF OwnTemp
  <2>2. \A p \in OwnTemp(c) : p \in cleanup[c] \/ LeftBy(c, p)
      BY <1>0, <1>2 DEF CallInv, Tidy
  <2>3. cleanup[c] \subseteq Removable(c)
      BY <1>0 DEF CallInv, Tidy
  <2> HIDE DEF path
  <2>4. pc'[c] # "idle" /\ cleanup'[c] \subseteq Removable(c)
      BY <1>4, <1>5, <1>6, <1>7, <2>3
  <2>5. ASSUME NEW p \in OwnTemp(c)', p \notin cleanup'[c], ~LeftBy(c, p)'
        PROVE  pc'[c] \in {"copy", "write", "remove", "return"} /\ Copied(req'[c]) /\ p = smfPath'[c]
    <3>1. LeftBy(c, p) => LeftBy(c, p)'
        BY <1>2 DEF LeftBy
    <3> QED BY <1>2, <1>3, <1>5, <1>6, <1>7, <2>1, <2>2, <2>5, <3>1
  <2> QED BY <1>3, <2>4, <2>5 DEF Tidy
<1>11. BaseInv(c)'
  <2>1. base'[c] = <<>> /\ lengths'[c] = <<>>
      BY <1>0, <1>2 DEF CallInv, BaseInv, Merging
  <2>2. pc'[c] \notin {"length", "data"}
      BY <1>5, <1>6, <1>7
  <2> QED BY <2>1, <2>2 DEF BaseInv, FromVersions
<1>12. Variations(c)'
    BY <1>0, <1>2, <1>4, <1>6, <1>7 DEF CallInv, Variations
<1> QED BY <1>2, <1>3, <1>7, <1>8, <1>9, <1>10, <1>11, <1>12, InnerStep DEF CallInv

(* A variation fails; W6 goes on.                                          *)
LEMMA VariationFailsStep ==
  ASSUME WorkflowsInv, NEW c \in Client, pc[c] = "mte", req[c].kind = "W6",
         files' = files \/ \E x : files' = With(TempName(c, "out"), x),
         smfPath' = [smfPath EXCEPT ![c] = NoPath], Goto(c, "variation"),
         UNCHANGED <<req, calls, index, results, cleanup, base, lengths, versions, quiet, answers>>
  PROVE  WorkflowsInv'
<1>0. Shapes /\ FilesInv /\ CallInv(c)
    BY DEF WorkflowsInv
<1>1. /\ OwnChange(c, files') /\ VersionsGrow /\ FilesInv' /\ Removable(c)' = Removable(c)
      /\ Undisturbed(c, files') /\ OwnTemp(c)' \subseteq OwnTemp(c) \cup {TempName(c, "out")}
  <2>1. CASE files' = files
      BY <2>1, FilesStay
  <2>2. ASSUME NEW x, files' = With(TempName(c, "out"), x)
        PROVE  /\ OwnChange(c, files') /\ VersionsGrow /\ FilesInv' /\ Removable(c)' = Removable(c)
               /\ Undisturbed(c, files') /\ OwnTemp(c)' = OwnTemp(c) \cup {TempName(c, "out")}
      BY <2>2, TempWritten
  <2> QED BY <2>1, <2>2
<1>2. Shapes' /\ pc'[c] = "variation" /\ smfPath'[c] = NoPath
      /\ \A d \in Client : d # c => SameCall(d)
    BY <1>0 DEF Goto, Shapes, SameCall
<1>3. Stages(c)' /\ Produced(c)' /\ BaseInv(c)' /\ Variations(c)'
    BY <1>0, <1>2 DEF CallInv, Stages, Produced, BaseInv, Variations, Copied, Merging
<1>4. Tidy(c)'
  <2>1. TempName(c, "out")[1] = "out" /\ TempName(c, "out")[4] = index[c]
      BY <1>0, TempNames
  <2>2. \A p \in OwnTemp(c) : p \in cleanup[c] \/ LeftBy(c, p)
      BY <1>0 DEF CallInv, Tidy
  <2>3. \A p \in OwnTemp(c)' : p \in cleanup'[c] \/ LeftBy(c, p)'
      BY <1>1, <1>2, <2>1, <2>2 DEF LeftBy
  <2> QED BY <1>0, <1>1, <1>2, <2>3 DEF CallInv, Tidy
<1> QED BY <1>1, <1>2, <1>3, <1>4, InnerStep DEF CallInv

(* A seed is an int64, whatever the sum is.                                *)
LEMMA SeedIsInt ==
  ASSUME NEW r \in Requests, NEW i \in Nat
  PROVE  Seed(r, i) \in Int
<1>1. Step(r) \in Int /\ r.seed + i * Step(r) \in Int
    BY DEF Step
<1>2. SeedMod \div 2 \in Int
    OBVIOUS
<1> QED BY <1>1, <1>2 DEF Seed, Wrap

(* W6 notes the variation and goes on or returns.                          *)
LEMMA AddVariationStep ==
  ASSUME WorkflowsInv, NEW c \in Client, AddVariation(c)
  PROVE  WorkflowsInv'
<1>0. Shapes /\ FilesInv /\ CallInv(c)
    BY DEF WorkflowsInv
<1> DEFINE new == [seed |-> Seed(req[c], index[c]), path |-> smfPath[c]]
<1>1. /\ pc[c] = "variation" /\ results' = [results EXCEPT ![c] = Append(@, new)]
      /\ index' = [index EXCEPT ![c] = @ + 1]
      /\ Goto(c, IF index[c] + 1 < req[c].count THEN "mte" ELSE "return")
      /\ UNCHANGED <<req, calls, smfPath, cleanup, base, lengths, files, versions, quiet, answers>>
    BY DEF AddVariation, reading
<1>2. /\ OwnChange(c, files') /\ VersionsGrow /\ FilesInv' /\ Undisturbed(c, files')
      /\ OwnTemp(c)' = OwnTemp(c) /\ Removable(c)' = Removable(c)
    BY <1>1, FilesStay
<1>3. /\ req[c].kind = "W6" /\ req[c] \in Requests /\ req[c].count \in Int
      /\ req[c].seed \in Int /\ req[c].delta \in Int /\ index[c] \in Nat
      /\ results[c] \in Seq(Variation) /\ smfPath[c] \in UserFiles \cup TempPath \cup {NoPath}
    BY <1>0, <1>1 DEF CallInv, Stages, Shapes
<1>4. new \in Variation
  <2>1. Seed(req[c], index[c]) \in Int
      BY <1>3, SeedIsInt
  <2> QED BY <1>3, <2>1 DEF Variation
<1>5. /\ Shapes' /\ (\A d \in Client : d # c => SameCall(d))
      /\ pc'[c] = (IF index[c] + 1 < req[c].count THEN "mte" ELSE "return")
      /\ index'[c] = index[c] + 1 /\ results'[c] = Append(results[c], new)
  <2> HIDE DEF new
  <2> QED BY <1>0, <1>1, <1>3, <1>4, SMTT(40) DEF Goto, Shapes, SameCall
<1>6. Stages(c)' /\ Produced(c)' /\ BaseInv(c)'
    BY <1>0, <1>1, <1>3, <1>5 DEF CallInv, Stages, Produced, BaseInv, Copied, Merging
<1>7. Tidy(c)'
  <2>1. \A p \in OwnTemp(c) : p \in cleanup[c] \/ LeftBy(c, p)
      BY <1>0, <1>1 DEF CallInv, Tidy
  <2>2. /\ Len(results[c]) = index[c] /\ new.path = smfPath[c]
      BY <1>0, <1>1, <1>3 DEF CallInv, Variations
  <2> HIDE DEF new
  <2>3. /\ Len(results'[c]) = index[c] + 1 /\ results'[c][index[c] + 1] = new
        /\ \A i \in 1..Len(results[c]) : results'[c][i] = results[c][i]
      BY <1>3, <1>4, <1>5, <2>2
  <2>4. ASSUME NEW p \in OwnTemp(c), LeftBy(c, p) PROVE LeftBy(c, p)'
    <3>1. CASE p[4] + 1 \in 1..Len(results[c]) /\ results[c][p[4] + 1].path = NoPath
        BY <1>1, <1>3, <2>2, <2>3, <2>4, <3>1 DEF LeftBy
    <3>2. CASE p[4] = index[c] /\ smfPath[c] = NoPath
        BY <1>1, <1>3, <2>2, <2>3, <2>4, <3>2 DEF LeftBy
    <3> QED BY <2>4, <3>1, <3>2 DEF LeftBy
  <2> QED BY <1>0, <1>1, <1>2, <1>5, <2>1, <2>4 DEF CallInv, Tidy
<1>8. Variations(c)'
  <2>1. /\ Len(results[c]) = index[c] /\ index[c] < req[c].count
        /\ smfPath[c] \in {NoPath, TempName(c, "out")} /\ smfPath[c] \in {NoPath} \cup cleanup[c]
        /\ \A i \in 1..Len(results[c]) :
             /\ results[c][i].seed = Seed(req[c], i - 1)
             /\ results[c][i].path # NoPath =>
                  results[c][i].path[4] = i - 1 /\ results[c][i].path \in cleanup[c]
      BY <1>0, <1>1, <1>3 DEF CallInv, Variations
  <2>2. new.seed = Seed(req[c], index[c])
        /\ (new.path # NoPath => new.path[4] = index[c] /\ new.path \in cleanup[c])
      BY <1>0, <2>1, TempNames
  <2> HIDE DEF new
  <2>3. /\ Len(results'[c]) = index[c] + 1 /\ results'[c][index[c] + 1] = new
        /\ \A i \in 1..Len(results[c]) : results'[c][i] = results[c][i]
      BY <1>3, <1>4, <1>5, <2>1
  <2>4. ASSUME NEW i \in 1..(index[c] + 1)
        PROVE  /\ results'[c][i].seed = Seed(req[c], i - 1)
               /\ results'[c][i].path # NoPath =>
                    results'[c][i].path[4] = i - 1 /\ results'[c][i].path \in cleanup[c]
    <3>1. CASE i = index[c] + 1
      <4>1. i - 1 = index[c]
          BY <1>3, <3>1
      <4> QED BY <2>2, <2>3, <3>1, <4>1
    <3>2. CASE i \in 1..Len(results[c])
        BY <2>1, <2>3, <3>2
    <3> QED BY <1>3, <2>1, <3>1, <3>2
  <2>5. IF pc'[c] = "return" THEN index'[c] = req[c].count ELSE index'[c] < req[c].count
      BY <1>3, <1>5, <2>1
  <2>6. pc'[c] # "variation" /\ req' = req /\ cleanup' = cleanup
      BY <1>1, <1>5
  <2> QED BY <1>5, <2>3, <2>4, <2>5, <2>6 DEF Variations
<1> QED BY <1>1, <1>2, <1>5, <1>6, <1>7, <1>8, InnerStep DEF CallInv

-----------------------------------------------------------------------------
(* A file of mte_cli is empty, or a header and at most one track.          *)
LEMMA OutputShape ==
  ASSUME NEW song \in Songs, NEW x \in Outputs(song)
  PROVE  /\ WellFormed(x) /\ Len(x) \in 0..2
         /\ x # <<>> => x[1] = Header(song, 1) /\ x[1].tracks = 1
         /\ Len(x) = 2 => x[2] \in {Track(song, 1), Cut}
<1>1. Header(song, 1) \in Headers /\ Header(song, 1).tracks = 1
    BY DEF Header, Headers
<1>2. Track(song, 1) \in Chunks /\ Header(song, 1) \in Chunks /\ Cut \in Chunks
    BY <1>1 DEF Track, Chunks
<1> DEFINE t == [i \in 1..1 |-> Track(song, i)]
<1>3. t \in Seq(Chunks) /\ Len(t) = 1 /\ t[1] = Track(song, 1)
  <2>1. \A i \in 1..1 : i = 1
      OBVIOUS
  <2> QED BY <1>2, <2>1
<1> DEFINE h == <<Header(song, 1)>>
<1>4. h \in Seq(Chunks) /\ Len(h) = 1 /\ h[1] = Header(song, 1)
    BY <1>2
<1>5. Smf(song, 1) = h \o t
    BY DEF Smf
<1> HIDE DEF t, h
<1>6. CASE x = Smf(song, 1)
  <2>0. /\ h \o t \in Seq(Chunks) /\ Len(h \o t) = Len(h) + Len(t)
        /\ \A i \in 1..Len(h) : (h \o t)[i] = h[i]
        /\ \A i \in 1..Len(t) : (h \o t)[Len(h) + i] = t[i]
      BY ONLY <1>3, <1>4, Concatenation
  <2>1. h \o t \in Seq(Chunks) /\ Len(h \o t) = 2
      BY <1>3, <1>4, <2>0
  <2>2. (h \o t)[1] = Header(song, 1) /\ (h \o t)[2] = Track(song, 1)
      BY ONLY <1>3, <1>4, <2>0
  <2>3. x \in Seq(Chunks) /\ Len(x) = 2 /\ x[1] = Header(song, 1) /\ x[2] = Track(song, 1)
      BY <1>5, <1>6, <2>1, <2>2
  <2> QED BY <1>1, <2>3 DEF WellFormed
<1>7. CASE x = <<Header(song, 1), Cut>>
    BY <1>1, <1>2, <1>7 DEF WellFormed
<1>8. CASE x = <<Header(song, 1)>>
    BY <1>1, <1>2, <1>8 DEF WellFormed
<1>9. CASE x = <<>>
    BY <1>9 DEF WellFormed
<1> QED BY <1>6, <1>7, <1>8, <1>9 DEF Outputs, Partial

(* The song of a call.                                                     *)
LEMMA SongOfCall ==
  ASSUME Shapes, NEW c \in Client
  PROVE  Song(c) \in Songs
<1>1. calls[c] \in Nat /\ index[c] \in Nat
    BY DEF Shapes
<1> QED BY <1>1 DEF Song, Songs

(* What readSMF finds at its position: the next chunk of the file, if the  *)
(* position is right, or that or Torn.                                     *)
LEMMA ChunkRead ==
  ASSUME WorkflowsInv, NEW c \in Client, pc[c] \in Merging, NEW chunk \in ChunksAt(c)
  PROVE  LET u == req[c].smf
             f == files[u]
             k == Len(base[c]) + 1
         IN /\ u \in UserFiles /\ f # <<>> /\ f \in versions[u] /\ WellFormed(f)
            /\ base[c] \in Seq(Chunks) /\ Len(base[c]) \in Nat /\ chunk \in Chunks
            /\ chunk = Torn \/ (k \in DOMAIN f /\ chunk = f[k])
            /\ Aligned(c, f) => k \in DOMAIN f /\ chunk = f[k]
<1>0. Shapes /\ FilesInv /\ CallInv(c)
    BY DEF WorkflowsInv
<1> DEFINE u == req[c].smf
           f == files[u]
           k == Len(base[c]) + 1
<1>1. u \in UserFiles /\ base[c] \in Seq(Chunks) /\ Len(base[c]) \in Nat
    BY <1>0 DEF CallInv, Stages, Shapes, Merging
<1>2. f # <<>> /\ chunk \in {f[i] : i \in DOMAIN f \cap {k}} \cup (IF Aligned(c, f) THEN {} ELSE {Torn})
    BY DEF ChunksAt
<1>3. f \in versions[u] /\ WellFormed(f)
    BY <1>0, <1>1, <1>2 DEF FilesInv
<1> HIDE DEF f, k
<1>4. /\ chunk = Torn \/ (k \in DOMAIN f /\ chunk = f[k])
      /\ Aligned(c, f) => k \in DOMAIN f /\ chunk = f[k]
    BY <1>2
<1>5. chunk \in Chunks
  <2>1. f \in Seq(Chunks) /\ Torn \in Chunks
      BY <1>3 DEF WellFormed, Chunks
  <2> QED BY <1>4, <2>1
<1> QED BY <1>1, <1>2, <1>3, <1>4, <1>5 DEF f, k

(* A step of readSMF within one call.                                      *)
LEMMA ReadStep ==
  ASSUME WorkflowsInv, NEW c \in Client, pc[c] \in Merging, NEW l \in Merging, Goto(c, l),
         UNCHANGED <<req, calls, index, results, smfPath, cleanup, files, versions, answers>>,
         NEW b \in Seq(Chunks), base' = [base EXCEPT ![c] = b],
         NEW n \in Seq(Chunks), lengths' = [lengths EXCEPT ![c] = n],
         NEW q \in BOOLEAN, quiet' = [quiet EXCEPT ![c] = q],
         BaseInv(c)'
  PROVE  WorkflowsInv'
<1>0. Shapes /\ FilesInv /\ CallInv(c)
    BY DEF WorkflowsInv
<1>1. \A d \in Client : d # c => quiet'[d] = quiet[d]
    BY <1>0 DEF Shapes
<1>2. /\ OwnChange(c, files') /\ VersionsGrow /\ FilesInv' /\ Undisturbed(c, files')
      /\ OwnTemp(c)' = OwnTemp(c) /\ Removable(c)' = Removable(c)
    BY <1>1, FilesStay
<1>3. /\ Shapes' /\ pc'[c] = l
      /\ \A d \in Client : d # c => SameCall(d)
    BY <1>0 DEF Shapes, SameCall, Goto, Merging
<1>4. Stages(c)' /\ Variations(c)'
    BY <1>0, <1>3 DEF CallInv, Stages, Variations, TempName, Merging
<1>5. Produced(c)'
    BY <1>0, <1>3 DEF CallInv, Produced, TempName, Song, Exists, Merging
<1>6. Tidy(c)'
    BY <1>0, <1>2, <1>3 DEF CallInv, Tidy, LeftBy, Merging
<1> QED BY <1>2, <1>3, <1>4, <1>5, <1>6, InnerStep DEF CallInv

LEMMA ReadHeaderStep ==
  ASSUME WorkflowsInv, NEW c \in Client, readHeader(c)
  PROVE  WorkflowsInv'
<1>0. Shapes /\ FilesInv /\ CallInv(c) /\ pc[c] = "merge" /\ pc[c] \in Merging
    BY DEF WorkflowsInv, readHeader, Merging
<1>1. PICK chunk \in ChunksAt(c) :
        base' = [base EXCEPT ![c] = <<chunk>>] /\ lengths' = [lengths EXCEPT ![c] = <<chunk>>]
    BY DEF readHeader
<1>2. /\ base[c] = <<>> /\ quiet' = [quiet EXCEPT ![c] = TRUE]
      /\ UNCHANGED <<pc, req, calls, index, results, smfPath, cleanup, files, versions, answers>>
    BY DEF readHeader
<1> DEFINE u == req[c].smf
           f == files[u]
<1>3. /\ u \in UserFiles /\ f # <<>> /\ f \in versions[u] /\ WellFormed(f)
      /\ Aligned(c, f) => Len(base[c]) + 1 \in DOMAIN f /\ chunk = f[Len(base[c]) + 1]
    BY <1>0, <1>1, ChunkRead
<1>4. Len(lengths[c]) = 0 /\ Len(base[c]) = 0
    BY <1>0, <1>2 DEF CallInv, BaseInv
<1>5. chunk = f[1] /\ f[1] \in Headers
  <2>1. Aligned(c, f)
      BY <1>4 DEF Aligned
  <2> QED BY <1>3, <1>4, <2>1 DEF WellFormed
<1>6. chunk \in Chunks
    BY <1>5 DEF Chunks
<1> DEFINE b == <<chunk>>
<1>7. b \in Seq(Chunks) /\ Len(b) = 1 /\ b[1] = chunk /\ b # <<>>
    BY <1>6
<1>8. base'[c] = b /\ lengths'[c] = b
    BY <1>0, <1>1 DEF Shapes
<1>9. base' = [base EXCEPT ![c] = b] /\ lengths' = [lengths EXCEPT ![c] = b]
    BY <1>1
<1> HIDE DEF b, f
<1>10. BaseInv(c)'
  <2>1. FromVersions(b, u)
    <3>1. 2..Len(b) = {}
        BY <1>7
    <3> QED BY <1>3, <1>5, <1>7, <3>1 DEF FromVersions
  <2>2. FromVersions(base[c], req[c].smf)'
      BY <1>2, <1>8, <2>1 DEF FromVersions, readChunk
  <2>3. FromFile(base[c], files[req[c].smf])' /\ Aligned(c, files[req[c].smf])'
    <3>1. FromFile(b, f)
        BY <1>3, <1>5, <1>7 DEF FromFile
    <3>2. files'[req'[c].smf] = f
        BY <1>2 DEF f
    <3>3. FromFile(base[c], files[req[c].smf])'
        BY <1>8, <3>1, <3>2 DEF FromFile, readChunk
    <3>4. Len(lengths'[c]) = 1 /\ 2..1 = {}
        BY <1>7, <1>8
    <3> QED BY <3>3, <3>4 DEF Aligned
  <2> QED BY <1>0, <1>2, <1>7, <1>8, <2>2, <2>3 DEF BaseInv, Merging
<1>11. Goto(c, "merge")
    BY <1>0, <1>2 DEF Goto, Shapes
<1> QED BY <1>0, <1>2, <1>7, <1>9, <1>10, <1>11, ReadStep

LEMMA ReadMagicStep ==
  ASSUME WorkflowsInv, NEW c \in Client, readMagic(c)
  PROVE  WorkflowsInv'
<1>0. Shapes /\ FilesInv /\ CallInv(c) /\ pc[c] = "merge" /\ pc[c] \in Merging
    BY DEF WorkflowsInv, readMagic, Merging
<1>1. /\ Goto(c, "length") /\ base[c] # <<>>
      /\ UNCHANGED <<req, calls, index, results, smfPath, cleanup, base, lengths, files,
                     versions, quiet, answers>>
    BY DEF readMagic, reading
<1>2. /\ base' = [base EXCEPT ![c] = base[c]] /\ base[c] \in Seq(Chunks)
      /\ lengths' = [lengths EXCEPT ![c] = lengths[c]] /\ lengths[c] \in Seq(Chunks)
      /\ quiet' = [quiet EXCEPT ![c] = quiet[c]] /\ quiet[c] \in BOOLEAN
      /\ pc'[c] = "length" /\ "length" \in Merging
    BY <1>0, <1>1 DEF Shapes, Goto, Merging
<1>3. BaseInv(c)'
  <2>1. BaseInv(c)
      BY <1>0 DEF CallInv
  <2>2. FromVersions(base[c], req[c].smf)'
      BY <1>0, <1>1, <2>1 DEF BaseInv, FromVersions, readChunk
  <2>3. quiet'[c] => FromFile(base[c], files[req[c].smf])' /\ Aligned(c, files[req[c].smf])'
      BY <1>1, <2>1 DEF BaseInv, FromFile, Aligned, readChunk
  <2> QED BY <1>0, <1>1, <1>2, <2>1, <2>2, <2>3 DEF BaseInv
<1> QED BY <1>0, <1>1, <1>2, <1>3, ReadStep

LEMMA ReadLengthStep ==
  ASSUME WorkflowsInv, NEW c \in Client, readLength(c)
  PROVE  WorkflowsInv'
<1>0. Shapes /\ FilesInv /\ CallInv(c) /\ pc[c] = "length" /\ pc[c] \in Merging
    BY DEF WorkflowsInv, readLength, Merging
<1>1. PICK chunk \in ChunksAt(c) : lengths' = [lengths EXCEPT ![c] = Append(@, chunk)]
    BY DEF readLength
<1>2. /\ Goto(c, "data")
      /\ UNCHANGED <<req, calls, index, results, smfPath, cleanup, base, files,
                     versions, quiet, answers>>
    BY DEF readLength
<1> DEFINE f == files[req[c].smf]
           k == Len(base[c]) + 1
           n == Append(lengths[c], chunk)
<1>3. /\ Len(base[c]) \in Nat /\ chunk \in Chunks /\ base[c] \in Seq(Chunks)
      /\ Aligned(c, f) => k \in DOMAIN f /\ chunk = f[k]
    BY <1>0, <1>1, ChunkRead
<1>4. BaseInv(c) /\ base[c] # <<>> /\ Len(lengths[c]) = Len(base[c])
    BY <1>0 DEF CallInv, BaseInv
<1>5. lengths[c] \in Seq(Chunks)
    BY <1>0 DEF Shapes
<1>6. /\ n \in Seq(Chunks) /\ Len(n) = k /\ n[k] = chunk
      /\ \A i \in 1..Len(lengths[c]) : n[i] = lengths[c][i]
    BY <1>3, <1>4, <1>5
<1>7. /\ base' = [base EXCEPT ![c] = base[c]] /\ lengths' = [lengths EXCEPT ![c] = n]
      /\ quiet' = [quiet EXCEPT ![c] = quiet[c]] /\ quiet[c] \in BOOLEAN
      /\ pc'[c] = "data" /\ "data" \in Merging /\ lengths'[c] = n
    BY <1>0, <1>1, <1>2 DEF Shapes, Goto, Merging
<1> HIDE DEF n
<1>8. BaseInv(c)'
  <2>2. FromVersions(base[c], req[c].smf)'
      BY <1>0, <1>2, <1>4 DEF BaseInv, FromVersions, readChunk
  <2>3. quiet'[c] => FromFile(base[c], files[req[c].smf])'
      BY <1>2, <1>4 DEF BaseInv, FromFile, readChunk
  <2>4. ASSUME quiet'[c] PROVE Aligned(c, files[req[c].smf])'
    <3>1. Aligned(c, f)
        BY <1>2, <1>4, <2>4 DEF BaseInv
    <3>2. ASSUME NEW i \in 2..Len(n) PROVE i \in DOMAIN f /\ n[i] = f[i]
      <4>1. CASE i = k
          BY <1>3, <1>6, <3>1, <4>1
      <4>2. CASE i \in 2..Len(lengths[c])
        <5>1. i \in DOMAIN f /\ lengths[c][i] = f[i]
            BY <3>1, <4>2 DEF Aligned
        <5>2. n[i] = lengths[c][i]
            BY <1>3, <1>4, <1>6, <4>2
        <5> QED BY <5>1, <5>2
      <4> QED BY <1>3, <1>4, <1>6, <4>1, <4>2
    <3>3. files'[req'[c].smf] = f
        BY <1>2
    <3> HIDE DEF f
    <3> QED BY <1>7, <3>2, <3>3 DEF Aligned
  <2> QED BY <1>0, <1>2, <1>4, <1>6, <1>7, <2>2, <2>3, <2>4 DEF BaseInv, Merging
<1> QED BY <1>0, <1>2, <1>3, <1>6, <1>7, <1>8, ReadStep

LEMMA ReadDataStep ==
  ASSUME WorkflowsInv, NEW c \in Client, readData(c)
  PROVE  WorkflowsInv'
<1>0. Shapes /\ FilesInv /\ CallInv(c) /\ pc[c] = "data" /\ pc[c] \in Merging
    BY DEF WorkflowsInv, readData, Merging
<1>1. PICK chunk \in ChunksAt(c) : base' = [base EXCEPT ![c] = Append(@, readChunk(chunk))]
    BY DEF readData
<1>2. /\ Goto(c, "merge")
      /\ UNCHANGED <<req, calls, index, results, smfPath, cleanup, lengths, files,
                     versions, quiet, answers>>
    BY DEF readData
<1> DEFINE u == req[c].smf
           f == files[u]
           k == Len(base[c]) + 1
           r == readChunk(chunk)
           new == Append(base[c], r)
<1>3. /\ f \in versions[u] /\ Len(base[c]) \in Nat /\ chunk \in Chunks /\ base[c] \in Seq(Chunks)
      /\ chunk = Torn \/ (k \in DOMAIN f /\ chunk = f[k])
      /\ Aligned(c, f) => k \in DOMAIN f /\ chunk = f[k]
    BY <1>0, <1>1, ChunkRead
<1>4. BaseInv(c) /\ base[c] # <<>> /\ Len(lengths[c]) = k /\ FromVersions(base[c], u)
    BY <1>0 DEF CallInv, BaseInv, Merging
<1>5. r \in Chunks /\ (chunk = Torn => r = Torn)
    BY <1>3 DEF readChunk, Chunks
<1> HIDE DEF r
<1>6. /\ new \in Seq(Chunks) /\ Len(new) = k /\ new[k] = r /\ new # <<>> /\ new[1] = base[c][1]
      /\ \A i \in 1..Len(base[c]) : new[i] = base[c][i]
  <2>1. /\ new \in Seq(Chunks) /\ Len(new) = k /\ new[k] = r /\ new # <<>>
        /\ \A i \in 1..Len(base[c]) : new[i] = base[c][i]
      BY <1>3, <1>5
  <2>2. 1 \in 1..Len(base[c])
      BY <1>3, <1>4
  <2> QED BY <2>1, <2>2
<1>7. /\ base' = [base EXCEPT ![c] = new] /\ lengths' = [lengths EXCEPT ![c] = lengths[c]]
      /\ quiet' = [quiet EXCEPT ![c] = quiet[c]] /\ quiet[c] \in BOOLEAN
      /\ pc'[c] = "merge" /\ "merge" \in Merging /\ base'[c] = new
      /\ lengths[c] \in Seq(Chunks)
    BY <1>0, <1>1, <1>2 DEF Shapes, Goto, Merging, r
<1> HIDE DEF new
<1>8. BaseInv(c)'
  <2>1. FromVersions(new, u)
    <3>1. new[1] \in Headers /\ \E v \in versions[u] : v[1] = new[1]
        BY <1>4, <1>6 DEF FromVersions
    <3>2. ASSUME NEW i \in 2..Len(new)
          PROVE  new[i] = Torn \/ \E v \in versions[u] : i \in DOMAIN v /\ readChunk(v[i]) = new[i]
      <4>1. CASE i = k
          BY <1>3, <1>5, <1>6, <4>1 DEF r
      <4>2. CASE i \in 2..Len(base[c])
        <5>1. new[i] = base[c][i]
            BY <1>3, <1>6, <4>2
        <5> QED BY <1>4, <4>2, <5>1 DEF FromVersions
      <4> QED BY <1>3, <1>6, <4>1, <4>2
    <3> QED BY <1>6, <3>1, <3>2 DEF FromVersions
  <2>2. FromVersions(base[c], req[c].smf)'
      BY <1>2, <1>7, <2>1 DEF FromVersions, readChunk
  <2>3. ASSUME quiet'[c]
        PROVE  FromFile(base[c], files[req[c].smf])' /\ Aligned(c, files[req[c].smf])'
    <3>1. Aligned(c, f) /\ FromFile(base[c], f)
        BY <1>2, <1>4, <2>3 DEF BaseInv
    <3>2. ASSUME NEW i \in 2..Len(new) PROVE i \in DOMAIN f /\ new[i] = readChunk(f[i])
      <4>1. CASE i = k
          BY <1>3, <1>6, <3>1, <4>1 DEF r
      <4>2. CASE i \in 2..Len(base[c])
        <5>1. i \in DOMAIN f /\ base[c][i] = readChunk(f[i])
            BY <3>1, <4>2 DEF FromFile
        <5>2. new[i] = base[c][i]
            BY <1>3, <1>6, <4>2
        <5> QED BY <5>1, <5>2
      <4> QED BY <1>3, <1>6, <4>1, <4>2
    <3>3. FromFile(new, f)
        BY <1>6, <3>1, <3>2 DEF FromFile
    <3>4. files'[req'[c].smf] = f /\ lengths' = lengths
        BY <1>2
    <3> HIDE DEF f
    <3> QED BY <1>7, <3>1, <3>3, <3>4 DEF Aligned, FromFile, readChunk
  <2> QED BY <1>0, <1>2, <1>4, <1>6, <1>7, <2>2, <2>3 DEF BaseInv, Merging
<1> QED BY <1>0, <1>2, <1>6, <1>7, <1>8, ReadStep

-----------------------------------------------------------------------------
(* Writing a file of the user leaves the temporary files alone.            *)
LEMMA UserWritten ==
  ASSUME WorkflowsInv, NEW c \in Client, NEW u \in UserFiles, NEW x
  PROVE  /\ OwnChange(c, With(u, x)) /\ DOMAIN With(u, x) = DOMAIN files
         /\ With(u, x)[u] = x /\ \A p \in DOMAIN files : p # u => With(u, x)[p] = files[p]
<1>1. FilesInv
    BY DEF WorkflowsInv
<1>2. u \in DOMAIN files /\ DOMAIN files \cup {u} = DOMAIN files
  <2>1. u \in DOMAIN files
      BY <1>1 DEF FilesInv
  <2> QED BY <2>1
<1> DEFINE now == With(u, x)
<1>3. now = [p \in DOMAIN files |-> IF p = u THEN x ELSE files[p]]
    BY <1>2 DEF With
<1> HIDE DEF now
<1>4. /\ DOMAIN now = DOMAIN files /\ now[u] = x
      /\ \A p \in DOMAIN files : p # u => now[p] = files[p]
      /\ now = [p \in DOMAIN now |-> now[p]]
    BY <1>2, <1>3
<1>5. OwnChange(c, now)
    BY <1>4 DEF OwnChange
<1> QED BY <1>4, <1>5 DEF now

(* A step that changes only a file of the user keeps the call's files.     *)
LEMMA OwnFilesStay ==
  ASSUME WorkflowsInv, NEW c \in Client, NEW u \in UserFiles, NEW x,
         files' = With(u, x), UNCHANGED <<calls, index>>
  PROVE  /\ OwnTemp(c)' = OwnTemp(c) /\ Removable(c)' = Removable(c)
         /\ TempName(c, "out")' = TempName(c, "out") /\ Song(c)' = Song(c)
         /\ DOMAIN files' = DOMAIN files
         /\ \A p \in OwnTemp(c) \cup {TempName(c, "out")} :
              p \in DOMAIN files => files'[p] = files[p]
<1>1. /\ DOMAIN files' = DOMAIN files
      /\ \A p \in DOMAIN files : p # u => files'[p] = files[p]
    BY UserWritten
<1>2. OwnTemp(c)' = OwnTemp(c) /\ u \notin OwnTemp(c) /\ Removable(c)' = Removable(c)
    BY <1>1 DEF OwnTemp, Removable, Mine
<1>3. TempName(c, "out") # u
    BY TempNames DEF WorkflowsInv
<1>4. TempName(c, "out")' = TempName(c, "out") /\ Song(c)' = Song(c)
    BY DEF TempName, Song
<1> QED BY <1>1, <1>2, <1>3, <1>4

(* What a write of a file of the user does to the histories.               *)
LEMMA VersionAdded ==
  ASSUME WorkflowsInv, NEW c \in Client, NEW u \in UserFiles, NEW x \in Outputs(Song(c)),
         Written(u, x), NEW now, \A p \in DOMAIN files : p # u => now[p] = files[p]
  PROVE  /\ VersionsGrow /\ versions' = [w \in UserFiles |-> versions'[w]]
         /\ (x = <<>> \/ x \in versions'[u])
         /\ \A w \in UserFiles : \A v \in versions'[w] :
              v \in versions[w] \/ (v # <<>> /\ WellFormed(v))
         /\ quiet' \in [Client -> BOOLEAN] /\ Undisturbed(c, now)
<1>1. WellFormed(x)
    BY OutputShape, SongOfCall DEF WorkflowsInv
<1>2. versions = [w \in UserFiles |-> versions[w]]
    BY DEF WorkflowsInv, FilesInv
<1>3. versions' = [w \in UserFiles |->
        IF w = u /\ x # <<>> THEN versions[w] \cup {x} ELSE versions[w]]
    BY <1>2 DEF Written
<1>4. quiet' = [d \in Client |-> quiet[d] /\ req[d].smf # u]
    BY DEF Written
<1>5. quiet' \in [Client -> BOOLEAN]
    BY <1>4, Zenon
<1>6. Undisturbed(c, now)
    BY <1>4 DEF Undisturbed, WorkflowsInv, FilesInv
<1> QED BY <1>1, <1>3, <1>5, <1>6 DEF VersionsGrow

(* os.WriteFile truncates the output file.                                 *)
LEMMA TruncateStep ==
  ASSUME WorkflowsInv, NEW c \in Client, CopyTruncate(c)
  PROVE  WorkflowsInv'
<1>0. Shapes /\ FilesInv /\ CallInv(c)
    BY DEF WorkflowsInv
<1> DEFINE u == req[c].output
<1>1. /\ pc[c] = "copy" /\ files' = With(u, <<>>) /\ Goto(c, "write") /\ Written(u, <<>>)
      /\ UNCHANGED <<req, calls, index, results, smfPath, cleanup, base, lengths, answers>>
    BY DEF CopyTruncate, reading
<1>2. u \in UserFiles /\ Copied(req[c])
    BY <1>0, <1>1 DEF CallInv, Stages
<1> HIDE DEF u
<1>3. /\ OwnChange(c, files') /\ DOMAIN files' = DOMAIN files /\ files'[u] = <<>>
      /\ \A p \in DOMAIN files : p # u => files'[p] = files[p]
    BY <1>1, <1>2, UserWritten
<1>4. /\ OwnTemp(c)' = OwnTemp(c) /\ Removable(c)' = Removable(c)
      /\ TempName(c, "out")' = TempName(c, "out") /\ Song(c)' = Song(c)
      /\ \A p \in OwnTemp(c) \cup {TempName(c, "out")} : p \in DOMAIN files => files'[p] = files[p]
    BY <1>1, <1>2, OwnFilesStay
<1>5. /\ VersionsGrow /\ versions' = [w \in UserFiles |-> versions'[w]]
      /\ \A w \in UserFiles : \A v \in versions'[w] :
           v \in versions[w] \/ (v # <<>> /\ WellFormed(v))
      /\ quiet' \in [Client -> BOOLEAN] /\ Undisturbed(c, files')
  <2>1. <<>> \in Outputs(Song(c))
      BY DEF Outputs, Partial
  <2> QED BY <1>1, <1>2, <1>3, <2>1, VersionAdded
<1>6. FilesInv'
  <2>1. calls' \in [Client -> Nat] /\ \A d \in Client : calls[d] <= calls'[d]
      BY <1>0, <1>1 DEF Shapes
  <2>2. \A w \in UserFiles : files'[w] = <<>> \/ files'[w] \in versions'[w]
      BY <1>0, <1>3, <1>5 DEF FilesInv, VersionsGrow
  <2> QED BY <1>3, <1>5, <2>1, <2>2, FilesKept
<1>7. Shapes' /\ pc'[c] = "write" /\ \A d \in Client : d # c => SameCall(d)
    BY <1>0, <1>1, <1>5 DEF Goto, Shapes, SameCall
<1>8. Stages(c)' /\ BaseInv(c)' /\ Variations(c)'
    BY <1>0, <1>1, <1>2, <1>7 DEF CallInv, Stages, BaseInv, Variations, Copied, Merging
<1>9. Produced(c)'
    BY <1>0, <1>1, <1>3, <1>4, <1>7 DEF CallInv, Produced, Exists, Merging
<1>10. Tidy(c)'
  <2>1. \A p \in OwnTemp(c) : p \in DOMAIN files
      BY DEF OwnTemp
  <2> QED BY <1>0, <1>1, <1>4, <1>7, <2>1 DEF CallInv, Tidy, LeftBy
<1> QED BY <1>1, <1>3, <1>5, <1>6, <1>7, <1>8, <1>9, <1>10, InnerStep DEF CallInv

(* os.WriteFile writes the result.                                         *)
LEMMA WriteStep ==
  ASSUME WorkflowsInv, NEW c \in Client, CopyWrite(c)
  PROVE  WorkflowsInv'
<1>0. Shapes /\ FilesInv /\ CallInv(c)
    BY DEF WorkflowsInv
<1> DEFINE u == req[c].output
           x == files[smfPath[c]]
<1>1. /\ pc[c] = "write" /\ files' = With(u, x) /\ Goto(c, "remove") /\ Written(u, x)
      /\ UNCHANGED <<req, calls, index, results, smfPath, cleanup, base, lengths, answers>>
    BY DEF CopyWrite, reading
<1>2. u \in UserFiles /\ Copied(req[c]) /\ x \in Outputs(Song(c))
    BY <1>0, <1>1 DEF CallInv, Stages, Produced, Merging
<1> HIDE DEF u, x
<1>3. /\ OwnChange(c, files') /\ DOMAIN files' = DOMAIN files /\ files'[u] = x
      /\ \A p \in DOMAIN files : p # u => files'[p] = files[p]
    BY <1>1, <1>2, UserWritten
<1>4. /\ OwnTemp(c)' = OwnTemp(c) /\ Removable(c)' = Removable(c)
      /\ TempName(c, "out")' = TempName(c, "out") /\ Song(c)' = Song(c)
      /\ \A p \in OwnTemp(c) \cup {TempName(c, "out")} : p \in DOMAIN files => files'[p] = files[p]
    BY <1>1, <1>2, OwnFilesStay
<1>5. /\ VersionsGrow /\ versions' = [w \in UserFiles |-> versions'[w]]
      /\ (x = <<>> \/ x \in versions'[u])
      /\ \A w \in UserFiles : \A v \in versions'[w] :
           v \in versions[w] \/ (v # <<>> /\ WellFormed(v))
      /\ quiet' \in [Client -> BOOLEAN] /\ Undisturbed(c, files')
    BY <1>1, <1>2, <1>3, VersionAdded
<1>6. FilesInv'
  <2>1. calls' \in [Client -> Nat] /\ \A d \in Client : calls[d] <= calls'[d]
      BY <1>0, <1>1 DEF Shapes
  <2>2. \A w \in UserFiles : files'[w] = <<>> \/ files'[w] \in versions'[w]
      BY <1>0, <1>3, <1>5 DEF FilesInv, VersionsGrow
  <2> QED BY <1>3, <1>5, <2>1, <2>2, FilesKept
<1>7. Shapes' /\ pc'[c] = "remove" /\ \A d \in Client : d # c => SameCall(d)
    BY <1>0, <1>1, <1>5 DEF Goto, Shapes, SameCall
<1>8. Stages(c)' /\ BaseInv(c)' /\ Variations(c)'
    BY <1>0, <1>1, <1>2, <1>7 DEF CallInv, Stages, BaseInv, Variations, Copied, Merging
<1>9. Produced(c)'
    BY <1>0, <1>1, <1>3, <1>4, <1>7 DEF CallInv, Produced, Exists, Merging
<1>10. Tidy(c)'
  <2>1. \A p \in OwnTemp(c) : p \in DOMAIN files
      BY DEF OwnTemp
  <2> QED BY <1>0, <1>1, <1>4, <1>7, <2>1 DEF CallInv, Tidy, LeftBy
<1> QED BY <1>1, <1>3, <1>5, <1>6, <1>7, <1>8, <1>9, <1>10, InnerStep DEF CallInv

(* The temporary file is removed after it has been copied.                 *)
LEMMA RemoveStep ==
  ASSUME WorkflowsInv, NEW c \in Client, RemoveTemp(c)
  PROVE  WorkflowsInv'
<1>0. Shapes /\ FilesInv /\ CallInv(c)
    BY DEF WorkflowsInv
<1> DEFINE path == TempName(c, "out")
           u == req[c].output
<1>1. /\ pc[c] = "remove" /\ files' = Without({smfPath[c]}) /\ Goto(c, "return")
      /\ smfPath' = [smfPath EXCEPT ![c] = u]
      /\ UNCHANGED <<req, calls, index, results, cleanup, base, lengths, versions, quiet, answers>>
    BY DEF RemoveTemp, reading
<1>2. u \in UserFiles /\ Copied(req[c]) /\ smfPath[c] = path
    BY <1>0, <1>1 DEF CallInv, Stages, Produced
<1>3. path \in Mine(c) /\ path \notin UserFiles /\ path' = path
    BY <1>0, <1>1, TempNames DEF TempName
<1> HIDE DEF path, u
<1>4. /\ OwnChange(c, files') /\ DOMAIN files' = DOMAIN files \ {path}
      /\ \A p \in DOMAIN files' : files'[p] = files[p]
  <2>1. files' = [p \in DOMAIN files \ {path} |-> files[p]]
      BY <1>1, <1>2 DEF Without
  <2> QED BY <1>3, <2>1 DEF OwnChange
<1>5. VersionsGrow /\ Undisturbed(c, files')
  <2>1. \A w \in UserFiles : files'[w] = files[w]
      BY <1>0, <1>3, <1>4 DEF FilesInv
  <2> QED BY <1>1, <2>1, VersionsStay, NobodyDisturbed, ZenonT(60)
<1>6. FilesInv'
  <2>1. calls' \in [Client -> Nat] /\ \A d \in Client : calls[d] <= calls'[d]
      BY <1>0, <1>1 DEF Shapes
  <2>2. \A w \in UserFiles : files'[w] = <<>> \/ files'[w] \in versions'[w]
      BY <1>0, <1>1, <1>3, <1>4 DEF FilesInv
  <2> QED BY <1>1, <1>4, <1>5, <2>1, <2>2, FilesKept, VersionsStay
<1>7. /\ Shapes' /\ pc'[c] = "return" /\ smfPath'[c] = u
      /\ \A d \in Client : d # c => SameCall(d)
    BY <1>0, <1>1, <1>2 DEF Goto, Shapes, SameCall
<1>8. Stages(c)' /\ BaseInv(c)' /\ Variations(c)'
    BY <1>0, <1>1, <1>2, <1>7 DEF CallInv, Stages, BaseInv, Variations, Copied, Merging
<1>9. Produced(c)'
  <2>1. u \in DOMAIN files'
      BY <1>2, <1>6 DEF FilesInv
  <2> QED BY <1>0, <1>1, <1>2, <1>7, <2>1 DEF CallInv, Produced, Exists, Merging
<1>10. Tidy(c)'
  <2>1. Removable(c)' = Removable(c)
      BY <1>1 DEF Removable, Mine
  <2>2. \A p \in OwnTemp(c)' : p \in OwnTemp(c) /\ p # path /\ files'[p] = files[p]
      BY <1>1, <1>4 DEF OwnTemp
  <2> QED BY <1>0, <1>1, <1>2, <1>7, <2>1, <2>2 DEF CallInv, Tidy, LeftBy, Copied
<1> QED BY <1>1, <1>4, <1>5, <1>6, <1>7, <1>8, <1>9, <1>10, InnerStep DEF CallInv

(* The disk is full while the result is copied.                            *)
LEMMA CopyCutStep ==
  ASSUME WorkflowsInv, NEW c \in Client, pc[c] = "write", NEW x \in Outputs(Song(c)),
         Answer(c, FALSE, {}, With(req[c].output, x)), Written(req[c].output, x)
  PROVE  WorkflowsInv'
<1>0. Shapes /\ FilesInv /\ CallInv(c)
    BY DEF WorkflowsInv
<1> DEFINE u == req[c].output
           now == With(u, x)
<1>1. u \in UserFiles
    BY <1>0 DEF CallInv, Stages
<1>2. Answer(c, FALSE, {}, now) /\ Written(u, x)
    OBVIOUS
<1> HIDE DEF u
<1>3. OwnChange(c, now) /\ now[u] = x /\ \A p \in DOMAIN files : p # u => now[p] = files[p]
    BY <1>1, UserWritten
<1> HIDE DEF now
<1>4. /\ VersionsGrow /\ versions' = [w \in UserFiles |-> versions'[w]]
      /\ (x = <<>> \/ x \in versions'[u])
      /\ \A w \in UserFiles : \A v \in versions'[w] :
           v \in versions[w] \/ (v # <<>> /\ WellFormed(v))
      /\ quiet' \in [Client -> BOOLEAN] /\ Undisturbed(c, now)
    BY <1>1, <1>2, <1>3, VersionAdded
<1>5. \A w \in UserFiles : now[w] = <<>> \/ now[w] \in versions'[w]
    BY <1>0, <1>3, <1>4 DEF FilesInv, VersionsGrow
<1>6. \A a \in answers' \ answers : Claim(a)'
  <2>1. \A a \in answers' \ answers : a.ok = FALSE
      BY <1>2 DEF Answer
  <2> QED BY <2>1 DEF Claim
<1> QED BY <1>2, <1>3, <1>4, <1>5, <1>6, LastStep

-----------------------------------------------------------------------------
(* Replacing the number of tracks in the header leaves the rest.           *)
LEMMA HeaderSet ==
  ASSUME NEW s \in Seq(Chunks), s # <<>>, s[1] \in Headers, NEW n \in Nat
  PROVE  LET m == [s EXCEPT ![1].tracks = n]
         IN /\ Len(m) = Len(s) /\ m[1].tracks = n /\ m[1].song = s[1].song
            /\ \A i \in 2..Len(s) : m[i] = s[i]
<1> DEFINE h == [s[1] EXCEPT !.tracks = n]
           m == [s EXCEPT ![1].tracks = n]
<1>1. h \in Headers /\ h.tracks = n /\ h.song = s[1].song
    BY DEF Headers
<1>2. m = [s EXCEPT ![1] = h]
    OBVIOUS
<1> HIDE DEF h, m
<1>3. Len(s) \in Nat /\ 1 \in 1..Len(s) /\ DOMAIN s = 1..Len(s)
    OBVIOUS
<1>4. h \in Chunks
    BY <1>1 DEF Chunks
<1>5. m \in Seq(Chunks) /\ Len(m) = Len(s) /\ m[1] = h /\ \A i \in 2..Len(s) : m[i] = s[i]
    BY <1>2, <1>3, <1>4
<1> QED BY <1>1, <1>5 DEF m

(* The merged file: what was read of the base, then the new track.         *)
LEMMA MergedShape ==
  ASSUME WorkflowsInv, NEW c \in Client, BaseRead(c), Readable(smfPath[c])
  PROVE  LET m == Merged(c)
             b == base[c]
         IN /\ Len(b) \in Nat /\ Len(b) >= 1 /\ Len(b) = b[1].tracks + 1
            /\ Len(m) = Len(b) + 1 /\ m[1].tracks = Len(b) /\ m[1].song = b[1].song
            /\ m[Len(b) + 1] \in {Track(Song(c), 1), Padded}
            /\ \A i \in 2..Len(b) : m[i] = b[i]
<1>0. Shapes /\ FilesInv /\ CallInv(c)
    BY DEF WorkflowsInv
<1> DEFINE b == base[c]
           x == files[smfPath[c]]
<1>1. b \in Seq(Chunks) /\ b # <<>> /\ b[1] \in Headers /\ Len(b) = b[1].tracks + 1
    BY <1>0 DEF CallInv, BaseInv, FromVersions, BaseRead, Merging
<1>2. Len(b) \in Nat /\ Len(b) >= 1
    BY <1>1
<1>3. x \in Outputs(Song(c)) /\ x # <<>> /\ Len(x) > x[1].tracks
    BY <1>0 DEF CallInv, Produced, Readable, BaseRead, Merging
<1>4. x \in Seq(Chunks) /\ Len(x) = 2 /\ x[2] \in {Track(Song(c), 1), Cut}
  <2>1. /\ WellFormed(x) /\ Len(x) \in 0..2 /\ x[1].tracks = 1
        /\ Len(x) = 2 => x[2] \in {Track(Song(c), 1), Cut}
      BY <1>0, <1>3, OutputShape, SongOfCall
  <2> HIDE DEF x
  <2> QED BY <1>3, <2>1 DEF WellFormed
<1> DEFINE r == readSMF(smfPath[c])
<1>5. /\ r \in Seq(Chunks) /\ Len(r) = 2 /\ r # <<>>
      /\ r[2] \in {Track(Song(c), 1), Padded}
  <2>1. r = [i \in 1..2 |-> readChunk(x[i])]
      BY <1>4 DEF readSMF
  <2>2. \A i \in 1..2 : x[i] \in Chunks
      BY <1>4, ElementOfSeq
  <2>3. \A i \in 1..2 : readChunk(x[i]) \in Chunks
      BY <2>2 DEF readChunk, Chunks
  <2>4. r[2] \in {Track(Song(c), 1), Padded}
      BY <1>4, <2>1 DEF readChunk
  <2> HIDE DEF r, x
  <2> QED BY <2>1, <2>3, <2>4
<1> DEFINE t == Tail(r)
<1> HIDE DEF r
<1>6. t \in Seq(Chunks) /\ Len(t) = 1 /\ t[1] = r[2]
    BY <1>5
<1> DEFINE s == b \o t
<1> HIDE DEF t, b
<1>7. s \in Seq(Chunks) /\ Len(s) = Len(b) + Len(t)
      /\ (\A i \in 1..Len(b) : s[i] = b[i]) /\ s[Len(b) + 1] = t[1]
  <2>1. /\ s \in Seq(Chunks) /\ Len(s) = Len(b) + Len(t)
        /\ \A i \in 1..Len(b) : s[i] = b[i]
        /\ \A i \in 1..Len(t) : s[Len(b) + i] = t[i]
    <3>1. b \in Seq(Chunks) /\ t \in Seq(Chunks)
        BY <1>1, <1>6
    <3> QED BY ONLY <3>1, Concatenation DEF s
  <2>2. 1 \in 1..Len(t)
      BY <1>6
  <2> QED BY <2>1, <2>2
<1> HIDE DEF s
<1>8. Len(s) = Len(b) + 1 /\ Len(s) - 1 = Len(b) /\ s # <<>> /\ s[1] = b[1]
    BY <1>2, <1>6, <1>7
<1> DEFINE m == [s EXCEPT ![1].tracks = Len(b)]
<1>9. /\ Len(m) = Len(s) /\ m[1].tracks = Len(b) /\ m[1].song = s[1].song
      /\ \A i \in 2..Len(s) : m[i] = s[i]
  <2> DEFINE n == Len(b)
  <2>1. n \in Nat /\ s \in Seq(Chunks) /\ s # <<>> /\ s[1] \in Headers
      BY <1>1, <1>2, <1>7, <1>8
  <2> HIDE DEF n
  <2>2. LET k == [s EXCEPT ![1].tracks = n]
        IN /\ Len(k) = Len(s) /\ k[1].tracks = n /\ k[1].song = s[1].song
           /\ \A i \in 2..Len(s) : k[i] = s[i]
      BY <2>1, HeaderSet
  <2> QED BY <2>2 DEF n
<1>10. Merged(c) = m
    BY <1>8 DEF Merged, s, t, r, b
<1> HIDE DEF m
<1>11. m[Len(b) + 1] = s[Len(b) + 1] /\ \A i \in 2..Len(b) : m[i] = b[i]
    BY <1>2, <1>7, <1>8, <1>9
<1>12. /\ Len(b) \in Nat /\ Len(b) >= 1 /\ Len(b) = b[1].tracks + 1
       /\ Len(m) = Len(b) + 1 /\ m[1].tracks = Len(b) /\ m[1].song = b[1].song
       /\ m[Len(b) + 1] \in {Track(Song(c), 1), Padded}
       /\ \A i \in 2..Len(b) : m[i] = b[i]
    BY <1>1, <1>2, <1>5, <1>6, <1>7, <1>8, <1>9, <1>11
<1> QED BY <1>10, <1>12 DEF b

(* mergeSMF writes the merged file, and W5 returns it.                     *)
LEMMA MergeStep ==
  ASSUME WorkflowsInv, NEW c \in Client, mergeSMF(c)
  PROVE  WorkflowsInv'
<1>0. Shapes /\ FilesInv /\ CallInv(c)
    BY DEF WorkflowsInv
<1> DEFINE path == TempName(c, "merged")
           m == Merged(c)
           b == base[c]
           u == req[c].smf
           now == With(path, m)
<1>1. /\ pc[c] = "merge" /\ BaseRead(c) /\ Readable(smfPath[c])
      /\ versions' = versions /\ quiet' = quiet /\ Answer(c, TRUE, {path}, now)
    BY DEF mergeSMF, Succeed, BaseRead
<1>2. /\ Len(b) \in Nat /\ Len(b) >= 1 /\ Len(b) = b[1].tracks + 1
      /\ Len(m) = Len(b) + 1 /\ m[1].tracks = Len(b) /\ m[1].song = b[1].song
      /\ m[Len(b) + 1] \in {Track(Song(c), 1), Padded}
      /\ \A i \in 2..Len(b) : m[i] = b[i]
    BY <1>1, MergedShape
<1>3. req[c].kind = "W5" /\ u \in UserFiles /\ FromVersions(b, u) /\ Song(c) = <<c, calls[c], 0>>
    BY <1>0, <1>1 DEF CallInv, Stages, BaseInv, Song, Merging
<1>4. path \in Mine(c) /\ path[1] = "merged" /\ path \notin UserFiles
    BY <1>0, TempNames
<1>5. path \notin cleanup[c]
    BY <1>0, <1>4 DEF CallInv, Tidy, Removable
<1> HIDE DEF path, m
<1>6. /\ OwnChange(c, now) /\ DOMAIN now = DOMAIN files \cup {path} /\ now[path] = m
      /\ \A p \in DOMAIN files : p # path => now[p] = files[p]
    BY <1>0, <1>4 DEF OwnChange, With, FilesInv
<1> HIDE DEF now
<1>7. \A w \in UserFiles : now[w] = <<>> \/ now[w] \in versions'[w]
    BY <1>0, <1>1, <1>4, <1>6 DEF FilesInv
<1>8. ASSUME NEW a \in answers' \ answers PROVE Claim(a)'
  <2>1. /\ a.by = c /\ a.call = calls[c] /\ a.req = req[c] /\ a.paths = {path}
        /\ a.quiet = quiet[c]
        /\ a.files = [p \in DOMAIN files' \cap (OwnTemp(c)' \cup {path}) |-> files'[p]]
    <3>1. a = [by |-> c, call |-> calls[c], req |-> req[c], ok |-> TRUE,
               paths |-> {path}, results |-> results[c], quiet |-> quiet[c],
               files |-> [p \in DOMAIN files' \cap (OwnTemp(c)' \cup {path}) |-> files'[p]]]
        BY <1>1, <1>8 DEF Answer
    <3> QED BY <3>1
  <2>2. files' = [p \in DOMAIN now \ cleanup[c] |-> now[p]] /\ calls' = calls
      BY <1>1 DEF Answer
  <2>3. path \in DOMAIN files' /\ files'[path] = m
      BY <1>5, <1>6, <2>2
  <2>4. path \in DOMAIN a.files /\ a.files[path] = m
      BY <2>1, <2>3
  <2>5. LeavesItsFiles(a)
    <3>1. ASSUME NEW p \in DOMAIN a.files, p # path PROVE FALSE
      <4>1. p \in OwnTemp(c)' /\ p \in DOMAIN files'
          BY <2>1, <3>1
      <4>2. p \in DOMAIN files /\ p \notin cleanup[c]
          BY <1>6, <2>2, <3>1, <4>1
      <4>3. p \in OwnTemp(c)
          BY <2>2, <4>1, <4>2 DEF OwnTemp
      <4> QED BY <1>0, <1>1, <1>3, <4>2, <4>3 DEF CallInv, Tidy, LeftBy
    <3>2. DOMAIN a.files = {path}
        BY <2>4, <3>1
    <3> QED BY <1>3, <2>1, <3>2 DEF LeavesItsFiles
  <2>6. MergesVersions(a)
    <3>1. Last(m) = m[Len(b) + 1]
        BY <1>2 DEF Last
    <3>2. PICK v \in versions[u] : v[1] = b[1] /\ (quiet[c] => FromFile(b, v))
      <4>1. b # <<>>
          BY <1>2
      <4>2. CASE quiet[c]
        <5>1. FromFile(b, files[u])
            BY <1>0, <4>1, <4>2 DEF CallInv, BaseInv
        <5>2. files[u] \in versions[u]
            BY <1>0, <1>3, <5>1 DEF FilesInv, FromFile
        <5> QED BY <5>1, <5>2 DEF FromFile
      <4>3. CASE ~quiet[c]
          BY <1>3, <4>1, <4>3 DEF FromVersions
      <4> QED BY <4>2, <4>3
    <3>3. Len(m) - 1 = Len(b) /\ b # <<>>
        BY <1>2
    <3>4. \A i \in 2..(Len(m) - 1) :
            m[i] = Torn \/ \E w \in versions[u] : i \in DOMAIN w /\ readChunk(w[i]) = m[i]
      <4>1. \A i \in 2..Len(b) :
              b[i] = Torn \/ \E w \in versions[u] : i \in DOMAIN w /\ readChunk(w[i]) = b[i]
        <5> HIDE DEF b, u
        <5> QED BY ONLY <1>3, <3>3, Zenon DEF FromVersions
      <4> HIDE DEF b, u
      <4> QED BY ONLY <1>2, <3>3, <4>1, Zenon
    <3>5. Len(m) = m[1].tracks + 1 /\ Last(m) \in {Track(<<a.by, a.call, 0>>, 1), Padded}
        BY <1>2, <1>3, <2>1, <3>1
    <3>6. v[1].song = m[1].song /\ v[1].tracks + 1 = m[1].tracks
        BY <1>2, <3>2
    <3>7. a.req.smf = u /\ \A p \in a.paths : a.files[p] = m
        BY <2>1, <2>4
    <3>8. a.quiet => \A i \in 2..(Len(m) - 1) : i \in DOMAIN v /\ readChunk(v[i]) = m[i]
        BY <1>2, <2>1, <3>2, <3>3 DEF FromFile
    <3> HIDE DEF u, b
    <3>9. \E w \in versions[u] :
            /\ w[1].song = m[1].song /\ w[1].tracks + 1 = m[1].tracks
            /\ a.quiet => \A i \in 2..(Len(m) - 1) : i \in DOMAIN w /\ readChunk(w[i]) = m[i]
        BY <3>2, <3>6, <3>8
    <3>10. MergeOf(m, versions[u], a)
        BY ONLY <3>4, <3>5, <3>9 DEF MergeOf
    <3> QED BY <1>3, <3>7, <3>10 DEF MergesVersions
  <2>7. MergesVersions(a)'
      BY <1>1, <2>6 DEF MergesVersions, MergeOf, readChunk
  <2> QED BY <1>3, <2>1, <2>5, <2>7 DEF Claim, LeavesItsFiles
<1>9. quiet' \in [Client -> BOOLEAN] /\ Undisturbed(c, now)
  <2>1. \A w \in UserFiles : now[w] = files[w]
      BY <1>0, <1>4, <1>6 DEF FilesInv
  <2> QED BY <1>0, <1>1, <2>1, NobodyDisturbed DEF Shapes
<1> QED BY <1>1, <1>6, <1>7, <1>8, <1>9, LastStep, VersionsStay

(* Numbers less than a modulus apart differ modulo it.                     *)
LEMMA Residues ==
  ASSUME NEW m \in Nat \ {0}, NEW x \in Int, NEW y \in Int, 0 < y - x, y - x < m
  PROVE  x % m # y % m
<1> SUFFICES ASSUME x % m = y % m PROVE FALSE
    OBVIOUS
<1> DEFINE p == x \div m
           q == y \div m
           r == x % m
<1>1. x = m * p + r /\ p \in Int /\ r \in Int
    OBVIOUS
<1>2. y = m * q + r /\ q \in Int
    OBVIOUS
<1> HIDE DEF p, q, r
<1>3. y - x = m * (q - p) /\ q - p \in Int
    BY <1>1, <1>2
<1> DEFINE k == q - p
<1>4. k \in Int /\ 0 < m * k /\ m * k < m
    BY <1>3
<1> HIDE DEF k
<1> QED BY <1>4

(* Different variations have different seeds, unless they go round int64.  *)
LEMMA SeedsApart ==
  ASSUME NEW r \in Requests, NEW i \in Nat, NEW j \in Nat, i < j, j < r.count,
         r.count * Step(r) \in (-SeedMod)..SeedMod
  PROVE  Seed(r, i) # Seed(r, j)
<1> DEFINE d == Step(r)
           h == SeedMod \div 2
           x == r.seed + i * d + h
           y == r.seed + j * d + h
<1>1. r.seed \in Int /\ d \in Int /\ d # 0 /\ h \in Int /\ r.count \in Int /\ SeedMod \in Nat \ {0}
    BY DEF Step
<1>2. Seed(r, i) = (x % SeedMod) - h /\ Seed(r, j) = (y % SeedMod) - h
    BY DEF Seed, Wrap
<1>3. r.count * d >= -SeedMod /\ r.count * d <= SeedMod
    BY <1>1
<1> HIDE DEF d, h
<1>4. x \in Int /\ y \in Int /\ i * d \in Int /\ j * d \in Int
    BY <1>1
<1>5. PICK k \in Nat : j = i + k + 1
  <2>1. j - i - 1 \in Nat /\ j = i + (j - i - 1) + 1
      OBVIOUS
  <2> QED BY <2>1
<1>6. PICK l \in Nat : r.count = (k + 1) + l + 1
  <2>1. r.count - k - 2 \in Nat /\ r.count = (k + 1) + (r.count - k - 2) + 1
      BY <1>1, <1>5
  <2> QED BY <2>1
<1>7. y - x = (k + 1) * d /\ r.count * d = (k + 1) * d + l * d + d
      /\ (k + 1) * d = k * d + d /\ k * d \in Int /\ l * d \in Int
    BY <1>1, <1>5, <1>6
<1> HIDE DEF x, y
<1>8. x % SeedMod # y % SeedMod
  <2>1. CASE d > 0
    <3>1. k * d >= 0 /\ l * d >= 0
        BY <1>1, <2>1
    <3>2. 0 < y - x /\ y - x < SeedMod
        BY <1>1, <1>3, <1>4, <1>7, <2>1, <3>1
    <3> QED BY <1>1, <1>4, <3>2, Residues
  <2>2. CASE d < 0
    <3>1. k * d <= 0 /\ l * d <= 0
        BY <1>1, <2>2
    <3>2. 0 < x - y /\ x - y < SeedMod
        BY <1>1, <1>3, <1>4, <1>7, <2>2, <3>1
    <3> QED BY <1>1, <1>4, <3>2, Residues
  <2> QED BY <1>1, <2>1, <2>2
<1>9. x % SeedMod \in Int /\ y % SeedMod \in Int
    BY <1>1, <1>4
<1> QED BY <1>1, <1>2, <1>8, <1>9

(* A workflow returns its result.                                          *)
LEMMA ReturnStep ==
  ASSUME WorkflowsInv, NEW c \in Client, Return(c)
  PROVE  WorkflowsInv'
<1>0. Shapes /\ FilesInv /\ CallInv(c)
    BY DEF WorkflowsInv
<1> DEFINE paths == IF req[c].kind = "W6"
                    THEN {r.path : r \in ToSet(results[c])} \ {NoPath}
                    ELSE {smfPath[c]}
<1>1. pc[c] = "return" /\ versions' = versions /\ quiet' = quiet /\ Answer(c, TRUE, paths, files)
    BY DEF Return
<1>2. req[c] \in Requests /\ (req[c].kind # "W6" => Copied(req[c])) /\ req[c].kind # "W5"
  <2>1. req[c] \in Requests /\ req[c].kind \in {"W2", "W3", "W5", "W6", "W10"}
      BY <1>0 DEF Shapes
  <2> QED BY <1>0, <1>1, <2>1 DEF CallInv, Stages, Copied
<1>3. /\ req[c].kind # "W6" => paths = {smfPath[c]}
      /\ req[c].kind = "W6" => \A p \in paths : \E v \in ToSet(results[c]) : p = v.path /\ p # NoPath
    OBVIOUS
<1> HIDE DEF paths
<1>4. OwnChange(c, files)
    BY <1>0 DEF OwnChange, FilesInv
<1>5. \A w \in UserFiles : files[w] = <<>> \/ files[w] \in versions'[w]
    BY <1>1, VersionsStay
<1>6. ASSUME NEW a \in answers' \ answers PROVE Claim(a)'
  <2>1. /\ a.req = req[c] /\ a.paths = paths /\ a.results = results[c]
        /\ a.files = [p \in DOMAIN files' \cap (OwnTemp(c)' \cup paths) |-> files'[p]]
    <3>1. a = [by |-> c, call |-> calls[c], req |-> req[c], ok |-> TRUE,
               paths |-> paths, results |-> results[c], quiet |-> quiet[c],
               files |-> [p \in DOMAIN files' \cap (OwnTemp(c)' \cup paths) |-> files'[p]]]
        BY <1>1, <1>6 DEF Answer
    <3> QED BY <3>1
  <2>2. files' = [p \in DOMAIN files \ cleanup[c] |-> files[p]] /\ calls' = calls
      BY <1>1 DEF Answer
  <2>3. req[c].kind # "W6" => paths \subseteq DOMAIN a.files
    <3> SUFFICES ASSUME req[c].kind # "W6" PROVE smfPath[c] \in DOMAIN files'
        BY <1>3, <2>1
    <3>1. smfPath[c] \in UserFiles \cup {TempName(c, "out")} /\ smfPath[c] \in DOMAIN files
        BY <1>0, <1>1, <1>2 DEF CallInv, Produced, Exists
    <3>2. \A p \in cleanup[c] : p[1] = "analysis" /\ p \in TempPath
        BY <1>0, <1>2 DEF CallInv, Produced, Tidy, Removable, Mine
    <3>3. TempName(c, "out")[1] = "out"
        BY <1>0, TempNames
    <3> QED BY <2>2, <3>1, <3>2, <3>3
  <2>4. ASSUME NEW p \in DOMAIN a.files, p \notin paths
        PROVE  p \in OwnTemp(c) /\ LeftBy(c, p)
    <3>1. p \in OwnTemp(c)' /\ p \in DOMAIN files'
        BY <2>1, <2>4
    <3>2. p \in DOMAIN files /\ p \notin cleanup[c] /\ p \in OwnTemp(c)
        BY <2>2, <3>1 DEF OwnTemp
    <3>3. LeftBy(c, p) \/ (Copied(req[c]) /\ p = smfPath[c])
        BY <1>0, <1>1, <3>2 DEF CallInv, Tidy
    <3> QED BY <1>3, <2>4, <3>2, <3>3 DEF Copied
  <2>5. LeavesItsFiles(a)
    <3>1. CASE req[c].kind # "W6"
      <4>1. DOMAIN a.files = paths
          BY <2>1, <2>3, <2>4, <3>1 DEF LeftBy
      <4> QED BY <2>1, <3>1, <4>1 DEF LeavesItsFiles
    <3>2. CASE req[c].kind = "W6"
      <4>1. ASSUME NEW p \in paths PROVE p \notin DOMAIN a.files
        <5>1. PICK v \in ToSet(results[c]) : p = v.path /\ p # NoPath
            BY <1>3, <3>2
        <5>2. PICK i \in 1..Len(results[c]) : v = results[c][i]
          <6>1. results[c] \in Seq(Variation)
              BY <1>0 DEF Shapes
          <6> QED BY <6>1 DEF ToSet
        <5>3. p \in cleanup[c]
            BY <1>0, <1>1, <3>2, <5>1, <5>2 DEF CallInv, Variations
        <5> QED BY <2>1, <2>2, <5>3
      <4>2. ASSUME NEW p \in DOMAIN a.files
            PROVE  p \notin a.paths /\ p[1] = "out" /\ a.results[p[4] + 1].path = NoPath
          BY <1>1, <2>1, <2>4, <4>1 DEF LeftBy
      <4> QED BY <2>1, <3>2, <4>2 DEF LeavesItsFiles
    <3> QED BY <3>1, <3>2
  <2>6. req[c].kind = "W6" => ReportsAll(a)
    <3> SUFFICES ASSUME req[c].kind = "W6" PROVE ReportsAll(a)
        OBVIOUS
    <3> DEFINE rs == results[c]
    <3>1. /\ rs \in Seq(Variation) /\ Len(rs) = req[c].count
          /\ \A i \in 1..Len(rs) :
               /\ rs[i].seed = Seed(req[c], i - 1)
               /\ rs[i].path # NoPath => rs[i].path[4] = i - 1
        BY <1>0, <1>1 DEF CallInv, Variations, Shapes
    <3>2. DOMAIN rs = 1..Len(rs) /\ Len(rs) \in Nat
        BY <3>1
    <3>3. ASSUME NEW i \in 1..Len(rs), NEW j \in 1..Len(rs), i # j,
                 req[c].count * Step(req[c]) \in (-SeedMod)..SeedMod
          PROVE  rs[i].seed # rs[j].seed
      <4>1. /\ i - 1 \in Nat /\ j - 1 \in Nat /\ (i - 1 < j - 1 \/ j - 1 < i - 1)
            /\ i - 1 < req[c].count /\ j - 1 < req[c].count
          BY <3>1, <3>2, <3>3
      <4>2. Seed(req[c], i - 1) # Seed(req[c], j - 1)
        <5>1. CASE i - 1 < j - 1
            BY <1>2, <3>3, <4>1, <5>1, SeedsApart
        <5>2. CASE j - 1 < i - 1
            BY <1>2, <3>3, <4>1, <5>2, SeedsApart
        <5> QED BY <4>1, <5>1, <5>2
      <4> QED BY <3>1, <4>2
    <3>4. a.results = rs /\ a.req.count = req[c].count
        BY <2>1
    <3> HIDE DEF rs
    <3>5. \A i \in DOMAIN rs : rs[i].path # NoPath => rs[i].path[4] = i - 1
        BY <3>1, <3>2
    <3>6. req[c].count * Step(req[c]) \in (-SeedMod)..SeedMod =>
            \A i, j \in DOMAIN rs : i # j => rs[i].seed # rs[j].seed
        BY <3>2, <3>3
    <3>7. Step(a.req) = Step(req[c])
        BY <2>1
    <3> QED BY <3>1, <3>4, <3>5, <3>6, <3>7 DEF ReportsAll
  <2> QED BY <1>2, <2>1, <2>5, <2>6 DEF Claim, LeavesItsFiles, ReportsAll
<1>7. quiet' \in [Client -> BOOLEAN] /\ Undisturbed(c, files)
    BY <1>0, <1>1, NobodyDisturbed DEF Shapes
<1> QED BY <1>1, <1>4, <1>5, <1>6, <1>7, LastStep, VersionsStay

-----------------------------------------------------------------------------
(* A whole file of the user: a header and the two tracks it announces.     *)
LEMMA UserFileShape ==
  ASSUME NEW u \in UserFiles
  PROVE  Smf(u, 2) # <<>> /\ WellFormed(Smf(u, 2))
<1> DEFINE h == <<Header(u, 2)>>
           t == [i \in 1..2 |-> Track(u, i)]
<1>1. u \in Songs /\ Header(u, 2) \in Headers /\ Header(u, 2) \in Chunks
      /\ Header(u, 2).tracks = 2
    BY DEF Songs, Header, Headers, Chunks
<1>2. \A i \in 1..2 : Track(u, i) \in Chunks
    BY <1>1 DEF Track, Chunks
<1>3. t \in Seq(Chunks) /\ Len(t) = 2
    BY <1>2
<1>4. h \in Seq(Chunks) /\ Len(h) = 1 /\ h[1] = Header(u, 2)
    BY <1>1
<1>5. Smf(u, 2) = h \o t
    BY DEF Smf
<1> HIDE DEF h, t
<1>6. /\ h \o t \in Seq(Chunks) /\ Len(h \o t) = Len(h) + Len(t)
      /\ (h \o t)[1] = h[1]
  <2>1. /\ h \o t \in Seq(Chunks) /\ Len(h \o t) = Len(h) + Len(t)
        /\ \A i \in 1..Len(h) : (h \o t)[i] = h[i]
      BY ONLY <1>3, <1>4, Concatenation, ZenonT(60)
  <2> QED BY ONLY <1>4, <2>1
<1>7. Len(h \o t) = 3
    BY <1>3, <1>4, <1>6
<1> QED BY <1>1, <1>4, <1>5, <1>6, <1>7 DEF WellFormed

(* Nothing has been called, and the files of the user are whole.           *)
LEMMA WorkflowsInit == Init => WorkflowsInv
<1> SUFFICES ASSUME Init PROVE WorkflowsInv
    OBVIOUS
<1> USE DEF Init
<1>1. Shapes
  <2>1. \A c \in Client : (CHOOSE r \in RequestsOf[c] : TRUE) \in Requests
      BY DEF Requests
  <2> QED BY <2>1 DEF Shapes
<1>2. \A u \in UserFiles : Smf(u, 2) # <<>> /\ WellFormed(Smf(u, 2))
    BY UserFileShape
<1>3. FilesInv
    BY <1>2 DEF FilesInv
<1>4. \A c \in Client : CallInv(c)
    BY DEF CallInv, Stages, Produced, Tidy, BaseInv, Variations, Merging
<1>5. Claims
    BY DEF Claims
<1> QED BY <1>1, <1>3, <1>4, <1>5 DEF WorkflowsInv

(* Every step of every caller keeps the invariant.                         *)
LEMMA WorkflowsStep == WorkflowsInv /\ [Next]_vars => WorkflowsInv'
<1> SUFFICES ASSUME WorkflowsInv, [Next]_vars PROVE WorkflowsInv'
    OBVIOUS
<1>1. CASE UNCHANGED vars
  <2>1. UNCHANGED <<pc, req, calls, index, results, smfPath, cleanup, base, lengths, files,
                    versions, quiet, answers>>
      BY <1>1 DEF vars, call, reading
  <2>2. Shapes' /\ FilesInv'
      BY <2>1 DEF WorkflowsInv, Shapes, FilesInv, WellFormed
  <2>3. ASSUME NEW c \in Client PROVE CallInv(c)'
    <3>1. CallInv(c)
        BY DEF WorkflowsInv
    <3>2. Stages(c)' /\ Produced(c)' /\ Variations(c)'
        BY <2>1, <3>1 DEF CallInv, Stages, Produced, Variations, TempName, Song, Exists
    <3>3. Tidy(c)'
        BY <2>1, <3>1 DEF CallInv, Tidy, Removable, Mine, OwnTemp, LeftBy
    <3>4. BaseInv(c)'
        BY <2>1, <3>1 DEF CallInv, BaseInv, FromVersions, FromFile, Aligned, readChunk
    <3> QED BY <3>2, <3>3, <3>4 DEF CallInv
  <2>4. Claims'
    <3>1. VersionsGrow
        BY <2>1 DEF VersionsGrow
    <3> QED BY <2>1, <3>1, ClaimsStay DEF Claims
  <2> QED BY <2>2, <2>3, <2>4 DEF WorkflowsInv
<1>2. ASSUME NEW c \in Client, NEW r \in RequestsOf[c], Call(c, r) PROVE WorkflowsInv'
    BY <1>2, CallStep
<1>3. ASSUME NEW c \in Client, Progress(c) PROVE WorkflowsInv'
  <2>1. CASE Refuse(c)
      BY <2>1, FailingSteps DEF Refuse
  <2>2. CASE ParseBase(c)
      BY <2>2, GoOnStep, FailingSteps DEF ParseBase, reading
  <2>3. CASE runDSP(c)
      BY <2>3, DspStep
  <2>4. CASE runDSPFails(c)
      BY <2>4, FailingSteps DEF runDSPFails
  <2>5. CASE UseAnalysis(c)
      BY <2>5, GoOnStep, FailingSteps DEF UseAnalysis, reading
  <2>6. CASE runMTE(c)
      BY <2>6, MteStep
  <2>7. CASE runMTEFails(c)
    <3>1. PICK now \in {files} \cup
                       {With(TempName(c, "out"), x) : x \in Partial(Header(Song(c), 1))} :
            IF req[c].kind = "W6"
            THEN /\ files' = now
                 /\ smfPath' = [smfPath EXCEPT ![c] = NoPath]
                 /\ Goto(c, "variation")
                 /\ UNCHANGED <<req, calls, index, results, cleanup, base, lengths, versions,
                                quiet, answers>>
            ELSE Fail(c, now)
        BY <2>7 DEF runMTEFails, reading
    <3>2. CASE req[c].kind = "W6"
        BY <2>7, <3>1, <3>2, VariationFailsStep DEF runMTEFails
    <3>3. CASE req[c].kind # "W6"
        BY <3>1, <3>3, FailingSteps
    <3> QED BY <3>2, <3>3
  <2>8. CASE AddVariation(c)
      BY <2>8, AddVariationStep
  <2>9. CASE readHeader(c) \/ readMagic(c) \/ readLength(c) \/ readData(c)
      BY <2>9, ReadHeaderStep, ReadMagicStep, ReadLengthStep, ReadDataStep
  <2>10. CASE mergeSMF(c)
      BY <2>10, MergeStep
  <2>11. CASE mergeSMFFails(c)
      BY <2>11, FailingSteps DEF mergeSMFFails
  <2>12. CASE CopyTruncate(c)
      BY <2>12, TruncateStep
  <2>13. CASE CopyWrite(c)
      BY <2>13, WriteStep
  <2>14. CASE CopyFails(c)
    <3>1. CASE Fail(c, files)
        BY <3>1, FailingSteps
    <3>2. ASSUME pc[c] = "write", NEW smf \in Shortened(Song(c)),
                 Answer(c, FALSE, {}, With(req[c].output, smf)), Written(req[c].output, smf)
          PROVE  WorkflowsInv'
      <4>1. smf \in Outputs(Song(c))
          BY DEF Shortened, Outputs
      <4> QED BY <3>2, <4>1, CopyCutStep
    <3> QED BY <2>14, <3>1, <3>2 DEF CopyFails
  <2>15. CASE RemoveTemp(c)
      BY <2>15, RemoveStep
  <2>16. CASE Return(c)
      BY <2>16, ReturnStep
  <2> QED
      BY <1>3, <2>1, <2>2, <2>3, <2>4, <2>5, <2>6, <2>7, <2>8, <2>9, <2>10, <2>11, <2>12,
         <2>13, <2>14, <2>15, <2>16
      DEF Progress
<1> QED BY <1>1, <1>2, <1>3 DEF Next

(* The invariant of the calls and of the shared files.                     *)
THEOREM WorkflowsInvariant == Spec => []WorkflowsInv
BY WorkflowsInit, WorkflowsStep, PTL DEF Spec

(* A call that succeeds leaves the file it reports and no other temporary  *)
(* one, and W6 only what variations that failed have left, whole or cut,   *)
(* whoever else calls, for any set of callers.                             *)
THEOREM SuccessIsTidy == Spec => []SuccessLeavesItsFiles
<1>1. WorkflowsInv => SuccessLeavesItsFiles
    BY DEF WorkflowsInv, Claims, Claim, LeavesItsFiles, SuccessLeavesItsFiles
<1> QED BY <1>1, WorkflowsInvariant, PTL

(* SmartRegeneration keeps the user's material, track by track as long as  *)
(* nobody writes the file while it is read, and its header is right always.*)
THEOREM MergeKeepsVersions == Spec => []MergeIsConsistent
<1>1. WorkflowsInv => MergeIsConsistent
    BY DEF WorkflowsInv, Claims, Claim, MergesVersions, MergeOf, MergeIsConsistent
<1> QED BY <1>1, WorkflowsInvariant, PTL

(* GenerateVariations reports every variation, each with its own seed, for *)
(* any number of them and any step, as far as int64 holds that many seeds. *)
THEOREM AllVariationsReported == Spec => []EveryVariationReported
<1>1. WorkflowsInv => EveryVariationReported
    BY DEF WorkflowsInv, Claims, Claim, ReportsAll, EveryVariationReported
<1> QED BY <1>1, WorkflowsInvariant, PTL

-----------------------------------------------------------------------------
(* What TypeOK says beyond that: the files a call will remove, and the     *)
(* result it names, exist.  They do because they are its own or the        *)
(* user's, and nobody else removes those.                                  *)
NamedBy(c) ==
  /\ cleanup[c] \subseteq DOMAIN files
  /\ smfPath[c] # NoPath =>
       /\ pc[c] # "idle" /\ smfPath[c] \in DOMAIN files
       /\ smfPath[c] \in Mine(c) \cup UserFiles

Named == \A c \in Client : NamedBy(c)

(* A step of c that removes nothing leaves what the others name.           *)
LEMMA NamedWhileFilesGrow ==
  ASSUME WorkflowsInv, Named, NEW c \in Client, DOMAIN files \subseteq DOMAIN files',
         \A d \in Client \ {c} :
           /\ cleanup'[d] = cleanup[d] /\ smfPath'[d] = smfPath[d]
           /\ pc'[d] = pc[d] /\ calls'[d] = calls[d],
         NamedBy(c)'
  PROVE  Named'
<1> SUFFICES ASSUME NEW d \in Client, d # c PROVE NamedBy(d)'
    BY DEF Named
<1> QED BY DEF Named, NamedBy, Mine

(* Nor does the end of a call take them away.                              *)
LEMMA NamedAfterAnswer ==
  ASSUME WorkflowsInv, Named, NEW c \in Client, NEW ok, NEW paths, NEW now,
         Answer(c, ok, paths, now), DOMAIN files \subseteq DOMAIN now
  PROVE  Named'
<1>1. /\ cleanup[c] \subseteq Mine(c)
      /\ DOMAIN files' = DOMAIN now \ cleanup[c]
    BY DEF WorkflowsInv, CallInv, Tidy, Removable, Answer
<1>2. /\ cleanup'[c] = {} /\ smfPath'[c] = NoPath
      /\ \A d \in Client \ {c} : /\ cleanup'[d] = cleanup[d] /\ smfPath'[d] = smfPath[d]
                                 /\ pc'[d] = pc[d] /\ calls'[d] = calls[d]
    BY DEF WorkflowsInv, Shapes, Answer, Goto
<1>3. NamedBy(c)'
    BY <1>2 DEF NamedBy
<1>4. ASSUME NEW d \in Client, d # c PROVE NamedBy(d)'
  <2>1. cleanup[d] \subseteq Mine(d) /\ Mine(d) \cap Mine(c) = {} /\ Mine(c) \cap UserFiles = {}
      BY <1>4 DEF WorkflowsInv, CallInv, Tidy, Removable, Mine
  <2>2. Mine(d)' = Mine(d)
      BY <1>2, <1>4 DEF Mine
  <2> QED BY <1>1, <1>2, <1>4, <2>1, <2>2 DEF Named, NamedBy
<1> QED BY <1>3, <1>4 DEF Named

(* Failing, with or without a file begun.                                  *)
LEMMA NamedAfterFail ==
  ASSUME WorkflowsInv, Named, NEW c \in Client, NEW now, Fail(c, now),
         now = files \/ \E path : \E x : now = With(path, x)
  PROVE  Named'
<1>1. Fail(c, now)
    OBVIOUS
<1>2. DOMAIN files \subseteq DOMAIN now
    BY DEF With
<1> QED BY <1>1, <1>2, NamedAfterAnswer DEF Fail

LEMMA NamedStep == WorkflowsInv /\ Named /\ [Next]_vars => Named'
<1> SUFFICES ASSUME WorkflowsInv, Named, [Next]_vars PROVE Named'
    OBVIOUS
<1>1. CASE UNCHANGED vars
    BY <1>1 DEF vars, call, Named, NamedBy, Mine
<1>2. ASSUME NEW c \in Client, NEW r \in RequestsOf[c], Call(c, r) PROVE Named'
  <2>1. cleanup[c] = {} /\ smfPath[c] = NoPath
      BY <1>2 DEF WorkflowsInv, CallInv, Tidy, Named, NamedBy, Call
  <2>2. NamedBy(c)'
      BY <1>2, <2>1 DEF NamedBy, Call
  <2> QED BY <1>2, <2>2, NamedWhileFilesGrow DEF Call, Goto, WorkflowsInv, Shapes
<1>3. ASSUME NEW c \in Client, Progress(c) PROVE Named'
  <2> DEFINE out == TempName(c, "out")
             analysis == TempName(c, "analysis")
             merged == TempName(c, "merged")
  <2>0. /\ NamedBy(c) /\ Shapes
        /\ \A what \in {"out", "merged", "analysis"} : TempName(c, what) \in Mine(c)
      BY TempNames DEF Named, WorkflowsInv
  <2>1. CASE Refuse(c)
      BY <2>1, NamedAfterFail DEF Refuse
  <2>2. CASE ParseBase(c)
    <3>1. ASSUME Goto(c, "mte"), UNCHANGED <<calls, smfPath, cleanup, files>> PROVE Named'
        BY <2>0, <3>1 DEF Named, NamedBy, Goto, Shapes, Mine
    <3> QED BY <2>2, <3>1, NamedAfterFail DEF ParseBase
  <2>3. CASE runDSP(c)
    <3>1. DOMAIN files' = DOMAIN files \cup {analysis}
        BY <2>3 DEF runDSP, With
    <3>2. NamedBy(c)'
        BY <2>0, <2>3, <3>1 DEF runDSP, NamedBy, Goto, Shapes, Mine
    <3> QED BY <2>0, <2>3, <3>1, <3>2, NamedWhileFilesGrow DEF runDSP, Goto, Shapes
  <2>4. CASE runDSPFails(c)
      BY <2>4, NamedAfterFail DEF runDSPFails
  <2>5. CASE UseAnalysis(c)
    <3>1. ASSUME Goto(c, "mte"), UNCHANGED <<calls, smfPath, cleanup, files>> PROVE Named'
        BY <2>0, <3>1 DEF Named, NamedBy, Goto, Shapes, Mine
    <3> QED BY <2>5, <3>1, NamedAfterFail DEF UseAnalysis
  <2>6. CASE runMTE(c)
    <3>1. DOMAIN files' = DOMAIN files \cup {out}
        BY <2>6 DEF runMTE, With
    <3>2. NamedBy(c)'
      <4>1. /\ smfPath'[c] = out /\ out \in Mine(c)' /\ pc'[c] = AfterMTE(req[c])
            /\ cleanup'[c] \subseteq cleanup[c] \cup {out}
          BY <2>0, <2>6 DEF runMTE, Goto, Shapes, Mine
      <4>2. AfterMTE(req[c]) # "idle"
          BY DEF AfterMTE
      <4> QED BY <2>0, <3>1, <4>1, <4>2 DEF NamedBy
    <3> QED BY <2>0, <2>6, <3>1, <3>2, NamedWhileFilesGrow DEF runMTE, Goto, Shapes
  <2>7. CASE runMTEFails(c)
    <3>1. CASE req[c].kind = "W6"
      <4>1. DOMAIN files \subseteq DOMAIN files'
          BY <2>7, <3>1 DEF runMTEFails, With
      <4>2. NamedBy(c)'
          BY <2>0, <2>7, <3>1, <4>1 DEF runMTEFails, NamedBy, Shapes
      <4> QED BY <2>0, <2>7, <3>1, <4>1, <4>2, NamedWhileFilesGrow, ZenonT(60)
              DEF runMTEFails, Goto, Shapes
    <3>2. CASE req[c].kind # "W6"
        BY <2>7, <3>2, NamedAfterFail DEF runMTEFails
    <3> QED BY <3>1, <3>2
  <2>8. CASE AddVariation(c)
    <3>1. NamedBy(c)'
        BY <2>0, <2>8 DEF AddVariation, NamedBy, Goto, Shapes, Mine
    <3> QED BY <2>0, <2>8, <3>1, NamedWhileFilesGrow DEF AddVariation, Goto, Shapes
  <2>9. CASE readHeader(c) \/ readMagic(c) \/ readLength(c) \/ readData(c)
    <3>1. UNCHANGED <<calls, smfPath, cleanup, files>>
        BY <2>9 DEF readHeader, readMagic, readLength, readData
    <3>2. /\ \A d \in Client \ {c} : pc'[d] = pc[d]
          /\ pc'[c] # "idle"
        BY <2>0, <2>9 DEF readHeader, readMagic, readLength, readData, Goto, Shapes
    <3> QED BY <3>1, <3>2 DEF Named, NamedBy, Mine
  <2>10. CASE mergeSMF(c)
    <3>1. DOMAIN files \subseteq DOMAIN With(merged, Merged(c))
        BY DEF With
    <3> QED BY <2>10, <3>1, NamedAfterAnswer DEF mergeSMF, Succeed
  <2>11. CASE mergeSMFFails(c)
      BY <2>11, NamedAfterFail DEF mergeSMFFails
  <2>12. CASE CopyTruncate(c)
    <3>1. DOMAIN files \subseteq DOMAIN files'
        BY <2>12 DEF CopyTruncate, With
    <3>2. NamedBy(c)'
        BY <2>0, <2>12, <3>1 DEF CopyTruncate, NamedBy, Goto, Shapes, Mine
    <3> QED BY <2>0, <2>12, <3>1, <3>2, NamedWhileFilesGrow DEF CopyTruncate, Goto, Shapes
  <2>13. CASE CopyWrite(c)
    <3>1. DOMAIN files \subseteq DOMAIN files'
        BY <2>13 DEF CopyWrite, With
    <3>2. NamedBy(c)'
        BY <2>0, <2>13, <3>1 DEF CopyWrite, NamedBy, Goto, Shapes, Mine
    <3> QED BY <2>0, <2>13, <3>1, <3>2, NamedWhileFilesGrow DEF CopyWrite, Goto, Shapes
  <2>14. CASE CopyFails(c)
    <3>1. ASSUME NEW smf, Answer(c, FALSE, {}, With(req[c].output, smf)) PROVE Named'
      <4>1. DOMAIN files \subseteq DOMAIN With(req[c].output, smf)
          BY DEF With
      <4> QED BY <3>1, <4>1, NamedAfterAnswer
    <3> QED BY <2>14, <3>1, NamedAfterFail DEF CopyFails
  <2>15. CASE RemoveTemp(c)
    <3>1. /\ smfPath[c] = out /\ req[c].output \in UserFiles /\ Copied(req[c])
          /\ UserFiles \subseteq DOMAIN files /\ Mine(c) \cap UserFiles = {}
          /\ cleanup[c] \subseteq Mine(c)
          /\ \A p \in cleanup[c] : p[1] = "analysis"
        BY <2>15 DEF RemoveTemp, WorkflowsInv, CallInv, Stages, Produced, Tidy, Removable,
                     FilesInv, Mine
    <3>2. DOMAIN files' = DOMAIN files \ {out} /\ out[1] = "out"
        BY <2>0, <2>15, <3>1, TempNames DEF RemoveTemp, Without
    <3>3. /\ smfPath'[c] = req[c].output /\ pc'[c] = "return" /\ cleanup'[c] = cleanup[c]
          /\ \A d \in Client \ {c} : /\ cleanup'[d] = cleanup[d] /\ smfPath'[d] = smfPath[d]
                                     /\ pc'[d] = pc[d] /\ calls'[d] = calls[d]
        BY <2>0, <2>15 DEF RemoveTemp, Goto, Shapes
    <3>4. NamedBy(c)'
        BY <2>0, <3>1, <3>2, <3>3 DEF NamedBy
    <3>5. ASSUME NEW d \in Client, d # c PROVE NamedBy(d)'
      <4>1. cleanup[d] \subseteq Mine(d) /\ Mine(d) \cap Mine(c) = {}
          BY <3>5 DEF WorkflowsInv, CallInv, Tidy, Removable, Mine
      <4>2. Mine(d)' = Mine(d)
          BY <3>3, <3>5 DEF Mine
      <4> QED BY <2>0, <3>1, <3>2, <3>3, <3>5, <4>1, <4>2 DEF Named, NamedBy
    <3> QED BY <3>4, <3>5 DEF Named
  <2>16. CASE Return(c)
      BY <2>16, NamedAfterAnswer DEF Return
  <2> QED BY <1>3, <2>1, <2>2, <2>3, <2>4, <2>5, <2>6, <2>7, <2>8, <2>9, <2>10, <2>11,
             <2>12, <2>13, <2>14, <2>15, <2>16 DEF Progress
<1> QED BY <1>1, <1>2, <1>3 DEF Next

(* Calls, names and files keep their shapes, and what a call names or has  *)
(* yet to remove exists, for any set of callers.                           *)
THEOREM WorkflowsTypeCorrect == Spec => []TypeOK
<1>1. Init => Named
    BY DEF Init, Named, NamedBy
<1>2. WorkflowsInv /\ Named => TypeOK
  <2> SUFFICES ASSUME WorkflowsInv, Named PROVE TypeOK
      OBVIOUS
  <2>1. \A c \in Client : base[c] # <<>> =>
          pc[c] \in {"merge", "length", "data"} /\ base[c][1].tracks \in Nat
      BY DEF WorkflowsInv, CallInv, BaseInv, FromVersions, Headers, Merging
  <2>2. \A p \in DOMAIN files : p \in UserFiles \/ p \in TempPath
      BY DEF WorkflowsInv, FilesInv
  <2> QED BY <2>1, <2>2 DEF TypeOK, WorkflowsInv, Shapes, Named, NamedBy, Exists
<1> QED BY <1>1, <1>2, NamedStep, WorkflowsInvariant, PTL DEF Spec

=============================================================================
