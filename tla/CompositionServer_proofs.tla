---------------------- MODULE CompositionServer_proofs ----------------------
(***************************************************************************)
(* Proofs about NewComposition: for any finite number of concurrent        *)
(* callers, any requests, seeds, prompts and lengths of compositions, with *)
(* cancelled calls, killed processes and full disks.                       *)
(***************************************************************************)
EXTENDS CompositionServer, FiniteSetTheorems, TLAPS

-----------------------------------------------------------------------------
(* The parts of the inductive invariant.                                   *)

(* met remembers every call that ran beside another one with its seed.     *)
MeetingsNoted ==
  \A c, d \in Client :
    c # d /\ pc[c] # "idle" /\ pc[d] # "idle" /\ req[c].seed = req[d].seed
      => met[c] /\ met[d]

(* An inode has one name at most, and a process writes to no other name    *)
(* than that of its own seed, whatever was removed and created meanwhile.  *)
InodesApart ==
  /\ \A n, m \in Names : dir[n] # NoFile /\ dir[n] = dir[m] => n = m
  /\ \A c \in Client, n \in Names :
       fd[c] # NoFile /\ fd[c] = dir[n] => n = req[c].seed

(* A call that met no other one with its seed finds its file as it left    *)
(* it: absent, empty, and then whole or, on a full disk, still empty.      *)
OwnFile ==
  \A c \in Client : ~met[c] =>
    LET file == dir[req[c].seed]
    IN /\ pc[c] = "start" => file = NoFile
       /\ pc[c] = "open" => file = fd[c] /\ data[file] = <<>>
       /\ pc[c] = "exited" /\ file # NoFile =>
            \/ data[file] = Smf(req[c])
            \/ DiskMayFill /\ req[c].prompt \in Buffered /\ data[file] = <<>>

ServerInv ==
  TypeOK /\ MeetingsNoted /\ InodesApart /\ OwnFile /\ SuccessIsOwnComposition

-----------------------------------------------------------------------------
(* There is always an inode that no name and no process holds.             *)
LEMMA InodeIsFree ==
  ASSUME TypeOK, NEW c \in Client
  PROVE  FreshInode \in Unused
<1> DEFINE named == {dir[n] : n \in Names}
           opened == {fd[d] : d \in Client}
<1>1. /\ IsFiniteSet(named) /\ Cardinality(named) <= Cardinality(Names)
  <2>1. dir \in Surjection(Names, named)
      BY DEF TypeOK, Surjection
  <2> QED BY <2>1, FS_Surjection, ServerAssumption
<1>2. /\ IsFiniteSet(opened) /\ Cardinality(opened) <= Cardinality(Client)
  <2>1. fd \in Surjection(Client, opened)
      BY DEF TypeOK, Surjection
  <2> QED BY <2>1, FS_Surjection, ServerAssumption
<1> HIDE DEF named, opened
<1>3. /\ IsFiniteSet(named \cup opened)
      /\ Cardinality(named \cup opened) <= Cardinality(Names) + Cardinality(Client)
  <2>1. /\ Cardinality(named) \in Nat /\ Cardinality(opened) \in Nat
        /\ Cardinality(Names) \in Nat /\ Cardinality(Client) \in Nat
      BY <1>1, <1>2, FS_CardinalityType, ServerAssumption
  <2>2. IsFiniteSet(named \cap opened)
      BY <1>1, FS_Subset
  <2>3. Cardinality(named \cap opened) \in Nat
      BY <2>2, FS_CardinalityType
  <2>4. /\ IsFiniteSet(named \cup opened)
        /\ Cardinality(named \cup opened)
             = Cardinality(named) + Cardinality(opened) - Cardinality(named \cap opened)
      BY <1>1, <1>2, FS_Union
  <2> QED BY <1>1, <1>2, <2>1, <2>3, <2>4
<1>4. Cardinality(Client) \in Nat \ {0} /\ Cardinality(Names) \in Nat
    BY FS_CardinalityType, FS_EmptySet, ServerAssumption
<1>5. Cardinality(Inode) = 2 * Cardinality(Client) + Cardinality(Names)
    BY <1>4, FS_Interval, SMTT(40) DEF Inode
<1>6. ~(Inode \subseteq named \cup opened)
  <2> SUFFICES ASSUME Inode \subseteq named \cup opened PROVE FALSE
      OBVIOUS
  <2>1. Cardinality(Inode) <= Cardinality(named \cup opened)
      BY <1>3, FS_Subset
  <2>2. Cardinality(named \cup opened) \in Nat
      BY <1>3, FS_CardinalityType
  <2> QED BY <1>3, <1>4, <1>5, <2>1, <2>2
<1>7. \E i : i \in Unused
    BY <1>6 DEF Unused, named, opened
<1> QED BY <1>7 DEF FreshInode

(* Writing into an empty inode leaves what was written.                    *)
LEMMA OverlayEmpty ==
  ASSUME NEW r \in [seed : Nat, prompt : Prompts]
  PROVE  Overlay(Smf(r), <<>>) = Smf(r)
<1>1. Size[r.prompt] \in Nat
    BY ServerAssumption
<1>2. Smf(r) \in Seq({r})
    BY <1>1 DEF Smf
<1>3. SubSeq(<<>>, Len(Smf(r)) + 1, Len(<<>>)) = <<>>
    BY <1>2
<1> QED BY <1>2, <1>3 DEF Overlay

(* The seed a call settles on is one of the names of the directory.        *)
LEMMA SettledRequest ==
  ASSUME NEW c \in Client, NEW r \in RequestsOf[c],
         NEW s \in IF r.seed = 0 THEN Seeds ELSE {r.seed}
  PROVE  /\ [r EXCEPT !.seed = s] \in [seed : Nat, prompt : Prompts]
         /\ [r EXCEPT !.seed = s].seed = s /\ s \in Names
<1>1. r \in Requests /\ r \in [seed : Nat, prompt : Prompts]
    BY ServerAssumption DEF Requests
<1>2. s \in Names /\ s \in Nat
    BY <1>1, ServerAssumption DEF Names
<1> QED BY <1>1, <1>2

(* A server that was asked nothing satisfies the invariant.                *)
LEMMA InitServerInv == Init => ServerInv
<1> SUFFICES ASSUME Init PROVE ServerInv
    OBVIOUS
<1>1. TypeOK
  <2>1. req \in [Client -> [seed : Nat, prompt : Prompts]]
    <3>1. \A c \in Client : (CHOOSE r \in RequestsOf[c] : TRUE) \in Requests
        BY ServerAssumption DEF Requests
    <3> QED BY <3>1, ServerAssumption DEF Init
  <2>2. met \in [Client -> BOOLEAN]
      BY Zenon DEF Init
  <2> QED BY <2>1, <2>2, ServerAssumption DEF Init, TypeOK
<1>2. MeetingsNoted /\ InodesApart /\ OwnFile /\ SuccessIsOwnComposition
    BY DEF Init, MeetingsNoted, InodesApart, OwnFile, SuccessIsOwnComposition
<1> QED BY <1>1, <1>2 DEF ServerInv

(* A call starts: from now on it is noted whom it meets.                   *)
LEMMA CallServerInv ==
  ASSUME ServerInv, NEW c \in Client, NEW r \in RequestsOf[c], Call(c, r)
  PROVE  ServerInv'
<1>1. PICK s \in IF r.seed = 0 THEN Seeds ELSE {r.seed} :
        req' = [req EXCEPT ![c] = [r EXCEPT !.seed = s]]
    BY DEF Call
<1> DEFINE q == [r EXCEPT !.seed = s]
           beside == {d \in Client \ {c} : pc[d] # "idle" /\ req[d].seed = req'[c].seed}
<1>2. q \in [seed : Nat, prompt : Prompts] /\ q.seed = s /\ s \in Names
    BY SettledRequest
<1>3. /\ pc[c] = "idle" /\ calls[c] < MaxCalls
      /\ met' = [d \in Client |-> IF d = c THEN beside # {} ELSE met[d] \/ d \in beside]
      /\ calls' = [calls EXCEPT ![c] = calls[c] + 1]
      /\ pc' = [pc EXCEPT ![c] = "remove"]
      /\ UNCHANGED <<fd, dir, data, answers>>
    BY DEF Call
<1>4. req' = [req EXCEPT ![c] = q] /\ req'[c] = q
    BY <1>1 DEF ServerInv, TypeOK
<1>5. met' \in [Client -> BOOLEAN]
  <2>1. (beside # {}) \in BOOLEAN /\ \A d \in Client : (met[d] \/ d \in beside) \in BOOLEAN
      OBVIOUS
  <2> HIDE DEF beside
  <2> QED BY <1>3, <2>1
<1>6. \A d \in Client \ {c} :
        /\ met[d] => met'[d]
        /\ d \in beside => met'[d] /\ met'[c]
  <2> HIDE DEF beside
  <2> QED BY <1>3
<1> HIDE DEF q
<1>7. TypeOK'
    BY <1>2, <1>3, <1>4, <1>5, ServerAssumption DEF ServerInv, TypeOK
<1>8. MeetingsNoted'
  <2> SUFFICES ASSUME NEW a \in Client, NEW b \in Client, a # b, pc'[a] # "idle",
                      pc'[b] # "idle", req'[a].seed = req'[b].seed
               PROVE  met'[a] /\ met'[b]
      BY DEF MeetingsNoted
  <2>1. CASE a # c /\ b # c
      BY <1>3, <1>4, <1>6, <2>1 DEF ServerInv, TypeOK, MeetingsNoted
  <2>2. CASE a = c
    <3>1. b \in beside
        BY <1>3, <1>4, <2>2 DEF ServerInv, TypeOK
    <3> QED BY <1>6, <2>2, <3>1
  <2>3. CASE b = c
    <3>1. a \in beside
        BY <1>3, <1>4, <2>3 DEF ServerInv, TypeOK
    <3> QED BY <1>6, <2>3, <3>1
  <2> QED BY <2>1, <2>2, <2>3
<1>9. InodesApart'
    BY <1>3, <1>4 DEF ServerInv, TypeOK, InodesApart
<1>10. OwnFile'
  <2> SUFFICES ASSUME NEW d \in Client, d # c, ~met'[d]
               PROVE  ~met[d] /\ pc'[d] = pc[d] /\ req'[d] = req[d]
      BY <1>3, <1>4 DEF ServerInv, TypeOK, OwnFile, Smf
  <2> QED BY <1>3, <1>4, <1>6 DEF ServerInv, TypeOK
<1>11. SuccessIsOwnComposition'
    BY <1>3 DEF ServerInv, SuccessIsOwnComposition, Smf
<1> QED BY <1>7, <1>8, <1>9, <1>10, <1>11 DEF ServerInv

(* A call that met nobody shares its seed with no other call.              *)
LEMMA AloneWithSeed ==
  ASSUME MeetingsNoted, NEW c \in Client, NEW d \in Client, c # d,
         ~met[d], pc[c] # "idle", pc[d] # "idle"
  PROVE  req[c].seed # req[d].seed
BY DEF MeetingsNoted

(* An error is answered: the process has gone, its file stays.             *)
LEMMA ErrorServerInv ==
  ASSUME ServerInv, NEW c \in Client, AnswerError(c), UNCHANGED data
  PROVE  ServerInv'
<1>1. TypeOK'
    BY DEF AnswerError, ServerInv, TypeOK
<1>2. MeetingsNoted'
    BY DEF AnswerError, ServerInv, TypeOK, MeetingsNoted
<1>3. InodesApart'
    BY DEF AnswerError, ServerInv, TypeOK, InodesApart
<1>4. OwnFile'
    BY DEF AnswerError, ServerInv, TypeOK, OwnFile, Smf
<1>5. SuccessIsOwnComposition'
    BY DEF AnswerError, ServerInv, SuccessIsOwnComposition, Smf
<1> QED BY <1>1, <1>2, <1>3, <1>4, <1>5 DEF ServerInv

(* The handler removes what its name led to.                               *)
LEMMA RemoveServerInv ==
  ASSUME ServerInv, NEW c \in Client, RemovePrevious(c)
  PROVE  ServerInv'
<1>1. TypeOK'
    BY DEF RemovePrevious, ServerInv, TypeOK
<1>2. MeetingsNoted'
    BY DEF RemovePrevious, ServerInv, TypeOK, MeetingsNoted
<1>3. InodesApart'
    BY DEF RemovePrevious, ServerInv, TypeOK, InodesApart
<1>4. OwnFile'
  <2>1. \A d \in Client : d # c /\ ~met[d] /\ pc[d] # "idle" =>
          req[d].seed # req[c].seed /\ req[d].seed \in Names
      BY AloneWithSeed DEF RemovePrevious, ServerInv, TypeOK
  <2>2. req[c].seed \in Names
      BY DEF RemovePrevious, ServerInv, TypeOK
  <2> QED BY <2>1, <2>2 DEF RemovePrevious, ServerInv, TypeOK, OwnFile, Smf
<1>5. SuccessIsOwnComposition'
    BY DEF RemovePrevious, ServerInv, SuccessIsOwnComposition, Smf
<1> QED BY <1>1, <1>2, <1>3, <1>4, <1>5 DEF ServerInv

(* mte_cli opens its output: a new inode, or the one its name leads to.    *)
LEMMA OpenServerInv ==
  ASSUME ServerInv, NEW c \in Client, CliOpen(c)
  PROVE  ServerInv'
<1> DEFINE n == req[c].seed
           i == IF dir[n] = NoFile THEN FreshInode ELSE dir[n]
<1>1. /\ pc[c] = "start" /\ n \in Names
      /\ dir' = [dir EXCEPT ![n] = i] /\ fd' = [fd EXCEPT ![c] = i]
      /\ data' = [data EXCEPT ![i] = <<>>]
      /\ pc' = [pc EXCEPT ![c] = "open"]
      /\ UNCHANGED <<req, answers, calls, met>>
    BY DEF CliOpen, ServerInv, TypeOK
<1>2. /\ i \in Inode /\ i # NoFile
      /\ \A m \in Names : dir[m] = i => m = n
      /\ \A d \in Client : fd[d] = i => req[d].seed = n
  <2>1. CASE dir[n] = NoFile
    <3>1. i \in Unused
        BY <2>1, InodeIsFree DEF ServerInv
    <3> QED BY <3>1 DEF Unused, Inode, NoFile
  <2>2. CASE dir[n] # NoFile
      BY <1>1, <2>2 DEF ServerInv, TypeOK, InodesApart, Inode, NoFile
  <2> QED BY <2>1, <2>2
<1> HIDE DEF i
<1>3. TypeOK'
    BY <1>1, <1>2 DEF ServerInv, TypeOK
<1>4. MeetingsNoted'
    BY <1>1 DEF ServerInv, TypeOK, MeetingsNoted
<1>5. InodesApart'
    BY <1>1, <1>2 DEF ServerInv, TypeOK, InodesApart
<1>6. OwnFile'
  <2>1. ASSUME NEW d \in Client, d # c, ~met[d], pc[d] # "idle"
        PROVE  /\ req[d].seed # n /\ req[d].seed \in Names
               /\ dir'[req[d].seed] = dir[req[d].seed] /\ dir[req[d].seed] # i
      BY <1>1, <1>2, <2>1, AloneWithSeed DEF ServerInv, TypeOK
  <2>2. ASSUME NEW d \in Client, d # c, ~met[d], pc[d] # "idle", dir[req[d].seed] # NoFile
        PROVE  data'[dir[req[d].seed]] = data[dir[req[d].seed]]
      BY <1>1, <2>1, <2>2 DEF ServerInv, TypeOK
  <2>3. dir'[n] = i /\ fd'[c] = i /\ data'[i] = <<>>
      BY <1>1, <1>2 DEF ServerInv, TypeOK
  <2> QED BY <1>1, <2>1, <2>2, <2>3 DEF ServerInv, TypeOK, OwnFile, Smf
<1>7. SuccessIsOwnComposition'
    BY <1>1 DEF ServerInv, SuccessIsOwnComposition, Smf
<1> QED BY <1>3, <1>4, <1>5, <1>6, <1>7 DEF ServerInv

(* What mte_cli writes does not reach the file of another call that met    *)
(* nobody: their inodes differ.                                            *)
LEMMA WriteElsewhere ==
  ASSUME ServerInv, NEW c \in Client, pc[c] = "open", NEW e,
         data' = [data EXCEPT ![fd[c]] = e],
         NEW d \in Client, d # c, ~met[d], pc[d] # "idle", dir[req[d].seed] # NoFile
  PROVE  data'[dir[req[d].seed]] = data[dir[req[d].seed]]
<1>1. req[d].seed \in Names /\ req[d].seed # req[c].seed
    BY AloneWithSeed DEF ServerInv, TypeOK
<1>2. dir[req[d].seed] # fd[c]
    BY <1>1 DEF ServerInv, TypeOK, InodesApart
<1> QED BY <1>1, <1>2 DEF ServerInv, TypeOK

(* mte_cli writes all of its composition: out.write of a process alone     *)
(* with its seed fills an empty file.                                      *)
LEMMA WriteServerInv ==
  ASSUME ServerInv, NEW c \in Client, CliWrite(c)
  PROVE  ServerInv'
<1> DEFINE e == Overlay(Smf(req[c]), data[fd[c]])
<1>1. /\ pc[c] = "open" /\ fd[c] \in Inode
      /\ data' = [data EXCEPT ![fd[c]] = e]
      /\ fd' = [fd EXCEPT ![c] = NoFile] /\ pc' = [pc EXCEPT ![c] = "exited"]
      /\ UNCHANGED <<req, dir, answers, calls, met>>
    BY DEF CliWrite, ServerInv, TypeOK
<1>2. ~met[c] => dir[req[c].seed] = fd[c] /\ e = Smf(req[c])
    BY <1>1, OverlayEmpty DEF ServerInv, TypeOK, OwnFile
<1> HIDE DEF e
<1>3. TypeOK'
    BY <1>1 DEF ServerInv, TypeOK
<1>4. MeetingsNoted'
    BY <1>1 DEF ServerInv, TypeOK, MeetingsNoted
<1>5. InodesApart'
    BY <1>1 DEF ServerInv, TypeOK, InodesApart
<1>6. OwnFile'
  <2>1. ASSUME NEW d \in Client, d # c, ~met[d], pc[d] # "idle", dir[req[d].seed] # NoFile
        PROVE  data'[dir[req[d].seed]] = data[dir[req[d].seed]]
      BY <1>1, <2>1, WriteElsewhere
  <2>2. ~met[c] => data'[dir[req[c].seed]] = Smf(req[c])
      BY <1>1, <1>2 DEF ServerInv, TypeOK
  <2> SUFFICES ASSUME NEW d \in Client, ~met[d]
               PROVE  /\ pc'[d] = "start" => dir[req[d].seed] = NoFile
                      /\ pc'[d] = "open" =>
                           dir[req[d].seed] = fd'[d] /\ data'[dir[req[d].seed]] = <<>>
                      /\ pc'[d] = "exited" /\ dir[req[d].seed] # NoFile =>
                           \/ data'[dir[req[d].seed]] = Smf(req[d])
                           \/ /\ DiskMayFill /\ req[d].prompt \in Buffered
                              /\ data'[dir[req[d].seed]] = <<>>
      BY <1>1 DEF OwnFile, Smf
  <2>3. CASE d = c
      BY <1>1, <2>2, <2>3 DEF ServerInv, TypeOK
  <2>4. CASE d # c
      BY <1>1, <2>1, <2>4 DEF ServerInv, TypeOK, OwnFile
  <2> QED BY <2>3, <2>4
<1>7. SuccessIsOwnComposition'
    BY <1>1 DEF ServerInv, SuccessIsOwnComposition, Smf
<1> QED BY <1>3, <1>4, <1>5, <1>6, <1>7 DEF ServerInv

(* A full disk swallows the flush of a small composition: the file stays   *)
(* empty and mte_cli says nothing.                                         *)
LEMMA WriteLostServerInv ==
  ASSUME ServerInv, NEW c \in Client, CliWriteLost(c)
  PROVE  ServerInv'
<1>1. TypeOK'
    BY DEF CliWriteLost, ServerInv, TypeOK
<1>2. MeetingsNoted'
    BY DEF CliWriteLost, ServerInv, TypeOK, MeetingsNoted
<1>3. InodesApart'
    BY DEF CliWriteLost, ServerInv, TypeOK, InodesApart
<1>4. OwnFile'
    BY DEF CliWriteLost, ServerInv, TypeOK, OwnFile, Smf
<1>5. SuccessIsOwnComposition'
    BY DEF CliWriteLost, ServerInv, SuccessIsOwnComposition, Smf
<1> QED BY <1>1, <1>2, <1>3, <1>4, <1>5 DEF ServerInv

(* A full disk stops out.write half way: the call answers with the error.  *)
LEMMA WriteFailsServerInv ==
  ASSUME ServerInv, NEW c \in Client, CliWriteFails(c)
  PROVE  ServerInv'
<1>1. PICK k : data' = [data EXCEPT ![fd[c]] = Overlay(SubSeq(Smf(req[c]), 1, k), data[fd[c]])]
    BY DEF CliWriteFails
<1> DEFINE e == Overlay(SubSeq(Smf(req[c]), 1, k), data[fd[c]])
<1>2. /\ pc[c] = "open" /\ fd[c] \in Inode /\ data' = [data EXCEPT ![fd[c]] = e]
      /\ pc' = [pc EXCEPT ![c] = "idle"] /\ fd' = [fd EXCEPT ![c] = NoFile]
      /\ UNCHANGED <<req, dir, answers, calls, met>>
    BY <1>1 DEF CliWriteFails, AnswerError, ServerInv, TypeOK
<1> HIDE DEF e
<1>3. TypeOK'
    BY <1>2 DEF ServerInv, TypeOK
<1>4. MeetingsNoted'
    BY <1>2 DEF ServerInv, TypeOK, MeetingsNoted
<1>5. InodesApart'
    BY <1>2 DEF ServerInv, TypeOK, InodesApart
<1>6. OwnFile'
  <2>1. ASSUME NEW d \in Client, d # c, ~met[d], pc[d] # "idle", dir[req[d].seed] # NoFile
        PROVE  data'[dir[req[d].seed]] = data[dir[req[d].seed]]
      BY <1>2, <2>1, WriteElsewhere
  <2> QED BY <1>2, <2>1 DEF ServerInv, TypeOK, OwnFile, Smf, Inode, NoFile
<1>7. SuccessIsOwnComposition'
    BY <1>2 DEF ServerInv, SuccessIsOwnComposition, Smf
<1> QED BY <1>3, <1>4, <1>5, <1>6, <1>7 DEF ServerInv

(* The response carries what the name leads to when it is read.            *)
LEMMA ReadServerInv ==
  ASSUME ServerInv, NEW c \in Client, ReadBack(c)
  PROVE  ServerInv'
<1>1. TypeOK'
    BY DEF ReadBack, ServerInv, TypeOK
<1>2. MeetingsNoted'
    BY DEF ReadBack, ServerInv, TypeOK, MeetingsNoted
<1>3. InodesApart'
    BY DEF ReadBack, ServerInv, TypeOK, InodesApart
<1>4. OwnFile'
    BY DEF ReadBack, ServerInv, TypeOK, OwnFile, Smf
<1>5. SuccessIsOwnComposition'
  <2> DEFINE new == [req |-> req[c], smf |-> data[dir[req[c].seed]], alone |-> ~met[c]]
  <2>1. answers' = answers \cup {new}
      BY DEF ReadBack
  <2>2. new.alone => \/ new.smf = Smf(new.req)
                     \/ DiskMayFill /\ new.req.prompt \in Buffered /\ new.smf = <<>>
      BY DEF ReadBack, ServerInv, OwnFile
  <2> HIDE DEF new
  <2> QED BY <2>1, <2>2 DEF ServerInv, SuccessIsOwnComposition, Smf
<1> QED BY <1>1, <1>2, <1>3, <1>4, <1>5 DEF ServerInv

(* Every step of every call preserves the invariant.                       *)
LEMMA StepServerInv == ServerInv /\ [Next]_vars => ServerInv'
<1> SUFFICES ASSUME ServerInv, [Next]_vars PROVE ServerInv'
    OBVIOUS
<1>1. ASSUME UNCHANGED vars PROVE ServerInv'
    BY <1>1 DEF vars, ServerInv, TypeOK, MeetingsNoted, InodesApart, OwnFile,
       SuccessIsOwnComposition, Smf
<1>2. ASSUME NEW c \in Client, CliRejects(c) \/ Cancel(c) \/ ReadMissing(c)
      PROVE  ServerInv'
    BY <1>2, ErrorServerInv DEF CliRejects, Cancel, ReadMissing
<1> QED
    BY <1>1, <1>2, CallServerInv, RemoveServerInv, OpenServerInv, WriteServerInv,
       WriteLostServerInv, WriteFailsServerInv, ReadServerInv
    DEF Next, Progress

(* The invariant holds at every moment of the server.                      *)
LEMMA ServerInvariance == Spec => []ServerInv
BY InitServerInv, StepServerInv, PTL DEF Spec

-----------------------------------------------------------------------------
(* The variables keep their shapes: in particular, the bounded supply of   *)
(* inodes never runs out, so the bound hides no behaviour.                 *)
THEOREM ServerTypeCorrect == Spec => []TypeOK
<1>1. ServerInv => TypeOK
    BY DEF ServerInv
<1> QED BY <1>1, ServerInvariance, PTL

(* NewComposition answers Success with the whole composition of the call's *)
(* own seed and prompt, unless the call met another one with its seed or a *)
(* full disk swallowed the flush.                                          *)
THEOREM SuccessIsComplete == Spec => []SuccessIsOwnComposition
<1>1. ServerInv => SuccessIsOwnComposition
    BY DEF ServerInv
<1> QED BY <1>1, ServerInvariance, PTL

=============================================================================
