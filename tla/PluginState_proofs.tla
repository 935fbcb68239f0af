------------------------- MODULE PluginState_proofs -------------------------
(***************************************************************************)
(* Proofs about the plug-in's persisted state, for every set of prompts,   *)
(* every length of the history and any number of editor states in a        *)
(* project.                                                                *)
(*                                                                         *)
(* removeAllInstancesOf is defined by recursion along the history.  What   *)
(* it returns is shown by looking at the first position at which a claim   *)
(* would fail (FirstOf): no theorem with an operator parameter is needed.  *)
(***************************************************************************)
EXTENDS PluginState, FiniteSetTheorems, SequenceTheorems, WellFoundedInduction, TLAPS

-----------------------------------------------------------------------------
(* A set of natural numbers that is not empty has a least element.         *)
LEMMA FirstOf ==
  ASSUME NEW T, T \subseteq Nat, T # {}
  PROVE  \E n \in T : \A m \in T : n <= m
<1>1. PICK x \in T : \A y \in T : ~(<<y, x>> \in OpToRel(<, Nat))
    BY NatLessThanWellFounded, WFMin
<1>2. \A y \in T : ~(y < x)
    BY <1>1 DEF OpToRel
<1> QED BY <1>2

(* Hence a set that has 0 and with each number up to k the next one has    *)
(* all of them.                                                            *)
LEMMA UpTo ==
  ASSUME NEW k \in Nat, NEW T, 0 \in T,
         \A n \in 1..k : n - 1 \in T => n \in T
  PROVE  0..k \subseteq T
<1> SUFFICES ASSUME NEW m \in 0..k, m \notin T PROVE FALSE
    OBVIOUS
<1> DEFINE U == (0..k) \ T
<1>1. U \subseteq Nat /\ U # {}
    OBVIOUS
<1>2. PICK n \in U : \A i \in U : n <= i
    BY <1>1, FirstOf
<1>3. n \in 1..k /\ n - 1 \in 0..k /\ n - 1 \notin U
    BY <1>2
<1> QED BY <1>2, <1>3

-----------------------------------------------------------------------------
(* The recursion of removeAllInstancesOf up to position n.                 *)
Walks(f, n, h, p) ==
  f = [i \in 0..n |-> IF i = 0 THEN <<>>
                      ELSE IF h[i] = p THEN f[i - 1] ELSE Append(f[i - 1], h[i])]

(* There is such a function for every history.                             *)
LEMMA WalkExists ==
  ASSUME NEW h, NEW k \in Nat, NEW p
  PROVE  \E f : Walks(f, k, h, p)
<1> DEFINE T == {n \in 0..k : \E f : Walks(f, n, h, p)}
<1>1. 0 \in T
  <2>1. Walks([i \in 0..0 |-> <<>>], 0, h, p)
      BY DEF Walks
  <2> QED BY <2>1
<1>2. ASSUME NEW n \in 1..k, n - 1 \in T PROVE n \in T
  <2>1. PICK f : Walks(f, n - 1, h, p)
      BY <1>2
  <2> DEFINE g == [i \in 0..n |->
                     IF i < n THEN f[i]
                     ELSE IF h[i] = p THEN f[i - 1] ELSE Append(f[i - 1], h[i])]
  <2>2. Walks(g, n, h, p)
    <3>1. \A i \in 0..(n - 1) :
            f[i] = IF i = 0 THEN <<>>
                   ELSE IF h[i] = p THEN f[i - 1] ELSE Append(f[i - 1], h[i])
        BY <2>1 DEF Walks
    <3>2. \A i \in 0..n : i # 0 => g[i - 1] = f[i - 1]
        OBVIOUS
    <3>3. \A i \in 0..n :
            g[i] = IF i = 0 THEN <<>>
                   ELSE IF h[i] = p THEN g[i - 1] ELSE Append(g[i - 1], h[i])
        BY <3>1, <3>2
    <3> QED BY <3>3 DEF Walks
  <2> QED BY <2>2
<1> HIDE DEF T
<1>3. k \in T
    BY <1>1, <1>2, UpTo
<1> QED BY <1>3 DEF T

(* No prompt twice.                                                        *)
Distinct(h) == \A i, j \in 1..Len(h) : h[i] = h[j] => i = j

(* r is taken from the first n of h, without p.                            *)
TakenFrom(r, n, h, p) ==
  /\ r \in Seq(Prompt) /\ Len(r) <= n /\ Distinct(r)
  /\ \A k \in 1..Len(r) : \E i \in 1..n : r[k] = h[i] /\ h[i] # p

(* removeAllInstancesOf leaves a history that has not p and no prompt      *)
(* twice.                                                                  *)
LEMMA Removed ==
  ASSUME NEW h \in Seq(Prompt), NEW p, Distinct(h)
  PROVE  TakenFrom(removeAllInstancesOf(h, p), Len(h), h, p)
<1> DEFINE kept == CHOOSE f : Walks(f, Len(h), h, p)
           T == {n \in 0..Len(h) : TakenFrom(kept[n], n, h, p)}
<1>0. Len(h) \in Nat
    OBVIOUS
<1>1. removeAllInstancesOf(h, p) = kept[Len(h)]
    BY Zenon DEF removeAllInstancesOf, Walks
<1>2. Walks(kept, Len(h), h, p)
    BY <1>0, WalkExists, Zenon
<1> HIDE DEF kept
<1>3. /\ kept[0] = <<>>
      /\ \A n \in 1..Len(h) :
           kept[n] = IF h[n] = p THEN kept[n - 1] ELSE Append(kept[n - 1], h[n])
  <2>1. \A n \in 0..Len(h) :
          kept[n] = IF n = 0 THEN <<>>
                    ELSE IF h[n] = p THEN kept[n - 1] ELSE Append(kept[n - 1], h[n])
      BY <1>2, Zenon DEF Walks
  <2>2. 0 \in 0..Len(h) /\ \A n \in 1..Len(h) : n \in 0..Len(h) /\ n # 0
      BY <1>0
  <2> QED BY <2>1, <2>2, Zenon
<1>4. 0 \in T
  <2>1. TakenFrom(<<>>, 0, h, p)
      BY DEF TakenFrom, Distinct
  <2>2. 0 \in 0..Len(h)
      BY <1>0
  <2> QED BY <1>3, <2>1, <2>2
<1>5. ASSUME NEW n \in 1..Len(h), n - 1 \in T PROVE n \in T
  <2> DEFINE r == kept[n - 1]
  <2>1. TakenFrom(r, n - 1, h, p)
      BY <1>5
  <2>2. h[n] \in Prompt /\ n \in Nat /\ n \in 0..Len(h)
      BY <1>0
  <2> HIDE DEF r
  <2>3. CASE h[n] = p
    <3>1. TakenFrom(r, n, h, p)
        BY <2>1, <2>2 DEF TakenFrom
    <3> QED BY <1>3, <2>2, <2>3, <3>1 DEF r
  <2>4. CASE h[n] # p
    <3> DEFINE s == Append(r, h[n])
    <3>1. r \in Seq(Prompt) /\ Len(r) \in Nat /\ Len(r) <= n - 1
        BY <2>1 DEF TakenFrom
    <3>2. /\ s \in Seq(Prompt) /\ Len(s) = Len(r) + 1 /\ s[Len(r) + 1] = h[n]
          /\ \A k \in 1..Len(r) : s[k] = r[k]
        BY <2>2, <3>1, AppendProperties
    <3> HIDE DEF s
    <3>3. \A k \in 1..Len(r) : r[k] # h[n]
      <4> SUFFICES ASSUME NEW k \in 1..Len(r) PROVE r[k] # h[n]
          OBVIOUS
      <4>1. PICK i \in 1..(n - 1) : r[k] = h[i]
          BY <2>1 DEF TakenFrom
      <4>2. i \in 1..Len(h) /\ i # n
          BY <1>0, <2>2
      <4> QED BY <4>1, <4>2 DEF Distinct
    <3>4. Distinct(s)
      <4>1. \A k \in 1..Len(s) : k \in 1..Len(r) \/ k = Len(r) + 1
          BY <3>1, <3>2
      <4>2. \A i, j \in 1..Len(r) : r[i] = r[j] => i = j
          BY <2>1 DEF TakenFrom, Distinct
      <4> QED BY <3>2, <3>3, <4>1, <4>2 DEF Distinct
    <3>5. \A k \in 1..Len(s) : \E i \in 1..n : s[k] = h[i] /\ h[i] # p
      <4> SUFFICES ASSUME NEW k \in 1..Len(s)
                   PROVE  \E i \in 1..n : s[k] = h[i] /\ h[i] # p
          OBVIOUS
      <4>1. CASE k \in 1..Len(r)
        <5>1. PICK i \in 1..(n - 1) : r[k] = h[i] /\ h[i] # p
            BY <2>1, <4>1 DEF TakenFrom
        <5>2. i \in 1..n
            BY <2>2
        <5> QED BY <3>2, <4>1, <5>1, <5>2
      <4>2. CASE k = Len(r) + 1
          BY <2>2, <2>4, <3>2, <4>2
      <4> QED BY <3>1, <3>2, <4>1, <4>2
    <3>6. TakenFrom(s, n, h, p)
        BY <2>2, <3>1, <3>2, <3>4, <3>5 DEF TakenFrom
    <3> QED BY <1>3, <2>2, <2>4, <3>6 DEF r, s
  <2> QED BY <2>3, <2>4
<1> HIDE DEF T
<1>6. 0..Len(h) \subseteq T
    BY <1>0, <1>4, <1>5, UpTo
<1>7. Len(h) \in T
    BY <1>0, <1>6
<1> QED BY <1>1, <1>7 DEF T

-----------------------------------------------------------------------------
(* A history that is short enough and has no prompt twice.                 *)
Clean(h) == h \in Seq(Prompt) /\ Len(h) <= MaxHistory /\ Distinct(h)

(* Counting the prompts of such a history gives its length.                *)
LEMMA CleanCounts ==
  ASSUME NEW h, Clean(h)
  PROVE  Cardinality(ToSet(h)) = Len(h)
<1>1. h \in Seq(Prompt) /\ Len(h) \in Nat /\ DOMAIN h = 1..Len(h)
    BY DEF Clean
<1>2. ToSet(h) = {h[i] : i \in 1..Len(h)}
    BY <1>1 DEF ToSet
<1> DEFINE f == [i \in 1..Len(h) |-> h[i]]
<1>3. f \in Bijection(1..Len(h), ToSet(h))
  <2>1. f \in Injection(1..Len(h), ToSet(h))
      BY <1>2 DEF Injection, IsInjective, Clean, Distinct
  <2>2. f \in Surjection(1..Len(h), ToSet(h))
      BY <1>2 DEF Surjection
  <2> QED BY <2>1, <2>2 DEF Bijection
<1>4. ExistsBijection(1..Len(h), ToSet(h))
    BY <1>3 DEF ExistsBijection
<1> QED BY <1>1, <1>4, FS_CountingElements

(* A generation puts its prompt in front and keeps the history clean.      *)
LEMMA HistoryStaysClean ==
  ASSUME NEW h, NEW p \in Prompt, Clean(h)
  PROVE  Clean(addToHistory(h, p))
<1> DEFINE r == removeAllInstancesOf(h, p)
           new == <<p>> \o r
<1>0. MaxHistory \in Nat /\ MaxHistory > 0
    BY PluginStateAssumption
<1>1. TakenFrom(r, Len(h), h, p)
    BY Removed DEF Clean
<1>2. addToHistory(h, p) = IF Len(new) > MaxHistory THEN SubSeq(new, 1, MaxHistory) ELSE new
    BY DEF addToHistory
<1> HIDE DEF r
<1>3. r \in Seq(Prompt) /\ Len(r) \in Nat /\ \A k \in 1..Len(r) : r[k] # p
    BY <1>1 DEF TakenFrom
<1> DEFINE q == <<p>>
<1>4. q \in Seq(Prompt) /\ Len(q) = 1 /\ q[1] = p
    OBVIOUS
<1> HIDE DEF q
<1>5. /\ q \o r \in Seq(Prompt) /\ Len(q \o r) = 1 + Len(r)
      /\ \A i \in 1..(1 + Len(r)) : (q \o r)[i] = IF i <= 1 THEN q[i] ELSE r[i - 1]
  <2>1. /\ q \o r \in Seq(Prompt) /\ Len(q \o r) = Len(q) + Len(r)
        /\ \A i \in 1..(Len(q) + Len(r)) :
             (q \o r)[i] = IF i <= Len(q) THEN q[i] ELSE r[i - Len(q)]
      BY <1>3, <1>4, ConcatProperties
  <2> QED BY <1>4, <2>1
<1>6. new = q \o r
    BY DEF q
<1> HIDE DEF new
<1>7. /\ new \in Seq(Prompt) /\ Len(new) = 1 + Len(r) /\ new[1] = p
      /\ \A i \in 2..(1 + Len(r)) : new[i] = r[i - 1]
    BY <1>3, <1>4, <1>5, <1>6
<1>8. Distinct(new)
  <2> SUFFICES ASSUME NEW i \in 1..Len(new), NEW j \in 1..Len(new), new[i] = new[j]
               PROVE  i = j
      BY DEF Distinct
  <2>1. \A k \in 1..Len(new) : k = 1 \/ (k \in 2..(1 + Len(r)) /\ k - 1 \in 1..Len(r))
      BY <1>3, <1>7
  <2>2. CASE i = 1 \/ j = 1
      BY <1>3, <1>7, <2>1, <2>2
  <2>3. CASE i # 1 /\ j # 1
    <3>1. i - 1 \in 1..Len(r) /\ j - 1 \in 1..Len(r) /\ r[i - 1] = r[j - 1]
        BY <1>7, <2>1, <2>3
    <3>2. i - 1 = j - 1
        BY <1>1, <3>1 DEF TakenFrom, Distinct
    <3> QED BY <3>2
  <2> QED BY <2>2, <2>3
<1>9. CASE Len(new) > MaxHistory
  <2> DEFINE s == SubSeq(new, 1, MaxHistory)
  <2>1. /\ s \in Seq(Prompt) /\ Len(s) = MaxHistory
        /\ \A i \in 1..MaxHistory : s[i] = new[i]
      BY <1>0, <1>3, <1>7, <1>9, SubSeqProperties
  <2> HIDE DEF s
  <2>2. Distinct(s)
    <3>1. \A i \in 1..MaxHistory : i \in 1..Len(new)
        BY <1>0, <1>3, <1>7, <1>9
    <3> QED BY <1>8, <2>1, <3>1 DEF Distinct
  <2> QED BY <1>0, <1>2, <1>9, <2>1, <2>2 DEF Clean, s
<1>10. CASE ~(Len(new) > MaxHistory)
    BY <1>0, <1>2, <1>3, <1>7, <1>8, <1>10 DEF Clean
<1> QED BY <1>9, <1>10

-----------------------------------------------------------------------------
(* The parts of the inductive invariant.  Shapes, with what TypeOK leaves  *)
(* open: the project never holds more states than there may be children.   *)
OpenEditors == [open : {TRUE}, node : Node, history : Seq(Prompt), box : Text]

Shapes ==
  /\ content \in [Node -> Content]
  /\ children \in Seq(Node) /\ Len(children) <= MaxChildren
  /\ state \in Node
  /\ editor \in OpenEditors \cup {Closed}
  /\ project \in Seq(Content) /\ Len(project) <= MaxChildren
  /\ saved \in Content

Histories ==
  /\ \A n \in Node : Clean(content[n].history)
  /\ \A k \in 1..Len(project) : Clean(project[k].history)
  /\ editor.open => Clean(editor.history)

(* Which references are one node, unless the host restores below an open   *)
(* editor: the editor works on the processor's state, and that is the      *)
(* first of the children, which is the one that a restore takes.           *)
OneNode ==
  /\ editor.open => editor.node = state /\ editor.history = content[state].history
  /\ children # <<>> => children[1] = state

StateInv ==
  /\ Shapes /\ Histories
  /\ ~RestoreWhileOpen => OneNode /\ RestoresWhatWasSaved

LEMMA StateInit == Init => StateInv
<1> SUFFICES ASSUME Init PROVE StateInv
    OBVIOUS
<1>1. MaxChildren \in Nat /\ MaxHistory \in Nat
    BY PluginStateAssumption
<1>2. Empty \in Content /\ Clean(Empty.history) /\ 1 \in Node
    BY <1>1 DEF Empty, Content, Text, Clean, Distinct, Node
<1>3. Shapes
    BY <1>1, <1>2 DEF Init, Shapes, NotSaved
<1>4. Histories
    BY <1>2 DEF Init, Histories, NotSaved, Closed
<1>5. OneNode /\ RestoresWhatWasSaved
    BY DEF Init, OneNode, RestoresWhatWasSaved, Closed
<1> QED BY <1>3, <1>4, <1>5 DEF StateInv

(* The nodes a restore makes: as many as asked for, all different and      *)
(* none of them the editor's.                                              *)
LEMMA FreshNodes ==
  ASSUME NEW kept, kept = {} \/ \E n \in Node : kept = {n},
         NEW k \in 0..MaxChildren
  PROVE  /\ Fresh(kept, k) \in Seq(Node) /\ Len(Fresh(kept, k)) = k
         /\ DOMAIN Fresh(kept, k) = 1..k
         /\ Distinct(Fresh(kept, k)) /\ \A i \in 1..k : Fresh(kept, k)[i] \notin kept
<1>1. MaxChildren \in Nat
    BY PluginStateAssumption
<1>2. \A i \in 1..k : i \in Node /\ i + 1 \in Node
    BY <1>1 DEF Node
<1>3. Fresh(kept, k) = [i \in 1..k |-> IF \E n \in kept : n <= i THEN i + 1 ELSE i]
    BY DEF Fresh
<1>4. Fresh(kept, k) \in [1..k -> Node]
    BY <1>2, <1>3
<1>5. \A i, j \in 1..k : Fresh(kept, k)[i] = Fresh(kept, k)[j] => i = j
    BY <1>1, <1>3 DEF Node
<1>6. \A i \in 1..k : Fresh(kept, k)[i] \notin kept
    BY <1>1, <1>3 DEF Node
<1> HIDE DEF Fresh
<1>7. Fresh(kept, k) \in Seq(Node) /\ Len(Fresh(kept, k)) = k /\ DOMAIN Fresh(kept, k) = 1..k
    BY <1>1, <1>4
<1> QED BY <1>5, <1>6, <1>7 DEF Distinct

(* An editor that is open has all its fields.                              *)
LEMMA OpenShape ==
  ASSUME StateInv, editor.open
  PROVE  /\ editor \in OpenEditors /\ editor.node \in Node
         /\ editor.history \in Seq(Prompt) /\ editor.box \in Text
<1>1. editor \in OpenEditors
    BY DEF StateInv, Shapes, Closed
<1> QED BY <1>1 DEF OpenEditors

(* setStateInformation and Reload: the children are the project's states,  *)
(* and the processor's is the first of them.                               *)
LEMMA RestoreStep ==
  ASSUME StateInv, NEW kept, kept = {} \/ \E n \in Node : kept = {n},
         project # NotSaved, Restore(kept), UNCHANGED <<project, saved>>
  PROVE  /\ content' \in [Node -> Content] /\ (\A n \in Node : Clean(content'[n].history))
         /\ \A n \in kept : content'[n] = content[n]
         /\ children' \in Seq(Node) /\ Len(children') <= MaxChildren
         /\ state' \in Node /\ children'[1] = state'
<1> DEFINE k == Len(project)
           new == Fresh(kept, k)
<1>1. MaxChildren \in Nat /\ MaxHistory \in Nat
    BY PluginStateAssumption
<1>2. k \in 1..MaxChildren /\ project \in Seq(Content)
    BY <1>1 DEF StateInv, Shapes, NotSaved
<1>3. new \in Seq(Node) /\ Len(new) = k /\ DOMAIN new = 1..k
  <2>1. k \in 0..MaxChildren
      BY <1>1, <1>2
  <2> HIDE DEF k
  <2> QED BY <2>1, FreshNodes
<1>4. /\ children' = new /\ state' = new[1]
      /\ content' = [n \in Node |->
           IF n \in kept THEN content[n]
           ELSE IF n \in ToSet(new) THEN project[CHOOSE i \in DOMAIN new : new[i] = n]
           ELSE Empty]
    BY DEF Restore
<1> HIDE DEF new
<1>5. ASSUME NEW n \in ToSet(new)
      PROVE  (CHOOSE i \in DOMAIN new : new[i] = n) \in 1..k
  <2>1. \E i \in DOMAIN new : new[i] = n
      BY <1>3 DEF ToSet
  <2>2. (CHOOSE i \in DOMAIN new : new[i] = n) \in DOMAIN new
      BY <2>1, Zenon
  <2> QED BY <1>3, <2>2
<1>6. Empty \in Content /\ Clean(Empty.history)
    BY <1>1 DEF Empty, Content, Text, Clean, Distinct
<1>7. \A n \in Node : content[n] \in Content /\ Clean(content[n].history)
    BY DEF StateInv, Shapes, Histories
<1>8. \A i \in 1..k : project[i] \in Content /\ Clean(project[i].history)
    BY <1>2 DEF StateInv, Histories
<1>9. \A n \in Node : content'[n] \in Content /\ Clean(content'[n].history)
  <2> SUFFICES ASSUME NEW n \in Node
               PROVE  content'[n] \in Content /\ Clean(content'[n].history)
      OBVIOUS
  <2>1. CASE n \in kept
      BY <1>4, <1>7, <2>1
  <2>2. CASE n \notin kept /\ n \in ToSet(new)
    <3> DEFINE i == CHOOSE i \in DOMAIN new : new[i] = n
    <3>1. i \in 1..k
        BY <1>5, <2>2
    <3>2. content'[n] = project[i]
        BY <1>4, <2>2
    <3> QED BY <1>8, <3>1, <3>2
  <2>3. CASE n \notin kept /\ n \notin ToSet(new)
      BY <1>4, <1>6, <2>3
  <2> QED BY <2>1, <2>2, <2>3
<1>10. new[1] \in Node
    BY <1>2, <1>3
<1> QED BY <1>1, <1>2, <1>3, <1>4, <1>9, <1>10

(* Writing the editor's history and prompt into its node.                  *)
LEMMA SaveStep ==
  ASSUME StateInv, editor.open, NEW history, Clean(history), saveState(history)
  PROVE  /\ content' \in [Node -> Content] /\ (\A n \in Node : Clean(content'[n].history))
         /\ state' = editor.node /\ state' \in Node
         /\ content'[editor.node].history = history
<1>1. editor \in OpenEditors
    BY DEF StateInv, Shapes, Closed
<1>2. editor.node \in Node /\ editor.box \in Text
    BY <1>1 DEF OpenEditors
<1> DEFINE new == [history |-> history, prompt |-> editor.box]
<1>3. new \in Content
    BY <1>2 DEF Content, Clean
<1>4. content' = [content EXCEPT ![editor.node] = new] /\ state' = editor.node
    BY DEF saveState
<1>5. content \in [Node -> Content] /\ \A n \in Node : Clean(content[n].history)
    BY DEF StateInv, Shapes, Histories
<1>6. new.history = history
    OBVIOUS
<1> HIDE DEF new
<1>7. \A n \in Node : content'[n] = IF n = editor.node THEN new ELSE content[n]
    BY <1>4, <1>5
<1>8. content' \in [Node -> Content]
    BY <1>3, <1>4, <1>5
<1>9. \A n \in Node : Clean(content'[n].history)
    BY <1>5, <1>6, <1>7
<1> QED BY <1>2, <1>4, <1>6, <1>7, <1>8, <1>9

LEMMA StateStep == StateInv /\ [Next]_vars => StateInv'
<1> SUFFICES ASSUME StateInv, [Next]_vars PROVE StateInv'
    OBVIOUS
<1>0. MaxChildren \in Nat /\ MaxHistory \in Nat
    BY PluginStateAssumption
<1>1. /\ content \in [Node -> Content] /\ state \in Node
      /\ children \in Seq(Node) /\ Len(children) <= MaxChildren
      /\ project \in Seq(Content) /\ Len(project) <= MaxChildren
      /\ editor.open => /\ editor \in OpenEditors /\ editor.node \in Node
                        /\ editor.history \in Seq(Prompt) /\ editor.box \in Text
                        /\ Clean(editor.history)
    BY OpenShape DEF StateInv, Shapes, Histories
<1>2. ~Closed.open
    BY DEF Closed
<1>3. CASE UNCHANGED vars
    BY <1>3 DEF vars, StateInv, Shapes, Histories, OneNode, RestoresWhatWasSaved
<1>4. CASE OpenEditor
  <2>1. /\ content[state] \in Content /\ Clean(content[state].history)
        /\ content[state].history \in Seq(Prompt) /\ content[state].prompt \in Text
      BY <1>1 DEF StateInv, Histories, Content
  <2>2. /\ editor' \in OpenEditors /\ editor'.node = state
        /\ editor'.history = content[state].history
      BY <1>1, <1>4, <2>1 DEF OpenEditor, OpenEditors
  <2> QED BY <1>4, <2>1, <2>2 DEF OpenEditor, StateInv, Shapes, Histories, OneNode,
                                  RestoresWhatWasSaved
<1>5. CASE CloseEditor
    BY <1>2, <1>5 DEF CloseEditor, StateInv, Shapes, Histories, OneNode, RestoresWhatWasSaved
<1>6. ASSUME NEW t \in Text, editor.open, editor' = [editor EXCEPT !.box = t],
             UNCHANGED <<content, children, state, project, saved>>
      PROVE  StateInv'
  <2>1. /\ editor' \in OpenEditors /\ editor'.open /\ editor'.node = editor.node
        /\ editor'.history = editor.history
      BY <1>1, <1>6 DEF OpenEditors
  <2> QED BY <1>6, <2>1 DEF StateInv, Shapes, Histories, OneNode, RestoresWhatWasSaved
<1>7. ASSUME NEW t \in Text, Type(t) PROVE StateInv'
    BY <1>6, <1>7 DEF Type
<1>8. ASSUME NEW i \in 1..MaxHistory, PickFromHistory(i) PROVE StateInv'
  <2>1. editor.open /\ editor.history[i] \in Text
      BY <1>1, <1>8 DEF PickFromHistory, Text
  <2> QED BY <1>6, <1>8, <2>1 DEF PickFromHistory
<1>9. CASE onGenerate
  <2> DEFINE history == addToHistory(editor.history, editor.box)
  <2>1. editor.open /\ editor.box \in Prompt
      BY <1>1, <1>9 DEF onGenerate, Text
  <2>2. Clean(history)
      BY <1>1, <2>1, HistoryStaysClean
  <2>3. saveState(history) /\ editor' = [editor EXCEPT !.history = history]
        /\ UNCHANGED <<children, project, saved>>
      BY <1>9 DEF onGenerate
  <2> HIDE DEF history
  <2>4. /\ content' \in [Node -> Content] /\ (\A n \in Node : Clean(content'[n].history))
        /\ state' = editor.node /\ state' \in Node
        /\ content'[editor.node].history = history
      BY <2>1, <2>2, <2>3, SaveStep
  <2>5. /\ editor' \in OpenEditors /\ editor'.open /\ editor'.node = editor.node
        /\ editor'.history = history
      BY <1>1, <2>1, <2>2, <2>3 DEF OpenEditors, Clean
  <2>6. Shapes' /\ Histories'
      BY <2>2, <2>3, <2>4, <2>5 DEF StateInv, Shapes, Histories
  <2>7. ~RestoreWhileOpen => OneNode' /\ RestoresWhatWasSaved'
      BY <2>1, <2>3, <2>4, <2>5 DEF StateInv, OneNode, RestoresWhatWasSaved
  <2> QED BY <2>6, <2>7 DEF StateInv
<1>10. CASE SelectWorkflow
  <2>1. /\ editor.open /\ saveState(editor.history) /\ UNCHANGED <<children, editor, project, saved>>
      BY <1>10 DEF SelectWorkflow
  <2>2. /\ content' \in [Node -> Content] /\ (\A n \in Node : Clean(content'[n].history))
        /\ state' = editor.node /\ state' \in Node
        /\ content'[editor.node].history = editor.history
      BY <1>1, <2>1, SaveStep
  <2> QED BY <2>1, <2>2 DEF StateInv, Shapes, Histories, OneNode, RestoresWhatWasSaved
<1>11. CASE getStateInformation
  <2> DEFINE old == Contents(children)
  <2>1. /\ Len(children) < MaxChildren /\ project' = Append(old, content[state])
        /\ saved' = content[state] /\ UNCHANGED <<content, children, state, editor>>
      BY <1>11 DEF getStateInformation
  <2>2. /\ old \in Seq(Content) /\ Len(old) = Len(children)
        /\ \A k \in 1..Len(children) : old[k] = content[children[k]]
      BY <1>1 DEF Contents
  <2>3. content[state] \in Content /\ Len(children) \in Nat
      BY <1>1
  <2> HIDE DEF old
  <2>4. /\ project' \in Seq(Content) /\ Len(project') = Len(children) + 1
        /\ \A k \in 1..Len(children) : project'[k] = old[k]
        /\ project'[Len(children) + 1] = content[state]
      BY <2>1, <2>2, <2>3, AppendProperties
  <2>5. ASSUME NEW k \in 1..Len(project') PROVE Clean(project'[k].history)
    <3>1. k \in 1..Len(children) \/ k = Len(children) + 1
        BY <2>3, <2>4
    <3>2. \A n \in Node : Clean(content[n].history)
        BY DEF StateInv, Histories
    <3>3. k \in 1..Len(children) => children[k] \in Node
        BY <1>1
    <3> QED BY <1>1, <2>2, <2>4, <3>1, <3>2, <3>3
  <2>6. ASSUME ~RestoreWhileOpen PROVE RestoresWhatWasSaved'
    <3>1. CASE children = <<>>
      <4>1. Len(children) = 0
          BY <3>1
      <4> QED BY <2>1, <2>4, <4>1 DEF RestoresWhatWasSaved
    <3>2. CASE children # <<>>
      <4>1. children[1] = state /\ 1 \in 1..Len(children)
          BY <1>1, <2>6, <3>2 DEF StateInv, OneNode
      <4> QED BY <2>1, <2>2, <2>4, <4>1 DEF RestoresWhatWasSaved
    <3> QED BY <3>1, <3>2
  <2>7. Shapes' /\ Histories'
      BY <1>0, <2>1, <2>3, <2>4, <2>5 DEF StateInv, Shapes, Histories
  <2>8. ~RestoreWhileOpen => OneNode'
      BY <2>1 DEF StateInv, OneNode
  <2> QED BY <2>6, <2>7, <2>8 DEF StateInv
<1>12. CASE setStateInformation
  <2> DEFINE kept == IF editor.open THEN {editor.node} ELSE {}
  <2>1. /\ project # NotSaved /\ (RestoreWhileOpen \/ ~editor.open) /\ Restore(kept)
        /\ UNCHANGED <<editor, project, saved>>
      BY <1>12 DEF setStateInformation
  <2>2. kept = {} \/ \E n \in Node : kept = {n}
      BY <1>1
  <2> HIDE DEF kept
  <2>3. /\ content' \in [Node -> Content] /\ (\A n \in Node : Clean(content'[n].history))
        /\ children' \in Seq(Node) /\ Len(children') <= MaxChildren
        /\ state' \in Node /\ children'[1] = state'
      BY <2>1, <2>2, RestoreStep
  <2> QED BY <2>1, <2>3 DEF StateInv, Shapes, Histories, OneNode, RestoresWhatWasSaved
<1>13. CASE Reload
  <2>1. /\ project # NotSaved /\ Restore({}) /\ editor' = Closed
        /\ UNCHANGED <<project, saved>>
      BY <1>13 DEF Reload
  <2>2. /\ content' \in [Node -> Content] /\ (\A n \in Node : Clean(content'[n].history))
        /\ children' \in Seq(Node) /\ Len(children') <= MaxChildren
        /\ state' \in Node /\ children'[1] = state'
      BY <2>1, RestoreStep
  <2> QED BY <1>2, <2>1, <2>2 DEF StateInv, Shapes, Histories, OneNode, RestoresWhatWasSaved
<1> QED BY <1>3, <1>4, <1>5, <1>7, <1>8, <1>9, <1>10, <1>11, <1>12, <1>13
        DEF Next, User, Host

-----------------------------------------------------------------------------
(* The invariant of trees, editor and project, whenever the host restores. *)
THEOREM StateInvariant == Spec => []StateInv
BY StateInit, StateStep, PTL DEF Spec

(* Nodes, editor and project keep their shapes, also when the host         *)
(* restores below an open editor.                                          *)
THEOREM StateTypeCorrect == Spec => []TypeOK
<1>1. StateInv => TypeOK
    BY OpenShape DEF StateInv, Shapes, TypeOK
<1> QED BY <1>1, StateInvariant, PTL

(* getStateInformation, setStateInformation: a project gives back what was *)
(* saved, however often it was saved and restored before, for a host that  *)
(* does not restore below an open editor.                                  *)
THEOREM RestoredAsSaved ==
  ASSUME ~RestoreWhileOpen
  PROVE  Spec => []RestoresWhatWasSaved
<1>1. StateInv => RestoresWhatWasSaved
    BY DEF StateInv
<1> QED BY <1>1, StateInvariant, PTL

(* addToHistory, saveState: the open editor works on the processor's       *)
(* state, and no history anywhere is too long or holds a prompt twice.     *)
THEOREM EditorStaysCurrent ==
  ASSUME ~RestoreWhileOpen
  PROVE  Spec => []EditorIsCurrent
<1>1. StateInv => EditorIsCurrent
  <2> SUFFICES ASSUME StateInv PROVE EditorIsCurrent
      OBVIOUS
  <2>1. editor.open => editor.node = state /\ editor.history = content[state].history
      BY DEF StateInv, OneNode
  <2>2. \A n \in Node : /\ Len(content[n].history) <= MaxHistory
                        /\ Cardinality(ToSet(content[n].history)) = Len(content[n].history)
      BY CleanCounts DEF StateInv, Histories, Clean
  <2>3. \A i \in DOMAIN project :
          /\ Len(project[i].history) <= MaxHistory
          /\ Cardinality(ToSet(project[i].history)) = Len(project[i].history)
    <3>1. DOMAIN project = 1..Len(project)
        BY DEF StateInv, Shapes
    <3> QED BY <3>1, CleanCounts DEF StateInv, Histories, Clean
  <2> QED BY <2>1, <2>2, <2>3 DEF EditorIsCurrent
<1> QED BY <1>1, StateInvariant, PTL

=============================================================================
