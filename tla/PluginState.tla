---------------------------- MODULE PluginState ----------------------------
(***************************************************************************)
(* The plug-in's persisted state: the editor's prompt history and prompt   *)
(* (PluginEditor.cpp) and their way through the processor into the host's  *)
(* project and back (PluginProcessor.cpp).                                 *)
(*                                                                         *)
(* A juce::ValueTree is a reference to a shared node.  The processor's     *)
(* state_, the editor's state_ and the editor states below the parameter   *)
(* tree apvts_.state may be one node or several, and which they are        *)
(* decides what a project restores.  Nodes are numbers; content says what  *)
(* is in them.  What JUCE does with trees (copyState copies deeply,        *)
(* replaceState keeps the given tree, getChildWithName returns the first   *)
(* child of that name) is modelled from how the processor uses it.         *)
(*                                                                         *)
(* lastWorkflow is written and read together with lastPrompt and is left   *)
(* out.  Presets and regeneration change nothing that is persisted here.   *)
(***************************************************************************)
EXTENDS Naturals, Sequences, SequencesExt, FiniteSets

CONSTANTS
  Prompt,            \* prompts, trimmed and not empty
  NoText,            \* the empty prompt box
  MaxHistory,        \* 10 in the code
  RestoreWhileOpen,  \* whether the host restores below an open editor
  MaxChildren        \* bound: editor states below the parameter tree

ASSUME PluginStateAssumption ==
  /\ NoText \notin Prompt
  /\ MaxHistory \in Nat \ {0} /\ MaxChildren \in Nat \ {0}
  /\ RestoreWhileOpen \in BOOLEAN

VARIABLES
  content,   \* the contents of the nodes
  children,  \* the AiMidiComposerState children of apvts_.state, in order
  state,     \* the processor's state_
  editor,    \* the open editor, or Closed
  project,   \* the editor states in the project file, or NotSaved
  saved      \* history: what state_ held when the project was saved

vars == <<content, children, state, editor, project, saved>>

Node == 1..(MaxChildren + 1)
Text == Prompt \cup {NoText}
Closed == [open |-> FALSE]
NotSaved == <<>>
Empty == [history |-> <<>>, prompt |-> NoText]

Init ==
  /\ content = [n \in Node |-> Empty]
  /\ children = <<>> /\ state = 1
  /\ editor = Closed
  /\ project = NotSaved /\ saved = Empty

-----------------------------------------------------------------------------
(* The editor: its constructor loads the processor's state.                *)
OpenEditor ==
  /\ ~editor.open
  /\ editor' = [open |-> TRUE, node |-> state,
                history |-> content[state].history,
                box |-> content[state].prompt]
  /\ UNCHANGED <<content, children, state, project, saved>>

CloseEditor ==
  /\ editor.open
  /\ editor' = Closed
  /\ UNCHANGED <<content, children, state, project, saved>>

Type(t) ==
  /\ editor.open /\ editor.box # t
  /\ editor' = [editor EXCEPT !.box = t]
  /\ UNCHANGED <<content, children, state, project, saved>>

PickFromHistory(i) ==
  /\ editor.open /\ i \in DOMAIN editor.history
  /\ editor' = [editor EXCEPT !.box = editor.history[i]]
  /\ UNCHANGED <<content, children, state, project, saved>>

(* Mutant: the prompt is put in front without removing its older copies.   *)
addToHistoryAgain(history, p) ==
  LET new == <<p>> \o history
  IN IF Len(new) > MaxHistory THEN SubSeq(new, 1, MaxHistory) ELSE new

(* juce::StringArray keeps the other entries in their order.               *)
removeAllInstancesOf(history, p) ==
  LET kept[n \in 0..Len(history)] ==
        IF n = 0 THEN <<>>
        ELSE IF history[n] = p THEN kept[n - 1] ELSE Append(kept[n - 1], history[n])
  IN kept[Len(history)]

addToHistory(history, p) ==
  LET new == <<p>> \o removeAllInstancesOf(history, p)
  IN IF Len(new) > MaxHistory THEN SubSeq(new, 1, MaxHistory) ELSE new

saveState(history) ==
  /\ content' = [content EXCEPT ![editor.node] =
                   [history |-> history, prompt |-> editor.box]]
  /\ state' = editor.node

(* Mutant: the state is not saved.                                         *)
onGenerateUnsaved ==
  /\ editor.open /\ editor.box # NoText
  /\ editor' = [editor EXCEPT !.history = addToHistory(@, editor.box)]
  /\ UNCHANGED <<content, children, state, project, saved>>

onGenerate ==
  /\ editor.open /\ editor.box # NoText
  /\ LET history == addToHistory(editor.history, editor.box)
     IN /\ saveState(history)
        /\ editor' = [editor EXCEPT !.history = history]
  /\ UNCHANGED <<children, project, saved>>

(* Another workflow is selected.                                           *)
SelectWorkflow ==
  /\ editor.open
  /\ saveState(editor.history)
  /\ UNCHANGED <<children, editor, project, saved>>

-----------------------------------------------------------------------------
(* The host.  getStateInformation appends a copy of state_ to a copy of    *)
(* the parameter tree, which may hold editor states already.               *)
Contents(nodes) == [i \in DOMAIN nodes |-> content[nodes[i]]]

getStateInformation ==
  /\ Len(children) < MaxChildren
  /\ project' = Append(Contents(children), content[state])
  /\ saved' = content[state]
  /\ UNCHANGED <<content, children, state, editor>>

(* k nodes, none of them the one that is kept.                             *)
Fresh(kept, k) == [i \in 1..k |-> IF \E n \in kept : n <= i THEN i + 1 ELSE i]

(* Mutant: state_ is a copy of the restored child instead of the child.    *)
RestoreCopy(kept) ==
  LET new == Fresh(kept, Len(project) + 1)
  IN /\ children' = Tail(new) /\ state' = new[1]
     /\ content' = [n \in Node |->
          IF n = new[1] THEN project[1]
          ELSE IF n \in ToSet(new)
          THEN project[CHOOSE i \in DOMAIN project : new[i + 1] = n]
          ELSE Empty]

(* fromXml makes new nodes; the parameter tree takes all of them and       *)
(* state_ the first one.  Nodes that nobody refers to any more are free    *)
(* and empty; an open editor keeps its own.                                *)
Restore(kept) ==
  LET new == Fresh(kept, Len(project))
  IN /\ children' = new /\ state' = new[1]
     /\ content' = [n \in Node |->
          IF n \in kept THEN content[n]
          ELSE IF n \in ToSet(new)
          THEN project[CHOOSE i \in DOMAIN new : new[i] = n]
          ELSE Empty]

setStateInformation ==
  /\ project # NotSaved
  /\ RestoreWhileOpen \/ ~editor.open
  /\ Restore(IF editor.open THEN {editor.node} ELSE {})
  /\ UNCHANGED <<editor, project, saved>>

(* The project is closed and opened again: a new processor, then restored. *)
Reload ==
  /\ project # NotSaved
  /\ Restore({})
  /\ editor' = Closed
  /\ UNCHANGED <<project, saved>>

-----------------------------------------------------------------------------
User ==
  \/ OpenEditor \/ CloseEditor \/ onGenerate \/ SelectWorkflow
  \/ \E t \in Text : Type(t)
  \/ \E i \in 1..MaxHistory : PickFromHistory(i)

Host == getStateInformation \/ setStateInformation \/ Reload

Next == User \/ Host
Spec == Init /\ [][Next]_vars

-----------------------------------------------------------------------------
Content == [history : Seq(Prompt), prompt : Text]

(* The variables keep their shapes, and the nodes in use are nodes.        *)
TypeOK ==
  /\ \A n \in Node : content[n] \in Content
  /\ children \in Seq(Node) /\ Len(children) <= MaxChildren
  /\ state \in Node
  /\ editor.open =>
       editor.node \in Node /\ editor.history \in Seq(Prompt) /\ editor.box \in Text
  /\ project \in Seq(Content) /\ saved \in Content

(* What the project restores is what the processor held when it was saved  *)
(* (PluginProcessor.hpp: "serialised via getStateInformation /             *)
(* setStateInformation so the DAW can restore it"), however often it was   *)
(* saved and restored before.                                              *)
RestoresWhatWasSaved == project # NotSaved => project[1] = saved

(* What the user sees is what the next save writes: the open editor works  *)
(* on the processor's own state, and its history is the one stored there.  *)
(* And the history never holds a prompt twice nor more than MaxHistory     *)
(* ones, in the editor, in any tree and in the project, whichever way its  *)
(* prompts got there.                                                      *)
EditorIsCurrent ==
  LET Clean(h) == Len(h) <= MaxHistory /\ Cardinality(ToSet(h)) = Len(h)
  IN /\ editor.open => editor.node = state /\ editor.history = content[state].history
     /\ \A n \in Node : Clean(content[n].history)
     /\ \A i \in DOMAIN project : Clean(project[i].history)

=============================================================================
