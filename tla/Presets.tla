------------------------------ MODULE Presets ------------------------------
(***************************************************************************)
(* Presets: PresetManager and the preset handlers of PluginEditor.cpp.     *)
(*                                                                         *)
(* Every editor has a PresetManager of its own and all of them one         *)
(* directory.  A preset's parameters are a setting; a factory preset's     *)
(* setting is named after it.  Presets are written below the tag           *)
(* Parameters and looked for below the tag state, so that loading a        *)
(* directory with a preset in it dereferences a null pointer: this build   *)
(* ends the host, which holds all of the editors.                          *)
(***************************************************************************)
EXTENDS Naturals, FiniteSets

CONSTANTS
  Editors,    \* instances of the plug-in in one host
  Factory,    \* names of factory presets
  Knobs,      \* settings of the parameters a user can make
  NoPreset,   \* no preset of that name, or no file
  MaxNumber   \* bound: the highest number of a user preset

ASSUME PresetsAssumption ==
  /\ MaxNumber \in Nat \ {0} /\ Knobs # {}
  /\ Factory \cap Knobs = {} /\ Factory \cap (1..MaxNumber) = {}
  /\ NoPreset \notin Factory \cup Knobs \cup Nat

VARIABLES
  files,     \* the preset files: settings by the number in their names
  presets,   \* each editor's presets_: settings by name, or Closed
  selector,  \* the preset each editor's selector shows
  raw,       \* the parameters of each editor's processor
  own,       \* history: one editor alone has used the directory, and its writes succeeded
  deleted    \* history: editors that have deleted a preset

presetVars == <<files, presets, selector, raw, own, deleted>>

Numbers == 1..MaxNumber
Settings == Factory \cup Knobs
Closed == [n \in {} |-> NoPreset]
Default == CHOOSE k \in Knobs : TRUE
Open == {e \in Editors : presets[e] # Closed}

PresetsInit ==
  /\ files = [n \in Numbers |-> NoPreset]
  /\ presets = [e \in Editors |-> Closed]
  /\ selector = [e \in Editors |-> NoPreset]
  /\ raw = [e \in Editors |-> Default]
  /\ own = TRUE /\ deleted = {}

(* "User Preset n" is the preset n.                                        *)
hasPreset(e, name) == presets[e][name] # NoPreset
UserPresets(e) == {n \in Numbers : hasPreset(e, n)}

-----------------------------------------------------------------------------
createFactoryPresets ==
  [name \in Factory \cup Numbers |-> IF name \in Factory THEN name ELSE NoPreset]

(* The editor is opened: PresetManager's constructor loads the presets.    *)
OpenPresets(e) ==
  /\ e \notin Open /\ \A n \in Numbers : files[n] = NoPreset
  /\ presets' = [presets EXCEPT ![e] = createFactoryPresets]
  /\ selector' = [selector EXCEPT ![e] = NoPreset]
  /\ own' = (own /\ Open = {})
  /\ deleted' = deleted \ {e}
  /\ UNCHANGED <<files, raw>>

OpenCrashes(e) ==
  /\ e \notin Open /\ \E n \in Numbers : files[n] # NoPreset
  /\ presets' = [i \in Editors |-> Closed]
  /\ selector' = [i \in Editors |-> NoPreset]
  /\ raw' = [i \in Editors |-> Default]
  /\ own' = TRUE /\ deleted' = {}
  /\ UNCHANGED files

ClosePresets(e) ==
  /\ e \in Open
  /\ presets' = [presets EXCEPT ![e] = Closed]
  /\ own' = (own \/ Open = {e})
  /\ UNCHANGED <<files, selector, raw, deleted>>

(* The user or the host's automation sets the parameters.                  *)
TurnKnobs(e, s) ==
  /\ raw' = [raw EXCEPT ![e] = s]
  /\ UNCHANGED <<files, presets, selector, own, deleted>>

onPresetSelected(e, name) ==
  /\ e \in Open /\ hasPreset(e, name) /\ selector[e] # name
  /\ selector' = [selector EXCEPT ![e] = name]
  /\ raw' = [raw EXCEPT ![e] = presets[e][name]]
  /\ UNCHANGED <<files, presets, own, deleted>>

(* Mutant: the number is the count.                                        *)
NewNumberAtCount(e) ==
  IF UserPresets(e) = {} THEN 1 ELSE Cardinality(UserPresets(e))

NewNumber(e) == Cardinality(UserPresets(e)) + 1

(* savePreset does not look whether the file was written; the list is      *)
(* filled again and shows nothing as selected.                             *)
onSavePreset(e, written) ==
  LET n == NewNumber(e)
  IN /\ e \in Open /\ n \in Numbers
     /\ files' = IF written THEN [files EXCEPT ![n] = raw[e]] ELSE files
     /\ presets' = [presets EXCEPT ![e][n] = raw[e]]
     /\ selector' = [selector EXCEPT ![e] = NoPreset]
     /\ own' = (own /\ written)
     /\ UNCHANGED <<raw, deleted>>

(* Mutant: the file stays.                                                 *)
deletePresetKeepsFile(e, n, done) ==
  /\ presets' = [presets EXCEPT ![e][n] = NoPreset]
  /\ UNCHANGED files

deletePreset(e, n, done) ==
  /\ presets' = [presets EXCEPT ![e][n] = NoPreset]
  /\ files' = IF done THEN [files EXCEPT ![n] = NoPreset] ELSE files

(* A factory preset stays where it is.                                     *)
onDeletePreset(e, done) ==
  LET n == selector[e]
  IN /\ e \in Open /\ n # NoPreset /\ n \in Numbers
     /\ deletePreset(e, n, done)
     /\ selector' = [selector EXCEPT ![e] = NoPreset]
     /\ own' = (own /\ done) /\ deleted' = deleted \cup {e}
     /\ UNCHANGED raw

PresetsNext ==
  \E e \in Editors :
    \/ OpenPresets(e) \/ OpenCrashes(e) \/ ClosePresets(e)
    \/ \E s \in Knobs : TurnKnobs(e, s)
    \/ \E name \in Factory \cup Numbers : onPresetSelected(e, name)
    \/ \E ok \in BOOLEAN : onSavePreset(e, ok) \/ onDeletePreset(e, ok)

PresetsSpec == PresetsInit /\ [][PresetsNext]_presetVars

-----------------------------------------------------------------------------
(* What an editor lists is what the directory holds, as long as no other   *)
(* editor works on the directory and the writes succeed: presets saved,    *)
(* overwritten and deleted in any order.                                   *)
LoneEditorMatchesFiles ==
  own => \A e \in Open : \A n \in Numbers : presets[e][n] = files[n]

(* A save by an editor that has deleted no preset takes a number that is   *)
(* new to it: it keeps every preset of its list and the file of each, also *)
(* when writes fail and other editors save beside it.  If the editor has   *)
(* the directory to itself, no file at all is overwritten.  (Two editors   *)
(* that were opened on an empty directory both begin with number 1, so the *)
(* second one's save overwrites a file that its own list does not show.)   *)
SaveKeepsOthers ==
  [][\A e \in Open :
       presets'[e] \notin {presets[e], Closed} /\ e \notin deleted' =>
         \A n \in Numbers :
           /\ hasPreset(e, n) => presets'[e][n] = presets[e][n] /\ files'[n] = files[n]
           /\ own' /\ files[n] # NoPreset => files'[n] = files[n]]_presetVars

=============================================================================
