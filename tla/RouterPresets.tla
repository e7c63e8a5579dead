----------------------------- MODULE RouterPresets -----------------------------
(***************************************************************************)
(* The presets a router can be started with: three that are built in, and  *)
(* the list of those the user saved.  A preset is its key and its prompt;  *)
(* labels and descriptions are left out.                                   *)
(***************************************************************************)
EXTENDS Naturals, FiniteSets, Sequences, SequencesExt

CONSTANTS
  BuiltIn,         \* keys of the presets that are built in
  Standard,        \* kStandardKey
  CustomKeys,      \* identifiers makeCustomPresetId can give
  Prompts,         \* texts a user can save
  Blank            \* a text of spaces only

ASSUME PresetAssumption ==
  /\ Standard \in BuiltIn
  /\ CustomKeys \cap BuiltIn = {}
  /\ Blank \notin Prompts

Preset == [key : CustomKeys, prompt : Prompts]

Keys(presets) == { presets[i].key : i \in 1..Len(presets) }

(* customRouterPresetIndex, with 0 for -1.                                 *)
CustomIndex(presets, key) ==
  SelectInSeq(presets, LAMBDA p : p.key = key)

(* normalizedRouterPresetKey: what is not known counts as the standard one. *)
NormalizedKey(presets, key) ==
  IF key \in BuiltIn \cup Keys(presets) THEN key ELSE Standard

(* The elements of a finite set in the order of their keys, no two of      *)
(* which are the same number.                                              *)
InOrder(S, key) ==
  CHOOSE w \in SetToSeqs(S) :
    \A i, j \in DOMAIN w : i < j => key[w[i]] < key[w[j]]

(* normalizeRouterPresetState: a preset without a prompt is dropped, one   *)
(* whose key cannot be used, or is in use, is given a new one.             *)
NormalizedPresets(presets, fresh) ==
  LET prompted == { i \in DOMAIN presets : presets[i].prompt # Blank }
      kept == InOrder(prompted, [i \in prompted |-> i])
      usable(i) == /\ presets[i].key \in CustomKeys
                   /\ \A j \in prompted :
                        j < i => presets[j].key # presets[i].key
  IN  [n \in DOMAIN kept |->
         IF usable(kept[n]) THEN presets[kept[n]]
         ELSE [presets[kept[n]] EXCEPT !.key = fresh]]

(* saveCustomRouterPreset: the list and the active key.  A preset whose    *)
(* key is not known is a new one, and becomes the active one.              *)
SavePreset(presets, active, key, prompt, fresh) ==
  LET i == CustomIndex(presets, key)
  IN  CASE prompt = Blank -> [presets |-> presets, active |-> active]
        [] prompt # Blank /\ i # 0 ->
             [presets |-> [presets EXCEPT ![i].prompt = prompt],
              active |-> active]
        [] prompt # Blank /\ i = 0 ->
             [presets |-> Append(presets, [key |-> fresh, prompt |-> prompt]),
              active |-> fresh]

(* Mutant: the active key is left as it is.                                *)
DeletePresetOnly(presets, active, key) ==
  LET i == CustomIndex(presets, key)
  IN  [presets |-> IF i = 0 THEN presets ELSE RemoveAt(presets, i),
       active |-> active]

(* deleteCustomRouterPreset: an active preset gives way to the standard.   *)
DeletePreset(presets, active, key) ==
  LET i == CustomIndex(presets, key)
  IN  [presets |-> IF i = 0 THEN presets ELSE RemoveAt(presets, i),
       active |-> IF i # 0 /\ active = key THEN Standard ELSE active]

================================================================================
