------------------------- MODULE MCSessionSupervisor -------------------------
(***************************************************************************)
(* Small instances of SessionSupervisor: one working directory, one        *)
(* provider that is scanned for ("codex"), one that is named at launch     *)
(* ("claude"), one whose conversation id can be told from the pending      *)
(* token ("hermes") and one that is scanned for and of which late signals  *)
(* may be held back ("opencode").                                          *)
(***************************************************************************)
EXTENDS SessionSupervisorRefines, TLC

CONSTANTS s1, s2, c1, c2, codex, claude, hermes, opencode

AllCodex == [s \in Sessions |-> codex]
AllOpencode == [s \in Sessions |-> opencode]
AllHermes == [s \in Sessions |-> hermes]
OneCatalog == [p \in Providers |-> Conversations]
NoneFixed == [s \in Sessions |-> None]
HermesFixed == [s \in Sessions |-> IF s = s1 THEN c1 ELSE c2]

MixedProvider == s1 :> codex @@ s2 :> claude
MixedCatalog == codex :> {c1} @@ claude :> {c2}
MixedFixed == s1 :> None @@ s2 :> c2

MuxSymmetry == Permutations(Muxes)
Symmetry == Permutations(Muxes) \cup Permutations(Conversations)
            \cup Permutations(Sessions)
=============================================================================
