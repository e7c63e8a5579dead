------------------------- MODULE MCAppStateSnapshots -------------------------
(***************************************************************************)
(* AppStateSnapshots for TLC: sessions and names are model values.         *)
(***************************************************************************)
EXTENDS AppStateSnapshots, TLC

CONSTANTS s1, s2, a1, a2

TwoSessions == {s1, s2}
OneSession == {s1}
TwoAliases == {a1, a2}
OneAlias == {a1}

Symmetry == Permutations(TwoSessions)

=============================================================================
