---------------------------- MODULE MCSessionBoard ----------------------------
(* SessionBoard with two workers and two sessions for a router.            *)
EXTENDS SessionBoard

CONSTANTS w1, w2, r1, r2, k1, k2

BoardKind ==
  [s \in Sessions |-> IF s \in {r1, r2} THEN "Router" ELSE "Worker"]

AnyState == {"Starting", "Idle"}

Interchangeable ==
  Permutations({w1, w2}) \cup Permutations({r1, r2}) \cup Permutations({k1, k2})

================================================================================
