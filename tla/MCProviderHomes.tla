---------------------------- MODULE MCProviderHomes ----------------------------
(* ProviderHomes with a session in the workspace and a worker, beside two  *)
(* talks of the user's own.                                                *)
EXTENDS ProviderHomes, TLC

CONSTANTS c1, w1, o1, o2

AllProviders == {"codex", "gemini", "hermes", "opencode"}

Interchangeable == Permutations({o1, o2})

================================================================================
