----------------------------- MODULE MCWorkspace -----------------------------
(***************************************************************************)
(* Instances of Workspace: one git repository with a main checkout and one *)
(* linked worktree, a folder inside of the latter, and the home directory. *)
(***************************************************************************)
EXTENDS Workspace

CONSTANTS main, linked1, sub, home, s1, claude, codex

MCFolders == {main, linked1, sub, home}
MCTop == [f \in MCFolders |->
            IF f = main THEN main ELSE IF f = home THEN None ELSE linked1]
MCNewTrees == <<linked1>>
===========================================================================
