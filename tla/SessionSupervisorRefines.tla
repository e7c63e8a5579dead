----------------------- MODULE SessionSupervisorRefines -----------------------
(***************************************************************************)
(* SessionSupervisor, driven by one thread, implements SessionLifecycle:   *)
(* the steps of a call, of a refresh, of the cleanup at startup and of a   *)
(* crash add up to the abstract moves of a session.                        *)
(***************************************************************************)
EXTENDS SessionSupervisor

(* A session whose id has been given out and that has no row is gone,      *)
(* unless the launch is about to write its first one.                      *)
LifeOf(s) ==
  IF store[s] # None
  THEN IF store[s].state = "Live" THEN "open" ELSE "closed"
  ELSE IF s \in born /\ ~(frame[UI].op = "launch" /\ frame[UI].cur = s)
  THEN "gone" ELSE "absent"

TokenOf(s) == IF store[s] = None THEN Pending ELSE store[s].token

RunningFor(s) ==
  \E t \in live \ failed : launched[t] # None /\ launched[t].session = s

Lifecycle == INSTANCE SessionLifecycle WITH
  life <- [s \in Sessions |-> LifeOf(s)],
  token <- [s \in Sessions |-> TokenOf(s)],
  running <- [s \in Sessions |-> RunningFor(s)]

(* Every step of the supervisor is one move of a session, or none: no      *)
(* session comes back from deletion, has a second agent, is closed while   *)
(* its agent runs, or takes over the conversation of another, whatever     *)
(* fails and wherever a crash falls.                                       *)
ImplementsLifecycle == Lifecycle!LifeSpec

=============================================================================
