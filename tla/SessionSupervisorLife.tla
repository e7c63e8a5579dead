------------------------- MODULE SessionSupervisorLife ------------------------
(***************************************************************************)
(* What becomes of the agents and of the sessions of SessionSupervisor,    *)
(* for any number of sessions, tmux sessions, conversations, providers,    *)
(* restarts and failures.                                                  *)
(*                                                                         *)
(* The agents: one that runs is tracked, and an app that is up or closed   *)
(* leaves none behind, with any number of workers as long as none of them  *)
(* acts on what has changed since it read it.  Without that condition none *)
(* of it holds (the run SessionSupervisorOrphan): a stale write takes a    *)
(* resumed row back.                                                       *)
(*                                                                         *)
(* The sessions: driven by one thread the steps add up to the life that    *)
(* SessionLifecycle promises.                                              *)
(***************************************************************************)
EXTENDS SessionSupervisorRefines, SessionSupervisorProofs

-----------------------------------------------------------------------------
(* The agents: the inductive invariant                                     *)

op == frame[UI].op
pc == frame[UI].pc
cur == frame[UI].cur
todo == frame[UI].todo
alive == frame[UI].alive
Copy(s) == frame[UI].list[s]        \* the record in memory of session s

Tracked == live \ failed

(* What a worker wrote, and the record of the UI thread does not show: the *)
(* agent of the row has ended.                                             *)
Missed(row) == Workers # {} /\ row.mux \notin live

SameAgent(row, other) ==
  /\ row.owner = other.owner /\ row.mux = other.mux
  /\ row.state = other.state \/ Missed(row)

(* Between steps the memory of the UI thread agrees with the table, but    *)
(* for tokens and for an end it missed; a row about to be written for the  *)
(* first time is all it holds.                                             *)
MemoryAgrees ==
  pc # "persist" =>
    \A s \in Sessions :
      Copy(s) # None => store[s] # None /\ SameAgent(Copy(s), store[s])

StartsOne ==
  pc = "persist" =>
    /\ \A s \in Sessions \ {cur} : Copy(s) = None
    /\ Copy(cur).state = "Live" /\ Copy(cur).owner = instance
    /\ cur \in born
    /\ IF op = "launch" THEN store[cur] = None
       ELSE store[cur] # None /\ store[cur].state = "Exited"

KnownAreBorn ==
  /\ \A s \in Sessions : store[s] # None => s \in born
  /\ \A t \in Muxes : launched[t] # None => launched[t].session \in born
  /\ \A t \in live \cup failed : launched[t] # None

(* Past the kill nothing runs in the tmux session of the row; nor before   *)
(* it, when has-session said so.                                           *)
KilledIsGone ==
  /\ pc \in {"retry", "tokenAgain", "exit"} => Copy(cur).mux \notin Tracked
  /\ pc \in {"token", "kill"} /\ alive = {} => Copy(cur).mux \notin Tracked

ReportedAreGone ==
  pc \in {"signals", "signalWrite"} =>
    \A s \in Sessions \ alive : Copy(s) # None => Copy(s).mux \notin live

(* The same of what the workers hold.                                      *)
WorkersReport ==
  \A p \in Workers :
    frame[p].pc \in {"signals", "signalWrite"} =>
      \A s \in Sessions \ frame[p].alive :
        frame[p].list[s] # None => frame[p].list[s].mux \notin live

ClosedOnesDeleted ==
  pc = "commit" =>
    \A s \in todo : store[s] # None /\ store[s].state = "Exited"

PhaseOK ==
  /\ phase = "starting" => op \in {"none", "cleanup"}
  /\ phase = "running" => op \notin {"cleanup", "shutdown"}
  /\ phase = "closing" => op = "shutdown"
  /\ phase \in {"closed", "down", "crashed"} => op = "none"

(* What runs belongs to this instance, once it has cleaned up, ...         *)
OwnRunning ==
  phase \in {"running", "closing", "closed", "down"} =>
    \A t \in Tracked : launched[t].owner = instance

(* ... and until then, and again when it closes, what it still has to end  *)
(* is on the list or at hand.                                              *)
InHand(s) == s \in todo \/ (s = cur /\ pc \in {"token", "kill"})

CleanupListed ==
  op = "cleanup" =>
    \A s \in Sessions :
      (/\ store[s] # None /\ store[s].mux \in Tracked
       /\ store[s].owner # instance) => InHand(s)

ShutdownListed ==
  op = "shutdown" =>
    \A s \in Sessions :
      (store[s] # None /\ store[s].mux \in Tracked) => InHand(s)

MemoryInv == MemoryAgrees /\ StartsOne /\ ReportedAreGone /\ ClosedOnesDeleted
RunningInv == KnownAreBorn /\ KilledIsGone /\ RunningIsTracked
ListedInv ==
  PhaseOK /\ OwnRunning /\ CleanupListed /\ ShutdownListed /\ CloseEndsAgents

AgentsInv ==
  TypeOK /\ RowsNameTheirAgent /\ MemoryInv /\ RunningInv /\ ListedInv

-----------------------------------------------------------------------------
(* The parts of a step, field by field                                     *)

LEMMA UIFrame ==
  ASSUME TypeOK
  PROVE  /\ UI \in Threads /\ frame[UI] \in Frame /\ FrameOK(frame[UI])
         /\ todo \subseteq Sessions /\ alive \subseteq Sessions
         /\ cur \in {None} \cup Sessions
         /\ \A s \in Sessions : Copy(s) \in {None} \cup Row
BY FramesAreFrames DEF Threads, Frame, Rows, todo, alive, cur, Copy

(* What an operation may be at is told by its step, and the other way.     *)
LEMMA StepTellsOp ==
  ASSUME TypeOK
  PROVE  /\ pc = "idle" <=> op = "none"
         /\ pc \in {"persist", "attach"} <=> op \in {"launch", "resume"}
         /\ pc \in ClosingSteps <=> op \in {"terminate", "cleanup", "shutdown"}
         /\ pc \in {"resolve", "refreshToken", "signals", "signalWrite"}
              <=> op = "refresh"
         /\ pc = "save" <=> op = "rename"
         /\ pc = "commit" <=> op = "delete"
<1>1. op \in Operations /\ pc \in StepsOf(op)
  BY UIFrame DEF FrameOK, Frame, op, pc
<1> QED BY <1>1 DEF Operations, StepsOf, ClosingSteps

LEMMA AtHand ==
  ASSUME TypeOK, pc \in Holding
  PROVE  cur \in Sessions /\ Copy(cur) \in Row /\ Copy(cur) = Held(UI)
BY UIFrame, HeldIsARow DEF pc, cur, Copy, Held

LEMMA BeginShape ==
  ASSUME TypeOK, NEW f, Begin(UI, f)
  PROVE  /\ op' = f.op /\ pc' = f.pc /\ cur' = f.cur /\ todo' = f.todo
         /\ alive' = f.alive /\ \A s \in Sessions : Copy(s)' = f.list[s]
<1>1. frame'[UI] = f
  BY UIFrame, BegunFrame
<1> QED BY <1>1 DEF op, pc, cur, todo, alive, Copy

LEMMA FinishShape ==
  ASSUME TypeOK, Finish(UI)
  PROVE  /\ op' = "none" /\ pc' = "idle" /\ todo' = {}
         /\ \A s \in Sessions : Copy(s)' = None
BY BeginShape DEF Finish, IdleFrame, NoRows

LEMMA GotoShape ==
  ASSUME TypeOK, NEW label, Goto(UI, label)
  PROVE  /\ op' = op /\ pc' = label /\ cur' = cur /\ todo' = todo
         /\ alive' = alive /\ \A s \in Sessions : Copy(s)' = Copy(s)
<1>1. frame'[UI] = [frame[UI] EXCEPT !.pc = label]
  BY UIFrame DEF Goto, TypeOK
<1> QED BY <1>1, UIFrame DEF Frame, op, pc, cur, todo, alive, Copy

LEMMA SameShape ==
  ASSUME UNCHANGED frame
  PROVE  /\ op' = op /\ pc' = pc /\ cur' = cur /\ todo' = todo
         /\ alive' = alive /\ \A s \in Sessions : Copy(s)' = Copy(s)
BY DEF op, pc, cur, todo, alive, Copy

-----------------------------------------------------------------------------
(* What the rows say of the agents                                         *)

(* A stored row, or a record in memory, that names a tmux session.         *)
LEMMA RowOfAgent ==
  ASSUME TypeOK, RowsNameTheirAgent, NEW s \in Sessions,
         store[s] # None, store[s].mux # None
  PROVE  /\ store[s].mux \in Muxes /\ launched[store[s].mux] \in Agent
         /\ launched[store[s].mux].session = s
         /\ launched[store[s].mux].owner = store[s].owner
<1>1. store[s] \in Row /\ store[s] \in Records(s)
  BY StoredIsARow DEF Records
<1>2. NamesItsAgent(s, store[s])
  BY <1>1 DEF RowsNameTheirAgent
<1> QED BY <1>1, <1>2 DEF NamesItsAgent, Row, TypeOK

LEMMA CopyOfAgent ==
  ASSUME TypeOK, RowsNameTheirAgent, NEW s \in Sessions,
         Copy(s) # None, Copy(s).mux # None
  PROVE  /\ Copy(s).mux \in Muxes /\ launched[Copy(s).mux] \in Agent
         /\ launched[Copy(s).mux].session = s
         /\ launched[Copy(s).mux].owner = Copy(s).owner
<1>1. Copy(s) \in Row /\ Copy(s) \in Records(s)
  BY UIFrame DEF Records, Copy
<1>2. NamesItsAgent(s, Copy(s))
  BY <1>1 DEF RowsNameTheirAgent
<1> QED BY <1>1, <1>2 DEF NamesItsAgent, Row, TypeOK

LEMMA TrackedAreMuxes ==
  ASSUME TypeOK, KnownAreBorn
  PROVE  /\ Tracked \subseteq Muxes /\ None \notin Tracked
         /\ \A t \in Tracked : launched[t] \in Agent
BY RecordAssumption DEF TypeOK, KnownAreBorn, Tracked

-----------------------------------------------------------------------------
(* Beginning to close a session                                            *)

LEMMA ClosingBegun ==
  ASSUME TypeOK, NEW s \in Sessions, NEW row \in Row, NEW f \in Frame,
         NEW excluded, CloseBegin(s, row, f, excluded)
  PROVE  /\ op' = f.op /\ pc' \in {"token", "kill"} /\ cur' = s
         /\ todo' = f.todo
         /\ \E r \in ResolvePending(UI, s, row, excluded) :
              \A x \in Sessions :
                Copy(x)' = IF x = s THEN [row EXCEPT !.token = r.token]
                           ELSE f.list[x]
         /\ failed \subseteq failed' /\ failed' \subseteq failed \cup {row.mux}
         /\ failed' \subseteq failed \cup live
         /\ alive' = {} => row.mux \notin live \ failed'
<1>1. PICK answered \in BOOLEAN :
    /\ answered => row.mux \in live
    /\ IF row.mux \in live /\ ~answered
       THEN Fault(1) /\ failed' = failed \cup {row.mux}
       ELSE UNCHANGED <<failed, faults>>
    /\ \E r \in ResolvePending(UI, s, row, excluded) :
         /\ SetBaseline(UI, s, r.base)
         /\ Begin(UI, [f EXCEPT
                         !.pc = IF r.token = row.token THEN "kill" ELSE "token",
                         !.cur = s,
                         !.list[s] = [row EXCEPT !.token = r.token],
                         !.alive = IF answered THEN {s} ELSE {},
                         !.claimed = excluded])
  BY DEF CloseBegin
<1>2. PICK r \in ResolvePending(UI, s, row, excluded) :
         Begin(UI, [f EXCEPT
                         !.pc = IF r.token = row.token THEN "kill" ELSE "token",
                         !.cur = s,
                         !.list[s] = [row EXCEPT !.token = r.token],
                         !.alive = IF answered THEN {s} ELSE {},
                         !.claimed = excluded])
  BY <1>1
<1> DEFINE held == [row EXCEPT !.token = r.token]
           label == IF r.token = row.token THEN "kill" ELSE "token"
           seen == IF answered THEN {s} ELSE {}
           g == [f EXCEPT !.pc = label, !.cur = s, !.alive = seen,
                          !.claimed = excluded, !.list[s] = held]
<1>3. Begin(UI, g)
  BY <1>2 DEF Frame
<1>4. /\ g.op = f.op /\ g.pc = label /\ g.cur = s /\ g.todo = f.todo
      /\ g.alive = seen
      /\ \A x \in Sessions : g.list[x] = IF x = s THEN held ELSE f.list[x]
  BY DEF Frame, Rows
<1>5. /\ op' = f.op /\ pc' = label /\ cur' = s /\ todo' = f.todo
      /\ alive' = seen
      /\ \A x \in Sessions : Copy(x)' = IF x = s THEN held ELSE f.list[x]
  <2> HIDE DEF g, held, label, seen
  <2> QED BY <1>3, <1>4, BeginShape
<1> HIDE DEF g, held
<1> QED BY <1>1, <1>5 DEF held

(* The record it is given agrees with the table, and then so does the one  *)
(* it holds.                                                               *)
LEMMA ClosingBegunAgents ==
  ASSUME AgentsInv, NEW s \in Sessions, NEW row \in Row, NEW f \in Frame,
         NEW excluded, CloseBegin(s, row, f, excluded),
         UNCHANGED <<store, live, launched, born>>,
         store[s] # None, SameAgent(row, store[s]),
         \A x \in Sessions : f.list[x] # None =>
           store[x] # None /\ SameAgent(f.list[x], store[x]),
         pc # "persist"
  PROVE  /\ MemoryInv' /\ RunningInv'
         /\ Tracked' \subseteq Tracked
         /\ op' = f.op /\ pc' \in {"token", "kill"} /\ cur' = s
         /\ todo' = f.todo
<1>1. TypeOK /\ RowsNameTheirAgent
  BY DEF AgentsInv
<1>2. PICK r \in ResolvePending(UI, s, row, excluded) :
              \A x \in Sessions :
                Copy(x)' = IF x = s THEN [row EXCEPT !.token = r.token]
                           ELSE f.list[x]
  BY <1>1, ClosingBegun
<1>3. [row EXCEPT !.token = r.token].state = row.state
      /\ [row EXCEPT !.token = r.token].owner = row.owner
      /\ [row EXCEPT !.token = r.token].mux = row.mux
  BY DEF Row
<1>4. /\ op' = f.op /\ pc' \in {"token", "kill"} /\ cur' = s
      /\ todo' = f.todo
      /\ failed \subseteq failed' /\ failed' \subseteq failed \cup {row.mux}
      /\ failed' \subseteq failed \cup live
      /\ alive' = {} => row.mux \notin live \ failed'
  BY <1>1, ClosingBegun
<1>5. Tracked' \subseteq Tracked
  BY <1>4 DEF Tracked
<1>6. MemoryInv'
  BY <1>2, <1>3, <1>4
  DEF MemoryInv, MemoryAgrees, StartsOne, ReportedAreGone, ClosedOnesDeleted,
      SameAgent, Missed
<1>7. KnownAreBorn'
  BY <1>4 DEF AgentsInv, RunningInv, KnownAreBorn
<1>8. KilledIsGone'
  BY <1>2, <1>3, <1>4 DEF KilledIsGone, Tracked
<1>9. RunningIsTracked'
  BY <1>5 DEF AgentsInv, RunningInv, RunningIsTracked, Tracked, At, pc
<1> QED BY <1>4, <1>5, <1>6, <1>7, <1>8, <1>9 DEF RunningInv

LEMMA SaveShape ==
  ASSUME TypeOK, NEW s \in Sessions, NEW row, Save(s, row)
  PROVE  \A x \in Sessions : store'[x] = IF x = s THEN row ELSE store[x]
BY DEF Save, TypeOK, Rows

(* A step that writes rows like the ones there were, starts no agent and   *)
(* reaches none of the steps the invariant speaks of in particular.        *)
LEMMA CalmStep ==
  ASSUME AgentsInv, pc # "persist",
         UNCHANGED <<launched, born>>, live' \subseteq live,
         failed \subseteq failed', failed' \subseteq failed \cup live,
         \A s \in Sessions :
           IF store'[s] = None
           THEN store[s] # None => store[s].mux \notin Tracked'
           ELSE store[s] # None /\ SameAgent(store'[s], store[s]),
         \A s \in Sessions : Copy(s)' # None =>
           store'[s] # None /\ SameAgent(Copy(s)', store'[s]),
         pc' \notin {"persist", "signals", "signalWrite", "commit", "token",
                     "kill", "retry", "tokenAgain", "exit"}
  PROVE  MemoryInv' /\ RunningInv'
<1>1. Tracked' \subseteq Tracked
  BY DEF Tracked
<1>2. MemoryInv'
  BY
  DEF MemoryInv, MemoryAgrees, StartsOne, ReportedAreGone, ClosedOnesDeleted,
      SameAgent, Missed
<1>3. KnownAreBorn'
  BY DEF AgentsInv, RunningInv, KnownAreBorn
<1>4. KilledIsGone'
  BY DEF KilledIsGone
<1>5. RunningIsTracked'
  BY <1>1
  DEF AgentsInv, RunningInv, RunningIsTracked, Tracked, At, pc, SameAgent,
      Missed
<1> QED BY <1>2, <1>3, <1>4, <1>5 DEF RunningInv

(* What such a step leaves of the promises about whole instances.          *)
LEMMA CalmLists ==
  ASSUME AgentsInv, UNCHANGED <<launched, phase, instance>>, op' = op,
         live' \subseteq live, failed \subseteq failed',
         \A s \in Sessions : store'[s] # None =>
           \/ store'[s].mux = None
           \/ store[s] # None /\ SameAgent(store'[s], store[s]),
         \A s \in Sessions :
           InHand(s) => InHand(s)' \/ store'[s] = None
                        \/ store'[s].mux \notin Tracked'
                        \/ (op = "cleanup" /\ store'[s].owner = instance)
  PROVE  ListedInv'
<1>1. Tracked' \subseteq Tracked /\ None \notin Tracked
  BY TrackedAreMuxes DEF Tracked, AgentsInv, RunningInv
<1>2. PhaseOK' /\ CloseEndsAgents'
  BY DEF AgentsInv, ListedInv, PhaseOK, CloseEndsAgents
<1>3. OwnRunning'
  BY <1>1 DEF AgentsInv, ListedInv, OwnRunning
<1>4. CleanupListed'
  BY <1>1 DEF AgentsInv, ListedInv, CleanupListed, SameAgent
<1>5. ShutdownListed'
  BY <1>1 DEF AgentsInv, ListedInv, ShutdownListed, SameAgent
<1> QED BY <1>2, <1>3, <1>4, <1>5 DEF ListedInv

(* In an app that is up a call may do anything that starts no agent of     *)
(* another instance.                                                       *)
LEMMA UpLists ==
  ASSUME AgentsInv, phase = "running", UNCHANGED <<phase, instance>>,
         op' \notin {"cleanup", "shutdown"},
         \A t \in Tracked' : launched'[t].owner = instance
  PROVE  ListedInv'
BY DEF ListedInv, PhaseOK, CloseEndsAgents, OwnRunning, CleanupListed,
       ShutdownListed

LEMMA UpListsAsBefore ==
  ASSUME AgentsInv, phase = "running", UNCHANGED <<phase, instance, launched>>,
         op' \notin {"cleanup", "shutdown"}, Tracked' \subseteq Tracked
  PROVE  ListedInv'
<1>1. \A t \in Tracked' : launched'[t].owner = instance
  BY DEF AgentsInv, ListedInv, OwnRunning
<1> QED BY <1>1, UpLists

-----------------------------------------------------------------------------
(* The calls of the user                                                   *)

LEMMA ReadyIsIdle ==
  ASSUME TypeOK, Idle(UI)
  PROVE  pc = "idle" /\ op = "none" /\ pc # "persist" /\ pc \notin Holding
BY StepTellsOp DEF Idle, pc, Holding

(* Starting an agent: its tmux session is a new one.                       *)
LEMMA AgentIsNew ==
  ASSUME TypeOK, KnownAreBorn, NEW s \in Sessions, NEW t \in Muxes,
         NEW talk \in {None} \cup Conversations, StartAgent(t, s, talk)
  PROVE  /\ launched[t] = None /\ launched'[t].session = s
         /\ launched'[t].owner = instance /\ launched'[t].talk = talk
         /\ launched'[t] # None
         /\ \A x \in Muxes \ {t} : launched'[x] = launched[x]
         /\ t \notin live \cup failed
         /\ UNCHANGED failed => Tracked' = Tracked \cup {t}
         /\ Tracked \subseteq Muxes /\ live' = live \cup {t}
<1>1. launched' \in [Muxes -> {None} \cup Agent]
  BY StartAgentType
<1>2. PICK pane \in NewPanes(t) :
        launched' = [launched EXCEPT
                    ![t] = [session |-> s, owner |-> instance,
                            talk |-> talk, pane |-> pane]]
  BY DEF StartAgent
<1>3. launched'[t] = [session |-> s, owner |-> instance,
                      talk |-> talk, pane |-> pane]
  BY <1>2 DEF TypeOK
<1>4. launched'[t] # None
  <2>1. pane \in Muxes
    BY <1>2, NewPanesType
  <2>2. launched'[t] \in Agent
    BY <1>3, <2>1 DEF Agent, TypeOK
  <2> QED BY <2>2, RecordAssumption
<1>5. /\ launched[t] = None /\ live' = live \cup {t}
      /\ \A x \in Muxes \ {t} : launched'[x] = launched[x]
  BY <1>2 DEF StartAgent, TypeOK
<1>6. /\ t \notin live \cup failed /\ Tracked \subseteq Muxes
      /\ UNCHANGED failed => Tracked' = Tracked \cup {t}
  BY <1>5 DEF KnownAreBorn, Tracked, TypeOK
<1> QED BY <1>3, <1>4, <1>5, <1>6

LEMMA AgentStarted ==
  ASSUME AgentsInv, NEW s \in Sessions, NEW t \in Muxes,
         NEW talk \in {None} \cup Conversations, StartAgent(t, s, talk),
         UNCHANGED <<store, failed, phase, instance>>, phase = "running",
         pc # "persist", s \in born', born \subseteq born',
         IF op' = "launch" THEN store[s] = None
         ELSE store[s] # None /\ store[s].state = "Exited",
         op' \notin {"cleanup", "shutdown"}, pc' = "persist", cur' = s,
         Copy(s)' # None, Copy(s)'.state = "Live", Copy(s)'.owner = instance,
         Copy(s)'.mux = t, \A x \in Sessions \ {s} : Copy(x)' = None
  PROVE  /\ MemoryInv' /\ RunningInv' /\ ListedInv'
         /\ t \notin live \cup failed /\ t \in Tracked'
         /\ Tracked' = Tracked \cup {t}
<1>1. TypeOK /\ KnownAreBorn
  BY DEF AgentsInv, RunningInv
<1>2. /\ launched[t] = None /\ launched'[t].session = s
      /\ launched'[t].owner = instance /\ launched'[t] # None
      /\ \A x \in Muxes \ {t} : launched'[x] = launched[x]
      /\ live' = live \cup {t}
  BY <1>1, AgentIsNew
<1>3. /\ t \notin live \cup failed /\ Tracked' = Tracked \cup {t}
      /\ Tracked \subseteq Muxes
  BY <1>1, AgentIsNew
<1>4. MemoryInv'
  BY
  DEF MemoryInv, MemoryAgrees, StartsOne, ReportedAreGone, ClosedOnesDeleted,
         Copy, cur
<1>5. KnownAreBorn'
  BY <1>1, <1>2 DEF KnownAreBorn, TypeOK
<1>6. KilledIsGone'
  BY DEF KilledIsGone
<1>7. RunningIsTracked'
  <2>1. (At(UI, "persist") /\ Held(UI).mux = t)'
    BY DEF At, Held, pc, cur, Copy
  <2> QED
    BY <1>3, <2>1 DEF AgentsInv, RunningInv, RunningIsTracked, Tracked, At, pc
<1>8. ListedInv'
  <2>1. \A x \in Tracked' : launched'[x].owner = instance
    BY <1>2, <1>3 DEF AgentsInv, ListedInv, OwnRunning
  <2> QED BY <2>1, UpLists
<1> QED BY <1>3, <1>4, <1>5, <1>6, <1>7, <1>8 DEF RunningInv

LEMMA LaunchShape ==
  ASSUME TypeOK, NEW s \in Sessions, NEW t \in Muxes, Launch(s, t)
  PROVE  /\ op' = "launch" /\ pc' = "persist" /\ cur' = s /\ todo' = {}
         /\ \A x \in Sessions \ {s} : Copy(x)' = None
         /\ Copy(s)' # None /\ Copy(s)'.state = "Live"
         /\ Copy(s)'.owner = instance /\ Copy(s)'.mux = t
         /\ Copy(s)'.token = InitialToken(s)
<1> DEFINE row == [state |-> "Live", token |-> InitialToken(s),
                   owner |-> instance, mux |-> t]
           f == [IdleFrame EXCEPT !.op = "launch", !.pc = "persist", !.cur = s,
                                  !.list[s] = row]
<1>1. Begin(UI, f)
  BY DEF Launch
<1>2. /\ f.op = "launch" /\ f.pc = "persist" /\ f.cur = s /\ f.todo = {}
      /\ f.list[s] = row /\ \A x \in Sessions \ {s} : f.list[x] = None
  BY DEF IdleFrame, NoRows
<1>3. row \in Row
  <2>1. InitialToken(s) \in Tokens
    BY FixedAssumption, ProviderAssumption DEF InitialToken, Tokens
  <2> QED BY <2>1, BoundAssumption DEF TypeOK, Row
<1>4. row # None /\ row.state = "Live" /\ row.owner = instance
      /\ row.mux = t /\ row.token = InitialToken(s)
  BY <1>3, RecordAssumption
<1> HIDE DEF f, row
<1> QED BY <1>1, <1>2, <1>4, BeginShape

LEMMA ResumeShape ==
  ASSUME TypeOK, NEW s \in Sessions, NEW t \in Muxes, Resume(s, t)
  PROVE  /\ op' = "resume" /\ pc' = "persist" /\ cur' = s /\ todo' = {}
         /\ \A x \in Sessions \ {s} : Copy(x)' = None
         /\ Copy(s)' # None /\ Copy(s)'.state = "Live"
         /\ Copy(s)'.owner = instance /\ Copy(s)'.mux = t
         /\ \E r \in Resolve(UI, s, store[s], {}) :
              /\ Copy(s)'.token = r.token /\ r.token \in Conversations
              /\ StartAgent(t, s, r.token)
<1>1. PICK r \in Resolve(UI, s, store[s], {}) :
        /\ r.token # None
        /\ StartAgent(t, s, r.token)
        /\ Begin(UI, [IdleFrame EXCEPT
                        !.op = "resume", !.pc = "persist", !.cur = s,
                        !.list[s] = [state |-> "Live", token |-> r.token,
                                     owner |-> instance, mux |-> t]])
  BY DEF Resume
<1> DEFINE row == [state |-> "Live", token |-> r.token, owner |-> instance,
                   mux |-> t]
           f == [IdleFrame EXCEPT !.op = "resume", !.pc = "persist", !.cur = s,
                                  !.list[s] = row]
<1>2. Begin(UI, f)
  BY <1>1
<1>3. /\ f.op = "resume" /\ f.pc = "persist" /\ f.cur = s /\ f.todo = {}
      /\ f.list[s] = row /\ \A x \in Sessions \ {s} : f.list[x] = None
  BY DEF IdleFrame, NoRows
<1>4. r.token \in Conversations
  <2>1. store[s] \in Row
    BY StoredIsARow DEF Resume, Resumable
  <2> QED BY <1>1, <2>1, UIFrame, ResolveType
<1>5. row \in Row
  BY <1>4, BoundAssumption DEF TypeOK, Row, Tokens
<1>6. row # None /\ row.state = "Live" /\ row.owner = instance
      /\ row.mux = t /\ row.token = r.token
  BY <1>5, RecordAssumption
<1> HIDE DEF f, row
<1> QED BY <1>1, <1>2, <1>3, <1>4, <1>6, BeginShape

LEMMA StartsAgents ==
  ASSUME AgentsInv, NEW s \in Sessions, NEW t \in Muxes,
         Launch(s, t) \/ Resume(s, t)
  PROVE  MemoryInv' /\ RunningInv' /\ ListedInv'
<1>1. TypeOK /\ KnownAreBorn
  BY DEF AgentsInv, RunningInv
<1>2. CASE Launch(s, t)
  <2>1. /\ StartAgent(t, s, Fixed[s]) /\ phase = "running" /\ Idle(UI)
        /\ born' = born \cup {s} /\ s \notin born
        /\ UNCHANGED <<store, failed, phase, instance>>
        /\ Fixed[s] \in {None} \cup Conversations
    BY <1>2, FixedAssumption DEF Launch, UIReady
  <2>2. store[s] = None
    BY <1>1, <2>1 DEF KnownAreBorn
  <2> QED
    BY <1>1, <1>2, <2>1, <2>2, ReadyIsIdle, LaunchShape, AgentStarted
<1>3. CASE Resume(s, t)
  <2>1. /\ phase = "running" /\ Idle(UI) /\ UNCHANGED born
        /\ store[s] # None /\ store[s].state = "Exited"
        /\ UNCHANGED <<store, failed, phase, instance>>
    BY <1>3 DEF Resume, UIReady, Resumable
  <2>2. s \in born
    BY <1>1, <2>1 DEF KnownAreBorn
  <2>3. PICK talk \in Conversations : StartAgent(t, s, talk)
    BY <1>1, <1>3, ResumeShape
  <2> QED
    BY <1>1, <1>3, <2>1, <2>2, <2>3, ReadyIsIdle, ResumeShape, AgentStarted
<1> QED BY <1>2, <1>3

(* The talk of an agent nobody has a row of is one the launch or the       *)
(* resume would have had.                                                  *)
LEMMA StartLostShape ==
  ASSUME TypeOK, NEW s \in Sessions, NEW t \in Muxes, StartLost(s, t)
  PROVE  /\ phase = "running" /\ pc = "idle" /\ op = "none"
         /\ failed' = failed \cup {t}
         /\ \/ /\ s \notin born /\ born' = born \cup {s}
               /\ StartAgent(t, s, Fixed[s])
               /\ Fixed[s] \in {None} \cup Conversations
            \/ /\ Resumable(s) /\ UNCHANGED born
               /\ \E r \in Resolve(UI, s, store[s], {}) :
                    /\ r.token \in Conversations
                    /\ StartAgent(t, s, r.token)
<1>1. /\ phase = "running" /\ pc = "idle" /\ op = "none"
      /\ failed' = failed \cup {t}
  BY ReadyIsIdle DEF StartLost, UIReady
<1>2. CASE /\ s \notin born /\ StartAgent(t, s, Fixed[s])
           /\ born' = born \cup {s}
  BY <1>1, <1>2, FixedAssumption
<1>3. CASE /\ Resumable(s) /\ UNCHANGED born
           /\ \E r \in Resolve(UI, s, store[s], {}) :
                r.token # None /\ StartAgent(t, s, r.token)
  <2>1. store[s] \in Row /\ UI \in Threads
    BY <1>3, StoredIsARow, UIFrame DEF Resumable
  <2>2. PICK r \in Resolve(UI, s, store[s], {}) :
          r.token # None /\ StartAgent(t, s, r.token)
    BY <1>3
  <2>3. r.token \in Conversations
    BY <2>1, <2>2, ResolveType
  <2> QED BY <1>1, <1>3, <2>2, <2>3
<1> QED BY <1>2, <1>3 DEF StartLost

LEMMA StartLostAgents ==
  ASSUME AgentsInv, NEW s \in Sessions, NEW t \in Muxes, StartLost(s, t)
  PROVE  MemoryInv' /\ RunningInv' /\ ListedInv'
<1>1. TypeOK /\ RowsNameTheirAgent /\ KnownAreBorn
  BY DEF AgentsInv, RunningInv
<1>2. /\ phase = "running" /\ pc = "idle" /\ op = "none"
      /\ failed' = failed \cup {t}
      /\ UNCHANGED <<store, frame, phase, instance>>
  BY <1>1, StartLostShape DEF StartLost
<1>3. PICK talk \in {None} \cup Conversations : StartAgent(t, s, talk)
  BY <1>1, StartLostShape
<1>4. born \subseteq born' /\ s \in born'
  BY <1>1, StartLostShape DEF Resumable, KnownAreBorn
<1>5. /\ launched[t] = None /\ launched'[t] # None
      /\ launched'[t].session = s
      /\ \A x \in Muxes \ {t} : launched'[x] = launched[x]
      /\ t \notin live \cup failed /\ live' = live \cup {t}
  BY <1>1, <1>3, AgentIsNew
<1>6. Tracked' = Tracked /\ Tracked \subseteq Muxes
  BY <1>1, <1>2, <1>5, TrackedAreMuxes DEF Tracked
<1>7. /\ op' = op /\ pc' = pc /\ cur' = cur /\ todo' = todo
      /\ alive' = alive /\ \A x \in Sessions : Copy(x)' = Copy(x)
  BY <1>2, SameShape
<1>8. MemoryInv'
  <2> SUFFICES ASSUME NEW x \in Sessions, Copy(x) # None
               PROVE  store[x] # None /\ SameAgent(Copy(x), store[x])'
    BY <1>2, <1>7
    DEF MemoryInv, MemoryAgrees, StartsOne, ReportedAreGone, ClosedOnesDeleted,
        SameAgent, Missed
  <2>1. store[x] # None /\ SameAgent(Copy(x), store[x])
    BY <1>2 DEF AgentsInv, MemoryInv, MemoryAgrees
  <2>2. Copy(x).mux # t
    BY <1>1, <1>5, CopyOfAgent, RecordAssumption
  <2> QED BY <1>2, <1>5, <1>7, <2>1, <2>2 DEF SameAgent, Missed
<1>9. RunningInv'
  <2>1. KnownAreBorn'
    BY <1>1, <1>2, <1>4, <1>5 DEF KnownAreBorn, TypeOK
  <2>2. KilledIsGone'
    BY <1>2, <1>7 DEF KilledIsGone
  <2>3. RunningIsTracked'
    BY <1>2, <1>6
    DEF AgentsInv, RunningInv, RunningIsTracked, Tracked, At, pc
  <2> QED BY <2>1, <2>2, <2>3 DEF RunningInv
<1>10. ListedInv'
  <2>1. \A x \in Tracked' : launched'[x].owner = instance
    BY <1>2, <1>5, <1>6 DEF AgentsInv, ListedInv, OwnRunning, Tracked
  <2> QED BY <1>2, <1>7, <2>1, UpLists
<1> QED BY <1>8, <1>9, <1>10

LEMMA TerminateAgents ==
  ASSUME AgentsInv, NEW s \in Sessions, Terminate(s)
  PROVE  MemoryInv' /\ RunningInv' /\ ListedInv'
<1> DEFINE f == [IdleFrame EXCEPT !.op = "terminate"]
<1>1. /\ TypeOK /\ store[s] \in Row /\ store[s] # None
      /\ phase = "running" /\ pc # "persist"
      /\ UNCHANGED <<store, live, launched, born, phase, instance>>
  BY StoredIsARow, ReadyIsIdle DEF AgentsInv, Terminate, UIReady
<1>2. /\ f \in Frame /\ f.op = "terminate" /\ f.todo = {}
      /\ \A x \in Sessions : f.list[x] = None
  BY IdleFrameType DEF IdleFrame, NoRows, Frame, Operations
<1>3. CloseBegin(s, store[s], f, ClaimedExcluding(store, s))
  BY DEF Terminate
<1>4. SameAgent(store[s], store[s])
  BY DEF SameAgent
<1> HIDE DEF f
<1>5. /\ MemoryInv' /\ RunningInv' /\ Tracked' \subseteq Tracked
      /\ op' = "terminate"
  BY <1>1, <1>2, <1>3, <1>4, ClosingBegunAgents
<1> QED BY <1>1, <1>5, UpListsAsBefore

(* Renaming and deleting begin with records of the table, or none.         *)
LEMMA RenameAgents ==
  ASSUME AgentsInv, NEW s \in Sessions, Rename(s)
  PROVE  MemoryInv' /\ RunningInv' /\ ListedInv'
<1> DEFINE f == [IdleFrame EXCEPT !.op = "rename", !.pc = "save", !.cur = s,
                                  !.list[s] = store[s]]
<1>1. /\ TypeOK /\ store[s] # None /\ phase = "running" /\ pc # "persist"
      /\ UNCHANGED <<store, live, launched, born, phase, instance, failed>>
      /\ Begin(UI, f)
  BY ReadyIsIdle DEF AgentsInv, Rename, UIReady
<1>2. /\ f.op = "rename" /\ f.pc = "save"
      /\ \A x \in Sessions : f.list[x] = IF x = s THEN store[s] ELSE None
  BY DEF IdleFrame, NoRows
<1> HIDE DEF f
<1>3. /\ op' = "rename" /\ pc' = "save"
      /\ \A x \in Sessions : Copy(x)' = IF x = s THEN store[s] ELSE None
  BY <1>1, <1>2, BeginShape
<1>4. MemoryInv' /\ RunningInv'
  BY <1>1, <1>3, CalmStep DEF SameAgent
<1>5. ListedInv'
  BY <1>1, <1>3, UpListsAsBefore DEF Tracked
<1> QED BY <1>4, <1>5

LEMMA DeleteAgents ==
  ASSUME AgentsInv, NEW selected \in SUBSET Sessions, Delete(selected)
  PROVE  MemoryInv' /\ RunningInv' /\ ListedInv'
<1> DEFINE f == [IdleFrame EXCEPT !.op = "delete", !.pc = "commit",
                                  !.todo = selected]
<1>1. /\ TypeOK /\ phase = "running" /\ pc # "persist"
      /\ \A s \in selected : store[s] # None /\ store[s].state = "Exited"
      /\ UNCHANGED <<store, live, launched, born, phase, instance, failed>>
      /\ Begin(UI, f)
  BY ReadyIsIdle DEF AgentsInv, Delete, UIReady
<1>2. /\ f.op = "delete" /\ f.pc = "commit" /\ f.todo = selected
      /\ \A x \in Sessions : f.list[x] = None
  BY DEF IdleFrame, NoRows
<1> HIDE DEF f
<1>3. /\ op' = "delete" /\ pc' = "commit" /\ todo' = selected
      /\ \A x \in Sessions : Copy(x)' = None
  BY <1>1, <1>2, BeginShape
<1>4. Tracked' = Tracked
  BY <1>1 DEF Tracked
<1>5. MemoryInv'
  BY <1>1, <1>3
  DEF MemoryInv, MemoryAgrees, StartsOne, ReportedAreGone, ClosedOnesDeleted
<1>6. RunningInv'
  BY <1>1, <1>3, <1>4
  DEF AgentsInv, RunningInv, KnownAreBorn, KilledIsGone, RunningIsTracked,
      Tracked, At, pc
<1>7. ListedInv'
  BY <1>1, <1>3, <1>4, UpListsAsBefore
<1> QED BY <1>5, <1>6, <1>7

LEMMA ShutdownStartAgents ==
  ASSUME AgentsInv, ShutdownStart
  PROVE  MemoryInv' /\ RunningInv' /\ ListedInv'
<1> DEFINE f == [IdleFrame EXCEPT
       !.op = "shutdown", !.pc = "next", !.list = store,
       !.todo = { s \in Sessions : store[s] # None },
       !.claimed = ClaimedExcluding(store, None)]
<1>1. /\ TypeOK /\ phase = "running" /\ pc # "persist"
      /\ phase' = "closing" /\ Begin(UI, f)
      /\ UNCHANGED <<store, live, launched, born, instance, failed>>
  BY ReadyIsIdle DEF AgentsInv, ShutdownStart, UIReady
<1>2. /\ f.op = "shutdown" /\ f.pc = "next" /\ f.list = store
      /\ f.todo = { s \in Sessions : store[s] # None }
  BY DEF IdleFrame
<1> HIDE DEF f
<1>3. /\ op' = "shutdown" /\ pc' = "next"
      /\ todo' = { s \in Sessions : store[s] # None }
      /\ \A x \in Sessions : Copy(x)' = store[x]
  BY <1>1, <1>2, BeginShape
<1>4. Tracked' = Tracked
  BY <1>1 DEF Tracked
<1>5. MemoryInv' /\ RunningInv'
  BY <1>1, <1>3, CalmStep DEF SameAgent
<1>6. ListedInv'
  BY <1>1, <1>3, <1>4
  DEF AgentsInv, ListedInv, PhaseOK, OwnRunning, CleanupListed,
      ShutdownListed, InHand, CloseEndsAgents
<1> QED BY <1>5, <1>6

(* A step that leaves the thread as it was, or lets it go.                 *)
LEMMA QuietAgents ==
  ASSUME AgentsInv, pc # "persist",
         UNCHANGED <<store, live, launched, born, failed>>, Finish(UI)
  PROVE  MemoryInv' /\ RunningInv' /\ op' = "none" /\ Tracked' = Tracked
<1>1. TypeOK
  BY DEF AgentsInv
<1>2. op' = "none" /\ pc' = "idle" /\ \A s \in Sessions : Copy(s)' = None
  BY <1>1, FinishShape
<1>3. MemoryInv' /\ RunningInv'
  BY <1>2, CalmStep DEF SameAgent
<1> QED BY <1>2, <1>3 DEF Tracked

LEMMA SameAgents ==
  ASSUME AgentsInv,
         UNCHANGED <<store, live, launched, born, failed, frame, instance>>
  PROVE  MemoryInv' /\ RunningInv' /\ Tracked' = Tracked /\ op' = op
BY DEF AgentsInv, MemoryInv, MemoryAgrees, StartsOne, ReportedAreGone,
       ClosedOnesDeleted, RunningInv, KnownAreBorn, KilledIsGone,
       RunningIsTracked, Tracked, At, Held, op, pc, cur, todo, alive, Copy,
       SameAgent, Missed

LEMMA ResumeRefusedAgents ==
  ASSUME AgentsInv, NEW s \in Sessions, ResumeRefused(s)
  PROVE  MemoryInv' /\ RunningInv' /\ ListedInv'
<1>1. /\ phase = "running" /\ op = "none"
      /\ UNCHANGED <<store, live, launched, born, failed, frame, instance,
                     phase>>
  BY ReadyIsIdle DEF ResumeRefused, UIReady, AgentsInv
<1> QED BY <1>1, SameAgents, UpListsAsBefore

-----------------------------------------------------------------------------
(* Startup cleanup and shutdown                                            *)

LEMMA CleanupStartAgents ==
  ASSUME AgentsInv, CleanupStart
  PROVE  MemoryInv' /\ RunningInv' /\ ListedInv'
<1> DEFINE f == [IdleFrame EXCEPT
       !.op = "cleanup", !.pc = "next",
       !.todo = { s \in Sessions : store[s] # None /\ Foreign(store[s]) }]
<1>1. /\ TypeOK /\ RowsNameTheirAgent /\ KnownAreBorn
      /\ phase = "starting" /\ pc # "persist" /\ Begin(UI, f)
      /\ UNCHANGED <<store, live, launched, born, instance, failed, phase>>
  BY ReadyIsIdle DEF AgentsInv, RunningInv, CleanupStart
<1>2. /\ f.op = "cleanup" /\ f.pc = "next"
      /\ \A x \in Sessions : f.list[x] = None
      /\ f.todo = { s \in Sessions : store[s] # None /\ Foreign(store[s]) }
  BY DEF IdleFrame, NoRows
<1> HIDE DEF f
<1>3. /\ op' = "cleanup" /\ pc' = "next"
      /\ todo' = { s \in Sessions : store[s] # None /\ Foreign(store[s]) }
      /\ \A x \in Sessions : Copy(x)' = None
  BY <1>1, <1>2, BeginShape
<1>4. Tracked' = Tracked
  BY <1>1 DEF Tracked
<1>5. MemoryInv' /\ RunningInv'
  BY <1>1, <1>3, CalmStep DEF SameAgent
<1>6. CleanupListed'
  <2> SUFFICES ASSUME NEW s \in Sessions, store[s] # None,
                      store[s].mux \in Tracked, store[s].owner # instance
               PROVE  s \in todo'
    BY <1>1, <1>4 DEF CleanupListed, InHand
  <2>1. store[s].mux # None
    BY <1>1, TrackedAreMuxes
  <2>2. launched[store[s].mux] \in Agent
        /\ launched[store[s].mux].owner = store[s].owner
    BY <1>1, <2>1, RowOfAgent
  <2>3. store[s].owner # 0
    BY <2>2 DEF Agent
  <2> QED BY <1>3, <2>3 DEF Foreign
<1>7. ListedInv'
  BY <1>1, <1>3, <1>6
  DEF ListedInv, PhaseOK, OwnRunning, ShutdownListed, CloseEndsAgents
<1> QED BY <1>5, <1>7

LEMMA OpTellsPhase ==
  ASSUME AgentsInv
  PROVE  /\ op = "cleanup" => phase = "starting"
         /\ op = "shutdown" => phase = "closing"
         /\ op \notin {"none", "cleanup", "shutdown"} => phase = "running"
BY DEF AgentsInv, TypeOK, ListedInv, PhaseOK

LEMMA CleanupNextAgents ==
  ASSUME AgentsInv, NEW s \in Sessions, CleanupNext(s)
  PROVE  MemoryInv' /\ RunningInv' /\ ListedInv'
<1> DEFINE f == [IdleFrame EXCEPT !.op = "cleanup", !.pc = "next",
                                  !.todo = Remaining(s)]
<1>1. /\ TypeOK /\ pc = "next" /\ op = "cleanup" /\ s \in todo
      /\ UNCHANGED <<store, live, launched, born, instance, phase>>
  BY DEF AgentsInv, CleanupNext, At, pc, op, todo
<1>2. /\ f \in Frame /\ f.op = "cleanup" /\ f.pc = "next"
      /\ f.todo = todo \ {s} /\ \A x \in Sessions : f.list[x] = None
  <2>1. "next" \in Steps
    BY DEF Steps, StepsOf, Operations, ClosingSteps
  <2> QED
    BY <1>1, <2>1, UIFrame, IdleFrameType
    DEF IdleFrame, NoRows, Frame, Operations, Remaining, todo
<1>3. \/ store[s] = None /\ Begin(UI, f) /\ UNCHANGED failed
      \/ /\ store[s] # None
         /\ CloseBegin(s, store[s], f, ClaimedExcluding(store, s))
  BY DEF CleanupNext
<1> HIDE DEF f
<1>4. CASE store[s] = None /\ Begin(UI, f) /\ UNCHANGED failed
  <2>1. /\ op' = "cleanup" /\ pc' = "next" /\ todo' = todo \ {s}
        /\ \A x \in Sessions : Copy(x)' = None
    BY <1>1, <1>2, <1>4, BeginShape
  <2>2. MemoryInv' /\ RunningInv'
    BY <1>1, <1>4, <2>1, CalmStep DEF SameAgent
  <2>3. \A x \in Sessions : InHand(x) => InHand(x)' \/ store'[x] = None
    BY <1>1, <1>4, <2>1 DEF InHand
  <2>4. ListedInv'
    BY <1>1, <1>4, <2>1, <2>3, CalmLists DEF SameAgent
  <2> QED BY <2>2, <2>4
<1>5. CASE /\ store[s] # None
           /\ CloseBegin(s, store[s], f, ClaimedExcluding(store, s))
  <2>1. store[s] \in Row /\ SameAgent(store[s], store[s])
    BY <1>1, <1>5, StoredIsARow DEF SameAgent
  <2>2. /\ MemoryInv' /\ RunningInv' /\ Tracked' \subseteq Tracked
        /\ op' = "cleanup" /\ pc' \in {"token", "kill"} /\ cur' = s
        /\ todo' = todo \ {s}
    BY <1>1, <1>2, <1>5, <2>1, ClosingBegunAgents
  <2>3. failed \subseteq failed'
    BY <1>1, <1>2, <1>5, <2>1, ClosingBegun
  <2>4. \A x \in Sessions : InHand(x) => InHand(x)'
    BY <1>1, <2>2 DEF InHand
  <2>5. ListedInv'
    BY <1>1, <2>2, <2>3, <2>4, CalmLists DEF SameAgent
  <2> QED BY <2>2, <2>5
<1> QED BY <1>3, <1>4, <1>5

(* A row the shutdown passes over belongs to another instance, of which    *)
(* nothing runs, or its agent is gone already.                             *)
LEMMA PassedOver ==
  ASSUME AgentsInv, op = "shutdown", NEW s \in Sessions, Copy(s) # None,
         SameAgent(Copy(s), store[s]), store[s] # None,
         ~ShouldShutdown(Copy(s))
  PROVE  store[s].mux \notin Tracked
<1> SUFFICES ASSUME store[s].mux \in Tracked PROVE FALSE
  OBVIOUS
<1>1. TypeOK /\ RowsNameTheirAgent /\ KnownAreBorn /\ phase = "closing"
  BY OpTellsPhase DEF AgentsInv, RunningInv
<1>2. store[s].mux # None
  BY <1>1, TrackedAreMuxes
<1>3. launched[store[s].mux].owner = store[s].owner
  BY <1>1, <1>2, RowOfAgent
<1>4. store[s].owner = instance
  BY <1>1, <1>3 DEF AgentsInv, ListedInv, OwnRunning
<1> QED BY <1>4 DEF ShouldShutdown, SameAgent, Tracked

LEMMA ShutdownNextAgents ==
  ASSUME AgentsInv, NEW s \in Sessions, ShutdownNext(s)
  PROVE  MemoryInv' /\ RunningInv' /\ ListedInv'
<1> DEFINE f == [frame[UI] EXCEPT !.todo = Remaining(s)]
<1>1. /\ TypeOK /\ pc = "next" /\ op = "shutdown" /\ s \in todo
      /\ UNCHANGED <<store, live, launched, born, instance, phase>>
  BY DEF AgentsInv, ShutdownNext, At, pc, op, todo
<1>2. /\ f \in Frame /\ f.op = "shutdown" /\ f.pc = "next"
      /\ f.todo = todo \ {s} /\ \A x \in Sessions : f.list[x] = Copy(x)
  BY <1>1, UIFrame DEF Frame, Remaining, todo, op, pc, Copy
<1>3. Copy(s) # None /\ Copy(s) \in Row
  <2>1. Copy(s) # None
    BY <1>1, UIFrame DEF FrameOK, Copy, op, todo
  <2> QED BY <1>1, <2>1, UIFrame
<1>4. \A x \in Sessions : Copy(x) # None =>
        store[x] # None /\ SameAgent(Copy(x), store[x])
  BY <1>1 DEF AgentsInv, MemoryInv, MemoryAgrees
<1>5. \/ ~ShouldShutdown(Copy(s)) /\ Begin(UI, f) /\ UNCHANGED failed
      \/ CloseBegin(s, Copy(s), f, frame[UI].claimed)
      \/ /\ Begin(UI, f) /\ failed' = failed \cup {Copy(s).mux}
         /\ ShouldShutdown(Copy(s)) /\ Copy(s).state = "Exited"
  BY DEF ShutdownNext, Copy
<1> HIDE DEF f
<1>8. CASE /\ Begin(UI, f) /\ failed' = failed \cup {Copy(s).mux}
           /\ ShouldShutdown(Copy(s)) /\ Copy(s).state = "Exited"
  <2>1. /\ op' = "shutdown" /\ pc' = "next" /\ todo' = todo \ {s}
        /\ \A x \in Sessions : Copy(x)' = Copy(x)
    BY <1>1, <1>2, <1>8, BeginShape
  <2>2. /\ failed \subseteq failed' /\ failed' \subseteq failed \cup live
        /\ store[s].mux \notin Tracked'
    BY <1>3, <1>4, <1>8 DEF ShouldShutdown, SameAgent, Tracked
  <2>3. MemoryInv' /\ RunningInv'
    BY <1>1, <1>4, <2>1, <2>2, CalmStep DEF SameAgent
  <2>4. \A x \in Sessions : InHand(x) => InHand(x)' \/ x = s
    BY <1>1, <2>1 DEF InHand
  <2>5. ListedInv'
    BY <1>1, <2>1, <2>2, <2>4, CalmLists DEF SameAgent
  <2> QED BY <2>3, <2>5
<1>6. CASE ~ShouldShutdown(Copy(s)) /\ Begin(UI, f) /\ UNCHANGED failed
  <2>1. /\ op' = "shutdown" /\ pc' = "next" /\ todo' = todo \ {s}
        /\ \A x \in Sessions : Copy(x)' = Copy(x)
    BY <1>1, <1>2, <1>6, BeginShape
  <2>2. MemoryInv' /\ RunningInv'
    BY <1>1, <1>4, <1>6, <2>1, CalmStep DEF SameAgent
  <2>3. store[s].mux \notin Tracked /\ Tracked' = Tracked
    BY <1>1, <1>3, <1>4, <1>6, PassedOver DEF Tracked
  <2>4. \A x \in Sessions : InHand(x) => InHand(x)' \/ x = s
    BY <1>1, <1>6, <2>1 DEF InHand
  <2>5. ListedInv'
    BY <1>1, <1>6, <2>1, <2>3, <2>4, CalmLists DEF SameAgent
  <2> QED BY <2>2, <2>5
<1>7. CASE CloseBegin(s, Copy(s), f, frame[UI].claimed)
  <2>1. /\ MemoryInv' /\ RunningInv' /\ Tracked' \subseteq Tracked
        /\ op' = "shutdown" /\ pc' \in {"token", "kill"} /\ cur' = s
        /\ todo' = todo \ {s}
    BY <1>1, <1>2, <1>3, <1>4, <1>7, ClosingBegunAgents
  <2>2. failed \subseteq failed'
    BY <1>1, <1>2, <1>3, <1>7, ClosingBegun
  <2>3. \A x \in Sessions : InHand(x) => InHand(x)'
    BY <1>1, <2>1 DEF InHand
  <2>4. ListedInv'
    BY <1>1, <2>1, <2>2, <2>3, CalmLists DEF SameAgent
  <2> QED BY <2>1, <2>4
<1> QED BY <1>5, <1>6, <1>7, <1>8

LEMMA DoneAgents ==
  ASSUME AgentsInv, TerminateDone \/ CleanupDone \/ ShutdownDone
  PROVE  MemoryInv' /\ RunningInv' /\ ListedInv'
<1>1. /\ TypeOK /\ RowsNameTheirAgent /\ KnownAreBorn /\ pc = "next"
      /\ Finish(UI) /\ RunningIsTracked
      /\ UNCHANGED <<store, live, launched, born, instance, failed>>
  BY
  DEF AgentsInv, RunningInv, TerminateDone, CleanupDone, ShutdownDone, At, pc
<1>2. MemoryInv' /\ RunningInv' /\ op' = "none" /\ Tracked' = Tracked
  BY <1>1, QuietAgents
<1>3. CASE TerminateDone
  <2>1. phase = "running" /\ UNCHANGED phase
    BY <1>3, OpTellsPhase DEF TerminateDone, op
  <2> QED BY <1>1, <1>2, <2>1, UpListsAsBefore
<1>4. ASSUME NEW t \in Tracked
      PROVE  \E s \in Sessions : /\ store[s] # None /\ store[s].mux = t
                                 /\ launched[t].owner = store[s].owner
  <2>1. PICK s \in Sessions : store[s] # None /\ store[s].mux = t
    BY <1>1, <1>4 DEF RunningIsTracked, Tracked, At, pc
  <2>2. t # None
    BY <1>1, <1>4, TrackedAreMuxes
  <2> QED BY <1>1, <2>1, <2>2, RowOfAgent
<1>5. CASE CleanupDone
  <2>1. op = "cleanup" /\ todo = {} /\ phase' = "running"
    BY <1>5 DEF CleanupDone, op, todo
  <2>2. \A t \in Tracked : launched[t].owner = instance
    BY <1>1, <1>4, <2>1 DEF AgentsInv, ListedInv, CleanupListed, InHand
  <2> QED
    BY <1>1, <1>2, <2>1, <2>2
    DEF ListedInv, PhaseOK, OwnRunning, CleanupListed, ShutdownListed,
        CloseEndsAgents
<1>6. CASE ShutdownDone
  <2>1. op = "shutdown" /\ todo = {} /\ phase' = "closed"
    BY <1>6 DEF ShutdownDone, op, todo
  <2>2. Tracked = {}
    BY <1>1, <1>4, <2>1 DEF AgentsInv, ListedInv, ShutdownListed, InHand
  <2> QED
    BY <1>1, <1>2, <2>1, <2>2
    DEF ListedInv, PhaseOK, OwnRunning, CleanupListed, ShutdownListed,
        CloseEndsAgents, Tracked
<1> QED BY <1>1, <1>3, <1>5, <1>6

-----------------------------------------------------------------------------
(* The steps of closing a session                                          *)

LEMMA ClosingHolds ==
  ASSUME AgentsInv, pc \in ClosingSteps \ {"next"}
  PROVE  /\ TypeOK /\ RowsNameTheirAgent /\ cur \in Sessions
         /\ Copy(cur) \in Row /\ Copy(cur) # None /\ Copy(cur) = Held(UI)
         /\ store[cur] # None /\ SameAgent(Copy(cur), store[cur])
         /\ pc # "persist"
         /\ \A x \in Sessions : Copy(x) # None =>
              store[x] # None /\ SameAgent(Copy(x), store[x])
<1>1. TypeOK /\ RowsNameTheirAgent /\ pc \in Holding /\ pc # "persist"
  <2>1. pc \in Steps
    BY UIFrame DEF AgentsInv, Frame, pc
  <2> QED BY <2>1 DEF AgentsInv, Holding, ClosingSteps
<1>2. Copy(cur) # None
  BY <1>1, AtHand, RecordAssumption
<1> QED
  BY <1>1, <1>2, AtHand DEF AgentsInv, MemoryInv, MemoryAgrees

(* A step of closing that changes no more of a row than its token.         *)
LEMMA ClosingStepAgents ==
  ASSUME AgentsInv, pc \in ClosingSteps \ {"next"},
         UNCHANGED <<launched, born, phase, instance>>,
         op' = op, cur' = cur, todo' = todo, alive' = alive,
         live' \subseteq live, failed \subseteq failed',
         failed' \subseteq failed \cup live,
         \A x \in Sessions :
           IF store[x] = None THEN store'[x] = None
           ELSE store'[x] # None /\ SameAgent(store'[x], store[x]),
         \A x \in Sessions :
           IF Copy(x) = None THEN Copy(x)' = None
           ELSE Copy(x)' # None /\ SameAgent(Copy(x)', Copy(x)),
         pc' \in ClosingSteps,
         pc' \in {"token", "kill"} => pc \in {"token", "kill"},
         pc' \in {"retry", "tokenAgain", "exit"} =>
           pc \in {"retry", "tokenAgain", "exit"}
           \/ Copy(cur).mux \notin Tracked',
         pc \in {"token", "kill"} /\ pc' \notin {"token", "kill"} =>
           Copy(cur).mux \notin Tracked'
  PROVE  MemoryInv' /\ RunningInv' /\ ListedInv'
<1>1. /\ cur \in Sessions /\ Copy(cur) # None
      /\ store[cur] # None /\ SameAgent(Copy(cur), store[cur])
      /\ \A x \in Sessions : Copy(x) # None =>
           store[x] # None /\ SameAgent(Copy(x), store[x])
      /\ pc # "persist"
  BY ClosingHolds
<1>2. Tracked' \subseteq Tracked
  BY DEF Tracked
<1>3. MemoryInv'
  BY <1>1
  DEF MemoryInv, MemoryAgrees, StartsOne, ReportedAreGone, ClosedOnesDeleted,
      SameAgent, ClosingSteps, Missed
<1>4. KnownAreBorn'
  BY DEF AgentsInv, RunningInv, KnownAreBorn
<1>5. KilledIsGone'
  <2>1. Copy(cur)' # None /\ Copy(cur)'.mux = Copy(cur).mux
    <3>1. \A x \in Sessions : Copy(x) # None =>
            Copy(x)' # None /\ Copy(x)'.mux = Copy(x).mux
      BY DEF SameAgent
    <3> QED BY <1>1, <3>1 DEF Copy, cur
  <2> QED BY <1>2, <2>1 DEF AgentsInv, RunningInv, KilledIsGone
<1>6. RunningIsTracked'
  BY <1>1, <1>2
  DEF AgentsInv, RunningInv, RunningIsTracked, Tracked, At, pc, SameAgent,
      Missed
<1>7. \A x \in Sessions :
        InHand(x) => InHand(x)' \/ store'[x].mux \notin Tracked'
  BY <1>1 DEF InHand, SameAgent
<1>8. ListedInv'
  BY <1>7, CalmLists
<1> QED BY <1>3, <1>4, <1>5, <1>6, <1>8 DEF RunningInv

(* Writing the record at hand changes no more than its token.              *)
LEMMA HeldWritten ==
  ASSUME AgentsInv, pc \in Holding, pc # "persist",
         Save(frame[UI].cur, Held(UI)) \/ UNCHANGED store
  PROVE  \A x \in Sessions :
           IF store[x] = None THEN store'[x] = None
           ELSE store'[x] # None /\ SameAgent(store'[x], store[x])
<1>1. TypeOK /\ cur \in Sessions /\ Copy(cur) \in Row /\ Copy(cur) # None
      /\ Copy(cur) = Held(UI)
  BY AtHand, RecordAssumption DEF AgentsInv
<1>2. store[cur] # None /\ SameAgent(Copy(cur), store[cur])
  BY <1>1 DEF AgentsInv, MemoryInv, MemoryAgrees
<1>3. CASE Save(cur, Copy(cur))
  BY <1>1, <1>2, <1>3, SaveShape DEF SameAgent
<1>4. CASE UNCHANGED store
  BY <1>4 DEF SameAgent
<1> QED BY <1>1, <1>3, <1>4 DEF cur

LEMMA SaveTokenAgents ==
  ASSUME AgentsInv, SaveToken
  PROVE  MemoryInv' /\ RunningInv' /\ ListedInv'
<1>1. /\ TypeOK /\ pc \in {"token", "tokenAgain"}
      /\ Goto(UI, IF pc = "token" THEN "kill" ELSE "exit")
      /\ Save(frame[UI].cur, Held(UI)) \/ UNCHANGED store
      /\ UNCHANGED <<launched, born, phase, instance, live, failed>>
  BY DEF AgentsInv, SaveToken, At, pc
<1>2. pc \in Holding /\ pc \in ClosingSteps \ {"next"} /\ pc # "persist"
  BY <1>1, UIFrame DEF Holding, ClosingSteps, Frame, pc
<1>3. \A x \in Sessions :
        IF store[x] = None THEN store'[x] = None
        ELSE store'[x] # None /\ SameAgent(store'[x], store[x])
  BY <1>1, <1>2, HeldWritten
<1>4. /\ op' = op /\ pc' = (IF pc = "token" THEN "kill" ELSE "exit")
      /\ cur' = cur /\ todo' = todo
      /\ alive' = alive /\ \A s \in Sessions : Copy(s)' = Copy(s)
  BY <1>1, GotoShape
<1> QED
  BY <1>1, <1>2, <1>3, <1>4, ClosingStepAgents DEF ClosingSteps, SameAgent

LEMMA KillAgents ==
  ASSUME AgentsInv, Kill
  PROVE  MemoryInv' /\ RunningInv' /\ ListedInv'
<1>1. /\ TypeOK /\ pc = "kill" /\ Copy(cur) = Held(UI)
      /\ UNCHANGED <<store, launched, born, phase, instance>>
  BY DEF AgentsInv, Kill, At, pc, Copy, cur, Held
<1>2. pc \in ClosingSteps \ {"next"}
  BY <1>1 DEF ClosingSteps
<1>3. /\ \E label \in {"retry", "exit", "next"} : Goto(UI, label)
      /\ live' \subseteq live /\ failed \subseteq failed'
      /\ failed' \subseteq failed \cup live
      /\ alive # {} => Copy(cur).mux \notin Tracked'
      /\ alive = {} => UNCHANGED <<live, failed>>
  BY <1>1 DEF Kill, Tracked, alive
<1>4. Copy(cur).mux \notin Tracked'
  BY <1>1, <1>3 DEF AgentsInv, RunningInv, KilledIsGone, Tracked
<1>5. /\ op' = op /\ pc' \in {"retry", "exit", "next"}
      /\ cur' = cur /\ todo' = todo
      /\ alive' = alive /\ \A s \in Sessions : Copy(s)' = Copy(s)
  BY <1>1, <1>3, GotoShape
<1> QED
  BY <1>1, <1>2, <1>3, <1>4, <1>5, ClosingStepAgents
  DEF ClosingSteps, SameAgent

LEMMA RetryShape ==
  ASSUME TypeOK, Retry
  PROVE  /\ op' = op /\ pc' \in {"exit", "tokenAgain"} /\ cur' = cur
         /\ todo' = todo /\ alive' = alive
         /\ cur \in Sessions /\ Copy(cur) \in Row
         /\ \E r \in ResolvePending(UI, cur, Copy(cur), frame[UI].claimed) :
              \A x \in Sessions :
                Copy(x)' = IF x = cur THEN [Copy(cur) EXCEPT !.token = r.token]
                           ELSE Copy(x)
<1>1. UI \in Threads /\ frame[UI] \in Frame /\ pc \in Holding
  BY UIFrame DEF Retry, At, Holding, Frame, pc
<1>2. cur \in Sessions /\ Copy(cur) \in Row /\ Copy(cur) = Held(UI)
  BY <1>1, AtHand
<1>3. PICK r \in ResolvePending(UI, cur, Copy(cur), frame[UI].claimed) :
        frame' = [frame EXCEPT
             ![UI].pc = IF r.token = Pending THEN "exit" ELSE "tokenAgain",
             ![UI].list[cur].token = r.token]
  BY <1>2 DEF Retry, cur
<1>4. /\ frame'[UI].op = frame[UI].op
      /\ frame'[UI].pc \in {"exit", "tokenAgain"}
      /\ frame'[UI].cur = frame[UI].cur /\ frame'[UI].todo = frame[UI].todo
      /\ frame'[UI].alive = frame[UI].alive
  BY <1>1, <1>3 DEF TypeOK, Frame
<1>5. \A x \in Sessions :
        frame'[UI].list[x] = IF x = cur
                             THEN [Copy(cur) EXCEPT !.token = r.token]
                             ELSE frame[UI].list[x]
  BY <1>1, <1>2, <1>3 DEF TypeOK, Frame, Rows, Copy
<1> QED
  BY <1>2, <1>4, <1>5 DEF op, pc, cur, todo, alive, Copy

LEMMA RetryAgents ==
  ASSUME AgentsInv, Retry
  PROVE  MemoryInv' /\ RunningInv' /\ ListedInv'
<1>1. /\ TypeOK /\ pc = "retry"
      /\ UNCHANGED <<store, launched, born, phase, instance, live, failed>>
  BY DEF AgentsInv, Retry, At, pc
<1>2. pc \in ClosingSteps \ {"next"}
  BY <1>1 DEF ClosingSteps
<1>3. PICK r \in ResolvePending(UI, cur, Copy(cur), frame[UI].claimed) :
        \A x \in Sessions :
          Copy(x)' = IF x = cur THEN [Copy(cur) EXCEPT !.token = r.token]
                     ELSE Copy(x)
  BY <1>1, RetryShape
<1> DEFINE held == [Copy(cur) EXCEPT !.token = r.token]
<1>4. held \in Row /\ SameAgent(held, Copy(cur))
  BY <1>1, <1>3, RetryShape, UIFrame, ResolvePendingType DEF Row, SameAgent
<1>5. \A x \in Sessions :
        IF Copy(x) = None THEN Copy(x)' = None
        ELSE Copy(x)' # None /\ SameAgent(Copy(x)', Copy(x))
  <2>1. \A x \in Sessions : Copy(x)' = IF x = cur THEN held ELSE Copy(x)
    BY <1>3
  <2>2. Copy(cur) # None
    BY <1>2, ClosingHolds
  <2> HIDE DEF held
  <2> QED BY <1>4, <2>1, <2>2, RecordAssumption DEF SameAgent
<1> QED
  BY <1>1, <1>2, <1>5, RetryShape, ClosingStepAgents
  DEF ClosingSteps, SameAgent

LEMMA MarkExitedShape ==
  ASSUME TypeOK, MarkExited
  PROVE  /\ pc = "exit" /\ cur \in Sessions
         /\ Copy(cur) \in Row
         /\ \/ UNCHANGED store /\ Goto(UI, "next")
            \/ /\ Save(cur, ClosedRow(Copy(cur)))
               /\ op' = op /\ pc' = "artifacts" /\ cur' = cur /\ todo' = todo
               /\ alive' = alive
               /\ \A x \in Sessions :
                    Copy(x)' = IF x = cur THEN ClosedRow(Copy(cur)) ELSE Copy(x)
<1>1. UI \in Threads /\ frame[UI] \in Frame /\ pc = "exit" /\ pc \in Holding
  BY UIFrame DEF MarkExited, At, Holding, Frame, pc
<1>2. cur \in Sessions /\ Copy(cur) \in Row /\ Copy(cur) = Held(UI)
  BY <1>1, AtHand
<1> DEFINE closed == ClosedRow(Copy(cur))
<1>3. CASE ~(UNCHANGED store /\ Goto(UI, "next"))
  <2>1. /\ Save(cur, closed)
        /\ frame' = [frame EXCEPT
               ![UI].pc = "artifacts",
               ![UI].list[cur] = closed,
               ![UI].claimed = IF frame[UI].op = "shutdown"
                               THEN @ \cup ({Held(UI).token} \ {Pending})
                               ELSE @]
    BY <1>2, <1>3 DEF MarkExited, cur
  <2> HIDE DEF closed
  <2>2. /\ frame'[UI].op = frame[UI].op /\ frame'[UI].pc = "artifacts"
        /\ frame'[UI].cur = frame[UI].cur /\ frame'[UI].todo = frame[UI].todo
        /\ frame'[UI].alive = frame[UI].alive
        /\ \A x \in Sessions :
             frame'[UI].list[x] = IF x = cur THEN closed ELSE frame[UI].list[x]
    BY <1>1, <1>2, <2>1 DEF TypeOK, Frame, Rows
  <2> QED
    BY <1>1, <1>2, <2>1, <2>2 DEF op, pc, cur, todo, alive, Copy, closed
<1> QED BY <1>1, <1>2, <1>3

LEMMA MarkExitedAgents ==
  ASSUME AgentsInv, MarkExited
  PROVE  MemoryInv' /\ RunningInv' /\ ListedInv'
<1> DEFINE closed == ClosedRow(Copy(cur))
<1>1. /\ TypeOK /\ pc = "exit" /\ cur \in Sessions /\ Copy(cur) \in Row
      /\ UNCHANGED <<launched, born, phase, instance, live, failed>>
  BY MarkExitedShape DEF AgentsInv, MarkExited
<1>2. /\ pc \in ClosingSteps \ {"next"} /\ pc # "persist"
      /\ Copy(cur).mux \notin Tracked /\ Tracked' = Tracked
  BY <1>1 DEF ClosingSteps, AgentsInv, RunningInv, KilledIsGone, Tracked
<1>3. CASE UNCHANGED store /\ Goto(UI, "next")
  <2>1. /\ op' = op /\ pc' = "next" /\ cur' = cur /\ todo' = todo
        /\ alive' = alive /\ \A s \in Sessions : Copy(s)' = Copy(s)
    BY <1>1, <1>3, GotoShape
  <2> QED
    BY <1>1, <1>2, <1>3, <2>1, ClosingStepAgents DEF ClosingSteps, SameAgent
<1>4. CASE ~(UNCHANGED store /\ Goto(UI, "next"))
  <2>1. /\ Save(cur, closed)
        /\ op' = op /\ pc' = "artifacts" /\ cur' = cur /\ todo' = todo
        /\ \A x \in Sessions :
             Copy(x)' = IF x = cur THEN closed ELSE Copy(x)
    BY <1>1, <1>4, MarkExitedShape
  <2>2. closed \in Row /\ closed.mux = None /\ closed # None
    BY <1>1, ClosedRowType, RecordAssumption DEF ClosedRow, Row
  <2> HIDE DEF closed
  <2>3. \A x \in Sessions : store'[x] = IF x = cur THEN closed ELSE store[x]
    BY <1>1, <2>1, SaveShape
  <2>4. /\ store[cur] # None /\ store[cur].mux = Copy(cur).mux
        /\ \A x \in Sessions : Copy(x) # None =>
             store[x] # None /\ SameAgent(Copy(x), store[x])
    BY <1>2, ClosingHolds DEF SameAgent
  <2>5. MemoryInv'
    BY <1>1, <2>1, <2>2, <2>3, <2>4
    DEF MemoryInv, MemoryAgrees, StartsOne, ReportedAreGone, ClosedOnesDeleted,
        SameAgent, Missed
  <2>6. KnownAreBorn' /\ KilledIsGone'
    BY <1>1, <2>1, <2>3, <2>4
    DEF AgentsInv, RunningInv, KnownAreBorn, KilledIsGone
  <2>7. RunningIsTracked'
    BY <1>2, <2>3, <2>4
    DEF AgentsInv, RunningInv, RunningIsTracked, Tracked, At, pc
  <2>8. \A x \in Sessions : InHand(x) => InHand(x)'
    BY <1>1, <2>1 DEF InHand
  <2>9. ListedInv'
    BY <1>1, <2>1, <2>2, <2>3, <2>8, CalmLists DEF SameAgent
  <2> QED BY <2>5, <2>6, <2>7, <2>9 DEF RunningInv
<1> QED BY <1>3, <1>4

LEMMA SaveArtifactsAgents ==
  ASSUME AgentsInv, SaveArtifacts
  PROVE  MemoryInv' /\ RunningInv' /\ ListedInv'
<1>1. /\ TypeOK /\ pc = "artifacts" /\ Goto(UI, "next")
      /\ Save(frame[UI].cur, Held(UI)) \/ UNCHANGED store
      /\ UNCHANGED <<launched, born, phase, instance, live, failed>>
  BY DEF AgentsInv, SaveArtifacts, At, pc
<1>2. pc \in Holding /\ pc \in ClosingSteps \ {"next"} /\ pc # "persist"
  BY <1>1, UIFrame DEF Holding, ClosingSteps, Frame, pc
<1>3. \A x \in Sessions :
        IF store[x] = None THEN store'[x] = None
        ELSE store'[x] # None /\ SameAgent(store'[x], store[x])
  BY <1>1, <1>2, HeldWritten
<1>4. /\ op' = op /\ pc' = "next" /\ cur' = cur /\ todo' = todo
      /\ alive' = alive /\ \A s \in Sessions : Copy(s)' = Copy(s)
  BY <1>1, GotoShape
<1> QED
  BY <1>1, <1>2, <1>3, <1>4, ClosingStepAgents DEF ClosingSteps, SameAgent

-----------------------------------------------------------------------------
(* Launch, rename and delete write                                         *)

LEMMA LaunchPersistAgents ==
  ASSUME AgentsInv, LaunchPersist
  PROVE  MemoryInv' /\ RunningInv' /\ ListedInv'
<1> DEFINE t == Copy(cur).mux
<1>1. /\ TypeOK /\ RowsNameTheirAgent /\ KnownAreBorn /\ pc = "persist"
      /\ UNCHANGED <<launched, phase, instance, born>>
      /\ \/ /\ Save(cur, Copy(cur)) /\ Goto(UI, "attach")
            /\ UNCHANGED <<live, failed>>
         \/ /\ Finish(UI) /\ UNCHANGED store
            /\ \/ live' = live \ {t} /\ UNCHANGED failed
               \/ failed' = failed \cup {t} /\ UNCHANGED live
  BY DEF AgentsInv, RunningInv, LaunchPersist, At, pc, cur, Copy, Held
<1>2. /\ pc \in Holding /\ cur \in Sessions /\ Copy(cur) \in Row
      /\ Copy(cur) # None
  BY <1>1, UIFrame, AtHand, RecordAssumption DEF Holding, Frame, pc
<1>3. /\ \A s \in Sessions \ {cur} : Copy(s) = None
      /\ Copy(cur).state = "Live" /\ cur \in born
      /\ store[cur] # None => store[cur].state = "Exited"
  BY <1>1 DEF AgentsInv, MemoryInv, StartsOne
<1>4. t \in Muxes /\ launched[t] # None
  <2>1. Copy(cur).mux # None
    BY <1>1, UIFrame DEF FrameOK, pc, cur, Copy
  <2> QED BY <1>1, <1>2, <2>1, CopyOfAgent, RecordAssumption
<1>5. phase = "running" /\ op \notin {"cleanup", "shutdown"}
  <2>1. op \in {"launch", "resume"}
    BY <1>1, StepTellsOp
  <2> QED BY <2>1, OpTellsPhase
<1>6. \A u \in Tracked :
        \/ u = t
        \/ \E s \in Sessions : /\ store[s] # None /\ store[s].state = "Live"
                               /\ store[s].mux = u
  BY DEF AgentsInv, RunningInv, RunningIsTracked, Tracked, Held, Copy, cur
<1>7. CASE /\ Save(cur, Copy(cur)) /\ Goto(UI, "attach")
           /\ UNCHANGED <<live, failed>>
  <2>1. \A x \in Sessions :
          store'[x] = IF x = cur THEN Copy(cur) ELSE store[x]
    BY <1>1, <1>2, <1>7, SaveShape
  <2>2. /\ op' = op /\ pc' = "attach" /\ cur' = cur /\ todo' = todo
        /\ alive' = alive /\ \A s \in Sessions : Copy(s)' = Copy(s)
    BY <1>1, <1>7, GotoShape
  <2>3. MemoryInv'
    BY <1>2, <1>3, <2>1, <2>2
    DEF MemoryInv, MemoryAgrees, StartsOne, ReportedAreGone, ClosedOnesDeleted,
        SameAgent
  <2>4. KnownAreBorn' /\ KilledIsGone'
    BY <1>1, <1>3, <1>7, <2>1, <2>2 DEF KnownAreBorn, KilledIsGone
  <2>5. RunningIsTracked'
    BY <1>2, <1>3, <1>6, <1>7, <2>1 DEF RunningIsTracked, Tracked
  <2>6. ListedInv'
    BY <1>1, <1>5, <1>7, <2>2, UpListsAsBefore DEF Tracked
  <2> QED BY <2>3, <2>4, <2>5, <2>6 DEF RunningInv
<1>8. CASE /\ Finish(UI) /\ UNCHANGED store
           /\ \/ live' = live \ {t} /\ UNCHANGED failed
              \/ failed' = failed \cup {t} /\ UNCHANGED live
  <2>1. op' = "none" /\ pc' = "idle" /\ \A s \in Sessions : Copy(s)' = None
    BY <1>1, <1>8, FinishShape
  <2>2. Tracked' = Tracked \ {t}
    BY <1>8 DEF Tracked
  <2>3. MemoryInv'
    BY <2>1
    DEF MemoryInv, MemoryAgrees, StartsOne, ReportedAreGone, ClosedOnesDeleted
  <2>4. KnownAreBorn' /\ KilledIsGone'
    BY <1>1, <1>4, <1>8, <2>1 DEF KnownAreBorn, KilledIsGone
  <2>5. RunningIsTracked'
    BY <1>6, <1>8, <2>2 DEF RunningIsTracked, Tracked
  <2>6. ListedInv'
    BY <1>1, <1>5, <2>1, <2>2, UpListsAsBefore
  <2> QED BY <2>3, <2>4, <2>5, <2>6 DEF RunningInv
<1> QED BY <1>1, <1>7, <1>8

LEMMA LastWriteAgents ==
  ASSUME AgentsInv, Attach \/ RenameSave
  PROVE  MemoryInv' /\ RunningInv' /\ ListedInv'
<1>1. /\ TypeOK /\ pc \in {"attach", "save"} /\ Finish(UI)
      /\ Save(frame[UI].cur, Held(UI)) \/ UNCHANGED store
      /\ UNCHANGED <<launched, born, phase, instance, live, failed>>
  BY DEF AgentsInv, Attach, RenameSave, At, pc
<1>2. pc \in Holding /\ pc # "persist"
  BY <1>1, UIFrame DEF Holding, Frame, pc
<1>3. \A x \in Sessions :
        IF store[x] = None THEN store'[x] = None
        ELSE store'[x] # None /\ SameAgent(store'[x], store[x])
  BY <1>1, <1>2, HeldWritten
<1>4. op' = "none" /\ pc' = "idle" /\ \A s \in Sessions : Copy(s)' = None
  BY <1>1, FinishShape
<1>5. phase = "running"
  BY <1>1, StepTellsOp, OpTellsPhase
<1>6. MemoryInv' /\ RunningInv'
  BY <1>1, <1>2, <1>3, <1>4, CalmStep
<1> QED BY <1>1, <1>4, <1>5, <1>6, UpListsAsBefore DEF Tracked

(* What is deleted is closed, and no agent is tracked by a closed row.     *)
LEMMA DeleteCommitAgents ==
  ASSUME AgentsInv, DeleteCommit
  PROVE  MemoryInv' /\ RunningInv' /\ ListedInv'
<1>1. /\ TypeOK /\ pc = "commit" /\ Finish(UI)
      /\ \/ store' = [s \in Sessions |-> IF s \in todo THEN None ELSE store[s]]
         \/ UNCHANGED store
      /\ UNCHANGED <<launched, born, phase, instance, live, failed>>
  BY DEF AgentsInv, DeleteCommit, At, pc, todo
<1>2. op' = "none" /\ pc' = "idle" /\ \A s \in Sessions : Copy(s)' = None
  BY <1>1, FinishShape
<1>3. /\ \A s \in todo : store[s] # None /\ store[s].state = "Exited"
      /\ pc # "persist"
  BY <1>1 DEF AgentsInv, MemoryInv, ClosedOnesDeleted
<1>4. \A x \in Sessions :
        store'[x] = store[x] \/ (x \in todo /\ store'[x] = None)
  BY <1>1
<1>5. MemoryInv'
  BY <1>2
  DEF MemoryInv, MemoryAgrees, StartsOne, ReportedAreGone, ClosedOnesDeleted
<1>6. KnownAreBorn' /\ KilledIsGone'
  BY <1>1, <1>2, <1>4 DEF AgentsInv, RunningInv, KnownAreBorn, KilledIsGone
<1>7. RunningIsTracked'
  BY <1>1, <1>3, <1>4
  DEF AgentsInv, RunningInv, RunningIsTracked, Tracked, At, pc
<1>8. phase = "running"
  BY <1>1, StepTellsOp, OpTellsPhase
<1> QED
  BY <1>1, <1>2, <1>5, <1>6, <1>7, <1>8, UpListsAsBefore
  DEF RunningInv, Tracked

-----------------------------------------------------------------------------
(* A refresh on the one thread                                             *)

LEMMA RefreshStartShape ==
  ASSUME TypeOK, RefreshStart(UI)
  PROVE  /\ Idle(UI) /\ phase = "running" /\ op' = "refresh" /\ pc' = "resolve"
         /\ todo' \subseteq { s \in Sessions : store[s] # None }
         /\ \A s \in Sessions : Copy(s)' = store[s]
         /\ UNCHANGED <<store, live, launched, born, phase, instance, failed,
                        visible>>
<1> DEFINE f == [IdleFrame EXCEPT
              !.op = "refresh", !.pc = "resolve", !.list = store,
              !.todo = { s \in Sessions : store[s] # None
                             /\ ~(store[s] # None /\ store[s].token # Pending) },
              !.claimed = ClaimedExcluding(store, None)]
<1>1. Begin(UI, f)
  BY DEF RefreshStart
<1>2. /\ f.op = "refresh" /\ f.pc = "resolve" /\ f.list = store
      /\ f.todo \subseteq { s \in Sessions : store[s] # None }
  BY DEF IdleFrame
<1> HIDE DEF f
<1> QED BY <1>1, <1>2, BeginShape DEF RefreshStart, MayRefresh

LEMMA RefreshResolveShape ==
  ASSUME TypeOK, NEW s \in Sessions, RefreshResolve(UI, s)
  PROVE  /\ pc = "resolve" /\ op = "refresh" /\ op' = "refresh" /\ s \in todo
         /\ todo' = todo \ {s} /\ alive' = alive /\ Copy(s) \in Row
         /\ \E r \in ResolvePending(UI, s, Copy(s), frame[UI].claimed) :
              /\ IF r.token = Pending THEN pc' = "resolve"
                 ELSE pc' = "refreshToken" /\ cur' = s
              /\ \A x \in Sessions :
                   Copy(x)' = IF x = s THEN [Copy(s) EXCEPT !.token = r.token]
                              ELSE Copy(x)
<1>1. /\ UI \in Threads /\ frame[UI] \in Frame /\ op = "refresh"
      /\ pc = "resolve" /\ s \in todo /\ Copy(s) \in Row
  BY UIFrame, RefreshFrame DEF RefreshResolve, At, pc, todo, op, Copy
<1>2. PICK r \in ResolvePending(UI, s, Copy(s), frame[UI].claimed) :
        frame' = [frame EXCEPT
            ![UI].todo = @ \ {s},
            ![UI].list[s].token = r.token,
            ![UI].cur = IF r.token = Pending THEN None ELSE s,
            ![UI].pc = IF r.token = Pending THEN "resolve" ELSE "refreshToken"]
  BY DEF RefreshResolve, Copy
<1>3. /\ frame'[UI].op = frame[UI].op
      /\ frame'[UI].pc = IF r.token = Pending THEN "resolve" ELSE "refreshToken"
      /\ frame'[UI].cur = IF r.token = Pending THEN None ELSE s
      /\ frame'[UI].todo = frame[UI].todo \ {s}
      /\ frame'[UI].alive = frame[UI].alive
  BY <1>1, <1>2 DEF TypeOK, Frame
<1>4. \A x \in Sessions :
        frame'[UI].list[x] = IF x = s
                             THEN [Copy(s) EXCEPT !.token = r.token]
                             ELSE frame[UI].list[x]
  BY <1>1, <1>2 DEF TypeOK, Frame, Rows, Copy
<1> QED
  BY <1>1, <1>3, <1>4 DEF op, pc, cur, todo, alive, Copy

LEMMA RefreshTokenShape ==
  ASSUME TypeOK, RefreshToken(UI)
  PROVE  /\ pc = "refreshToken" /\ op' = op /\ pc' = "resolve" /\ todo' = todo
         /\ alive' = alive /\ \A x \in Sessions : Copy(x)' = Copy(x)
         /\ Save(frame[UI].cur, Held(UI)) \/ UNCHANGED store
<1>1. UI \in Threads /\ frame[UI] \in Frame
  BY UIFrame
<1>2. \/ frame' = [frame EXCEPT
           ![UI].pc = "resolve", ![UI].cur = None,
           ![UI].claimed = @ \cup {Held(UI).token}]
      \/ frame' = [frame EXCEPT ![UI].pc = "resolve", ![UI].cur = None]
  BY DEF RefreshToken
<1>3. /\ frame'[UI].op = frame[UI].op /\ frame'[UI].pc = "resolve"
      /\ frame'[UI].todo = frame[UI].todo
      /\ frame'[UI].alive = frame[UI].alive
      /\ frame'[UI].list = frame[UI].list
  BY <1>1, <1>2 DEF TypeOK, Frame
<1> QED BY <1>3 DEF RefreshToken, At, op, pc, todo, alive, Copy

LEMMA RefreshSyncShape ==
  ASSUME TypeOK, RefreshSync(UI)
  PROVE  /\ pc = "resolve"
         /\ UNCHANGED <<store, live, launched, born, phase, instance, failed,
                        visible>>
         /\ \/ Finish(UI)
            \/ /\ op' = "refresh" /\ pc' = "signals"
               /\ \A s \in Sessions :
                    Copy(s)' = IF s \in Watched(UI) THEN Copy(s) ELSE None
               /\ alive' = Reported(UI)
<1> DEFINE f == [IdleFrame EXCEPT
             !.op = "refresh", !.pc = "signals", !.todo = Watched(UI),
             !.alive = Reported(UI),
             !.list = [s \in Sessions |-> IF s \in Watched(UI)
                                          THEN frame[UI].list[s] ELSE None]]
<1>1. Begin(UI, f) \/ Finish(UI)
  BY DEF RefreshSync
<1>2. /\ f.op = "refresh" /\ f.pc = "signals" /\ f.alive = Reported(UI)
      /\ \A s \in Sessions :
           f.list[s] = IF s \in Watched(UI) THEN Copy(s) ELSE None
  BY DEF IdleFrame, Copy
<1> HIDE DEF f
<1> QED BY <1>1, <1>2, BeginShape DEF RefreshSync, At, pc

(* The steps that take a session off the list.                             *)
LEMMA RefreshSkipShape ==
  ASSUME TypeOK, NEW s \in Sessions, pc = "signals",
         frame' = [frame EXCEPT ![UI].todo = @ \ {s}, ![UI].list[s] = None]
  PROVE  /\ op' = op /\ pc' = "signals" /\ todo' = todo \ {s}
         /\ alive' = alive
         /\ \A x \in Sessions : Copy(x)' = IF x = s THEN None ELSE Copy(x)
<1>1. UI \in Threads /\ frame[UI] \in Frame
  BY UIFrame
<1>2. /\ frame'[UI].op = frame[UI].op /\ frame'[UI].pc = frame[UI].pc
      /\ frame'[UI].todo = frame[UI].todo \ {s}
      /\ frame'[UI].alive = frame[UI].alive
      /\ \A x \in Sessions :
           frame'[UI].list[x] = IF x = s THEN None ELSE frame[UI].list[x]
  BY <1>1 DEF TypeOK, Frame, Rows
<1> QED BY <1>2 DEF op, pc, todo, alive, Copy

LEMMA RefreshSignalShape ==
  ASSUME TypeOK, NEW s \in Sessions, RefreshSignal(UI, s)
  PROVE  /\ pc = "signals" /\ s \in todo /\ op' = op /\ alive' = alive
         /\ todo' = todo \ {s}
         /\ UNCHANGED <<store, live, launched, born, phase, instance, failed,
                        visible>>
         /\ \/ /\ pc' = "signals"
               /\ \A x \in Sessions : Copy(x)' = IF x = s THEN None ELSE Copy(x)
            \/ /\ pc' = "signalWrite" /\ cur' = s
               /\ \A x \in Sessions :
                    Copy(x)' = IF x # s THEN Copy(x)
                               ELSE IF store[s] = None THEN Copy(s) ELSE store[s]
<1>1. UI \in Threads /\ frame[UI] \in Frame /\ pc = "signals" /\ s \in todo
  BY UIFrame DEF RefreshSignal, At, pc, todo
<1> DEFINE row == IF store[s] = None THEN Copy(s) ELSE store[s]
<1>2. \/ frame' = [frame EXCEPT ![UI].todo = @ \ {s}, ![UI].list[s] = None]
      \/ frame' = [frame EXCEPT ![UI].pc = "signalWrite", ![UI].cur = s,
                                ![UI].todo = @ \ {s}, ![UI].list[s] = row]
  BY DEF RefreshSignal, Copy
<1> HIDE DEF row
<1>3. CASE frame' = [frame EXCEPT ![UI].todo = @ \ {s}, ![UI].list[s] = None]
  BY <1>1, <1>3, RefreshSkipShape DEF RefreshSignal
<1>4. CASE frame' = [frame EXCEPT ![UI].pc = "signalWrite", ![UI].cur = s,
                                  ![UI].todo = @ \ {s}, ![UI].list[s] = row]
  <2>1. /\ frame'[UI].op = frame[UI].op /\ frame'[UI].pc = "signalWrite"
        /\ frame'[UI].cur = s /\ frame'[UI].todo = frame[UI].todo \ {s}
        /\ frame'[UI].alive = frame[UI].alive
        /\ \A x \in Sessions :
             frame'[UI].list[x] = IF x = s THEN row ELSE frame[UI].list[x]
    BY <1>1, <1>4 DEF TypeOK, Frame, Rows
  <2> QED
    BY <1>1, <2>1 DEF op, pc, cur, todo, alive, Copy, row, RefreshSignal
<1> QED BY <1>2, <1>3, <1>4

LEMMA RefreshWriteShape ==
  ASSUME TypeOK, RefreshWrite(UI)
  PROVE  /\ pc = "signalWrite" /\ cur \in Sessions /\ Copy(cur) \in Row
         /\ op' = op /\ pc' = "signals" /\ todo' = todo /\ alive' = alive
         /\ \A x \in Sessions : Copy(x)' = IF x = cur THEN None ELSE Copy(x)
         /\ UNCHANGED <<live, launched, born, phase, instance, failed, visible>>
         /\ \/ UNCHANGED store
            \/ Save(cur, Copy(cur))
            \/ /\ Save(cur, [Copy(cur) EXCEPT !.state = "Exited"])
               /\ cur \notin alive
<1>1. UI \in Threads /\ frame[UI] \in Frame /\ pc = "signalWrite"
      /\ pc \in Holding
  BY UIFrame DEF RefreshWrite, At, pc, Holding, Frame
<1>2. cur \in Sessions /\ Copy(cur) \in Row /\ Copy(cur) = Held(UI)
  BY <1>1, AtHand
<1>3. /\ frame'[UI].op = frame[UI].op /\ frame'[UI].pc = "signals"
      /\ frame'[UI].todo = frame[UI].todo
      /\ frame'[UI].alive = frame[UI].alive
      /\ \A x \in Sessions :
           frame'[UI].list[x] = IF x = cur THEN None ELSE frame[UI].list[x]
  BY <1>1, <1>2 DEF TypeOK, Frame, Rows, RefreshWrite, cur
<1>4. \/ UNCHANGED store
      \/ Save(cur, Copy(cur))
      \/ /\ Save(cur, [Copy(cur) EXCEPT !.state = "Exited"])
         /\ cur \notin alive
  BY <1>2 DEF RefreshWrite, Signalled, cur, alive
<1> QED
  BY <1>1, <1>2, <1>3, <1>4 DEF op, pc, todo, alive, Copy, RefreshWrite

(* A step of a refresh closes no row of which the agent still runs.        *)
LEMMA RefreshStepAgents ==
  ASSUME AgentsInv, phase = "running", pc # "persist",
         UNCHANGED <<live, launched, born, phase, instance, failed>>,
         op' \in {"none", "refresh"},
         pc' \in {"idle", "resolve", "refreshToken", "signals", "signalWrite"},
         \A x \in Sessions :
           IF store[x] = None THEN store'[x] = None
           ELSE /\ store'[x] # None
                /\ store'[x].mux = store[x].mux
                /\ store'[x].state = store[x].state \/ store[x].mux \notin live,
         \A x \in Sessions : Copy(x)' # None =>
           store'[x] # None /\ SameAgent(Copy(x)', store'[x]),
         pc' \in {"signals", "signalWrite"} =>
           \A x \in Sessions \ alive' :
             Copy(x)' # None => Copy(x)'.mux \notin live
  PROVE  MemoryInv' /\ RunningInv' /\ ListedInv'
<1>1. Tracked' = Tracked
  BY DEF Tracked
<1>2. MemoryInv'
  BY
  DEF MemoryInv, MemoryAgrees, StartsOne, ReportedAreGone, ClosedOnesDeleted,
      SameAgent, Missed
<1>3. KnownAreBorn' /\ KilledIsGone'
  BY DEF AgentsInv, RunningInv, KnownAreBorn, KilledIsGone
<1>4. RunningIsTracked'
  BY <1>1 DEF AgentsInv, RunningInv, RunningIsTracked, Tracked, At, pc
<1>5. ListedInv'
  BY <1>1, UpListsAsBefore
<1> QED BY <1>2, <1>3, <1>4, <1>5 DEF RunningInv

LEMMA Refreshing ==
  ASSUME AgentsInv,
         pc \in {"resolve", "refreshToken", "signals", "signalWrite"}
  PROVE  /\ TypeOK /\ phase = "running" /\ op = "refresh" /\ pc # "persist"
         /\ \A x \in Sessions : Copy(x) # None =>
              store[x] # None /\ SameAgent(Copy(x), store[x])
         /\ pc \in {"signals", "signalWrite"} =>
              \A x \in Sessions \ alive :
                Copy(x) # None => Copy(x).mux \notin live
<1>1. TypeOK /\ op = "refresh"
  BY StepTellsOp DEF AgentsInv
<1> QED
  BY <1>1, OpTellsPhase
  DEF AgentsInv, MemoryInv, MemoryAgrees, ReportedAreGone

LEMMA RefreshStartAgents ==
  ASSUME AgentsInv, RefreshStart(UI)
  PROVE  MemoryInv' /\ RunningInv' /\ ListedInv'
<1>1. TypeOK /\ pc # "persist"
  BY RefreshStartShape, ReadyIsIdle DEF AgentsInv
<1> QED
  BY <1>1, RefreshStartShape, RefreshStepAgents DEF SameAgent

LEMMA RefreshResolveAgents ==
  ASSUME AgentsInv, NEW s \in Sessions, RefreshResolve(UI, s)
  PROVE  MemoryInv' /\ RunningInv' /\ ListedInv'
<1>1. TypeOK
  BY DEF AgentsInv
<1>2. PICK r \in ResolvePending(UI, s, Copy(s), frame[UI].claimed) :
        /\ pc' \in {"resolve", "refreshToken"}
        /\ \A x \in Sessions :
             Copy(x)' = IF x = s THEN [Copy(s) EXCEPT !.token = r.token]
                        ELSE Copy(x)
  BY <1>1, RefreshResolveShape
<1> DEFINE held == [Copy(s) EXCEPT !.token = r.token]
<1>3. held \in Row /\ SameAgent(held, Copy(s)) /\ Copy(s) # None
  BY <1>1, <1>2, RefreshResolveShape, UIFrame, ResolvePendingType,
     RecordAssumption DEF Row, SameAgent
<1>4. \A x \in Sessions : Copy(x)' = IF x = s THEN held ELSE Copy(x)
  BY <1>2
<1> HIDE DEF held
<1>5. /\ UNCHANGED <<store, live, launched, born, phase, instance, failed>>
      /\ op' = "refresh" /\ pc = "resolve"
  BY <1>1, RefreshResolveShape DEF RefreshResolve
<1>6. \A x \in Sessions : Copy(x)' # None =>
           store'[x] # None /\ SameAgent(Copy(x)', store'[x])
  BY <1>3, <1>4, <1>5, Refreshing DEF SameAgent, Missed
<1> QED
  BY <1>2, <1>5, <1>6, Refreshing, RefreshStepAgents

LEMMA RefreshTokenAgents ==
  ASSUME AgentsInv, RefreshToken(UI)
  PROVE  MemoryInv' /\ RunningInv' /\ ListedInv'
<1>1. /\ TypeOK /\ pc = "refreshToken" /\ op' = op /\ pc' = "resolve"
      /\ \A x \in Sessions : Copy(x)' = Copy(x)
      /\ Save(frame[UI].cur, Held(UI)) \/ UNCHANGED store
      /\ UNCHANGED <<live, launched, born, phase, instance, failed>>
  BY RefreshTokenShape DEF AgentsInv, RefreshToken
<1>2. pc \in Holding /\ pc # "persist"
  BY <1>1, UIFrame DEF Holding, Frame, pc
<1>3. \A x \in Sessions :
        IF store[x] = None THEN store'[x] = None
        ELSE store'[x] # None /\ SameAgent(store'[x], store[x])
  BY <1>1, <1>2, HeldWritten
<1>4. \A x \in Sessions : Copy(x)' # None =>
        store'[x] # None /\ SameAgent(Copy(x)', store'[x])
  BY <1>1, <1>3, Refreshing DEF SameAgent, Missed
<1> QED
  BY <1>1, <1>3, <1>4, Refreshing, RefreshStepAgents DEF SameAgent, Missed

LEMMA RefreshSyncAgents ==
  ASSUME AgentsInv, RefreshSync(UI)
  PROVE  MemoryInv' /\ RunningInv' /\ ListedInv'
<1>1. /\ TypeOK /\ pc = "resolve"
      /\ UNCHANGED <<store, live, launched, born, phase, instance, failed>>
  BY RefreshSyncShape DEF AgentsInv
<1>2. CASE Finish(UI)
  BY <1>1, <1>2, Refreshing, QuietAgents, UpListsAsBefore
<1>3. CASE /\ op' = "refresh" /\ pc' = "signals"
           /\ \A s \in Sessions :
                Copy(s)' = IF s \in Watched(UI) THEN Copy(s) ELSE None
           /\ alive' = Reported(UI)
  <2>1. \A s \in Watched(UI) : s \notin Reported(UI) => Copy(s).mux \notin live
    BY DEF Reported, Copy
  <2> QED
    BY <1>1, <1>3, <2>1, Refreshing, RefreshStepAgents DEF SameAgent
<1> QED BY <1>1, <1>2, <1>3, RefreshSyncShape

LEMMA RefreshQuietAgents ==
  ASSUME AgentsInv, NEW s \in Sessions, RefreshQuiet(UI, s)
  PROVE  MemoryInv' /\ RunningInv' /\ ListedInv'
<1>1. /\ TypeOK /\ pc = "signals"
      /\ UNCHANGED <<store, live, launched, born, phase, instance, failed>>
      /\ frame' = [frame EXCEPT ![UI].todo = @ \ {s}, ![UI].list[s] = None]
  BY DEF AgentsInv, RefreshQuiet, At, pc
<1>2. /\ op' = op /\ pc' = "signals" /\ alive' = alive
      /\ \A x \in Sessions : Copy(x)' = IF x = s THEN None ELSE Copy(x)
  BY <1>1, RefreshSkipShape
<1> QED
  BY <1>1, <1>2, Refreshing, RefreshStepAgents DEF SameAgent

LEMMA RefreshSignalAgents ==
  ASSUME AgentsInv, NEW s \in Sessions, RefreshSignal(UI, s)
  PROVE  MemoryInv' /\ RunningInv' /\ ListedInv'
<1>1. /\ TypeOK /\ pc = "signals" /\ s \in todo /\ op' = op /\ alive' = alive
      /\ UNCHANGED <<store, live, launched, born, phase, instance, failed>>
  BY RefreshSignalShape DEF AgentsInv
<1>2. CASE /\ pc' = "signals"
           /\ \A x \in Sessions : Copy(x)' = IF x = s THEN None ELSE Copy(x)
  BY <1>1, <1>2, Refreshing, RefreshStepAgents DEF SameAgent
<1>3. CASE /\ pc' = "signalWrite" /\ cur' = s
           /\ \A x \in Sessions :
                Copy(x)' = IF x # s THEN Copy(x)
                           ELSE IF store[s] = None THEN Copy(s) ELSE store[s]
  <2>1. Copy(s) # None
    BY <1>1, Refreshing, UIFrame DEF FrameOK, Copy, op, todo
  <2>2. \A x \in Sessions : Copy(x)' = IF x # s THEN Copy(x) ELSE store[s]
    BY <1>1, <1>3, <2>1, Refreshing
  <2>3. store[s].mux = Copy(s).mux
    BY <1>1, <2>1, Refreshing DEF SameAgent
  <2> QED
    BY <1>1, <1>3, <2>1, <2>2, <2>3, Refreshing, RefreshStepAgents
    DEF SameAgent
<1> QED BY <1>1, <1>2, <1>3, RefreshSignalShape

LEMMA RefreshWriteAgents ==
  ASSUME AgentsInv, RefreshWrite(UI)
  PROVE  MemoryInv' /\ RunningInv' /\ ListedInv'
<1>1. /\ TypeOK /\ pc = "signalWrite" /\ cur \in Sessions /\ Copy(cur) \in Row
      /\ op' = op /\ pc' = "signals" /\ alive' = alive
      /\ \A x \in Sessions : Copy(x)' = IF x = cur THEN None ELSE Copy(x)
      /\ UNCHANGED <<live, launched, born, phase, instance, failed>>
      /\ \/ UNCHANGED store
         \/ Save(cur, Copy(cur))
         \/ /\ Save(cur, [Copy(cur) EXCEPT !.state = "Exited"])
            /\ cur \notin alive
  BY RefreshWriteShape DEF AgentsInv
<1>2. /\ Copy(cur) # None /\ store[cur] # None
      /\ SameAgent(Copy(cur), store[cur])
      /\ cur \notin alive => store[cur].mux \notin live
  BY <1>1, RecordAssumption, Refreshing DEF SameAgent
<1> DEFINE exited == [Copy(cur) EXCEPT !.state = "Exited"]
<1>3. /\ exited \in Row /\ exited.mux = Copy(cur).mux
      /\ exited # None
  BY <1>1, RecordAssumption DEF Row
<1> HIDE DEF exited
<1>4. \A x \in Sessions :
        IF store[x] = None THEN store'[x] = None
        ELSE /\ store'[x] # None
             /\ store'[x].mux = store[x].mux
             /\ store'[x].state = store[x].state \/ store[x].mux \notin live
  <2>1. CASE UNCHANGED store
    BY <2>1
  <2>2. CASE Save(cur, Copy(cur))
    <3>1. \A x \in Sessions :
            store'[x] = IF x = cur THEN Copy(cur) ELSE store[x]
      BY <1>1, <2>2, SaveShape
    <3> QED BY <1>2, <3>1 DEF SameAgent, Missed
  <2>3. CASE Save(cur, exited) /\ cur \notin alive
    <3>1. \A x \in Sessions : store'[x] = IF x = cur THEN exited ELSE store[x]
      BY <1>1, <2>3, SaveShape
    <3> QED BY <1>2, <1>3, <2>3, <3>1 DEF SameAgent
  <2> QED BY <1>1, <2>1, <2>2, <2>3 DEF exited
<1>5. \A x \in Sessions \ {cur} : store'[x] = store[x]
  BY <1>1, SaveShape
<1> QED
  BY <1>1, <1>4, <1>5, Refreshing, RefreshStepAgents

LEMMA RefreshDoneAgents ==
  ASSUME AgentsInv, RefreshDone(UI)
  PROVE  MemoryInv' /\ RunningInv' /\ ListedInv'
<1>1. /\ pc = "signals" /\ Finish(UI)
      /\ UNCHANGED <<store, live, launched, born, phase, instance, failed>>
  BY DEF RefreshDone, At, pc
<1> QED BY <1>1, Refreshing, QuietAgents, UpListsAsBefore

-----------------------------------------------------------------------------
(* The app, the agents and the user outside Hydra                          *)

LEMMA LifeAgents ==
  ASSUME AgentsInv, Start \/ Quit
  PROVE  MemoryInv' /\ RunningInv' /\ ListedInv'
<1>1. /\ TypeOK /\ op = "none" /\ pc = "idle"
      /\ UNCHANGED <<store, live, launched, born, failed, frame>>
  <2>1. op = "none"
    BY DEF AgentsInv, ListedInv, PhaseOK, Start, Quit
  <2> QED BY <2>1, StepTellsOp DEF AgentsInv, Start, Quit
<1>2. op' = "none" /\ pc' = "idle" /\ Tracked' = Tracked
  BY <1>1 DEF op, pc, Tracked
<1>3. MemoryInv'
  BY <1>1, <1>2, SameShape
  DEF AgentsInv, MemoryInv, MemoryAgrees, StartsOne, ReportedAreGone,
      ClosedOnesDeleted, SameAgent, Missed
<1>4. RunningInv'
  BY <1>1, <1>2
  DEF AgentsInv, RunningInv, KnownAreBorn, KilledIsGone, RunningIsTracked,
      Tracked, At, pc
<1>5. CASE Start
  <2>1. phase' = "starting"
    BY <1>5 DEF Start
  <2> QED
    BY <1>2, <1>3, <1>4, <2>1
    DEF ListedInv, PhaseOK, OwnRunning, CleanupListed, ShutdownListed,
        CloseEndsAgents
<1>6. CASE Quit
  <2>1. phase = "closed" /\ phase' = "down" /\ UNCHANGED instance
    BY <1>6 DEF Quit
  <2> QED
    BY <1>1, <1>2, <1>3, <1>4, <2>1
    DEF AgentsInv, ListedInv, PhaseOK, OwnRunning, CleanupListed,
        ShutdownListed, CloseEndsAgents
<1> QED BY <1>5, <1>6

LEMMA CrashAgents ==
  ASSUME AgentsInv, Crash
  PROVE  /\ MemoryInv' /\ RunningInv' /\ ListedInv'
         /\ Tracked' = Tracked \ (IF pc = "persist" THEN {Copy(cur).mux} ELSE {})
         /\ op' = "none"
<1>1. /\ TypeOK /\ RowsNameTheirAgent /\ KnownAreBorn
      /\ UNCHANGED <<store, live, launched, born, instance>>
      /\ phase' = "crashed"
      /\ failed' = failed \cup IF pc = "persist" THEN {Copy(cur).mux} ELSE {}
      /\ frame'[UI] = IdleFrame
  BY UIFrame
  DEF AgentsInv, RunningInv, Crash, At, Held, pc, Copy, cur
<1>2. /\ op' = "none" /\ pc' = "idle" /\ todo' = {}
      /\ \A s \in Sessions : Copy(s)' = None
  BY <1>1 DEF IdleFrame, NoRows, op, pc, todo, Copy
<1>3. /\ failed \subseteq failed'
      /\ Tracked' = Tracked \ (IF pc = "persist" THEN {Copy(cur).mux} ELSE {})
  BY <1>1 DEF Tracked
<1>4. \A t \in failed' : launched[t] # None
  <2>1. ASSUME pc = "persist"
        PROVE  launched[Copy(cur).mux] # None
    <3>1. pc \in Holding
      BY <1>1, <2>1, UIFrame DEF Holding, Frame, pc
    <3>2. cur \in Sessions /\ Copy(cur) # None
      BY <1>1, <3>1, AtHand, RecordAssumption
    <3>3. Copy(cur).mux # None
      BY <1>1, <2>1, UIFrame DEF FrameOK, pc, cur, Copy
    <3> QED BY <1>1, <3>2, <3>3, CopyOfAgent, RecordAssumption
  <2> QED BY <1>1, <2>1 DEF KnownAreBorn
<1>5. MemoryInv'
  BY <1>2
  DEF MemoryInv, MemoryAgrees, StartsOne, ReportedAreGone, ClosedOnesDeleted
<1>6. KnownAreBorn' /\ KilledIsGone'
  BY <1>1, <1>2, <1>4 DEF KnownAreBorn, KilledIsGone
<1>7. RunningIsTracked'
  BY <1>1, <1>3
  DEF AgentsInv, RunningInv, RunningIsTracked, Tracked, At, Held, pc, cur, Copy
<1>8. ListedInv'
  BY <1>1, <1>2
  DEF ListedInv, PhaseOK, OwnRunning, CleanupListed, ShutdownListed,
      CloseEndsAgents
<1> QED BY <1>2, <1>3, <1>5, <1>6, <1>7, <1>8 DEF RunningInv

LEMMA EnvironmentAgents ==
  ASSUME AgentsInv, Environment
  PROVE  MemoryInv' /\ RunningInv' /\ ListedInv'
<1>1. /\ TypeOK /\ live' \subseteq live
      /\ UNCHANGED <<store, frame, phase, instance, born, failed>>
  BY DEF AgentsInv, Environment, AgentEnds, TalkAppears, OutsideTalk
<1>2. AgentsKept /\ \A t \in Muxes : launched'[t] # None => launched[t] # None
  <2>1. AgentsKept
    BY <1>1, EnvironmentKeeps
  <2>2. CASE \E t \in Muxes, c \in Conversations : TalkAppears(t, c)
    BY <1>1, <2>1, <2>2 DEF TalkAppears, TypeOK
  <2>3. CASE UNCHANGED launched
    BY <2>1, <2>3
  <2> QED BY <2>1, <2>2, <2>3 DEF Environment, AgentEnds, OutsideTalk
<1>3. Tracked' \subseteq Tracked /\ Tracked \subseteq Muxes
  BY <1>1 DEF Tracked, TypeOK
<1>4. MemoryInv'
  BY <1>1, SameShape
  DEF AgentsInv, MemoryInv, MemoryAgrees, StartsOne, ReportedAreGone,
      ClosedOnesDeleted, op, pc, cur, todo, alive, Copy, SameAgent, Missed
<1>5. KnownAreBorn'
  BY <1>1, <1>2 DEF AgentsInv, RunningInv, KnownAreBorn, AgentsKept, TypeOK
<1>6. KilledIsGone' /\ RunningIsTracked'
  BY <1>1, <1>3
  DEF AgentsInv, RunningInv, KilledIsGone, RunningIsTracked, Tracked, At, Held,
      pc, cur, alive, Copy
<1>7. OwnRunning' /\ CleanupListed' /\ ShutdownListed'
  <2>1. \A t \in Tracked' :
          launched[t] # None /\ launched'[t].owner = launched[t].owner
    BY <1>2, <1>3 DEF AgentsInv, RunningInv, KnownAreBorn, AgentsKept, Tracked
  <2> QED
    BY <1>1, <1>3, <2>1
    DEF AgentsInv, ListedInv, OwnRunning, CleanupListed, ShutdownListed,
        InHand, op, pc, cur, todo
<1>8. ListedInv'
  BY <1>1, <1>7 DEF AgentsInv, ListedInv, PhaseOK, CloseEndsAgents, op
<1> QED BY <1>4, <1>5, <1>6, <1>8 DEF RunningInv

-----------------------------------------------------------------------------
(* The workers                                                             *)

(* A worker writes over the row its record was read from: meanwhile no     *)
(* other thread has closed the row, resumed it or deleted it.              *)
WritesOverRead(p) ==
  ((RefreshToken(p) \/ RefreshWrite(p)) /\ store' # store) =>
    LET row == store[frame[p].cur]
    IN  /\ row # None
        /\ row.state = Held(p).state /\ row.owner = Held(p).owner
        /\ row.mux = Held(p).mux

(* A worker takes a report of tmux for a row only if the row still names   *)
(* the tmux session that was reported on.                                  *)
ReportIsOfRow(p, s) ==
  (RefreshSignal(p, s) /\ store[s] # None) =>
    store[s].mux = frame[p].list[s].mux

(* No worker acts on what has changed since it read it.  The code does not *)
(* see to this; the theorems say what holds as long as it is so.           *)
WorkersUpToDate ==
  \A p \in Workers :
    WritesOverRead(p) /\ \A s \in Sessions : ReportIsOfRow(p, s)

NothingStale == [][WorkersUpToDate]_vars

WorkerStep(p) == RefreshStart(p) \/ RefreshStep(p)

LEMMA WorkersAreThreads ==
  ASSUME NEW p \in Workers
  PROVE  p \in Threads /\ p # UI
BY ThreadAssumption DEF Threads, Workers

(* Whoever refreshes changes no frame but its own.                         *)
LEMMA RefreshIsLocal ==
  ASSUME TypeOK, NEW p \in Threads, WorkerStep(p)
  PROVE  /\ \A q \in Threads \ {p} : frame'[q] = frame[q]
         /\ UNCHANGED <<live, launched, born, failed, phase, instance, visible>>
BY DEF TypeOK, WorkerStep, RefreshStart, RefreshStep, RefreshResolve,
       RefreshToken, RefreshSync, RefreshQuiet, RefreshSignal, RefreshWrite,
       RefreshDone, Begin, Finish

(* What the other actions leave of a worker: all it holds, or nothing.     *)
LEMMA OthersLeaveWorkers ==
  ASSUME TypeOK, NEW p \in Workers,
         \/ UserCall \/ UIStep \/ Environment \/ CleanupStart
         \/ Start \/ Quit \/ Crash
  PROVE  frame'[p] \in {frame[p], IdleFrame}
<1>1. frame \in [Threads -> Frame] /\ p \in Threads /\ p # UI
  BY WorkersAreThreads DEF TypeOK
<1>2. ASSUME NEW f, Begin(UI, f) PROVE frame'[p] = frame[p]
  BY <1>1, <1>2 DEF Begin
<1>3. ASSUME NEW label, Goto(UI, label) PROVE frame'[p] = frame[p]
  BY <1>1, <1>3 DEF Goto
<1>4. ASSUME Finish(UI) PROVE frame'[p] = frame[p]
  BY <1>2, <1>4 DEF Finish
<1>5. ASSUME NEW s, NEW row, NEW f, NEW excluded,
             CloseBegin(s, row, f, excluded)
      PROVE  frame'[p] = frame[p]
  BY <1>2, <1>5 DEF CloseBegin
<1>6. CASE UserCall
  <2>1. CASE \E s \in Sessions : ResumeRefused(s)
    BY <2>1 DEF ResumeRefused
  <2>2. CASE \E s \in Sessions : Terminate(s)
    BY <1>5, <2>2 DEF Terminate
  <2>3. CASE \E s \in Sessions : Rename(s)
    BY <1>2, <2>3 DEF Rename
  <2>4. CASE \E s \in Sessions, t \in Muxes : Launch(s, t)
    BY <1>2, <2>4 DEF Launch
  <2>5. CASE \E s \in Sessions, t \in Muxes : Resume(s, t)
    BY <1>2, <2>5 DEF Resume
  <2>6. CASE \E selected \in SUBSET Sessions : Delete(selected)
    BY <1>2, <2>6 DEF Delete
  <2>7. CASE ShutdownStart
    BY <1>2, <2>7 DEF ShutdownStart
  <2>8. CASE \E s \in Sessions, t \in Muxes : StartLost(s, t)
    BY <2>8 DEF StartLost
  <2> QED
    BY <1>6, <2>1, <2>2, <2>3, <2>4, <2>5, <2>6, <2>7, <2>8 DEF UserCall
<1>7. CASE UIStep
  <2>1. CASE LaunchPersist
    BY <1>3, <1>4, <2>1 DEF LaunchPersist
  <2>2. CASE Attach \/ RenameSave \/ DeleteCommit
    BY <1>4, <2>2 DEF Attach, RenameSave, DeleteCommit
  <2>3. CASE SaveToken \/ Kill \/ SaveArtifacts
    BY <1>3, <2>3 DEF SaveToken, Kill, SaveArtifacts
  <2>4. CASE Retry
    BY <1>1, <2>4 DEF Retry
  <2>5. CASE MarkExited
    BY <1>1, <1>3, <2>5 DEF MarkExited
  <2>6. CASE TerminateDone \/ CleanupDone \/ ShutdownDone
    BY <1>4, <2>6 DEF TerminateDone, CleanupDone, ShutdownDone
  <2>7. CASE \E s \in Sessions : CleanupNext(s)
    BY <1>2, <1>5, <2>7 DEF CleanupNext
  <2>8. CASE \E s \in Sessions : ShutdownNext(s)
    BY <1>2, <1>5, <2>8 DEF ShutdownNext
  <2> QED
    BY <1>7, <2>1, <2>2, <2>3, <2>4, <2>5, <2>6, <2>7, <2>8
    DEF UIStep, CloseStep
<1>8. CASE CleanupStart
  BY <1>2, <1>8 DEF CleanupStart
<1>9. CASE Environment \/ Start \/ Quit
  BY <1>9
  DEF Environment, AgentEnds, TalkAppears, OutsideTalk, Start, Quit
<1>10. CASE Crash
  BY <1>1, <1>10 DEF Crash
<1> QED BY <1>6, <1>7, <1>8, <1>9, <1>10

(* A tmux session that comes up is one nobody was told of before.          *)
LEMMA OnlyNewOnesStart ==
  ASSUME TypeOK,
         \/ UserCall \/ UIStep \/ Environment \/ CleanupStart
         \/ Start \/ Quit \/ Crash
  PROVE  \A t \in live' \ live : launched[t] = None
<1>1. CASE UserCall
  BY <1>1
  DEF UserCall, ResumeRefused, Terminate, Rename, Launch, Resume, StartLost,
      Delete, ShutdownStart, StartAgent
<1>2. CASE UIStep
  BY <1>2
  DEF UIStep, CloseStep, LaunchPersist, Attach, RenameSave, DeleteCommit,
      SaveToken, Kill, Retry, MarkExited, SaveArtifacts, TerminateDone,
      CleanupDone, ShutdownDone, CleanupNext, ShutdownNext
<1>3. CASE Environment \/ CleanupStart \/ Start \/ Quit \/ Crash
  BY <1>3
  DEF Environment, AgentEnds, TalkAppears, OutsideTalk, CleanupStart, Start,
      Quit, Crash
<1> QED BY <1>1, <1>2, <1>3

LEMMA OthersWorkersReport ==
  ASSUME TypeOK, TypeOK', RowsNameTheirAgent, WorkersReport,
         \/ UserCall \/ UIStep \/ Environment \/ CleanupStart
         \/ Start \/ Quit \/ Crash
  PROVE  WorkersReport'
<1> SUFFICES ASSUME NEW p \in Workers,
                    frame'[p].pc \in {"signals", "signalWrite"},
                    NEW s \in Sessions \ frame'[p].alive,
                    frame'[p].list[s] # None
             PROVE  frame'[p].list[s].mux \notin live'
  BY DEF WorkersReport
<1>1. frame'[p] = frame[p]
  BY OthersLeaveWorkers DEF IdleFrame
<1>2. frame[p].list[s].mux \notin live
  BY <1>1 DEF WorkersReport
<1>3. /\ frame[p].list[s] \in Records(s)
      /\ frame[p].list[s].mux \in Muxes \cup {None}
  BY <1>1, FramesAreFrames, WorkersAreThreads DEF Records, Frame, Rows, Row
<1>4. frame[p].list[s].mux # None => launched[frame[p].list[s].mux] # None
  BY <1>3 DEF RowsNameTheirAgent, NamesItsAgent
<1>5. live' \subseteq Muxes /\ None \notin Muxes
  BY RecordAssumption DEF TypeOK
<1>6. ASSUME frame[p].list[s].mux \in live'
      PROVE  FALSE
  BY <1>2, <1>4, <1>5, <1>6, OnlyNewOnesStart
<1> QED BY <1>1, <1>6

LEMMA WorkersOwnReport ==
  ASSUME TypeOK, WorkersReport, NEW p \in Workers, WorkerStep(p),
         WorkersUpToDate
  PROVE  WorkersReport'
<1>1. p \in Threads /\ frame[p] \in Frame /\ FrameOK(frame[p])
  BY WorkersAreThreads, FramesAreFrames
<1>2. UNCHANGED live /\ \A q \in Workers \ {p} : frame'[q] = frame[q]
  BY <1>1, RefreshIsLocal DEF Threads
<1> SUFFICES ASSUME frame'[p].pc \in {"signals", "signalWrite"},
                    NEW s \in Sessions, s \notin frame'[p].alive,
                    frame'[p].list[s] # None
             PROVE  frame'[p].list[s].mux \notin live
  BY <1>2 DEF WorkersReport
<1>3. ASSUME NEW f, Begin(p, f) PROVE frame'[p] = f
  BY <1>1, <1>3 DEF TypeOK, Begin
<1>4. CASE RefreshStart(p)
  <2> DEFINE f == [IdleFrame EXCEPT
              !.op = "refresh", !.pc = "resolve", !.list = store,
              !.todo = { x \in Sessions : store[x] # None
                             /\ ~(store[x] # None /\ store[x].token # Pending) },
              !.claimed = ClaimedExcluding(store, None)]
  <2>1. f.pc = "resolve"
    BY DEF IdleFrame
  <2>2. Begin(p, f)
    BY <1>4 DEF RefreshStart
  <2> HIDE DEF f
  <2> QED BY <1>3, <2>1, <2>2
<1>11. CASE RefreshDone(p)
  BY <1>3, <1>11 DEF RefreshDone, Finish, IdleFrame
<1>5. CASE \E x \in Sessions : RefreshResolve(p, x)
  <2>1. frame'[p].pc \in {"resolve", "refreshToken"}
    BY <1>1, <1>5 DEF RefreshResolve, TypeOK, Frame
  <2> QED BY <2>1
<1>6. CASE RefreshToken(p)
  <2>1. frame'[p].pc = "resolve"
    BY <1>1, <1>6 DEF RefreshToken, TypeOK, Frame
  <2> QED BY <2>1
<1>7. CASE RefreshSync(p)
  <2> DEFINE rows == [x \in Sessions |-> IF x \in Watched(p)
                                         THEN frame[p].list[x] ELSE None]
             f == [IdleFrame EXCEPT
                     !.op = "refresh", !.pc = "signals", !.todo = Watched(p),
                     !.alive = Reported(p), !.list = rows]
  <2>1. frame'[p] = f
    <3>1. Begin(p, f) \/ Finish(p)
      BY <1>7 DEF RefreshSync
    <3>2. ~Finish(p)
      BY <1>3 DEF Finish, IdleFrame
    <3> HIDE DEF f
    <3> QED BY <1>3, <3>1, <3>2
  <2>2. f.list[s] = rows[s] /\ f.alive = Reported(p)
    BY DEF IdleFrame
  <2> HIDE DEF f
  <2>3. s \in Watched(p) /\ s \notin Reported(p)
        /\ frame'[p].list[s] = frame[p].list[s]
    BY <2>1, <2>2
  <2> QED BY <2>3 DEF Reported
<1>8. CASE \E x \in Sessions : RefreshQuiet(p, x)
  <2>1. frame[p].pc = "signals" /\ frame'[p].alive = frame[p].alive
        /\ frame'[p].list[s] = frame[p].list[s]
    BY <1>1, <1>8 DEF RefreshQuiet, At, TypeOK, Frame, Rows
  <2> QED BY <2>1 DEF WorkersReport
<1>9. CASE RefreshWrite(p)
  <2>1. frame[p].pc = "signalWrite" /\ frame'[p].alive = frame[p].alive
        /\ frame'[p].list[s] = frame[p].list[s]
    BY <1>1, <1>9 DEF RefreshWrite, At, TypeOK, Frame, Rows
  <2> QED BY <2>1 DEF WorkersReport
<1>10. CASE \E x \in Sessions : RefreshSignal(p, x)
  <2>1. PICK x \in Sessions : RefreshSignal(p, x)
    BY <1>10
  <2> DEFINE row == IF store[x] = None THEN frame[p].list[x] ELSE store[x]
  <2>2. /\ frame[p].pc = "signals" /\ frame[p].op = "refresh"
        /\ frame[p].list[x] # None
    BY <1>1, <2>1, RefreshFrame, RecordAssumption DEF RefreshSignal, At
  <2>3. row.mux = frame[p].list[x].mux
    BY <2>1 DEF WorkersUpToDate, ReportIsOfRow
  <2>4. \/ frame' = [frame EXCEPT ![p].todo = @ \ {x}, ![p].list[x] = None]
        \/ frame' = [frame EXCEPT ![p].pc = "signalWrite", ![p].cur = x,
                                  ![p].todo = @ \ {x}, ![p].list[x] = row]
    BY <2>1 DEF RefreshSignal
  <2> HIDE DEF row
  <2>5. /\ frame'[p].alive = frame[p].alive
        /\ frame'[p].list[s] = frame[p].list[s]
           \/ (s = x /\ frame'[p].list[s] = row)
    BY <1>1, <2>4 DEF TypeOK, Frame, Rows
  <2> QED BY <2>2, <2>3, <2>5 DEF WorkersReport
<1> QED
  BY <1>4, <1>5, <1>6, <1>7, <1>8, <1>9, <1>10, <1>11
  DEF WorkerStep, RefreshStep

(* What the write of a worker makes of a row: its token may change, and it *)
(* may close it when the agent has ended.                                  *)
LEMMA WorkersWrite ==
  ASSUME TypeOK, WorkersReport, NEW p \in Workers, WorkerStep(p),
         WorkersUpToDate, NEW x \in Sessions
  PROVE  IF store[x] = None THEN store'[x] = None
         ELSE /\ store'[x] # None
              /\ store'[x].owner = store[x].owner
              /\ store'[x].mux = store[x].mux
              /\ \/ store'[x].state = store[x].state
                 \/ store'[x].state = "Exited" /\ store[x].mux \notin live
<1>1. CASE UNCHANGED store
  BY <1>1
<1>2. CASE store' # store
  <2> DEFINE s == frame[p].cur
  <2>1. RefreshToken(p) \/ RefreshWrite(p)
    BY <1>2
    DEF WorkerStep, RefreshStart, RefreshStep, RefreshResolve, RefreshSync,
        RefreshQuiet, RefreshSignal, RefreshDone
  <2>2. /\ p \in Threads /\ frame[p].pc \in Holding
        /\ frame[p] \in Frame /\ FrameOK(frame[p])
        /\ frame[p].pc \in {"refreshToken", "signalWrite"}
    BY <2>1, WorkersAreThreads, FramesAreFrames
    DEF RefreshToken, RefreshWrite, At, Frame, Holding
  <2>3. s \in Sessions /\ Held(p) \in Row
    BY <2>2, HeldIsARow
  <2>4. /\ store[s] # None /\ store[s].state = Held(p).state
        /\ store[s].owner = Held(p).owner /\ store[s].mux = Held(p).mux
    BY <1>2, <2>1 DEF WorkersUpToDate, WritesOverRead
  <2>5. PICK row : /\ Save(s, row)
                   /\ \/ row = Held(p)
                      \/ /\ row = [Held(p) EXCEPT !.state = "Exited"]
                         /\ frame[p].pc = "signalWrite"
                         /\ s \notin frame[p].alive
    BY <1>2, <2>1 DEF RefreshToken, RefreshWrite, Signalled, At
  <2>6. /\ row \in Row /\ row.owner = Held(p).owner /\ row.mux = Held(p).mux
        /\ \/ row.state = Held(p).state
           \/ row.state = "Exited" /\ Held(p).mux \notin live
    <3>1. CASE row = Held(p)
      BY <2>3, <3>1
    <3>2. CASE /\ row = [Held(p) EXCEPT !.state = "Exited"]
               /\ frame[p].pc = "signalWrite" /\ s \notin frame[p].alive
      <4>1. Held(p) # None
        BY <2>3, RecordAssumption
      <4>2. Held(p).mux \notin live
        BY <2>3, <3>2, <4>1 DEF WorkersReport, Held
      <4> QED BY <2>3, <3>2, <4>2 DEF Row
    <3> QED BY <2>5, <3>1, <3>2
  <2>7. store'[x] = IF x = s THEN row ELSE store[x]
    BY <2>3, <2>5, SaveShape
  <2>8. row # None
    BY <2>6, RecordAssumption
  <2> QED BY <2>4, <2>6, <2>7, <2>8
<1> QED BY <1>1, <1>2

LEMMA WorkerAgents ==
  ASSUME AgentsInv, WorkersReport, NEW p \in Workers, WorkerStep(p),
         WorkersUpToDate
  PROVE  MemoryInv' /\ RunningInv' /\ ListedInv'
<1>1. /\ TypeOK /\ Workers # {} /\ p \in Threads
      /\ UNCHANGED <<live, launched, born, failed, phase, instance>>
      /\ frame'[UI] = frame[UI]
  BY WorkersAreThreads, RefreshIsLocal DEF AgentsInv, Threads
<1>2. \A x \in Sessions :
         IF store[x] = None THEN store'[x] = None
         ELSE /\ store'[x] # None
              /\ store'[x].owner = store[x].owner
              /\ store'[x].mux = store[x].mux
              /\ \/ store'[x].state = store[x].state
                 \/ store'[x].state = "Exited" /\ store[x].mux \notin live
  BY <1>1, WorkersWrite
<1>3. /\ op' = op /\ pc' = pc /\ cur' = cur /\ todo' = todo
      /\ alive' = alive /\ \A s \in Sessions : Copy(s)' = Copy(s)
      /\ At(UI, "persist")' = At(UI, "persist") /\ Held(UI)' = Held(UI)
      /\ Tracked' = Tracked
  BY <1>1 DEF op, pc, cur, todo, alive, Copy, At, Held, Tracked
<1>4. MemoryAgrees'
  <2> SUFFICES ASSUME pc # "persist", NEW s \in Sessions, Copy(s) # None
               PROVE  /\ store'[s] # None
                      /\ Copy(s).owner = store'[s].owner
                      /\ Copy(s).mux = store'[s].mux
                      /\ \/ Copy(s).state = store'[s].state
                         \/ Copy(s).mux \notin live
    BY <1>1, <1>3 DEF MemoryAgrees, SameAgent, Missed
  <2>1. store[s] # None /\ SameAgent(Copy(s), store[s])
    BY DEF AgentsInv, MemoryInv, MemoryAgrees
  <2> QED BY <1>1, <1>2, <1>3, <2>1 DEF SameAgent, Missed
<1>5. StartsOne'
  <2>1. ASSUME pc = "persist" PROVE cur \in Sessions
    BY <1>1, <2>1, UIFrame, AtHand DEF Holding, Frame, pc
  <2> QED
    BY <1>1, <1>2, <1>3, <2>1 DEF AgentsInv, MemoryInv, StartsOne
<1>6. ReportedAreGone' /\ ClosedOnesDeleted'
  <2>1. todo \subseteq Sessions
    BY <1>1, UIFrame
  <2> QED
    BY <1>1, <1>2, <1>3, <2>1
    DEF AgentsInv, MemoryInv, ReportedAreGone, ClosedOnesDeleted
<1>7. KnownAreBorn' /\ KilledIsGone'
  BY <1>1, <1>2, <1>3
  DEF AgentsInv, RunningInv, KnownAreBorn, KilledIsGone, Copy, cur, pc, alive
<1>8. RunningIsTracked'
  BY <1>1, <1>2, <1>3 DEF AgentsInv, RunningInv, RunningIsTracked
<1>9. ListedInv'
  BY <1>1, <1>2, <1>3
  DEF AgentsInv, ListedInv, PhaseOK, OwnRunning, CleanupListed,
      ShutdownListed, InHand, CloseEndsAgents
<1> QED BY <1>4, <1>5, <1>6, <1>7, <1>8, <1>9 DEF MemoryInv, RunningInv

-----------------------------------------------------------------------------
(* The theorems about the agents                                           *)

AllAgentsInv == AgentsInv /\ WorkersReport

LEMMA InitAgents == Init => AllAgentsInv
<1> SUFFICES ASSUME Init PROVE AllAgentsInv
  OBVIOUS
<1>1. TypeOK
  BY InitType
<1>2. frame[UI] = IdleFrame
  BY <1>1, UIFrame DEF Init
<1>3. /\ op = "none" /\ pc = "idle" /\ \A s \in Sessions : Copy(s) = None
      /\ \A s \in Sessions : store[s] = None
  <2>1. \A s \in Sessions : store[s] = None
    BY DEF Init, NoRows
  <2> QED BY <1>2, <2>1 DEF IdleFrame, NoRows, op, pc, Copy
<1>4. RowsNameTheirAgent
  BY DEF Init, RowsNameTheirAgent, Records, NoRows, IdleFrame
<1>5. MemoryInv
  BY <1>3
  DEF MemoryInv, MemoryAgrees, StartsOne, ReportedAreGone, ClosedOnesDeleted
<1>6. RunningInv
  BY <1>3
  DEF Init, RunningInv, KnownAreBorn, KilledIsGone, RunningIsTracked, Tracked
<1>7. ListedInv
  BY <1>3
  DEF Init, ListedInv, PhaseOK, OwnRunning, CleanupListed, ShutdownListed,
      CloseEndsAgents
<1>8. WorkersReport
  BY WorkersAreThreads DEF Init, WorkersReport, IdleFrame
<1> QED
  BY <1>1, <1>4, <1>5, <1>6, <1>7, <1>8 DEF AgentsInv, AllAgentsInv

LEMMA StepAgents ==
  ASSUME AllAgentsInv, [Next]_vars, [WorkersUpToDate]_vars
  PROVE  AllAgentsInv'
<1>1. /\ AgentsInv /\ TypeOK /\ RowsNameTheirAgent /\ WorkersReport
      /\ TypeOK' /\ RowsNameTheirAgent'
  BY StepType, StepNamed DEF AgentsInv, AllAgentsInv
<1>2. CASE UserCall
  BY <1>1, <1>2, OthersWorkersReport, ResumeRefusedAgents, TerminateAgents,
     RenameAgents, StartsAgents, StartLostAgents, DeleteAgents,
     ShutdownStartAgents
  DEF UserCall, AgentsInv, AllAgentsInv
<1>3. CASE UIStep
  <2>1. WorkersReport'
    BY <1>1, <1>3, OthersWorkersReport
  <2>2. CASE CloseStep
    BY <1>1, <2>1, <2>2, SaveTokenAgents, KillAgents, RetryAgents,
       MarkExitedAgents, SaveArtifactsAgents, DoneAgents, CleanupNextAgents,
       ShutdownNextAgents
    DEF CloseStep, AgentsInv, AllAgentsInv
  <2>3. CASE LaunchPersist \/ Attach \/ RenameSave \/ DeleteCommit
    BY <1>1, <2>1, <2>3, LaunchPersistAgents, LastWriteAgents,
       DeleteCommitAgents DEF AgentsInv, AllAgentsInv
  <2> QED BY <1>3, <2>2, <2>3 DEF UIStep
<1>4. CASE Environment
  BY <1>1, <1>4, OthersWorkersReport, EnvironmentAgents
  DEF AgentsInv, AllAgentsInv
<1>5. CASE RefreshStart(UI) \/ RefreshStep(UI)
  <2>1. WorkersReport'
    <3>1. UI \in Threads /\ UNCHANGED live
      BY <1>1, <1>5, RefreshIsLocal DEF Threads, WorkerStep
    <3>2. \A q \in Workers : frame'[q] = frame[q]
      BY <1>1, <1>5, <3>1, RefreshIsLocal, WorkersAreThreads DEF WorkerStep
    <3> QED BY <1>1, <3>1, <3>2 DEF WorkersReport
  <2> QED
    BY <1>1, <1>5, <2>1, RefreshStartAgents, RefreshTokenAgents,
       RefreshSyncAgents, RefreshWriteAgents, RefreshDoneAgents,
       RefreshResolveAgents, RefreshQuietAgents, RefreshSignalAgents
    DEF RefreshStep, AgentsInv, AllAgentsInv
<1>6. CASE UNCHANGED vars
  <2>1. /\ UNCHANGED <<store, live, launched, born, failed, frame, instance,
                       phase>>
    BY <1>6 DEF vars
  <2>2. MemoryInv' /\ RunningInv' /\ Tracked' = Tracked /\ op' = op
    BY <1>1, <2>1, SameAgents
  <2>3. ListedInv'
    BY <1>1, <2>1, <2>2, SameShape
    DEF AgentsInv, ListedInv, PhaseOK, OwnRunning, CleanupListed,
        ShutdownListed, InHand, CloseEndsAgents, cur
  <2>4. WorkersReport'
    BY <1>1, <2>1 DEF WorkersReport
  <2> QED BY <1>1, <2>2, <2>3, <2>4 DEF AgentsInv, AllAgentsInv
<1>7. CASE Start \/ CleanupStart \/ Quit \/ Crash
  BY <1>1, <1>7, OthersWorkersReport, LifeAgents, CleanupStartAgents,
     CrashAgents DEF AgentsInv, AllAgentsInv
<1>8. CASE \E p \in Workers : RefreshStart(p) \/ RefreshStep(p)
  <2>1. PICK p \in Workers : WorkerStep(p)
    BY <1>8 DEF WorkerStep
  <2>2. CASE WorkersUpToDate
    BY <1>1, <2>1, <2>2, WorkersOwnReport, WorkerAgents
    DEF AgentsInv, AllAgentsInv
  <2> QED BY <1>6, <2>2
<1>9. Threads = {UI} \cup Workers
  BY DEF Threads
<1> QED
  BY <1>2, <1>3, <1>4, <1>5, <1>6, <1>7, <1>8, <1>9 DEF Next

LEMMA AgentsInvariant == Spec /\ NothingStale => []AllAgentsInv
<1>1. Init => AllAgentsInv
  BY InitAgents
<1>2. AllAgentsInv /\ [Next]_vars /\ [WorkersUpToDate]_vars => AllAgentsInv'
  BY StepAgents
<1> QED BY <1>1, <1>2, PTL DEF Spec, NothingStale

(* Every agent that runs can be reached from a live row, or is about to be *)
(* written to one, but for what a failed command or a crash left behind,   *)
(* as long as no worker acts on what has changed since it read it.         *)
THEOREM AgentsAreTracked == Spec /\ NothingStale => []RunningIsTracked
<1>1. AllAgentsInv => RunningIsTracked
  BY DEF AllAgentsInv, AgentsInv, RunningInv
<1> QED BY <1>1, AgentsInvariant, PTL

(* When startup is over no agent of an earlier instance is running, as     *)
(* long as no worker acts on what has changed since it read it.            *)
THEOREM StartupLeavesNone == Spec /\ NothingStale => []NothingLeftBehind
<1>1. AllAgentsInv => NothingLeftBehind
  BY DEF AllAgentsInv, AgentsInv, ListedInv, OwnRunning, NothingLeftBehind,
         Tracked
<1> QED BY <1>1, AgentsInvariant, PTL

(* A closed app has ended all its agents, as long as no worker acts on     *)
(* what has changed since it read it.                                      *)
THEOREM ClosingLeavesNone == Spec /\ NothingStale => []CloseEndsAgents
<1>1. AllAgentsInv => CloseEndsAgents
  BY DEF AllAgentsInv, AgentsInv, ListedInv
<1> QED BY <1>1, AgentsInvariant, PTL

(* Driven by one thread nothing is stale, so that the three theorems then  *)
(* hold of every behaviour.                                                *)
LEMMA AloneNothingIsStale ==
  ASSUME Workers = {}
  PROVE  Spec => NothingStale
<1>1. WorkersUpToDate
  BY DEF WorkersUpToDate
<1>2. [Next]_vars => [WorkersUpToDate]_vars
  BY <1>1
<1> QED BY <1>2, PTL DEF Spec, NothingStale

-----------------------------------------------------------------------------
(* The sessions of an app with one thread: tokens                          *)

(* A row of a provider that is scanned for holds a conversation seen on    *)
(* disk, or is pending; any other the conversation it was launched with.   *)
TokenFits(s, k) ==
  IF Provider[s] \in Scanning THEN k \in visible \cup {Pending}
  ELSE k = Fixed[s]

TokensFit ==
  \A s \in Sessions :
    /\ store[s] # None => TokenFits(s, store[s].token)
    /\ Copy(s) # None => TokenFits(s, Copy(s).token)

(* Why a conversation named at launch is no scanned provider's find: what  *)
(* becomes visible was named by a session that is scanned for, or by none. *)
TalksSeen ==
  /\ \A s \in Sessions : Fixed[s] \in visible => Provider[s] \in Scanning
  /\ \A t \in Muxes :
       (/\ launched[t] # None /\ launched[t].talk # None
        /\ Provider[launched[t].session] \in Scanning)
       => launched[t].talk \in visible \cup {Fixed[launched[t].session]}

Unclaimed(s, k) ==
  \A x \in Sessions \ {s} : store[x] # None => store[x].token # k

(* Token k may be written to the row of s.                                 *)
TokenMayBe(s, k) ==
  k = store[s].token \/ (store[s].token = Pending /\ Unclaimed(s, k))

(* The list a shutdown or a refresh goes through is the table, and the row *)
(* at hand is off the list.                                                *)
ListIsStored ==
  /\ op = "shutdown" \/ pc \in {"resolve", "refreshToken"} =>
       \A s \in todo : Copy(s) = store[s]
  /\ pc \in Holding => cur \notin todo

(* The token found stays free until it is written.                         *)
HeldMayBe ==
  pc \in Holding =>
    IF op = "launch" /\ pc = "persist"
    THEN Copy(cur).token = InitialToken(cur)
    ELSE /\ TokenMayBe(cur, Copy(cur).token)
         /\ pc = "persist" => Copy(cur).token # Pending

TokensInv == TokensFit /\ TalksSeen /\ ListIsStored /\ HeldMayBe
LifeInv == Workers = {} /\ AgentsInv /\ TokensInv

-----------------------------------------------------------------------------
(* What the table says of the abstract session                             *)

(* Once the first row of a launch is written the launch is no exception.   *)
LEMMA LaunchesOnlyAtFirst ==
  ASSUME AgentsInv, pc # "persist", NEW s \in Sessions, store[s] = None
  PROVE  ~(frame[UI].op = "launch" /\ frame[UI].cur = s)
<1> SUFFICES ASSUME op = "launch", cur = s
             PROVE  FALSE
  BY DEF op, cur
<1>1. TypeOK
  BY DEF AgentsInv
<1>2. pc = "attach"
  BY <1>1, StepTellsOp
<1>3. "attach" \in Holding
  BY DEF Holding, Steps, StepsOf, Operations
<1>4. Copy(cur) \in Row
  BY <1>1, <1>2, <1>3, AtHand
<1>5. Copy(s) # None
  BY <1>4, RecordAssumption
<1> QED BY <1>5 DEF AgentsInv, MemoryInv, MemoryAgrees

(* An agent runs only for a session whose row is live and names it, but    *)
(* for the one that has just been started.                                 *)
RunningHasARow ==
  \A s \in Sessions :
    RunningFor(s) =>
      \/ pc = "persist" /\ s = cur
      \/ /\ store[s] # None /\ store[s].state = "Live"
         /\ store[s].mux \in Tracked

LEMMA RunsByRow == AgentsInv => RunningHasARow
<1> SUFFICES ASSUME AgentsInv, NEW s \in Sessions, RunningFor(s),
                    ~(pc = "persist" /\ s = cur)
             PROVE  /\ store[s] # None /\ store[s].state = "Live"
                    /\ store[s].mux \in Tracked
  BY DEF RunningHasARow
<1>1. TypeOK /\ RowsNameTheirAgent /\ KnownAreBorn /\ RunningIsTracked
  BY DEF AgentsInv, RunningInv
<1>2. PICK t \in live \ failed : launched[t] # None /\ launched[t].session = s
  BY DEF RunningFor
<1>3. t \in Muxes /\ t # None
  BY <1>1, <1>2, TrackedAreMuxes DEF Tracked
<1>4. CASE At(UI, "persist") /\ Held(UI).mux = t
  <2>1. pc = "persist" /\ pc \in Holding
    BY <1>4 DEF At, pc, Holding, Steps, StepsOf, Operations
  <2>2. cur \in Sessions /\ Copy(cur) \in Row /\ Copy(cur).mux = t
    BY <1>1, <1>4, <2>1, AtHand
  <2>3. launched[t].session = cur
    BY <1>1, <1>3, <2>2, CopyOfAgent, RecordAssumption
  <2> QED BY <1>2, <2>1, <2>3
<1>5. CASE \E x \in Sessions : /\ store[x] # None
                               /\ store[x].state = "Live"
                               /\ store[x].mux = t
  <2>1. PICK x \in Sessions : /\ store[x] # None
                              /\ store[x].state = "Live"
                              /\ store[x].mux = t
    BY <1>5
  <2>2. x = s
    BY <1>1, <1>2, <1>3, <2>1, RowOfAgent
  <2> QED BY <1>2, <2>1, <2>2 DEF Tracked
<1> QED BY <1>1, <1>2, <1>4, <1>5 DEF RunningIsTracked

-----------------------------------------------------------------------------
(* Moves of the abstract sessions                                          *)

Stays(s) == LifeOf(s)' = LifeOf(s) /\ TokenOf(s)' = TokenOf(s)
Ran(s) == RunningFor(s)' = RunningFor(s)

LEMMA MapsToStutter ==
  ASSUME \A s \in Sessions : Stays(s) /\ Ran(s)
  PROVE  UNCHANGED Lifecycle!lifeVars
BY DEF Lifecycle!lifeVars, Stays, Ran

LEMMA MapsToStart ==
  ASSUME NEW s \in Sessions, \A x \in Sessions : Stays(x),
         \A x \in Sessions \ {s} : Ran(x),
         RunningFor(s)' = TRUE, RunningFor(s) = FALSE,
         LifeOf(s) \in {"absent", "closed"}
  PROVE  Lifecycle!LifeNext
<1>1. Lifecycle!AgentStarts(s)
  BY DEF Lifecycle!AgentStarts, Stays, Ran
<1> QED BY <1>1 DEF Lifecycle!LifeNext

LEMMA MapsToStop ==
  ASSUME NEW s \in Sessions, \A x \in Sessions : Stays(x),
         \A x \in Sessions \ {s} : Ran(x),
         RunningFor(s)' = FALSE, RunningFor(s) = TRUE
  PROVE  Lifecycle!LifeNext
<1>1. Lifecycle!AgentStops(s)
  BY DEF Lifecycle!AgentStops, Stays, Ran
<1> QED BY <1>1 DEF Lifecycle!LifeNext

LEMMA MapsToAbandoned ==
  ASSUME NEW s \in Sessions, \A x \in Sessions \ {s} : Stays(x) /\ Ran(x),
         LifeOf(s) = "absent", LifeOf(s)' = "gone", TokenOf(s)' = TokenOf(s),
         RunningFor(s)' = FALSE
  PROVE  Lifecycle!LifeNext
<1>1. Lifecycle!Abandoned(s)
  BY DEF Lifecycle!Abandoned, Stays, Ran
<1> QED BY <1>1 DEF Lifecycle!LifeNext

LEMMA MapsToOpened ==
  ASSUME NEW s \in Sessions, NEW k \in Tokens,
         \A x \in Sessions \ {s} : Stays(x), \A x \in Sessions : Ran(x),
         LifeOf(s) = "absent", LifeOf(s)' = "open", TokenOf(s)' = k,
         k = Pending \/ Unclaimed(s, k)
  PROVE  Lifecycle!LifeNext
<1>1. k = Pending \/ Lifecycle!Free(s, k)
  BY DEF Lifecycle!Free, Lifecycle!Tabled, Unclaimed, LifeOf, TokenOf
<1>2. Lifecycle!Opened(s, k)
  BY <1>1 DEF Lifecycle!Opened, Stays, Ran
<1> QED BY <1>2 DEF Lifecycle!LifeNext, Tokens

LEMMA TabledMayBe ==
  ASSUME NEW s \in Sessions, NEW k, store[s] # None, TokenMayBe(s, k)
  PROVE  Lifecycle!Tabled(s) /\ Lifecycle!MayBe(s, k)
<1>1. Lifecycle!Tabled(s)
  BY DEF Lifecycle!Tabled, LifeOf
<1>2. Unclaimed(s, k) => Lifecycle!Free(s, k)
  BY DEF Lifecycle!Free, Lifecycle!Tabled, Unclaimed, LifeOf, TokenOf
<1>3. Lifecycle!MayBe(s, k)
  BY <1>2 DEF Lifecycle!MayBe, TokenMayBe, TokenOf
<1> QED BY <1>1, <1>3

LEMMA MapsToLearnt ==
  ASSUME NEW s \in Sessions, NEW k \in Tokens,
         \A x \in Sessions \ {s} : Stays(x), \A x \in Sessions : Ran(x),
         store[s] # None, TokenMayBe(s, k),
         LifeOf(s)' = LifeOf(s), TokenOf(s)' = k
  PROVE  Lifecycle!LifeNext
<1>1. Lifecycle!Learnt(s, k)
  BY TabledMayBe DEF Lifecycle!Learnt, Stays, Ran
<1> QED BY <1>1 DEF Lifecycle!LifeNext, Tokens

LEMMA MapsToClosed ==
  ASSUME NEW s \in Sessions, NEW k \in Tokens,
         \A x \in Sessions \ {s} : Stays(x), \A x \in Sessions : Ran(x),
         store[s] # None, TokenMayBe(s, k), RunningFor(s) = FALSE,
         LifeOf(s) = "open", LifeOf(s)' = "closed", TokenOf(s)' = k
  PROVE  Lifecycle!LifeNext
<1>1. Lifecycle!Closed(s, k)
  BY TabledMayBe DEF Lifecycle!Closed, Stays, Ran
<1> QED BY <1>1 DEF Lifecycle!LifeNext, Tokens

LEMMA MapsToReopened ==
  ASSUME NEW s \in Sessions, NEW k \in Tokens, k # Pending,
         \A x \in Sessions \ {s} : Stays(x), \A x \in Sessions : Ran(x),
         store[s] # None, TokenMayBe(s, k),
         LifeOf(s) = "closed", LifeOf(s)' = "open", TokenOf(s)' = k
  PROVE  Lifecycle!LifeNext
<1>1. Lifecycle!Reopened(s, k)
  BY TabledMayBe DEF Lifecycle!Reopened, Stays, Ran
<1> QED BY <1>1 DEF Lifecycle!LifeNext, Tokens

LEMMA MapsToDeleted ==
  ASSUME NEW gone \in SUBSET Sessions, \A x \in Sessions \ gone : Stays(x),
         \A x \in Sessions : Ran(x),
         \A s \in gone : /\ LifeOf(s) = "closed" /\ LifeOf(s)' = "gone"
                         /\ TokenOf(s)' = Pending /\ RunningFor(s) = FALSE
  PROVE  Lifecycle!LifeNext
<1>1. Lifecycle!Deleted(gone)
  BY DEF Lifecycle!Deleted, Stays, Ran
<1> QED BY <1>1 DEF Lifecycle!LifeNext

(* A step of the supervisor is one of these moves, or none.                *)
Mapped == Lifecycle!LifeNext \/ UNCHANGED Lifecycle!lifeVars

-----------------------------------------------------------------------------
(* What a step leaves alone                                                *)

LEMMA RowsStay ==
  ASSUME AgentsInv, pc # "persist", op' # "launch", UNCHANGED born,
         NEW s \in Sessions, store'[s] = store[s]
  PROVE  Stays(s)
<1>1. store[s] = None => ~(frame[UI].op = "launch" /\ frame[UI].cur = s)
  BY LaunchesOnlyAtFirst
<1>2. ~(frame[UI].op = "launch" /\ frame[UI].cur = s)'
  BY DEF op
<1> QED BY <1>1, <1>2 DEF Stays, LifeOf, TokenOf

LEMMA AgentsStay ==
  ASSUME UNCHANGED <<live, launched, failed>>
  PROVE  \A s \in Sessions : Ran(s)
BY DEF Ran, RunningFor

SameSessions ==
  \A u \in Muxes :
    IF launched[u] = None THEN launched'[u] = None
    ELSE launched'[u] # None /\ launched'[u].session = launched[u].session

(* At most the agent in tmux session t is gone, or given up for lost.      *)
LEMMA OthersRun ==
  ASSUME AgentsInv, SameSessions, Tracked' \subseteq Tracked, NEW t,
         Tracked \subseteq Tracked' \cup {t}
  PROVE  \A s \in Sessions :
           /\ RunningFor(s)' => RunningFor(s)
           /\ (t \in Tracked => launched[t].session # s) => Ran(s)
<1>1. Tracked \subseteq Muxes
  BY TrackedAreMuxes DEF AgentsInv, RunningInv
<1>2. SUFFICES ASSUME NEW s \in Sessions
               PROVE  /\ RunningFor(s)' => RunningFor(s)
                      /\ (t \in Tracked => launched[t].session # s) => Ran(s)
  OBVIOUS
<1>3. RunningFor(s) <=>
        \E u \in Tracked : launched[u] # None /\ launched[u].session = s
  BY DEF RunningFor, Tracked
<1>4. RunningFor(s)' <=>
        \E u \in Tracked' : launched'[u] # None /\ launched'[u].session = s
  BY DEF RunningFor, Tracked
<1>5. RunningFor(s)' => RunningFor(s)
  BY <1>1, <1>3, <1>4 DEF SameSessions
<1>6. ASSUME t \in Tracked => launched[t].session # s
      PROVE  RunningFor(s) => RunningFor(s)'
  BY <1>1, <1>3, <1>4, <1>6 DEF SameSessions
<1>7. RunningFor(s) \in BOOLEAN /\ RunningFor(s)' \in BOOLEAN
  BY DEF RunningFor
<1> QED BY <1>5, <1>6, <1>7 DEF Ran

LEMMA AgentMayStop ==
  ASSUME AgentsInv, SameSessions, Tracked' \subseteq Tracked, NEW t,
         Tracked \subseteq Tracked' \cup {t}, \A s \in Sessions : Stays(s)
  PROVE  Mapped
<1>1. \A s \in Sessions :
           /\ RunningFor(s)' => RunningFor(s)
           /\ (t \in Tracked => launched[t].session # s) => Ran(s)
  BY OthersRun
<1>2. CASE \A s \in Sessions : Ran(s)
  BY <1>2, MapsToStutter DEF Mapped
<1>3. CASE \E s \in Sessions : ~Ran(s)
  <2>1. PICK s \in Sessions : ~Ran(s)
    BY <1>3
  <2>2. t \in Tracked /\ launched[t].session = s
    BY <1>1, <2>1
  <2>3. \A x \in Sessions \ {s} : Ran(x)
    BY <1>1, <2>2
  <2>4. RunningFor(s) \in BOOLEAN /\ RunningFor(s)' \in BOOLEAN
    BY DEF RunningFor
  <2>5. RunningFor(s)' = FALSE /\ RunningFor(s) = TRUE
    BY <1>1, <2>1, <2>4 DEF Ran
  <2> QED BY <2>3, <2>5, MapsToStop DEF Mapped
<1> QED BY <1>2, <1>3

(* The most common step: nothing of a session is touched but, perhaps, its *)
(* agent.                                                                  *)
LEMMA QuietMaps ==
  ASSUME AgentsInv, pc # "persist", op' # "launch",
         UNCHANGED <<store, born, launched>>, Tracked' \subseteq Tracked,
         NEW t, Tracked \subseteq Tracked' \cup {t}
  PROVE  Mapped
<1>1. \A s \in Sessions : Stays(s)
  BY RowsStay
<1>2. SameSessions
  BY DEF SameSessions
<1> QED BY <1>1, <1>2, AgentMayStop

-----------------------------------------------------------------------------
(* Writing the record at hand                                              *)

LEMMA AtHandStored ==
  ASSUME LifeInv, pc \in Holding, pc # "persist"
  PROVE  /\ TypeOK /\ cur \in Sessions /\ Copy(cur) \in Row
         /\ Copy(cur) # None /\ Copy(cur) = Held(UI) /\ cur = frame[UI].cur
         /\ Copy(cur).token \in Tokens
         /\ store[cur] # None /\ SameAgent(Copy(cur), store[cur])
         /\ TokenMayBe(cur, Copy(cur).token) /\ cur \notin todo
<1>1. TypeOK
  BY DEF LifeInv, AgentsInv
<1>2. /\ cur \in Sessions /\ Copy(cur) \in Row /\ Copy(cur) # None
      /\ Copy(cur) = Held(UI)
  BY <1>1, AtHand, RecordAssumption
<1>3. store[cur] # None /\ SameAgent(Copy(cur), store[cur])
  BY <1>2 DEF LifeInv, AgentsInv, MemoryInv, MemoryAgrees
<1>4. TokenMayBe(cur, Copy(cur).token) /\ cur \notin todo
  BY DEF LifeInv, TokensInv, HeldMayBe, ListIsStored
<1> QED BY <1>1, <1>2, <1>3, <1>4 DEF Row, cur

(* Writing it as it is, only the token can be news.                        *)
LEMMA WriteMaps ==
  ASSUME LifeInv, pc \in Holding, pc # "persist", op' # "launch",
         Save(frame[UI].cur, Held(UI)) \/ UNCHANGED store,
         UNCHANGED <<live, launched, failed, born>>
  PROVE  Mapped
<1>1. AgentsInv
  BY DEF LifeInv
<1>2. CASE UNCHANGED store
  BY <1>1, <1>2, QuietMaps DEF Tracked
<1>3. CASE Save(frame[UI].cur, Held(UI))
  <2>1. PICK s \in Sessions : s = cur
    BY AtHandStored
  <2>2. /\ store[s] # None /\ Copy(s) # None
        /\ SameAgent(Copy(s), store[s]) /\ TypeOK
        /\ TokenMayBe(s, Copy(s).token) /\ Copy(s).token \in Tokens
    BY <2>1, AtHandStored
  <2>3. Save(s, Copy(s))
    BY <1>3, <2>1, AtHandStored
  <2>4. \A x \in Sessions : store'[x] = IF x = s THEN Copy(s) ELSE store[x]
    BY <2>2, <2>3, SaveShape
  <2>5. \A x \in Sessions \ {s} : Stays(x)
    BY <1>1, <2>4, RowsStay
  <2>6. LifeOf(s)' = LifeOf(s) /\ TokenOf(s)' = Copy(s).token
    BY <2>2, <2>4 DEF LifeOf, TokenOf, SameAgent, Missed, LifeInv
  <2> QED BY <2>2, <2>5, <2>6, AgentsStay, MapsToLearnt DEF Mapped
<1> QED BY <1>2, <1>3

(* Closing it ends an open session, and is news of a closed one at most.   *)
LEMMA CloseMaps ==
  ASSUME LifeInv, pc \in Holding, pc # "persist", op' # "launch",
         NEW row, row # None, row.state = "Exited",
         row.token = Copy(cur).token, Save(cur, row),
         Copy(cur).mux \notin Tracked, UNCHANGED <<live, launched, failed, born>>
  PROVE  Mapped
<1>1. AgentsInv
  BY DEF LifeInv
<1>2. PICK s \in Sessions : s = cur
  BY AtHandStored
<1>3. /\ store[s] # None /\ Copy(s) # None /\ SameAgent(Copy(s), store[s])
      /\ TypeOK /\ TokenMayBe(s, Copy(s).token) /\ Copy(s).token \in Tokens
  BY <1>2, AtHandStored
<1>4. \A x \in Sessions : store'[x] = IF x = s THEN row ELSE store[x]
  BY <1>2, <1>3, SaveShape
<1>5. \A x \in Sessions \ {s} : Stays(x)
  BY <1>1, <1>4, RowsStay
<1>6. LifeOf(s)' = "closed" /\ TokenOf(s)' = Copy(s).token
  BY <1>2, <1>4 DEF LifeOf, TokenOf
<1>7. RunningFor(s) = FALSE
  BY <1>1, <1>2, <1>3, RunsByRow DEF RunningHasARow, SameAgent, RunningFor
<1>8. LifeOf(s) \in {"open", "closed"}
  BY <1>3 DEF LifeOf
<1> QED
  BY <1>3, <1>5, <1>6, <1>7, <1>8, AgentsStay, MapsToClosed, MapsToLearnt
  DEF Mapped

-----------------------------------------------------------------------------
(* What a search finds                                                     *)

Found(s, k) ==
  /\ Provider[s] \in Scanning /\ k \in visible /\ k \in Conversations
  /\ Unclaimed(s, k)

LEMMA ResolutionsAreNew ==
  ASSUME TypeOK, NEW s \in Sessions, NEW excluded, NEW base, NEW recoverable,
         NEW r \in Resolutions(s, Known(s),
                               excluded \cup ClaimedExcluding(store, s),
                               base, recoverable),
         r.token # None
  PROVE  Found(s, r.token)
<1> DEFINE barred == excluded \cup ClaimedExcluding(store, s)
           known == Known(s)
           candidates == IF ExpectedFound(s, known, barred) # {}
                         THEN ExpectedFound(s, known, barred)
                         ELSE IF base # None
                         THEN NewSince(base, known, barred)
                         ELSE SingleCandidate(known, barred, recoverable)
<1>1. candidates \subseteq known \ barred
  BY DEF ExpectedFound, NewSince, SingleCandidate
<1>2. Provider[s] \in Scanning /\ r.token \in candidates
  <2>1. Provider[s] \in Scanning
    BY DEF Resolutions
  <2>2. r \in IF candidates # {}
              THEN {[token |-> c, base |-> base] : c \in candidates}
              ELSE {[token |-> None,
                     base |-> IF base = None THEN known ELSE base]}
    BY <2>1 DEF Resolutions
  <2> HIDE DEF candidates
  <2> QED BY <2>1, <2>2
<1>3. r.token \in visible /\ r.token \in Conversations
  BY <1>1, <1>2 DEF Known, TypeOK
<1>4. r.token # Pending
  BY <1>3, NullAssumption
<1>5. Unclaimed(s, r.token)
  <2>1. r.token \notin ClaimedExcluding(store, s)
    BY <1>1, <1>2
  <2> QED BY <1>4, <2>1 DEF Unclaimed, ClaimedExcluding
<1> QED BY <1>2, <1>3, <1>5 DEF Found

LEMMA ResolveFinds ==
  ASSUME TypeOK, NEW s \in Sessions, NEW row, NEW excluded,
         NEW r \in Resolve(UI, s, row, excluded), r.token # None
  PROVE  r.token = row.token \/ (row.token = Pending /\ Found(s, r.token))
<1>1. CASE row.token # Pending
  BY <1>1 DEF Resolve
<1>2. CASE row.token = Pending
  BY <1>2, ResolutionsAreNew DEF Resolve
<1> QED BY <1>1, <1>2

LEMMA ResolvePendingFinds ==
  ASSUME TypeOK, NEW s \in Sessions, NEW row, NEW excluded,
         NEW r \in ResolvePending(UI, s, row, excluded)
  PROVE  r.token = row.token \/ (row.token = Pending /\ Found(s, r.token))
<1>1. CASE row.token # Pending
  BY <1>1 DEF ResolvePending
<1>2. CASE row.token = Pending
  <2>1. PICK q \in Resolve(UI, s, row, excluded) :
          r = [token |-> IF q.token = None THEN Pending ELSE q.token,
               base |-> q.base]
    BY <1>2 DEF ResolvePending
  <2>2. r.token = IF q.token = None THEN Pending ELSE q.token
    BY <2>1
  <2> QED BY <1>2, <2>2, ResolveFinds
<1> QED BY <1>1, <1>2

(* What is found fits the session, and may be written to its row if what   *)
(* it is found in place of might.                                          *)
LEMMA FoundFits ==
  ASSUME NEW s \in Sessions, NEW known, NEW k,
         k = known \/ (known = Pending /\ Found(s, k)),
         TokenFits(s, known)
  PROVE  TokenFits(s, k)
BY DEF TokenFits, Found

LEMMA FoundMayBe ==
  ASSUME NEW s \in Sessions, NEW known, NEW k,
         k = known \/ (known = Pending /\ Found(s, k)),
         TokenMayBe(s, known)
  PROVE  TokenMayBe(s, k)
BY DEF TokenMayBe, Found

LEMMA OwnMayBe ==
  ASSUME NEW s
  PROVE  TokenMayBe(s, store[s].token)
BY DEF TokenMayBe

-----------------------------------------------------------------------------
(* What keeps the tokens right                                             *)

LEMMA FitsKept ==
  ASSUME LifeInv, UNCHANGED <<launched, visible>>,
         \A s \in Sessions :
           \/ store'[s] \in {None, store[s]}
           \/ s = cur /\ pc \in Holding /\ store'[s].token = Copy(s).token,
         \A s \in Sessions : Copy(s)' # None => TokenFits(s, Copy(s)'.token)
  PROVE  TokensFit' /\ TalksSeen'
<1>1. TalksSeen'
  BY DEF LifeInv, TokensInv, TalksSeen
<1>2. ASSUME NEW s \in Sessions, store'[s] # None
      PROVE  TokenFits(s, store'[s].token)
  <2>1. pc \in Holding /\ s = cur => Copy(s) # None
    BY AtHand, RecordAssumption DEF LifeInv, AgentsInv
  <2> QED BY <1>2, <2>1 DEF LifeInv, TokensInv, TokensFit
<1>3. \A s \in Sessions : \A k : TokenFits(s, k)' <=> TokenFits(s, k)
  BY DEF TokenFits
<1>4. TokensFit'
  BY <1>2, <1>3 DEF TokensFit, TokenFits
<1> QED BY <1>1, <1>4

(* A step after which no record is at hand, and the list is as it was or   *)
(* is not gone through.                                                    *)
LEMMA LetGoTokens ==
  ASSUME LifeInv, UNCHANGED <<launched, visible>>,
         \A s \in Sessions :
           \/ store'[s] \in {None, store[s]}
           \/ s = cur /\ pc \in Holding /\ store'[s].token = Copy(s).token,
         \A s \in Sessions : Copy(s)' \in {None, Copy(s), store[s]},
         pc' \notin Holding,
         op' # "shutdown" /\ pc' \notin {"resolve", "refreshToken"}
  PROVE  TokensInv'
<1>1. \A s \in Sessions : Copy(s)' # None => TokenFits(s, Copy(s)'.token)
  BY DEF LifeInv, TokensInv, TokensFit
<1>2. TokensFit' /\ TalksSeen'
  BY <1>1, FitsKept
<1> QED BY <1>2 DEF TokensInv, ListIsStored, HeldMayBe

LEMMA SameTokens ==
  ASSUME LifeInv, UNCHANGED <<store, launched, visible, frame>>
  PROVE  TokensInv'
<1>1. TokensFit' /\ TalksSeen'
  BY FitsKept, SameShape DEF LifeInv, TokensInv, TokensFit
<1>2. HeldMayBe'
  BY
  DEF LifeInv, TokensInv, HeldMayBe, TokenMayBe, Unclaimed, pc, op, cur, Copy
<1>3. ListIsStored'
  BY DEF LifeInv, TokensInv, ListIsStored, pc, op, cur, todo, Copy
<1> QED BY <1>1, <1>2, <1>3 DEF TokensInv

(* A step after which the record of s is at hand, to be written with       *)
(* token k.                                                                *)
LEMMA HoldTokens ==
  ASSUME LifeInv, UNCHANGED <<launched, visible>>,
         \A x \in Sessions :
           \/ store'[x] \in {None, store[x]}
           \/ x = cur /\ pc \in Holding /\ store'[x].token = Copy(x).token,
         NEW s \in Sessions, NEW k, cur' = s, Copy(s)'.token = k,
         pc' # "persist", s \notin todo', TokenFits(s, k),
         \/ k = store'[s].token
         \/ TokenMayBe(s, k) /\ \A x \in Sessions : store'[x] = store[x],
         \A x \in Sessions \ {s} : Copy(x)' \in {None, Copy(x), store[x]},
         op' = "shutdown" \/ pc' \in {"resolve", "refreshToken"} =>
           \A x \in todo' : Copy(x)' = store'[x]
  PROVE  TokensInv'
<1>1. \A x \in Sessions : Copy(x)' # None => TokenFits(x, Copy(x)'.token)
  BY DEF LifeInv, TokensInv, TokensFit
<1>2. TokensFit' /\ TalksSeen'
  BY <1>1, FitsKept
<1>3. ListIsStored'
  BY DEF ListIsStored
<1>4. Copy(cur)' = Copy(s)'
  BY DEF Copy, cur
<1>5. TokenMayBe(s, k)'
  BY DEF TokenMayBe, Unclaimed
<1>6. HeldMayBe'
  BY <1>4, <1>5 DEF HeldMayBe, TokenMayBe, Unclaimed
<1> QED BY <1>2, <1>3, <1>6 DEF TokensInv

LEMMA ClosingTokens ==
  ASSUME LifeInv, pc \in ClosingSteps \ {"next"}, pc' \in ClosingSteps,
         op' = op, cur' = cur, todo' = todo, UNCHANGED <<launched, visible>>,
         NEW s \in Sessions, s = cur,
         \A x \in Sessions \ {s} : store'[x] = store[x] /\ Copy(x)' = Copy(x),
         \/ store'[s] = store[s]
         \/ /\ store'[s].token = Copy(s).token
            /\ Copy(s)'.token = Copy(s).token,
         \/ Copy(s)'.token = Copy(s).token
         \/ /\ UNCHANGED store /\ Copy(s).token = Pending
            /\ Found(s, Copy(s)'.token)
  PROVE  TokensInv'
<1>1. pc \in Holding /\ pc # "persist"
  BY DEF ClosingSteps, Holding, Steps, StepsOf, Operations
<1>2. /\ Copy(s) # None /\ TokenMayBe(s, Copy(s).token) /\ s \notin todo
      /\ TypeOK
  BY <1>1, AtHandStored
<1>3. TokenFits(s, Copy(s).token)
  BY <1>2 DEF LifeInv, TokensInv, TokensFit
<1>4. TokenFits(s, Copy(s)'.token)
  BY <1>3, FoundFits
<1>5. \/ Copy(s)'.token = store'[s].token
      \/ /\ TokenMayBe(s, Copy(s)'.token)
         /\ \A x \in Sessions : store'[x] = store[x]
  <2>1. CASE Copy(s)'.token = Copy(s).token
    <3>1. CASE store'[s] = store[s]
      BY <1>2, <2>1, <3>1
    <3> QED BY <2>1, <3>1
  <2>2. CASE Copy(s)'.token # Copy(s).token
    BY <1>2, <2>2, FoundMayBe
  <2> QED BY <2>1, <2>2
<1>6. pc' \notin {"resolve", "refreshToken", "persist"}
  BY DEF ClosingSteps
<1>7. \A x \in Sessions :
           \/ store'[x] \in {None, store[x]}
           \/ x = cur /\ pc \in Holding /\ store'[x].token = Copy(x).token
  BY <1>1
<1>8. op = "shutdown" => \A x \in todo : Copy(x)' = store'[x]
  <2>1. todo \subseteq Sessions
    BY <1>2, UIFrame
  <2> QED BY <1>2, <2>1 DEF LifeInv, TokensInv, ListIsStored
<1> QED BY <1>2, <1>4, <1>5, <1>6, <1>7, <1>8, HoldTokens

-----------------------------------------------------------------------------
(* The steps of the calls, one by one: each is a move of the abstract      *)
(* sessions, or none, and keeps the tokens right                           *)

LEMMA ResumeRefusedLife ==
  ASSUME LifeInv, NEW s \in Sessions, ResumeRefused(s)
  PROVE  TokensInv' /\ Mapped
<1>1. /\ AgentsInv /\ pc = "idle" /\ op = "none"
      /\ UNCHANGED <<store, live, launched, visible, born, failed, frame>>
  BY ReadyIsIdle DEF ResumeRefused, UIReady, LifeInv, AgentsInv
<1>2. Tracked' = Tracked /\ op' = op
  BY <1>1 DEF Tracked, op
<1> QED BY <1>1, <1>2, SameTokens, QuietMaps

LEMMA StartQuitLife ==
  ASSUME LifeInv, Start \/ Quit
  PROVE  TokensInv' /\ Mapped
<1>1. /\ AgentsInv /\ TypeOK /\ PhaseOK
      /\ UNCHANGED <<store, live, launched, visible, born, failed, frame>>
  BY DEF Start, Quit, LifeInv, AgentsInv, ListedInv
<1>2. op = "none"
  BY <1>1 DEF Start, Quit, PhaseOK
<1>3. Tracked' = Tracked /\ op' = op /\ pc # "persist"
  BY <1>1, <1>2, StepTellsOp DEF Tracked, op
<1> QED BY <1>1, <1>2, <1>3, SameTokens, QuietMaps

LEMMA RenameLife ==
  ASSUME LifeInv, NEW s \in Sessions, Rename(s)
  PROVE  TokensInv' /\ Mapped
<1> DEFINE f == [IdleFrame EXCEPT !.op = "rename", !.pc = "save", !.cur = s,
                                  !.list[s] = store[s]]
<1>1. /\ AgentsInv /\ TypeOK /\ store[s] # None /\ pc = "idle"
      /\ UNCHANGED <<store, live, launched, visible, born, failed>>
      /\ Begin(UI, f)
  BY ReadyIsIdle DEF LifeInv, AgentsInv, Rename, UIReady
<1>2. /\ f.op = "rename" /\ f.pc = "save" /\ f.cur = s /\ f.todo = {}
      /\ \A x \in Sessions : f.list[x] = IF x = s THEN store[s] ELSE None
  BY DEF IdleFrame, NoRows
<1> HIDE DEF f
<1>3. /\ op' = "rename" /\ pc' = "save" /\ cur' = s /\ todo' = {}
      /\ \A x \in Sessions : Copy(x)' = IF x = s THEN store[s] ELSE None
  BY <1>1, <1>2, BeginShape
<1>4. Tracked' = Tracked
  BY <1>1 DEF Tracked
<1>5. TokenFits(s, store[s].token)
  BY <1>1 DEF LifeInv, TokensInv, TokensFit
<1>6. TokensInv'
  BY <1>1, <1>3, <1>5, HoldTokens
<1> QED BY <1>1, <1>3, <1>4, <1>6, QuietMaps

LEMMA DeleteLife ==
  ASSUME LifeInv, NEW selected \in SUBSET Sessions, Delete(selected)
  PROVE  TokensInv' /\ Mapped
<1> DEFINE f == [IdleFrame EXCEPT !.op = "delete", !.pc = "commit",
                                  !.todo = selected]
<1>1. /\ AgentsInv /\ TypeOK /\ pc = "idle" /\ Begin(UI, f)
      /\ UNCHANGED <<store, live, launched, visible, born, failed>>
  BY ReadyIsIdle DEF LifeInv, AgentsInv, Delete, UIReady
<1>2. /\ f.op = "delete" /\ f.pc = "commit"
      /\ \A x \in Sessions : f.list[x] = None
  BY DEF IdleFrame, NoRows
<1> HIDE DEF f
<1>3. /\ op' = "delete" /\ pc' = "commit"
      /\ \A x \in Sessions : Copy(x)' = None
  BY <1>1, <1>2, BeginShape
<1>4. Tracked' = Tracked /\ pc' \notin Holding
  BY <1>1, <1>3 DEF Tracked, Holding
<1> QED BY <1>1, <1>3, <1>4, LetGoTokens, QuietMaps

LEMMA ShutdownStartLife ==
  ASSUME LifeInv, ShutdownStart
  PROVE  TokensInv' /\ Mapped
<1> DEFINE f == [IdleFrame EXCEPT
       !.op = "shutdown", !.pc = "next", !.list = store,
       !.todo = { s \in Sessions : store[s] # None },
       !.claimed = ClaimedExcluding(store, None)]
<1>1. /\ AgentsInv /\ TypeOK /\ pc = "idle" /\ Begin(UI, f)
      /\ UNCHANGED <<store, live, launched, visible, born, failed>>
  BY ReadyIsIdle DEF LifeInv, AgentsInv, ShutdownStart, UIReady
<1>2. /\ f.op = "shutdown" /\ f.pc = "next" /\ f.list = store
      /\ f.todo \subseteq Sessions
  BY DEF IdleFrame
<1> HIDE DEF f
<1>3. /\ op' = "shutdown" /\ pc' = "next" /\ todo' \subseteq Sessions
      /\ \A x \in Sessions : Copy(x)' = store[x]
  BY <1>1, <1>2, BeginShape
<1>4. Tracked' = Tracked /\ pc' \notin Holding
  BY <1>1, <1>3 DEF Tracked, Holding
<1>5. TokensFit' /\ TalksSeen'
  BY <1>1, <1>3, FitsKept DEF LifeInv, TokensInv, TokensFit
<1>6. ListIsStored' /\ HeldMayBe'
  BY <1>1, <1>3, <1>4 DEF ListIsStored, HeldMayBe
<1> QED BY <1>1, <1>3, <1>4, <1>5, <1>6, QuietMaps DEF TokensInv

LEMMA CleanupStartLife ==
  ASSUME LifeInv, CleanupStart
  PROVE  TokensInv' /\ Mapped
<1> DEFINE f == [IdleFrame EXCEPT
       !.op = "cleanup", !.pc = "next",
       !.todo = { s \in Sessions : store[s] # None /\ Foreign(store[s]) }]
<1>1. /\ AgentsInv /\ TypeOK /\ pc = "idle" /\ Begin(UI, f)
      /\ UNCHANGED <<store, live, launched, visible, born, failed>>
  BY ReadyIsIdle DEF LifeInv, AgentsInv, CleanupStart
<1>2. /\ f.op = "cleanup" /\ f.pc = "next"
      /\ \A x \in Sessions : f.list[x] = None
  BY DEF IdleFrame, NoRows
<1> HIDE DEF f
<1>3. /\ op' = "cleanup" /\ pc' = "next"
      /\ \A x \in Sessions : Copy(x)' = None
  BY <1>1, <1>2, BeginShape
<1>4. Tracked' = Tracked /\ pc' \notin Holding
  BY <1>1, <1>3 DEF Tracked, Holding
<1> QED BY <1>1, <1>3, <1>4, LetGoTokens, QuietMaps

LEMMA DoneLife ==
  ASSUME LifeInv, pc # "persist", Finish(UI),
         UNCHANGED <<store, live, launched, visible, born, failed>>
  PROVE  TokensInv' /\ Mapped
<1>1. AgentsInv /\ TypeOK
  BY DEF LifeInv, AgentsInv
<1>2. /\ op' = "none" /\ pc' = "idle" /\ \A s \in Sessions : Copy(s)' = None
  BY <1>1, FinishShape
<1>3. Tracked' = Tracked /\ pc' \notin Holding
  BY <1>2 DEF Tracked, Holding
<1> QED BY <1>1, <1>2, <1>3, LetGoTokens, QuietMaps

(* has-session may lose the agent; the search may find the token.          *)
LEMMA ClosingBegunLife ==
  ASSUME LifeInv, pc # "persist", NEW s \in Sessions, NEW f \in Frame,
         NEW excluded, CloseBegin(s, store[s], f, excluded), store[s] # None,
         s \notin f.todo, f.op # "launch",
         \A x \in Sessions : f.list[x] \in {None, Copy(x)},
         f.op = "shutdown" => \A x \in f.todo \ {s} : f.list[x] = store[x],
         UNCHANGED <<store, live, launched, visible, born>>
  PROVE  TokensInv' /\ Mapped
<1>1. TypeOK /\ AgentsInv /\ store[s] \in Row
  BY StoredIsARow DEF LifeInv, AgentsInv
<1>2. /\ op' = f.op /\ pc' \in {"token", "kill"} /\ cur' = s
      /\ todo' = f.todo
      /\ failed \subseteq failed' /\ failed' \subseteq failed \cup {store[s].mux}
  BY <1>1, ClosingBegun
<1>3. PICK r \in ResolvePending(UI, s, store[s], excluded) :
              \A x \in Sessions :
                Copy(x)' = IF x = s THEN [store[s] EXCEPT !.token = r.token]
                           ELSE f.list[x]
  BY <1>1, ClosingBegun
<1>4. /\ [store[s] EXCEPT !.token = r.token].token = r.token
      /\ TokenFits(s, r.token) /\ TokenMayBe(s, r.token)
  <2>1. r.token = store[s].token
        \/ (store[s].token = Pending /\ Found(s, r.token))
    BY <1>1, ResolvePendingFinds
  <2>2. TokenFits(s, store[s].token)
    BY DEF LifeInv, TokensInv, TokensFit
  <2> QED BY <1>1, <2>1, <2>2, FoundFits, FoundMayBe, OwnMayBe DEF Row
<1>5. f.op = "shutdown" => \A x \in todo' : Copy(x)' = store[x]
  <2>1. f.todo \subseteq Sessions
    BY DEF Frame
  <2> QED BY <1>2, <1>3, <2>1
<1>6. TokensInv'
  BY <1>2, <1>3, <1>4, <1>5, HoldTokens
<1>7. Tracked' \subseteq Tracked /\ Tracked \subseteq Tracked' \cup {store[s].mux}
  BY <1>2 DEF Tracked
<1> QED BY <1>1, <1>2, <1>6, <1>7, QuietMaps

LEMMA TerminateLife ==
  ASSUME LifeInv, NEW s \in Sessions, Terminate(s)
  PROVE  TokensInv' /\ Mapped
<1> DEFINE f == [IdleFrame EXCEPT !.op = "terminate"]
<1>1. /\ TypeOK /\ store[s] # None /\ pc # "persist"
      /\ UNCHANGED <<store, live, launched, visible, born>>
  BY ReadyIsIdle DEF LifeInv, AgentsInv, Terminate, UIReady
<1>2. /\ f \in Frame /\ f.op = "terminate" /\ f.todo = {}
      /\ \A x \in Sessions : f.list[x] = None
  BY IdleFrameType DEF IdleFrame, NoRows, Frame, Operations
<1>3. CloseBegin(s, store[s], f, ClaimedExcluding(store, s))
  BY DEF Terminate
<1> HIDE DEF f
<1> QED BY <1>1, <1>2, <1>3, ClosingBegunLife

LEMMA CleanupNextLife ==
  ASSUME LifeInv, NEW s \in Sessions, CleanupNext(s)
  PROVE  TokensInv' /\ Mapped
<1> DEFINE f == [IdleFrame EXCEPT !.op = "cleanup", !.pc = "next",
                                  !.todo = Remaining(s)]
<1>1. /\ AgentsInv /\ TypeOK /\ pc = "next" /\ op = "cleanup"
      /\ UNCHANGED <<store, live, launched, visible, born>>
  BY DEF LifeInv, AgentsInv, CleanupNext, At, pc, op
<1>2. /\ f \in Frame /\ f.op = "cleanup" /\ f.pc = "next"
      /\ f.todo = todo \ {s} /\ \A x \in Sessions : f.list[x] = None
  <2>1. "next" \in Steps
    BY DEF Steps, StepsOf, Operations, ClosingSteps
  <2> QED
    BY <1>1, <2>1, UIFrame, IdleFrameType
    DEF IdleFrame, NoRows, Frame, Operations, Remaining, todo
<1>3. \/ store[s] = None /\ Begin(UI, f) /\ UNCHANGED failed
      \/ /\ store[s] # None
         /\ CloseBegin(s, store[s], f, ClaimedExcluding(store, s))
  BY DEF CleanupNext
<1> HIDE DEF f
<1>4. CASE Begin(UI, f) /\ UNCHANGED failed
  <2>1. /\ op' = "cleanup" /\ pc' = "next"
        /\ \A x \in Sessions : Copy(x)' = None
    BY <1>1, <1>2, <1>4, BeginShape
  <2>2. Tracked' = Tracked /\ pc' \notin Holding
    BY <1>1, <1>4, <2>1 DEF Tracked, Holding
  <2> QED BY <1>1, <2>1, <2>2, LetGoTokens, QuietMaps
<1>5. CASE /\ store[s] # None
           /\ CloseBegin(s, store[s], f, ClaimedExcluding(store, s))
  BY <1>1, <1>2, <1>5, ClosingBegunLife
<1> QED BY <1>3, <1>4, <1>5

LEMMA ShutdownNextLife ==
  ASSUME LifeInv, NEW s \in Sessions, ShutdownNext(s)
  PROVE  TokensInv' /\ Mapped
<1> DEFINE f == [frame[UI] EXCEPT !.todo = Remaining(s)]
<1>1. /\ AgentsInv /\ TypeOK /\ pc = "next" /\ op = "shutdown" /\ s \in todo
      /\ UNCHANGED <<store, live, launched, visible, born>>
  BY DEF LifeInv, AgentsInv, ShutdownNext, At, pc, op, todo
<1>2. /\ f \in Frame /\ f.op = "shutdown" /\ f.pc = "next"
      /\ f.todo = todo \ {s} /\ \A x \in Sessions : f.list[x] = Copy(x)
  BY <1>1, UIFrame DEF Frame, Remaining, todo, op, pc, Copy
<1>3. todo \subseteq Sessions /\ \A x \in todo : Copy(x) = store[x]
  BY <1>1, UIFrame DEF LifeInv, TokensInv, ListIsStored
<1>4. Copy(s) = store[s] /\ store[s] # None
  <2>1. Copy(s) # None
    BY <1>1, UIFrame DEF FrameOK, Copy, op, todo
  <2> QED BY <1>1, <1>3, <2>1
<1>5. \/ Begin(UI, f) /\ failed' \in {failed, failed \cup {store[s].mux}}
      \/ CloseBegin(s, store[s], f, frame[UI].claimed)
  BY <1>4 DEF ShutdownNext, Copy
<1> HIDE DEF f
<1>6. CASE Begin(UI, f) /\ failed' \in {failed, failed \cup {store[s].mux}}
  <2>1. /\ op' = "shutdown" /\ pc' = "next" /\ todo' = todo \ {s}
        /\ \A x \in Sessions : Copy(x)' = Copy(x)
    BY <1>1, <1>2, <1>6, BeginShape
  <2>2. /\ Tracked' \subseteq Tracked
        /\ Tracked \subseteq Tracked' \cup {store[s].mux}
        /\ pc' \notin Holding
    BY <1>1, <1>6, <2>1 DEF Tracked, Holding
  <2>3. TokensFit' /\ TalksSeen'
    BY <1>1, <2>1, FitsKept DEF LifeInv, TokensInv, TokensFit
  <2>4. ListIsStored' /\ HeldMayBe'
    BY <1>1, <1>3, <2>1, <2>2 DEF ListIsStored, HeldMayBe
  <2> QED BY <1>1, <2>1, <2>2, <2>3, <2>4, QuietMaps DEF TokensInv
<1>7. CASE CloseBegin(s, store[s], f, frame[UI].claimed)
  <2>1. \A x \in f.todo \ {s} : f.list[x] = store[x]
    BY <1>2, <1>3
  <2> QED BY <1>1, <1>2, <1>4, <1>7, <2>1, ClosingBegunLife
<1> QED BY <1>5, <1>6, <1>7

LEMMA SaveTokenLife ==
  ASSUME LifeInv, SaveToken
  PROVE  TokensInv' /\ Mapped
<1>1. /\ pc \in {"token", "tokenAgain"} /\ pc \in Holding
      /\ Save(frame[UI].cur, Held(UI)) \/ UNCHANGED store
      /\ UNCHANGED <<live, launched, visible, born, failed>>
      /\ TypeOK /\ AgentsInv
  BY DEF LifeInv, AgentsInv, SaveToken, At, pc, Holding, Steps, StepsOf,
         Operations, ClosingSteps
<1>2. /\ op' = op /\ cur' = cur /\ todo' = todo /\ pc' \in {"kill", "exit"}
      /\ \A x \in Sessions : Copy(x)' = Copy(x)
  BY <1>1, GotoShape DEF SaveToken
<1>3. pc # "persist" /\ op # "launch" /\ pc \in ClosingSteps \ {"next"}
      /\ pc' \in ClosingSteps
  BY <1>1, <1>2, StepTellsOp DEF ClosingSteps
<1>4. PICK s \in Sessions : s = cur
  BY <1>1, <1>3, AtHandStored
<1>5. \A x \in Sessions :
        store'[x] = IF x = s /\ store'[x] # store[x] THEN Copy(s) ELSE store[x]
  BY <1>1, <1>3, <1>4, AtHandStored, SaveShape
<1>6. TokensInv'
  BY <1>1, <1>2, <1>3, <1>4, <1>5, ClosingTokens
<1>7. Mapped
  BY <1>1, <1>2, <1>3, WriteMaps
<1> QED BY <1>6, <1>7

LEMMA KillLife ==
  ASSUME LifeInv, Kill
  PROVE  TokensInv' /\ Mapped
<1>1. /\ TypeOK /\ AgentsInv /\ pc = "kill"
      /\ UNCHANGED <<store, launched, visible, born>>
  BY DEF LifeInv, AgentsInv, Kill, At, pc
<1>2. /\ \E label \in {"retry", "exit", "next"} : Goto(UI, label)
      /\ live' \subseteq live /\ live \subseteq live' \cup {Held(UI).mux}
      /\ failed \subseteq failed' /\ failed' \subseteq failed \cup {Held(UI).mux}
  BY <1>1 DEF Kill
<1>3. /\ op' = op /\ pc' \in {"retry", "exit", "next"} /\ cur' = cur
      /\ todo' = todo /\ \A s \in Sessions : Copy(s)' = Copy(s)
  BY <1>1, <1>2, GotoShape
<1>4. /\ op # "launch" /\ pc \in ClosingSteps \ {"next"}
      /\ pc' \in ClosingSteps
  BY <1>1, <1>3, StepTellsOp DEF ClosingSteps
<1>5. PICK s \in Sessions : s = cur
  <2>1. pc \in Holding
    BY <1>1 DEF Holding, Steps, StepsOf, Operations, ClosingSteps
  <2> QED BY <1>1, <2>1, AtHandStored
<1>6. TokensInv'
  BY <1>1, <1>3, <1>4, <1>5, ClosingTokens
<1>7. Tracked' \subseteq Tracked /\ Tracked \subseteq Tracked' \cup {Held(UI).mux}
  BY <1>2 DEF Tracked
<1> QED BY <1>1, <1>3, <1>4, <1>6, <1>7, QuietMaps

LEMMA RetryLife ==
  ASSUME LifeInv, Retry
  PROVE  TokensInv' /\ Mapped
<1>1. /\ TypeOK /\ AgentsInv /\ pc = "retry"
      /\ UNCHANGED <<store, live, launched, visible, born, failed>>
  BY DEF LifeInv, AgentsInv, Retry, At, pc
<1>2. /\ op' = op /\ pc' \in {"exit", "tokenAgain"} /\ cur' = cur
      /\ todo' = todo /\ cur \in Sessions /\ Copy(cur) \in Row
  BY <1>1, RetryShape
<1>3. PICK s \in Sessions : s = cur
  BY <1>2
<1>4. PICK r \in ResolvePending(UI, s, Copy(s), frame[UI].claimed) :
              \A x \in Sessions :
                Copy(x)' = IF x = s THEN [Copy(s) EXCEPT !.token = r.token]
                           ELSE Copy(x)
  BY <1>1, <1>3, RetryShape
<1>5. /\ op # "launch" /\ pc \in ClosingSteps \ {"next"}
      /\ pc' \in ClosingSteps
  BY <1>1, <1>2, StepTellsOp DEF ClosingSteps
<1>6. \/ r.token = Copy(s).token
      \/ Copy(s).token = Pending /\ Found(s, r.token)
  BY <1>1, ResolvePendingFinds
<1>7. Copy(s)'.token = r.token
  <2>1. Copy(s)' = [Copy(s) EXCEPT !.token = r.token] /\ Copy(s) \in Row
    BY <1>2, <1>3, <1>4
  <2> QED BY <2>1 DEF Row
<1>8. TokensInv'
  BY <1>1, <1>2, <1>3, <1>4, <1>5, <1>6, <1>7, ClosingTokens
<1>9. Tracked' = Tracked
  BY <1>1 DEF Tracked
<1> QED BY <1>1, <1>2, <1>5, <1>8, <1>9, QuietMaps

LEMMA MarkExitedLife ==
  ASSUME LifeInv, MarkExited
  PROVE  TokensInv' /\ Mapped
<1>1. /\ TypeOK /\ AgentsInv /\ pc = "exit"
      /\ UNCHANGED <<live, launched, visible, born, failed>>
  BY DEF LifeInv, AgentsInv, MarkExited, At, pc
<1>2. /\ op # "launch" /\ pc \in ClosingSteps \ {"next"} /\ pc \in Holding
      /\ pc # "persist" /\ "next" \in ClosingSteps
      /\ "artifacts" \in ClosingSteps
  BY <1>1, StepTellsOp DEF ClosingSteps, Holding, Steps, StepsOf, Operations
<1>3. PICK s \in Sessions : s = cur
  BY <1>2, AtHandStored
<1>4. Copy(s) \in Row /\ Tracked' = Tracked /\ Copy(s).mux \notin Tracked
  BY <1>1, <1>2, <1>3, AtHandStored
  DEF Tracked, AgentsInv, RunningInv, KilledIsGone
<1>5. CASE UNCHANGED store /\ Goto(UI, "next")
  <2>1. /\ op' = op /\ pc' = "next" /\ cur' = cur /\ todo' = todo
        /\ \A x \in Sessions : Copy(x)' = Copy(x)
    BY <1>1, <1>5, GotoShape
  <2>2. TokensInv'
    BY <1>1, <1>2, <1>3, <1>5, <2>1, ClosingTokens
  <2> QED BY <1>1, <1>2, <1>4, <1>5, <2>1, <2>2, QuietMaps
<1>6. CASE ~(UNCHANGED store /\ Goto(UI, "next"))
  <2> DEFINE closed == ClosedRow(Copy(s))
  <2>1. /\ Save(s, closed)
        /\ op' = op /\ pc' = "artifacts" /\ cur' = cur /\ todo' = todo
        /\ \A x \in Sessions : Copy(x)' = IF x = s THEN closed ELSE Copy(x)
    BY <1>1, <1>3, <1>6, MarkExitedShape
  <2>2. /\ closed # None /\ closed.state = "Exited"
        /\ closed.token = Copy(s).token
    BY <1>4, ClosedRowType, RecordAssumption DEF ClosedRow, Row
  <2> HIDE DEF closed
  <2>3. \A x \in Sessions : store'[x] = IF x = s THEN closed ELSE store[x]
    BY <1>1, <2>1, SaveShape
  <2>4. TokensInv'
    BY <1>1, <1>2, <1>3, <2>1, <2>2, <2>3, ClosingTokens
  <2>5. Mapped
    BY <1>1, <1>2, <1>3, <1>4, <2>1, <2>2, CloseMaps
  <2> QED BY <2>4, <2>5
<1> QED BY <1>5, <1>6

LEMMA SaveArtifactsLife ==
  ASSUME LifeInv, SaveArtifacts
  PROVE  TokensInv' /\ Mapped
<1>1. /\ pc = "artifacts" /\ Goto(UI, "next") /\ TypeOK /\ AgentsInv
      /\ Save(frame[UI].cur, Held(UI)) \/ UNCHANGED store
      /\ UNCHANGED <<live, launched, visible, born, failed>>
  BY DEF LifeInv, AgentsInv, SaveArtifacts, At, pc
<1>2. /\ op' = op /\ cur' = cur /\ todo' = todo /\ pc' = "next"
      /\ \A x \in Sessions : Copy(x)' = Copy(x)
  BY <1>1, GotoShape
<1>3. /\ op # "launch" /\ pc \in ClosingSteps \ {"next"} /\ pc \in Holding
      /\ pc # "persist" /\ pc' \in ClosingSteps
  BY <1>1, <1>2, StepTellsOp
  DEF ClosingSteps, Holding, Steps, StepsOf, Operations
<1>4. PICK s \in Sessions : s = cur
  BY <1>3, AtHandStored
<1>5. \A x \in Sessions :
        store'[x] = IF x = s /\ store'[x] # store[x] THEN Copy(s) ELSE store[x]
  BY <1>1, <1>3, <1>4, AtHandStored, SaveShape
<1>6. TokensInv'
  BY <1>1, <1>2, <1>3, <1>4, <1>5, ClosingTokens
<1>7. Mapped
  BY <1>1, <1>2, <1>3, WriteMaps
<1> QED BY <1>6, <1>7

(* A session of which an agent starts has none so far.                     *)
LEMMA StartMaps ==
  ASSUME LifeInv, NEW s \in Sessions, NEW t \in Muxes,
         NEW talk \in {None} \cup Conversations, StartAgent(t, s, talk),
         UNCHANGED <<store, visible, failed>>, pc = "idle", pc' = "persist",
         cur' = s, todo' = {}, \A x \in Sessions \ {s} : Copy(x)' = None,
         TokenFits(s, Copy(s)'.token),
         IF op' = "launch"
         THEN /\ s \notin born /\ born' = born \cup {s}
              /\ Copy(s)'.token = InitialToken(s)
         ELSE /\ store[s] # None /\ store[s].state = "Exited"
              /\ UNCHANGED born
              /\ TokenMayBe(s, Copy(s)'.token) /\ Copy(s)'.token # Pending,
         op' # "shutdown",
         Provider[s] \in Scanning => talk \in visible \cup {Fixed[s]}
  PROVE  TokensInv' /\ Mapped
<1>1. TypeOK /\ KnownAreBorn /\ AgentsInv
  BY DEF LifeInv, AgentsInv, RunningInv
<1>2. /\ launched[t] = None /\ launched'[t].session = s
      /\ launched'[t].talk = talk /\ launched'[t] # None
      /\ \A x \in Muxes \ {t} : launched'[x] = launched[x]
      /\ Tracked' = Tracked \cup {t} /\ t \notin Tracked
      /\ Tracked \subseteq Muxes
  BY <1>1, AgentIsNew DEF Tracked
<1>3. TokensFit'
  BY DEF LifeInv, TokensInv, TokensFit, TokenFits
<1>4. TalksSeen'
  BY <1>2 DEF LifeInv, TokensInv, TalksSeen
<1>5. ListIsStored'
  BY DEF ListIsStored
<1>6. HeldMayBe'
  BY DEF HeldMayBe, TokenMayBe, Unclaimed, Copy, cur
<1>7. \A x \in Sessions : Stays(x)
  <2> SUFFICES ASSUME NEW x \in Sessions PROVE Stays(x)
    OBVIOUS
  <2>1. store[x] = None => ~(frame[UI].op = "launch" /\ frame[UI].cur = x)
    BY <1>1, LaunchesOnlyAtFirst
  <2>2. op' = "launch" => store[s] = None
    BY <1>1 DEF KnownAreBorn
  <2> QED BY <2>1, <2>2 DEF Stays, LifeOf, TokenOf, op, cur
<1>8. RunningFor(s) = FALSE
  <2>1. CASE op' = "launch"
    BY <1>1, <2>1 DEF RunningFor, KnownAreBorn, TypeOK
  <2>2. CASE op' # "launch"
    BY <1>1, <2>2, RunsByRow DEF RunningHasARow, RunningFor
  <2> QED BY <2>1, <2>2
<1>9. RunningFor(s)' = TRUE
  BY <1>2 DEF RunningFor, Tracked
<1>10. \A x \in Sessions \ {s} : Ran(x)
  <2> SUFFICES ASSUME NEW x \in Sessions \ {s} PROVE Ran(x)
    OBVIOUS
  <2>1. RunningFor(x) <=>
          \E u \in Tracked : launched[u] # None /\ launched[u].session = x
    BY DEF RunningFor, Tracked
  <2>2. RunningFor(x)' <=>
          \E u \in Tracked' : launched'[u] # None /\ launched'[u].session = x
    BY DEF RunningFor, Tracked
  <2>3. RunningFor(x)' <=> RunningFor(x)
    BY <1>2, <2>1, <2>2
  <2> QED BY <2>3 DEF Ran, RunningFor
<1>11. LifeOf(s) \in {"absent", "closed"}
  BY <1>1 DEF LifeOf, KnownAreBorn
<1> QED
  BY <1>3, <1>4, <1>5, <1>6, <1>7, <1>8, <1>9, <1>10, <1>11, MapsToStart
  DEF TokensInv, Mapped

LEMMA LaunchLife ==
  ASSUME LifeInv, NEW s \in Sessions, NEW t \in Muxes, Launch(s, t)
  PROVE  TokensInv' /\ Mapped
<1>1. /\ TypeOK /\ pc = "idle" /\ StartAgent(t, s, Fixed[s])
      /\ Fixed[s] \in {None} \cup Conversations
      /\ s \notin born /\ born' = born \cup {s}
      /\ UNCHANGED <<store, visible, failed>>
  BY ReadyIsIdle, FixedAssumption DEF LifeInv, AgentsInv, Launch, UIReady
<1>2. /\ op' = "launch" /\ pc' = "persist" /\ cur' = s /\ todo' = {}
      /\ \A x \in Sessions \ {s} : Copy(x)' = None
      /\ Copy(s)'.token = InitialToken(s)
  BY <1>1, LaunchShape
<1>3. TokenFits(s, InitialToken(s))
  BY DEF TokenFits, InitialToken
<1> QED BY <1>1, <1>2, <1>3, StartMaps

LEMMA ResumeLife ==
  ASSUME LifeInv, NEW s \in Sessions, NEW t \in Muxes, Resume(s, t)
  PROVE  TokensInv' /\ Mapped
<1>1. /\ TypeOK /\ pc = "idle"
      /\ store[s] # None /\ store[s].state = "Exited"
      /\ UNCHANGED <<store, visible, failed, born>>
  BY ReadyIsIdle DEF LifeInv, AgentsInv, Resume, UIReady, Resumable
<1>2. /\ op' = "resume" /\ pc' = "persist" /\ cur' = s /\ todo' = {}
      /\ \A x \in Sessions \ {s} : Copy(x)' = None
  BY <1>1, ResumeShape
<1>3. PICK r \in Resolve(UI, s, store[s], {}) :
        /\ Copy(s)'.token = r.token /\ r.token \in Conversations
        /\ StartAgent(t, s, r.token)
  BY <1>1, ResumeShape
<1>4. r.token # Pending /\ r.token # None
  BY <1>3, NullAssumption
<1>5. \/ r.token = store[s].token
      \/ store[s].token = Pending /\ Found(s, r.token)
  BY <1>1, <1>3, <1>4, ResolveFinds
<1>6. TokenFits(s, store[s].token)
  BY <1>1 DEF LifeInv, TokensInv, TokensFit
<1>7. TokenFits(s, r.token) /\ TokenMayBe(s, r.token)
  BY <1>5, <1>6, FoundFits, FoundMayBe, OwnMayBe
<1>8. Provider[s] \in Scanning => r.token \in visible
  BY <1>4, <1>7 DEF TokenFits
<1> QED BY <1>1, <1>2, <1>3, <1>4, <1>7, <1>8, StartMaps

(* An agent nobody has a row of is given up for lost from the start: the   *)
(* launch has used up its id, the session to resume is as it was.          *)
LEMMA StartLostLife ==
  ASSUME LifeInv, NEW s \in Sessions, NEW t \in Muxes, StartLost(s, t)
  PROVE  TokensInv' /\ Mapped
<1>1. AgentsInv /\ TypeOK /\ KnownAreBorn
  BY DEF LifeInv, AgentsInv, RunningInv
<1>2. /\ pc = "idle" /\ op = "none" /\ failed' = failed \cup {t}
      /\ UNCHANGED <<store, frame, visible>>
  BY <1>1, StartLostShape DEF StartLost
<1>3. /\ op' = op /\ pc' = pc /\ cur' = cur /\ todo' = todo
      /\ \A x \in Sessions : Copy(x)' = Copy(x)
  BY <1>2, SameShape
<1>4. PICK talk \in {None} \cup Conversations :
        /\ StartAgent(t, s, talk)
        /\ Provider[s] \in Scanning => talk \in visible \cup {Fixed[s]}
  <2>1. CASE StartAgent(t, s, Fixed[s])
    BY <2>1, FixedAssumption
  <2>2. CASE /\ Resumable(s)
             /\ \E r \in Resolve(UI, s, store[s], {}) :
                  r.token \in Conversations /\ StartAgent(t, s, r.token)
    <3>1. PICK r \in Resolve(UI, s, store[s], {}) :
            r.token \in Conversations /\ StartAgent(t, s, r.token)
      BY <2>2
    <3>2. r.token # Pending /\ r.token # None
      BY <3>1, NullAssumption
    <3>3. \/ r.token = store[s].token
          \/ store[s].token = Pending /\ Found(s, r.token)
      BY <1>1, <2>2, <3>1, <3>2, ResolveFinds DEF Resumable
    <3>4. TokenFits(s, store[s].token)
      BY <2>2 DEF LifeInv, TokensInv, TokensFit, Resumable
    <3>5. TokenFits(s, r.token)
      BY <3>3, <3>4, FoundFits
    <3> QED BY <3>1, <3>2, <3>5 DEF TokenFits
  <2> QED BY <1>1, <2>1, <2>2, StartLostShape
<1>5. /\ launched[t] = None /\ launched'[t].session = s
      /\ launched'[t].talk = talk /\ launched'[t] # None
      /\ \A x \in Muxes \ {t} : launched'[x] = launched[x]
      /\ t \notin live \cup failed /\ live' = live \cup {t}
  BY <1>1, <1>4, AgentIsNew
<1>6. Tracked' = Tracked /\ Tracked \subseteq Muxes /\ t \notin Tracked
  BY <1>1, <1>2, <1>5, TrackedAreMuxes DEF Tracked
<1>7. TokensInv'
  <2>1. TokensFit'
    BY <1>2, <1>3 DEF LifeInv, TokensInv, TokensFit, TokenFits
  <2>2. TalksSeen'
    BY <1>2, <1>4, <1>5 DEF LifeInv, TokensInv, TalksSeen
  <2>3. ListIsStored' /\ HeldMayBe'
    BY <1>2, <1>3 DEF ListIsStored, HeldMayBe, Holding, LifeInv, TokensInv
  <2> QED BY <2>1, <2>2, <2>3 DEF TokensInv
<1>8. \A x \in Sessions : Ran(x)
  <2> SUFFICES ASSUME NEW x \in Sessions PROVE Ran(x)
    OBVIOUS
  <2>1. RunningFor(x) <=>
          \E u \in Tracked : launched[u] # None /\ launched[u].session = x
    BY DEF RunningFor, Tracked
  <2>2. RunningFor(x)' <=>
          \E u \in Tracked' : launched'[u] # None /\ launched'[u].session = x
    BY DEF RunningFor, Tracked
  <2>3. RunningFor(x)' <=> RunningFor(x)
    BY <1>5, <1>6, <2>1, <2>2
  <2> QED BY <2>3 DEF Ran, RunningFor
<1>9. ~(frame[UI].op = "launch") /\ ~(frame'[UI].op = "launch")
  BY <1>2 DEF op
<1>10. \A x \in Sessions : (x \in born' <=> x \in born) => Stays(x)
  BY <1>2, <1>9 DEF Stays, LifeOf, TokenOf
<1>11. CASE UNCHANGED born
  BY <1>7, <1>8, <1>10, <1>11, MapsToStutter DEF Mapped
<1>12. CASE s \notin born /\ born' = born \cup {s}
  <2>1. store[s] = None
    BY <1>1, <1>12 DEF KnownAreBorn
  <2>2. LifeOf(s)' = "gone" /\ TokenOf(s)' = TokenOf(s)
    BY <1>2, <1>9, <1>12, <2>1 DEF LifeOf, TokenOf
  <2>3. LifeOf(s) = "absent"
    BY <1>12, <2>1 DEF LifeOf
  <2>4. RunningFor(s) = FALSE
    BY <1>1, <1>12 DEF RunningFor, KnownAreBorn, TypeOK
  <2>5. RunningFor(s)' = FALSE
    BY <1>8, <2>4 DEF Ran
  <2>6. \A x \in Sessions \ {s} : Stays(x)
    BY <1>10, <1>12
  <2> QED
    BY <1>7, <1>8, <2>2, <2>3, <2>5, <2>6, MapsToAbandoned DEF Mapped
<1> QED BY <1>1, <1>11, <1>12, StartLostShape

(* No other row holds the conversation a launch names itself.              *)
LEMMA InitialIsFree ==
  ASSUME LifeInv, NEW s \in Sessions, InitialToken(s) # Pending
  PROVE  Unclaimed(s, InitialToken(s))
<1>1. /\ Provider[s] \notin Scanning /\ InitialToken(s) = Fixed[s]
      /\ Fixed[s] # None
  BY FixedAssumption DEF InitialToken
<1>2. Fixed[s] \notin visible
  BY <1>1 DEF LifeInv, TokensInv, TalksSeen
<1>3. ASSUME NEW x \in Sessions \ {s}, store[x] # None
      PROVE  store[x].token # Fixed[s]
  <2>1. TokenFits(x, store[x].token)
    BY <1>3 DEF LifeInv, TokensInv, TokensFit
  <2>2. Fixed[x] # Fixed[s]
    BY <1>1, <1>3, FixedAssumption
  <2> QED BY <1>1, <1>2, <2>1, <2>2 DEF TokenFits
<1> QED BY <1>1, <1>3 DEF Unclaimed

LEMMA FirstWriteLife ==
  ASSUME LifeInv, pc = "persist", NEW s \in Sessions, s = cur,
         Save(s, Copy(s)), Goto(UI, "attach"),
         UNCHANGED <<live, launched, visible, born, failed>>
  PROVE  TokensInv' /\ Mapped
<1>1. TypeOK /\ pc \in Holding /\ op \in {"launch", "resume"}
  BY StepTellsOp
  DEF LifeInv, AgentsInv, Holding, Steps, StepsOf, Operations
<1>2. Copy(s) \in Row /\ Copy(s) # None /\ Copy(s).token \in Tokens
  BY <1>1, AtHand, RecordAssumption DEF Row
<1>3. \A x \in Sessions : store'[x] = IF x = s THEN Copy(s) ELSE store[x]
  BY <1>1, SaveShape
<1>4. /\ op' = op /\ pc' = "attach" /\ cur' = s /\ todo' = todo
      /\ \A x \in Sessions : Copy(x)' = Copy(x)
  BY <1>1, GotoShape
<1>5. Copy(s).state = "Live" /\ s \in born
  BY DEF LifeInv, AgentsInv, MemoryInv, StartsOne
<1>6. TokenFits(s, Copy(s).token) /\ s \notin todo
  BY <1>1, <1>2 DEF LifeInv, TokensInv, TokensFit, ListIsStored
<1>7. TokensInv'
  BY <1>1, <1>3, <1>4, <1>6, HoldTokens
<1>8. \A x \in Sessions \ {s} : Stays(x)
  BY <1>3, <1>4 DEF Stays, LifeOf, TokenOf, op, cur
<1>9. LifeOf(s)' = "open" /\ TokenOf(s)' = Copy(s).token
  BY <1>2, <1>3, <1>5 DEF LifeOf, TokenOf
<1>10. \A x \in Sessions : Ran(x)
  BY AgentsStay
<1>11. CASE op = "launch"
  <2>1. store[s] = None
    BY <1>11 DEF LifeInv, AgentsInv, MemoryInv, StartsOne
  <2>2. LifeOf(s) = "absent"
    BY <1>11, <2>1 DEF LifeOf, op, cur
  <2>3. Copy(s).token = InitialToken(s)
    BY <1>1, <1>11 DEF LifeInv, TokensInv, HeldMayBe
  <2>4. Copy(s).token = Pending \/ Unclaimed(s, Copy(s).token)
    BY <2>3, InitialIsFree
  <2> QED
    BY <1>2, <1>7, <1>8, <1>9, <1>10, <2>2, <2>4, MapsToOpened DEF Mapped
<1>12. CASE op = "resume"
  <2>1. store[s] # None /\ store[s].state = "Exited"
    BY <1>12 DEF LifeInv, AgentsInv, MemoryInv, StartsOne
  <2>2. LifeOf(s) = "closed"
    BY <2>1 DEF LifeOf
  <2>3. TokenMayBe(s, Copy(s).token) /\ Copy(s).token # Pending
    BY <1>1, <1>12 DEF LifeInv, TokensInv, HeldMayBe
  <2> QED
    BY <1>2, <1>7, <1>8, <1>9, <1>10, <2>1, <2>2, <2>3, MapsToReopened
    DEF Mapped
<1> QED BY <1>1, <1>11, <1>12

(* A start given up: its agent is gone, or given up for lost, and a launch *)
(* has used up its id.                                                     *)
LEMMA GivenUpMaps ==
  ASSUME LifeInv, AgentsInv', pc = "persist", NEW s \in Sessions, s = cur,
         op' = "none", pc' = "idle", UNCHANGED <<store, launched, born>>,
         Tracked' \subseteq Tracked, Tracked \subseteq Tracked' \cup {Copy(s).mux}
  PROVE  Mapped
<1>1. AgentsInv /\ TypeOK /\ RowsNameTheirAgent /\ pc \in Holding
  BY DEF LifeInv, AgentsInv, Holding, Steps, StepsOf, Operations
<1>2. Copy(s) # None /\ Copy(s).mux # None
  BY <1>1, UIFrame, AtHand, RecordAssumption DEF FrameOK, pc, cur, Copy
<1>3. launched[Copy(s).mux].session = s
  BY <1>1, <1>2, CopyOfAgent
<1>4. SameSessions
  BY DEF SameSessions
<1>5. \A x \in Sessions \ {s} : Ran(x)
  BY <1>1, <1>3, <1>4, OthersRun
<1>6. \A x \in Sessions \ {s} : Stays(x)
  BY DEF Stays, LifeOf, TokenOf, op, cur
<1>7. op \in {"launch", "resume"}
  BY <1>1, StepTellsOp
<1>8. CASE op = "launch"
  <2>1. store[s] = None /\ s \in born
    BY <1>8 DEF LifeInv, AgentsInv, MemoryInv, StartsOne
  <2>2. LifeOf(s) = "absent" /\ LifeOf(s)' = "gone" /\ TokenOf(s)' = TokenOf(s)
    BY <1>8, <2>1 DEF LifeOf, TokenOf, op, cur
  <2>3. AgentsInv' => RunningHasARow'
    BY RunsByRow, PTL
  <2>4. RunningFor(s)' = FALSE
    BY <2>1, <2>3 DEF RunningHasARow, RunningFor
  <2> QED BY <1>5, <1>6, <2>2, <2>4, MapsToAbandoned DEF Mapped
<1>9. CASE op = "resume"
  <2>1. store[s] # None
    BY <1>9 DEF LifeInv, AgentsInv, MemoryInv, StartsOne
  <2>2. Stays(s)
    BY <2>1 DEF Stays, LifeOf, TokenOf
  <2> QED BY <1>1, <1>4, <1>6, <2>2, AgentMayStop
<1> QED BY <1>7, <1>8, <1>9

LEMMA LaunchPersistLife ==
  ASSUME LifeInv, AgentsInv', LaunchPersist
  PROVE  TokensInv' /\ Mapped
<1>1. /\ AgentsInv /\ TypeOK /\ pc = "persist" /\ pc \in Holding
      /\ UNCHANGED <<launched, visible, born>>
  BY DEF LifeInv, AgentsInv, LaunchPersist, At, pc, Holding, Steps, StepsOf,
         Operations
<1>2. PICK s \in Sessions : s = cur
  BY <1>1, AtHand
<1>3. \/ /\ Save(s, Copy(s)) /\ Goto(UI, "attach")
         /\ UNCHANGED <<live, failed>>
      \/ /\ Finish(UI) /\ UNCHANGED store
         /\ \/ live' = live \ {Copy(s).mux} /\ UNCHANGED failed
            \/ failed' = failed \cup {Copy(s).mux} /\ UNCHANGED live
  BY <1>2 DEF LaunchPersist, cur, Copy, Held
<1>4. CASE Finish(UI) /\ UNCHANGED store
           /\ (\/ live' = live \ {Copy(s).mux} /\ UNCHANGED failed
               \/ failed' = failed \cup {Copy(s).mux} /\ UNCHANGED live)
  <2>1. op' = "none" /\ pc' = "idle" /\ \A x \in Sessions : Copy(x)' = None
    BY <1>1, <1>4, FinishShape
  <2>2. Tracked' = Tracked \ {Copy(s).mux} /\ pc' \notin Holding
    BY <1>4, <2>1 DEF Tracked, Holding
  <2>3. TokensInv'
    BY <1>1, <1>4, <2>1, <2>2, LetGoTokens
  <2> QED BY <1>1, <1>2, <1>4, <2>1, <2>2, <2>3, GivenUpMaps
<1> QED BY <1>1, <1>2, <1>3, <1>4, FirstWriteLife

LEMMA CrashLife ==
  ASSUME LifeInv, AgentsInv', Crash
  PROVE  TokensInv' /\ Mapped
<1>1. /\ AgentsInv /\ TypeOK /\ UI \in Threads
      /\ frame' = [p \in Threads |-> IdleFrame]
      /\ UNCHANGED <<store, launched, visible, born>>
  BY UIFrame DEF LifeInv, AgentsInv, Crash
<1>2. /\ op' = "none" /\ pc' = "idle" /\ \A x \in Sessions : Copy(x)' = None
  BY <1>1 DEF IdleFrame, NoRows, op, pc, Copy
<1>3. pc' \notin Holding
  BY <1>2 DEF Holding
<1>4. TokensInv'
  BY <1>1, <1>2, <1>3, LetGoTokens
<1>5. Tracked' = Tracked \ (IF pc = "persist" THEN {Copy(cur).mux} ELSE {})
  BY <1>1, CrashAgents
<1>6. CASE pc = "persist"
  <2>1. PICK s \in Sessions : s = cur
    BY <1>1, <1>6, AtHand DEF Holding, Steps, StepsOf, Operations
  <2> QED BY <1>1, <1>2, <1>4, <1>5, <1>6, <2>1, GivenUpMaps
<1>7. CASE pc # "persist"
  BY <1>1, <1>2, <1>4, <1>5, <1>7, QuietMaps
<1> QED BY <1>6, <1>7

LEMMA LastWriteLife ==
  ASSUME LifeInv, Attach \/ RenameSave
  PROVE  TokensInv' /\ Mapped
<1>1. /\ TypeOK /\ pc \in {"attach", "save"} /\ Finish(UI)
      /\ Save(frame[UI].cur, Held(UI)) \/ UNCHANGED store
      /\ UNCHANGED <<live, launched, visible, born, failed>>
  BY DEF LifeInv, AgentsInv, Attach, RenameSave, At, pc
<1>2. pc \in Holding /\ pc # "persist"
  BY <1>1 DEF Holding, Steps, StepsOf, Operations
<1>3. /\ op' = "none" /\ pc' = "idle" /\ \A x \in Sessions : Copy(x)' = None
      /\ "idle" \notin Holding
  BY <1>1, FinishShape DEF Holding
<1>4. Save(cur, Copy(cur)) \/ UNCHANGED store
  BY <1>1, <1>2, AtHandStored
<1>5. \A x \in Sessions :
        store'[x] = store[x] \/ (x = cur /\ store'[x].token = Copy(x).token)
  BY <1>1, <1>2, <1>4, AtHandStored, SaveShape
<1>6. TokensInv'
  BY <1>1, <1>2, <1>3, <1>5, LetGoTokens
<1>7. Mapped
  BY <1>1, <1>2, <1>3, WriteMaps
<1> QED BY <1>6, <1>7

LEMMA DeleteCommitLife ==
  ASSUME LifeInv, DeleteCommit
  PROVE  TokensInv' /\ Mapped
<1>1. /\ AgentsInv /\ TypeOK /\ pc = "commit" /\ pc # "persist" /\ Finish(UI)
      /\ \/ store' = [s \in Sessions |-> IF s \in todo THEN None ELSE store[s]]
         \/ UNCHANGED store
      /\ UNCHANGED <<live, launched, visible, born, failed>>
  BY DEF LifeInv, AgentsInv, DeleteCommit, At, pc, todo
<1>2. /\ op' = "none" /\ pc' = "idle" /\ \A x \in Sessions : Copy(x)' = None
      /\ "idle" \notin Holding
  BY <1>1, FinishShape DEF Holding
<1>3. todo \in SUBSET Sessions
  BY <1>1, UIFrame
<1>4. TokensInv'
  BY <1>1, <1>2, LetGoTokens
<1>5. CASE UNCHANGED store
  BY <1>1, <1>2, <1>4, <1>5, QuietMaps DEF Tracked
<1>6. CASE store' = [s \in Sessions |-> IF s \in todo THEN None ELSE store[s]]
  <2>1. PICK gone \in SUBSET Sessions : gone = todo
    BY <1>3
  <2>2. \A s \in Sessions : store'[s] = IF s \in gone THEN None ELSE store[s]
    BY <1>6, <2>1
  <2>3. \A s \in Sessions \ gone : Stays(s)
    BY <1>1, <1>2, <2>2, RowsStay
  <2>4. \A s \in gone : /\ store[s] # None /\ store[s].state = "Exited"
                        /\ s \in born
    BY <1>1, <2>1
    DEF AgentsInv, MemoryInv, RunningInv, ClosedOnesDeleted, KnownAreBorn
  <2>5. \A s \in gone : RunningFor(s) = FALSE
    BY <1>1, <2>4, RunsByRow DEF RunningHasARow, RunningFor
  <2>6. \A s \in gone : /\ LifeOf(s) = "closed" /\ LifeOf(s)' = "gone"
                        /\ TokenOf(s)' = Pending
    BY <1>1, <1>2, <2>2, <2>4 DEF LifeOf, TokenOf, op
  <2> QED
    BY <1>1, <1>4, <2>3, <2>5, <2>6, AgentsStay, MapsToDeleted DEF Mapped
<1> QED BY <1>1, <1>5, <1>6

-----------------------------------------------------------------------------
(* The steps of a refresh                                                  *)

LEMMA RefreshStartLife ==
  ASSUME LifeInv, RefreshStart(UI)
  PROVE  TokensInv' /\ Mapped
<1>1. AgentsInv /\ TypeOK
  BY DEF LifeInv, AgentsInv
<1>2. /\ pc = "idle" /\ op' = "refresh" /\ pc' = "resolve"
      /\ todo' \subseteq Sessions /\ \A s \in Sessions : Copy(s)' = store[s]
      /\ UNCHANGED <<store, live, launched, visible, born, failed>>
  BY <1>1, RefreshStartShape, ReadyIsIdle
<1>3. TokensFit' /\ TalksSeen'
  BY <1>2, FitsKept DEF LifeInv, TokensInv, TokensFit
<1>4. ListIsStored' /\ HeldMayBe'
  BY <1>2 DEF ListIsStored, HeldMayBe, Holding
<1> QED BY <1>1, <1>2, <1>3, <1>4, QuietMaps DEF TokensInv, Tracked

LEMMA RefreshResolveLife ==
  ASSUME LifeInv, NEW s \in Sessions, RefreshResolve(UI, s)
  PROVE  TokensInv' /\ Mapped
<1>1. /\ AgentsInv /\ TypeOK
      /\ UNCHANGED <<store, live, launched, visible, born, failed>>
  BY DEF LifeInv, AgentsInv, RefreshResolve
<1>2. /\ pc = "resolve" /\ op = "refresh" /\ op' = "refresh" /\ s \in todo
      /\ todo' = todo \ {s} /\ Copy(s) \in Row
  BY <1>1, RefreshResolveShape
<1>3. PICK r \in ResolvePending(UI, s, Copy(s), frame[UI].claimed) :
        /\ IF r.token = Pending THEN pc' = "resolve"
           ELSE pc' = "refreshToken" /\ cur' = s
        /\ \A x \in Sessions :
             Copy(x)' = IF x = s THEN [Copy(s) EXCEPT !.token = r.token]
                        ELSE Copy(x)
  BY <1>1, RefreshResolveShape
<1>4. Copy(s)'.token = r.token
  <2>1. Copy(s)' = [Copy(s) EXCEPT !.token = r.token]
    BY <1>3
  <2> QED BY <1>2, <2>1 DEF Row
<1>5. todo \subseteq Sessions /\ \A x \in todo : Copy(x) = store[x]
  BY <1>1, <1>2, UIFrame DEF LifeInv, TokensInv, ListIsStored
<1>6. \/ r.token = store[s].token
      \/ store[s].token = Pending /\ Found(s, r.token)
  BY <1>1, <1>2, <1>5, ResolvePendingFinds
<1>7. TokenFits(s, r.token) /\ TokenMayBe(s, r.token)
  <2>1. TokenFits(s, store[s].token)
    BY <1>2, <1>5, RecordAssumption DEF LifeInv, TokensInv, TokensFit
  <2> QED BY <1>6, <2>1, FoundFits, FoundMayBe, OwnMayBe
<1>8. CASE r.token = Pending
  <2>1. pc' = "resolve" /\ pc' \notin Holding
    BY <1>3, <1>8 DEF Holding
  <2>2. TokensFit' /\ TalksSeen'
    <3>1. \A x \in Sessions : Copy(x)' # None => TokenFits(x, Copy(x)'.token)
      BY <1>3, <1>4, <1>7 DEF LifeInv, TokensInv, TokensFit
    <3> QED BY <1>1, <3>1, FitsKept
  <2>3. ListIsStored' /\ HeldMayBe'
    BY <1>1, <1>2, <1>3, <1>5, <2>1 DEF ListIsStored, HeldMayBe
  <2> QED BY <1>1, <1>2, <2>1, <2>2, <2>3, QuietMaps DEF TokensInv, Tracked
<1>9. CASE r.token # Pending
  <2>1. pc' = "refreshToken" /\ cur' = s
    BY <1>3, <1>9
  <2>2. \A x \in todo' : Copy(x)' = store'[x]
    BY <1>1, <1>2, <1>3, <1>5
  <2>3. TokensInv'
    BY <1>1, <1>2, <1>3, <1>4, <1>7, <2>1, <2>2, HoldTokens
  <2> QED BY <1>1, <1>2, <2>1, <2>3, QuietMaps DEF Tracked
<1> QED BY <1>8, <1>9

LEMMA RefreshTokenLife ==
  ASSUME LifeInv, RefreshToken(UI)
  PROVE  TokensInv' /\ Mapped
<1>1. /\ AgentsInv /\ TypeOK
      /\ UNCHANGED <<live, launched, visible, born, failed>>
  BY DEF LifeInv, AgentsInv, RefreshToken
<1>2. /\ pc = "refreshToken" /\ op' = op /\ pc' = "resolve" /\ todo' = todo
      /\ \A x \in Sessions : Copy(x)' = Copy(x)
      /\ Save(frame[UI].cur, Held(UI)) \/ UNCHANGED store
  BY <1>1, RefreshTokenShape
<1>3. /\ pc \in Holding /\ pc # "persist" /\ pc' \notin Holding
      /\ op = "refresh"
  BY <1>1, <1>2, StepTellsOp DEF Holding, Steps, StepsOf, Operations
<1>4. Save(cur, Copy(cur)) \/ UNCHANGED store
  BY <1>2, <1>3, AtHandStored
<1>5. \A x \in Sessions :
        store'[x] = store[x] \/ (x = cur /\ store'[x] = Copy(x))
  BY <1>1, <1>3, <1>4, AtHandStored, SaveShape
<1>6. TokensFit' /\ TalksSeen'
  <2>1. \A x \in Sessions : Copy(x)' # None => TokenFits(x, Copy(x)'.token)
    BY <1>2 DEF LifeInv, TokensInv, TokensFit
  <2> QED BY <1>1, <1>3, <1>5, <2>1, FitsKept
<1>7. todo \subseteq Sessions /\ \A x \in todo : Copy(x) = store[x]
  BY <1>1, <1>2, UIFrame DEF LifeInv, TokensInv, ListIsStored
<1>8. ListIsStored' /\ HeldMayBe'
  BY <1>2, <1>3, <1>5, <1>7 DEF ListIsStored, HeldMayBe
<1>9. Mapped
  BY <1>1, <1>2, <1>3, WriteMaps
<1> QED BY <1>6, <1>8, <1>9 DEF TokensInv

LEMMA RefreshSyncLife ==
  ASSUME LifeInv, RefreshSync(UI)
  PROVE  TokensInv' /\ Mapped
<1>1. /\ AgentsInv /\ TypeOK /\ pc = "resolve" /\ pc # "persist"
      /\ UNCHANGED <<store, live, launched, visible, born, failed>>
  BY RefreshSyncShape DEF LifeInv, AgentsInv
<1>2. CASE Finish(UI)
  BY <1>1, <1>2, DoneLife
<1>3. CASE ~Finish(UI)
  <2>1. /\ op' = "refresh" /\ pc' = "signals"
        /\ \A x \in Sessions :
             Copy(x)' = IF x \in Watched(UI) THEN Copy(x) ELSE None
    BY <1>1, <1>3, RefreshSyncShape
  <2>2. pc' \notin Holding
    BY <2>1 DEF Holding
  <2> QED BY <1>1, <2>1, <2>2, LetGoTokens, QuietMaps DEF Tracked
<1> QED BY <1>2, <1>3

LEMMA RefreshSkipLife ==
  ASSUME LifeInv, NEW s \in Sessions, pc = "signals", pc' = "signals",
         op' = op, \A x \in Sessions : Copy(x)' \in {None, Copy(x)},
         UNCHANGED <<store, live, launched, visible, born, failed>>
  PROVE  TokensInv' /\ Mapped
<1>1. AgentsInv /\ TypeOK /\ op = "refresh" /\ pc' \notin Holding
  BY StepTellsOp DEF LifeInv, AgentsInv, Holding
<1> QED BY <1>1, LetGoTokens, QuietMaps DEF Tracked

LEMMA RefreshQuietLife ==
  ASSUME LifeInv, NEW s \in Sessions, RefreshQuiet(UI, s)
  PROVE  TokensInv' /\ Mapped
<1>1. /\ AgentsInv /\ TypeOK /\ pc = "signals"
      /\ UNCHANGED <<store, live, launched, visible, born, failed>>
      /\ frame' = [frame EXCEPT ![UI].todo = @ \ {s}, ![UI].list[s] = None]
  BY DEF LifeInv, AgentsInv, RefreshQuiet, At, pc
<1> QED BY <1>1, RefreshSkipShape, RefreshSkipLife

LEMMA RefreshSignalLife ==
  ASSUME LifeInv, NEW s \in Sessions, RefreshSignal(UI, s)
  PROVE  TokensInv' /\ Mapped
<1>1. AgentsInv /\ TypeOK
  BY DEF LifeInv, AgentsInv
<1>2. /\ pc = "signals" /\ op' = op /\ todo' = todo \ {s}
      /\ UNCHANGED <<store, live, launched, born, failed, visible>>
  BY <1>1, RefreshSignalShape
<1>3. CASE pc' = "signals"
  <2>1. \A x \in Sessions : Copy(x)' = IF x = s THEN None ELSE Copy(x)
    BY <1>1, <1>3, RefreshSignalShape
  <2> QED BY <1>2, <1>3, <2>1, RefreshSkipLife
<1>4. CASE pc' # "signals"
  <2>1. /\ pc' = "signalWrite" /\ cur' = s /\ s \in todo
        /\ \A x \in Sessions :
             Copy(x)' = IF x # s THEN Copy(x)
                        ELSE IF store[s] = None THEN Copy(s) ELSE store[s]
    BY <1>1, <1>4, RefreshSignalShape
  <2>2. store[s] # None
    <3>1. Copy(s) # None
      BY <1>1, <1>2, <2>1, UIFrame, StepTellsOp DEF FrameOK, op, todo, Copy
    <3> QED BY <1>1, <1>2, <3>1 DEF AgentsInv, MemoryInv, MemoryAgrees
  <2>3. op = "refresh" /\ pc # "persist"
    BY <1>1, <1>2, StepTellsOp
  <2>4. TokenFits(s, store[s].token)
    BY <2>2 DEF LifeInv, TokensInv, TokensFit
  <2>5. TokensInv'
    BY <1>2, <2>1, <2>2, <2>3, <2>4, HoldTokens
  <2> QED BY <1>1, <1>2, <2>3, <2>5, QuietMaps DEF Tracked
<1> QED BY <1>3, <1>4

(* An exit is reported of a session only when its agent is gone.           *)
LEMMA RefreshWriteLife ==
  ASSUME LifeInv, RefreshWrite(UI)
  PROVE  TokensInv' /\ Mapped
<1>1. AgentsInv /\ TypeOK
  BY DEF LifeInv, AgentsInv
<1>2. /\ pc = "signalWrite" /\ cur \in Sessions /\ Copy(cur) \in Row
      /\ op' = op /\ pc' = "signals"
      /\ \A x \in Sessions : Copy(x)' = IF x = cur THEN None ELSE Copy(x)
      /\ UNCHANGED <<live, launched, born, failed, visible>>
  BY <1>1, RefreshWriteShape
<1>3. /\ pc \in Holding /\ pc # "persist" /\ pc' \notin Holding
      /\ op = "refresh"
  BY <1>1, <1>2, StepTellsOp DEF Holding, Steps, StepsOf, Operations
<1>4. Copy(cur) # None /\ Copy(cur) = Held(UI) /\ cur = frame[UI].cur
  BY <1>3, AtHandStored
<1>5. CASE Save(cur, Copy(cur)) \/ UNCHANGED store
  <2>1. \A x \in Sessions :
          store'[x] = store[x] \/ (x = cur /\ store'[x] = Copy(x))
    BY <1>1, <1>2, <1>5, SaveShape
  <2>2. TokensInv'
    BY <1>2, <1>3, <2>1, LetGoTokens
  <2>3. Mapped
    BY <1>2, <1>3, <1>4, <1>5, WriteMaps
  <2> QED BY <2>2, <2>3
<1>6. CASE ~(Save(cur, Copy(cur)) \/ UNCHANGED store)
  <2> DEFINE row == [Copy(cur) EXCEPT !.state = "Exited"]
  <2>1. Save(cur, row) /\ cur \notin alive
    BY <1>1, <1>6, RefreshWriteShape
  <2>2. /\ row # None /\ row.state = "Exited"
        /\ row.token = Copy(cur).token
    <3>1. row \in Row
      BY <1>2 DEF Row
    <3> QED BY <1>2, <3>1, RecordAssumption DEF Row
  <2>3. Copy(cur).mux \notin Tracked
    BY <1>1, <1>2, <1>4, <2>1
    DEF AgentsInv, MemoryInv, ReportedAreGone, Tracked
  <2> HIDE DEF row
  <2>4. \A x \in Sessions : store'[x] = IF x = cur THEN row ELSE store[x]
    BY <1>1, <1>2, <2>1, SaveShape
  <2>5. TokensInv'
    BY <1>2, <1>3, <2>2, <2>4, LetGoTokens
  <2>6. Mapped
    BY <1>2, <1>3, <2>1, <2>2, <2>3, CloseMaps
  <2> QED BY <2>5, <2>6
<1> QED BY <1>5, <1>6

-----------------------------------------------------------------------------
(* The agents and the user outside Hydra                                   *)

LEMMA SeenTokens ==
  ASSUME LifeInv, UNCHANGED <<store, frame>>, visible \subseteq visible'
  PROVE  TokensFit' /\ ListIsStored' /\ HeldMayBe'
<1>1. \A s \in Sessions : \A k : TokenFits(s, k) => TokenFits(s, k)'
  BY DEF TokenFits
<1>2. TokensFit'
  BY <1>1, SameShape DEF LifeInv, TokensInv, TokensFit, TokenFits
<1>3. HeldMayBe'
  BY
  DEF LifeInv, TokensInv, HeldMayBe, TokenMayBe, Unclaimed, pc, op, cur, Copy
<1>4. ListIsStored'
  BY DEF LifeInv, TokensInv, ListIsStored, pc, op, cur, todo, Copy
<1> QED BY <1>2, <1>3, <1>4

LEMMA AgentEndsLife ==
  ASSUME LifeInv, NEW t \in Muxes, AgentEnds(t)
  PROVE  TokensInv' /\ Mapped
<1>1. /\ AgentsInv /\ live' = live \ {t}
      /\ UNCHANGED <<store, launched, visible, frame, born, failed>>
  BY DEF LifeInv, AgentEnds
<1>2. SameSessions /\ \A s \in Sessions : Stays(s)
  BY <1>1 DEF SameSessions, Stays, LifeOf, TokenOf
<1>3. Tracked' \subseteq Tracked /\ Tracked \subseteq Tracked' \cup {t}
  BY <1>1 DEF Tracked
<1> QED BY <1>1, <1>2, <1>3, SameTokens, AgentMayStop

(* What turns up was named by no session but, perhaps, the agent's own.    *)
LEMMA TalkAppearsLife ==
  ASSUME LifeInv, NEW t \in Muxes, NEW c \in Conversations, TalkAppears(t, c)
  PROVE  TokensInv' /\ Mapped
<1>1. /\ AgentsInv /\ TypeOK /\ launched[t] # None /\ launched[t] \in Agent
      /\ visible' = visible \cup {c} /\ c \notin visible
      /\ launched' = [launched EXCEPT ![t].talk = c]
      /\ UNCHANGED <<store, live, frame, born, failed>>
  BY DEF LifeInv, AgentsInv, TalkAppears, TypeOK
<1>2. \A u \in Muxes :
        launched'[u] = IF u = t THEN [launched[t] EXCEPT !.talk = c]
                       ELSE launched[u]
  BY <1>1 DEF TypeOK
<1>3. /\ [launched[t] EXCEPT !.talk = c].session = launched[t].session
      /\ [launched[t] EXCEPT !.talk = c].talk = c
      /\ [launched[t] EXCEPT !.talk = c] # None
  <2>1. [launched[t] EXCEPT !.talk = c] \in Agent
    BY <1>1 DEF Agent
  <2> QED BY <1>1, <2>1, RecordAssumption DEF Agent
<1>4. SameSessions /\ \A s \in Sessions : Stays(s)
  BY <1>1, <1>2, <1>3 DEF SameSessions, Stays, LifeOf, TokenOf
<1>5. Tracked' = Tracked
  BY <1>1 DEF Tracked
<1>6. \A s \in Sessions : Fixed[s] = c => Provider[s] \in Scanning
  <2> SUFFICES ASSUME NEW s \in Sessions, Fixed[s] = c
               PROVE  Provider[s] \in Scanning
    OBVIOUS
  <2>1. c # None
    BY NullAssumption
  <2>2. launched[t].talk = c /\ Provider[launched[t].session] \in Scanning
    BY DEF TalkAppears, Unnamed
  <2>3. c = Fixed[launched[t].session]
    BY <1>1, <2>1, <2>2 DEF LifeInv, TokensInv, TalksSeen
  <2>4. launched[t].session = s
    BY <1>1, <2>1, <2>3, FixedAssumption DEF Agent
  <2> QED BY <2>2, <2>4
<1>7. TalksSeen'
  BY <1>1, <1>2, <1>3, <1>6 DEF LifeInv, TokensInv, TalksSeen
<1> QED
  BY <1>1, <1>4, <1>5, <1>7, SeenTokens, AgentMayStop DEF TokensInv

LEMMA OutsideTalkLife ==
  ASSUME LifeInv, NEW c \in Conversations, OutsideTalk(c)
  PROVE  TokensInv' /\ Mapped
<1>1. /\ AgentsInv /\ visible' = visible \cup {c} /\ Unnamed(c)
      /\ UNCHANGED <<store, launched, live, frame, born, failed>>
  BY DEF LifeInv, OutsideTalk
<1>2. SameSessions /\ \A s \in Sessions : Stays(s)
  BY <1>1 DEF SameSessions, Stays, LifeOf, TokenOf
<1>3. Tracked' = Tracked
  BY <1>1 DEF Tracked
<1>4. TalksSeen'
  BY <1>1 DEF LifeInv, TokensInv, TalksSeen, Unnamed
<1> QED
  BY <1>1, <1>2, <1>3, <1>4, SeenTokens, AgentMayStop DEF TokensInv

-----------------------------------------------------------------------------
(* The theorems about the sessions                                         *)

LEMMA OneThread ==
  ASSUME Workers = {}
  PROVE  Threads = {UI}
BY DEF Threads

LEMMA InitLife ==
  ASSUME Workers = {}, Init
  PROVE  LifeInv /\ Lifecycle!LifeInit
<1>1. AgentsInv /\ TypeOK
  BY InitAgents DEF AllAgentsInv, AgentsInv
<1>2. frame[UI] = IdleFrame
  BY <1>1, UIFrame DEF Init
<1>3. /\ op = "none" /\ pc = "idle"
      /\ \A s \in Sessions : Copy(s) = None /\ store[s] = None
  <2>1. \A s \in Sessions : store[s] = None
    BY DEF Init, NoRows
  <2> QED BY <1>2, <2>1 DEF IdleFrame, NoRows, op, pc, Copy
<1>4. TokensFit /\ ListIsStored /\ HeldMayBe
  BY <1>3 DEF TokensFit, ListIsStored, HeldMayBe, Holding
<1>5. TalksSeen
  BY DEF Init, TalksSeen
<1>6. \A s \in Sessions : /\ LifeOf(s) = "absent" /\ TokenOf(s) = Pending
                          /\ RunningFor(s) = FALSE
  BY <1>3 DEF Init, LifeOf, TokenOf, RunningFor
<1>7. Lifecycle!LifeInit
  BY <1>6 DEF Lifecycle!LifeInit
<1> QED BY <1>1, <1>4, <1>5, <1>7 DEF LifeInv, TokensInv

LEMMA StepLife ==
  ASSUME LifeInv, [Next]_vars
  PROVE  LifeInv' /\ Mapped
<1>1. Workers = {} /\ AgentsInv'
  <2>1. AllAgentsInv /\ WorkersUpToDate
    BY DEF LifeInv, AllAgentsInv, WorkersReport, WorkersUpToDate
  <2> QED BY <2>1, StepAgents DEF LifeInv, AllAgentsInv
<1>2. CASE UserCall
  BY <1>1, <1>2, ResumeRefusedLife, TerminateLife, RenameLife, LaunchLife,
     ResumeLife, StartLostLife, DeleteLife, ShutdownStartLife
  DEF UserCall, LifeInv
<1>3. CASE UIStep
  <2>1. CASE TerminateDone \/ CleanupDone \/ ShutdownDone
    <3>1. /\ Finish(UI) /\ pc # "persist"
          /\ UNCHANGED <<store, live, launched, visible, born, failed>>
      BY <2>1 DEF TerminateDone, CleanupDone, ShutdownDone, At, pc
    <3> QED BY <1>1, <3>1, DoneLife DEF LifeInv
  <2>2. CASE CloseStep
    BY <1>1, <2>1, <2>2, SaveTokenLife, KillLife, RetryLife, MarkExitedLife,
       SaveArtifactsLife, CleanupNextLife, ShutdownNextLife
    DEF CloseStep, LifeInv
  <2>3. CASE LaunchPersist \/ Attach \/ RenameSave \/ DeleteCommit
    BY <1>1, <2>3, LaunchPersistLife, LastWriteLife, DeleteCommitLife
    DEF LifeInv
  <2> QED BY <1>3, <2>2, <2>3 DEF UIStep
<1>4. CASE Environment
  BY <1>1, <1>4, AgentEndsLife, TalkAppearsLife, OutsideTalkLife
  DEF Environment, LifeInv
<1>5. CASE \E p \in Threads : RefreshStart(p) \/ RefreshStep(p)
  <2>1. RefreshStart(UI) \/ RefreshStep(UI)
    BY <1>1, <1>5, OneThread
  <2>2. CASE RefreshDone(UI)
    <3>1. /\ Finish(UI) /\ pc # "persist"
          /\ UNCHANGED <<store, live, launched, visible, born, failed>>
      BY <2>2 DEF RefreshDone, At, pc
    <3> QED BY <1>1, <3>1, DoneLife DEF LifeInv
  <2> QED
    BY <1>1, <2>1, <2>2, RefreshStartLife, RefreshTokenLife, RefreshSyncLife,
       RefreshWriteLife, RefreshResolveLife, RefreshQuietLife,
       RefreshSignalLife DEF RefreshStep, LifeInv
<1>6. CASE Start \/ CleanupStart \/ Quit \/ Crash
  BY <1>1, <1>6, StartQuitLife, CleanupStartLife, CrashLife DEF LifeInv
<1>7. CASE UNCHANGED vars
  <2>1. UNCHANGED <<store, live, launched, visible, frame, born, failed>>
    BY <1>7 DEF vars
  <2>2. \A s \in Sessions : Stays(s) /\ Ran(s)
    BY <2>1 DEF Stays, Ran, LifeOf, TokenOf, RunningFor
  <2> QED BY <1>1, <2>1, <2>2, SameTokens, MapsToStutter DEF LifeInv, Mapped
<1> QED BY <1>2, <1>3, <1>4, <1>5, <1>6, <1>7 DEF Next

(* The supervisor driven by one thread implements the life of a session:   *)
(* opened once, with at most one agent, closed when none runs, reopened    *)
(* for its own conversation, which no other session has, and deleted for   *)
(* good, whatever fails and wherever the app dies.                         *)
THEOREM LifecycleIsImplemented ==
  ASSUME Workers = {}
  PROVE  Spec => ImplementsLifecycle
<1>1. Init => LifeInv /\ Lifecycle!LifeInit
  BY InitLife
<1>2. LifeInv /\ [Next]_vars
        => LifeInv' /\ [Lifecycle!LifeNext]_(Lifecycle!lifeVars)
  BY StepLife DEF Mapped
<1> QED BY <1>1, <1>2, PTL DEF Spec, ImplementsLifecycle, Lifecycle!LifeSpec

(* What the abstract life of a session keeps true: no two sessions with a  *)
(* row are known by the same conversation.                                 *)
AbstractTalksAreOwn ==
  \A s, x \in Sessions :
    (/\ s # x /\ LifeOf(s) \in {"open", "closed"}
     /\ LifeOf(x) \in {"open", "closed"} /\ TokenOf(s) # Pending)
    => TokenOf(s) # TokenOf(x)

LEMMA MovesKeepTalks ==
  ASSUME AbstractTalksAreOwn, [Lifecycle!LifeNext]_(Lifecycle!lifeVars)
  PROVE  AbstractTalksAreOwn'
<1>1. CASE \E s \in Sessions :
             Lifecycle!AgentStarts(s) \/ Lifecycle!AgentStops(s)
  <2>1. \A s \in Sessions : LifeOf(s)' = LifeOf(s) /\ TokenOf(s)' = TokenOf(s)
    BY <1>1 DEF Lifecycle!AgentStarts, Lifecycle!AgentStops
  <2> QED BY <2>1 DEF AbstractTalksAreOwn
<1>2. CASE \E s \in Sessions : Lifecycle!Abandoned(s)
  <2>1. \A s \in Sessions : /\ LifeOf(s)' \in {LifeOf(s), "gone"}
                             /\ TokenOf(s)' = TokenOf(s)
    BY <1>2 DEF Lifecycle!Abandoned
  <2> QED BY <2>1 DEF AbstractTalksAreOwn
<1>3. CASE \E s \in Sessions : \E k \in Conversations \cup {Pending} :
             \/ Lifecycle!Opened(s, k) \/ Lifecycle!Learnt(s, k)
             \/ Lifecycle!Closed(s, k) \/ Lifecycle!Reopened(s, k)
  <2>1. PICK s \in Sessions, k \in Conversations \cup {Pending} :
             \/ Lifecycle!Opened(s, k) \/ Lifecycle!Learnt(s, k)
             \/ Lifecycle!Closed(s, k) \/ Lifecycle!Reopened(s, k)
    BY <1>3
  <2>2. \A x \in Sessions \ {s} :
          TokenOf(x)' = TokenOf(x) /\ LifeOf(x)' = LifeOf(x)
    BY <2>1
    DEF Lifecycle!Opened, Lifecycle!Learnt, Lifecycle!Closed,
        Lifecycle!Reopened
  <2>3. TokenOf(s)' = k
    BY <2>1
    DEF Lifecycle!Opened, Lifecycle!Learnt, Lifecycle!Closed,
        Lifecycle!Reopened
  <2>4. \/ k = Pending
        \/ Lifecycle!Free(s, k)
        \/ k = TokenOf(s) /\ LifeOf(s) \in {"open", "closed"}
    BY <2>1
    DEF Lifecycle!Opened, Lifecycle!Learnt, Lifecycle!Closed,
        Lifecycle!Reopened, Lifecycle!MayBe, Lifecycle!Tabled
  <2>5. \A x \in Sessions \ {s} :
          LifeOf(x) \in {"open", "closed"} /\ k # Pending => TokenOf(x) # k
    BY <2>4 DEF AbstractTalksAreOwn, Lifecycle!Free, Lifecycle!Tabled
  <2> QED BY <2>2, <2>3, <2>5 DEF AbstractTalksAreOwn
<1>4. CASE \E gone \in SUBSET Sessions : Lifecycle!Deleted(gone)
  BY <1>4 DEF AbstractTalksAreOwn, Lifecycle!Deleted
<1>5. CASE UNCHANGED Lifecycle!lifeVars
  BY <1>5 DEF AbstractTalksAreOwn, Lifecycle!lifeVars
<1> QED BY <1>1, <1>2, <1>3, <1>4, <1>5 DEF Lifecycle!LifeNext

(* A conversation is resumed by one session only: the provisional tokens   *)
(* of two sessions never turn into the same identifier.                    *)
THEOREM TalksStayOwn ==
  ASSUME Workers = {}
  PROVE  Spec => []TalksAreOwn
<1>1. Lifecycle!LifeInit => AbstractTalksAreOwn
  BY DEF Lifecycle!LifeInit, AbstractTalksAreOwn
<1>2. /\ AbstractTalksAreOwn
      /\ [Lifecycle!LifeNext]_(Lifecycle!lifeVars)
      => AbstractTalksAreOwn'
  BY MovesKeepTalks
<1>3. AbstractTalksAreOwn => TalksAreOwn
  BY DEF AbstractTalksAreOwn, TalksAreOwn, LifeOf, TokenOf
<1> QED
  BY <1>1, <1>2, <1>3, LifecycleIsImplemented, PTL
  DEF ImplementsLifecycle, Lifecycle!LifeSpec

===============================================================================
