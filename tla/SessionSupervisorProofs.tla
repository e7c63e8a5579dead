----------------------- MODULE SessionSupervisorProofs -----------------------
(***************************************************************************)
(* Types and safety of SessionSupervisor, for any number of sessions, tmux *)
(* sessions, providers, worker threads, restarts and failures: whenever a  *)
(* thread writes a row it holds one, every row names its own agent, and    *)
(* closing a session hits no other agent.                                  *)
(***************************************************************************)
EXTENDS SessionSupervisor, TLAPS

Bases == {None} \cup SUBSET Conversations

-----------------------------------------------------------------------------
(* The search for a token                                                  *)

(* What resolveResumeToken finds is a conversation or nothing, and the     *)
(* baseline it leaves is a set of conversations or none.                   *)
LEMMA ResolutionsType ==
  ASSUME NEW s \in Sessions, NEW known \in SUBSET Conversations, NEW excluded,
         NEW base \in Bases, NEW recoverable \in BOOLEAN,
         NEW r \in Resolutions(s, known, excluded, base, recoverable)
  PROVE  r \in [token : {None} \cup Conversations, base : Bases]
<1>1. ExpectedFound(s, known, excluded) \subseteq Conversations
  BY DEF ExpectedFound
<1>2. NewSince(base, known, excluded) \subseteq Conversations
  BY DEF NewSince
<1>3. SingleCandidate(known, excluded, recoverable) \subseteq Conversations
  BY DEF SingleCandidate
<1> QED
  BY <1>1, <1>2, <1>3 DEF Resolutions, Bases

(* The same for a search on behalf of a thread.                            *)
LEMMA ResolveType ==
  ASSUME TypeOK, NEW p \in Threads, NEW s \in Sessions, NEW row \in Row,
         NEW excluded, NEW r \in Resolve(p, s, row, excluded)
  PROVE  r \in [token : {None} \cup Conversations, base : Bases]
<1>1. baseline[p][s] \in Bases
  BY DEF TypeOK, Bases
<1>2. CASE row.token # Pending
  BY <1>1, <1>2 DEF Resolve, Row, Tokens
<1>3. CASE row.token = Pending
  <2>1. Known(s) \in SUBSET Conversations
    BY DEF Known, TypeOK
  <2>2. Recoverable(row) \in BOOLEAN
    BY DEF Recoverable
  <2> QED
    BY <1>1, <1>3, <2>1, <2>2, ResolutionsType DEF Resolve
<1> QED BY <1>2, <1>3

LEMMA ResolvePendingType ==
  ASSUME TypeOK, NEW p \in Threads, NEW s \in Sessions, NEW row \in Row,
         NEW excluded, NEW r \in ResolvePending(p, s, row, excluded)
  PROVE  r \in [token : Tokens, base : Bases]
<1>1. CASE row.token # Pending
  BY <1>1 DEF ResolvePending, Row, Bases
<1>2. CASE row.token = Pending
  BY <1>2, ResolveType DEF ResolvePending, Tokens
<1> QED BY <1>1, <1>2

-----------------------------------------------------------------------------
(* The parts of a step                                                     *)

LEMMA FramesAreFrames ==
  ASSUME TypeOK, NEW p \in Threads
  PROVE  frame[p] \in Frame /\ FrameOK(frame[p])
BY DEF TypeOK

(* A thread at a step that writes holds a row of a session.                *)
LEMMA HeldIsARow ==
  ASSUME TypeOK, NEW p \in Threads, frame[p].pc \in Holding
  PROVE  frame[p].cur \in Sessions /\ Held(p) \in Row
<1>1. frame[p].cur \in Sessions /\ Held(p) # None
  BY FramesAreFrames DEF FrameOK, Frame, Held
<1>2. frame[p].list \in Rows
  BY FramesAreFrames DEF Frame
<1> QED BY <1>1, <1>2 DEF Held, Rows

LEMMA StoredIsARow ==
  ASSUME TypeOK, NEW s \in Sessions, store[s] # None
  PROVE  store[s] \in Row
BY DEF TypeOK, Rows

LEMMA IdleFrameType == IdleFrame \in Frame /\ FrameOK(IdleFrame)
<1>1. NoRows \in Rows
  BY DEF NoRows, Rows
<1> QED
  BY <1>1 DEF IdleFrame, Frame, FrameOK, Steps, StepsOf, Operations, Holding

LEMMA BeginType ==
  ASSUME TypeOK, NEW p \in Threads, NEW f \in Frame, FrameOK(f), Begin(p, f)
  PROVE  frame' \in [Threads -> Frame] /\ \A q \in Threads : FrameOK(frame'[q])
BY DEF TypeOK, Begin

LEMMA FinishType ==
  ASSUME TypeOK, NEW p \in Threads, Finish(p)
  PROVE  frame' \in [Threads -> Frame] /\ \A q \in Threads : FrameOK(frame'[q])
BY BeginType, IdleFrameType DEF Finish

(* Going on to a step of the same call that needs nothing new.             *)
LEMMA GotoType ==
  ASSUME TypeOK, NEW p \in Threads, NEW label \in StepsOf(frame[p].op),
         label \notin {"persist", "refreshToken", "signalWrite"},
         label \in Holding => frame[p].pc \in Holding, Goto(p, label)
  PROVE  frame' \in [Threads -> Frame] /\ \A q \in Threads : FrameOK(frame'[q])
<1> DEFINE f == [frame[p] EXCEPT !.pc = label]
<1>1. frame[p] \in Frame /\ FrameOK(frame[p])
  BY FramesAreFrames
<1>2. label \in Steps
  BY <1>1 DEF Steps, Frame
<1>3. f \in Frame
  BY <1>1, <1>2 DEF Frame
<1>4. FrameOK(f)
  BY <1>1 DEF Frame, FrameOK
<1>5. Begin(p, f)
  BY DEF TypeOK, Goto, Begin
<1> QED BY <1>3, <1>4, <1>5, BeginType

LEMMA SaveType ==
  ASSUME TypeOK, NEW s \in Sessions, NEW row \in Row, Save(s, row)
  PROVE  store' \in Rows
BY DEF TypeOK, Save, Rows

LEMMA SetBaselineType ==
  ASSUME TypeOK, NEW p \in Threads, NEW s \in Sessions, NEW b \in Bases,
         SetBaseline(p, s, b)
  PROVE  baseline' \in [Threads -> [Sessions -> Bases]]
BY DEF TypeOK, SetBaseline, Bases

LEMMA FaultType ==
  ASSUME TypeOK, NEW n \in Nat, Fault(n)
  PROVE  faults' \in 0..MaxFaults
BY BoundAssumption DEF TypeOK, Fault

-----------------------------------------------------------------------------
(* Every action keeps the types                                            *)

LEMMA NewPanesType ==
  ASSUME TypeOK, NEW t \in Muxes
  PROVE  NewPanes(t) \subseteq Muxes
BY RecordAssumption DEF TypeOK, NewPanes, Agent

LEMMA StartAgentType ==
  ASSUME TypeOK, NEW t \in Muxes, NEW s \in Sessions,
         NEW talk \in {None} \cup Conversations, StartAgent(t, s, talk)
  PROVE  /\ launched' \in [Muxes -> {None} \cup Agent]
         /\ live' \subseteq Muxes
<1>1. NewPanes(t) \subseteq Muxes
  BY NewPanesType
<1> QED BY <1>1 DEF TypeOK, StartAgent, Agent

LEMMA ClaimedType ==
  ASSUME TypeOK, NEW s
  PROVE  ClaimedExcluding(store, s) \subseteq Conversations
BY DEF TypeOK, ClaimedExcluding, Rows, Row, Tokens

LEMMA LaunchType ==
  ASSUME TypeOK, NEW s \in Sessions, NEW t \in Muxes, Launch(s, t)
  PROVE  TypeOK'
<1> DEFINE row == [state |-> "Live", token |-> InitialToken(s),
                   owner |-> instance, mux |-> t]
           f == [IdleFrame EXCEPT !.op = "launch", !.pc = "persist", !.cur = s,
                                  !.list[s] = row]
<1>1. row \in Row
  <2>1. InitialToken(s) \in Tokens
    BY FixedAssumption, ProviderAssumption DEF InitialToken, Tokens
  <2> QED BY <2>1, BoundAssumption DEF TypeOK, Row
<1>2. f \in Frame
  <2>1. f.list \in Rows
    BY <1>1, IdleFrameType DEF Rows, IdleFrame, Frame
  <2>2. "persist" \in Steps
    BY DEF Steps, StepsOf, Operations
  <2> QED BY <2>1, <2>2, IdleFrameType DEF Frame, Operations, IdleFrame
<1>3. FrameOK(f)
  <2>1. f.list[s] = row
    BY DEF IdleFrame, NoRows
  <2> QED
    BY <1>1, <2>1, RecordAssumption, NullAssumption
    DEF FrameOK, IdleFrame, StepsOf, Holding
<1>4. frame' \in [Threads -> Frame] /\ \A q \in Threads : FrameOK(frame'[q])
  <2>1. UI \in Threads
    BY DEF Threads
  <2> HIDE DEF f
  <2>2. Begin(UI, f)
    BY DEF Launch, f
  <2> QED BY <1>2, <1>3, <2>1, <2>2, BeginType
<1>5. launched' \in [Muxes -> {None} \cup Agent] /\ live' \subseteq Muxes
  <2>1. Fixed[s] \in {None} \cup Conversations
    BY FixedAssumption
  <2> QED BY <2>1, StartAgentType DEF Launch
<1> QED
  BY <1>4, <1>5 DEF TypeOK, Launch

LEMMA ResumeRefusedType ==
  ASSUME TypeOK, NEW s \in Sessions, ResumeRefused(s)
  PROVE  TypeOK'
<1>1. store[s] \in Row
  BY StoredIsARow DEF ResumeRefused, Resumable
<1>2. UI \in Threads
  BY DEF Threads
<1>3. PICK r \in Resolve(UI, s, store[s], {}) : SetBaseline(UI, s, r.base)
  BY DEF ResumeRefused
<1>4. r.base \in Bases
  BY <1>1, <1>2, ResolveType
<1>5. baseline' \in [Threads -> [Sessions -> Bases]]
  BY <1>2, <1>3, <1>4, SetBaselineType
<1> QED
  BY <1>5 DEF TypeOK, ResumeRefused, Bases

LEMMA ResumeType ==
  ASSUME TypeOK, NEW s \in Sessions, NEW t \in Muxes, Resume(s, t)
  PROVE  TypeOK'
<1>1. store[s] \in Row
  BY StoredIsARow DEF Resume, Resumable
<1>2. UI \in Threads
  BY DEF Threads
<1>3. PICK r \in Resolve(UI, s, store[s], {}) :
        /\ r.token # None
        /\ StartAgent(t, s, r.token)
        /\ Begin(UI, [IdleFrame EXCEPT
                        !.op = "resume", !.pc = "persist", !.cur = s,
                        !.list[s] = [state |-> "Live", token |-> r.token,
                                     owner |-> instance, mux |-> t]])
  BY DEF Resume
<1> DEFINE row == [state |-> "Live", token |-> r.token, owner |-> instance,
                   mux |-> t]
           f == [IdleFrame EXCEPT !.op = "resume", !.pc = "persist", !.cur = s,
                                  !.list[s] = row]
<1>4. r.token \in Conversations
  BY <1>1, <1>2, <1>3, ResolveType
<1>5. row \in Row
  BY <1>4, BoundAssumption DEF TypeOK, Row, Tokens
<1>6. f \in Frame
  <2>1. f.list \in Rows
    BY <1>5, IdleFrameType DEF Rows, IdleFrame, Frame
  <2>2. "persist" \in Steps
    BY DEF Steps, StepsOf, Operations
  <2> QED BY <2>1, <2>2, IdleFrameType DEF Frame, Operations, IdleFrame
<1>7. FrameOK(f)
  <2>1. f.list[s] = row
    BY DEF IdleFrame, NoRows
  <2> QED
    BY <1>5, <2>1, RecordAssumption, NullAssumption
    DEF FrameOK, IdleFrame, StepsOf, Holding
<1>8. frame' \in [Threads -> Frame] /\ \A q \in Threads : FrameOK(frame'[q])
  <2>1. Begin(UI, f)
    BY <1>3
  <2> HIDE DEF f
  <2> QED BY <1>2, <1>6, <1>7, <2>1, BeginType
<1>9. launched' \in [Muxes -> {None} \cup Agent] /\ live' \subseteq Muxes
  BY <1>3, <1>4, StartAgentType
<1> QED
  BY <1>8, <1>9 DEF TypeOK, Resume

LEMMA StartLostType ==
  ASSUME TypeOK, NEW s \in Sessions, NEW t \in Muxes, StartLost(s, t)
  PROVE  TypeOK'
<1>1. PICK talk \in {None} \cup Conversations : StartAgent(t, s, talk)
  <2>1. CASE StartAgent(t, s, Fixed[s])
    BY <2>1, FixedAssumption
  <2>2. CASE /\ Resumable(s)
             /\ \E r \in Resolve(UI, s, store[s], {}) :
                  r.token # None /\ StartAgent(t, s, r.token)
    <3>1. store[s] \in Row /\ UI \in Threads
      BY <2>2, StoredIsARow DEF Resumable, Threads
    <3>2. PICK r \in Resolve(UI, s, store[s], {}) :
            r.token # None /\ StartAgent(t, s, r.token)
      BY <2>2
    <3>3. r.token \in Conversations
      BY <3>1, <3>2, ResolveType
    <3> QED BY <3>2, <3>3
  <2> QED BY <2>1, <2>2 DEF StartLost
<1>2. launched' \in [Muxes -> {None} \cup Agent] /\ live' \subseteq Muxes
  BY <1>1, StartAgentType
<1>3. faults' \in 0..MaxFaults
  BY FaultType DEF StartLost
<1>4. born' \subseteq Sessions
  BY DEF StartLost, TypeOK
<1> QED
  BY <1>2, <1>3, <1>4 DEF TypeOK, StartLost

LEMMA LaunchPersistType ==
  ASSUME TypeOK, LaunchPersist
  PROVE  TypeOK'
<1>1. UI \in Threads
  BY DEF Threads
<1>2. /\ frame[UI] \in Frame /\ FrameOK(frame[UI])
      /\ frame[UI].pc = "persist"
      /\ frame[UI].op \in {"launch", "resume"}
  BY <1>1, FramesAreFrames
  DEF LaunchPersist, At, FrameOK, Frame, Operations, StepsOf, ClosingSteps
<1>3. /\ frame[UI].cur \in Sessions
      /\ Held(UI) \in Row
      /\ Held(UI).mux \in Muxes
  <2>1. frame[UI].pc \in Holding
    BY <1>2 DEF Holding, Frame
  <2> QED BY <1>1, <1>2, <2>1, HeldIsARow DEF FrameOK, Held, Row
<1>4. store' \in Rows
  <2>1. Save(frame[UI].cur, Held(UI)) \/ UNCHANGED store
    BY DEF LaunchPersist
  <2> QED BY <1>3, <2>1, SaveType DEF TypeOK
<1>5. frame' \in [Threads -> Frame] /\ \A q \in Threads : FrameOK(frame'[q])
  <2>1. Goto(UI, "attach") \/ Finish(UI)
    BY DEF LaunchPersist
  <2>2. "attach" \in StepsOf(frame[UI].op) /\ frame[UI].pc \in Holding
    BY <1>2 DEF StepsOf, Holding, Frame
  <2> QED BY <1>1, <2>1, <2>2, GotoType, FinishType
<1>6. baseline' \in [Threads -> [Sessions -> Bases]]
  <2>1. \/ SetBaseline(UI, frame[UI].cur, Known(frame[UI].cur))
        \/ UNCHANGED baseline
    BY DEF LaunchPersist
  <2>2. Known(frame[UI].cur) \in Bases
    BY DEF Known, TypeOK, Bases
  <2> QED BY <1>1, <1>3, <2>1, <2>2, SetBaselineType DEF TypeOK, Bases
<1>7. live' \subseteq Muxes /\ failed' \subseteq Muxes
  BY <1>3 DEF TypeOK, LaunchPersist
<1>8. faults' \in 0..MaxFaults
  <2>1. Fault(1) \/ Fault(2) \/ UNCHANGED faults
    BY DEF LaunchPersist
  <2> QED BY <2>1, FaultType DEF TypeOK
<1> QED
  BY <1>4, <1>5, <1>6, <1>7, <1>8 DEF TypeOK, LaunchPersist, Bases

LEMMA AttachType ==
  ASSUME TypeOK, Attach
  PROVE  TypeOK'
<1>1. UI \in Threads
  BY DEF Threads
<1>2. frame[UI].cur \in Sessions /\ Held(UI) \in Row
  BY <1>1, HeldIsARow, FramesAreFrames DEF Attach, At, Holding, Frame
<1>3. store' \in Rows
  <2>1. Save(frame[UI].cur, Held(UI)) \/ UNCHANGED store
    BY DEF Attach
  <2> QED BY <1>2, <2>1, SaveType DEF TypeOK
<1>4. frame' \in [Threads -> Frame] /\ \A q \in Threads : FrameOK(frame'[q])
  BY <1>1, FinishType DEF Attach
<1>5. baseline' \in [Threads -> [Sessions -> Bases]]
  <2>1. SetBaseline(UI, frame[UI].cur, None) \/ UNCHANGED baseline
    BY DEF Attach
  <2> QED BY <1>1, <1>2, <2>1, SetBaselineType DEF TypeOK, Bases
<1>6. faults' \in 0..MaxFaults
  <2>1. Fault(1) \/ UNCHANGED faults
    BY DEF Attach
  <2> QED BY <2>1, FaultType DEF TypeOK
<1> QED
  BY <1>3, <1>4, <1>5, <1>6 DEF TypeOK, Attach, Bases

(* The steps of closing one session belong to the three closing calls.     *)
LEMMA ClosingFrame ==
  ASSUME TypeOK, frame[UI].pc \in ClosingSteps
  PROVE  /\ UI \in Threads
         /\ frame[UI] \in Frame /\ FrameOK(frame[UI])
         /\ frame[UI].op \in {"terminate", "cleanup", "shutdown"}
         /\ StepsOf(frame[UI].op) = ClosingSteps
<1>1. UI \in Threads
  BY DEF Threads
<1>2. frame[UI] \in Frame /\ FrameOK(frame[UI])
  BY <1>1, FramesAreFrames
<1>3. frame[UI].op \in {"terminate", "cleanup", "shutdown"}
  BY <1>2 DEF FrameOK, Frame, Operations, StepsOf, ClosingSteps
<1> QED BY <1>1, <1>2, <1>3 DEF StepsOf

LEMMA CloseBeginType ==
  ASSUME TypeOK, NEW s \in Sessions, NEW row \in Row, NEW f \in Frame,
         NEW excluded \in SUBSET Conversations,
         f.op \in {"terminate", "cleanup", "shutdown"},
         f.op = "shutdown" => \A x \in f.todo : f.list[x] # None,
         CloseBegin(s, row, f, excluded)
  PROVE  /\ frame' \in [Threads -> Frame]
         /\ \A q \in Threads : FrameOK(frame'[q])
         /\ baseline' \in [Threads -> [Sessions -> Bases]]
         /\ failed' \subseteq Muxes
         /\ faults' \in 0..MaxFaults
<1>1. UI \in Threads
  BY DEF Threads
<1>2. PICK answered \in BOOLEAN, r \in ResolvePending(UI, s, row, excluded) :
        /\ IF row.mux \in live /\ ~answered
           THEN Fault(1) /\ failed' = failed \cup {row.mux}
           ELSE UNCHANGED <<failed, faults>>
        /\ SetBaseline(UI, s, r.base)
        /\ Begin(UI, [f EXCEPT
                        !.pc = IF r.token = row.token THEN "kill" ELSE "token",
                        !.cur = s,
                        !.list[s] = [row EXCEPT !.token = r.token],
                        !.alive = IF answered THEN {s} ELSE {},
                        !.claimed = excluded])
  BY DEF CloseBegin
<1>3. r \in [token : Tokens, base : Bases]
  BY <1>1, ResolvePendingType
<1> DEFINE held == [row EXCEPT !.token = r.token]
           g == [f EXCEPT
                   !.pc = IF r.token = row.token THEN "kill" ELSE "token",
                   !.cur = s, !.list[s] = held,
                   !.alive = IF answered THEN {s} ELSE {},
                   !.claimed = excluded]
<1>4. held \in Row
  BY <1>3 DEF Row
<1>5. g.list \in Rows /\ g.list[s] = held
  BY <1>4 DEF Frame, Rows
<1>6. g.pc \in ClosingSteps /\ g.pc \in Holding /\ g.pc \in Steps
  BY DEF Frame, ClosingSteps, Holding, Steps, StepsOf, Operations
<1>7. g \in Frame
  BY <1>5, <1>6 DEF Frame
<1>8. FrameOK(g)
  <2>1. g.cur = s /\ g.op = f.op /\ g.todo = f.todo
    BY DEF Frame
  <2>2. g.pc \notin {"persist", "refreshToken", "signalWrite"}
    BY DEF Frame
  <2>3. g.pc \in StepsOf(g.op)
    BY <1>6, <2>1 DEF StepsOf
  <2>4. held # None /\ s # None
    BY <1>4, RecordAssumption, NullAssumption
  <2>5. \A x \in f.todo : f.list[x] # None => g.list[x] # None
    BY <2>4 DEF Frame, Rows
  <2> QED BY <1>5, <2>1, <2>2, <2>3, <2>4, <2>5 DEF FrameOK
<1>9. Begin(UI, g)
  BY <1>2
<1>10. frame' \in [Threads -> Frame] /\ \A q \in Threads : FrameOK(frame'[q])
  <2> HIDE DEF g
  <2> QED BY <1>1, <1>7, <1>8, <1>9, BeginType
<1>11. baseline' \in [Threads -> [Sessions -> Bases]]
  BY <1>1, <1>2, <1>3, SetBaselineType
<1>12. failed' \subseteq Muxes /\ faults' \in 0..MaxFaults
  BY <1>2, FaultType DEF TypeOK
<1> QED BY <1>10, <1>11, <1>12

LEMMA TerminateType ==
  ASSUME TypeOK, NEW s \in Sessions, Terminate(s)
  PROVE  TypeOK'
<1> DEFINE f == [IdleFrame EXCEPT !.op = "terminate"]
<1>1. store[s] \in Row
  BY StoredIsARow DEF Terminate
<1>2. f \in Frame /\ f.op = "terminate"
  BY IdleFrameType DEF IdleFrame, Frame, Operations
<1>3. ClaimedExcluding(store, s) \in SUBSET Conversations
  BY ClaimedType
<1>4. CloseBegin(s, store[s], f, ClaimedExcluding(store, s))
  BY DEF Terminate
<1>5. /\ frame' \in [Threads -> Frame]
      /\ \A q \in Threads : FrameOK(frame'[q])
      /\ baseline' \in [Threads -> [Sessions -> Bases]]
      /\ failed' \subseteq Muxes
      /\ faults' \in 0..MaxFaults
  <2> HIDE DEF f
  <2> QED BY <1>1, <1>2, <1>3, <1>4, CloseBeginType
<1> QED
  BY <1>5 DEF TypeOK, Terminate, Bases

LEMMA SaveTokenType ==
  ASSUME TypeOK, SaveToken
  PROVE  TypeOK'
<1>1. frame[UI].pc \in {"token", "tokenAgain"}
  BY DEF SaveToken, At
<1>2. /\ UI \in Threads /\ frame[UI].pc \in Holding
      /\ StepsOf(frame[UI].op) = ClosingSteps
  BY <1>1, ClosingFrame DEF ClosingSteps, Holding, Frame
<1>3. frame[UI].cur \in Sessions /\ Held(UI) \in Row
  BY <1>2, HeldIsARow
<1>4. store' \in Rows
  <2>1. Save(frame[UI].cur, Held(UI)) \/ UNCHANGED store
    BY DEF SaveToken
  <2> QED BY <1>3, <2>1, SaveType DEF TypeOK
<1>5. baseline' \in [Threads -> [Sessions -> Bases]]
  <2>1. SetBaseline(UI, frame[UI].cur, None) \/ UNCHANGED baseline
    BY DEF SaveToken
  <2> QED BY <1>2, <1>3, <2>1, SetBaselineType DEF TypeOK, Bases
<1>6. frame' \in [Threads -> Frame] /\ \A q \in Threads : FrameOK(frame'[q])
  <2>1. Goto(UI, "kill") \/ Goto(UI, "exit")
    BY DEF SaveToken
  <2>2. "kill" \in ClosingSteps /\ "exit" \in ClosingSteps
    BY DEF ClosingSteps
  <2> QED BY <1>2, <2>1, <2>2, GotoType
<1>7. faults' \in 0..MaxFaults
  <2>1. Fault(1) \/ UNCHANGED faults
    BY DEF SaveToken
  <2> QED BY <2>1, FaultType DEF TypeOK
<1> QED
  BY <1>4, <1>5, <1>6, <1>7 DEF TypeOK, SaveToken, Bases

LEMMA KillType ==
  ASSUME TypeOK, Kill
  PROVE  TypeOK'
<1>1. /\ UI \in Threads /\ frame[UI].pc \in Holding
      /\ StepsOf(frame[UI].op) = ClosingSteps
  BY ClosingFrame DEF ClosingSteps, Kill, At, Holding, Frame
<1>2. frame' \in [Threads -> Frame] /\ \A q \in Threads : FrameOK(frame'[q])
  <2>1. Goto(UI, "retry") \/ Goto(UI, "exit") \/ Goto(UI, "next")
    BY DEF Kill
  <2>2. "retry" \in ClosingSteps /\ "exit" \in ClosingSteps
        /\ "next" \in ClosingSteps
    BY DEF ClosingSteps
  <2> QED BY <1>1, <2>1, <2>2, GotoType
<1>3. live' \subseteq Muxes /\ failed' \subseteq Muxes
  BY DEF TypeOK, Kill
<1>4. faults' \in 0..MaxFaults
  <2>1. Fault(1) \/ UNCHANGED faults
    BY DEF Kill
  <2> QED BY <2>1, FaultType DEF TypeOK
<1> QED
  BY <1>2, <1>3, <1>4 DEF TypeOK, Kill

LEMMA RetryType ==
  ASSUME TypeOK, Retry
  PROVE  TypeOK'
<1> DEFINE s == frame[UI].cur
<1>1. /\ UI \in Threads /\ frame[UI].pc \in Holding
      /\ StepsOf(frame[UI].op) = ClosingSteps
      /\ frame[UI] \in Frame /\ FrameOK(frame[UI])
      /\ frame[UI].op \in {"terminate", "cleanup", "shutdown"}
  BY ClosingFrame DEF ClosingSteps, Retry, At, Holding, Frame
<1>2. s \in Sessions /\ Held(UI) \in Row
  BY <1>1, HeldIsARow
<1>3. PICK r \in ResolvePending(UI, s, Held(UI), frame[UI].claimed) :
        /\ SetBaseline(UI, s, r.base)
        /\ frame' = [frame EXCEPT
             ![UI].pc = IF r.token = Pending THEN "exit" ELSE "tokenAgain",
             ![UI].list[s].token = r.token]
  BY DEF Retry
<1>4. r \in [token : Tokens, base : Bases]
  BY <1>1, <1>2, ResolvePendingType
<1> DEFINE held == [Held(UI) EXCEPT !.token = r.token]
           g == [frame[UI] EXCEPT
                   !.pc = IF r.token = Pending THEN "exit" ELSE "tokenAgain",
                   !.list[s] = held]
<1>5. held \in Row
  BY <1>2, <1>4 DEF Row
<1>6. g.list \in Rows /\ g.list[s] = held
  BY <1>1, <1>2, <1>5 DEF Frame, Rows
<1>7. g.pc \in ClosingSteps /\ g.pc \in Steps
  BY <1>1 DEF Frame, ClosingSteps, Steps, StepsOf, Operations
<1>8. g \in Frame
  BY <1>1, <1>6, <1>7 DEF Frame
<1>9. FrameOK(g)
  <2>1. g.cur = s /\ g.op = frame[UI].op /\ g.todo = frame[UI].todo
    BY <1>1 DEF Frame
  <2>2. g.pc \notin {"persist", "refreshToken", "signalWrite"}
    BY <1>1 DEF Frame
  <2>3. held # None /\ s # None
    BY <1>2, <1>5, RecordAssumption, NullAssumption
  <2>4. \A x \in g.todo : frame[UI].list[x] # None => g.list[x] # None
    BY <1>1, <2>3 DEF Frame, Rows
  <2>5. g.pc \in StepsOf(g.op)
    BY <1>1, <1>7, <2>1
  <2> QED BY <1>1, <1>6, <2>1, <2>2, <2>3, <2>4, <2>5 DEF FrameOK
<1>10. Begin(UI, g)
  <2>1. frame' = [frame EXCEPT ![UI] = g]
    BY <1>1, <1>3 DEF Held, Frame, Rows, TypeOK
  <2> QED BY <2>1 DEF Begin
<1>11. frame' \in [Threads -> Frame] /\ \A q \in Threads : FrameOK(frame'[q])
  <2> HIDE DEF g
  <2> QED BY <1>1, <1>8, <1>9, <1>10, BeginType
<1>12. baseline' \in [Threads -> [Sessions -> Bases]]
  BY <1>1, <1>2, <1>3, <1>4, SetBaselineType
<1> QED
  BY <1>11, <1>12 DEF TypeOK, Retry, Bases

LEMMA ClosedRowType ==
  ASSUME NEW row \in Row
  PROVE  ClosedRow(row) \in Row
<1>1. 0 \in 0..MaxInstances
  BY BoundAssumption
<1> QED
  BY <1>1 DEF ClosedRow, Row

LEMMA MarkExitedType ==
  ASSUME TypeOK, MarkExited
  PROVE  TypeOK'
<1> DEFINE s == frame[UI].cur
<1>1. /\ UI \in Threads /\ frame[UI].pc \in Holding
      /\ StepsOf(frame[UI].op) = ClosingSteps
      /\ frame[UI] \in Frame /\ FrameOK(frame[UI])
      /\ frame[UI].op \in {"terminate", "cleanup", "shutdown"}
  BY ClosingFrame DEF ClosingSteps, MarkExited, At, Holding, Frame
<1>2. s \in Sessions /\ Held(UI) \in Row /\ ClosedRow(Held(UI)) \in Row
  BY <1>1, HeldIsARow, ClosedRowType
<1>3. store' \in Rows
  <2>1. Save(s, ClosedRow(Held(UI))) \/ UNCHANGED store
    BY DEF MarkExited
  <2> QED BY <1>2, <2>1, SaveType DEF TypeOK
<1>4. baseline' \in [Threads -> [Sessions -> Bases]]
  <2>1. SetBaseline(UI, s, None) \/ UNCHANGED baseline
    BY DEF MarkExited
  <2> QED BY <1>1, <1>2, <2>1, SetBaselineType DEF TypeOK, Bases
<1>5. faults' \in 0..MaxFaults
  <2>1. Fault(1) \/ UNCHANGED faults
    BY DEF MarkExited
  <2> QED BY <2>1, FaultType DEF TypeOK
<1>6. frame' \in [Threads -> Frame] /\ \A q \in Threads : FrameOK(frame'[q])
  <2> DEFINE closed == ClosedRow(Held(UI))
             claims == IF frame[UI].op = "shutdown"
                       THEN frame[UI].claimed \cup ({Held(UI).token} \ {Pending})
                       ELSE frame[UI].claimed
             g == [frame[UI] EXCEPT !.pc = "artifacts", !.list[s] = closed,
                                    !.claimed = claims]
  <2>1. g.list \in Rows /\ g.list[s] = closed
    BY <1>1, <1>2 DEF Frame, Rows
  <2>2. claims \in SUBSET Conversations
    BY <1>1, <1>2 DEF Frame, Row, Tokens
  <2>3. "artifacts" \in ClosingSteps /\ "artifacts" \in Steps
    BY DEF ClosingSteps, Steps, StepsOf, Operations
  <2>4. g \in Frame
    BY <1>1, <2>1, <2>2, <2>3 DEF Frame
  <2>5. FrameOK(g)
    <3>1. /\ g.cur = s /\ g.op = frame[UI].op /\ g.todo = frame[UI].todo
          /\ g.pc = "artifacts"
      BY <1>1 DEF Frame
    <3>2. closed # None /\ s # None
      BY <1>2, RecordAssumption, NullAssumption
    <3>3. \A x \in g.todo : frame[UI].list[x] # None => g.list[x] # None
      BY <1>1, <3>2 DEF Frame, Rows
    <3>4. g.pc \in StepsOf(g.op)
      BY <1>1, <2>3, <3>1
    <3> HIDE DEF g, closed
    <3> QED BY <1>1, <2>1, <3>1, <3>2, <3>3, <3>4 DEF FrameOK
  <2>6. Begin(UI, g) \/ Goto(UI, "next")
    BY <1>1 DEF MarkExited, Begin, TypeOK, Held
  <2>7. "next" \in ClosingSteps
    BY DEF ClosingSteps
  <2> HIDE DEF g
  <2> QED BY <1>1, <2>4, <2>5, <2>6, <2>7, BeginType, GotoType
<1> QED
  BY <1>3, <1>4, <1>5, <1>6 DEF TypeOK, MarkExited, Bases

LEMMA SaveArtifactsType ==
  ASSUME TypeOK, SaveArtifacts
  PROVE  TypeOK'
<1>1. /\ UI \in Threads /\ frame[UI].pc \in Holding
      /\ StepsOf(frame[UI].op) = ClosingSteps
  BY ClosingFrame DEF ClosingSteps, SaveArtifacts, At, Holding, Frame
<1>2. frame[UI].cur \in Sessions /\ Held(UI) \in Row
  BY <1>1, HeldIsARow
<1>3. store' \in Rows
  BY <1>2, SaveType DEF SaveArtifacts, TypeOK
<1>4. frame' \in [Threads -> Frame] /\ \A q \in Threads : FrameOK(frame'[q])
  <2>1. "next" \in ClosingSteps
    BY DEF ClosingSteps
  <2> QED BY <1>1, <2>1, GotoType DEF SaveArtifacts
<1> QED
  BY <1>3, <1>4 DEF TypeOK, SaveArtifacts

(* A call that only ends.                                                  *)
LEMMA DoneType ==
  ASSUME TypeOK, TerminateDone \/ CleanupDone \/ ShutdownDone
  PROVE  TypeOK'
<1>1. UI \in Threads /\ Finish(UI)
  BY DEF TerminateDone, CleanupDone, ShutdownDone, Threads
<1>2. frame' \in [Threads -> Frame] /\ \A q \in Threads : FrameOK(frame'[q])
  BY <1>1, FinishType
<1> QED
  BY <1>2 DEF TypeOK, TerminateDone, CleanupDone, ShutdownDone

LEMMA StartType ==
  ASSUME TypeOK, Start
  PROVE  TypeOK'
<1>1. instance' \in 1..MaxInstances
  BY BoundAssumption DEF TypeOK, Start
<1> QED
  BY <1>1 DEF TypeOK, Start

LEMMA CleanupStartType ==
  ASSUME TypeOK, CleanupStart
  PROVE  TypeOK'
<1> DEFINE rows == { s \in Sessions : store[s] # None /\ Foreign(store[s]) }
           f == [IdleFrame EXCEPT !.op = "cleanup", !.pc = "next",
                                  !.todo = rows]
<1>1. "next" \in Steps /\ "next" \in StepsOf("cleanup") /\ "next" \notin Holding
  BY DEF Steps, StepsOf, Operations, ClosingSteps, Holding
<1>2. f \in Frame
  BY <1>1, IdleFrameType DEF Frame, Operations, IdleFrame
<1>3. FrameOK(f)
  BY <1>1 DEF FrameOK, IdleFrame
<1>4. UI \in Threads /\ Begin(UI, f)
  BY DEF CleanupStart, Threads
<1>5. frame' \in [Threads -> Frame] /\ \A q \in Threads : FrameOK(frame'[q])
  <2> HIDE DEF f
  <2> QED BY <1>2, <1>3, <1>4, BeginType
<1> QED
  BY <1>5 DEF TypeOK, CleanupStart

LEMMA CleanupNextType ==
  ASSUME TypeOK, NEW s \in Sessions, CleanupNext(s)
  PROVE  TypeOK'
<1> DEFINE f == [IdleFrame EXCEPT !.op = "cleanup", !.pc = "next",
                                  !.todo = Remaining(s)]
<1>1. "next" \in Steps /\ "next" \in StepsOf("cleanup") /\ "next" \notin Holding
  BY DEF Steps, StepsOf, Operations, ClosingSteps, Holding
<1>2. UI \in Threads /\ frame[UI] \in Frame
  BY FramesAreFrames DEF Threads
<1>3. f \in Frame /\ f.op = "cleanup"
  BY <1>1, <1>2, IdleFrameType DEF Frame, Operations, IdleFrame, Remaining
<1>4. FrameOK(f)
  BY <1>1 DEF FrameOK, IdleFrame
<1>5. CASE store[s] = None
  <2>1. Begin(UI, f) /\ UNCHANGED <<baseline, failed, faults>>
    BY <1>5 DEF CleanupNext
  <2>2. frame' \in [Threads -> Frame] /\ \A q \in Threads : FrameOK(frame'[q])
    <3> HIDE DEF f
    <3> QED BY <1>2, <1>3, <1>4, <2>1, BeginType
  <2> QED BY <2>1, <2>2 DEF TypeOK, CleanupNext
<1>6. CASE store[s] # None
  <2>1. CloseBegin(s, store[s], f, ClaimedExcluding(store, s))
    BY <1>6 DEF CleanupNext
  <2>2. store[s] \in Row /\ ClaimedExcluding(store, s) \in SUBSET Conversations
    BY <1>6, StoredIsARow, ClaimedType
  <2>3. /\ frame' \in [Threads -> Frame]
        /\ \A q \in Threads : FrameOK(frame'[q])
        /\ baseline' \in [Threads -> [Sessions -> Bases]]
        /\ failed' \subseteq Muxes
        /\ faults' \in 0..MaxFaults
    <3> HIDE DEF f
    <3> QED BY <1>3, <2>1, <2>2, CloseBeginType
  <2> QED BY <2>3 DEF TypeOK, CleanupNext, Bases
<1> QED BY <1>5, <1>6

LEMMA ShutdownStartType ==
  ASSUME TypeOK, ShutdownStart
  PROVE  TypeOK'
<1> DEFINE f == [IdleFrame EXCEPT
                   !.op = "shutdown", !.pc = "next", !.list = store,
                   !.todo = { s \in Sessions : store[s] # None },
                   !.claimed = ClaimedExcluding(store, None)]
<1>1. "next" \in Steps /\ "next" \in StepsOf("shutdown") /\ "next" \notin Holding
  BY DEF Steps, StepsOf, Operations, ClosingSteps, Holding
<1>2. store \in Rows /\ ClaimedExcluding(store, None) \in SUBSET Conversations
  BY ClaimedType DEF TypeOK
<1>3. f \in Frame
  BY <1>1, <1>2, IdleFrameType DEF Frame, Operations, IdleFrame
<1>4. FrameOK(f)
  BY <1>1 DEF FrameOK, IdleFrame
<1>5. UI \in Threads /\ Begin(UI, f)
  BY DEF ShutdownStart, Threads
<1>6. frame' \in [Threads -> Frame] /\ \A q \in Threads : FrameOK(frame'[q])
  <2> HIDE DEF f
  <2> QED BY <1>3, <1>4, <1>5, BeginType
<1> QED
  BY <1>6 DEF TypeOK, ShutdownStart

LEMMA ShutdownNextType ==
  ASSUME TypeOK, NEW s \in Sessions, ShutdownNext(s)
  PROVE  TypeOK'
<1> DEFINE row == frame[UI].list[s]
           f == [frame[UI] EXCEPT !.todo = Remaining(s)]
<1>1. /\ UI \in Threads /\ frame[UI] \in Frame /\ FrameOK(frame[UI])
      /\ frame[UI].op = "shutdown" /\ s \in frame[UI].todo
  BY FramesAreFrames DEF Threads, ShutdownNext
<1>2. row \in Row
  BY <1>1 DEF FrameOK, Frame, Rows
<1>3. /\ f \in Frame /\ f.op = "shutdown"
      /\ f.list = frame[UI].list /\ f.todo \subseteq frame[UI].todo
      /\ f.pc = frame[UI].pc /\ f.cur = frame[UI].cur
  BY <1>1 DEF Frame, Remaining
<1>4. FrameOK(f)
  BY <1>1, <1>3 DEF FrameOK
<1>5. CASE /\ Begin(UI, f) /\ UNCHANGED baseline
           /\ \/ UNCHANGED <<failed, faults>>
              \/ /\ Fault(1) /\ failed' = failed \cup {row.mux}
                 /\ ShouldShutdown(row) /\ row.state = "Exited"
  <2>1. frame' \in [Threads -> Frame] /\ \A q \in Threads : FrameOK(frame'[q])
    <3> HIDE DEF f
    <3> QED BY <1>1, <1>3, <1>4, <1>5, BeginType
  <2>2. failed' \subseteq Muxes /\ faults' \in 0..MaxFaults
    BY <1>5, FaultType DEF TypeOK, ShouldShutdown
  <2> QED BY <1>5, <2>1, <2>2 DEF TypeOK, ShutdownNext
<1>6. CASE CloseBegin(s, row, f, frame[UI].claimed)
  <2>1. CloseBegin(s, row, f, frame[UI].claimed)
    BY <1>6
  <2>2. /\ frame[UI].claimed \in SUBSET Conversations
        /\ \A x \in f.todo : f.list[x] # None
    BY <1>1, <1>3 DEF Frame, FrameOK
  <2>3. /\ frame' \in [Threads -> Frame]
        /\ \A q \in Threads : FrameOK(frame'[q])
        /\ baseline' \in [Threads -> [Sessions -> Bases]]
        /\ failed' \subseteq Muxes
        /\ faults' \in 0..MaxFaults
    <3> HIDE DEF f, row
    <3> QED BY <1>2, <1>3, <2>1, <2>2, CloseBeginType
  <2> QED BY <2>3 DEF TypeOK, ShutdownNext, Bases
<1> QED BY <1>5, <1>6 DEF ShutdownNext

LEMMA QuitType ==
  ASSUME TypeOK, Quit
  PROVE  TypeOK'
BY DEF TypeOK, Quit, NoBaselines

LEMMA CrashType ==
  ASSUME TypeOK, Crash
  PROVE  TypeOK'
<1>1. /\ frame' \in [Threads -> Frame] /\ \A q \in Threads : FrameOK(frame'[q])
      /\ baseline' \in [Threads -> [Sessions -> Bases]]
  BY IdleFrameType DEF Crash, NoBaselines, Bases
<1>2. failed' \subseteq Muxes
  <2>1. UI \in Threads
    BY DEF Threads
  <2>2. CASE At(UI, "persist")
    <3>1. frame[UI].pc \in Holding
      BY <2>1, <2>2, FramesAreFrames DEF At, Holding, Frame
    <3>2. Held(UI) \in Row /\ Held(UI).mux # None
      BY <2>1, <2>2, <3>1, HeldIsARow, FramesAreFrames DEF At, FrameOK, Held
    <3> QED BY <2>2, <3>2 DEF TypeOK, Crash, Row
  <2> QED BY <2>2 DEF TypeOK, Crash
<1>3. faults' \in 0..MaxFaults
  BY FaultType DEF Crash
<1> QED
  BY <1>1, <1>2, <1>3 DEF TypeOK, Crash, Bases

LEMMA RenameType ==
  ASSUME TypeOK, NEW s \in Sessions, Rename(s)
  PROVE  TypeOK'
<1> DEFINE f == [IdleFrame EXCEPT !.op = "rename", !.pc = "save", !.cur = s,
                                  !.list[s] = store[s]]
<1>1. store[s] \in Row
  BY StoredIsARow DEF Rename
<1>2. "save" \in Steps /\ "save" \in StepsOf("rename")
  BY DEF Steps, StepsOf, Operations
<1>3. f.list \in Rows /\ f.list[s] = store[s]
  BY <1>1 DEF Rows, IdleFrame, NoRows
<1>4. f \in Frame
  BY <1>2, <1>3, IdleFrameType DEF Frame, Operations, IdleFrame
<1>5. FrameOK(f)
  BY <1>1, <1>2, <1>3, RecordAssumption, NullAssumption DEF FrameOK, IdleFrame
<1>6. UI \in Threads /\ Begin(UI, f)
  BY DEF Rename, Threads
<1>7. frame' \in [Threads -> Frame] /\ \A q \in Threads : FrameOK(frame'[q])
  <2> HIDE DEF f
  <2> QED BY <1>4, <1>5, <1>6, BeginType
<1> QED
  BY <1>7 DEF TypeOK, Rename

LEMMA RenameSaveType ==
  ASSUME TypeOK, RenameSave
  PROVE  TypeOK'
<1>1. UI \in Threads
  BY DEF Threads
<1>2. frame[UI].cur \in Sessions /\ Held(UI) \in Row
  BY <1>1, HeldIsARow, FramesAreFrames DEF RenameSave, At, Holding, Frame
<1>3. store' \in Rows
  BY <1>2, SaveType DEF RenameSave, TypeOK
<1>4. frame' \in [Threads -> Frame] /\ \A q \in Threads : FrameOK(frame'[q])
  BY <1>1, FinishType DEF RenameSave
<1>5. faults' \in 0..MaxFaults
  BY FaultType DEF RenameSave, TypeOK
<1> QED
  BY <1>3, <1>4, <1>5 DEF TypeOK, RenameSave

LEMMA DeleteType ==
  ASSUME TypeOK, NEW selected \in SUBSET Sessions, Delete(selected)
  PROVE  TypeOK'
<1> DEFINE f == [IdleFrame EXCEPT !.op = "delete", !.pc = "commit",
                                  !.todo = selected]
<1>1. "commit" \in Steps /\ "commit" \in StepsOf("delete") /\ "commit" \notin Holding
  BY DEF Steps, StepsOf, Operations, Holding
<1>2. f \in Frame
  BY <1>1, IdleFrameType DEF Frame, Operations, IdleFrame
<1>3. FrameOK(f)
  BY <1>1 DEF FrameOK, IdleFrame
<1>4. UI \in Threads /\ Begin(UI, f)
  BY DEF Delete, Threads
<1>5. frame' \in [Threads -> Frame] /\ \A q \in Threads : FrameOK(frame'[q])
  <2> HIDE DEF f
  <2> QED BY <1>2, <1>3, <1>4, BeginType
<1> QED
  BY <1>5 DEF TypeOK, Delete

LEMMA DeleteCommitType ==
  ASSUME TypeOK, DeleteCommit
  PROVE  TypeOK'
<1>1. UI \in Threads
  BY DEF Threads
<1>2. frame' \in [Threads -> Frame] /\ \A q \in Threads : FrameOK(frame'[q])
  BY <1>1, FinishType DEF DeleteCommit
<1>3. store' \in Rows /\ baseline' \in [Threads -> [Sessions -> Bases]]
  BY <1>1 DEF DeleteCommit, TypeOK, Rows, Bases
<1>4. faults' \in 0..MaxFaults
  BY FaultType DEF DeleteCommit, TypeOK
<1> QED
  BY <1>2, <1>3, <1>4 DEF TypeOK, DeleteCommit, Bases

(* The steps of a refresh, on any thread.                                  *)
LEMMA RefreshFrame ==
  ASSUME TypeOK, NEW p \in Threads,
         frame[p].pc \in {"resolve", "refreshToken", "signals", "signalWrite"}
  PROVE  /\ frame[p] \in Frame /\ FrameOK(frame[p])
         /\ frame[p].op = "refresh"
         /\ \A s \in frame[p].todo : frame[p].list[s] \in Row
<1>1. frame[p] \in Frame /\ FrameOK(frame[p])
  BY FramesAreFrames
<1>2. frame[p].op = "refresh"
  BY <1>1 DEF FrameOK, Frame, Operations, StepsOf, ClosingSteps
<1> QED BY <1>1, <1>2 DEF FrameOK, Frame, Rows

LEMMA RefreshStepsAre ==
  /\ {"resolve", "refreshToken", "signals", "signalWrite"} \subseteq Steps
  /\ StepsOf("refresh") = {"resolve", "refreshToken", "signals", "signalWrite"}
  /\ "resolve" \notin Holding /\ "signals" \notin Holding
BY DEF Steps, StepsOf, Operations, Holding

LEMMA RefreshStartType ==
  ASSUME TypeOK, NEW p \in Threads, RefreshStart(p)
  PROVE  TypeOK'
<1> DEFINE settled(s) == store[s] # None /\ store[s].token # Pending
           f == [IdleFrame EXCEPT
                   !.op = "refresh", !.pc = "resolve", !.list = store,
                   !.todo = { s \in Sessions : store[s] # None /\ ~settled(s) },
                   !.claimed = ClaimedExcluding(store, None)]
<1>1. store \in Rows /\ ClaimedExcluding(store, None) \in SUBSET Conversations
  BY ClaimedType DEF TypeOK
<1>2. f \in Frame
  BY <1>1, RefreshStepsAre, IdleFrameType DEF Frame, Operations, IdleFrame
<1>3. FrameOK(f)
  BY RefreshStepsAre DEF FrameOK, IdleFrame
<1>4. Begin(p, f)
  BY DEF RefreshStart
<1>5. frame' \in [Threads -> Frame] /\ \A q \in Threads : FrameOK(frame'[q])
  <2> HIDE DEF f
  <2> QED BY <1>2, <1>3, <1>4, BeginType
<1>6. baseline' \in [Threads -> [Sessions -> Bases]]
  BY DEF RefreshStart, TypeOK, Bases
<1> QED
  BY <1>5, <1>6 DEF TypeOK, RefreshStart, Bases

LEMMA RefreshResolveType ==
  ASSUME TypeOK, NEW p \in Threads, NEW s \in Sessions, RefreshResolve(p, s)
  PROVE  TypeOK'
<1> DEFINE row == frame[p].list[s]
<1>1. /\ frame[p] \in Frame /\ FrameOK(frame[p])
      /\ frame[p].op = "refresh" /\ row \in Row
  BY RefreshFrame DEF RefreshResolve, At
<1>2. PICK r \in ResolvePending(p, s, row, frame[p].claimed) :
        /\ SetBaseline(p, s, r.base)
        /\ frame' = [frame EXCEPT
             ![p].todo = @ \ {s},
             ![p].list[s].token = r.token,
             ![p].cur = IF r.token = Pending THEN None ELSE s,
             ![p].pc = IF r.token = Pending THEN "resolve" ELSE "refreshToken"]
  BY DEF RefreshResolve
<1>3. r \in [token : Tokens, base : Bases]
  BY <1>1, <1>2, ResolvePendingType
<1> DEFINE held == [row EXCEPT !.token = r.token]
           g == [frame[p] EXCEPT
                   !.todo = @ \ {s}, !.list[s] = held,
                   !.cur = IF r.token = Pending THEN None ELSE s,
                   !.pc = IF r.token = Pending THEN "resolve"
                                               ELSE "refreshToken"]
<1>4. held \in Row /\ held.token = r.token
  BY <1>1, <1>3 DEF Row
<1>5. g.list \in Rows /\ g.list[s] = held
  BY <1>1, <1>4 DEF Frame, Rows
<1>6. g \in Frame
  BY <1>1, <1>5, RefreshStepsAre DEF Frame
<1>7. FrameOK(g)
  <2>1. /\ g.op = "refresh" /\ g.todo = frame[p].todo \ {s}
        /\ g.cur = IF r.token = Pending THEN None ELSE s
        /\ g.pc = IF r.token = Pending THEN "resolve" ELSE "refreshToken"
    BY <1>1 DEF Frame
  <2>2. held # None /\ s # None
    BY <1>4, RecordAssumption, NullAssumption
  <2>3. \A x \in g.todo : g.list[x] # None
    BY <1>1, <2>1 DEF FrameOK, Frame, Rows
  <2> HIDE DEF g, held
  <2> QED BY <1>4, <1>5, <2>1, <2>2, <2>3, RefreshStepsAre DEF FrameOK
<1>8. Begin(p, g)
  <2>1. frame' = [frame EXCEPT ![p] = g]
    BY <1>1, <1>2 DEF Frame, Rows, TypeOK
  <2> QED BY <2>1 DEF Begin
<1>9. frame' \in [Threads -> Frame] /\ \A q \in Threads : FrameOK(frame'[q])
  <2> HIDE DEF g
  <2> QED BY <1>6, <1>7, <1>8, BeginType
<1>10. baseline' \in [Threads -> [Sessions -> Bases]]
  BY <1>2, <1>3, SetBaselineType
<1> QED
  BY <1>9, <1>10 DEF TypeOK, RefreshResolve, Bases

LEMMA RefreshTokenType ==
  ASSUME TypeOK, NEW p \in Threads, RefreshToken(p)
  PROVE  TypeOK'
<1> DEFINE s == frame[p].cur
<1>1. /\ frame[p] \in Frame /\ FrameOK(frame[p])
      /\ frame[p].op = "refresh" /\ frame[p].pc = "refreshToken"
  BY RefreshFrame DEF RefreshToken, At
<1>2. s \in Sessions /\ Held(p) \in Row /\ Held(p).token \in Conversations
  <2>1. frame[p].pc \in Holding
    BY <1>1 DEF Holding, Frame
  <2>2. Held(p).token # Pending
    BY <1>1 DEF FrameOK, Held
  <2> QED BY <2>1, <2>2, HeldIsARow DEF Row, Tokens
<1>3. store' \in Rows
  BY <1>2, SaveType DEF RefreshToken, TypeOK
<1>4. baseline' \in [Threads -> [Sessions -> Bases]]
  <2>1. SetBaseline(p, s, None) \/ UNCHANGED baseline
    BY DEF RefreshToken
  <2> QED BY <1>2, <2>1, SetBaselineType DEF TypeOK, Bases
<1>5. faults' \in 0..MaxFaults
  BY FaultType DEF RefreshToken, TypeOK
<1>6. frame' \in [Threads -> Frame] /\ \A q \in Threads : FrameOK(frame'[q])
  <2>1. /\ frame[p].claimed \in SUBSET Conversations
        /\ frame[p].claimed \cup {Held(p).token} \in SUBSET Conversations
    BY <1>1, <1>2 DEF Frame
  <2> DEFINE G(claims) == [frame[p] EXCEPT !.pc = "resolve", !.cur = None,
                                           !.claimed = claims]
  <2>2. \/ Begin(p, G(frame[p].claimed \cup {Held(p).token}))
        \/ Begin(p, G(frame[p].claimed))
    <3>1. \/ frame' = [frame EXCEPT ![p].pc = "resolve", ![p].cur = None,
                                    ![p].claimed = @ \cup {Held(p).token}]
          \/ frame' = [frame EXCEPT ![p].pc = "resolve", ![p].cur = None]
      BY DEF RefreshToken
    <3> QED BY <1>1, <3>1 DEF Begin, TypeOK, Frame
  <2>3. PICK claims \in SUBSET Conversations : Begin(p, G(claims))
    <3> HIDE DEF G
    <3> QED BY <2>1, <2>2
  <2> DEFINE g == G(claims)
  <2>4. g \in Frame
    BY <1>1, RefreshStepsAre DEF Frame
  <2>5. FrameOK(g)
    <3>1. /\ g.op = "refresh" /\ g.pc = "resolve"
          /\ g.todo = frame[p].todo /\ g.list = frame[p].list
      BY <1>1 DEF Frame
    <3> HIDE DEF g
    <3> QED BY <1>1, <3>1, RefreshStepsAre DEF FrameOK
  <2> HIDE DEF g
  <2> QED BY <2>3, <2>4, <2>5, BeginType DEF g
<1> QED
  BY <1>3, <1>4, <1>5, <1>6 DEF TypeOK, RefreshToken, Bases

LEMMA RefreshSyncType ==
  ASSUME TypeOK, NEW p \in Threads, RefreshSync(p)
  PROVE  TypeOK'
<1> DEFINE rows == [s \in Sessions |-> IF s \in Watched(p)
                                       THEN frame[p].list[s] ELSE None]
           f == [IdleFrame EXCEPT
                   !.op = "refresh", !.pc = "signals", !.todo = Watched(p),
                   !.alive = Reported(p), !.list = rows]
<1>1. frame[p] \in Frame
  BY FramesAreFrames
<1>2. /\ Watched(p) \subseteq Sessions /\ Reported(p) \subseteq Sessions
      /\ rows \in Rows
      /\ \A s \in Watched(p) : rows[s] # None
  BY <1>1 DEF Watched, Reported, Rows, Frame
<1>3. f \in Frame
  BY <1>2, RefreshStepsAre, IdleFrameType DEF Frame, Operations, IdleFrame
<1>4. FrameOK(f)
  <2> HIDE DEF rows
  <2> QED BY <1>2, RefreshStepsAre DEF FrameOK, IdleFrame
<1>5. frame' \in [Threads -> Frame] /\ \A q \in Threads : FrameOK(frame'[q])
  <2>1. Begin(p, f) \/ Finish(p)
    BY DEF RefreshSync
  <2> HIDE DEF f
  <2> QED BY <1>3, <1>4, <2>1, BeginType, FinishType
<1>6. faults' \in 0..MaxFaults
  BY FaultType DEF RefreshSync, TypeOK
<1> QED
  BY <1>5, <1>6 DEF TypeOK, RefreshSync

(* A session that needs no write leaves the list of those to do.           *)
LEMMA RefreshSkipType ==
  ASSUME TypeOK, NEW p \in Threads, NEW s \in Sessions,
         frame[p].pc = "signals",
         frame' = [frame EXCEPT ![p].todo = @ \ {s}, ![p].list[s] = None]
  PROVE  frame' \in [Threads -> Frame] /\ \A q \in Threads : FrameOK(frame'[q])
<1>1. frame[p] \in Frame /\ FrameOK(frame[p]) /\ frame[p].op = "refresh"
  BY RefreshFrame
<1> DEFINE g == [frame[p] EXCEPT !.todo = @ \ {s}, !.list[s] = None]
<1>2. g \in Frame
  BY <1>1 DEF Frame, Rows
<1>3. FrameOK(g)
  <2>1. /\ g.op = "refresh" /\ g.pc = "signals"
        /\ g.todo = frame[p].todo \ {s}
        /\ \A x \in g.todo : g.list[x] = frame[p].list[x]
    BY <1>1 DEF Frame, Rows
  <2> HIDE DEF g
  <2> QED BY <1>1, <2>1, RefreshStepsAre DEF FrameOK
<1>4. Begin(p, g)
  BY DEF Begin, TypeOK
<1> HIDE DEF g
<1> QED BY <1>2, <1>3, <1>4, BeginType

LEMMA RefreshQuietType ==
  ASSUME TypeOK, NEW p \in Threads, NEW s \in Sessions, RefreshQuiet(p, s)
  PROVE  TypeOK'
<1>1. frame' \in [Threads -> Frame] /\ \A q \in Threads : FrameOK(frame'[q])
  BY RefreshSkipType DEF RefreshQuiet, At
<1> QED
  BY <1>1 DEF TypeOK, RefreshQuiet

LEMMA RefreshSignalType ==
  ASSUME TypeOK, NEW p \in Threads, NEW s \in Sessions, RefreshSignal(p, s)
  PROVE  TypeOK'
<1> DEFINE row == IF store[s] = None THEN frame[p].list[s] ELSE store[s]
           g == [frame[p] EXCEPT !.pc = "signalWrite", !.cur = s,
                                 !.todo = @ \ {s}, !.list[s] = row]
<1>1. /\ frame[p] \in Frame /\ FrameOK(frame[p]) /\ frame[p].op = "refresh"
      /\ frame[p].pc = "signals" /\ frame[p].list[s] \in Row
  BY RefreshFrame DEF RefreshSignal, At
<1>2. row \in Row
  BY <1>1, StoredIsARow
<1>3. g \in Frame
  BY <1>1, <1>2, RefreshStepsAre DEF Frame, Rows
<1>4. FrameOK(g)
  <2>1. /\ g.op = "refresh" /\ g.pc = "signalWrite" /\ g.cur = s
        /\ g.list[s] = row /\ g.todo = frame[p].todo \ {s}
        /\ \A x \in g.todo : g.list[x] = frame[p].list[x]
    BY <1>1 DEF Frame, Rows
  <2>2. row # None /\ s # None
    BY <1>2, RecordAssumption, NullAssumption
  <2> HIDE DEF g, row
  <2> QED BY <1>1, <2>1, <2>2, RefreshStepsAre DEF FrameOK
<1>5. frame' \in [Threads -> Frame] /\ \A q \in Threads : FrameOK(frame'[q])
  <2>1. \/ frame' = [frame EXCEPT ![p].todo = @ \ {s}, ![p].list[s] = None]
        \/ Begin(p, g)
    BY DEF RefreshSignal, Begin, TypeOK
  <2> HIDE DEF g
  <2> QED BY <1>1, <1>3, <1>4, <2>1, BeginType, RefreshSkipType
<1> QED
  BY <1>5 DEF TypeOK, RefreshSignal

LEMMA RefreshWriteType ==
  ASSUME TypeOK, NEW p \in Threads, RefreshWrite(p)
  PROVE  TypeOK'
<1> DEFINE s == frame[p].cur
           g == [frame[p] EXCEPT !.pc = "signals", !.cur = None,
                                 !.list[s] = None]
<1>1. /\ frame[p] \in Frame /\ FrameOK(frame[p]) /\ frame[p].op = "refresh"
      /\ frame[p].pc = "signalWrite"
  BY RefreshFrame DEF RefreshWrite, At
<1>2. s \in Sessions /\ Held(p) \in Row
  BY <1>1, HeldIsARow DEF Holding, Frame
<1>3. Signalled(p) \subseteq Row
  BY <1>2 DEF Signalled, Row
<1>4. store' \in Rows
  BY <1>2, <1>3, SaveType DEF RefreshWrite, TypeOK
<1>5. faults' \in 0..MaxFaults
  BY FaultType DEF RefreshWrite, TypeOK
<1>6. g \in Frame
  BY <1>1, <1>2, RefreshStepsAre DEF Frame, Rows
<1>7. FrameOK(g)
  <2>1. /\ g.op = "refresh" /\ g.pc = "signals" /\ g.todo = frame[p].todo
        /\ \A x \in g.todo : g.list[x] = frame[p].list[x]
    BY <1>1, <1>2 DEF FrameOK, Frame, Rows
  <2> HIDE DEF g
  <2> QED BY <1>1, <2>1, RefreshStepsAre DEF FrameOK
<1>8. Begin(p, g)
  BY DEF RefreshWrite, Begin, TypeOK
<1>9. frame' \in [Threads -> Frame] /\ \A q \in Threads : FrameOK(frame'[q])
  <2> HIDE DEF g
  <2> QED BY <1>6, <1>7, <1>8, BeginType
<1> QED
  BY <1>4, <1>5, <1>9 DEF TypeOK, RefreshWrite

LEMMA RefreshDoneType ==
  ASSUME TypeOK, NEW p \in Threads, RefreshDone(p)
  PROVE  TypeOK'
<1>1. frame' \in [Threads -> Frame] /\ \A q \in Threads : FrameOK(frame'[q])
  BY FinishType DEF RefreshDone
<1> QED
  BY <1>1 DEF TypeOK, RefreshDone

LEMMA EnvironmentType ==
  ASSUME TypeOK, Environment
  PROVE  TypeOK'
<1>1. CASE \E t \in Muxes : AgentEnds(t)
  BY <1>1 DEF TypeOK, AgentEnds
<1>2. CASE \E t \in Muxes, c \in Conversations : TalkAppears(t, c)
  <2>1. PICK t \in Muxes, c \in Conversations : TalkAppears(t, c)
    BY <1>2
  <2>2. launched' \in [Muxes -> {None} \cup Agent]
    BY <2>1 DEF TypeOK, TalkAppears, Agent
  <2> QED BY <2>1, <2>2 DEF TypeOK, TalkAppears
<1>3. CASE \E c \in Conversations : OutsideTalk(c)
  BY <1>3 DEF TypeOK, OutsideTalk
<1> QED BY <1>1, <1>2, <1>3 DEF Environment

LEMMA InitType == Init => TypeOK
<1> SUFFICES ASSUME Init PROVE TypeOK
  OBVIOUS
<1>1. store \in Rows
  BY DEF Init, NoRows, Rows
<1>2. frame \in [Threads -> Frame] /\ \A p \in Threads : FrameOK(frame[p])
  BY IdleFrameType DEF Init
<1>3. baseline \in [Threads -> [Sessions -> {None} \cup SUBSET Conversations]]
  BY DEF Init, NoBaselines
<1>4. instance \in 1..MaxInstances /\ faults \in 0..MaxFaults
  BY BoundAssumption DEF Init
<1> QED
  BY <1>1, <1>2, <1>3, <1>4 DEF Init, TypeOK

LEMMA StepType == TypeOK /\ [Next]_vars => TypeOK'
<1> SUFFICES ASSUME TypeOK, [Next]_vars PROVE TypeOK'
  OBVIOUS
<1>1. CASE UserCall
  BY <1>1, LaunchType, ResumeType, StartLostType, ResumeRefusedType, TerminateType, RenameType,
     DeleteType, ShutdownStartType DEF UserCall
<1>2. CASE UIStep
  <2>1. CASE CloseStep
    BY <2>1, SaveTokenType, KillType, RetryType, MarkExitedType,
       SaveArtifactsType, DoneType, CleanupNextType, ShutdownNextType
    DEF CloseStep
  <2>2. CASE LaunchPersist \/ Attach \/ RenameSave \/ DeleteCommit
    BY <2>2, LaunchPersistType, AttachType, RenameSaveType, DeleteCommitType
  <2> QED BY <1>2, <2>1, <2>2 DEF UIStep
<1>3. CASE Environment
  BY <1>3, EnvironmentType
<1>4. CASE \E p \in Threads : RefreshStart(p) \/ RefreshStep(p)
  BY <1>4, RefreshStartType, RefreshTokenType, RefreshSyncType,
     RefreshWriteType, RefreshDoneType, RefreshResolveType, RefreshQuietType,
     RefreshSignalType DEF RefreshStep
<1>5. CASE Start \/ CleanupStart \/ Quit \/ Crash
  BY <1>5, StartType, CleanupStartType, QuitType, CrashType
<1>6. CASE UNCHANGED vars
  BY <1>6 DEF TypeOK, vars
<1> QED BY <1>1, <1>2, <1>3, <1>4, <1>5, <1>6 DEF Next

(* Type correctness, with the conditions under which a thread is at a      *)
(* step: whenever it writes a row it holds one.                            *)
THEOREM TypeCorrect == Spec => []TypeOK
<1>1. Init => TypeOK
  BY InitType
<1>2. TypeOK /\ [Next]_vars => TypeOK'
  BY StepType
<1> QED
  BY <1>1, <1>2, PTL DEF Spec

-----------------------------------------------------------------------------
(* Every record names its agent                                            *)

(* A record that names the tmux session and the owner some record of the   *)
(* same session names already, or neither.                                 *)
Kept(s, row) ==
  \/ row = None
  \/ row.mux = None /\ row.owner = 0
  \/ \E old \in Records(s) : row.mux = old.mux /\ row.owner = old.owner

StoreKept == \A s \in Sessions : Kept(s, store'[s])
ListsKept ==
  \A p \in Threads, s \in Sessions : Kept(s, frame'[p].list[s])

(* An agent keeps the session and the owner it was started for.            *)
AgentsKept ==
  \A t \in Muxes : launched[t] # None =>
    /\ launched'[t] # None
    /\ launched'[t].session = launched[t].session
    /\ launched'[t].owner = launched[t].owner

LEMMA NamesKept ==
  ASSUME TypeOK, AgentsKept, NEW s \in Sessions, NEW row \in Row,
         NamesItsAgent(s, row)
  PROVE  NamesItsAgent(s, row)'
BY DEF NamesItsAgent, AgentsKept, Row

LEMMA KeptIsNamed ==
  ASSUME TypeOK, RowsNameTheirAgent, AgentsKept,
         NEW s \in Sessions, NEW row \in Row, Kept(s, row)
  PROVE  NamesItsAgent(s, row)'
<1>1. CASE row.mux = None /\ row.owner = 0
  BY <1>1 DEF NamesItsAgent
<1>2. CASE \E old \in Records(s) : row.mux = old.mux /\ row.owner = old.owner
  <2>1. PICK old \in Records(s) : row.mux = old.mux /\ row.owner = old.owner
    BY <1>2
  <2>2. NamesItsAgent(s, row)
    BY <2>1 DEF RowsNameTheirAgent, NamesItsAgent
  <2> QED BY <2>2, NamesKept
<1> QED BY <1>1, <1>2, RecordAssumption DEF Kept

LEMMA KeptStep ==
  ASSUME TypeOK, TypeOK', RowsNameTheirAgent, AgentsKept, StoreKept, ListsKept
  PROVE  RowsNameTheirAgent'
<1> SUFFICES ASSUME NEW s \in Sessions, NEW row \in Records(s)'
             PROVE  NamesItsAgent(s, row)'
  BY DEF RowsNameTheirAgent
<1>1. row \in Row
  BY DEF TypeOK, Records, Rows, Frame
<1>2. Kept(s, row)
  BY DEF Records, StoreKept, ListsKept
<1> QED BY <1>1, <1>2, KeptIsNamed

LEMMA StoredIsKept ==
  ASSUME NEW s \in Sessions
  PROVE  Kept(s, store[s])
BY DEF Kept, Records

LEMMA ListedIsKept ==
  ASSUME NEW p \in Threads, NEW s \in Sessions
  PROVE  Kept(s, frame[p].list[s])
BY DEF Kept, Records

LEMMA TokenIsNoMatter ==
  ASSUME NEW s \in Sessions, NEW row \in Row, Kept(s, row),
         NEW new \in Row, new.mux = row.mux, new.owner = row.owner
  PROVE  Kept(s, new)
BY RecordAssumption DEF Kept

LEMMA ClosedIsKept ==
  ASSUME NEW s \in Sessions, NEW row \in Row
  PROVE  Kept(s, ClosedRow(row))
BY DEF Kept, ClosedRow, Row

LEMMA BeginKeeps ==
  ASSUME TypeOK, NEW p \in Threads, NEW f, Begin(p, f),
         \A s \in Sessions : Kept(s, f.list[s])
  PROVE  ListsKept
BY ListedIsKept DEF Begin, ListsKept, TypeOK

LEMMA FinishKeeps ==
  ASSUME TypeOK, NEW p \in Threads, Finish(p)
  PROVE  ListsKept
<1>1. \A s \in Sessions : Kept(s, IdleFrame.list[s])
  BY DEF Kept, IdleFrame, NoRows
<1> QED BY <1>1, BeginKeeps DEF Finish

LEMMA GotoKeeps ==
  ASSUME TypeOK, NEW p \in Threads, NEW label, Goto(p, label)
  PROVE  ListsKept
<1>1. \A q \in Threads : frame'[q].list = frame[q].list
  BY DEF Goto, TypeOK, Frame
<1> QED BY <1>1, ListedIsKept DEF ListsKept

LEMMA SameFrameKeeps ==
  ASSUME UNCHANGED frame
  PROVE  ListsKept
BY ListedIsKept DEF ListsKept

LEMMA SaveKeeps ==
  ASSUME TypeOK, NEW s \in Sessions, NEW row, Kept(s, row), Save(s, row)
  PROVE  StoreKept
BY StoredIsKept DEF Save, StoreKept, TypeOK, Rows

LEMMA SameStoreKeeps ==
  ASSUME UNCHANGED store
  PROVE  StoreKept
BY StoredIsKept DEF StoreKept

LEMMA HeldIsKept ==
  ASSUME TypeOK, NEW p \in Threads, frame[p].pc \in Holding
  PROVE  Kept(frame[p].cur, Held(p))
BY HeldIsARow, ListedIsKept DEF Held

LEMMA SameAgentsKept ==
  ASSUME UNCHANGED launched
  PROVE  AgentsKept
BY DEF AgentsKept

(* Beginning to close a session: the record is the one it is handed.       *)
LEMMA CloseBeginKeeps ==
  ASSUME TypeOK, NEW s \in Sessions, NEW row \in Row, Kept(s, row),
         NEW f \in Frame, \A x \in Sessions : Kept(x, f.list[x]),
         NEW excluded, CloseBegin(s, row, f, excluded)
  PROVE  ListsKept
<1>1. UI \in Threads
  BY DEF Threads
<1>2. PICK answered \in BOOLEAN, r \in ResolvePending(UI, s, row, excluded) :
        Begin(UI, [f EXCEPT
                     !.pc = IF r.token = row.token THEN "kill" ELSE "token",
                     !.cur = s,
                     !.list[s] = [row EXCEPT !.token = r.token],
                     !.alive = IF answered THEN {s} ELSE {},
                     !.claimed = excluded])
  BY DEF CloseBegin
<1> DEFINE held == [row EXCEPT !.token = r.token]
           g == [f EXCEPT
                   !.pc = IF r.token = row.token THEN "kill" ELSE "token",
                   !.cur = s, !.list[s] = held,
                   !.alive = IF answered THEN {s} ELSE {},
                   !.claimed = excluded]
<1>3. held \in Row /\ held.mux = row.mux /\ held.owner = row.owner
  BY <1>1, <1>2, ResolvePendingType DEF Row
<1>4. Kept(s, held)
  <2> HIDE DEF held
  <2> QED BY <1>3, TokenIsNoMatter
<1>5. \A x \in Sessions : g.list[x] = IF x = s THEN held ELSE f.list[x]
  BY DEF Frame, Rows
<1>6. \A x \in Sessions : Kept(x, g.list[x])
  <2> HIDE DEF held, g
  <2> QED BY <1>4, <1>5
<1>7. Begin(UI, g)
  BY <1>2
<1> HIDE DEF g
<1> QED BY <1>1, <1>6, <1>7, BeginKeeps

LEMMA EmptyListKept ==
  \A s \in Sessions : Kept(s, NoRows[s]) /\ Kept(s, IdleFrame.list[s])
BY DEF Kept, IdleFrame, NoRows

(* The calls that close sessions.                                          *)
LEMMA TerminateKeeps ==
  ASSUME TypeOK, NEW s \in Sessions, Terminate(s)
  PROVE  AgentsKept /\ StoreKept /\ ListsKept
<1> DEFINE f == [IdleFrame EXCEPT !.op = "terminate"]
<1>1. store[s] \in Row /\ Kept(s, store[s])
  BY StoredIsARow, StoredIsKept DEF Terminate
<1>2. f \in Frame /\ f.list = IdleFrame.list
  BY IdleFrameType DEF IdleFrame, Frame, Operations
<1>3. CloseBegin(s, store[s], f, ClaimedExcluding(store, s))
  BY DEF Terminate
<1>4. ListsKept
  <2> HIDE DEF f
  <2> QED BY <1>1, <1>2, <1>3, EmptyListKept, CloseBeginKeeps
<1> QED BY <1>4, SameStoreKeeps, SameAgentsKept DEF Terminate

LEMMA CleanupNextKeeps ==
  ASSUME TypeOK, NEW s \in Sessions, CleanupNext(s)
  PROVE  AgentsKept /\ StoreKept /\ ListsKept
<1> DEFINE f == [IdleFrame EXCEPT !.op = "cleanup", !.pc = "next",
                                  !.todo = Remaining(s)]
<1>1. UI \in Threads /\ frame[UI] \in Frame
  BY FramesAreFrames DEF Threads
<1>2. f \in Frame /\ f.list = IdleFrame.list
  <2>1. "next" \in Steps
    BY DEF Steps, StepsOf, Operations, ClosingSteps
  <2> QED
    BY <1>1, <2>1, IdleFrameType DEF IdleFrame, Frame, Operations, Remaining
<1>3. \/ Begin(UI, f)
      \/ /\ store[s] # None
         /\ CloseBegin(s, store[s], f, ClaimedExcluding(store, s))
  BY DEF CleanupNext
<1>4. ListsKept
  <2> HIDE DEF f
  <2>1. CASE Begin(UI, f)
    BY <1>1, <1>2, <2>1, EmptyListKept, BeginKeeps
  <2>2. CASE /\ store[s] # None
             /\ CloseBegin(s, store[s], f, ClaimedExcluding(store, s))
    BY <1>2, <2>2, StoredIsARow, StoredIsKept, EmptyListKept, CloseBeginKeeps
  <2> QED BY <1>3, <2>1, <2>2
<1> QED BY <1>4, SameStoreKeeps, SameAgentsKept DEF CleanupNext

LEMMA ShutdownNextKeeps ==
  ASSUME TypeOK, NEW s \in Sessions, ShutdownNext(s)
  PROVE  AgentsKept /\ StoreKept /\ ListsKept
<1> DEFINE row == frame[UI].list[s]
           f == [frame[UI] EXCEPT !.todo = Remaining(s)]
<1>1. /\ UI \in Threads /\ frame[UI] \in Frame /\ FrameOK(frame[UI])
      /\ frame[UI].op = "shutdown" /\ s \in frame[UI].todo
  BY FramesAreFrames DEF Threads, ShutdownNext
<1>2. row \in Row /\ Kept(s, row)
  BY <1>1, ListedIsKept DEF FrameOK, Frame, Rows
<1>3. f \in Frame /\ f.list = frame[UI].list
  BY <1>1 DEF Frame, Remaining
<1>4. \A x \in Sessions : Kept(x, f.list[x])
  BY <1>1, <1>3, ListedIsKept
<1>5. Begin(UI, f) \/ CloseBegin(s, row, f, frame[UI].claimed)
  BY DEF ShutdownNext
<1>6. ListsKept
  <2> HIDE DEF f, row
  <2> QED BY <1>1, <1>2, <1>3, <1>4, <1>5, BeginKeeps, CloseBeginKeeps
<1> QED BY <1>6, SameStoreKeeps, SameAgentsKept DEF ShutdownNext

(* An agent nobody has a row of.                                           *)
LEMMA StartLostKeeps ==
  ASSUME TypeOK, NEW s \in Sessions, NEW t \in Muxes, StartLost(s, t)
  PROVE  AgentsKept /\ StoreKept /\ ListsKept
<1>1. launched[t] = None /\ \A x \in Muxes \ {t} : launched'[x] = launched[x]
  BY DEF StartLost, StartAgent, TypeOK
<1>2. AgentsKept
  BY <1>1 DEF AgentsKept
<1> QED BY <1>2, SameStoreKeeps, SameFrameKeeps DEF StartLost

(* A call that begins with no record, or with records of the table.        *)
LEMMA CallKeeps ==
  ASSUME TypeOK, UNCHANGED <<store, launched>>, NEW p \in Threads, NEW f,
         Begin(p, f),
         \A s \in Sessions : f.list[s] \in {None, store[s], frame[p].list[s]}
  PROVE  AgentsKept /\ StoreKept /\ ListsKept
<1>1. \A s \in Sessions : Kept(s, f.list[s])
  BY StoredIsKept, ListedIsKept DEF Kept
<1> QED BY <1>1, BeginKeeps, SameStoreKeeps, SameAgentsKept

LEMMA CleanupStartKeeps ==
  ASSUME TypeOK, CleanupStart
  PROVE  AgentsKept /\ StoreKept /\ ListsKept
<1> DEFINE f == [IdleFrame EXCEPT
       !.op = "cleanup", !.pc = "next",
       !.todo = { s \in Sessions : store[s] # None /\ Foreign(store[s]) }]
<1>1. \A s \in Sessions : f.list[s] = None
  BY DEF IdleFrame, NoRows
<1>2. UI \in Threads /\ Begin(UI, f) /\ UNCHANGED <<store, launched>>
  BY DEF CleanupStart, Threads
<1> HIDE DEF f
<1> QED BY <1>1, <1>2, CallKeeps

LEMMA ShutdownStartKeeps ==
  ASSUME TypeOK, ShutdownStart
  PROVE  AgentsKept /\ StoreKept /\ ListsKept
<1> DEFINE f == [IdleFrame EXCEPT
       !.op = "shutdown", !.pc = "next", !.list = store,
       !.todo = { s \in Sessions : store[s] # None },
       !.claimed = ClaimedExcluding(store, None)]
<1>1. \A s \in Sessions : f.list[s] = store[s]
  BY DEF IdleFrame
<1>2. UI \in Threads /\ Begin(UI, f) /\ UNCHANGED <<store, launched>>
  BY DEF ShutdownStart, Threads
<1> HIDE DEF f
<1> QED BY <1>1, <1>2, CallKeeps

LEMMA RenameKeeps ==
  ASSUME TypeOK, NEW s \in Sessions, Rename(s)
  PROVE  AgentsKept /\ StoreKept /\ ListsKept
<1> DEFINE f == [IdleFrame EXCEPT !.op = "rename", !.pc = "save", !.cur = s,
                                  !.list[s] = store[s]]
<1>1. \A x \in Sessions : f.list[x] \in {None, store[x]}
  BY DEF IdleFrame, NoRows
<1>2. UI \in Threads /\ Begin(UI, f) /\ UNCHANGED <<store, launched>>
  BY DEF Rename, Threads
<1> HIDE DEF f
<1> QED BY <1>1, <1>2, CallKeeps

LEMMA DeleteKeeps ==
  ASSUME TypeOK, NEW selected, Delete(selected)
  PROVE  AgentsKept /\ StoreKept /\ ListsKept
<1> DEFINE f == [IdleFrame EXCEPT !.op = "delete", !.pc = "commit",
                                  !.todo = selected]
<1>1. \A x \in Sessions : f.list[x] = None
  BY DEF IdleFrame, NoRows
<1>2. UI \in Threads /\ Begin(UI, f) /\ UNCHANGED <<store, launched>>
  BY DEF Delete, Threads
<1> HIDE DEF f
<1> QED BY <1>1, <1>2, CallKeeps

LEMMA RefreshStartKeeps ==
  ASSUME TypeOK, NEW p \in Threads, RefreshStart(p)
  PROVE  AgentsKept /\ StoreKept /\ ListsKept
<1> DEFINE f == [IdleFrame EXCEPT
              !.op = "refresh", !.pc = "resolve", !.list = store,
              !.todo = { s \in Sessions : store[s] # None
                             /\ ~(store[s] # None /\ store[s].token # Pending) },
              !.claimed = ClaimedExcluding(store, None)]
<1>1. \A x \in Sessions : f.list[x] = store[x]
  BY DEF IdleFrame
<1>2. Begin(p, f) /\ UNCHANGED <<store, launched>>
  BY DEF RefreshStart
<1> HIDE DEF f
<1> QED BY <1>1, <1>2, CallKeeps

LEMMA RefreshSyncKeeps ==
  ASSUME TypeOK, NEW p \in Threads, RefreshSync(p)
  PROVE  AgentsKept /\ StoreKept /\ ListsKept
<1> DEFINE f == [IdleFrame EXCEPT
             !.op = "refresh", !.pc = "signals", !.todo = Watched(p),
             !.alive = Reported(p),
             !.list = [s \in Sessions |-> IF s \in Watched(p)
                                          THEN frame[p].list[s] ELSE None]]
<1>1. \A x \in Sessions : f.list[x] \in {None, frame[p].list[x]}
  BY DEF IdleFrame
<1>2. Begin(p, f) \/ Begin(p, IdleFrame)
  BY DEF RefreshSync, Finish
<1>3. UNCHANGED <<store, launched>>
  BY DEF RefreshSync
<1>4. \A x \in Sessions : IdleFrame.list[x] = None
  BY DEF IdleFrame, NoRows
<1> HIDE DEF f
<1> QED BY <1>1, <1>2, <1>3, <1>4, CallKeeps

LEMMA CrashKeeps ==
  ASSUME TypeOK, Crash
  PROVE  AgentsKept /\ StoreKept /\ ListsKept
<1>1. ListsKept
  BY EmptyListKept DEF Crash, ListsKept
<1> QED BY <1>1, SameStoreKeeps, SameAgentsKept DEF Crash

(* Writing the record at hand, or nothing.                                 *)
LEMMA SaveHeldKeeps ==
  ASSUME TypeOK, UNCHANGED launched, NEW p \in Threads,
         Save(frame[p].cur, Held(p)) \/ UNCHANGED store,
         frame[p].pc \in Holding
  PROVE  AgentsKept /\ StoreKept
<1>1. frame[p].cur \in Sessions /\ Kept(frame[p].cur, Held(p))
  BY HeldIsARow, HeldIsKept
<1> QED BY <1>1, SaveKeeps, SameStoreKeeps, SameAgentsKept

LEMMA UIWritesKeep ==
  ASSUME TypeOK,
         LaunchPersist \/ Attach \/ SaveToken \/ SaveArtifacts \/ RenameSave
  PROVE  AgentsKept /\ StoreKept /\ ListsKept
<1>1. UI \in Threads /\ frame[UI].pc \in Holding
  BY FramesAreFrames
  DEF Threads, LaunchPersist, Attach, SaveToken, SaveArtifacts, RenameSave, At,
      Holding, Frame
<1>2. /\ Save(frame[UI].cur, Held(UI)) \/ UNCHANGED store
      /\ UNCHANGED launched
  BY DEF LaunchPersist, Attach, SaveToken, SaveArtifacts, RenameSave
<1>3. Finish(UI) \/ \E label \in {"attach", "kill", "exit", "next"} :
                      Goto(UI, label)
  BY DEF LaunchPersist, Attach, SaveToken, SaveArtifacts, RenameSave
<1>4. ListsKept
  BY <1>1, <1>3, FinishKeeps, GotoKeeps
<1> QED BY <1>1, <1>2, <1>4, SaveHeldKeeps

(* Steps that write no row and hold no other record than before.           *)
LEMMA QuietKeeps ==
  ASSUME TypeOK,
         \/ Kill \/ TerminateDone \/ CleanupDone \/ ShutdownDone
         \/ Start \/ Quit
         \/ \E s \in Sessions : ResumeRefused(s)
         \/ \E p \in Threads : RefreshDone(p)
  PROVE  AgentsKept /\ StoreKept /\ ListsKept
<1>1. UNCHANGED <<store, launched>>
  BY DEF Kill, TerminateDone, CleanupDone, ShutdownDone, Start, Quit,
         ResumeRefused, RefreshDone
<1>2. \/ UNCHANGED frame
      \/ \E p \in Threads : Finish(p)
      \/ \E p \in Threads, label \in Steps : Goto(p, label)
  <2>1. UI \in Threads
    BY DEF Threads
  <2>2. "retry" \in Steps /\ "exit" \in Steps /\ "next" \in Steps
    BY DEF Steps, StepsOf, Operations, ClosingSteps
  <2> QED
    BY <2>1, <2>2 DEF Kill, TerminateDone, CleanupDone, ShutdownDone, Start,
       Quit, ResumeRefused, RefreshDone
<1>3. ListsKept
  BY <1>2, SameFrameKeeps, FinishKeeps, GotoKeeps
<1> QED BY <1>1, <1>3, SameStoreKeeps, SameAgentsKept

LEMMA DeleteCommitKeeps ==
  ASSUME TypeOK, DeleteCommit
  PROVE  AgentsKept /\ StoreKept /\ ListsKept
<1>1. StoreKept
  BY StoredIsKept DEF DeleteCommit, StoreKept, Kept
<1>2. ListsKept
  BY FinishKeeps DEF DeleteCommit, Threads
<1> QED BY <1>1, <1>2, SameAgentsKept DEF DeleteCommit

(* A step that changes one record of the list a thread holds.              *)
LEMMA ListUpdateKeeps ==
  ASSUME TypeOK, NEW p \in Threads, NEW s \in Sessions, NEW row, Kept(s, row),
         \A q \in Threads : q # p => frame'[q] = frame[q],
         \A x \in Sessions :
           frame'[p].list[x] = IF x = s THEN row ELSE frame[p].list[x]
  PROVE  ListsKept
BY ListedIsKept DEF ListsKept

LEMMA RetryKeeps ==
  ASSUME TypeOK, Retry
  PROVE  AgentsKept /\ StoreKept /\ ListsKept
<1> DEFINE s == frame[UI].cur
<1>1. UI \in Threads /\ frame[UI] \in Frame /\ frame[UI].pc \in Holding
  BY FramesAreFrames DEF Threads, Retry, At, Holding, Frame
<1>2. s \in Sessions /\ Held(UI) \in Row /\ Kept(s, Held(UI))
  BY <1>1, HeldIsARow, HeldIsKept
<1>3. PICK r \in ResolvePending(UI, s, Held(UI), frame[UI].claimed) :
        frame' = [frame EXCEPT
             ![UI].pc = IF r.token = Pending THEN "exit" ELSE "tokenAgain",
             ![UI].list[s].token = r.token]
  BY DEF Retry
<1> DEFINE held == [Held(UI) EXCEPT !.token = r.token]
<1>4. Kept(s, held)
  <2>1. held \in Row /\ held.mux = Held(UI).mux /\ held.owner = Held(UI).owner
    BY <1>1, <1>2, <1>3, ResolvePendingType DEF Row
  <2> HIDE DEF held
  <2> QED BY <1>2, <2>1, TokenIsNoMatter
<1>5. ListsKept
  <2>1. \A q \in Threads : q # UI => frame'[q] = frame[q]
    BY <1>3 DEF TypeOK
  <2>2. \A x \in Sessions :
          frame'[UI].list[x] = IF x = s THEN held ELSE frame[UI].list[x]
    BY <1>1, <1>2, <1>3 DEF TypeOK, Frame, Rows, Held
  <2> HIDE DEF held
  <2> QED BY <1>1, <1>2, <1>4, <2>1, <2>2, ListUpdateKeeps
<1> QED BY <1>5, SameStoreKeeps, SameAgentsKept DEF Retry

LEMMA MarkExitedKeeps ==
  ASSUME TypeOK, MarkExited
  PROVE  AgentsKept /\ StoreKept /\ ListsKept
<1> DEFINE s == frame[UI].cur
           closed == ClosedRow(Held(UI))
<1>1. UI \in Threads /\ frame[UI] \in Frame /\ frame[UI].pc \in Holding
  BY FramesAreFrames DEF Threads, MarkExited, At, Holding, Frame
<1>2. s \in Sessions /\ Held(UI) \in Row /\ Kept(s, closed)
  BY <1>1, HeldIsARow, ClosedIsKept
<1>3. StoreKept
  BY <1>2, SaveKeeps, SameStoreKeeps DEF MarkExited
<1>4. ListsKept
  <2>1. CASE Goto(UI, "next")
    BY <1>1, <2>1, GotoKeeps
  <2>2. CASE ~Goto(UI, "next")
    <3>1. \A q \in Threads : q # UI => frame'[q] = frame[q]
      BY <2>2 DEF TypeOK, MarkExited
    <3>2. \A x \in Sessions :
            frame'[UI].list[x] = IF x = s THEN closed ELSE frame[UI].list[x]
      BY <1>1, <1>2, <2>2 DEF TypeOK, Frame, Rows, MarkExited
    <3> HIDE DEF closed
    <3> QED BY <1>1, <1>2, <3>1, <3>2, ListUpdateKeeps
  <2> QED BY <2>1, <2>2
<1> QED BY <1>3, <1>4, SameAgentsKept DEF MarkExited

(* The steps of a refresh.                                                 *)
LEMMA RefreshResolveKeeps ==
  ASSUME TypeOK, NEW p \in Threads, NEW s \in Sessions, RefreshResolve(p, s)
  PROVE  AgentsKept /\ StoreKept /\ ListsKept
<1>1. frame[p] \in Frame /\ FrameOK(frame[p]) /\ frame[p].op = "refresh"
  BY FramesAreFrames
  DEF RefreshResolve, At, FrameOK, Frame, Operations, StepsOf, ClosingSteps
<1> DEFINE row == frame[p].list[s]
<1>2. row \in Row /\ Kept(s, row)
  BY <1>1, ListedIsKept DEF FrameOK, Frame, Rows, RefreshResolve
<1>3. PICK r \in ResolvePending(p, s, row, frame[p].claimed) :
        frame' = [frame EXCEPT
            ![p].todo = @ \ {s},
            ![p].list[s].token = r.token,
            ![p].cur = IF r.token = Pending THEN None ELSE s,
            ![p].pc = IF r.token = Pending THEN "resolve" ELSE "refreshToken"]
  BY DEF RefreshResolve
<1> DEFINE held == [row EXCEPT !.token = r.token]
<1>4. Kept(s, held)
  <2>1. held \in Row /\ held.mux = row.mux /\ held.owner = row.owner
    BY <1>2, <1>3, ResolvePendingType DEF Row
  <2> HIDE DEF held, row
  <2> QED BY <1>2, <2>1, TokenIsNoMatter
<1>5. \A q \in Threads : q # p => frame'[q] = frame[q]
  BY <1>3 DEF TypeOK
<1>6. \A x \in Sessions :
        frame'[p].list[x] = IF x = s THEN held ELSE frame[p].list[x]
  BY <1>1, <1>3 DEF TypeOK, Frame, Rows
<1>7. ListsKept
  <2> HIDE DEF held
  <2> QED BY <1>4, <1>5, <1>6, ListUpdateKeeps
<1> QED BY <1>7, SameStoreKeeps, SameAgentsKept DEF RefreshResolve

LEMMA RefreshTokenKeeps ==
  ASSUME TypeOK, NEW p \in Threads, RefreshToken(p)
  PROVE  AgentsKept /\ StoreKept /\ ListsKept
<1>1. frame[p] \in Frame /\ frame[p].pc \in Holding
  BY FramesAreFrames DEF RefreshToken, At, Holding, Frame
<1>2. AgentsKept /\ StoreKept
  <2>1. Save(frame[p].cur, Held(p)) \/ UNCHANGED store
    BY DEF RefreshToken
  <2> QED BY <1>1, <2>1, SaveHeldKeeps DEF RefreshToken
<1>3. \A q \in Threads : frame'[q].list = frame[q].list
  <2>1. \A q \in Threads : q # p => frame'[q] = frame[q]
    BY DEF RefreshToken, TypeOK
  <2>2. \/ frame' = [frame EXCEPT
             ![p].pc = "resolve", ![p].cur = None,
             ![p].claimed = @ \cup {Held(p).token}]
        \/ frame' = [frame EXCEPT ![p].pc = "resolve", ![p].cur = None]
    BY DEF RefreshToken
  <2>3. frame'[p].list = frame[p].list
    BY <1>1, <2>2 DEF TypeOK, Frame
  <2> QED BY <2>1, <2>3
<1>4. ListsKept
  BY <1>3, ListedIsKept DEF ListsKept
<1> QED BY <1>2, <1>4

LEMMA RefreshQuietKeeps ==
  ASSUME TypeOK, NEW p \in Threads, NEW s \in Sessions, RefreshQuiet(p, s)
  PROVE  AgentsKept /\ StoreKept /\ ListsKept
<1>1. frame[p] \in Frame
  BY FramesAreFrames
<1>2. \A q \in Threads : q # p => frame'[q] = frame[q]
  BY DEF TypeOK, RefreshQuiet
<1>3. \A x \in Sessions :
        frame'[p].list[x] = IF x = s THEN None ELSE frame[p].list[x]
  BY <1>1 DEF TypeOK, Frame, Rows, RefreshQuiet
<1>4. Kept(s, None)
  BY DEF Kept
<1>5. ListsKept
  BY <1>2, <1>3, <1>4, ListUpdateKeeps
<1> QED BY <1>5, SameStoreKeeps, SameAgentsKept DEF RefreshQuiet

LEMMA RefreshSignalKeeps ==
  ASSUME TypeOK, NEW p \in Threads, NEW s \in Sessions, RefreshSignal(p, s)
  PROVE  AgentsKept /\ StoreKept /\ ListsKept
<1> DEFINE row == IF store[s] = None THEN frame[p].list[s] ELSE store[s]
           new == IF row.state = "Exited" THEN None ELSE row
<1>1. frame[p] \in Frame
  BY FramesAreFrames
<1>2. Kept(s, new)
  BY StoredIsKept, ListedIsKept DEF Kept
<1>3. \A q \in Threads : q # p => frame'[q] = frame[q]
  BY DEF TypeOK, RefreshSignal
<1>4. \A x \in Sessions :
        frame'[p].list[x] = IF x = s THEN new ELSE frame[p].list[x]
  BY <1>1 DEF TypeOK, Frame, Rows, RefreshSignal
<1>5. ListsKept
  <2> HIDE DEF new
  <2> QED BY <1>2, <1>3, <1>4, ListUpdateKeeps
<1> QED BY <1>5, SameStoreKeeps, SameAgentsKept DEF RefreshSignal

LEMMA RefreshWriteKeeps ==
  ASSUME TypeOK, NEW p \in Threads, RefreshWrite(p)
  PROVE  AgentsKept /\ StoreKept /\ ListsKept
<1> DEFINE s == frame[p].cur
<1>1. frame[p] \in Frame /\ frame[p].pc \in Holding
  BY FramesAreFrames DEF RefreshWrite, At, Holding, Frame
<1>2. s \in Sessions /\ Held(p) \in Row /\ Kept(s, Held(p))
  BY <1>1, HeldIsARow, HeldIsKept
<1>3. \A row \in Signalled(p) : Kept(s, row)
  <2>1. \A row \in Signalled(p) :
          row \in Row /\ row.mux = Held(p).mux /\ row.owner = Held(p).owner
    BY <1>2 DEF Signalled, Row
  <2> QED BY <1>2, <2>1, TokenIsNoMatter
<1>4. StoreKept
  BY <1>2, <1>3, SaveKeeps, SameStoreKeeps DEF RefreshWrite
<1>5. \A q \in Threads : q # p => frame'[q] = frame[q]
  BY DEF TypeOK, RefreshWrite
<1>6. \A x \in Sessions :
        frame'[p].list[x] = IF x = s THEN None ELSE frame[p].list[x]
  BY <1>1, <1>2 DEF TypeOK, Frame, Rows, RefreshWrite
<1>7. ListsKept
  <2>1. Kept(s, None)
    BY DEF Kept
  <2> QED BY <1>2, <1>5, <1>6, <2>1, ListUpdateKeeps
<1> QED BY <1>4, <1>7, SameAgentsKept DEF RefreshWrite

LEMMA EnvironmentKeeps ==
  ASSUME TypeOK, Environment
  PROVE  AgentsKept /\ StoreKept /\ ListsKept
<1>1. UNCHANGED <<store, frame>>
  BY DEF Environment, AgentEnds, TalkAppears, OutsideTalk
<1>2. AgentsKept
  <2>1. CASE \E t \in Muxes, c \in Conversations : TalkAppears(t, c)
    <3>1. PICK t \in Muxes, c \in Conversations : TalkAppears(t, c)
      BY <2>1
    <3>2. launched[t] \in Agent
      BY <3>1 DEF TypeOK, TalkAppears
    <3>3. launched'[t] = [launched[t] EXCEPT !.talk = c]
      BY <3>1 DEF TypeOK, TalkAppears
    <3>4. launched'[t] \in Agent
      BY <3>2, <3>3 DEF Agent
    <3>5. \A x \in Muxes \ {t} : launched'[x] = launched[x]
      BY <3>1 DEF TypeOK, TalkAppears
    <3> QED
      BY <3>2, <3>3, <3>4, <3>5, RecordAssumption DEF AgentsKept, Agent
  <2>2. CASE UNCHANGED launched
    BY <2>2, SameAgentsKept
  <2> QED BY <2>1, <2>2 DEF Environment, AgentEnds, OutsideTalk
<1> QED BY <1>1, <1>2, SameStoreKeeps, SameFrameKeeps

(* Starting an agent: its name is new, so no record names it yet, and the  *)
(* record the call begins with names it rightly.                           *)
LEMMA StartNamed ==
  ASSUME TypeOK, TypeOK', RowsNameTheirAgent, UNCHANGED <<store, instance>>,
         NEW s \in Sessions, NEW t \in Muxes,
         NEW talk \in {None} \cup Conversations, StartAgent(t, s, talk),
         NEW f \in Frame, Begin(UI, f), f.list[s] \in Row,
         f.list[s].mux = t, f.list[s].owner = instance,
         \A x \in Sessions \ {s} : f.list[x] = None
  PROVE  RowsNameTheirAgent'
<1> SUFFICES ASSUME NEW x \in Sessions, NEW row \in Records(x)'
             PROVE  NamesItsAgent(x, row)'
  BY DEF RowsNameTheirAgent
<1>1. UI \in Threads
  BY DEF Threads
<1>2. AgentsKept
  BY DEF AgentsKept, StartAgent, TypeOK
<1>3. row \in Row
  BY DEF TypeOK, Records, Rows, Frame
<1>4. CASE row \in Records(x)
  BY <1>2, <1>3, <1>4, NamesKept DEF RowsNameTheirAgent
<1>5. CASE x = s /\ row = f.list[s]
  <2>1. PICK pane \in NewPanes(t) :
          launched'[t] = [session |-> s, owner |-> instance, talk |-> talk,
                          pane |-> pane]
    BY DEF StartAgent, TypeOK
  <2>2. launched'[t] # None
    <3>1. pane \in Muxes
      BY NewPanesType
    <3>2. launched'[t] \in Agent
      BY <2>1, <3>1 DEF Agent, TypeOK
    <3> QED BY <3>2, RecordAssumption
  <2> QED BY <1>5, <2>1, <2>2, RecordAssumption DEF NamesItsAgent
<1>6. row \in Records(x) \/ (x = s /\ row = f.list[s])
  BY <1>1 DEF Records, Begin, TypeOK
<1> QED BY <1>4, <1>5, <1>6

LEMMA LaunchNamed ==
  ASSUME TypeOK, TypeOK', RowsNameTheirAgent,
         NEW s \in Sessions, NEW t \in Muxes, Launch(s, t)
  PROVE  RowsNameTheirAgent'
<1> DEFINE row == [state |-> "Live", token |-> InitialToken(s),
                   owner |-> instance, mux |-> t]
           f == [IdleFrame EXCEPT !.op = "launch", !.pc = "persist", !.cur = s,
                                  !.list[s] = row]
<1>1. UI \in Threads /\ frame' = [frame EXCEPT ![UI] = f]
  BY DEF Launch, Begin, Threads
<1>2. f \in Frame
  BY <1>1 DEF TypeOK
<1>3. f.list[s] = row /\ \A x \in Sessions \ {s} : f.list[x] = None
  BY DEF IdleFrame, NoRows
<1>4. row \in Row
  <2>1. InitialToken(s) \in Tokens
    BY FixedAssumption, ProviderAssumption DEF InitialToken, Tokens
  <2> QED BY <2>1, BoundAssumption DEF TypeOK, Row
<1>5. /\ StartAgent(t, s, Fixed[s]) /\ Begin(UI, f)
      /\ UNCHANGED <<store, instance>>
      /\ Fixed[s] \in {None} \cup Conversations
  BY FixedAssumption DEF Launch
<1>6. f.list[s].mux = t /\ f.list[s].owner = instance
  BY <1>3
<1> HIDE DEF f
<1> QED
  BY <1>2, <1>3, <1>4, <1>5, <1>6, StartNamed

LEMMA ResumeNamed ==
  ASSUME TypeOK, TypeOK', RowsNameTheirAgent,
         NEW s \in Sessions, NEW t \in Muxes, Resume(s, t)
  PROVE  RowsNameTheirAgent'
<1>1. PICK r \in Resolve(UI, s, store[s], {}) :
        /\ r.token # None
        /\ StartAgent(t, s, r.token)
        /\ Begin(UI, [IdleFrame EXCEPT
                        !.op = "resume", !.pc = "persist", !.cur = s,
                        !.list[s] = [state |-> "Live", token |-> r.token,
                                     owner |-> instance, mux |-> t]])
  BY DEF Resume
<1> DEFINE row == [state |-> "Live", token |-> r.token, owner |-> instance,
                   mux |-> t]
           f == [IdleFrame EXCEPT !.op = "resume", !.pc = "persist", !.cur = s,
                                  !.list[s] = row]
<1>2. UI \in Threads /\ frame' = [frame EXCEPT ![UI] = f]
  BY <1>1 DEF Begin, Threads
<1>3. f \in Frame
  BY <1>2 DEF TypeOK
<1>4. f.list[s] = row /\ \A x \in Sessions \ {s} : f.list[x] = None
  BY DEF IdleFrame, NoRows
<1>5. r.token \in Conversations
  <2>1. store[s] \in Row
    BY StoredIsARow DEF Resume, Resumable
  <2> QED BY <1>1, <1>2, <2>1, ResolveType
<1>6. row \in Row
  BY <1>5, BoundAssumption DEF TypeOK, Row, Tokens
<1>7. /\ StartAgent(t, s, r.token) /\ Begin(UI, f)
      /\ UNCHANGED <<store, instance>>
  BY <1>1 DEF Resume
<1>8. f.list[s].mux = t /\ f.list[s].owner = instance
  BY <1>4
<1> HIDE DEF f
<1> QED
  BY <1>3, <1>4, <1>5, <1>6, <1>7, <1>8, StartNamed

LEMMA StepNamed ==
  TypeOK /\ RowsNameTheirAgent /\ [Next]_vars => RowsNameTheirAgent'
<1> SUFFICES ASSUME TypeOK, RowsNameTheirAgent, [Next]_vars
             PROVE  RowsNameTheirAgent'
  OBVIOUS
<1>1. TypeOK'
  BY StepType
<1>2. CASE \E s \in Sessions, t \in Muxes : Launch(s, t) \/ Resume(s, t)
  BY <1>1, <1>2, LaunchNamed, ResumeNamed
<1>3. CASE AgentsKept /\ StoreKept /\ ListsKept
  BY <1>1, <1>3, KeptStep
<1>4. CASE UserCall
  BY <1>2, <1>3, <1>4, StartLostKeeps, QuietKeeps, TerminateKeeps, RenameKeeps, DeleteKeeps,
     ShutdownStartKeeps DEF UserCall
<1>5. CASE UIStep
  BY <1>3, <1>5, UIWritesKeep, QuietKeeps, RetryKeeps, MarkExitedKeeps,
     CleanupNextKeeps, ShutdownNextKeeps, DeleteCommitKeeps
  DEF UIStep, CloseStep
<1>6. CASE Environment
  BY <1>3, <1>6, EnvironmentKeeps
<1>7. CASE \E p \in Threads : RefreshStart(p) \/ RefreshStep(p)
  BY <1>3, <1>7, RefreshStartKeeps, RefreshTokenKeeps, RefreshSyncKeeps,
     RefreshWriteKeeps, RefreshResolveKeeps, RefreshQuietKeeps,
     RefreshSignalKeeps, QuietKeeps DEF RefreshStep
<1>8. CASE Start \/ CleanupStart \/ Quit \/ Crash
  BY <1>3, <1>8, QuietKeeps, CleanupStartKeeps, CrashKeeps
<1>9. CASE UNCHANGED vars
  BY <1>3, <1>9, SameAgentsKept, SameStoreKeeps, SameFrameKeeps DEF vars
<1> QED BY <1>4, <1>5, <1>6, <1>7, <1>8, <1>9 DEF Next

(* Whatever the threads overwrite, a row names only the tmux session that  *)
(* was started for it, and the instance that started it.                   *)
THEOREM AgentsAreNamed == Spec => []RowsNameTheirAgent
<1>1. Init => TypeOK /\ RowsNameTheirAgent
  <2>1. Init => RowsNameTheirAgent
    BY DEF Init, RowsNameTheirAgent, Records, NoRows, IdleFrame
  <2> QED BY <2>1, InitType
<1>2. /\ TypeOK /\ RowsNameTheirAgent /\ [Next]_vars
      => (TypeOK /\ RowsNameTheirAgent)'
  BY StepType, StepNamed
<1> QED
  BY <1>1, <1>2, PTL DEF Spec

-----------------------------------------------------------------------------
(* Whom closing hits                                                       *)

(* Why startup cleanup and shutdown keep to their agents: an app that is   *)
(* starting is alone with the table, so no row it has listed as foreign    *)
(* becomes its own, and what a shutdown holds until the kill is the row it *)
(* judged.                                                                 *)
OwnersOK ==
  /\ phase \in {"starting", "down", "crashed"} =>
       \A p \in Threads :
         \/ frame[p].op = "none"
         \/ p = UI /\ phase = "starting" /\ frame[p].op = "cleanup"
  /\ frame[UI].op = "cleanup" =>
       /\ phase = "starting"
       /\ \A s \in frame[UI].todo : store[s] # None => store[s].owner # instance
       /\ frame[UI].pc \in Holding => Held(UI).owner # instance
  /\ (frame[UI].op = "shutdown" /\ frame[UI].pc \in {"token", "kill"}) =>
       Held(UI).owner = instance

(* Outside startup a call that closes nothing, or one session the user     *)
(* chose, is no concern of OwnersOK.                                       *)
LEMMA PlainOwners ==
  ASSUME phase' \notin {"starting", "down", "crashed"},
         frame'[UI].op \notin {"cleanup", "shutdown"}
  PROVE  OwnersOK'
BY DEF OwnersOK

LEMMA OthersOwners ==
  ASSUME OwnersOK, phase \notin {"starting", "down", "crashed"},
         UNCHANGED <<phase, instance>>, frame'[UI] = frame[UI]
  PROVE  OwnersOK'
BY DEF OwnersOK, Held

LEMMA BegunFrame ==
  ASSUME TypeOK, NEW p \in Threads, NEW f, Begin(p, f)
  PROVE  frame'[p] = f
BY DEF TypeOK, Begin

LEMMA IdleThread ==
  ASSUME TypeOK, NEW p \in Threads, Idle(p)
  PROVE  frame[p].op = "none"
BY FramesAreFrames DEF Idle, FrameOK, Frame, Operations, StepsOf, ClosingSteps

LEMMA CallOwners ==
  ASSUME TypeOK, OwnersOK,
         \/ \E s \in Sessions : ResumeRefused(s) \/ Terminate(s) \/ Rename(s)
         \/ \E s \in Sessions, t \in Muxes : Launch(s, t) \/ Resume(s, t)
         \/ \E selected \in SUBSET Sessions : Delete(selected)
         \/ ShutdownStart
  PROVE  OwnersOK'
<1>1. UI \in Threads /\ frame[UI].op = "none" /\ phase = "running"
  BY IdleThread
  DEF Threads, ResumeRefused, Terminate, Rename, Launch, Resume, Delete,
      ShutdownStart, UIReady
<1>2. CASE ShutdownStart
  <2>1. frame'[UI].op = "shutdown" /\ frame'[UI].pc = "next"
    BY <1>1, <1>2 DEF ShutdownStart, Begin, TypeOK, IdleFrame
  <2>2. phase' = "closing"
    BY <1>2 DEF ShutdownStart
  <2> QED BY <2>1, <2>2 DEF OwnersOK
<1>3. CASE ~ShutdownStart
  <2>1. phase' = "running"
    BY <1>1, <1>3 DEF ResumeRefused, Terminate, Rename, Launch, Resume, Delete
  <2>2. frame'[UI].op \in {"none", "terminate", "rename", "launch", "resume",
                           "delete"}
    <3>2. CASE \E s \in Sessions : ResumeRefused(s)
      BY <1>1, <3>2 DEF ResumeRefused
    <3>3. CASE \E s \in Sessions : Terminate(s)
      <4>1. PICK s \in Sessions : Terminate(s)
        BY <3>3
      <4>2. PICK answered \in BOOLEAN,
                 r \in ResolvePending(UI, s, store[s], ClaimedExcluding(store, s)) :
              Begin(UI, [[IdleFrame EXCEPT !.op = "terminate"] EXCEPT
                 !.pc = IF r.token = store[s].token THEN "kill" ELSE "token",
                 !.cur = s,
                 !.list[s] = [store[s] EXCEPT !.token = r.token],
                 !.alive = IF answered THEN {s} ELSE {},
                 !.claimed = ClaimedExcluding(store, s)])
        BY <4>1 DEF Terminate, CloseBegin
      <4> DEFINE f == [[IdleFrame EXCEPT !.op = "terminate"] EXCEPT
                 !.pc = IF r.token = store[s].token THEN "kill" ELSE "token",
                 !.cur = s,
                 !.list[s] = [store[s] EXCEPT !.token = r.token],
                 !.alive = IF answered THEN {s} ELSE {},
                 !.claimed = ClaimedExcluding(store, s)]
      <4>3. Begin(UI, f) /\ f.op = "terminate"
        BY <4>2 DEF IdleFrame
      <4> HIDE DEF f
      <4> QED BY <1>1, <4>3, BegunFrame
    <3>4. CASE \E s \in Sessions : Rename(s)
      <4>1. PICK s \in Sessions : Rename(s)
        BY <3>4
      <4> DEFINE f == [IdleFrame EXCEPT !.op = "rename", !.pc = "save",
                                          !.cur = s, !.list[s] = store[s]]
      <4>2. Begin(UI, f) /\ f.op = "rename"
        BY <4>1 DEF Rename, IdleFrame
      <4> HIDE DEF f
      <4> QED BY <1>1, <4>2, BegunFrame
    <3>5. CASE \E s \in Sessions, t \in Muxes : Launch(s, t)
      <4>1. PICK s \in Sessions, t \in Muxes : Launch(s, t)
        BY <3>5
      <4> DEFINE f == [IdleFrame EXCEPT
                       !.op = "launch", !.pc = "persist", !.cur = s,
                       !.list[s] = [state |-> "Live", token |-> InitialToken(s),
                                    owner |-> instance, mux |-> t]]
      <4>2. Begin(UI, f) /\ f.op = "launch"
        BY <4>1 DEF Launch, IdleFrame
      <4> HIDE DEF f
      <4> QED BY <1>1, <4>2, BegunFrame
    <3>6. CASE \E s \in Sessions, t \in Muxes : Resume(s, t)
      <4>1. PICK s \in Sessions, t \in Muxes : Resume(s, t)
        BY <3>6
      <4>2. PICK r \in Resolve(UI, s, store[s], {}) :
              Begin(UI, [IdleFrame EXCEPT
                       !.op = "resume", !.pc = "persist", !.cur = s,
                       !.list[s] = [state |-> "Live", token |-> r.token,
                                    owner |-> instance, mux |-> t]])
        BY <4>1 DEF Resume
      <4> DEFINE f == [IdleFrame EXCEPT
                       !.op = "resume", !.pc = "persist", !.cur = s,
                       !.list[s] = [state |-> "Live", token |-> r.token,
                                    owner |-> instance, mux |-> t]]
      <4>3. Begin(UI, f) /\ f.op = "resume"
        BY <4>2 DEF IdleFrame
      <4> HIDE DEF f
      <4> QED BY <1>1, <4>3, BegunFrame
    <3>7. CASE \E selected \in SUBSET Sessions : Delete(selected)
      <4>1. PICK selected \in SUBSET Sessions : Delete(selected)
        BY <3>7
      <4> DEFINE f == [IdleFrame EXCEPT !.op = "delete", !.pc = "commit",
                                          !.todo = selected]
      <4>2. Begin(UI, f) /\ f.op = "delete"
        BY <4>1 DEF Delete, IdleFrame
      <4> HIDE DEF f
      <4> QED BY <1>1, <4>2, BegunFrame
    <3> QED BY <1>3, <3>2, <3>3, <3>4, <3>5, <3>6, <3>7
  <2> QED BY <2>1, <2>2, PlainOwners
<1> QED BY <1>2, <1>3

LEMMA OtherUIStepOwners ==
  ASSUME TypeOK, OwnersOK, LaunchPersist \/ Attach \/ RenameSave \/ DeleteCommit
  PROVE  OwnersOK'
<1>1. UI \in Threads /\ frame[UI] \in Frame /\ FrameOK(frame[UI])
  BY FramesAreFrames DEF Threads
<1>2. frame[UI].op \in {"launch", "resume", "rename", "delete"}
  BY <1>1 DEF LaunchPersist, Attach, RenameSave, DeleteCommit, At, FrameOK,
     Frame, Operations, StepsOf, ClosingSteps
<1>3. phase' \notin {"starting", "down", "crashed"}
  BY <1>1, <1>2
  DEF OwnersOK, LaunchPersist, Attach, RenameSave, DeleteCommit
<1>4. frame'[UI].op \in {frame[UI].op, "none"}
  BY <1>1 DEF LaunchPersist, Attach, RenameSave, DeleteCommit, Goto, Finish,
     Begin, TypeOK, Frame, IdleFrame
<1> QED BY <1>2, <1>3, <1>4, PlainOwners

LEMMA RefreshOwners ==
  ASSUME TypeOK, OwnersOK, NEW p \in Threads, RefreshStart(p) \/ RefreshStep(p)
  PROVE  OwnersOK'
<1>1. frame[p] \in Frame /\ FrameOK(frame[p]) /\ UI \in Threads
  BY FramesAreFrames DEF Threads
<1>2. phase \notin {"starting", "down", "crashed"}
  <2>1. CASE RefreshStart(p)
    BY <2>1 DEF RefreshStart, MayRefresh
  <2>2. CASE RefreshStep(p)
    <3>1. frame[p].op = "refresh"
      BY <1>1, <2>2
      DEF RefreshStep, RefreshToken, RefreshSync, RefreshWrite, RefreshDone,
          RefreshResolve, RefreshQuiet, RefreshSignal, At, FrameOK, Frame,
          Operations, StepsOf, ClosingSteps
    <3> QED BY <1>1, <3>1 DEF OwnersOK
  <2> QED BY <2>1, <2>2
<1>3. UNCHANGED <<phase, instance>>
  BY DEF RefreshStart, RefreshStep, RefreshToken, RefreshSync, RefreshWrite,
     RefreshDone, RefreshResolve, RefreshQuiet, RefreshSignal
<1>4. CASE p = UI
  <2>1. frame'[UI].op \in {"refresh", "none"}
    <3>1. CASE RefreshStart(p)
      <4> DEFINE settled(s) == store[s] # None /\ store[s].token # Pending
                 f == [IdleFrame EXCEPT
              !.op = "refresh", !.pc = "resolve", !.list = store,
              !.todo = { s \in Sessions : store[s] # None /\ ~settled(s) },
              !.claimed = ClaimedExcluding(store, None)]
      <4>1. Begin(p, f)
        BY <3>1 DEF RefreshStart
      <4>2. f.op = "refresh"
        BY DEF IdleFrame
      <4> HIDE DEF f
      <4> QED BY <1>1, <1>4, <4>1, <4>2 DEF Begin, TypeOK
    <3>2. CASE RefreshSync(p) \/ RefreshDone(p)
      <4> DEFINE f == [IdleFrame EXCEPT
             !.op = "refresh", !.pc = "signals", !.todo = Watched(p),
             !.alive = Reported(p),
             !.list = [s \in Sessions |-> IF s \in Watched(p)
                                          THEN frame[p].list[s] ELSE None]]
      <4>1. Begin(p, f) \/ Begin(p, IdleFrame)
        BY <3>2 DEF RefreshSync, RefreshDone, Finish
      <4>2. f.op = "refresh" /\ IdleFrame.op = "none"
        BY DEF IdleFrame
      <4> HIDE DEF f
      <4> QED BY <1>1, <1>4, <4>1, <4>2, BegunFrame
    <3>3. CASE /\ ~RefreshStart(p) /\ ~RefreshSync(p) /\ ~RefreshDone(p)
      <4>1. frame[UI].op = "refresh"
        BY <1>1, <1>4, <3>3
        DEF RefreshStep, RefreshToken, RefreshWrite, RefreshResolve,
            RefreshQuiet, RefreshSignal, At, FrameOK, Frame, Operations,
            StepsOf, ClosingSteps
      <4>2. frame'[UI].op = frame[UI].op
        <5>1. CASE RefreshToken(UI)
          BY <1>1, <5>1 DEF RefreshToken, TypeOK, Frame
        <5>2. CASE RefreshWrite(UI)
          BY <1>1, <5>2 DEF RefreshWrite, TypeOK, Frame
        <5>3. CASE \E s \in Sessions : RefreshResolve(UI, s)
          BY <1>1, <5>3 DEF RefreshResolve, TypeOK, Frame
        <5>4. CASE \E s \in Sessions : RefreshQuiet(UI, s)
          BY <1>1, <5>4 DEF RefreshQuiet, TypeOK, Frame
        <5>5. CASE \E s \in Sessions : RefreshSignal(UI, s)
          BY <1>1, <5>5 DEF RefreshSignal, TypeOK, Frame
        <5> QED
          BY <1>4, <3>3, <5>1, <5>2, <5>3, <5>4, <5>5 DEF RefreshStep
      <4> QED BY <4>1, <4>2
    <3> QED BY <3>1, <3>2, <3>3
  <2> QED BY <1>2, <1>3, <2>1, PlainOwners
<1>5. CASE p # UI
  <2>1. frame'[UI] = frame[UI]
    BY <1>1, <1>5
    DEF RefreshStart, RefreshStep, RefreshToken, RefreshSync, RefreshWrite,
        RefreshDone, RefreshResolve, RefreshQuiet, RefreshSignal, Begin, Finish,
        TypeOK
  <2> QED BY <1>2, <1>3, <2>1, OthersOwners
<1> QED BY <1>4, <1>5

(* What the steps of closing one session do to the call and its record.    *)
LEMMA ClosingShape ==
  ASSUME TypeOK, SaveToken \/ Kill \/ Retry \/ MarkExited \/ SaveArtifacts
  PROVE  /\ UNCHANGED <<phase, instance>>
         /\ \A p \in Threads : p # UI => frame'[p] = frame[p]
         /\ frame'[UI].op = frame[UI].op
         /\ frame'[UI].cur = frame[UI].cur
         /\ frame'[UI].todo = frame[UI].todo
         /\ Held(UI)'.owner \in {0, Held(UI).owner}
         /\ \/ frame'[UI].pc \notin {"token", "kill"}
            \/ /\ frame[UI].pc = "token" /\ frame'[UI].pc = "kill"
               /\ Held(UI)' = Held(UI)
         /\ \A s \in Sessions :
              \/ store'[s] = store[s]
              \/ store'[s] # None /\ store'[s].owner \in {0, Held(UI).owner}
<1> DEFINE s == frame[UI].cur
<1>1. /\ UI \in Threads /\ frame[UI] \in Frame
      /\ frame[UI].pc \in Holding
  BY FramesAreFrames
  DEF Threads, SaveToken, Kill, Retry, MarkExited, SaveArtifacts, At, Holding,
      Frame
<1>2. s \in Sessions /\ Held(UI) \in Row
  BY <1>1, HeldIsARow
<1>3. UNCHANGED <<phase, instance>>
  BY DEF SaveToken, Kill, Retry, MarkExited, SaveArtifacts
<1>4. ASSUME NEW row \in Row, Save(s, row), row.owner \in {0, Held(UI).owner}
      PROVE  \A x \in Sessions :
               \/ store'[x] = store[x]
               \/ store'[x] # None /\ store'[x].owner \in {0, Held(UI).owner}
  BY <1>2, <1>4, RecordAssumption DEF Save, TypeOK, Rows
<1>5. ASSUME NEW label, Goto(UI, label)
      PROVE  /\ \A p \in Threads : p # UI => frame'[p] = frame[p]
             /\ frame'[UI].op = frame[UI].op /\ frame'[UI].cur = frame[UI].cur
             /\ frame'[UI].todo = frame[UI].todo /\ frame'[UI].pc = label
             /\ Held(UI)' = Held(UI)
  BY <1>1, <1>5 DEF Goto, TypeOK, Frame, Held
<1>6. CASE SaveToken
  <2>1. Save(s, Held(UI)) \/ UNCHANGED store
    BY <1>6 DEF SaveToken
  <2>2. \/ frame[UI].pc = "token" /\ Goto(UI, "kill")
        \/ frame[UI].pc = "tokenAgain" /\ Goto(UI, "exit")
    BY <1>6 DEF SaveToken, At
  <2> QED BY <1>2, <1>3, <1>4, <1>5, <2>1, <2>2
<1>7. CASE Kill
  <2>1. \E label \in {"retry", "exit", "next"} : Goto(UI, label)
    BY <1>7 DEF Kill
  <2> QED BY <1>3, <1>5, <1>7, <2>1 DEF Kill
<1>8. CASE Retry
  <2>1. PICK r \in ResolvePending(UI, s, Held(UI), frame[UI].claimed) :
          frame' = [frame EXCEPT
             ![UI].pc = IF r.token = Pending THEN "exit" ELSE "tokenAgain",
             ![UI].list[s].token = r.token]
    BY <1>8 DEF Retry
  <2>2. /\ frame'[UI].op = frame[UI].op /\ frame'[UI].cur = s
        /\ frame'[UI].todo = frame[UI].todo
        /\ frame'[UI].pc \in {"exit", "tokenAgain"}
        /\ frame'[UI].list[s] = [Held(UI) EXCEPT !.token = r.token]
    BY <1>1, <1>2, <2>1 DEF TypeOK, Frame, Rows, Held
  <2>3. Held(UI)'.owner = Held(UI).owner
    BY <1>2, <2>2 DEF Held, Row
  <2>4. \A p \in Threads : p # UI => frame'[p] = frame[p]
    BY <2>1 DEF TypeOK
  <2> QED BY <1>3, <1>8, <2>2, <2>3, <2>4 DEF Retry
<1>9. CASE MarkExited
  <2> DEFINE closed == ClosedRow(Held(UI))
  <2>1. closed \in Row /\ closed.owner = 0
    BY <1>2, ClosedRowType DEF ClosedRow, Row
  <2>2. CASE Goto(UI, "next") /\ UNCHANGED store
    BY <1>3, <1>5, <2>2
  <2>3. CASE ~(Goto(UI, "next") /\ UNCHANGED store)
    <3>1. /\ Save(s, closed)
          /\ frame' = [frame EXCEPT
                 ![UI].pc = "artifacts",
                 ![UI].list[s] = closed,
                 ![UI].claimed = IF frame[UI].op = "shutdown"
                                 THEN @ \cup ({Held(UI).token} \ {Pending})
                                 ELSE @]
      BY <1>9, <2>3 DEF MarkExited
    <3> HIDE DEF closed
    <3>2. /\ frame'[UI].op = frame[UI].op /\ frame'[UI].cur = s
          /\ frame'[UI].todo = frame[UI].todo
          /\ frame'[UI].pc = "artifacts"
          /\ frame'[UI].list[s] = closed
      BY <1>1, <1>2, <3>1 DEF TypeOK, Frame, Rows
    <3>3. Held(UI)' = closed
      BY <3>2 DEF Held
    <3>4. \A p \in Threads : p # UI => frame'[p] = frame[p]
      BY <3>1 DEF TypeOK
    <3> QED BY <1>3, <1>4, <2>1, <3>1, <3>2, <3>3, <3>4
  <2> QED BY <2>2, <2>3
<1>10. CASE SaveArtifacts
  <2>1. Save(s, Held(UI)) \/ UNCHANGED store
    BY <1>10 DEF SaveArtifacts
  <2>2. Goto(UI, "next")
    BY <1>10 DEF SaveArtifacts
  <2> QED BY <1>2, <1>3, <1>4, <1>5, <2>1, <2>2
<1> QED BY <1>6, <1>7, <1>8, <1>9, <1>10

LEMMA ClosingOwners ==
  ASSUME TypeOK, OwnersOK,
         SaveToken \/ Kill \/ Retry \/ MarkExited \/ SaveArtifacts
  PROVE  OwnersOK'
<1>1. /\ UNCHANGED <<phase, instance>>
      /\ \A p \in Threads : p # UI => frame'[p] = frame[p]
      /\ frame'[UI].op = frame[UI].op
      /\ frame'[UI].todo = frame[UI].todo
      /\ Held(UI)'.owner \in {0, Held(UI).owner}
      /\ \/ frame'[UI].pc \notin {"token", "kill"}
         \/ /\ frame[UI].pc = "token" /\ frame'[UI].pc = "kill"
            /\ Held(UI)' = Held(UI)
      /\ \A s \in Sessions :
           \/ store'[s] = store[s]
           \/ store'[s] # None /\ store'[s].owner \in {0, Held(UI).owner}
  BY ClosingShape
<1>2. UI \in Threads /\ frame[UI] \in Frame /\ frame[UI].pc \in Holding
  BY FramesAreFrames
  DEF Threads, SaveToken, Kill, Retry, MarkExited, SaveArtifacts, At, Holding,
      Frame
<1>3. instance # 0
  BY DEF TypeOK
<1>4. ASSUME phase' \in {"starting", "down", "crashed"}, NEW p \in Threads
      PROVE  \/ frame'[p].op = "none"
             \/ p = UI /\ phase' = "starting" /\ frame'[p].op = "cleanup"
  BY <1>1, <1>4 DEF OwnersOK
<1>5. ASSUME frame'[UI].op = "cleanup"
      PROVE  /\ phase' = "starting"
             /\ \A s \in frame'[UI].todo :
                  store'[s] # None => store'[s].owner # instance'
             /\ Held(UI)'.owner # instance'
  <2>1. /\ phase = "starting" /\ Held(UI).owner # instance
        /\ \A s \in frame[UI].todo :
             store[s] # None => store[s].owner # instance
    BY <1>1, <1>2, <1>5 DEF OwnersOK
  <2>2. frame[UI].todo \subseteq Sessions
    BY <1>2 DEF Frame
  <2> QED BY <1>1, <1>3, <2>1, <2>2
<1>6. ASSUME frame'[UI].op = "shutdown", frame'[UI].pc \in {"token", "kill"}
      PROVE  Held(UI)'.owner = instance'
  BY <1>1, <1>6 DEF OwnersOK
<1> QED BY <1>4, <1>5, <1>6 DEF OwnersOK

(* The record a closing call takes up.                                     *)
LEMMA CloseBeginShape ==
  ASSUME TypeOK, NEW s \in Sessions, NEW row \in Row, NEW f \in Frame,
         NEW excluded, CloseBegin(s, row, f, excluded)
  PROVE  /\ frame'[UI].op = f.op /\ frame'[UI].todo = f.todo
         /\ Held(UI)'.owner = row.owner
         /\ \A p \in Threads : p # UI => frame'[p] = frame[p]
<1>1. UI \in Threads
  BY DEF Threads
<1>2. PICK answered \in BOOLEAN, r \in ResolvePending(UI, s, row, excluded) :
        Begin(UI, [f EXCEPT
                     !.pc = IF r.token = row.token THEN "kill" ELSE "token",
                     !.cur = s,
                     !.list[s] = [row EXCEPT !.token = r.token],
                     !.alive = IF answered THEN {s} ELSE {},
                     !.claimed = excluded])
  BY DEF CloseBegin
<1> DEFINE g == [f EXCEPT
                   !.pc = IF r.token = row.token THEN "kill" ELSE "token",
                   !.cur = s,
                   !.list[s] = [row EXCEPT !.token = r.token],
                   !.alive = IF answered THEN {s} ELSE {},
                   !.claimed = excluded]
<1>3. /\ g.op = f.op /\ g.todo = f.todo
      /\ g.list[g.cur].owner = row.owner
  BY DEF Frame, Rows, Row
<1>4. Begin(UI, g)
  BY <1>2
<1> HIDE DEF g
<1>5. frame'[UI] = g
  BY <1>1, <1>4, BegunFrame
<1>6. \A p \in Threads : p # UI => frame'[p] = frame[p]
  BY <1>4 DEF Begin, TypeOK
<1> QED BY <1>3, <1>5, <1>6 DEF Held

LEMMA CleanupNextOwners ==
  ASSUME TypeOK, OwnersOK, NEW s \in Sessions, CleanupNext(s)
  PROVE  OwnersOK'
<1> DEFINE f == [IdleFrame EXCEPT !.op = "cleanup", !.pc = "next",
                                  !.todo = Remaining(s)]
<1>1. /\ UI \in Threads /\ frame[UI] \in Frame
      /\ frame[UI].op = "cleanup" /\ s \in frame[UI].todo
      /\ UNCHANGED <<store, phase, instance>>
  BY FramesAreFrames DEF Threads, CleanupNext
<1>2. /\ f \in Frame /\ f.op = "cleanup" /\ f.pc = "next"
      /\ f.todo \subseteq frame[UI].todo
  <2>1. "next" \in Steps
    BY DEF Steps, StepsOf, Operations, ClosingSteps
  <2> QED
    BY <1>1, <2>1, IdleFrameType DEF IdleFrame, Frame, Operations, Remaining
<1>3. \/ Begin(UI, f)
      \/ /\ store[s] # None
         /\ CloseBegin(s, store[s], f, ClaimedExcluding(store, s))
  BY DEF CleanupNext
<1> HIDE DEF f
<1>4. /\ frame'[UI].op = "cleanup"
      /\ frame'[UI].todo \subseteq frame[UI].todo
      /\ frame'[UI].pc \in Holding => Held(UI)'.owner # instance
      /\ \A p \in Threads : p # UI => frame'[p] = frame[p]
  <2>1. CASE Begin(UI, f)
    <3>1. frame'[UI] = f
      BY <1>1, <2>1, BegunFrame
    <3>2. \A p \in Threads : p # UI => frame'[p] = frame[p]
      BY <2>1 DEF Begin, TypeOK
    <3> QED BY <1>2, <3>1, <3>2 DEF Holding
  <2>2. CASE /\ store[s] # None
             /\ CloseBegin(s, store[s], f, ClaimedExcluding(store, s))
    <3>1. store[s] \in Row /\ store[s].owner # instance
      BY <1>1, <2>2, StoredIsARow DEF OwnersOK
    <3> QED BY <1>2, <2>2, <3>1, CloseBeginShape
  <2> QED BY <1>3, <2>1, <2>2
<1>5. phase = "starting"
  BY <1>1 DEF OwnersOK
<1> QED BY <1>1, <1>4, <1>5 DEF OwnersOK

LEMMA ShutdownNextOwners ==
  ASSUME TypeOK, OwnersOK, NEW s \in Sessions, ShutdownNext(s)
  PROVE  OwnersOK'
<1> DEFINE row == frame[UI].list[s]
           f == [frame[UI] EXCEPT !.todo = Remaining(s)]
<1>1. /\ UI \in Threads /\ frame[UI] \in Frame /\ FrameOK(frame[UI])
      /\ frame[UI].op = "shutdown" /\ frame[UI].pc = "next"
      /\ s \in frame[UI].todo /\ UNCHANGED <<phase, instance>>
  BY FramesAreFrames DEF Threads, ShutdownNext, At
<1>2. phase \notin {"starting", "down", "crashed"}
  BY <1>1 DEF OwnersOK
<1>3. f \in Frame /\ f.op = "shutdown" /\ f.pc = "next"
  BY <1>1 DEF Frame, Remaining
<1>4. row \in Row
  BY <1>1 DEF FrameOK, Frame, Rows
<1>5. \/ Begin(UI, f)
      \/ row.owner = instance /\ CloseBegin(s, row, f, frame[UI].claimed)
  BY DEF ShutdownNext, ShouldShutdown
<1> HIDE DEF f, row
<1>6. /\ frame'[UI].op = "shutdown"
      /\ frame'[UI].pc \in {"token", "kill"} => Held(UI)'.owner = instance
  <2>1. CASE Begin(UI, f)
    BY <1>1, <1>3, <2>1, BegunFrame
  <2>2. CASE row.owner = instance /\ CloseBegin(s, row, f, frame[UI].claimed)
    BY <1>3, <1>4, <2>2, CloseBeginShape
  <2> QED BY <1>5, <2>1, <2>2
<1> QED BY <1>1, <1>2, <1>6 DEF OwnersOK

LEMMA DoneOwners ==
  ASSUME TypeOK, OwnersOK, TerminateDone \/ CleanupDone \/ ShutdownDone
  PROVE  OwnersOK'
<1>1. UI \in Threads /\ Begin(UI, IdleFrame)
  BY DEF Threads, TerminateDone, CleanupDone, ShutdownDone, Finish
<1>2. frame'[UI].op = "none"
  BY <1>1, BegunFrame DEF IdleFrame
<1>3. phase' \notin {"starting", "down", "crashed"}
  BY <1>1 DEF OwnersOK, TerminateDone, CleanupDone, ShutdownDone
<1> QED BY <1>2, <1>3, PlainOwners

LEMMA CleanupStartOwners ==
  ASSUME TypeOK, OwnersOK, CleanupStart
  PROVE  OwnersOK'
<1> DEFINE f == [IdleFrame EXCEPT
       !.op = "cleanup", !.pc = "next",
       !.todo = { s \in Sessions : store[s] # None /\ Foreign(store[s]) }]
<1>1. UI \in Threads /\ Begin(UI, f) /\ phase = "starting"
      /\ UNCHANGED <<store, phase, instance>>
  BY DEF CleanupStart, Threads
<1>2. /\ f.op = "cleanup" /\ f.pc = "next"
      /\ \A s \in f.todo : store[s] # None => store[s].owner # instance
  BY DEF IdleFrame, Foreign
<1> HIDE DEF f
<1>3. frame'[UI] = f /\ \A p \in Threads : p # UI => frame'[p] = frame[p]
  BY <1>1, BegunFrame DEF Begin, TypeOK
<1>4. "next" \notin Holding
  BY DEF Holding
<1> QED BY <1>1, <1>2, <1>3, <1>4 DEF OwnersOK

(* The app comes and goes only while nobody works on the table.            *)
LEMMA LifeOwners ==
  ASSUME TypeOK, OwnersOK, Start \/ Quit \/ Crash
  PROVE  OwnersOK'
<1>1. UI \in Threads
  BY DEF Threads
<1>2. \A p \in Threads : frame'[p].op = "none"
  <2>1. CASE Start
    BY <2>1 DEF Start, OwnersOK
  <2>2. CASE Quit
    BY <2>2, IdleThread DEF Quit
  <2>3. CASE Crash
    BY <2>3 DEF Crash, IdleFrame
  <2> QED BY <2>1, <2>2, <2>3
<1> QED BY <1>1, <1>2 DEF OwnersOK

LEMMA EnvironmentOwners ==
  ASSUME OwnersOK, Environment \/ UNCHANGED vars
  PROVE  OwnersOK'
<1>1. UNCHANGED <<store, frame, phase, instance>>
  BY DEF Environment, AgentEnds, TalkAppears, OutsideTalk, vars
<1> QED BY <1>1 DEF OwnersOK, Held

LEMMA StartLostOwners ==
  ASSUME OwnersOK, NEW s \in Sessions, NEW t \in Muxes, StartLost(s, t)
  PROVE  OwnersOK'
BY OthersOwners DEF StartLost, UIReady

LEMMA StepOwners ==
  ASSUME TypeOK, OwnersOK, [Next]_vars
  PROVE  OwnersOK'
<1>1. CASE UserCall
  BY <1>1, CallOwners, StartLostOwners DEF UserCall
<1>2. CASE UIStep
  BY <1>2, OtherUIStepOwners, ClosingOwners, CleanupNextOwners,
     ShutdownNextOwners, DoneOwners DEF UIStep, CloseStep
<1>3. CASE \E p \in Threads : RefreshStart(p) \/ RefreshStep(p)
  BY <1>3, RefreshOwners
<1>4. CASE Start \/ CleanupStart \/ Quit \/ Crash
  BY <1>4, LifeOwners, CleanupStartOwners
<1>5. CASE Environment \/ UNCHANGED vars
  BY <1>5, EnvironmentOwners
<1> QED BY <1>1, <1>2, <1>3, <1>4, <1>5 DEF Next

(* kill-session ends the agent of the session being closed; in the cleanup *)
(* of a starting app one of another instance, in a shutdown one of its own.*)
THEOREM ClosingHitsItsOwn == Spec => KillsItsOwn
<1> DEFINE Invariants == TypeOK /\ RowsNameTheirAgent /\ OwnersOK
           Aimed == Kill => \A t \in live \ live' :
             /\ launched[t].session = frame[UI].cur
             /\ frame[UI].op = "cleanup" => launched[t].owner # instance
             /\ frame[UI].op = "shutdown" => launched[t].owner = instance
<1>1. Init => Invariants
  <2>1. Init => OwnersOK
    BY DEF Init, OwnersOK, IdleFrame, Threads
  <2>2. Init => RowsNameTheirAgent
    BY DEF Init, RowsNameTheirAgent, Records, NoRows, IdleFrame
  <2> QED BY <2>1, <2>2, InitType
<1>2. Invariants /\ [Next]_vars => Invariants'
  BY StepType, StepNamed, StepOwners
<1>3. Invariants => Aimed
  <2> SUFFICES ASSUME Invariants, Kill, NEW t \in live \ live'
               PROVE  /\ launched[t].session = frame[UI].cur
                      /\ frame[UI].op = "cleanup" =>
                           launched[t].owner # instance
                      /\ frame[UI].op = "shutdown" =>
                           launched[t].owner = instance
    OBVIOUS
  <2>1. UI \in Threads /\ frame[UI].pc = "kill" /\ frame[UI].pc \in Holding
    BY FramesAreFrames DEF Threads, Kill, At, Holding, Frame
  <2>2. t = Held(UI).mux /\ t \in Muxes
    BY DEF Kill, TypeOK
  <2>3. frame[UI].cur \in Sessions /\ Held(UI) \in Records(frame[UI].cur)
    BY <2>1, HeldIsARow, RecordAssumption DEF Records, Held
  <2>4. NamesItsAgent(frame[UI].cur, Held(UI))
    BY <2>3 DEF RowsNameTheirAgent
  <2>5. /\ launched[t].session = frame[UI].cur
        /\ launched[t].owner = Held(UI).owner
    BY <2>2, <2>4, RecordAssumption DEF NamesItsAgent
  <2> QED BY <2>1, <2>5 DEF OwnersOK
<1>4. Aimed => [Aimed]_vars
  OBVIOUS
<1> HIDE DEF Invariants
<1> QED
  BY <1>1, <1>2, <1>3, <1>4, PTL DEF Spec, KillsItsOwn

=============================================================================
