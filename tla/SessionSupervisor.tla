-------------------------- MODULE SessionSupervisor --------------------------
(***************************************************************************)
(* SessionSupervisor: launch, resume, terminate, delete, rename, refresh,  *)
(* the cleanup of a starting app and the shutdown of a closing one.        *)
(*                                                                         *)
(* Every operation runs on some thread against the sessions table and the  *)
(* tmux server, and is broken here into the steps another thread or a      *)
(* crash can fall between: a step is at most one write to the table or one *)
(* tmux command.  The UI thread owns one supervisor and runs everything;   *)
(* a worker thread owns another one, with its own baselines and the empty  *)
(* owner id, and runs refreshSessionStates only.  A write replaces the     *)
(* whole row by the record the thread holds in memory.                     *)
(*                                                                         *)
(* With no workers the module is the supervisor as its tests drive it.     *)
(***************************************************************************)
EXTENDS Naturals, ResumeTokens

CONSTANTS
  Muxes,           \* names of tmux sessions, never reused (uuid suffix)
  RecentHold,      \* providers whose recent activity outweighs new signals
  UI,              \* the UI thread
  Monitors,        \* session-monitor threads: the runtime is kept
  Refreshers,      \* refresh threads: a new runtime for every refresh
  MaxInstances,    \* bound: how often the app is started
  MaxFaults        \* bound: crashes, failed writes and failed tmux commands

ASSUME ThreadAssumption == UI \notin Monitors \cup Refreshers

ASSUME HoldAssumption == RecentHold \subseteq Providers

ASSUME BoundAssumption == MaxInstances \in Nat \ {0} /\ MaxFaults \in Nat

Workers == Monitors \cup Refreshers
Threads == {UI} \cup Workers

VARIABLES
  store,      \* sessions table: the row of each session id, or None
  live,       \* tmux sessions that exist
  launched,   \* what each tmux session was started for, or None
  visible,    \* provider conversations the resolvers can see
  frame,      \* what each thread is doing, and the records it holds
  baseline,   \* m_pendingResumeResolutions of each supervisor
  phase,      \* of the app: starting, running, closing, closed, down, crashed
  instance,   \* owner id of the running app
  born,       \* session ids handed out so far
  failed,     \* tmux sessions a failed command or a crash left behind
  faults      \* failures so far

vars == <<store, live, launched, visible, frame, baseline, phase, instance,
          born, failed, faults>>

-----------------------------------------------------------------------------
(* Types                                                                   *)

Row == [state : {"Live", "Exited"},     \* Live: any state but Exited
        token : Tokens,
        owner : 0..MaxInstances,        \* 0: no owner
        mux   : Muxes \cup {None}]

Agent == [session : Sessions,
          owner : 1..MaxInstances,
          talk : Conversations \cup {None},  \* the conversation it writes
          pane : Muxes]      \* its pane id, by the first agent that had it

Rows == [Sessions -> {None} \cup Row]
ASSUME RecordAssumption == None \notin Muxes \cup Row \cup Agent

NoRows == [s \in Sessions |-> None]
NoBaselines == [s \in Sessions |-> None]

(* op and pc: the call and where it stands; cur: the row at hand; list: the *)
(* records in memory; todo: rows still to do; alive: rows whose tmux        *)
(* session answered; claimed: claimedProviderSessionIds.                    *)
Operations == {"none", "launch", "resume", "terminate", "cleanup", "shutdown",
               "refresh", "rename", "delete"}

ClosingSteps == {"next", "token", "kill", "retry", "tokenAgain", "exit",
                 "artifacts"}

StepsOf(op) ==
  CASE op = "none" -> {"idle"}
    [] op \in {"launch", "resume"} -> {"persist", "attach"}
    [] op \in {"terminate", "cleanup", "shutdown"} -> ClosingSteps
    [] op = "refresh" -> {"resolve", "refreshToken", "signals", "signalWrite"}
    [] op = "rename" -> {"save"}
    [] op = "delete" -> {"commit"}

Steps == UNION { StepsOf(op) : op \in Operations }

Frame == [op : Operations,
          pc : Steps,
          cur : {None} \cup Sessions,
          list : Rows,
          todo : SUBSET Sessions,
          alive : SUBSET Sessions,
          claimed : SUBSET Conversations]

(* Steps at which the thread has a record in memory that it will write.     *)
Holding == Steps \ {"idle", "next", "resolve", "signals", "commit"}

FrameOK(f) ==
  /\ f.pc \in StepsOf(f.op)
  /\ f.pc \in Holding => f.cur # None /\ f.list[f.cur] # None
  /\ f.pc = "persist" => f.list[f.cur].mux # None
  /\ f.pc = "refreshToken" => f.list[f.cur].token # Pending
  /\ f.pc = "signalWrite" => f.cur \notin f.todo
  /\ f.op \in {"shutdown", "refresh"} => \A s \in f.todo : f.list[s] # None

IdleFrame == [op |-> "none", pc |-> "idle", cur |-> None, list |-> NoRows,
              todo |-> {}, alive |-> {}, claimed |-> {}]

TypeOK ==
  /\ store \in Rows
  /\ live \subseteq Muxes
  /\ launched \in [Muxes -> {None} \cup Agent]
  /\ visible \subseteq Conversations
  /\ frame \in [Threads -> Frame] /\ \A p \in Threads : FrameOK(frame[p])
  /\ baseline \in [Threads -> [Sessions -> {None} \cup SUBSET Conversations]]
  /\ phase \in {"starting", "running", "closing", "closed", "down", "crashed"}
  /\ instance \in 1..MaxInstances
  /\ born \subseteq Sessions
  /\ failed \subseteq Muxes
  /\ faults \in 0..MaxFaults

Init ==
  /\ store = NoRows
  /\ live = {}
  /\ launched = [t \in Muxes |-> None]
  /\ visible = {}
  /\ frame = [p \in Threads |-> IdleFrame]
  /\ baseline = [p \in Threads |-> NoBaselines]
  /\ phase = "starting"
  /\ instance = 1
  /\ born = {}
  /\ failed = {}
  /\ faults = 0

-----------------------------------------------------------------------------
(* Steps shared by the operations                                          *)

Idle(p) == frame[p].pc = "idle"
At(p, label) == frame[p].pc = label
Held(p) == frame[p].list[frame[p].cur]      \* the record in memory
UIReady == phase = "running" /\ Idle(UI)

Fault(n) == faults + n <= MaxFaults /\ faults' = faults + n

Save(s, row) == store' = [store EXCEPT ![s] = row]
Begin(p, f) == frame' = [frame EXCEPT ![p] = f]
Goto(p, label) == frame' = [frame EXCEPT ![p].pc = label]
Finish(p) == Begin(p, IdleFrame)
SetBaseline(p, s, b) == baseline' = [baseline EXCEPT ![p][s] = b]

Known(s) == visible \cap Catalog[Provider[s]]

(* Pane ids are unique to a tmux server.  The server ends with its last    *)
(* session, and the next one counts from %0 again.  A row whose pane id    *)
(* display-message failed to tell is found by name alone, like one with an *)
(* id nobody else has.                                                     *)
NewPanes(t) ==
  {t} \cup { launched[x].pane :
               x \in { y \in Muxes : live = {} /\ launched[y] # None } }

(* Mutant: a tmux name may come back once its session is gone.             *)
StartAgentNameReused(t, s, talk) ==
  /\ t \notin live
  /\ \E pane \in NewPanes(t) :
       launched' = [launched EXCEPT
                      ![t] = [session |-> s, owner |-> instance,
                              talk |-> talk, pane |-> pane]]
  /\ live' = live \cup {t}

(* tmux new-session with the provider's command line.                      *)
StartAgent(t, s, talk) ==
  /\ launched[t] = None
  /\ \E pane \in NewPanes(t) :
       launched' = [launched EXCEPT
                      ![t] = [session |-> s, owner |-> instance,
                              talk |-> talk, pane |-> pane]]
  /\ live' = live \cup {t}

(* resolveResumeToken.                                                     *)
Resolve(p, s, row, excluded) ==
  IF row.token # Pending
  THEN {[token |-> row.token, base |-> baseline[p][s]]}
  ELSE Resolutions(s, Known(s), excluded \cup ClaimedExcluding(store, s),
                   baseline[p][s], Recoverable(row))

(* Mutant: nothing found is taken for a token.                             *)
ResolvePendingBlank(p, s, row, excluded) ==
  IF row.token # Pending
  THEN {[token |-> row.token, base |-> None]}
  ELSE Resolve(p, s, row, excluded)

(* resolvePendingResumeToken up to its write: the token the record in      *)
(* memory gets, and the baseline.                                          *)
ResolvePending(p, s, row, excluded) ==
  IF row.token # Pending
  THEN {[token |-> row.token, base |-> None]}
  ELSE { [token |-> IF r.token = None THEN Pending ELSE r.token,
          base |-> r.base] : r \in Resolve(p, s, row, excluded) }

-----------------------------------------------------------------------------
(* launchSession and resumeSession                                         *)

Launch(s, t) ==
  /\ UIReady
  /\ s \notin born
  /\ StartAgent(t, s, Fixed[s])
  /\ born' = born \cup {s}
  /\ Begin(UI, [IdleFrame EXCEPT
                  !.op = "launch", !.pc = "persist", !.cur = s,
                  !.list[s] = [state |-> "Live", token |-> InitialToken(s),
                               owner |-> instance, mux |-> t]])
  /\ UNCHANGED <<store, visible, baseline, phase, instance, failed, faults>>

(* Mutant: a live row can be resumed.                                      *)
ResumableAnyState(s) == store[s] # None

Resumable(s) == store[s] # None /\ store[s].state = "Exited"

(* The token is asked for before anything else happens; without one the    *)
(* call is refused, though the search may have taken a baseline.           *)
ResumeRefused(s) ==
  /\ UIReady
  /\ Resumable(s)
  /\ \E r \in Resolve(UI, s, store[s], {}) :
       /\ r.token = None
       /\ SetBaseline(UI, s, r.base)
  /\ UNCHANGED <<store, live, launched, visible, frame, phase, instance,
                 born, failed, faults>>

Resume(s, t) ==
  /\ UIReady
  /\ Resumable(s)
  /\ \E r \in Resolve(UI, s, store[s], {}) :
       /\ r.token # None
       /\ StartAgent(t, s, r.token)
       /\ Begin(UI, [IdleFrame EXCEPT
                       !.op = "resume", !.pc = "persist", !.cur = s,
                       !.list[s] = [state |-> "Live", token |-> r.token,
                                    owner |-> instance, mux |-> t]])
  /\ UNCHANGED <<store, visible, baseline, phase, instance, born, failed,
                 faults>>

(* A new-session that takes effect after the caller gave it up: the launch *)
(* or the resume has failed, and no row knows of the agent.                *)
StartLost(s, t) ==
  /\ UIReady
  /\ \/ /\ s \notin born
        /\ StartAgent(t, s, Fixed[s])
        /\ born' = born \cup {s}
     \/ /\ Resumable(s)
        /\ \E r \in Resolve(UI, s, store[s], {}) :
             r.token # None /\ StartAgent(t, s, r.token)
        /\ UNCHANGED born
  /\ Fault(1) /\ failed' = failed \cup {t}
  /\ UNCHANGED <<store, visible, frame, baseline, phase, instance>>

(* The first write of the new row.  When it fails the tmux session is      *)
(* killed again, which may fail as well.  A launch then takes its baseline.*)
LaunchPersist ==
  /\ At(UI, "persist")
  /\ LET s == frame[UI].cur
         t == Held(UI).mux
     IN  \/ /\ Save(s, Held(UI))
            /\ Goto(UI, "attach")
            /\ IF frame[UI].op = "launch" /\ Provider[s] \in Scanning
               THEN SetBaseline(UI, s, Known(s))
               ELSE UNCHANGED baseline
            /\ UNCHANGED <<live, failed, faults>>
         \/ /\ Finish(UI)
            /\ \/ Fault(1) /\ live' = live \ {t} /\ UNCHANGED failed
               \/ Fault(2) /\ failed' = failed \cup {t} /\ UNCHANGED live
            /\ UNCHANGED <<store, baseline>>
  /\ UNCHANGED <<launched, visible, phase, instance, born>>

(* The MonitorAttached signal the launch applies to its own record.        *)
Attach ==
  /\ At(UI, "attach")
  /\ \/ Save(frame[UI].cur, Held(UI)) /\ UNCHANGED faults
     \/ Fault(1) /\ UNCHANGED store
  /\ IF frame[UI].op = "resume"
     THEN SetBaseline(UI, frame[UI].cur, None)
     ELSE UNCHANGED baseline
  /\ Finish(UI)
  /\ UNCHANGED <<live, launched, visible, phase, instance, born, failed>>

-----------------------------------------------------------------------------
(* Closing one session: terminateSession, and the loop bodies of           *)
(* cleanupForeignOwnedSessionsForStartup and of                            *)
(* shutdownOwnedSessionsForAppExit, which take the same steps.             *)

(* has-session, then the first search for the resume token.  A has-session *)
(* that times out reads as "not live".                                     *)
CloseBegin(s, row, f, excluded) ==
  \E answered \in BOOLEAN :
    /\ answered => row.mux \in live
    /\ IF row.mux \in live /\ ~answered
       THEN Fault(1) /\ failed' = failed \cup {row.mux}
       ELSE UNCHANGED <<failed, faults>>
    /\ \E r \in ResolvePending(UI, s, row, excluded) :
         /\ SetBaseline(UI, s, r.base)
         /\ Begin(UI, [f EXCEPT
                         !.pc = IF r.token = row.token THEN "kill" ELSE "token",
                         !.cur = s,
                         !.list[s] = [row EXCEPT !.token = r.token],
                         !.alive = IF answered THEN {s} ELSE {},
                         !.claimed = excluded])

Terminate(s) ==
  /\ UIReady
  /\ store[s] # None
  /\ CloseBegin(s, store[s], [IdleFrame EXCEPT !.op = "terminate"],
                ClaimedExcluding(store, s))
  /\ UNCHANGED <<store, live, launched, visible, phase, instance, born>>

(* The write of resolvePendingResumeToken.  If it fails the token stays in *)
(* the record in memory.                                                   *)
SaveToken ==
  /\ At(UI, "token") \/ At(UI, "tokenAgain")
  /\ \/ /\ Save(frame[UI].cur, Held(UI))
        /\ SetBaseline(UI, frame[UI].cur, None)
        /\ UNCHANGED faults
     \/ Fault(1) /\ UNCHANGED <<store, baseline>>
  /\ Goto(UI, IF At(UI, "token") THEN "kill" ELSE "exit")
  /\ UNCHANGED <<live, launched, visible, phase, instance, born, failed>>

(* kill-session.  A failure, or an agent that ended by itself meanwhile,   *)
(* abandons this session: the row is left as it is.                        *)
Kill ==
  /\ At(UI, "kill")
  /\ LET t == Held(UI).mux
         onward == IF Held(UI).token = Pending THEN "retry" ELSE "exit"
     IN  \/ /\ frame[UI].alive = {}
            /\ Goto(UI, onward)
            /\ UNCHANGED <<live, failed, faults>>
         \/ /\ frame[UI].alive # {}
            /\ t \in live
            /\ live' = live \ {t}
            /\ Goto(UI, onward)
            /\ UNCHANGED <<failed, faults>>
         \/ /\ frame[UI].alive # {}
            /\ IF t \in live
               THEN Fault(1) /\ failed' = failed \cup {t}
               ELSE UNCHANGED <<failed, faults>>
            /\ Goto(UI, "next")
            /\ UNCHANGED live
  /\ UNCHANGED <<store, launched, visible, baseline, phase, instance, born>>

(* The second search, now that the agent is gone.                          *)
Retry ==
  /\ At(UI, "retry")
  /\ LET s == frame[UI].cur
     IN  \E r \in ResolvePending(UI, s, Held(UI), frame[UI].claimed) :
           /\ SetBaseline(UI, s, r.base)
           /\ frame' = [frame EXCEPT
                ![UI].pc = IF r.token = Pending THEN "exit" ELSE "tokenAgain",
                ![UI].list[s].token = r.token]
  /\ UNCHANGED <<store, live, launched, visible, phase, instance, born,
                 failed, faults>>

(* Mutant: the owner id is not cleared.                                    *)
ClosedRowOwned(row) == [row EXCEPT !.state = "Exited", !.mux = None]

ClosedRow(row) == [row EXCEPT !.state = "Exited", !.owner = 0, !.mux = None]

(* The write that closes the row.  Shutdown also forgets the baseline.     *)
MarkExited ==
  /\ At(UI, "exit")
  /\ LET s == frame[UI].cur
         closing == frame[UI].op = "shutdown"
     IN  \/ /\ Save(s, ClosedRow(Held(UI)))
            /\ frame' = [frame EXCEPT
                 ![UI].pc = "artifacts",
                 ![UI].list[s] = ClosedRow(Held(UI)),
                 ![UI].claimed = IF closing
                                 THEN @ \cup ({Held(UI).token} \ {Pending})
                                 ELSE @]
            /\ IF closing THEN SetBaseline(UI, s, None) ELSE UNCHANGED baseline
            /\ UNCHANGED faults
         \/ /\ Fault(1)
            /\ Goto(UI, "next")
            /\ UNCHANGED <<store, baseline>>
  /\ UNCHANGED <<live, launched, visible, phase, instance, born, failed>>

(* The transcript and audit paths, when there are any, rewrite the row.    *)
SaveArtifacts ==
  /\ At(UI, "artifacts")
  /\ Save(frame[UI].cur, Held(UI)) \/ UNCHANGED store
  /\ Goto(UI, "next")
  /\ UNCHANGED <<live, launched, visible, baseline, phase, instance, born,
                 failed, faults>>

TerminateDone ==
  /\ At(UI, "next") /\ frame[UI].op = "terminate"
  /\ Finish(UI)
  /\ UNCHANGED <<store, live, launched, visible, baseline, phase, instance,
                 born, failed, faults>>

-----------------------------------------------------------------------------
(* cleanupForeignOwnedSessionsForStartup                                   *)

Start ==
  /\ phase \in {"down", "crashed"}
  /\ instance < MaxInstances
  /\ phase' = "starting"
  /\ instance' = instance + 1
  /\ UNCHANGED <<store, live, launched, visible, frame, baseline, born,
                 failed, faults>>

(* Mutant: the comparison of owners is turned round.                       *)
ForeignOwn(row) == row.owner = instance

Foreign(row) == row.owner \notin {0, instance}

CleanupStart ==
  /\ phase = "starting" /\ Idle(UI)
  /\ Begin(UI, [IdleFrame EXCEPT
       !.op = "cleanup", !.pc = "next",
       !.todo = { s \in Sessions : store[s] # None /\ Foreign(store[s]) }])
  /\ UNCHANGED <<store, live, launched, visible, baseline, phase, instance,
                 born, failed, faults>>

(* Mutant: a row stays in the list after its turn.                         *)
RemainingAll(s) == frame[UI].todo

Remaining(s) == frame[UI].todo \ {s}

(* terminateSession for one row of the list; it reads the row again.       *)
CleanupNext(s) ==
  /\ At(UI, "next") /\ frame[UI].op = "cleanup" /\ s \in frame[UI].todo
  /\ LET f == [IdleFrame EXCEPT !.op = "cleanup", !.pc = "next",
                                !.todo = Remaining(s)]
     IN  IF store[s] = None
         THEN Begin(UI, f) /\ UNCHANGED <<baseline, failed, faults>>
         ELSE CloseBegin(s, store[s], f, ClaimedExcluding(store, s))
  /\ UNCHANGED <<store, live, launched, visible, phase, instance, born>>

CleanupDone ==
  /\ At(UI, "next") /\ frame[UI].op = "cleanup" /\ frame[UI].todo = {}
  /\ phase' = "running"
  /\ Finish(UI)
  /\ UNCHANGED <<store, live, launched, visible, baseline, instance, born,
                 failed, faults>>

-----------------------------------------------------------------------------
(* shutdownOwnedSessionsForAppExit                                         *)

ShutdownStart ==
  /\ UIReady
  /\ phase' = "closing"
  /\ Begin(UI, [IdleFrame EXCEPT
       !.op = "shutdown", !.pc = "next", !.list = store,
       !.todo = { s \in Sessions : store[s] # None },
       !.claimed = ClaimedExcluding(store, None)])
  /\ UNCHANGED <<store, live, launched, visible, baseline, instance, born,
                 failed, faults>>

(* Mutant: only what can be resumed later.                                 *)
ShouldShutdownResolved(row) ==
  /\ row.owner = instance /\ row.token # Pending
  /\ row.mux \in live \/ row.state # "Exited"

ShouldShutdown(row) ==
  row.owner = instance /\ (row.mux \in live \/ row.state # "Exited")

(* shouldShutdownOwnedSession on the row the loop read when it started.    *)
(* When its has-session fails, a row that is shown as exited is passed by. *)
ShutdownNext(s) ==
  /\ At(UI, "next") /\ frame[UI].op = "shutdown" /\ s \in frame[UI].todo
  /\ LET row == frame[UI].list[s]
         f == [frame[UI] EXCEPT !.todo = Remaining(s)]
     IN  \/ /\ ShouldShutdown(row)
            /\ CloseBegin(s, row, f, frame[UI].claimed)
         \/ /\ ~ShouldShutdown(row)
            /\ Begin(UI, f) /\ UNCHANGED <<baseline, failed, faults>>
         \/ /\ ShouldShutdown(row) /\ row.state = "Exited"
            /\ Begin(UI, f) /\ UNCHANGED baseline
            /\ Fault(1) /\ failed' = failed \cup {row.mux}
  /\ UNCHANGED <<store, live, launched, visible, phase, instance, born>>

ShutdownDone ==
  /\ At(UI, "next") /\ frame[UI].op = "shutdown" /\ frame[UI].todo = {}
  /\ phase' = "closed"
  /\ Finish(UI)
  /\ UNCHANGED <<store, live, launched, visible, baseline, instance, born,
                 failed, faults>>

(* The destructor of AppState waits for the workers, then the app is gone. *)
Quit ==
  /\ phase = "closed"
  /\ \A p \in Threads : Idle(p)
  /\ phase' = "down"
  /\ baseline' = [p \in Threads |-> NoBaselines]
  /\ UNCHANGED <<store, live, launched, visible, frame, instance, born,
                 failed, faults>>

(* The app dies at any step.  A tmux session started but not yet written   *)
(* to the table is unknown to the next instance.                           *)
Crash ==
  /\ phase \notin {"down", "crashed"}
  /\ Fault(1)
  /\ phase' = "crashed"
  /\ frame' = [p \in Threads |-> IdleFrame]
  /\ baseline' = [p \in Threads |-> NoBaselines]
  /\ failed' = failed \cup IF At(UI, "persist") THEN {Held(UI).mux} ELSE {}
  /\ UNCHANGED <<store, live, launched, visible, instance, born>>

-----------------------------------------------------------------------------
(* setSessionAlias and deleteStoredSessions                                *)

Rename(s) ==
  /\ UIReady
  /\ store[s] # None
  /\ Begin(UI, [IdleFrame EXCEPT !.op = "rename", !.pc = "save", !.cur = s,
                                 !.list[s] = store[s]])
  /\ UNCHANGED <<store, live, launched, visible, baseline, phase, instance,
                 born, failed, faults>>

RenameSave ==
  /\ At(UI, "save")
  /\ \/ Save(frame[UI].cur, Held(UI)) /\ UNCHANGED faults
     \/ Fault(1) /\ UNCHANGED store
  /\ Finish(UI)
  /\ UNCHANGED <<live, launched, visible, baseline, phase, instance, born,
                 failed>>

(* One live row among the selected ones refuses the whole call.            *)
Delete(selected) ==
  /\ UIReady
  /\ selected # {}
  /\ \A s \in selected : store[s] # None /\ store[s].state = "Exited"
  /\ Begin(UI, [IdleFrame EXCEPT !.op = "delete", !.pc = "commit",
                                 !.todo = selected])
  /\ UNCHANGED <<store, live, launched, visible, baseline, phase, instance,
                 born, failed, faults>>

DeleteCommit ==
  /\ At(UI, "commit")
  /\ LET gone == frame[UI].todo
     IN  \/ /\ store' = [s \in Sessions |->
                           IF s \in gone THEN None ELSE store[s]]
            /\ baseline' = [baseline EXCEPT ![UI] = [s \in Sessions |->
                              IF s \in gone THEN None ELSE @[s]]]
            /\ UNCHANGED faults
         \/ Fault(1) /\ UNCHANGED <<store, baseline>>
  /\ Finish(UI)
  /\ UNCHANGED <<live, launched, visible, phase, instance, born, failed>>

-----------------------------------------------------------------------------
(* refreshSessionStates, on any thread                                     *)

(* A worker is started from the event loop, the monitor never while a      *)
(* refresh runs; the UI thread refreshes for itself in between.            *)
MayRefresh(p) ==
  /\ phase = "running" /\ Idle(UI) /\ Idle(p)
  /\ p \in Monitors => \A r \in Refreshers : Idle(r)

(* The list of rows; a resolved row drops its baseline at once.            *)
RefreshStart(p) ==
  /\ MayRefresh(p)
  /\ LET settled(s) == store[s] # None /\ store[s].token # Pending
     IN  /\ Begin(p, [IdleFrame EXCEPT
              !.op = "refresh", !.pc = "resolve", !.list = store,
              !.todo = { s \in Sessions : store[s] # None /\ ~settled(s) },
              !.claimed = ClaimedExcluding(store, None)])
         /\ baseline' = [baseline EXCEPT ![p] = [s \in Sessions |->
              IF p \in Refreshers \/ settled(s) THEN None ELSE @[s]]]
  /\ UNCHANGED <<store, live, launched, visible, phase, instance, born,
                 failed, faults>>

RefreshResolve(p, s) ==
  /\ At(p, "resolve") /\ s \in frame[p].todo
  /\ \E r \in ResolvePending(p, s, frame[p].list[s], frame[p].claimed) :
       /\ SetBaseline(p, s, r.base)
       /\ frame' = [frame EXCEPT
            ![p].todo = @ \ {s},
            ![p].list[s].token = r.token,
            ![p].cur = IF r.token = Pending THEN None ELSE s,
            ![p].pc = IF r.token = Pending THEN "resolve" ELSE "refreshToken"]
  /\ UNCHANGED <<store, live, launched, visible, phase, instance, born,
                 failed, faults>>

(* The write of the token found: the record is the one of the list.        *)
RefreshToken(p) ==
  /\ At(p, "refreshToken")
  /\ LET s == frame[p].cur
     IN  \/ /\ Save(s, Held(p))
            /\ SetBaseline(p, s, None)
            /\ frame' = [frame EXCEPT
                 ![p].pc = "resolve", ![p].cur = None,
                 ![p].claimed = @ \cup {Held(p).token}]
            /\ UNCHANGED faults
         \/ /\ Fault(1)
            /\ frame' = [frame EXCEPT ![p].pc = "resolve", ![p].cur = None]
            /\ UNCHANGED <<store, baseline>>
  /\ UNCHANGED <<live, launched, visible, phase, instance, born, failed>>

(* syncWatchedSessions and takePendingEvents: which of the watched rows    *)
(* tmux still reports, by pane id first and then by name.  If list-panes   *)
(* fails there are no events.                                              *)
Watched(p) ==
  { s \in Sessions : /\ frame[p].list[s] # None
                     /\ frame[p].list[s].state # "Exited"
                     /\ frame[p].list[s].mux # None }

(* Mutant: every watched session is reported.                              *)
ReportedAll(p) == Watched(p)

(* Mutant: an answer of tmux that lists no pane is taken at its word.      *)
ReportedNone(p) == {}

SamePane(t) == { x \in live : /\ launched[x] # None /\ launched[t] # None
                              /\ launched[x].pane = launched[t].pane }

Reported(p) ==
  { s \in Watched(p) : LET t == frame[p].list[s].mux
                       IN  t \in live \/ SamePane(t) # {} }

RefreshSync(p) ==
  /\ At(p, "resolve") /\ frame[p].todo = {}
  /\ \/ /\ Begin(p, [IdleFrame EXCEPT
             !.op = "refresh", !.pc = "signals", !.todo = Watched(p),
             !.alive = Reported(p),
             !.list = [s \in Sessions |-> IF s \in Watched(p)
                                          THEN frame[p].list[s] ELSE None]])
        /\ UNCHANGED faults
     \/ Fault(1) /\ Finish(p)
  /\ UNCHANGED <<store, live, launched, visible, baseline, phase, instance,
                 born, failed>>

(* Activity of the last seconds keeps the state the row has.               *)
MayHold(s) == Provider[s] \in RecentHold

(* A watched session with nothing new has no signal, and an exit report    *)
(* that is held back (holdRecentInputState) changes nothing.               *)
RefreshQuiet(p, s) ==
  /\ At(p, "signals") /\ s \in frame[p].todo
  /\ s \in frame[p].alive \/ MayHold(s)
  /\ frame' = [frame EXCEPT ![p].todo = @ \ {s}, ![p].list[s] = None]
  /\ UNCHANGED <<store, live, launched, visible, baseline, phase, instance,
                 born, failed, faults>>

(* refreshSessionFromStore before a signal is applied: a row that is gone  *)
(* leaves the record in memory as it was.                                  *)
RefreshSignal(p, s) ==
  /\ At(p, "signals") /\ s \in frame[p].todo
  /\ LET row == IF store[s] = None THEN frame[p].list[s] ELSE store[s]
     IN  IF row.state = "Exited"
         THEN frame' = [frame EXCEPT ![p].todo = @ \ {s}, ![p].list[s] = None]
         ELSE frame' = [frame EXCEPT ![p].pc = "signalWrite", ![p].cur = s,
                                     ![p].todo = @ \ {s}, ![p].list[s] = row]
  /\ UNCHANGED <<store, live, launched, visible, baseline, phase, instance,
                 born, failed, faults>>

(* Mutant: the state and the tmux name go into the row that is stored.     *)
SignalledMerged(p) ==
  IF store[frame[p].cur] = None
  THEN {Held(p)}
  ELSE {[store[frame[p].cur] EXCEPT !.state = "Exited", !.mux = Held(p).mux]}

(* applyStatusSignal: SessionExited closes the row but leaves its owner    *)
(* and tmux names; any other signal, and an exit report that is held back, *)
(* leaves it live.                                                         *)
Signalled(p) ==
  LET exited == [Held(p) EXCEPT !.state = "Exited"]
  IN  IF frame[p].cur \in frame[p].alive THEN {Held(p)}
      ELSE IF MayHold(frame[p].cur) THEN {Held(p), exited} ELSE {exited}

RefreshWrite(p) ==
  /\ At(p, "signalWrite")
  /\ \/ /\ \E row \in Signalled(p) : Save(frame[p].cur, row)
        /\ UNCHANGED faults
     \/ Fault(1) /\ UNCHANGED store
  /\ frame' = [frame EXCEPT ![p].pc = "signals", ![p].cur = None,
                            ![p].list[frame[p].cur] = None]
  /\ UNCHANGED <<live, launched, visible, baseline, phase, instance, born,
                 failed>>

RefreshDone(p) ==
  /\ At(p, "signals") /\ frame[p].todo = {}
  /\ Finish(p)
  /\ UNCHANGED <<store, live, launched, visible, baseline, phase, instance,
                 born, failed, faults>>

-----------------------------------------------------------------------------
(* The agents, and the user outside Hydra                                  *)

(* An agent ends by itself and its tmux session with it.                   *)
AgentEnds(t) ==
  /\ t \in live
  /\ live' = live \ {t}
  /\ UNCHANGED <<store, launched, visible, frame, baseline, phase, instance,
                 born, failed, faults>>

(* The metadata of an agent's conversation turns up, sometimes only after  *)
(* the agent is gone.                                                      *)
Unnamed(c) == c \notin visible /\ \A s \in Sessions : Fixed[s] # c

TalkAppears(t, c) ==
  /\ launched[t] # None
  /\ Provider[launched[t].session] \in Scanning
  /\ c \in Catalog[Provider[launched[t].session]] \ visible
  /\ launched[t].talk = c \/ (launched[t].talk = None /\ Unnamed(c))
  /\ launched' = [launched EXCEPT ![t].talk = c]
  /\ visible' = visible \cup {c}
  /\ UNCHANGED <<store, live, frame, baseline, phase, instance, born, failed,
                 faults>>

(* Somebody runs the provider's CLI in the same directory by hand.         *)
OutsideTalk(c) ==
  /\ Unnamed(c)
  /\ visible' = visible \cup {c}
  /\ UNCHANGED <<store, live, launched, frame, baseline, phase, instance,
                 born, failed, faults>>

-----------------------------------------------------------------------------
CloseStep ==
  \/ SaveToken \/ Kill \/ Retry \/ MarkExited \/ SaveArtifacts
  \/ TerminateDone \/ CleanupDone \/ ShutdownDone
  \/ \E s \in Sessions : CleanupNext(s) \/ ShutdownNext(s)

UIStep == LaunchPersist \/ Attach \/ CloseStep \/ RenameSave \/ DeleteCommit

RefreshStep(p) ==
  \/ RefreshToken(p) \/ RefreshSync(p) \/ RefreshWrite(p) \/ RefreshDone(p)
  \/ \E s \in Sessions :
       RefreshResolve(p, s) \/ RefreshQuiet(p, s) \/ RefreshSignal(p, s)

UserCall ==
  \/ \E s \in Sessions : \/ ResumeRefused(s) \/ Terminate(s) \/ Rename(s)
                         \/ \E t \in Muxes : \/ Launch(s, t) \/ Resume(s, t)
                                            \/ StartLost(s, t)
  \/ \E selected \in SUBSET Sessions : Delete(selected)
  \/ ShutdownStart

Environment ==
  \/ \E t \in Muxes : AgentEnds(t)
                      \/ \E c \in Conversations : TalkAppears(t, c)
  \/ \E c \in Conversations : OutsideTalk(c)

Next ==
  \/ Start \/ CleanupStart \/ Quit \/ Crash
  \/ UserCall \/ UIStep \/ Environment
  \/ \E p \in Threads : RefreshStart(p) \/ RefreshStep(p)

Spec == Init /\ [][Next]_vars

ExitSignal(p, s) == s \notin frame[p].alive /\ RefreshSignal(p, s)

ExitWritten(p, s) ==
  /\ frame[p].cur = s /\ s \notin frame[p].alive
  /\ RefreshWrite(p)
  /\ store'[s] # None /\ store'[s].state = "Exited"

(* Every call runs to its end; the event loop serves the monitor's timer   *)
(* however busy the user keeps it; an exit report is not held back for     *)
(* ever, for the row's last change is some seconds ago in the end.         *)
Fairness ==
  /\ WF_vars(CleanupStart) /\ WF_vars(UIStep) /\ WF_vars(Quit)
  /\ \A p \in Threads : WF_vars(RefreshStep(p))
  /\ \A p \in Monitors :
       /\ SF_vars(RefreshStart(p))
       /\ \A s \in Sessions : /\ SF_vars(ExitSignal(p, s))
                               /\ SF_vars(ExitWritten(p, s))

FairSpec == Spec /\ Fairness

-----------------------------------------------------------------------------
(* Invariants                                                              *)

(* The records of session s: the row stored, and the copies in memory.     *)
Records(s) == ({store[s]} \cup { frame[p].list[s] : p \in Threads }) \ {None}

NamesItsAgent(s, row) ==
  IF row.mux = None
  THEN row.owner = 0
  ELSE /\ launched[row.mux] # None
       /\ launched[row.mux].session = s
       /\ launched[row.mux].owner = row.owner

(* A row names only a tmux session that was started for this very session, *)
(* together with the instance that started it; a row without a tmux        *)
(* session has no owner.  It is what makes killing by row safe, and it     *)
(* survives stale writes because a write replaces the whole row.           *)
RowsNameTheirAgent ==
  \A s \in Sessions : \A row \in Records(s) : NamesItsAgent(s, row)

(* Every agent that runs is reachable from a live row, or is about to be.  *)
(* The exceptions are the ones a failed tmux command or a crash explains.  *)
RunningIsTracked ==
  \A t \in live \ failed :
    \/ At(UI, "persist") /\ Held(UI).mux = t
    \/ \E s \in Sessions : /\ store[s] # None
                           /\ store[s].state = "Live"
                           /\ store[s].mux = t

(* Once startup is over, no agent of an earlier instance runs any more.    *)
NothingLeftBehind ==
  phase = "running" =>
    \A t \in live \ failed : launched[t].owner = instance

(* Closing the app ended every agent it owned, however the calls before    *)
(* it went.                                                                *)
CloseEndsAgents == phase \in {"closed", "down"} => live \subseteq failed

(* No two rows are known by the same provider conversation: of two pending *)
(* sessions in one directory a conversation that turns up goes to one, and *)
(* is claimed from then on, across closing, resuming and restarts.         *)
TalksAreOwn ==
  \A s, x \in Sessions :
    (/\ s # x /\ store[s] # None /\ store[x] # None
     /\ store[s].token # Pending)
    => store[s].token # store[x].token

-----------------------------------------------------------------------------
(* Action properties                                                       *)

(* kill-session hits the agent of the session being closed; startup        *)
(* cleanup never one of this instance's, shutdown none but those.          *)
KillsItsOwn ==
  [][Kill => \A t \in live \ live' :
       /\ launched[t].session = frame[UI].cur
       /\ frame[UI].op = "cleanup" => launched[t].owner # instance
       /\ frame[UI].op = "shutdown" => launched[t].owner = instance]_vars

(* Only a launch adds a row: what was deleted does not come back.          *)
DeletedStaysDeleted ==
  [][\A s \in Sessions :
       (store[s] = None /\ store'[s] # None)
       => frame[UI].op = "launch" /\ frame[UI].cur = s]_vars

(* A session whose token is looked up when it is resumed gets a            *)
(* conversation one of its own agents wrote, never one begun outside Hydra *)
(* or by another session.                                                  *)
ResumesOwnTalk ==
  [][\A s \in Sessions, t \in Muxes :
       (Resume(s, t) /\ store[s].token = Pending) =>
         \E x \in Muxes : /\ launched[x] # None
                         /\ launched[x].session = s
                         /\ launched[x].talk = launched'[t].talk]_vars

-----------------------------------------------------------------------------
(* Liveness                                                                *)

Stale(s) == /\ store[s] # None /\ store[s].state = "Live"
            /\ store[s].mux \notin live

(* While the app runs, a row whose agent has ended is not shown as live    *)
(* for ever: a session closed in its terminal moves to the resume list     *)
(* (docs/how-to-use.md:72).                                                *)
EndedAgentIsNoticed ==
  \A s \in Sessions : Stale(s) ~> (~Stale(s) \/ phase # "running")

(* What stands in its way is only that a later agent sits in a pane with   *)
(* the id of the row's old one: the stale writes of the worker and late    *)
(* exit reports are made good in the end.                                  *)
Mistaken(s) == Stale(s) /\ SamePane(store[s].mux) # {}

UnmistakenIsNoticed ==
  \A s \in Sessions :
    Stale(s) ~> (~Stale(s) \/ Mistaken(s) \/ phase # "running")

(* A closed row of which the resume token is still pending unlocks once the *)
(* conversation its agent wrote is there to be seen, while the app runs.   *)
Locked(s) == /\ store[s] # None /\ store[s].state = "Exited"
             /\ store[s].token = Pending

OwnTalkVisible(s) ==
  \E t \in Muxes : /\ launched[t] # None /\ launched[t].session = s
                  /\ launched[t].talk \in visible

ResumeUnlocks ==
  \A s \in Sessions :
    (Locked(s) /\ OwnTalkVisible(s)) ~> (~Locked(s) \/ phase # "running")

(* A closing app gets to its end.                                          *)
ClosingEnds == phase = "closing" ~> phase \in {"down", "crashed"}

=============================================================================
