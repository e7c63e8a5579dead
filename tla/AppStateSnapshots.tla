-------------------------- MODULE AppStateSnapshots --------------------------
(***************************************************************************)
(* AppState: the session list the user sees, and how the answers of the    *)
(* refresh and of the session monitor reach it.                            *)
(*                                                                         *)
(* The UI thread keeps a copy of the sessions table.  A user action writes *)
(* the table, changes the copy and raises m_refreshContextVersion.  Two    *)
(* workers re-read the table: the refresh, asked for after most actions,   *)
(* and the monitor, started by a timer.  Each answer carries the version   *)
(* it was asked under and comes back as an event.                          *)
(*                                                                         *)
(* An event handler of the UI thread is one step.  A call of the           *)
(* supervisor is one step here; SessionSupervisor takes it apart.          *)
(***************************************************************************)
EXTENDS Naturals

CONSTANTS
  Sessions,        \* session ids, never reused
  Aliases,         \* names a user can give
  FirstAlias,      \* stands for the names a launch gives
  None,
  MaxActions,      \* bound: user actions
  MaxFaults        \* bound: failed calls, writes and workers

ASSUME AliasAssumption == FirstAlias \in Aliases

ASSUME LimitAssumption == MaxActions \in Nat /\ MaxFaults \in Nat

Row == [state : {"Live", "Exited"},     \* Live: any state but Exited
        alias : Aliases]

ASSUME NoRowAssumption == None \notin Row

VARIABLES
  store,      \* sessions table
  agents,     \* sessions whose agent runs in tmux
  shown,      \* m_sessions
  version,    \* m_refreshContextVersion
  job,        \* the two workers and the answers not delivered yet
  due,        \* a call of refresh waits in the event queue or on a timer
  asked,      \* a user action asked for a refresh, not answered yet
  verdict,    \* what the user last decided, while the table still says so
  born,       \* session ids handed out so far
  actions,    \* user actions so far
  faults      \* failures so far

vars == <<store, agents, shown, version, job, due, asked, verdict, born,
          actions, faults>>

Workers == {"refresh", "monitor"}
Rows == [Sessions -> {None} \cup Row]
NoRows == [s \in Sessions |-> None]

(* list: the records in memory; unsaved: hadPersistenceFailure; error: the  *)
(* worker caught an exception.                                             *)
Job == [pc : {"idle", "list", "resolve", "observe", "done"},
        version : Nat,
        list : Rows,
        unsaved : BOOLEAN,
        error : BOOLEAN]

IdleJob == [pc |-> "idle", version |-> 0, list |-> NoRows,
            unsaved |-> FALSE, error |-> FALSE]

Verdicts == {"none", "started", "ended", "deleted"}

TypeOK ==
  /\ store \in Rows
  /\ agents \subseteq Sessions
  /\ shown \in Rows
  /\ version \in Nat
  /\ job \in [Workers -> Job]
  /\ due \in BOOLEAN
  /\ asked \in BOOLEAN
  /\ verdict \in [Sessions -> Verdicts]
  /\ born \subseteq Sessions
  /\ actions \in 0..MaxActions
  /\ faults \in 0..MaxFaults

Asked(v) == [IdleJob EXCEPT !.pc = "list", !.version = v]

(* startLifecycle: what the startup cleanup left, nothing shown yet, and   *)
(* the first refresh on its way.                                           *)
Init ==
  /\ store \in [Sessions -> {None} \cup [state : {"Live", "Exited"},
                                         alias : {FirstAlias}]]
  /\ born = { s \in Sessions : store[s] # None }
  /\ agents = { s \in born : store[s].state = "Live" }
  /\ shown = NoRows
  /\ version = 0
  /\ job = [w \in Workers |-> IF w = "refresh" THEN Asked(0) ELSE IdleJob]
  /\ due = FALSE
  /\ asked = FALSE
  /\ verdict = [s \in Sessions |-> "none"]
  /\ actions = 0
  /\ faults = 0

-----------------------------------------------------------------------------
(* What a record says, and whether it agrees with the user.                *)

IsLive(rec) == rec # None /\ rec.state = "Live"
IsExited(rec) == rec # None /\ rec.state = "Exited"
ExitedOf(rec) == [rec EXCEPT !.state = "Exited"]

Agrees(v, rec) ==
  /\ v = "started" => IsLive(rec)
  /\ v = "ended" => IsExited(rec)
  /\ v = "deleted" => rec = None

(* The decisions that outlive the new contents of the table and the end of *)
(* the agents no longer there.                                             *)
StillSaid(rows, alive) ==
  [s \in Sessions |-> IF /\ Agrees(verdict[s], rows[s])
                         /\ verdict[s] = "started" => s \in alive
                      THEN verdict[s] ELSE "none"]

Refreshing == job["refresh"].pc # "idle"

Act == actions < MaxActions /\ actions' = actions + 1
Fault == faults < MaxFaults /\ faults' = faults + 1

-----------------------------------------------------------------------------
(* User actions that change one session                                    *)

(* upsertSessionInSnapshot, the version and the refresh that follows.      *)
Touch(s, rec, v) ==
  /\ store' = [store EXCEPT ![s] = rec]
  /\ shown' = [shown EXCEPT ![s] = rec]
  /\ verdict' = [verdict EXCEPT ![s] = v]
  /\ version' = version + 1
  /\ due' = TRUE
  /\ asked' = TRUE

(* Mutant: the alias is left for the backfill.                             *)
NewRowUnnamed == [state |-> "Live", alias |-> None]

NewRow == [state |-> "Live", alias |-> FirstAlias]

(* launchSelectedRepoSession, and the launch of the two control sessions.  *)
Launch(s) ==
  /\ Act
  /\ s \notin born
  /\ born' = born \cup {s}
  /\ agents' = agents \cup {s}
  /\ Touch(s, NewRow, "started")
  /\ UNCHANGED <<job, faults>>

(* The card of a closed session; resumeSession reads the row itself.       *)
Resume(s) ==
  /\ Act
  /\ IsExited(shown[s]) /\ IsExited(store[s])
  /\ agents' = agents \cup {s}
  /\ Touch(s, [store[s] EXCEPT !.state = "Live"], "started")
  /\ UNCHANGED <<job, born, faults>>

Terminate(s) ==
  /\ Act
  /\ IsLive(shown[s]) /\ store[s] # None
  /\ agents' = agents \ {s}
  /\ \/ Touch(s, ExitedOf(store[s]), "ended") /\ UNCHANGED faults
     \/ /\ Fault                        \* tmux is gone, the row not written
        /\ verdict' = StillSaid(store, agents')
        /\ UNCHANGED <<store, shown, version, due, asked>>
  /\ UNCHANGED <<job, born>>

-----------------------------------------------------------------------------
(* User actions on stored rows and on the selection                        *)

Without(rows, ids) == [s \in Sessions |-> IF s \in ids THEN None ELSE rows[s]]

(* deleteStoredSessions: one live row refuses all; removed from the copy   *)
(* are all the ids of the call.                                            *)
Remove(ids, hidden) ==
  /\ ids # {}
  /\ store' = Without(store, ids)
  /\ shown' = Without(shown, hidden)
  /\ verdict' = [s \in Sessions |->
                   IF s \in ids THEN "deleted" ELSE verdict[s]]
  /\ version' = version + 1

DeleteResume(selected) ==
  /\ Act
  /\ \A s \in selected : IsExited(shown[s]) /\ ~IsLive(store[s])
  /\ Remove({ s \in selected : store[s] # None }, selected)
  /\ UNCHANGED <<agents, job, due, asked, born, faults>>

(* clearAllResumableSessions: deletes what the table calls closed, removes *)
(* from the copy what the copy calls closed.                               *)
ClearAll ==
  /\ Act
  /\ Remove({ s \in Sessions : IsExited(store[s]) },
            { s \in Sessions : IsExited(shown[s]) })
  /\ UNCHANGED <<agents, job, due, asked, born, faults>>

(* setSessionAlias: table and copy, without a new version; refused when a  *)
(* live session has the name.                                              *)
Rename(s, alias) ==
  /\ Act
  /\ shown[s] # None /\ store[s] # None
  /\ \A t \in Sessions \ {s} : IsLive(store[t]) => store[t].alias # alias
  /\ store' = [store EXCEPT ![s].alias = alias]
  /\ shown' = [shown EXCEPT ![s].alias = alias]
  /\ UNCHANGED <<agents, version, job, due, asked, verdict, born, faults>>

(* setSelectedRepoId, setSelectedWorktreePath, setSelectedProviderKey.     *)
Reselect ==
  /\ Act
  /\ version' = version + 1
  /\ UNCHANGED <<store, agents, shown, job, due, asked, verdict, born, faults>>

-----------------------------------------------------------------------------
(* Calls that refresh on the UI thread                                     *)

(* refreshSessionStates of the UI thread: what may be noticed in the rows. *)
SelfRefresh(rows, alive) ==
  { [s \in Sessions |-> IF s \in ended THEN ExitedOf(rows[s]) ELSE rows[s]] :
      ended \in SUBSET { s \in Sessions \ alive : IsLive(rows[s]) } }

(* The check for live sessions before a worktree is removed: the removal   *)
(* raises the version, the refusal does not.                               *)
CheckActive ==
  /\ Act
  /\ store' \in SelfRefresh(store, agents)
  /\ shown' = store'
  /\ verdict' = StillSaid(store', agents)
  /\ version' \in {version, version + 1}
  /\ UNCHANGED <<agents, job, due, asked, born, faults>>

(* relaunchMasterSession, relaunchRouterSession.  When the launch fails no *)
(* version is raised: an answer on its way may show the old session as     *)
(* live once more.                                                         *)
Relaunch(s, t) ==
  /\ Act
  /\ IsLive(shown[s]) /\ store[s] # None /\ t \notin born \cup {s}
  /\ agents' = (agents \ {s}) \cup {t}
  /\ born' = born \cup {t}
  /\ \E rows \in SelfRefresh([store EXCEPT ![s] = ExitedOf(@)], agents \ {s}) :
       store' = [rows EXCEPT ![t] = NewRow]
  /\ shown' = store'
  /\ verdict' = [StillSaid(store', agents') EXCEPT ![s] = "ended",
                                                 ![t] = "started"]
  /\ version' = version + 1
  /\ due' = TRUE /\ asked' = TRUE
  /\ UNCHANGED <<job, faults>>

RelaunchFails(s) ==
  /\ Act
  /\ IsLive(shown[s]) /\ store[s] # None
  /\ agents' = agents \ {s}
  /\ store' \in SelfRefresh([store EXCEPT ![s] = ExitedOf(@)], agents')
  /\ shown' = store'
  /\ verdict' = StillSaid(store', agents')
  /\ UNCHANGED <<version, job, due, asked, born, faults>>

(* An agent ends by itself.                                                *)
AgentEnds(s) ==
  /\ s \in agents
  /\ agents' = agents \ {s}
  /\ verdict' = StillSaid(store, agents')
  /\ UNCHANGED <<store, shown, version, job, due, asked, born, actions,
                 faults>>

-----------------------------------------------------------------------------
(* refresh and pollSessionMonitor, on the UI thread                        *)

(* refresh: a call while one is on its way does nothing.                   *)
StartRefresh ==
  job' = IF Refreshing THEN job
         ELSE [job EXCEPT !["refresh"] = Asked(version)]

(* scheduleRefresh: the queued call, or the timer of a launch.             *)
RefreshDue ==
  /\ due
  /\ due' = FALSE
  /\ StartRefresh
  /\ UNCHANGED <<store, agents, shown, version, asked, verdict, born, actions,
                 faults>>

(* The refresh key.                                                        *)
RefreshKey ==
  /\ Act
  /\ StartRefresh
  /\ UNCHANGED <<store, agents, shown, version, due, asked, verdict, born,
                 faults>>

(* Mutant: only for live sessions.                                         *)
MayPollLive(rows, jobs) ==
  /\ jobs["refresh"].pc = "idle"
  /\ jobs["monitor"].pc \in {"idle", "done"}
  /\ \E s \in Sessions : IsLive(rows[s])

(* pollSessionMonitor with the copy rows and the workers jobs.  The monitor *)
(* thread may have ended and its answer not been delivered: setFuture       *)
(* drops it.                                                               *)
MayPoll(rows, jobs) ==
  /\ jobs["refresh"].pc = "idle"
  /\ jobs["monitor"].pc \in {"idle", "done"}
  /\ rows # NoRows

Polled(rows, jobs) ==
  IF MayPoll(rows, jobs) THEN [jobs EXCEPT !["monitor"] = Asked(version)]
                         ELSE jobs

(* reload, after a repository was added or removed.  The rows of a removed *)
(* one go with it; its poll is started before the version is raised.       *)
Reload(gone) ==
  /\ Act
  /\ \E rows \in SelfRefresh(store, agents) :
       /\ \A s \in gone : IsExited(rows[s])
       /\ store' = Without(rows, gone)
  /\ shown' = store'
  /\ verdict' = [s \in Sessions |-> IF s \in gone THEN "deleted"
                                    ELSE StillSaid(store', agents)[s]]
  /\ job' = Polled(store', job)
  /\ version' \in {version + 1} \cup IF gone = {} THEN {version} ELSE {}
  /\ UNCHANGED <<agents, due, asked, born, faults>>

MonitorTimer ==
  /\ MayPoll(shown, job)
  /\ job' = Polled(shown, job)
  /\ UNCHANGED <<store, agents, shown, version, due, asked, verdict, born,
                 actions, faults>>

-----------------------------------------------------------------------------
(* refreshSessionStates on a worker                                        *)

List(w) ==
  /\ job[w].pc = "list"
  /\ \/ /\ job' = [job EXCEPT ![w].pc = "resolve", ![w].list = store]
        /\ UNCHANGED faults
     \/ Fault /\ job' = [job EXCEPT ![w].pc = "done", ![w].error = TRUE]
  /\ UNCHANGED <<store, agents, shown, version, due, asked, verdict, born,
                 actions>>

(* A token found, or an alias given: the listed record is written back     *)
(* over the row, whatever the row is by now.                               *)
WriteBack(w, s) ==
  /\ job[w].pc = "resolve" /\ job[w].list[s] # None
  /\ store' = [store EXCEPT ![s] = job[w].list[s]]
  /\ verdict' = StillSaid(store', agents)
  /\ UNCHANGED <<agents, shown, version, job, due, asked, born, actions,
                 faults>>

Resolved(w) ==
  /\ job[w].pc = "resolve"
  /\ job' = [job EXCEPT ![w].pc = "observe"]
  /\ UNCHANGED <<store, agents, shown, version, due, asked, verdict, born,
                 actions, faults>>

(* A signal of a listed live session: the row is read again, or kept as    *)
(* listed when it is gone; a closed row is left alone, and of an agent     *)
(* that ended the row is closed.                                           *)
Observe(w, s) ==
  /\ job[w].pc = "observe" /\ IsLive(job[w].list[s])
  /\ LET read == IF store[s] = None THEN job[w].list[s] ELSE store[s]
         rec  == IF s \in agents THEN read ELSE ExitedOf(read)
     IN  /\ job' = [job EXCEPT ![w].list[s] = rec]
         /\ IF IsExited(read) THEN UNCHANGED <<store, verdict>>
            ELSE /\ store' = [store EXCEPT ![s] = rec]
                 /\ verdict' = StillSaid(store', agents)
  /\ UNCHANGED <<agents, shown, version, due, asked, born, actions, faults>>

(* The same with a write that fails.                                       *)
ObserveUnsaved(w, s) ==
  /\ job[w].pc = "observe" /\ IsLive(job[w].list[s]) /\ ~IsExited(store[s])
  /\ Fault
  /\ LET read == IF store[s] = None THEN job[w].list[s] ELSE store[s]
         rec  == IF s \in agents THEN read ELSE ExitedOf(read)
     IN  job' = [job EXCEPT ![w].list[s] = rec, ![w].unsaved = TRUE]
  /\ UNCHANGED <<store, agents, shown, version, due, asked, verdict, born,
                 actions>>

(* The answer: the table, or the records in memory after a failed write.   *)
Return(w) ==
  /\ job[w].pc = "observe"
  /\ job' = [job EXCEPT ![w].pc = "done",
                        ![w].list = IF job[w].unsaved THEN @ ELSE store]
  /\ UNCHANGED <<store, agents, shown, version, due, asked, verdict, born,
                 actions, faults>>

-----------------------------------------------------------------------------
(* The finished events, on the UI thread                                   *)

Current(w) == job[w].version = version

(* Mutant: an old answer is not asked for again.                           *)
RefreshFinishedDropped ==
  /\ job["refresh"].pc = "done"
  /\ LET jobs == [job EXCEPT !["refresh"] = IdleJob]
     IN  IF ~Current("refresh")
         THEN job' = jobs /\ UNCHANGED <<shown, due, asked>>
         ELSE /\ asked' = FALSE
              /\ shown' = IF job["refresh"].error THEN shown
                          ELSE job["refresh"].list
              /\ job' = IF job["refresh"].error THEN jobs
                        ELSE Polled(shown', jobs)
              /\ UNCHANGED due
  /\ UNCHANGED <<store, agents, version, verdict, born, actions, faults>>

RefreshFinished ==
  /\ job["refresh"].pc = "done"
  /\ LET answer == job["refresh"]
         jobs   == [job EXCEPT !["refresh"] = IdleJob]
     IN  CASE ~Current("refresh") ->
                /\ due' = TRUE
                /\ job' = jobs
                /\ UNCHANGED <<shown, asked>>
           [] Current("refresh") /\ answer.error ->
                /\ asked' = FALSE                   \* the user is warned
                /\ job' = jobs
                /\ UNCHANGED <<shown, due>>
           [] Current("refresh") /\ ~answer.error ->
                /\ asked' = FALSE
                /\ shown' = answer.list
                /\ job' = Polled(answer.list, jobs)
                /\ UNCHANGED due
  /\ UNCHANGED <<store, agents, version, verdict, born, actions, faults>>

(* Mutant: any answer is shown.                                            *)
MonitorFinishedAny ==
  /\ job["monitor"].pc = "done"
  /\ shown' = IF job["monitor"].error THEN shown ELSE job["monitor"].list
  /\ job' = [job EXCEPT !["monitor"] = IdleJob]
  /\ UNCHANGED <<store, agents, version, due, asked, verdict, born, actions,
                 faults>>

MonitorFinished ==
  /\ job["monitor"].pc = "done"
  /\ shown' = IF Current("monitor") /\ ~job["monitor"].error
              THEN job["monitor"].list ELSE shown
  /\ job' = [job EXCEPT !["monitor"] = IdleJob]
  /\ UNCHANGED <<store, agents, version, due, asked, verdict, born, actions,
                 faults>>

-----------------------------------------------------------------------------
UserAction ==
  \/ \E s \in Sessions : Launch(s) \/ Resume(s) \/ Terminate(s)
  \/ \E s \in Sessions, a \in Aliases : Rename(s, a)
  \/ \E s, t \in Sessions : Relaunch(s, t)
  \/ \E s \in Sessions : RelaunchFails(s)
  \/ \E ids \in SUBSET Sessions : DeleteResume(ids) \/ Reload(ids)
  \/ ClearAll
  \/ Reselect
  \/ CheckActive
  \/ RefreshKey

WorkerStep ==
  \/ \E w \in Workers : List(w) \/ Resolved(w) \/ Return(w)
  \/ \E w \in Workers, s \in Sessions :
       WriteBack(w, s) \/ Observe(w, s) \/ ObserveUnsaved(w, s)

Next ==
  \/ UserAction
  \/ \E s \in Sessions : AgentEnds(s)
  \/ RefreshDue
  \/ MonitorTimer
  \/ WorkerStep
  \/ RefreshFinished
  \/ MonitorFinished

Spec == Init /\ [][Next]_vars

(* A worker comes to an end, a queued call is made, the timer goes off and *)
(* a finished worker is heard: MonitorTimer can overtake MonitorFinished,  *)
(* but not for ever, as the event is in the queue first.                   *)
Fairness ==
  /\ \A w \in Workers :
       WF_vars(List(w)) /\ WF_vars(Resolved(w)) /\ WF_vars(Return(w))
  /\ WF_vars(RefreshDue)
  /\ WF_vars(RefreshFinished)
  /\ WF_vars(MonitorTimer)
  /\ SF_vars(MonitorFinished)

FairSpec == Spec /\ Fairness

-----------------------------------------------------------------------------
(* Properties                                                              *)

(* No answer takes back what the user decided: as long as the table keeps  *)
(* the decision, a session the user ended does not show as live again, one *)
(* he deleted does not come back, one he started does not disappear.       *)
(* (The version test of the two finished handlers.)                        *)
DecisionSticks ==
  [][\A s \in Sessions :
       (verdict'[s] = verdict[s] /\ Agrees(verdict[s], shown[s]))
         => Agrees(verdict[s], shown'[s])]_vars

(* A refresh asked for by a user action is answered, by the rows or by a   *)
(* warning, although refresh ignores a call while another one runs.        *)
(* (refresh, scheduleRefresh and the requeue of an old answer.)            *)
RefreshServed == asked ~> ~asked

(* What is shown comes to be what is stored, unless nothing is shown, for  *)
(* then the monitor does not poll.  (pollSessionMonitor, the two finished  *)
(* handlers and refreshSessionsSnapshot.)                                  *)
Converges == shown # store ~> (shown = store \/ shown = NoRows)

(* A stored session that the user deletes leaves the list he sees at once. *)
(* (clearAllResumableSessions and deleteResumeSessions; README.md:117.)    *)
DeletedIsDropped ==
  [][\A s \in Sessions :
       (store[s] # None /\ store'[s] = None) => shown'[s] = None]_vars

=============================================================================
