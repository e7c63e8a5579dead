# A TLA+ verification of Hydra's session control

Hydra (`src/`, C++/Qt) is a desktop program that runs coding agents (Codex,
Gemini, Claude, Hermes, OpenCode) inside tmux, keeps a row per session in a
SQLite table, watches the agents, shows them as cards, and lets the user resume
a closed session in the conversation it left off. These modules model the
program's decisions: which agent is whose, what an agent is said to be doing,
what is on the screen, where the next agent is launched and on which files of
its provider, and what the embedded terminals do to tmux.

    The modules
      ResumeTokens              which conversation a session is      (operators)
      SessionSupervisor         calls, threads, tmux, rows           (state machine)
      SessionLifecycle          what the supervisor promises         (abstract)
      SessionSupervisorRefines  the refinement mapping between them
      SessionSupervisorProofs   types, rows and kills, any threads   (proofs)
      SessionSupervisorLife     no agent is lost; the refinement     (proofs)
      SessionStatus             panes, signals, states of a row      (state machine)
      SessionStatusProofs       types, exit reports                  (proofs)
      AppStateSnapshots         the list shown, two workers          (state machine)
      AppStateSnapshotsProofs   types, decisions, requests           (proofs)
      SessionBoard              cards, selection, router, settings   (state machine)
      SessionBoardProofs        all its safety properties            (proofs)
      RouterPresets             the router's presets                 (operators)
      Workspace                 repositories, worktrees, the target  (state machine)
      WorkspaceProofs           all its safety properties            (proofs)
      ProviderHomes             isolated homes, finding talks        (state machine)
      ProviderHomesProofs       types and safety of ProviderHomes    (proofs)
      Terminal                  paste, scroll, attach                (state machine)
      TerminalProofs            types and safety of Terminal         (proofs)
      MC*.tla, *.cfg                                                 (TLC instances)

To run: `tlc -workers 2 -config SessionSupervisorUI.cfg MCSessionSupervisor`
(and the other configurations with the MC module of their name);
`tlapm SessionSupervisorProofs.tla`, and the same for the other modules of proofs.

## 1. The system

### Components

Paths are below `src/src/` unless they say otherwise.

**SessionSupervisor** (`domain/services/session_supervisor*.cpp`). State: only
`m_pendingResumeResolutions`, for each session the provider conversations known
when its baseline was taken; all else is in the table and in tmux. Operations:
`launchSession`, `resumeSession`, `terminateSession`, `deleteStoredSessions`,
`clearClosedResumableSessions`, `setSessionAlias`, `refreshSessionStates`,
`cleanupForeignOwnedSessionsForStartup`, `shutdownOwnedSessionsForAppExit`. Each is a sequence of synchronous
tmux commands and single-row writes without a transaction around them. Correct
means: a row names only its own agent; a running agent can be reached from a
live row; no other agent is killed; two sessions never resume the same
conversation; a token once resolved stays; a closed session unlocks for resume
when its conversation becomes visible; closing ends what this instance owns and
startup what an earlier one left.

**Session rows** (`infrastructure/persistence/sqlite_session_store.cpp`,
`domain/models/session_record.hpp`). State: the `sessions` table (id, state,
mux_session_name, owner_instance_id, provider_session_id, alias, ...) and the
`session_timeline` table. Operations: whole-row `upsertSession`,
`findSession`, `listSessions`, `deleteSessions` in one transaction,
`appendTimelineEvent` with pruning. Correct means what the writers agree on;
the table itself accepts any row at any time, which is the difficulty.

**TmuxAdapter** (`infrastructure/mux/tmux_adapter.cpp`). State: the watched
sessions and the last observation of each. Operations: new-session,
has-session, kill-session (as tmux commands with a timeout), and
`syncWatchedSessions`, which finds a watched row's pane by its stored pane id, then by
the session name, and reports signals such as `SessionExited`. Correct
means that a watched session that is gone is reported as exited, once, and one
that could not be asked is not.

**Provider session resolvers** (`infrastructure/providers/*_session_resolver.cpp`).
No state: they read the provider's own files or database and answer
`knownSessionIdsForWorkingDirectory`, `findNewSessionId`, `sessionExists`. Provider
adapters choose the command line and the initial token.

**StatusAggregator** (`domain/services/status_aggregator.cpp`). Turns signals
into a session state and a timeline event; for Claude, Gemini and OpenCode the
activity of the last seconds outweighs what comes next, an exit report included.
Correct means that a stronger evidence is not overwritten by a weaker one, and
that what is held back is not lost.

**AppState** (`ui/viewmodels/app_state*.cpp`). State: `m_sessions` (what the
user sees), `m_refreshContextVersion`, `m_refreshing`, `m_refreshWatcher`,
`m_sessionMonitorWatcher`, the selection, the master
and router presets. Operations: a slot for every user action, `refresh`,
`pollSessionMonitor` on a timer, and the `finished` handlers of the two
workers. Correct means that a worker's answer never takes back what the user
did after it was asked for; that a refresh asked for is served; and that the
screen converges to the table.

**HydraApplication** (`app/hydra_application.cpp`, `main.cpp`). State: the owner
id (a fresh uuid for every start), `m_shutdownHandled`. Operations: startup
cleanup, shutdown once.

**Repositories and worktrees** (`domain/services/worktree_manager.cpp`,
`repo_registry.cpp`, `infrastructure/git/git_repo_workspace.cpp`,
`infrastructure/persistence/sqlite_repo_store.cpp`, `database_manager.cpp`).
State: repository rows (deleting one cascades to its sessions), git worktrees
on disk, and in AppState the selected target. Operations: register, delete,
create and remove a worktree, list. Correct means that nothing a live session
works in is removed, that what was removed does not come back, and that the
target the user chose is the one an agent is launched in.

**Provider homes** (`infrastructure/providers/*_adapter.cpp`, `*_resolver.cpp`).
State: the home directories Hydra prepares for its control sessions beside the
user's own files. Operations: the preparation before every start, the listing of
conversations. Correct means that a home an agent starts in is complete, and
that a conversation is looked for where it was written.

**Terminal** (`infrastructure/terminal/tmux_terminal_backend.cpp`,
`ui/viewmodels/terminal_surface_controller.cpp`). State: the session a panel is
bound to, its error; in tmux paste buffers, copy mode and two options. Operations:
paste, submit, scroll, keys, prepare an attach, each some tmux commands in a row.
The viewport that asks for an attach names the session itself. Correct means that a
call reports what it did and leaves nothing behind, and that a client starts in a pane
made ready for it.

**List models**, the **router** and the **settings** (`session_list_model.cpp`,
`resume_list_model.cpp`, `app_state_selection.cpp`, `app_state_router*.cpp`,
`app_state_persistence.cpp`). State: rows of the models, the selection, the order,
presets, the manifest the router's script reads, the settings file. Correct means
that they agree with the sessions and with each other whatever path changed them.

**Shell and theme state**, **QML**, **audit exporter**, **provider catalogue**,
**process runner**, **scripts**: presentation, text, tables and plain input and
output.

### How they interact, and what is hard

* Two runtimes besides the UI thread's read and write the same table: `refresh`
  runs `refreshSessionStates` on a pool thread with a runtime of its own, made
  for that refresh, and the session monitor does the same with a runtime it
  keeps. The UI thread goes on serving the user. Their supervisors share no
  memory, so their baselines differ; the workers have the empty owner id.
* Every write is a whole row, from a record that was read some tmux commands
  earlier, and inserts the row if it is not there.
* An agent, and the user in a terminal of his own, may end a tmux session or
  start a conversation at any time.
* Any write, any tmux command and any worker may fail; the app may crash between
  two of them, and the next start works from the table alone.
* Answers of the workers come back through the event queue, in either order,
  tagged with the version they were asked under.

`PROJECT.json` lists 40 such hazards with their lines and the properties that
cover them; section 6 has the smaller ones no property is about.

## 2. The modules and the code

### ResumeTokens

The search for the conversation of a session, as pure operators.

| Operator | Code |
|---|---|
| `InitialToken` | `initialResumeToken` of the adapters |
| `ClaimedExcluding` | `claimedProviderSessionIdsExcluding` |
| `Resolutions`, `ExpectedFound`, `NewSince`, `SingleCandidate` | `resolveResumeToken` and the `findNewSessionId` of the resolvers |
| `Recoverable` | the condition under which the only free conversation is taken |

`Fixed[s]` is the conversation the launch command of `s` names, when it names
one: always for Claude, through the pending token for Hermes, and `None` for
Codex. `Scanning` are the providers that have a resolver. A pending token holds a
uuid of its own, but no two are ever compared, so one value `Pending` stands for
them all. `findNewSessionId` returns the conversation that was touched last;
since agents touch their files when they like, any new one may be the answer.

### SessionSupervisor

| Variable | In the code |
|---|---|
| `store` | the `sessions` table |
| `live`, `launched` | tmux sessions that exist; what each was started for |
| `visible` | what the resolvers can see in the working directory |
| `frame` | per thread: the call it is in, where it stands, the records it holds |
| `baseline` | `m_pendingResumeResolutions` of each thread's supervisor |
| `phase`, `instance` | life of the app, and its owner id |
| `born` | session ids handed out (uuids: never reused) |
| `failed`, `faults` | what failures excuse, and how many there were |

**A step is at most one write to the table or one tmux command**: what lies
between two of them is invisible to the other threads, and a crash cannot divide
it. So a launch is `Launch` (tmux new-session), `LaunchPersist` (the row, or on
a failed write the kill of the new tmux session), `Attach` (baseline and
prompt); closing a row, for which terminate, startup cleanup and shutdown have the
same order of steps in the code and share the actions here, is `CloseBegin` (has-session and the first
search), `SaveToken`, `Kill`, `Retry`, `MarkExited`, `SaveArtifacts`; a refresh
is `RefreshStart` (the list), one `RefreshResolve`/`RefreshToken` for each row,
`RefreshSync` (the exit reports), one `RefreshQuiet` or `RefreshSignal` with
`RefreshWrite` for each, `RefreshDone`. `Rename` reads a row and `RenameSave`
writes it. The alternatives of each action are its failures, bounded by
`MaxFaults`, and `Crash` is possible anywhere. A new-session that tmux carries out
after the call has given it up is `StartLost`: the launch has failed, no row knows of
the agent, and `failed` sets it aside, like an agent whose kill failed.

The state of a row is kept as Live or Exited: nothing here distinguishes the
live ones. How long ago a row was active is not kept either: for a provider in
`RecentHold` (`preferRecentInputHoldBeforeTailSignals`) an exit report may close
the row or change nothing (`MayHold`, `Signalled`, `RefreshQuiet`).

A pane id is drawn by `NewPanes`: a new one, or, when no tmux session was left and
so the server had ended, any that was there before; a row whose pane id could not be
asked for (`display-message` fails) is found by name, like one with a new id. `Reported` looks a row up the way
`syncWatchedSessions` does, by pane id and then by name, so the row of an
ended session can find the pane of another one (`SamePane`).
A worker may not run during startup; the shutdown starts while
workers may be busy, and the app is down only after they have ended, as the
destructor of AppState waits for them. The UI thread may also be the one that
refreshes: that is how the tests and the tools use the supervisor.

### AppStateSnapshots

Here a user action is one step and a call of the supervisor is one step; the
fine interleaving of the table writes is the business of the previous module.

| Variable | In the code |
|---|---|
| `store`, `agents` | the table; the sessions whose agent runs |
| `shown` | `m_sessions` |
| `version` | `m_refreshContextVersion` |
| `job[w]` | worker `w`: where it is, the version it was asked under, its records, `hadPersistenceFailure`, an exception caught |
| `due` | a `refresh` that waits in the event queue or on a single-shot timer |
| `asked` | a user action asked for a refresh and it is not answered yet (history) |
| `verdict` | what the user decided last, while the table still says so (history) |

| Actions | Code |
|---|---|
| `Launch`, `Resume`, `Terminate`, `Remove` (`DeleteResume`, `ClearAll`), `Rename`, `Reselect`, `CheckActive` | the slots of `app_state_actions.cpp` and `app_state_selection.cpp` |
| `Relaunch`, `RelaunchFails` | `app_state_master.cpp`, `app_state_router.cpp` |
| `Reload` | adding and removing a repository: rows lost by the cascade, the whole list read again, a poll begun before the version is raised |
| `RefreshDue`, `RefreshKey`, `MonitorTimer` | `refresh`, `scheduleRefresh`, `pollSessionMonitor` |
| `List`, `WriteBack`, `Resolved`, `Observe`, `ObserveUnsaved`, `Return` | the body of a worker |
| `RefreshFinished`, `MonitorFinished` | the handlers of the two watchers |

`WriteBack` lets a worker rewrite any record it listed; the code rewrites those
whose token or alias it has just found, so this allows more than the code does.
What the model relies on: tmux is installed and answers.

### SessionLifecycle and SessionSupervisorRefines

`SessionLifecycle` is the life of a session as a user is promised it: absent,
open, closed, gone; at most one agent; a conversation that belongs to one
session and is kept. `SessionSupervisorRefines` maps a supervisor driven by one thread to
it: `life` from the row (a session whose id was given out and that has no row is
gone, unless its launch is about to write the first one), `token` from the row,
`running` from the tmux sessions, leaving out what a failure excuses. Every step
of a call, of a refresh, of the startup cleanup and of a crash is then one
abstract move or a stutter. So no two rows hold one conversation, what was
learnt of a conversation is kept, what was deleted stays deleted, a session is
closed only when its agent is gone, and it is never run twice.

### SessionStatus

One session and its pane. `frame[w]` is where the UI thread, the monitor and a
refresh are between looking at the pane, reading the row again and writing it.

| In the model | In the code |
|---|---|
| `row` | state, `statusProvenance`, detail, `statusSourceRef`, `updatedAt` (as an age) and tmux name of the record |
| `screen` | what the agent shows: a title and lines, each the kinds of pattern it matches |
| `cache` | `m_observedSessions` of the monitor's adapter; a refresh starts with an empty one |
| `Hints` | `observabilityHints` of the five adapters: which titles count, the holds, segment and fallback |
| `PollPane`, `PollGone`, `PollNothing`, `PollFails` | `syncWatchedSessions` |
| `Changed` | the comparison in `applyStatusSignal`: state, detail, source and source ref |
| `Base`, `Overrides`, `ApplySignal` | `StatusAggregator::applySignal`, the rules in their order |
| `Apply`, `Write` | `refreshSessionStates`, `applyStatusSignal` for one signal |
| `Open`, `Attach`, `Terminate` | the writes of `resumeSession`, `terminateSession` |
| `Tick` | four seconds: the 2.5 s hold ends within one tick, the 6 s hold within two |

The regular expressions of a provider are not spelled out: a line *is* the set of
kinds it matches (approval, active, waiting, prompt, ignored). The MC module gives
each provider the screens its patterns tell apart. `capture-pane` ends its last line, so
the text never ends with a prompt and `textAfterLatestPrompt` never falls back to the
whole of it; `Segment` leaves that branch out.

### Workspace

| In the model | In the code |
|---|---|
| `folders`, `linked` | the disk; what `git worktree list` says |
| `repos`, `rows` | the two tables, `ON DELETE CASCADE` included |
| `target`, `saved` | `m_selectedRepoId`, `m_selectedWorktreePath`, `m_launchInHomeDirectory`, `m_preserveEmptyRepoSelection`; the settings file |
| `shown`, `version`, `job`, `again` | the left rail, `m_refreshContextVersion`, the refresh worker, a queued refresh |
| `provider`, `probe` | `m_selectedProviderKey`; the key a running probe was asked with |
| `SelectRepo`, `SelectWorktree`, `ClearTarget`, `SetLaunchInHome` | `app_state_selection.cpp`, `clearSelectedTarget` |
| `AddRepository`, `DeleteRepository`, `CreateWorktree`, `DeleteWorktree` | the slots with all calls they make: the ask for live sessions, git, the registry, `reload`, the save |
| `ReadRegistry`, `ReadWorkspace`, `RefreshFinished` | `loadRefreshSnapshot`, its answer |
| `RemovedOutside` | `git worktree remove` or `rm` by hand |

A slot is one step: nothing but the worker and the user's own shell runs beside
the UI thread, and neither of them touches what a slot has checked. Each git
command of a step may fail (`broken`), or do its work and not report it
(`"unreported"`). `chosen` and `removed` are history: what the user decided.

### SessionBoard and RouterPresets

`rows` is the table and `shown` the copy `m_sessions`; everything else is what
AppState makes of the copy: `order`, `selected`, `cards`, `entries`, `control`,
`manifest`, `config`, `saved`. `Show` is the tail that every handler with a new
copy shares (`normalizeSessionManualOrder`, `resolveSelectedSession`, the two
models, `writeSessionManifest`, `persistSelectionState`); `Sync` is
`syncSessionModel` alone, which a move and a rename end with. `SetSessions`
replaces only rows that differ when the ids are the same, `MarkCards` moves the
mark of the selection on its own: that both together amount to the whole list is
a property. A call of the supervisor is one step here. `NewOrders` is the order that
`normalizeSessionManualOrder` leaves: the old one without what is gone, then the rest
in the order of the rows, which is the time of their last change and so any order.
`Move` does not call it first, as the code does: between handlers the order is normal.
`InOrder` puts a set into the order of a key.

### ProviderHomes

`shared` is the user's own login and settings (as version numbers, 0 when
missing), `homes` what Hydra has prepared, `talks` what the agents and the user
wrote (the newest first). `Prepare` has what each adapter's preparation does and
what it can leave behind when it fails or is cut off (`broken`); an agent whose home could not be
prepared starts on the user's files, as `buildLaunchPlan` does. `made` are the homes with
a directory for talks, which a Codex agent makes before its first one (`AgentOpens`) and
the Codex resolver goes by. `Sees` is where each resolver looks, `Found` the talks it finds there, `Listed` their names (`IdOf`:
for Hermes the token of the home), `NewTalk` and `Search` what it answers,
`Baseline` what the supervisor remembers.

### Terminal

Each tmux command is a step: it is done, tmux refuses it (the agent has ended,
the pane is not in copy mode), or its answer is lost, with its effect or without.
`call` is where the UI thread is in `pasteText`, `pasteTextAndSubmit`,
`scrollHistory`, `killInputLine`, `sendSpecialKey` or `prepareInteractiveAttach`;
between two commands agents end and users attached to the same pane enter and
leave copy mode. `outcome` and `unanswered` are history.

A submit is one command, `paste-buffer ; send-keys Enter`. tmux gives the text to the
program in the pane even in copy mode, but the key to copy mode, so the call succeeds and
the Enter goes elsewhere: `EnterGoesTo` says who took it and `outcome.enter` keeps it.
The caller, `launchSession`, submits the bootstrap text of an adapter; no adapter of this
version has one, so `Bootstrap` stands for what the interface allows.

`PrepareAttach(p, s)` may name any session: the viewport takes it from `liveSessionName`,
and the controller only adds the mouse of the provider it is bound to, if it is bound
(`MouseWanted`). The two come along different paths. `TerminalSurfacePanel` binds first;
the router's panel and the master's activate their viewport by a binding that may be
evaluated before the handler that binds the controller.

## 3. What is checked

All runs finish in about three minutes at most with two TLC workers.

| Run | Instance | States | Properties |
|---|---|---|---|
| supervisor_ui | UI thread; 2 Codex sessions, 2 tmux names, 2 conversations; 2 instances; 2 failures | 3.34 M | TypeOK, RowsNameTheirAgent, RunningIsTracked, NothingLeftBehind, CloseEndsAgents, KillsItsOwn, ImplementsLifecycle |
| supervisor_workers | UI thread and a refresh; a Codex and a Claude session, the latter's exit may be held back; 2 instances | 2.38 M | RowsNameTheirAgent |
| supervisor_live | UI thread and the monitor; 1 Hermes session; 2 instances; 1 failure; fairness | 0.50 M | UnmistakenIsNoticed, ClosingEnds, ResumeUnlocks |
| snapshots | 2 sessions, 2 names, 2 actions, 1 failure; fairness | 1.33 M | TypeOK, DecisionSticks, RefreshServed, Converges |
| status | one pane of each of the five providers, three screens each; 1 resume, 1 failure; fairness | 0.62 M | TypeOK, ExitIsShown, RefreshSettles, MonitorSettles |
| workspace | a repository with a linked worktree and a folder in it, the home directory; 1 session, 2 providers, 3 actions, 1 failure, a restart | 2.91 M | TypeOK, AgentsHaveRows, TargetSticks, RemovedStaysGone, AgentKeepsItsFolder |
| board | 2 workers, 2 routers, 2 presets of the user's; 3 actions, 1 crash | 1.29 M | TypeOK, BoardIsCurrent, SelectionIsLive, ManifestListsWorkers, PresetExists, SavedIsCurrent, OrderIsTheUsers |
| homes | 4 providers; 1 control session, 1 worker, 2 talks of the user's own; 2 changes of his login or settings, 2 failures | 1.09 M | TypeOK, TalkIsListed, StartsComplete, ResumesWhereItTalked |
| terminal | a Codex and an OpenCode session, 1 panel, 2 buffers, a history of 2 steps; 1 failure; fairness | 1.15 M | TypeOK, NoPasteLeft, PasteIsTruthful, ClientsStartReady, WheelReturns |

What they show:

* **supervisor_ui.** On one thread the supervisor keeps its books: whichever call
  fails or is cut off by a crash, every agent that still runs is named by a live
  row (`RunningIsTracked`), except those whose own start, kill or first write failed;
  the next start ends what the last one left (`NothingLeftBehind`); closing ends
  everything (`CloseEndsAgents`); and every step is a move of the abstract life of
  a session (`ImplementsLifecycle`), so no two rows hold one conversation.
* **supervisor_workers.** With whole-row writes from a second thread, much of that
  is lost (see below), but not that a row names its own agent. A stale write
  brings back an old tmux name *together with* its owner, so a kill by row hits
  a session's own older agent at worst, which is gone by then.
* **supervisor_live.** A lost poll, a failed list-panes, a failed
  write, an exit report held back or a kill that failed half way delays the notice
  of an ended agent, but does not lose it, as long as no other agent sits in a pane
  with the id of its old one. A closed session whose pending token names its
  conversation unlocks once the conversation can be seen.
* **snapshots.** The version test is enough to keep late answers
  from undoing a user's decision, and `refresh`, which drops a call while
  another runs, still answers everyone who asked, because the running one is out
  of date by then and asks again.
* **status.** The monitor and a refresh each have a cache of what they saw last,
  and write what they make of a change. Whatever they interleave with, an ended
  agent is shown as ended, also when the first write of it failed; refreshes that
  keep coming bring the row to what a resting screen shows, whatever the monitor,
  the holds and lost writes did before; and the monitor alone does so for the
  providers without a hold. For those with one it does not (see `IdleIsShown` below).
* **workspace.** Nothing a live session's working directory names is removed by
  Hydra, the row of a running agent goes with no repository, an answer read before
  a removal does not bring it back, and the target the user picked is not moved by
  any answer that is late.
* **board.** The cards are the sessions, the selection is one of them, the manifest
  and the settings file say the same, whichever of the many handlers changed them;
  the user's order survives refreshes that bring new rows.
* **homes.** A control session starts in a home with the login and the settings of
  that moment or in the user's own files; a talk is resumed where it was held; and
  a session's talk is among what its resolver lists.
* **terminal.** Each call says what became of the text and takes its paste buffer away.
  Of a submit that is reported as done the text reached the agent once and an Enter was
  sent after it; whether the agent or a copy mode took the Enter the call does not know
  and the property does not claim. No client starts before both options are set, with the
  mouse of the provider its controller is bound to then. A user who keeps turning the
  wheel down gets back to the prompt, from a copy mode of his own as well.

Three runs end in a violation; each checks one sentence the repository says of
the program and is explained under "findings" in `PROJECT.json`.

| Run | What happens |
|---|---|
| supervisor_orphan | the monitor lists a closed row with a pending token; the user resumes it; the monitor finds the token as well and writes it with its whole old record, closed and with the old tmux name; the shutdown skips the row and the new agent survives |
| snapshots_ghost | "clear all" deletes a row that the screen still shows as live, and the card stays |
| board_pending | a Hermes or OpenCode session that ended with a pending token is listed for Resume |

### Known divergences without a run

The modules state nine more properties that the code does not keep. Each is
found in the named configuration after the change in the last column.

| Property | What happens | To see it |
|---|---|---|
| EndedAgentIsNoticed (`tmux_adapter.cpp:177`) | the tmux server was started anew, a new agent's pane has the id of an ended one's, and the ended one's row stays live | SessionSupervisorLive: two sessions and conversations, `Scanning = {}`, `RecentHold = {}`, one instance, no failure |
| DeletedStaysDeleted (`session_supervisor_resume.cpp:143`) | a worker writes back a row that was deleted after it listed it | SessionSupervisorWorkers |
| ResumeUnlocks (`session_supervisor.cpp:216`) | a conversation visible when the baseline is taken is never recognised; the entry stays locked | SessionSupervisorLive: `AllCodex`, `NoneFixed`, codex for hermes |
| ResumesOwnTalk (`session_supervisor_resume.cpp:89`) | a Hermes session is given the conversation of another one | SessionSupervisorUI: `AllHermes`, `HermesFixed`, hermes for codex |
| ManifestCatchesUp (`app_state_selection.cpp:325`) | a rename does not write the manifest; the router reads the old name until something else writes it | SessionBoard: `FairSpec`, no symmetry, a worker and a router |
| ControlsAreIsolated (`opencode_cli_adapter.cpp:119`; README.md:111) | a home that could not be prepared is passed over, and the control session starts on the user's own files | ProviderHomes (an invariant) |
| IdleIsShown (`status_aggregator.cpp:231`; docs/provider-embedding-plan.md:85) | a change of the screen within the hold is swallowed and not seen again; the agent stays shown as working | SessionStatus: `Screens <- OpenCodeOnly` |
| OpenCodeKeepsItsMouse (`terminal_surface_controller.cpp:161`; README.md:112) | a client is asked for before the controller is bound (`RouterPanel.qml:363` before `:58`): an OpenCode router gets its client with the mouse off | Terminal (a property) |
| PickedProviderSticks (`app_state_refresh.cpp:459`; README.md:62) | a probe begun before the user picked a provider answers after it and sets the default again | Workspace (an invariant) |

### Bounds, and why they are enough

* *Sessions.* The properties relate at most two sessions; a third adds no
  conflict the pairs do not have. Single-session runs are those whose property
  speaks of one session and of the calls on it. The board has two of each kind, as
  a router has a successor and an order needs two workers.
* *tmux names.* A name is used once. Two are enough for the agents of two sessions,
  and for an old and a new agent of one; that a resumed session may also stand
  beside another one is in the proofs, which hold for any number of names.
* *Conversations.* Two: an own one and a foreign one, which may both belong to one
  session that was resumed.
* *Instances.* Two: one that crashes or closes, and one that finds its rows. A third
  sees only rows of the kind the second one saw, as cleanup takes all owners but
  its own alike.
* *Failures.* One in a run that allows them: a failure of a call, or a crash, at
  every step. In the supervisor two: a failed write whose repair fails as well is
  the exception (`failed`) that the properties name. Two in ProviderHomes: a home
  that is left by half twice.
* *Actions.* Two or three user actions: one that is in flight, one that outdates
  it and one that undoes that. The versions grow only with actions.
* *Screens* (status). Three for each provider: a prompt, work, a question, with the
  lines of older output that the classification has to see through, as titles and
  order of lines are what it decides by.
* *Folders* (workspace). The main checkout, a linked worktree, a folder inside it
  and one outside git: the relations the checks distinguish.
* *Changes* (homes). Two: what is in a home is of before both, of in between or of now.
  Two control sessions of one folder share its home; that is left to the proofs.
* *Buffers, wheel steps* (terminal). A buffer without an answer and one in use; two
  wheel steps tell the oldest line, one in between and the bottom apart.

CHECK_DEADLOCK is FALSE in all runs but `homes` and `terminal`, where nothing ever
rests: a closed app rests, so does an app whose bounds are used up, and with no
session shown the monitor does not poll.

### Fairness

Weak fairness of `CleanupStart`, `UIStep` and `Quit`: a call on the UI thread is
straight-line code, and its tmux commands have timeouts. Weak fairness of
`RefreshStep(p)`: so is a worker. Strong fairness of `RefreshStart(p)` for the
monitor only: its timer repeats, and the event loop serves it between any two
actions of the user, who may keep the thread busy again and again. Strong
fairness of `ExitSignal(p, s)` and `ExitWritten(p, s)` for the monitor: an exit
report is not held back for ever, because the hold looks at the time of the row's
last change, and once the agent is gone nothing but a call of the user changes
the row; the monitor asks again every few seconds. No fairness
for the refresh threads: nothing starts those but the user. None for the user,
agents, conversations, failures or crashes; in particular no failure is ever
repaired by assumption.

In AppStateSnapshots the two workers end (weak), queued calls and the repeating
timer are served (weak), and so is the finished handler of the refresh. The
handler of the monitor has strong fairness: a timer tick between the end of the
thread and its event replaces the future and drops the event, but the event is
in the queue ahead of the next tick, so this cannot go on for ever.

In SessionStatus the monitor polls again (weak, its timer), every call that was
begun goes on (weak), and time passes: `Tick` has strong fairness, as reading the
pane over and over does not stop the clock. In Terminal a call runs to its end
(weak fairness of `CallStep`); that the user keeps turning the wheel is the
premise of `WheelReturns` and not assumed. In SessionBoard fairness is stated for
`ManifestCatchesUp` only.

## 4. What is proved

For every value of the constants allowed by the named assumptions: any number of
sessions, threads, tmux names, conversations, instances and failures.

| Theorem | Statement |
|---|---|
| `TypeCorrect` (SessionSupervisorProofs) | `Spec => []TypeOK` |
| `AgentsAreNamed` (SessionSupervisorProofs) | `Spec => []RowsNameTheirAgent` |
| `ClosingHitsItsOwn` (SessionSupervisorProofs) | `Spec => KillsItsOwn` |
| `AgentsAreTracked` (SessionSupervisorLife) | `Spec /\ NothingStale => []RunningIsTracked` |
| `StartupLeavesNone` (SessionSupervisorLife) | `Spec /\ NothingStale => []NothingLeftBehind` |
| `ClosingLeavesNone` (SessionSupervisorLife) | `Spec /\ NothingStale => []CloseEndsAgents` |
| `LifecycleIsImplemented` (SessionSupervisorLife) | `Workers = {}` gives `Spec => ImplementsLifecycle` |
| `TalksStayOwn` (SessionSupervisorLife) | `Workers = {}` gives `Spec => []TalksAreOwn` |
| `SnapshotTypes` (AppStateSnapshotsProofs) | `Spec => []TypeOK` |
| `DecisionsStick` (AppStateSnapshotsProofs) | `Spec => DecisionSticks` |
| `RequestsAreNotLost` (AppStateSnapshotsProofs) | `Spec => []RequestIsPending` |
| `StatusTypeCorrect` (SessionStatusProofs) | `Spec => []TypeOK` |
| `WatchedRowsWereOpened` (SessionStatusProofs) | `Spec => []WatchedIsOpened` |
| `ExitReportsClose` (SessionStatusProofs) | `Spec => ExitsAreTaken` |
| `TerminalTypes` (TerminalProofs) | `Spec => []TypeOK` |
| `NoPasteStays` (TerminalProofs) | `Spec => []NoPasteLeft` |
| `PastesAreTruthful` (TerminalProofs) | `Spec => []PasteIsTruthful` |
| `ClientsAreReady` (TerminalProofs) | `Spec => ClientsStartReady` |
| `RowsStayWithAgents` (WorkspaceProofs) | `Spec => []AgentsHaveRows` |
| `FoldersStayWithAgents` (WorkspaceProofs) | `Spec => AgentKeepsItsFolder` |
| `RemovedNeverShown` (WorkspaceProofs) | `Spec => []RemovedStaysGone` |
| `WorkspaceTypes` (WorkspaceProofs) | `Spec => []TypeOK` |
| `ChoicesStick` (WorkspaceProofs) | `Spec => []TargetSticks` |
| `HomeTypes` (ProviderHomesProofs) | `Spec => []TypeOK` |
| `TalksAreListed` (ProviderHomesProofs) | `Spec => []TalkIsListed` |
| `HomesStartComplete` (ProviderHomesProofs) | `Spec => StartsComplete` |
| `ResumesAreAtHome` (ProviderHomesProofs) | `Spec => ResumesWhereItTalked` |
| `BoardTypes` (SessionBoardProofs) | `Spec => []TypeOK` |
| `BoardStaysCurrent` (SessionBoardProofs) | `Spec => []BoardIsCurrent` |
| `SelectionStaysLive` (SessionBoardProofs) | `Spec => []SelectionIsLive` |
| `ManifestStaysCurrent` (SessionBoardProofs) | `Spec => []ManifestListsWorkers` |
| `PresetStaysThere` (SessionBoardProofs) | `Spec => []PresetExists` |
| `SettingsStayCurrent` (SessionBoardProofs) | `Spec => []SavedIsCurrent` |
| `OrderStaysTheUsers` (SessionBoardProofs) | `Spec => OrderIsTheUsers` |

*Assumptions.* `ProviderAssumption`, `HoldAssumption`, `FixedAssumption` (a provider without a
resolver has its conversation fixed by the launch command, and no two sessions
have the same one), `NullAssumption`, `RecordAssumption` and `NoRowAssumption`
(`None` is none of the values), `ThreadAssumption`, `BoundAssumption`,
`AliasAssumption`, `LimitAssumption`, `TerminalAssumption`; in SessionStatus
`BoundsAssumption`, `NoneAssumption` ("no title" is no kind of line) and
`ScreensAssumption` (a provider is one of the five, and its screens are screens); in Workspace
`FolderAssumption` (git's top level of a top level is itself, and a new worktree has
a name), `IdAssumption` and `RowAssumption` (ids, folders, the empty text and "no row"
are told apart); in ProviderHomes `HomeAssumption` and `NameAssumption` (the names of talks are
none of the folders, of "no row" and of the pending token); in SessionBoard
`SessionAssumption` (finitely many sessions; a session that starts is live, one that exited is
not), `BoardBounds` (as many aliases as the user has actions), `RowAssumption` ("no row"
is none of the rows) and `PresetAssumption` (keys of the user's presets are none of the
built-in ones, and a prompt that is kept is not blank). TLC evaluates them in
every run. `NothingStale` is not among them: it is a condition on a behaviour,
which the code does not enforce, and it stands in the theorems that need it.

*TypeCorrect.* `TypeOK` is inductive because it includes `FrameOK`: the places of
the code where a record is written are those where one is held. Without that a
write could put "no record" into the table.

*AgentsAreNamed.* The invariant speaks of all copies of a row: the stored one and
those in the memory of every thread. `Kept(s, row)` says that a record of the
next state has the tmux name and the owner of some record of this state, or
neither. Every action but `Launch` and `Resume` only moves records around in
this sense (one lemma for each), and what tmux sessions were launched for does
not change; so the names stay right. The two others start an agent under an unused
name and write name and owner into one record. That is why stale writes are
harmless *here*: the code writes both fields or neither, never one of them.

*ClosingHitsItsOwn.* A kill at a row's tmux name hits that session's agent by the
invariant above. That it is an old agent at startup and an own one at shutdown
needs `OwnersOK`: the rows still to be closed were selected by their owner, and
`todo` and the row at hand keep the owner they were selected with, while
`instance` does not change under a call.

*No agent is lost.* `AgentsAreTracked`, `StartupLeavesNone` and `ClosingLeavesNone` hold
with any number of workers, of every behaviour in which nothing stale is acted on.
`NothingStale` is two conditions on a worker's step: when it writes a row, the row is
still there as the worker read it (`WritesOverRead`), and when it takes an exit report for
a row, the row still names the tmux session the report is about (`ReportIsOfRow`). Neither
can be left out: with one of them alone TLC still finds `RunningIsTracked` violated, with
one session, one worker and no failure; with neither, that is, as the code is,
`supervisor_orphan` shows what happens. So the theorems say where the danger is. An agent
whose own start, kill or first write failed is set aside (`failed`), one given up at its
start for lost from the first (`StartLostAgents`); any other is lost only by a
stale write or a stale report, not by failures elsewhere, crashes, the order of the steps
or agents that end by themselves. Driven by one thread, as the tests and the tools drive
the supervisor and as the app does between refreshes, nothing is stale
(`AloneNothingIsStale`), and the three hold of every behaviour, which is what
`supervisor_ui` checks.

One inductive invariant, `AgentsInv` with `WorkersReport`, serves the three.
`RunningIsTracked` says nothing of the memory of the call that is about to write, so
`MemoryAgrees` says that between steps a record in the UI thread's memory has the owner and
tmux name of its row, and its state unless a worker noticed meanwhile that the agent ended
(`Missed`), and `StartsOne` that a record about to be written for the first time is all
the thread holds. `KilledIsGone` remembers between the kill of a tmux session and the
write of the closed row that nothing runs there any more. `OwnRunning` with `CleanupListed` and `ShutdownListed` is the argument for
whole instances: what runs belongs to this instance, or its row is still on the list
of what is to be ended; when the list is empty, nothing is left. A shutdown passes
over rows of other owners, of which nothing runs by then, and over a closed row whose
has-session fails, which sets its agent aside. `WorkersReport` is about the
workers: a session a worker's report calls ended has a record in its hand whose tmux
session is gone, so the row it closes, being as it was read, has no agent.

*LifecycleIsImplemented.* This and `TalksStayOwn` are stated `ASSUME Workers = {}`, and
`NothingStale` would not do instead: the UI thread, too, writes records it read earlier,
and TLC finds the shortest violation where it writes a pending token back over the
conversation that a refresh has found meanwhile. `LifeInv` adds the tokens. `HeldMayBe`:
a token in the hand of a call may still be written when its turn comes, for `ListIsStored` says that the
list a refresh or a shutdown goes through is the table, and no one else writes.
`TokensFit` and `TalksSeen` say where a token can come from, a place on disk or the
launch command, so that a find is never the conversation of a session that named its
own. Each action of the supervisor is then mapped to a move by a lemma of its own
(`MapsToStart`, `MapsToStop`, ...) or to a stutter. `TalksStayOwn` is an invariant of the
abstract specification, proved there and carried over by the refinement.

*DecisionsStick.* `TableAgrees`: the table says what the user decided, as long as
`verdict` says so. `AnswersAgree`: an answer that carries the *current* version
agrees with it too. A user action that gives a verdict raises the version, so
answers on their way no longer carry the current one; a worker that lists the table after it copies
what the table says; an exit report changes the record of an agent that is not
there. What is then applied to the screen was tested for the version, so it
agrees. `DecisionSticks` alone is not inductive: it says nothing of answers not
applied yet.

*RequestsAreNotLost.* The half of `RefreshServed` that is about safety: with fairness the
queued call is made and the refresh ends. Inductive with `TypeOK`; the two steps that
matter are a queued call made while a refresh runs, which then is on its way, and an old
answer, which queues a call.

*SessionStatus.* `TypeOK` holds `StatusOK`, that the state of a row goes with the one who
gave it, of the row and of every record a thread is about to write. `ApplySignal` gives such
a status whatever was seen, by ten rules of which the strongest that applies is taken
(`AppliesBaseOrRule`), so no late write of another thread can put together two halves.
`ReportsInv` adds that records in hand name opened tmux sessions and that an exit report
shows nothing of the pane. From the latter follows `ExitReportsClose`: a blank capture says
nothing (`BlankSaysNothing`), so of the ten rules only the hold of recent input can apply.
It is the step `ExitIsShown` rests on, for the hold runs out.

*Terminal.* One inductive invariant, `IInv`, for the four theorems. `TypeOK` is not
inductive by itself: that the text reached the agent at most once needs
`CallSoFar`, which says that up to `paste-buffer` it reached nobody, and that
before `delete-buffer` it did only if an answer was lost; so also of the Enter.
`BuffersHeld` names the one buffer that a call in the middle of a paste may have on the server.
`HalfPrepared` remembers between the two commands of an attach that the first took
effect; it stays so because nobody else sets the mouse of a pane and a controller is
bound between calls only, and an agent's end takes its client along. Most steps are one of
two kinds, "some tmux command that changes one pane" (`PlainStep`) and "a step of a
paste" (`PasteStep`), for which the parts are put together once.

*Workspace.* `TableOK` has `AgentsHaveRows` in it and that a row's repository is
registered. It is not inductive alone: a launch writes a row from what is selected,
so that the row is one needs the types of the selection, of the rail and of the
worker's answer that becomes both (`ViewOK`, `JobOK`). The deletions need one
fact, `EndedAreLive` with `NoticedTyped`: noticing ends only marks rows whose agent
is gone, so an agent's row is live in what the slot checks as well, and the check
keeps the cascade and the removal of its folder off. For removals, `GoneInv`
says that ids are handed out once, that what is removed is in no table, and
(`AnswerOK`) that an answer of the *current* version has nothing in it that was
removed: both removals raise the version, and the one slot that may leave it as it
is, `AddRepository`, removes nothing. `RemovedStaysGone` alone is not inductive,
for it says nothing of the answer under way. `TypesInv` adds that no folder is
registered twice (`Paths`): `ensureRepository` looks for the folder before it adds it.

`TargetSticks` is not inductive for three reasons, one conjunct of `StickInv` each.
Nothing in it says that the next reload finds the target where it is: `Place` does. The
target is a checkout git lists or, outside of git, the repository's own folder, and so
`Reselected` and `Follow` leave it (`PlaceStays`, `FollowFits`). A launch at home is
covered as well, since the folder stays selected under it. The worker's answer may be
current and yet have been asked for something else: `AnswerFits` says that an answer of
the current version was asked for what is selected. That holds because the choices that
move the selection raise the version; the ones that do not raise it are the choice of
home, which moves no folder, and adding the repository that is selected already. And
the rail could show a repository the registry no longer has, and let it be
selected: `HandedOK` says that every id handed out is registered or was removed, so by
`GoneInv` what the rail shows is registered. `LinkedOK` (git lists the checkout of every
folder that is there) is what brings a new selection into its place (`Settles`): when
git answers, the fall-back of `Follow` to the main checkout is one it lists. A restart reads
the settings file, and `saved = target`. Each handler has one lemma (`...Stick`), which
rests on the lemma for its reload.

*ProviderHomes.* Four theorems of one invariant, `IInv`. `TalksOK`: a talk is in the
place meant for its session or in the user's files, and has the folder of its
session; `PlacesOK`: without a failure it is in the former. `AgentsOK` says the same of
an agent that has not talked yet, whose talk will be there. `RowsOK`: a token was found
on a talk that could be seen from the session (`Origin`), which is what makes the
place asked for at a resume the place of the talk. `HomesOK` is about Hermes, whose
homes are prepared once: a home in which somebody talked, or is about to, has both
links or none, because a launch whose preparation failed does not run in it. For the
others a start prepares the home anew, and `CompleteOnceMade` holds of any home it
finds, whatever earlier starts left (`Prepared`, from one lemma for each provider).

*SessionBoard.* One inductive invariant, `BoardInv`, gives the seven theorems: `TableOK`
(the table and the bounds), `MemoryOK` (what AppState holds) and `AgreeOK` (the four
properties that say cards, selection, manifest and settings agree). Each handler with a
new copy ends in `Show`, and the lemma `ShowIs` says that `Show` leaves `AgreeOK` for *any*
copy, order and selection it starts from. So what an action has to prove is that the copy
it hands over is one and has only sessions that were handed out. `ShowIs` rests on one
lemma for each part: `NewOrderIs` (the new order has each live session once, and those
that were in the old one as they were there), `CardsAre` and `SetSessionsIs` with
`MovedMark` (replacing the rows that differ and moving the mark give the whole list, when
the ids are the same and when they are not), `SignatureTells` and `PersistIs` (two states
with the same signature have the same settings, so the write that is left out would have
changed nothing). Three things are not seen from the properties. `saved.order = order` and
`saved.autosort = autosort` hold also while the app is down and before the first copy,
when `SavedIsCurrent` says nothing: a start reads the order from the file, and
`OrderIsTheUsers` is about that step as well. `Cardinality(born) <= actions` is why
there is an alias left for a launch, so that the `CHOOSE` of `NextAlias` has a value.
And only sessions that were handed out are in the order, because a relaunch orders
twice, before and after its new row: a session of the old and the new order must be
in the one between them, and without this the session it launches might not be. For the user's own
move, `MovedIs` follows the positions: taking one element out and putting it elsewhere
keeps the others as they were, and `Move` is the step the property excepts. `InOrderIs`
and `CanBeOrdered` say that sets can be put into the order of a key, which is proved by
counting smaller elements, as induction over sequences is out of reach.

*Only model-checked.* Liveness (`UnmistakenIsNoticed`, `ResumeUnlocks`,
`ClosingEnds`, `RefreshServed`, `Converges`, `ExitIsShown`, `RefreshSettles`,
`MonitorSettles`, `WheelReturns`), which is out of the prover's reach. Of the runs
that pass, every invariant and every action property is a theorem.

## 5. What is not modelled

* *Timeline, audits, transcripts.* Their files and rows, the pruning at 24 events
  and the texts; only the write to the session row that follows them is there.
* *Aliases.* The words generated names are made of, and `resolveAlias`. A rename and
  the refusal of a name a live session has are in AppStateSnapshots and SessionBoard.
* *Time as such.* Holds and capture intervals are ages in a few steps (SessionStatus);
  in SessionSupervisor an exit report may be held back or not.
* *A second instance of Hydra* beside a running one: nothing forbids it, and it
  would take the first one's sessions for left-behind ones.
* *Files a repository gets* (`ensureRepoLocalState`), the clipboard, the choice of an
  external terminal program. A submit of an empty text, which is a plain Enter: the one
  caller of `pasteTextAndSubmit`, `launchSession`, never makes one.
* *Titles in the user's own Hermes database* (`hydra-hermes-...`), which its resolver
  lists besides the homes: nothing in the code gives a conversation such a title.
* *QML*, but for where a client is started, *shell and theme*, *scripts*, smoke
  tools, provider command lines and file formats: presentation, text and plain
  input and output.
* *SQLite and tmux.* A statement or command is atomic and either happens or fails;
  a has-session that times out counts as "not live", as in the code.

## 6. Plan

Done: `ResumeTokens` and `SessionSupervisor` with its theorems;
`AppStateSnapshots` with its theorems; `SessionLifecycle`, and the refinement with its
proof; `SessionStatus` with theorems on its types and exit reports; `Workspace` with theorems for every safety property; `SessionBoard` and
`RouterPresets` with theorems for every safety property; `ProviderHomes` with its theorems; `Terminal` with its theorems.

Left, in this order:

1. The refinement with workers: what `SessionLifecycle` would have to allow, and which
   condition on the UI thread's own writes it needs.
2. A second instance beside the first, as a variant of `CleanupStart`.
3. `Timeline`: append with pruning at 24 events, whose order among events of one
   millisecond is not fixed (`sqlite_session_store.cpp:285`); the manifest takes the
   last three of a list that is read newest first (`app_state_router_presets.cpp:490`).
4. `SessionAliases`: generated names, explicit names, `resolveAlias`. Aliases are
   unique among live rows only, so a resumed row can bring back a name that was
   given to another (`session_supervisor_lifecycle.cpp:425`).

Smaller hazards that no property is about and `PROJECT.json` does not list: a rename
does not raise the version, so its old value can be shown once more
(`app_state.cpp:100`); a closed router resumed beside its successor
(`app_state_actions.cpp:341`); a worktree in use is found by its path as text
(`app_state_refresh.cpp:334`); a `git` that does not answer once empties the list of
worktrees and moves the target to the repository's root (`app_state_refresh.cpp:379`);
`moveSessionToIndex` takes the index of a card for one in an order that holds the
hidden sessions too (`app_state_selection.cpp:425`); `opencode` lists at most 200
sessions (`opencode_session_resolver.cpp:95`) and a failed listing reads as an empty
one (`opencode_session_resolver.cpp:97`); `C-a` and `C-k` to a pane in copy mode move
and cut there (`terminal_surface_controller.cpp:130`).
