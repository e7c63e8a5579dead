----------------------------- MODULE SessionBoard -----------------------------
(***************************************************************************)
(* What AppState makes of the sessions: the cards of the live workers in   *)
(* the order the user gave them, the list of sessions to resume, the       *)
(* selected session, the master and the router, the manifest file through  *)
(* which the router's script finds the workers, and the settings that      *)
(* bring order, selection and presets back at the next start.              *)
(*                                                                         *)
(* A handler of the UI thread is one step, and so is a call of the         *)
(* supervisor.  AppStateSnapshots has the races of the answers with the    *)
(* user's actions; here an answer is the table as it is, or is dropped.    *)
(***************************************************************************)
EXTENDS Integers, FiniteSets, RouterPresets

CONSTANTS
  Sessions,        \* session ids, never reused
  Kind,            \* SessionCategory of each
  Marked,          \* sessions whose provider's pending tokens
                   \* hasResolvedResumeToken knows: Codex and Gemini
  LiveStates,      \* the states of a live session an agent can show
  LastAlias,       \* the alphabet is 1..LastAlias
  None,
  MaxActions,      \* bound: user actions
  MaxCrashes       \* bound: how often the app dies

ControlKinds == {"Master", "Router"}

SessionStates == {"Starting", "Thinking", "RunningTool", "AwaitingApproval",
                  "WaitingForInput", "Idle", "Backgrounded", "Error", "Exited"}

ASSUME SessionAssumption ==
  /\ IsFiniteSet(Sessions)
  /\ Kind \in [Sessions -> {"Worker"} \cup ControlKinds]
  /\ Marked \subseteq Sessions
  /\ LiveStates \subseteq SessionStates \ {"Exited"} /\ "Starting" \in LiveStates
  /\ None \notin Sessions

ASSUME BoardBounds ==
  /\ LastAlias \in Nat /\ LastAlias >= MaxActions
  /\ MaxActions \in Nat /\ MaxCrashes \in Nat

Aliases == 1..LastAlias

VARIABLES
  rows,       \* sessions table
  doing,      \* what the agent of each session is at
  shown,      \* m_sessions
  order,      \* m_sessionManualOrder
  autosort,   \* m_sessionAutosortEnabled
  selected,   \* m_selectedSessionId, None for the empty id
  cards,      \* m_sessionModel
  entries,    \* m_resumeModel
  control,    \* m_masterSessionId and m_routerSessionId
  manifest,   \* manifest.json
  config,     \* m_routerPresetKey and m_routerCustomPresets
  saved,      \* the settings file
  loaded,     \* something was shown since the app started
  up,         \* the app runs
  born,       \* session ids handed out so far
  actions,    \* user actions so far
  crashes     \* crashes so far

copies == <<shown, order, selected, cards, entries, control, manifest, loaded>>
vars == <<rows, doing, copies, autosort, config, saved, up, born, actions,
          crashes>>

Row == [state : LiveStates \cup {"Exited"},
        alias : Aliases,
        token : {"pending", "found"}]

Card == [session : Sessions, state : LiveStates, alias : Aliases,
         selected : BOOLEAN]

Named == [state : LiveStates, alias : Aliases]

(* None is not one of the records it stands for the absence of.            *)
ASSUME RowAssumption == None \notin Row \cup Named

Settings == [order : Seq(Sessions), autosort : BOOLEAN,
             selected : Sessions \cup {None},
             active : BuiltIn \cup CustomKeys, presets : Seq(Preset)]

NoRows == [s \in Sessions |-> None]

TypeOK ==
  /\ rows \in [Sessions -> {None} \cup Row]
  /\ doing \in [Sessions -> LiveStates \cup {"Exited"}]
  /\ shown \in [Sessions -> {None} \cup Row]
  /\ order \in Seq(Sessions) /\ IsInjective(order)
  /\ autosort \in BOOLEAN
  /\ selected \in Sessions \cup {None}
  /\ cards \in Seq(Card)
  /\ entries \subseteq Sessions
  /\ control \in [ControlKinds -> Sessions \cup {None}]
  /\ manifest.workers \in [Sessions -> {None} \cup Named]
  /\ manifest.control \in [ControlKinds -> Sessions \cup {None}]
  /\ config.active \in BuiltIn \cup CustomKeys
  /\ config.presets \in Seq(Preset)
  /\ saved \in Settings
  /\ {loaded, up} \subseteq BOOLEAN
  /\ born \subseteq Sessions
  /\ actions \in 0..MaxActions /\ crashes \in 0..MaxCrashes

NoControl == [k \in ControlKinds |-> None]

Init ==
  /\ rows = NoRows
  /\ doing = [s \in Sessions |-> "Exited"]
  /\ shown = NoRows
  /\ order = <<>>
  /\ autosort = FALSE
  /\ selected = None
  /\ cards = <<>>
  /\ entries = {}
  /\ control = NoControl
  /\ manifest = [workers |-> NoRows, control |-> NoControl]
  /\ config = [active |-> Standard, presets |-> <<>>]
  /\ saved = [order |-> <<>>, autosort |-> FALSE, selected |-> None,
              active |-> Standard, presets |-> <<>>]
  /\ loaded = FALSE
  /\ up = TRUE
  /\ born = {}
  /\ actions = 0
  /\ crashes = 0

-----------------------------------------------------------------------------
(* What is presented of the copy                                           *)

IsLive(rec) == rec # None /\ rec.state # "Exited"
IsExited(rec) == rec # None /\ rec.state = "Exited"
Presentable(copy, s) == IsLive(copy[s]) /\ Kind[s] = "Worker"

(* Mutant: the rows' own order is taken, and the user's is forgotten.      *)
NewOrdersForgotten(ord, copy) ==
  LET live == { s \in Sessions : IsLive(copy[s]) }
  IN  SetToSeqs(live)

(* Mutant: sessions that have a place get another one.                     *)
NewOrdersTwice(ord, copy) ==
  LET live == { s \in Sessions : IsLive(copy[s]) }
      kept == InOrder(live \cap ToSet(ord), AntiFunction(ord))
  IN  { kept \o p : p \in SetToSeqs(live) }

(* normalizeSessionManualOrder: what is live keeps its place, the rest     *)
(* follows as the rows come, by the time of their last change.  The        *)
(* control sessions are in it.                                             *)
NewOrders(ord, copy) ==
  LET live == { s \in Sessions : IsLive(copy[s]) }
      kept == InOrder(live \cap ToSet(ord), AntiFunction(ord))
  IN  { kept \o p : p \in SetToSeqs(live \ ToSet(ord)) }

(* autosortRankForSession.                                                 *)
Rank(state) ==
  CASE state = "Idle" -> 0
    [] state \in {"WaitingForInput", "AwaitingApproval"} -> 1
    [] state \in {"Starting", "Backgrounded", "Error"} -> 2
    [] state \in {"Thinking", "RunningTool"} -> 3
    [] state = "Exited" -> 4

(* presentedSessions: a stable sort by rank, or the order itself.          *)
Presented(copy, ord, sorted) ==
  LET ids   == { s \in ToSet(ord) : Presentable(copy, s) }
      place == AntiFunction(ord)
      key   == [s \in ids |-> IF sorted
                              THEN Rank(copy[s].state) * Len(ord) + place[s]
                              ELSE place[s]]
  IN  InOrder(ids, key)

CardsOf(copy, ids, sel) ==
  [i \in 1..Len(ids) |->
     [session |-> ids[i], state |-> copy[ids[i]].state,
      alias |-> copy[ids[i]].alias, selected |-> ids[i] = sel]]

(* Mutant: an alias is not compared.                                       *)
SameCardButAlias(old, new) ==
  /\ old.session = new.session
  /\ old.state = new.state
  /\ old.selected = new.selected

(* entriesEqual of SessionListModel.                                       *)
SameCard(old, new) ==
  /\ old.session = new.session
  /\ old.state = new.state
  /\ old.selected = new.selected
  /\ old.alias = new.alias

(* SessionListModel::setSessions: with the same sessions in the same order *)
(* only the rows that differ are replaced.                                 *)
SetSessions(old, new) ==
  IF [i \in 1..Len(old) |-> old[i].session]
       = [i \in 1..Len(new) |-> new[i].session]
  THEN [i \in 1..Len(new) |-> IF SameCard(old[i], new[i]) THEN old[i]
                                                          ELSE new[i]]
  ELSE new

(* SessionListModel::setSelectedSessionId.                                 *)
MarkCards(old, sel) ==
  [i \in 1..Len(old) |-> [old[i] EXCEPT !.selected = old[i].session = sel]]

(* hasResolvedResumeToken: knows two of the four kinds of pending token.   *)
HasResolvedToken(s, rec) == rec.token = "found" \/ s \notin Marked

(* presentedResumableSessions, of providers that can resume.               *)
EntriesOf(copy) ==
  { s \in Sessions : IsExited(copy[s]) /\ HasResolvedToken(s, copy[s]) }

(* Mutant: a selection is kept whatever became of its session.             *)
ResolvedKept(ids, sel) == IF ids = <<>> \/ sel # None THEN sel ELSE ids[1]

(* resolveSelectedSession.                                                 *)
Resolved(ids, sel) ==
  CASE Contains(ids, sel) -> sel
    [] ~Contains(ids, sel) /\ ids # <<>> -> ids[1]
    [] ~Contains(ids, sel) /\ ids = <<>> -> None

(* resolveMasterSession, resolveRouterSession: the first live one.         *)
ControlOf(copy, kind) ==
  LET live == { s \in Sessions : IsLive(copy[s]) /\ Kind[s] = kind }
  IN  IF live = {} THEN {None} ELSE live

Controls(copy) ==
  { [kind \in ControlKinds |-> IF kind = "Master" THEN m ELSE r] :
      m \in ControlOf(copy, "Master"), r \in ControlOf(copy, "Router") }

(* Mutant: the master and the router are listed as workers too.            *)
ManifestOfEvery(copy, found) ==
  [workers |-> [s \in Sessions |->
                  IF IsLive(copy[s])
                  THEN [state |-> copy[s].state, alias |-> copy[s].alias]
                  ELSE None],
   control |-> found]

(* writeSessionManifest: the live workers, the router's and the master's   *)
(* pane.                                                                   *)
ManifestOf(copy, found) ==
  [workers |-> [s \in Sessions |->
                  IF Presentable(copy, s)
                  THEN [state |-> copy[s].state, alias |-> copy[s].alias]
                  ELSE None],
   control |-> found]

-----------------------------------------------------------------------------
(* Steps shared by the handlers                                            *)

Act == up /\ actions < MaxActions /\ actions' = actions + 1

(* Mutant: the signature leaves the order out.                             *)
SignatureUnordered(s) == <<s.autosort, s.selected, s.active, s.presets>>

(* selectionPersistenceSignature.                                          *)
Signature(s) == <<s.autosort, s.selected, s.active, s.presets, s.order>>

(* persistSelectionState, after everything else: what is in memory by then *)
(* is written when its signature differs.                                  *)
Persist ==
  LET next == [order |-> order', autosort |-> autosort',
               selected |-> selected', active |-> config'.active,
               presets |-> config'.presets]
  IN  saved' = IF Signature(next) = Signature(saved) THEN saved ELSE next

(* The steps that end every handler with a new copy: the order is brought  *)
(* up to date, the selection resolved, lists and manifest made anew and    *)
(* the settings saved.  With a pick the session is selected afterwards.    *)
Show(copy, ord, pick) ==
  /\ shown' = copy
  /\ \E o \in NewOrders(ord, copy), found \in Controls(copy) :
       LET ids  == Presented(copy, o, autosort)
           kept == Resolved(ids, selected)
           made == SetSessions(MarkCards(cards, kept), CardsOf(copy, ids, kept))
       IN  /\ order' = o
           /\ control' = found
           /\ manifest' = ManifestOf(copy, found)
           /\ selected' = IF pick = None THEN kept ELSE pick
           /\ cards' = IF pick = None THEN made ELSE MarkCards(made, pick)
  /\ entries' = EntriesOf(copy)
  /\ loaded' = TRUE
  /\ UNCHANGED <<autosort, config>>
  /\ Persist

(* syncSessionModel alone.                                                 *)
Sync ==
  /\ cards' = SetSessions(cards, CardsOf(shown',
                                         Presented(shown', order', autosort'),
                                         selected'))
  /\ entries' = EntriesOf(shown')

(* setSelectedSessionId.                                                   *)
SetSelected(s) ==
  /\ selected' = s
  /\ cards' = MarkCards(cards, s)
  /\ UNCHANGED <<shown, order, entries, control, manifest, loaded, autosort,
                 config>>
  /\ Persist

-----------------------------------------------------------------------------
(* Launch, resume, terminate                                               *)

LiveRows == { s \in Sessions : IsLive(rows[s]) }

(* generateNextAlias: the first that no live row has.                      *)
NextAlias(table) ==
  CHOOSE a \in Aliases :
    LET taken == { table[s].alias : s \in { t \in Sessions : IsLive(table[t]) } }
    IN  a \notin taken /\ \A b \in Aliases \ taken : a <= b

(* Claude is given its identifier, the other providers find one.           *)
NewRow(table) == { [state |-> "Starting", alias |-> NextAlias(table),
                    token |-> t] : t \in {"pending", "found"} }

(* launchSelectedRepoSession, ensureMasterSession and ensureRouterSession. *)
Launch(s) ==
  /\ Act
  /\ s \notin born /\ born' = born \cup {s}
  /\ Kind[s] # "Worker" => \A t \in Sessions : Kind[t] = Kind[s]
                                                 => ~IsLive(shown[t])
  /\ \E row \in NewRow(rows) :
       /\ rows' = [rows EXCEPT ![s] = row]
       /\ Show([shown EXCEPT ![s] = row], order,
               IF Kind[s] = "Worker" THEN s ELSE None)
  /\ doing' = [doing EXCEPT ![s] = "Starting"]
  /\ UNCHANGED <<up, crashes>>

(* resumeSession, from an entry of the list: refused while no token is     *)
(* found.  A session of any kind is selected.                              *)
Resume(s) ==
  /\ Act
  /\ s \in entries /\ IsExited(rows[s])
  /\ LET row == [rows[s] EXCEPT !.state = "Starting", !.token = "found"]
     IN  /\ rows' = [rows EXCEPT ![s] = row]
         /\ Show([shown EXCEPT ![s] = row], order, s)
  /\ doing' = [doing EXCEPT ![s] = "Starting"]
  /\ UNCHANGED <<up, born, crashes>>

(* A closed row; the closing call searched for the token once more.        *)
ClosedRows(row) ==
  { [row EXCEPT !.state = "Exited", !.token = t] : t \in {row.token, "found"} }

Terminate(s) ==
  /\ Act
  /\ IsLive(shown[s]) /\ rows[s] # None
  /\ \E row \in ClosedRows(rows[s]) :
       /\ rows' = [rows EXCEPT ![s] = row]
       /\ Show([shown EXCEPT ![s] = row], order, None)
  /\ doing' = [doing EXCEPT ![s] = "Exited"]
  /\ UNCHANGED <<up, born, crashes>>

(* What refreshSessionStates finds out about the live rows.                *)
Observed(table) ==
  [s \in Sessions |-> IF IsLive(table[s])
                      THEN [table[s] EXCEPT !.state = doing[s]] ELSE table[s]]

(* relaunchMasterSession, relaunchRouterSession: end the session, refresh, *)
(* and launch another one.                                                 *)
Relaunch(s, t) ==
  /\ Act
  /\ Kind[s] \in ControlKinds
  /\ control[Kind[s]] = s /\ rows[s] # None
  /\ Kind[t] = Kind[s] /\ t \notin born
  /\ \E closed \in ClosedRows(rows[s]) :
       LET after == Observed([rows EXCEPT ![s] = closed])
       IN  \E row \in NewRow(after), o \in NewOrders(order, after) :
             /\ \A u \in Sessions : Kind[u] = Kind[s] => ~IsLive(after[u])
             /\ rows' = [after EXCEPT ![t] = row]
             /\ Show(rows', o, None)
  /\ born' = born \cup {t}
  /\ doing' = [doing EXCEPT ![s] = "Exited", ![t] = "Starting"]
  /\ UNCHANGED <<up, crashes>>

(* The session cannot be ended, or nothing can be launched: the calls stop *)
(* after the refresh.                                                      *)
RelaunchFails(s) ==
  /\ Act
  /\ Kind[s] \in ControlKinds
  /\ control[Kind[s]] = s /\ rows[s] # None
  /\ \/ /\ rows' = Observed(rows)
        /\ UNCHANGED doing
     \/ \E closed \in ClosedRows(rows[s]) :
          /\ rows' = Observed([rows EXCEPT ![s] = closed])
          /\ doing' = [doing EXCEPT ![s] = "Exited"]
  /\ Show(rows', order, None)
  /\ UNCHANGED <<up, born, crashes>>

(* deleteResumeSessions: closed entries leave the table and the copy.      *)
Delete(ids) ==
  /\ Act
  /\ ids # {} /\ ids \subseteq entries /\ \A s \in ids : IsExited(rows[s])
  /\ rows' = [s \in Sessions |-> IF s \in ids THEN None ELSE rows[s]]
  /\ Show([s \in Sessions |-> IF s \in ids THEN None ELSE shown[s]], order,
          None)
  /\ UNCHANGED <<doing, up, born, crashes>>

-----------------------------------------------------------------------------
(* Order, selection, names                                                 *)

Select(s) ==
  /\ Act
  /\ s # selected /\ \E i \in 1..Len(cards) : cards[i].session = s
  /\ SetSelected(s)
  /\ UNCHANGED <<rows, doing, up, born, crashes>>

(* selectAdjacentSession, selectFirstSession, selectLastSession: by a step *)
(* of delta, from outside the list when nothing in it is selected.         *)
SelectAdjacent(delta) ==
  LET ids == Presented(shown, order, autosort)
      at  == CASE Contains(ids, selected) ->
                    AntiFunction(ids)[selected]
               [] ~Contains(ids, selected) /\ delta >= 0 -> 0
               [] ~Contains(ids, selected) /\ delta < 0 -> Len(ids) + 1
      to  == CASE at + delta < 1 -> 1
               [] at + delta \in 1..Len(ids) -> at + delta
               [] at + delta > Len(ids) -> Len(ids)
  IN  /\ Act
      /\ ids # <<>> /\ ids[to] # selected
      /\ SetSelected(ids[to])
      /\ UNCHANGED <<rows, doing, up, born, crashes>>

SetAutosort(on) ==
  /\ Act
  /\ autosort # on /\ autosort' = on
  /\ UNCHANGED <<rows, doing, shown, order, selected, control, manifest,
                 config, loaded, up, born, crashes>>
  /\ Sync
  /\ Persist

(* moveSessionToIndex: the index is that of the card it was dropped on,    *)
(* and is taken for an index of the order.  normalizeSessionManualOrder,   *)
(* called first, changes nothing: every handler leaves the order normal.   *)
Move(s, index) ==
  /\ Act
  /\ ~autosort
  /\ Contains(order, s)
  /\ LET from == AntiFunction(order)[s]
         to   == IF index > Len(order) THEN Len(order) ELSE index
     IN  /\ from # to
         /\ order' = InsertAt(RemoveAt(order, from), to, s)
  /\ UNCHANGED <<rows, doing, shown, selected, autosort, control, manifest,
                 config, loaded, up, born, crashes>>
  /\ Sync
  /\ Persist

(* setSessionAlias: table, copy and lists; neither manifest nor version.   *)
Rename(s, alias) ==
  /\ Act
  /\ IsLive(shown[s]) /\ rows[s] # None
  /\ \A t \in LiveRows \ {s} : rows[t].alias # alias
  /\ rows' = [rows EXCEPT ![s].alias = alias]
  /\ shown' = [shown EXCEPT ![s].alias = alias]
  /\ UNCHANGED <<doing, order, selected, autosort, control, manifest, config,
                 saved, loaded, up, born, crashes>>
  /\ Sync

-----------------------------------------------------------------------------
(* The router's presets                                                    *)

Configure(presets, active) ==
  /\ config' = [presets |-> presets, active |-> active]
  /\ UNCHANGED <<rows, doing, copies, autosort, up, born, crashes>>
  /\ Persist

(* setRouterPresetKey, and the part of applyRouterConfig that is about     *)
(* presets; the relaunch is above.                                         *)
PickPreset(key) ==
  /\ Act
  /\ Configure(config.presets, NormalizedKey(config.presets, key))

FreshKeys == CustomKeys \ Keys(config.presets)

StorePreset(key, prompt) ==
  /\ Act
  /\ \E fresh \in FreshKeys :
       LET new == SavePreset(config.presets, config.active, key, prompt, fresh)
       IN  Configure(new.presets, new.active)

RemovePreset(key) ==
  /\ Act
  /\ LET new == DeletePreset(config.presets, config.active, key)
     IN  Configure(new.presets, new.active)

-----------------------------------------------------------------------------
(* The agents, the answers of the workers                                  *)

(* An agent goes on, or ends.                                              *)
AgentActs(s, state) ==
  /\ doing[s] # "Exited" /\ doing[s] # state
  /\ doing' = [doing EXCEPT ![s] = state]
  /\ UNCHANGED <<rows, copies, autosort, config, saved, up, born, actions,
                 crashes>>

(* applySessionMonitorSnapshot: nothing is done when nothing is new.       *)
MonitorFinished ==
  /\ up /\ shown # NoRows
  /\ rows' = Observed(rows)
  /\ IF rows' = shown
     THEN UNCHANGED <<copies, autosort, config, saved>>
     ELSE Show(rows', order, None)
  /\ UNCHANGED <<doing, up, born, actions, crashes>>

(* An answer that was out of date when it came: the table is up to date,   *)
(* the copy is not.                                                        *)
AnswerDropped ==
  /\ up
  /\ rows' = Observed(rows)
  /\ UNCHANGED <<doing, copies, autosort, config, saved, up, born, actions,
                 crashes>>

(* applyRefreshSnapshot, and refreshSessionsSnapshot.                      *)
RefreshFinished ==
  /\ up
  /\ rows' = Observed(rows)
  /\ Show(rows', order, None)
  /\ UNCHANGED <<doing, up, born, actions, crashes>>

-----------------------------------------------------------------------------
(* The end of the app, and the next start                                  *)

(* shutdownOwnedSessionsForAppExit and the refresh that follows.           *)
Quit ==
  /\ Act
  /\ \E found \in SUBSET LiveRows :
       rows' = [s \in Sessions |->
                  IF ~IsLive(rows[s]) THEN rows[s]
                  ELSE [rows[s] EXCEPT !.state = "Exited",
                          !.token = IF s \in found THEN "found" ELSE @]]
  /\ Show(rows', order, None)
  /\ up' = FALSE
  /\ doing' = [s \in Sessions |-> "Exited"]
  /\ UNCHANGED <<born, crashes>>

Crash ==
  /\ up /\ crashes < MaxCrashes
  /\ crashes' = crashes + 1
  /\ up' = FALSE
  /\ UNCHANGED <<rows, doing, copies, autosort, config, saved, born, actions>>

(* loadPersistedSelectionState, and the cleanup of the sessions that were  *)
(* left behind, some of which may resist.                                  *)
Start ==
  /\ ~up /\ up' = TRUE
  /\ \E ended \in SUBSET LiveRows :
       /\ rows' = [s \in Sessions |-> IF s \in ended
                                      THEN [rows[s] EXCEPT !.state = "Exited"]
                                      ELSE rows[s]]
       /\ doing' = [s \in Sessions |-> IF s \in ended THEN "Exited"
                                       ELSE doing[s]]
  /\ order' = saved.order
  /\ autosort' = saved.autosort
  /\ selected' = saved.selected
  /\ \E fresh \in CustomKeys :
       LET presets == NormalizedPresets(saved.presets, fresh)
       IN  config' = [presets |-> presets,
                      active |-> NormalizedKey(presets, saved.active)]
  /\ shown' = NoRows /\ cards' = <<>> /\ entries' = {} /\ control' = NoControl
  /\ loaded' = FALSE
  /\ UNCHANGED <<manifest, saved, born, actions, crashes>>

-----------------------------------------------------------------------------
UserAction ==
  \/ \E s \in Sessions : Launch(s) \/ Resume(s) \/ Terminate(s) \/ Select(s)
  \/ \E s, t \in Sessions : Relaunch(s, t)
  \/ \E s \in Sessions : RelaunchFails(s)
  \/ \E ids \in SUBSET Sessions : Delete(ids)
  \/ \E delta \in {-1, 1} : SelectAdjacent(delta)
  \/ \E on \in BOOLEAN : SetAutosort(on)
  \/ \E s \in Sessions, index \in 1..Len(cards) : Move(s, index)
  \/ \E s \in Sessions, alias \in Aliases : Rename(s, alias)
  \/ \E key \in BuiltIn \cup CustomKeys :
       PickPreset(key) \/ RemovePreset(key)
         \/ \E prompt \in Prompts \cup {Blank} : StorePreset(key, prompt)
  \/ Quit

Next ==
  \/ UserAction
  \/ \E s \in Sessions, state \in LiveStates \cup {"Exited"} :
       AgentActs(s, state)
  \/ MonitorFinished
  \/ AnswerDropped
  \/ RefreshFinished
  \/ Crash
  \/ Start

Spec == Init /\ [][Next]_vars

(* The monitor is polled by a timer as long as the app runs.               *)
FairSpec == Spec /\ WF_vars(MonitorFinished)

-----------------------------------------------------------------------------
(* Properties                                                              *)

(* The lists are those of the copy: every card shows its session as it is  *)
(* known, in the order the user chose, and exactly the selected one is     *)
(* marked, although only rows that differ are replaced and the mark is     *)
(* moved on its own.  (SessionListModel::setSessions and                   *)
(* setSelectedSessionId, syncSessionModel.)                                *)
BoardIsCurrent ==
  up => /\ cards = CardsOf(shown, Presented(shown, order, autosort), selected)
        /\ entries = EntriesOf(shown)

(* Keys typed into the terminal go to a live session: once something was   *)
(* shown the selected session is live in the copy, and nothing is selected *)
(* only when there is no card.  (resolveSelectedSession in every handler.) *)
SelectionIsLive ==
  up /\ loaded => IF selected = None THEN cards = <<>>
                                     ELSE IsLive(shown[selected])

(* The router's script finds every live worker in the manifest with the    *)
(* state that is shown, and nobody else, and the panes of the live router  *)
(* and master.  (writeSessionManifest in every handler with a new copy.)   *)
ManifestListsWorkers ==
  up /\ loaded =>
    /\ \A s \in Sessions :
         IF Presentable(shown, s)
         THEN /\ manifest.workers[s] # None
              /\ manifest.workers[s].state = shown[s].state
         ELSE manifest.workers[s] = None
    /\ manifest.control = control
    /\ control \in Controls(shown)

(* Nothing but a move changes the order of two sessions that stay: no new  *)
(* or closed session, no answer of a worker, no autosort in between and no *)
(* restart after a crash.  (normalizeSessionManualOrder,                   *)
(* persistSelectionState, loadPersistedSelectionState.)                    *)
Before(ord, a, b) ==
  \E i, j \in 1..Len(ord) : i < j /\ ord[i] = a /\ ord[j] = b

OrderIsTheUsers ==
  [][order' # order =>
       \A a, b \in ToSet(order) \cap ToSet(order') :
         Before(order, a, b)
         => \/ Before(order', a, b)
            \/ \E index \in 1..Len(cards) : Move(a, index) \/ Move(b, index)]_vars

(* The router can always be started with its preset: the active key is one *)
(* that exists, also after presets were deleted and after a restart.       *)
(* (deleteCustomRouterPreset, normalizeRouterPresetState.)                 *)
PresetExists == config.active \in BuiltIn \cup Keys(config.presets)

(* Whatever the app dies of, the next start finds the presets, order and   *)
(* selection as they were.  (persistSelectionState and its signature.)     *)
SavedIsCurrent ==
  up /\ loaded => saved = [order |-> order, autosort |-> autosort,
                           selected |-> selected, active |-> config.active,
                           presets |-> config.presets]

(* A session is offered for resuming only once its token is found.         *)
(* (presentedResumableSessions; README.md:116.)                            *)
EntriesAreResolved ==
  \A s \in entries : shown[s].token = "found"

(* The manifest comes to name the workers as the user does.                *)
(* (setSessionAlias, applySessionMonitorSnapshot;                          *)
(* router_preset_library.cpp:311.)                                         *)
ManifestCatchesUp ==
  \A s \in Sessions :
    (Presentable(shown, s) /\ up)
      ~> (\/ ~up \/ ~Presentable(shown, s)
          \/ /\ manifest.workers[s] # None
             /\ manifest.workers[s].alias = shown[s].alias)

================================================================================
