--------------------------- MODULE SessionStatus ---------------------------
(***************************************************************************)
(* How a session's row comes to say what its agent is doing: the tmux      *)
(* observation cache, the signals it reports, StatusAggregator::applySignal *)
(* and the writes of two workers and of the UI, for one session.           *)
(*                                                                         *)
(* The monitor keeps its adapter, and so its cache, from poll to poll; a   *)
(* refresh makes a new one.  Both read the row, look at the pane, read the *)
(* row again and write it: everything else may happen in between.          *)
(*                                                                         *)
(* A screen is what the provider shows: its pane title and its lines, the  *)
(* newest first, each line the set of kinds of pattern it matches.  Time   *)
(* is counted in ticks of four seconds; a worker goes from its look at the *)
(* pane to its write within a tick.                                        *)
(***************************************************************************)
EXTENDS Integers, Sequences, FiniteSets

CONSTANTS
  None,
  Screens,    \* provider key -> the screens its agents show
  MaxOpens,   \* times the session is opened
  MaxFaults   \* failed tmux commands and writes

Providers == DOMAIN Screens

ASSUME BoundsAssumption == MaxOpens \in Nat /\ MaxFaults \in Nat

VARIABLES
  provider,   \* provider key of the session
  row,        \* the session's row
  screen,     \* what the agent shows
  live,       \* whether the newest tmux session exists
  opens,      \* tmux sessions so far; the number of the newest
  frame,      \* what the UI and the workers are doing
  cache,      \* m_observedSessions of the monitor's adapter
  faults      \* failures so far

vars == <<provider, row, screen, live, opens, frame, cache, faults>>

-----------------------------------------------------------------------------
(* observabilityHints of the adapters.  titles: the kinds of title there   *)
(* are patterns for; hold: recentInputStateHoldMs in ticks, 2.5 seconds    *)
(* ending within one;                                                      *)
(* eager: preferRecentInputHoldBeforeTailSignals; segment:                 *)
(* restrictActiveTailToPromptSegment; generic:                             *)
(* allowGenericActiveTailFallback.                                         *)

CodexHints == [titles |-> {}, hold |-> 0, eager |-> FALSE,
               segment |-> FALSE, generic |-> TRUE]

ClaudeHints == [titles |-> {"prompt", "active"}, hold |-> 2, eager |-> TRUE,
                segment |-> FALSE, generic |-> TRUE]

GeminiHints == [titles |-> {"approval", "prompt", "active"}, hold |-> 0,
                eager |-> TRUE, segment |-> TRUE, generic |-> FALSE]

HermesHints == [titles |-> {}, hold |-> 0, eager |-> FALSE,
                segment |-> FALSE, generic |-> FALSE]

OpenCodeHints == [titles |-> {}, hold |-> 2, eager |-> TRUE,
                  segment |-> TRUE, generic |-> FALSE]

Hints == [codex |-> CodexHints, claude |-> ClaudeHints, gemini |-> GeminiHints,
          hermes |-> HermesHints, opencode |-> OpenCodeHints]

H == Hints[provider]

(* tailCaptureIntervalForSession, in ticks.                                *)
Interval(r) ==
  IF r.state # "Idle" THEN 0 ELSE IF provider = "codex" THEN 2 ELSE 1

-----------------------------------------------------------------------------
(* What is kept                                                            *)

Kinds == {"approval", "active", "waiting", "prompt", "ignored"}

States == {"Starting", "Idle", "Thinking", "AwaitingApproval",
           "WaitingForInput", "Exited"}

AgeCap == 3      \* older than every hold

Details == {"approval", "prompt", "active", "waiting", "output", "refreshed",
            "gone", "opened", "ended"}

(* text tells two active lines apart; ref is statusSourceRef: the tmux     *)
(* session whose pane told the status, 0 if it names a session or a talk.  *)
Row == [state : States,
        by : {"UiLocal", "Tmux", "PromptMarker", "ProviderHint"},
        detail : Details,
        text : 0..2,
        ref : 0..MaxOpens,
        age : 0..AgeCap,      \* since updatedAt
        mux : 0..MaxOpens]

(* long: more lines than a capture of an idle pane takes.                  *)
Screen == [title : Kinds \cup {None}, tail : Seq(SUBSET Kinds), text : 0..2,
           long : BOOLEAN]

ASSUME NoneAssumption == None \notin Kinds

ASSUME ScreensAssumption ==
  /\ Providers \subseteq DOMAIN Hints
  /\ \A p \in Providers : Screens[p] \subseteq Screen

(* A capture; cut: fewer lines than the pane has.                          *)
Capture == [title : Kinds \cup {None}, tail : Seq(SUBSET Kinds), text : 0..2,
            cut : BOOLEAN]

(* What the monitor's adapter keeps of the pane.                           *)
Observed == [mux : 0..MaxOpens, seen : Capture, age : 0..2]

Blank == [title |-> None, tail |-> <<>>, text |-> 0, cut |-> FALSE]

Threads == {"ui", "monitor", "refresher"}
Workers == {"monitor", "refresher"}

Signal == [kind : {"attached", "output", "exited"}, mux : 0..MaxOpens,
           seen : Capture]
NoSignal == [kind |-> None, mux |-> 0, seen |-> Blank]

Frame == [pc : {"idle", "attach", "apply", "write"},
          signal : Signal \cup {NoSignal},
          record : Row \cup {None}]
IdleFrame == [pc |-> "idle", signal |-> NoSignal, record |-> None]

Watched(r) == r.state # "Exited"
LiveMux(m) == live /\ m = opens

(* The provenance of a status goes with its state.                         *)
StatusOK(r) ==
  /\ r.by = "PromptMarker" => r.state = "Idle"
  /\ r.by = "ProviderHint" =>
       r.state \in {"Thinking", "AwaitingApproval", "WaitingForInput"}
  /\ r.by = "UiLocal" => r.state \in {"Starting", "Exited"}
  /\ r.by = "Tmux" => r.state \in {"Idle", "Thinking", "Exited"}
  /\ r.state = "Exited" => r.detail \in {"gone", "ended"}

FrameOK(w, f) ==
  /\ f.pc \in IF w = "ui" THEN {"idle", "attach", "write"}
             ELSE {"idle", "apply", "write"}
  /\ f.pc \in {"attach", "write"} => f.record \in Row /\ StatusOK(f.record)
  /\ f.pc = "apply" => f.signal \in Signal

TypeOK ==
  /\ provider \in Providers
  /\ row \in Row /\ StatusOK(row)
  /\ screen \in Screens[provider]
  /\ live \in BOOLEAN
  /\ opens \in 0..MaxOpens
  /\ frame \in [Threads -> Frame] /\ \A w \in Threads : FrameOK(w, frame[w])
  /\ cache \in Observed \cup {None}
  /\ faults \in 0..MaxFaults

Init ==
  /\ provider \in Providers
  /\ row = [state |-> "Exited", by |-> "UiLocal", detail |-> "ended",
            text |-> 0, ref |-> 0, age |-> AgeCap, mux |-> 0]
  /\ screen \in Screens[provider]
  /\ live = FALSE
  /\ opens = 0
  /\ frame = [w \in Threads |-> IdleFrame]
  /\ cache = None
  /\ faults = 0

Fault == faults < MaxFaults /\ faults' = faults + 1
MayFail(tried) == IF tried THEN BOOLEAN ELSE {FALSE}
Try(failed) == IF failed THEN Fault ELSE UNCHANGED faults

-----------------------------------------------------------------------------
(* Reading a capture                                                       *)

Least(a, b) == IF a < b THEN a ELSE b

(* filteredRecentLines, by their places in the tail.                       *)
Kept(tail) == { i \in DOMAIN tail : "ignored" \notin tail[i] }

Recent(tail, n) ==
  { i \in Kept(tail) : Cardinality({ j \in Kept(tail) : j <= i }) <= n }

(* matchingRecentLine, as whether there is one.                            *)
Says(tail, kind, n) == \E i \in Recent(tail, n) : kind \in tail[i]

(* textAfterLatestPrompt: the lines newer than the newest prompt.  capture- *)
(* pane ends its last line, so there is always one more, if only an empty  *)
(* one: the code's return of the whole text after a last line is not met.  *)
Segment(tail) ==
  LET prompts == { i \in Kept(tail) : "prompt" \in tail[i] }
  IN  IF prompts = {} THEN tail
      ELSE SubSeq(tail, 1, (CHOOSE i \in prompts : \A j \in prompts : i <= j) - 1)

(* preferredActiveDetail, as whether there is one: an active line, or any  *)
(* line that means nothing else.                                           *)
ActiveDetail(h, tail) ==
  LET text == IF h.segment THEN Segment(tail) ELSE tail
  IN  \/ Says(text, "active", 12)
      \/ /\ h.generic
         /\ \E i \in Recent(text, 12) :
              text[i] \cap {"approval", "waiting", "prompt"} = {}

(* What applySignal looks for in a tail, and how far back.                 *)
Window == [approval |-> 12, active |-> 12, waiting |-> 4, prompt |-> 3]

Reading(h, tail) ==
  [says |-> { k \in DOMAIN Window : Says(tail, k, Window[k]) },
   detail |-> ActiveDetail(h, tail)]

Readings ==
  [p \in Providers |->
     [tail \in { s.tail : s \in Screens[p] } \cup {<<>>} |-> Reading(Hints[p], tail)]]

Read(seen) == Readings[provider][seen.tail]

(* retainedRefreshDetail: what an attached session keeps of its detail.    *)
Retained(r) ==
  IF \/ r.state = "Idle" /\ (r.by = "PromptMarker" \/ r.detail = "prompt")
     \/ r.state = "AwaitingApproval"
     \/ r.state = "WaitingForInput"
  THEN r.detail
  ELSE "refreshed"

-----------------------------------------------------------------------------
(* applySignal                                                             *)

Status(state, by, detail, text) ==
  [state |-> state, by |-> by, detail |-> detail, text |-> text]

StatusOf(r) == Status(r.state, r.by, r.detail, r.text)

(* Mutant: what a provider hinted is held for every provider.              *)
HoldsRecentAnyone(r) ==
  /\ r.state = "Thinking"
  /\ r.by \in {"UiLocal", "ProviderHint"}
  /\ r.age <= H.hold

(* holdRecentInputState: the row says Thinking since a short while, counted *)
(* from the last change of its status.                                     *)
HoldsRecent(r) ==
  /\ r.state = "Thinking"
  /\ r.by = "UiLocal" \/ (H.eager /\ r.by = "ProviderHint")
  /\ r.age <= H.hold

(* Mutant: pane output that says nothing keeps the state, not who said so. *)
BaseUnattributed(kind, r, seen) ==
  CASE kind = "exited" -> Status("Exited", "Tmux", "gone", 0)
    [] kind = "attached" -> Status("Idle", "Tmux", Retained(r), r.text)
    [] kind = "output" -> Status(r.state, "Tmux", r.detail, r.text)

(* The status a signal has before the pane is looked at; pane output that  *)
(* says nothing leaves a stable state alone.                               *)
Base(kind, r, seen) ==
  CASE kind = "exited" -> Status("Exited", "Tmux", "gone", 0)
    [] kind = "attached" ->
         Status("Idle", "Tmux", Retained(r), IF Retained(r) = r.detail THEN r.text ELSE 0)
    [] kind = "output" ->
         IF /\ r.state \in {"Idle", "AwaitingApproval", "WaitingForInput", "Starting"}
            /\ ~Read(seen).detail
         THEN StatusOf(r)
         ELSE Status("Thinking", "Tmux", "output", 0)

(* What overrides it, the strongest first.  titled: the title's kind, if   *)
(* the provider has patterns for it.                                       *)
Overrides(kind, r, seen) ==
  LET titled == IF seen.title \in H.titles THEN seen.title ELSE None
      held == HoldsRecent(r)
      says == Read(seen).says
      rule(when, state, by, detail, text) ==
        [when |-> when, status |-> Status(state, by, detail, text)]
  IN  << rule(titled = "approval", "AwaitingApproval", "ProviderHint", "approval", 0),
         rule(titled = "prompt", "Idle", "PromptMarker", "prompt", 0),
         rule(titled = "active", "Thinking", "ProviderHint", "active", seen.text),
         [when |-> H.eager /\ held, status |-> StatusOf(r)],
         rule("active" \in says, "Thinking", "ProviderHint", "active", seen.text),
         [when |-> held, status |-> StatusOf(r)],
         rule("approval" \in says, "AwaitingApproval", "ProviderHint", "approval", 0),
         rule("prompt" \in says /\ kind # "exited", "Idle", "PromptMarker", "prompt", 0),
         rule(titled = "waiting", "WaitingForInput", "ProviderHint", "waiting", 0),
         rule("waiting" \in says, "WaitingForInput", "ProviderHint", "waiting", 0) >>

ApplySignal(kind, r, seen) ==
  LET rules == Overrides(kind, r, seen)
      said == { i \in DOMAIN rules : rules[i].when }
  IN  IF said = {} THEN Base(kind, r, seen)
      ELSE rules[CHOOSE i \in said : \A j \in said : i <= j].status

(* Mutant: the record is stamped and written whether or not it changed.    *)
ChangedAlways(r, status, ref) == TRUE

(* statusChanged.                                                          *)
Changed(r, status, ref) == StatusOf(r) # status \/ r.ref # ref

(* The record applyStatusSignal writes, dated when the pane was looked at. *)
Stamped(r, status, ref) ==
  [state |-> status.state, by |-> status.by, detail |-> status.detail,
   text |-> status.text, ref |-> ref, age |-> 0, mux |-> r.mux]

(* A thread goes on from record r and a signal of the pane of tmux session *)
(* m; an exit is told of the row's own session name.                       *)
Applied(r, kind, seen, m) ==
  LET status == ApplySignal(kind, r, seen)
      ref == IF kind = "exited" THEN 0 ELSE m
  IN  IF Changed(r, status, ref)
      THEN [pc |-> "write", signal |-> NoSignal,
            record |-> Stamped(r, status, ref)]
      ELSE IdleFrame

-----------------------------------------------------------------------------
(* The pane                                                                *)

(* syncWatchedSessions asks for 64 lines, or for few of an idle pane.      *)
Captured(s, few) ==
  [title |-> IF H.titles = {} THEN None ELSE s.title,
   tail |-> s.tail, text |-> s.text, cut |-> few /\ s.long]

(* capture-pane, which reads as an empty tail when it fails.               *)
CapturePane(few, failed) ==
  IF failed THEN [Blank EXCEPT !.title = Captured(screen, few).title]
  ELSE Captured(screen, few)

-----------------------------------------------------------------------------
(* The UI                                                                  *)

(* resumeSession up to its first write; a launch makes the same row.       *)
Open ==
  /\ frame["ui"] = IdleFrame
  /\ row.state = "Exited"
  /\ opens < MaxOpens
  /\ opens' = opens + 1
  /\ live' = TRUE
  /\ screen' \in Screens[provider]
  /\ row' = [state |-> "Starting", by |-> "UiLocal", detail |-> "opened",
             text |-> 0, ref |-> 0, age |-> 0, mux |-> opens + 1]
  /\ frame' = [frame EXCEPT !["ui"] = [pc |-> "attach", signal |-> NoSignal,
                                       record |-> row']]
  /\ UNCHANGED <<provider, cache, faults>>

(* Its last steps: it looks at the pane and applies that to the record it  *)
(* has in memory.                                                          *)
Attach ==
  /\ frame["ui"].pc = "attach"
  /\ \E failed \in MayFail(live) :
       /\ Try(failed)
       /\ frame' = [frame EXCEPT !["ui"] =
                      Applied(frame["ui"].record, "attached",
                              IF live THEN CapturePane(FALSE, failed) ELSE Blank,
                              frame["ui"].record.mux)]
  /\ UNCHANGED <<provider, row, screen, live, opens, cache>>

(* terminateSession, when nothing fails.                                   *)
Terminate ==
  /\ frame["ui"] = IdleFrame
  /\ Watched(row)
  /\ live' = (live /\ row.mux # opens)
  /\ row' = [row EXCEPT !.state = "Exited", !.by = "UiLocal", !.detail = "ended",
                        !.text = 0, !.ref = 0, !.age = 0, !.mux = 0]
  /\ UNCHANGED <<provider, screen, opens, frame, cache, faults>>

(* The agent draws, or ends.                                               *)
Draw ==
  /\ live
  /\ screen' \in Screens[provider] \ {screen}
  /\ UNCHANGED <<provider, row, live, opens, frame, cache, faults>>

AgentEnds ==
  /\ live
  /\ live' = FALSE
  /\ UNCHANGED <<provider, row, screen, opens, frame, cache, faults>>

-----------------------------------------------------------------------------
(* The workers                                                             *)

(* A refresh starts with an empty cache; the monitor waits while one runs. *)
CacheOf(w) == IF w = "monitor" THEN cache ELSE None
Keep(w, c) == cache' = IF w = "monitor" THEN c ELSE cache

MayStart(w) ==
  /\ frame[w] = IdleFrame
  /\ w = "monitor" => frame["refresher"] = IdleFrame

Send(w, kind, capture) ==
  frame' = [frame EXCEPT ![w] = [pc |-> "apply", record |-> None,
                                 signal |-> [kind |-> kind, mux |-> row.mux,
                                             seen |-> capture]]]

(* list-panes fails: no events, the cache stays.                           *)
PollFails(w) ==
  /\ MayStart(w)
  /\ Watched(row)
  /\ Fault
  /\ UNCHANGED <<provider, row, screen, live, opens, frame, cache>>

(* Nothing to watch: the cache is emptied.                                 *)
PollNothing(w) ==
  /\ MayStart(w)
  /\ ~Watched(row)
  /\ CacheOf(w) # None
  /\ Keep(w, None)
  /\ UNCHANGED <<provider, row, screen, live, opens, frame, faults>>

(* Mutant: an exit is reported once, of a session that was observed.       *)
PollGoneOnce(w) ==
  /\ MayStart(w)
  /\ Watched(row) /\ ~LiveMux(row.mux)
  /\ CacheOf(w) # None
  /\ Keep(w, None)
  /\ Send(w, "exited", Blank)
  /\ UNCHANGED <<provider, row, screen, live, opens, faults>>

PollGone(w) ==
  /\ MayStart(w)
  /\ Watched(row) /\ ~LiveMux(row.mux)
  /\ Keep(w, None)
  /\ Send(w, "exited", Blank)
  /\ UNCHANGED <<provider, row, screen, live, opens, faults>>

(* Whether the tail is captured, or taken from the cache.                  *)
Due(c) == c = None \/ c.mux # row.mux \/ c.age >= Interval(row)

(* lastTailCaptureAt, as an age.                                           *)
NextAge(c) == IF Due(c) THEN 0 ELSE c.age

(* A live pane: an unknown one is attached to, a change is output.         *)
PollPane(w) ==
  /\ MayStart(w)
  /\ Watched(row) /\ LiveMux(row.mux)
  /\ LET c == CacheOf(w)
     IN  \E failed \in MayFail(Due(c)) :
         LET capture ==
               IF Due(c) THEN CapturePane(row.state = "Idle", failed)
               ELSE [c.seen EXCEPT !.title = Captured(screen, FALSE).title]
         IN
           /\ Try(failed)
           /\ Keep(w, [mux |-> row.mux, seen |-> capture, age |-> NextAge(c)])
           /\ IF c = None \/ c.mux # row.mux
              THEN Send(w, "attached", capture)
              ELSE IF c.seen # capture THEN Send(w, "output", capture)
              ELSE UNCHANGED frame
  /\ UNCHANGED <<provider, row, screen, live, opens>>

(* refreshSessionStates, for one signal: the row is read again, and an     *)
(* empty tail captured again.                                              *)
Apply(w) ==
  /\ frame[w].pc = "apply"
  /\ LET signal == frame[w].signal
         again == /\ Watched(row) /\ LiveMux(signal.mux)
                  /\ signal.kind # "exited" /\ signal.seen.tail = <<>>
     IN  \E failed \in MayFail(again) :
           /\ Try(failed)
           /\ frame' = [frame EXCEPT ![w] =
                IF ~Watched(row) THEN IdleFrame
                ELSE Applied(row, signal.kind,
                       IF again
                       THEN [CapturePane(FALSE, failed) EXCEPT !.title = signal.seen.title]
                       ELSE signal.seen,
                       signal.mux)]
  /\ Keep(w, IF Watched(row) THEN CacheOf(w) ELSE None)
  /\ UNCHANGED <<provider, row, screen, live, opens>>

(* The upsert of the whole record.  The status is lost if it fails.        *)
Write(w) ==
  /\ frame[w].pc = "write"
  /\ \E failed \in BOOLEAN :
       /\ Try(failed)
       /\ row' = IF failed THEN row ELSE frame[w].record
  /\ frame' = [frame EXCEPT ![w] = IdleFrame]
  /\ IF frame[w].record.state = "Exited" THEN Keep(w, None) ELSE UNCHANGED cache
  /\ UNCHANGED <<provider, screen, live, opens>>

(* Time passes.                                                            *)
Tick ==
  /\ \A w \in Threads : frame[w] = IdleFrame
  /\ row' = [row EXCEPT !.age = Least(@ + 1, AgeCap)]
  /\ cache' = IF cache = None THEN None ELSE [cache EXCEPT !.age = Least(@ + 1, 2)]
  /\ <<row', cache'>> # <<row, cache>>
  /\ UNCHANGED <<provider, screen, live, opens, frame, faults>>

Poll(w) == PollFails(w) \/ PollNothing(w) \/ PollGone(w) \/ PollPane(w)

Next ==
  \/ Open \/ Attach \/ Terminate \/ Draw \/ AgentEnds
  \/ \E w \in Workers : Poll(w) \/ Apply(w)
  \/ \E w \in Threads : Write(w)
  \/ Tick

(* Time passes, the monitor's timer comes back, and every call that was    *)
(* begun returns.  Nobody need refresh.                                    *)
Fairness ==
  /\ SF_vars(Tick)
  /\ WF_vars(Poll("monitor"))
  /\ \A w \in Threads : []<>(frame[w] = IdleFrame)

Spec == Init /\ [][Next]_vars /\ Fairness

-----------------------------------------------------------------------------
(* Properties                                                              *)

(* A session whose tmux session is gone comes to be shown as exited: a     *)
(* report that is held back, or whose write fails, is made again.          *)
ExitIsShown ==
  (Watched(row) /\ ~LiveMux(row.mux)) ~> ~Watched(row)

(* The state a screen stands for, when it shows one thing only.            *)
Meanings == [approval |-> "AwaitingApproval", active |-> "Thinking",
             waiting |-> "WaitingForInput", prompt |-> "Idle"]

Signs(s) ==
  (IF s.title \in H.titles THEN {s.title} ELSE {})
  \cup UNION { s.tail[i] : i \in Recent(s.tail, 3) }

Agrees(s) == \A k \in Signs(s) : Signs(s) = {k} => row.state = Meanings[k]

(* If refreshes keep coming and the agent comes to rest on a screen that   *)
(* shows one thing, the row comes to say that thing for good, whatever the *)
(* monitor, the holds and lost writes did before.                          *)
RefreshSettles ==
  /\ []<><<Poll("refresher") /\ Watched(row)>>_vars
  /\ <>[][FALSE]_screen
  => <>[](Watched(row) /\ LiveMux(row.mux) => Agrees(screen))

(* For a provider whose activity is not held, the monitor alone keeps a    *)
(* row right: if the row agrees with what it last saw, and from then on    *)
(* nobody else writes and nothing fails, the row follows the agent to the  *)
(* screen it comes to rest on.                                             *)
Alone == frame["ui"] = IdleFrame /\ frame["refresher"] = IdleFrame

InStep == /\ ~H.eager
          /\ frame["monitor"] = IdleFrame
          /\ cache # None /\ Agrees(cache.seen)

MonitorSettles ==
  \A n \in 0..MaxFaults :
    /\ <>(InStep /\ [](Alone /\ faults = n /\ LiveMux(row.mux)))
    /\ <>[][FALSE]_screen
    => <>[]Agrees(screen)

(* docs/provider-embedding-plan.md: OpenCode "flips active only while      *)
(* actually working, and returns to idle on the native footer".            *)
IdleIsShown ==
  \A s \in UNION { Screens[p] : p \in Providers } :
    (screen = s /\ Signs(s) = {"prompt"} /\ live /\ LiveMux(row.mux))
      ~> (row.state # "Thinking" \/ screen # s \/ ~live)
=============================================================================
