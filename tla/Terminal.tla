-------------------------------- MODULE Terminal --------------------------------
(***************************************************************************)
(* The embedded terminals: TerminalSurfaceController and its backend,      *)
(* TmuxTerminalBackend.                                                    *)
(*                                                                         *)
(* The panels for the selected session, the Master and the router each     *)
(* have a controller, bound to a session, and a viewport that runs the     *)
(* client of the session shown.  Pasting, wheel scrolling, the keys Hydra  *)
(* sends and the preparation of an attach are sequences of tmux commands,  *)
(* run one after the other on the UI thread.  Between two of them the      *)
(* agents, and the users attached to the same tmux sessions, go on; a      *)
(* command may fail, or run out of its time with its effect or without it. *)
(***************************************************************************)
EXTENDS Naturals

CONSTANTS
  Sessions,        \* sessions with a tmux session of their own
  OpenCode,        \* those of the OpenCode provider, which has its own mouse
  Codex,           \* those of the Codex provider, which takes images by C-v
  Panels,          \* the terminal panels, each with a controller
  Buffers,         \* names of paste buffers (uuid)
  Top,             \* bound: wheel steps from the bottom to the oldest line
  MaxFaults,       \* bound: failures and timeouts of commands, and crashes
  None             \* no session, no buffer, not in copy mode

ASSUME TerminalAssumption ==
  /\ OpenCode \subseteq Sessions /\ Codex \subseteq Sessions \ OpenCode
  /\ Top \in Nat \ {0} /\ MaxFaults \in Nat
  /\ None \notin Sessions \cup Buffers \cup Panels \cup Nat

VARIABLES
  pane,        \* of each session: what tmux keeps
  buffers,     \* the paste buffers on the tmux server
  bound,       \* the session each controller is bound to, or None
  error,       \* whether a controller shows an error
  attached,    \* the embedded clients: <<panel, session>>
  call,        \* the call the UI thread is in
  outcome,     \* what the last paste came to
  unanswered,  \* buffers of which a load or a removal got no answer
  faults       \* failures so far

vars == <<pane, buffers, bound, error, attached, call, outcome, unanswered,
          faults>>

Pane == [alive : BOOLEAN,
         scroll : {None} \cup 0..Top,       \* lines from the bottom
         byHand : BOOLEAN,                  \* copy mode without -e
         mouse : {"unset", "on", "off"},
         status : BOOLEAN]                  \* the status line is shown

Pasting == {"paste", "submit"}
Wheeling == {"up", "down"}

StepsOf(op) ==
  IF op \in Pasting THEN {"load", "paste", "drop"}
  ELSE IF op \in Wheeling THEN {"query", "enter", "move", "queryAgain", "cancel"}
  ELSE IF op = "kill" THEN {"home", "cut"}
  ELSE IF op = "key" THEN {"send"}
  ELSE IF op = "attach" THEN {"mouse", "status"}
  ELSE {"idle"}

Operations == Pasting \cup Wheeling \cup {"none", "kill", "key", "attach"}

(* hits: how often the text reached the agent; enter: who got the Enter     *)
(* sent after it, if any; lost: some command of the call got no answer.     *)
Enters == {"none", "agent", "copyMode"}

Call == [op : Operations,
         step : UNION { StepsOf(op) : op \in Operations },
         panel : Panels \cup {None},
         target : Sessions \cup {None},
         buffer : Buffers \cup {None},
         hits : 0..2, enter : Enters, lost : BOOLEAN]

NoCall == [op |-> "none", step |-> "idle", panel |-> None, target |-> None,
           buffer |-> None, hits |-> 0, enter |-> "none", lost |-> FALSE]

Outcome == [op : Operations, ok : BOOLEAN, hits : 0..2, enter : Enters,
            lost : BOOLEAN]

TypeOK ==
  /\ pane \in [Sessions -> Pane]
  /\ \A s \in Sessions : ~pane[s].alive => pane[s].scroll = None
  /\ buffers \subseteq Buffers
  /\ bound \in [Panels -> Sessions \cup {None}]
  /\ error \in [Panels -> BOOLEAN]
  /\ attached \subseteq Panels \X Sessions
  /\ call \in Call /\ call.step \in StepsOf(call.op)
  /\ call.op # "none" => call.target # None
  /\ call.step \in {"paste", "drop"} => call.buffer # None
  /\ outcome \in Outcome
  /\ unanswered \subseteq Buffers
  /\ faults \in 0..MaxFaults

Fresh == [alive |-> TRUE, scroll |-> None, byHand |-> FALSE, mouse |-> "unset",
          status |-> TRUE]
Gone == [Fresh EXCEPT !.alive = FALSE]

Init ==
  /\ pane = [s \in Sessions |-> Fresh]
  /\ buffers = {}
  /\ bound = [p \in Panels |-> None]
  /\ error = [p \in Panels |-> FALSE]
  /\ attached = {}
  /\ call = NoCall
  /\ outcome = [op |-> "none", ok |-> TRUE, hits |-> 0, enter |-> "none",
                lost |-> FALSE]
  /\ unanswered = {}
  /\ faults = 0

-----------------------------------------------------------------------------
(* Commands                                                                *)

Idle == call.op = "none"
At(step) == call.step = step
Target == pane[call.target]
Fault == faults < MaxFaults /\ faults' = faults + 1

(* A pane after copy mode. *)
Out(p) == [p EXCEPT !.scroll = None, !.byHand = FALSE]

Become(p) == [pane EXCEPT ![call.target] = p]
Goto(step) == call' = [call EXCEPT !.step = step]

(* A controller that made the call shows its error, or clears the old one. *)
FinishAs(c, ok) ==
  /\ call' = NoCall
  /\ error' = IF c.panel = None THEN error ELSE [error EXCEPT ![c.panel] = ~ok]
  /\ outcome' = IF c.op \in Pasting
                THEN [op |-> c.op, ok |-> ok, hits |-> c.hits,
                      enter |-> c.enter, lost |-> c.lost]
                ELSE outcome

Finish(ok) == FinishAs(call, ok)

Onward(step) == Goto(step) /\ UNCHANGED <<error, outcome>>

(* runTmuxCommand: the command ran; or tmux refused it; or it failed or    *)
(* ran out of time, with or without its effect.                            *)
Answered(possible) == possible /\ UNCHANGED <<faults, unanswered>>
Refused(possible) == ~possible /\ UNCHANGED <<pane, faults, unanswered>>
Lost(possible, after) == Fault /\ pane' \in {pane} \cup {p \in {after} : possible}

(* A command that only changes the pane.                                   *)
Command(possible, after, onward, failed) ==
  /\ \/ Answered(possible) /\ pane' = after /\ onward
     \/ Refused(possible) /\ failed
     \/ Lost(possible, after) /\ failed /\ UNCHANGED unanswered
  /\ UNCHANGED <<buffers, bound>>

-----------------------------------------------------------------------------
(* TerminalSurfaceController                                               *)

(* bindSession follows the selection of the panel; a session without a     *)
(* tmux session unbinds it.  An equal binding changes nothing.             *)
Bind(p, s) ==
  /\ Idle
  /\ bound[p] # s
  /\ bound' = [bound EXCEPT ![p] = s]
  /\ error' = [error EXCEPT ![p] = FALSE]
  /\ UNCHANGED <<pane, buffers, attached, call, outcome, unanswered, faults>>

Begin(op, step, p, s) ==
  /\ Idle
  /\ call' = [NoCall EXCEPT !.op = op, !.step = step, !.panel = p, !.target = s]
  /\ UNCHANGED <<pane, buffers, bound, error, attached, outcome, unanswered,
                 faults>>

Paste(p) == bound[p] # None /\ Begin("paste", "load", p, bound[p])

(* Of a text of carriage returns nothing is left to paste: no command.     *)
PasteNothing(p) ==
  /\ Idle /\ bound[p] # None
  /\ error' = [error EXCEPT ![p] = FALSE]
  /\ UNCHANGED <<pane, buffers, bound, attached, call, outcome, unanswered,
                 faults>>

Wheel(p, way) ==
  /\ bound[p] \notin OpenCode \cup {None}
  /\ Begin(way, "query", p, bound[p])
KillInputLine(p) == bound[p] # None /\ Begin("kill", "home", p, bound[p])
PasteImage(p) == bound[p] \in Codex /\ Begin("key", "send", p, bound[p])

(* An image cannot be pasted to the other providers.                       *)
PasteImageRefused(p) ==
  /\ Idle /\ bound[p] \notin Codex \cup {None}
  /\ error' = [error EXCEPT ![p] = TRUE]
  /\ UNCHANGED <<pane, buffers, bound, attached, call, outcome, unanswered,
                 faults>>

(* openExternalAttach: a terminal program is found and started, or not.    *)
OpenExternal(p) ==
  /\ Idle /\ bound[p] # None
  /\ \E failed \in BOOLEAN : error' = [error EXCEPT ![p] = failed]
  /\ UNCHANGED <<pane, buffers, bound, attached, call, outcome, unanswered,
                 faults>>

(* The viewport prepares the session it shows before it starts a client    *)
(* for it.  It may show another one than the controller is bound to, or    *)
(* the controller may be bound to none: the name shown and the binding     *)
(* follow the same signal on two paths.                                    *)
PrepareAttach(p, s) ==
  /\ <<p, s>> \notin attached
  /\ Begin("attach", "mouse", p, s)

(* launchSession submits the bootstrap text of a provider that has one,    *)
(* never an empty one.  Today no adapter has any.                          *)
Bootstrap(s) == Begin("submit", "load", None, s)

-----------------------------------------------------------------------------
(* pasteText and pasteTextAndSubmit                                        *)

Unused(b) == b \notin buffers \cup unanswered

Load(b) ==
  /\ At("load") /\ Unused(b)
  /\ \/ /\ call' = [call EXCEPT !.step = "paste", !.buffer = b]
        /\ buffers' = buffers \cup {b}
        /\ UNCHANGED <<error, outcome, unanswered, faults>>
     \/ /\ Fault
        /\ buffers' \in {buffers, buffers \cup {b}}
        /\ unanswered' = unanswered \cup {b}
        /\ Finish(FALSE)
  /\ UNCHANGED <<pane, bound, attached>>

(* A key sent to a pane in copy mode is a command of copy mode, which may  *)
(* end it.                                                                 *)
InCopyMode == Target.scroll # None
AfterKey == {pane, Become(Out(Target))}

(* The text goes to the program of the pane, in copy mode too; -d drops    *)
(* the buffer.  A submit has tmux run send-keys Enter after it, and that   *)
(* key copy mode takes for itself.                                         *)
EnterGoesTo ==
  IF call.op # "submit" THEN "none" ELSE IF InCopyMode THEN "copyMode" ELSE "agent"
AfterEnter == IF call.op = "submit" THEN AfterKey ELSE {pane}

Delivered(enter) == [call EXCEPT !.hits = @ + 1, !.enter = enter]

(* Mutant: what failed is left on the server.                              *)
PasteFailedKept(c) == FinishAs(c, FALSE)

(* Mutant: the failure is not passed on.                                   *)
PasteFailedIgnored(c) == FinishAs(c, TRUE)

PasteFailed(c) == call' = [c EXCEPT !.step = "drop"] /\ UNCHANGED <<error, outcome>>

PasteDone ==
  /\ Target.alive
  /\ buffers' = buffers \ {call.buffer}
  /\ FinishAs(Delivered(EnterGoesTo), TRUE)
  /\ pane' \in AfterEnter
  /\ UNCHANGED faults

PasteRefused ==
  /\ ~Target.alive
  /\ PasteFailed(call)
  /\ UNCHANGED <<pane, buffers, faults>>

(* No answer: nothing was done, only the text pasted, or all of it.        *)
PasteLost ==
  /\ Fault
  /\ \/ /\ PasteFailed([call EXCEPT !.lost = TRUE])
        /\ UNCHANGED <<pane, buffers>>
     \/ /\ Target.alive
        /\ buffers' = buffers \ {call.buffer}
        /\ \/ /\ PasteFailed([Delivered("none") EXCEPT !.lost = TRUE])
              /\ UNCHANGED pane
           \/ /\ PasteFailed([Delivered(EnterGoesTo) EXCEPT !.lost = TRUE])
              /\ pane' \in AfterEnter

PasteBuffer ==
  /\ At("paste")
  /\ PasteDone \/ PasteRefused \/ PasteLost
  /\ UNCHANGED <<bound, attached, unanswered>>

(* delete-buffer; its answer is not looked at.                             *)
DropBuffer ==
  /\ At("drop")
  /\ Finish(FALSE)
  /\ \/ /\ buffers' = buffers \ {call.buffer}
        /\ UNCHANGED <<unanswered, faults>>
     \/ /\ Fault
        /\ buffers' \in {buffers, buffers \ {call.buffer}}
        /\ unanswered' = unanswered \cup {call.buffer}
  /\ UNCHANGED <<pane, bound, attached>>

-----------------------------------------------------------------------------
(* scrollHistory                                                           *)

Query ==
  /\ At("query")
  /\ Command(Target.alive, pane,
             IF call.op = "down" /\ ~InCopyMode THEN Finish(TRUE)
             ELSE Onward(IF InCopyMode THEN "move" ELSE "enter"),
             Finish(FALSE))
  /\ UNCHANGED attached

(* copy-mode -e leaves a pane alone that is in copy mode already.          *)
EnterCopyMode ==
  /\ At("enter")
  /\ Command(Target.alive,
             IF InCopyMode THEN pane
             ELSE Become([Target EXCEPT !.scroll = 0, !.byHand = FALSE]),
             Onward("move"), Finish(FALSE))
  /\ UNCHANGED attached

(* Mutant: scroll-up goes on above the oldest line.                        *)
ScrolledPast ==
  IF call.op = "up"
  THEN [Target EXCEPT !.scroll = @ + 1]
  ELSE [Target EXCEPT !.scroll = IF @ > 1 THEN @ - 1 ELSE None]

(* scroll-up stops at the oldest line; scroll-down at the bottom, where a  *)
(* copy mode begun with -e ends.                                           *)
Scrolled ==
  IF call.op = "up"
  THEN [Target EXCEPT !.scroll = IF @ = Top THEN Top ELSE @ + 1]
  ELSE IF Target.scroll <= 1 /\ ~Target.byHand THEN Out(Target)
  ELSE [Target EXCEPT !.scroll = IF @ > 1 THEN @ - 1 ELSE 0]

Move ==
  /\ At("move")
  /\ Command(Target.alive /\ InCopyMode,
             IF InCopyMode THEN Become(Scrolled) ELSE pane,
             IF call.op = "up" THEN Finish(TRUE) ELSE Onward("queryAgain"),
             Finish(FALSE))
  /\ UNCHANGED attached

(* Mutant: the position has to be below the bottom.                        *)
AtBottomBelow(scroll) == scroll # None /\ scroll < 0

AtBottom(scroll) == scroll # None /\ scroll <= 0

QueryAgain ==
  /\ At("queryAgain")
  /\ Command(Target.alive, pane,
             IF AtBottom(Target.scroll) THEN Onward("cancel") ELSE Finish(TRUE),
             Finish(FALSE))
  /\ UNCHANGED attached

Cancel ==
  /\ At("cancel")
  /\ Command(Target.alive /\ InCopyMode,
             Become(Out(Target)),
             Finish(TRUE), Finish(TRUE))
  /\ UNCHANGED attached

-----------------------------------------------------------------------------
(* Keys                                                                    *)

SendKey(onward, failed) ==
  \E after \in AfterKey :
    Command(Target.alive, after, onward, failed)

(* killInputLine sends C-a, whatever comes of it, then C-k.                *)
Home == At("home") /\ SendKey(Onward("cut"), Onward("cut")) /\ UNCHANGED attached
Cut == At("cut") /\ SendKey(Finish(TRUE), Finish(FALSE)) /\ UNCHANGED attached
Send == At("send") /\ SendKey(Finish(TRUE), Finish(FALSE)) /\ UNCHANGED attached

-----------------------------------------------------------------------------
(* prepareInteractiveAttach                                                *)

MouseOf(s) == IF s \in OpenCode THEN "on" ELSE "off"

(* The provider is that of the controller's binding, if it has one.        *)
MouseWanted == MouseOf(bound[call.panel])

SetMouse ==
  /\ At("mouse")
  /\ Command(Target.alive, Become([Target EXCEPT !.mouse = MouseWanted]),
             Onward("status"), Finish(FALSE))
  /\ UNCHANGED attached

(* Mutant: the client is started whatever became of the options.           *)
ClientsAlways(ok) == attached \cup {<<call.panel, call.target>>}

Clients(ok) == IF ok THEN attached \cup {<<call.panel, call.target>>} ELSE attached

SetStatus ==
  /\ At("status")
  /\ Command(Target.alive, Become([Target EXCEPT !.status = FALSE]),
             call' = NoCall /\ attached' = Clients(TRUE)
                            /\ UNCHANGED <<error, outcome>>,
             Finish(FALSE) /\ attached' = Clients(FALSE))

-----------------------------------------------------------------------------
(* The agents, the users at their terminals, and the end of the app        *)

(* The options of a session end with it; tmux ends with its last session,  *)
(* and the buffers with tmux.                                              *)
AgentEnds(s) ==
  /\ pane[s].alive
  /\ pane' = [pane EXCEPT ![s] = Gone]
  /\ attached' = attached \ (Panels \X {s})
  /\ buffers' = IF \A x \in Sessions \ {s} : ~pane[x].alive THEN {} ELSE buffers
  /\ UNCHANGED <<bound, error, call, outcome, unanswered, faults>>

(* A viewport drops the client of a session it no longer caches, and a     *)
(* user may end one by hand; the options stay.                             *)
Detach(c) ==
  /\ c \in attached
  /\ attached' = attached \ {c}
  /\ UNCHANGED <<pane, buffers, bound, error, call, outcome, unanswered, faults>>

(* In a client of his own, or in the embedded one.                         *)
UserEntersCopyMode(s) ==
  /\ pane[s].alive /\ pane[s].scroll = None
  /\ pane' = [pane EXCEPT ![s].scroll = 0, ![s].byHand = TRUE]
  /\ UNCHANGED <<buffers, bound, error, attached, call, outcome, unanswered,
                 faults>>

UserLeavesCopyMode(s) ==
  /\ pane[s].scroll # None
  /\ pane' = [pane EXCEPT ![s] = Out(@)]
  /\ UNCHANGED <<buffers, bound, error, attached, call, outcome, unanswered,
                 faults>>

Crash ==
  /\ Fault
  /\ call' = NoCall
  /\ bound' = [p \in Panels |-> None]
  /\ error' = [p \in Panels |-> FALSE]
  /\ attached' = {}
  /\ unanswered' = unanswered \cup ({call.buffer} \ {None})
  /\ UNCHANGED <<pane, buffers, outcome>>

CallStep ==
  \/ \E b \in Buffers : Load(b)
  \/ PasteBuffer \/ DropBuffer
  \/ Query \/ EnterCopyMode \/ Move \/ QueryAgain \/ Cancel
  \/ Home \/ Cut \/ Send \/ SetMouse \/ SetStatus

UserCall ==
  \/ \E p \in Panels :
       \/ \E s \in Sessions \cup {None} : Bind(p, s)
       \/ \E s \in Sessions : PrepareAttach(p, s)
       \/ Paste(p) \/ PasteNothing(p) \/ PasteImage(p) \/ PasteImageRefused(p)
       \/ KillInputLine(p) \/ OpenExternal(p)
       \/ Wheel(p, "up") \/ Wheel(p, "down")
  \/ \E s \in Sessions : Bootstrap(s)

Environment ==
  \/ \E s \in Sessions :
       AgentEnds(s) \/ UserEntersCopyMode(s) \/ UserLeavesCopyMode(s)
  \/ \E p \in Panels, s \in Sessions : Detach(<<p, s>>)
  \/ Crash

Next == CallStep \/ UserCall \/ Environment

Spec == Init /\ [][Next]_vars

(* A call runs to its end.                                                 *)
FairSpec == Spec /\ WF_vars(CallStep)

-----------------------------------------------------------------------------
(* Properties                                                              *)

(* Between calls no paste buffer stays on the tmux server, where it would  *)
(* stay for good, but for those of which tmux did not answer.              *)
NoPasteLeft == Idle => buffers \subseteq unanswered

(* A paste that is reported as done reached the agent, exactly once, and   *)
(* so did the Enter of a submit unless the pane was in copy mode, whose    *)
(* keys took it; of one that is reported as failed nothing arrived, unless *)
(* tmux did not answer.                                                    *)
PasteIsTruthful ==
  outcome.op \in Pasting =>
    /\ outcome.ok => outcome.hits = 1 /\ (outcome.enter # "none" <=> outcome.op = "submit")
    /\ ~outcome.ok /\ ~outcome.lost => outcome.hits = 0 /\ outcome.enter = "none"

(* An embedded client starts only in a session made ready for it just      *)
(* before: without a status line, and with the mouse that the provider     *)
(* needs which the panel's controller is bound to - the session's own, if  *)
(* the controller was bound before the client was asked for.               *)
ReadyFor(c) ==
  pane[c[2]].alive /\ ~pane[c[2]].status /\ pane[c[2]].mouse = MouseOf(bound[c[1]])

ClientsStartReady == [][\A c \in attached' \ attached : ReadyFor(c)']_vars

(* README.md:112: OpenCode alone has tmux mouse in its embedded client.    *)
(* Not so when a client is asked for before the controller is bound.       *)
OpenCodeKeepsItsMouse ==
  [][\A c \in attached' \ attached : pane'[c[2]].mouse = MouseOf(c[2])]_vars

(* Whoever keeps turning the wheel down gets back to the agent, also from  *)
(* a copy mode that was not entered by Hydra, unless it is entered again.  *)
Away(s) ==
  \/ pane[s].scroll = None /\ pane'[s].scroll # None
  \/ \E p \in Panels : Wheel(p, "up") /\ bound[p] = s

WheelReturns ==
  \A s \in Sessions :
    (/\ []<><<\E p \in Panels : bound[p] = s /\ Wheel(p, "down")>>_vars
     /\ <>[][~Away(s)]_vars) => <>[](pane[s].scroll = None)

=============================================================================
