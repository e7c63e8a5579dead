----------------------------- MODULE TerminalProofs -----------------------------
(***************************************************************************)
(* Proofs about Terminal: its types, and its three safety properties.      *)
(*                                                                         *)
(* The properties of a paste follow from what is known of the call at each *)
(* of its steps: until the text may have been pasted, it has reached       *)
(* nobody, and from the load to the removal the buffer of the call is the  *)
(* only one that may be on the server unaccounted for.  That of an attach  *)
(* follows from the option set at its first step, which is the one the     *)
(* controller's binding asks for: nobody resets it and the binding stays   *)
(* until the call is over.                                                 *)
(***************************************************************************)
EXTENDS Terminal, TLAPS

-----------------------------------------------------------------------------
(* The inductive invariant                                                 *)

(* What a call has done so far.  *)
CallSoFar ==
  /\ call.step # "drop" => call.hits = 0 /\ call.enter = "none" /\ ~call.lost
  /\ call.hits \in 0..1
  /\ ~call.lost => call.hits = 0 /\ call.enter = "none"

(* The buffers on the server are those of the call and the unanswered.     *)
Held == IF call.step \in {"paste", "drop"} THEN {call.buffer} ELSE {}
BuffersHeld == buffers \subseteq unanswered \cup Held

(* The first option of an attach is set when the second is to be, unless   *)
(* the session is gone.                                                    *)
HalfPrepared ==
  /\ call.op = "attach" => call.panel \in Panels
  /\ call.step = "status" /\ Target.alive => Target.mouse = MouseWanted

PanesOK ==
  /\ pane \in [Sessions -> Pane]
  /\ \A s \in Sessions : ~pane[s].alive => pane[s].scroll = None

CallOK ==
  /\ call \in Call /\ call.step \in StepsOf(call.op)
  /\ call.op # "none" => call.target # None
  /\ call.step \in {"paste", "drop"} => call.buffer # None

RestOK ==
  /\ buffers \subseteq Buffers
  /\ bound \in [Panels -> Sessions \cup {None}]
  /\ error \in [Panels -> BOOLEAN]
  /\ attached \subseteq Panels \X Sessions
  /\ outcome \in Outcome
  /\ unanswered \subseteq Buffers
  /\ faults \in 0..MaxFaults

IInv ==
  /\ PanesOK /\ CallOK /\ RestOK
  /\ CallSoFar /\ BuffersHeld /\ HalfPrepared
  /\ PasteIsTruthful

LEMMA TypeParts == TypeOK <=> PanesOK /\ CallOK /\ RestOK
BY DEF TypeOK, PanesOK, CallOK, RestOK

AllSteps ==
  {"idle", "load", "paste", "drop", "query", "enter", "move", "queryAgain",
   "cancel", "home", "cut", "send", "mouse", "status"}

(* The steps of the calls, one by one. *)
LEMMA StepsKnown ==
  UNION { StepsOf(op) : op \in Operations } = AllSteps
<1>1. \A op \in Operations : StepsOf(op) \subseteq AllSteps
  BY DEF StepsOf, Operations, Pasting, Wheeling, AllSteps
<1>2. \A x \in AllSteps : \E op \in Operations : x \in StepsOf(op)
  <2>1. /\ "idle" \in StepsOf("none")
        /\ {"load", "paste", "drop"} = StepsOf("paste")
        /\ {"query", "enter", "move", "queryAgain", "cancel"} = StepsOf("up")
        /\ {"home", "cut"} = StepsOf("kill")
        /\ {"send"} = StepsOf("key")
        /\ {"mouse", "status"} = StepsOf("attach")
    BY DEF StepsOf, Pasting, Wheeling
  <2>2. {"none", "paste", "up", "kill", "key", "attach"} \subseteq Operations
    BY DEF Operations, Pasting, Wheeling
  <2>3. QED
    BY <2>1, <2>2, Zenon DEF AllSteps
<1>3. QED
  BY <1>1, <1>2

(* The operation of a step. *)
LEMMA OpOfStep ==
  ASSUME CallOK
  PROVE  /\ call.step \in AllSteps
         /\ call.op = "none" <=> call.step = "idle"
         /\ call.op \in Pasting <=> call.step \in {"load", "paste", "drop"}
         /\ call.op = "attach" <=> call.step \in {"mouse", "status"}
BY StepsKnown DEF CallOK, Call, StepsOf, Operations, Pasting, Wheeling, AllSteps

LEMMA InitInv == Init => IInv
<1> SUFFICES ASSUME Init PROVE IInv
  OBVIOUS
<1> USE TerminalAssumption DEF Init
<1>1. PanesOK
  BY DEF PanesOK, Pane, Fresh
<1>2. CallOK
  BY StepsKnown DEF CallOK, Call, NoCall, Enters, StepsOf, Operations, Pasting, Wheeling, AllSteps
<1>3. RestOK
  BY DEF RestOK, Outcome, Operations, Pasting, Enters
<1>4. CallSoFar /\ BuffersHeld /\ HalfPrepared
  BY DEF CallSoFar, BuffersHeld, HalfPrepared, NoCall
<1>5. PasteIsTruthful
  BY DEF PasteIsTruthful, Pasting
<1>6. QED
  BY <1>1, <1>2, <1>3, <1>4, <1>5 DEF IInv

-----------------------------------------------------------------------------
(* What the steps of a call have in common                                 *)

(* What is said of the call and of what it shows.                          *)
CallPart ==
  /\ CallOK /\ CallSoFar /\ PasteIsTruthful
  /\ error \in [Panels -> BOOLEAN] /\ outcome \in Outcome

LEMMA CallTyped ==
  ASSUME CallOK
  PROVE  /\ call.op \in Operations /\ call.panel \in Panels \cup {None}
         /\ call.target \in Sessions \cup {None}
         /\ call.op # "none" => call.target \in Sessions
         /\ call.buffer \in Buffers \cup {None}
         /\ call.step \in {"paste", "drop"} => call.buffer \in Buffers
BY DEF CallOK, Call

LEMMA NoCallOK == NoCall \in Call /\ NoCall.op = "none" /\ NoCall.step = "idle"
BY StepsKnown DEF Call, Enters, NoCall, StepsOf, Operations, AllSteps, Pasting, Wheeling

LEMMA PaneTyped ==
  ASSUME PanesOK, NEW s \in Sessions
  PROVE  /\ pane[s] \in Pane
         /\ pane[s].alive \in BOOLEAN /\ pane[s].byHand \in BOOLEAN
         /\ pane[s].status \in BOOLEAN
         /\ pane[s].mouse \in {"unset", "on", "off"}
         /\ pane[s].scroll \in {None} \cup 0..Top
         /\ ~pane[s].alive => pane[s].scroll = None
BY DEF PanesOK, Pane

LEMMA PanesSame == ASSUME PanesOK, UNCHANGED pane PROVE PanesOK'
BY DEF PanesOK

(* A step that changes one pane. *)
LEMMA OnePane ==
  ASSUME PanesOK, NEW t \in Sessions, NEW p \in Pane,
         ~p.alive => p.scroll = None,
         pane' = [pane EXCEPT ![t] = p]
  PROVE  PanesOK'
BY DEF PanesOK

LEMMA OutOfMode ==
  ASSUME NEW p \in Pane
  PROVE  /\ Out(p) \in Pane /\ Out(p).scroll = None
         /\ Out(p).alive = p.alive /\ Out(p).mouse = p.mouse
         /\ Out(p).status = p.status
BY DEF Out, Pane

(* A key may end copy mode, and changes nothing else.  *)
LEMMA KeyKeeps ==
  ASSUME PanesOK, call.target \in Sessions, pane' \in AfterKey
  PROVE  PanesOK'
<1>1. Target \in Pane
  BY PaneTyped DEF Target
<1>2. Out(Target) \in Pane /\ Out(Target).scroll = None
  BY <1>1, OutOfMode
<1>3. pane' = pane \/ pane' = [pane EXCEPT ![call.target] = Out(Target)]
  BY DEF AfterKey, Become
<1>4. QED
  BY <1>2, <1>3, PanesSame, OnePane

(* The end of a call that is not a paste. *)
LEMMA FinishPart ==
  ASSUME CallPart, call.op \notin Pasting, NEW ok \in BOOLEAN, Finish(ok)
  PROVE  CallPart' /\ call'.step = "idle"
<1>1. call' = NoCall
  BY DEF Finish, FinishAs
<1>2. outcome' = outcome
  BY DEF Finish, FinishAs
<1>3. error' \in [Panels -> BOOLEAN]
  BY DEF Finish, FinishAs, CallPart
<1>4. CallOK' /\ CallSoFar' /\ call'.step = "idle"
  BY <1>1, NoCallOK DEF CallOK, CallSoFar, NoCall, StepsOf, Pasting, Wheeling
<1>5. QED
  BY <1>2, <1>3, <1>4 DEF CallPart, PasteIsTruthful

(* A call that is not a paste goes on. *)
LEMMA OnwardPart ==
  ASSUME CallPart, call.op \notin Pasting, NEW step \in StepsOf(call.op),
         call.op # "none", Onward(step)
  PROVE  CallPart' /\ call'.step = step
<1>1. call.op \in Operations /\ step \in AllSteps /\ step \notin {"drop", "paste"}
  BY StepsKnown DEF CallPart, CallOK, Call, StepsOf, AllSteps, Pasting, Wheeling,
                    Operations
<1>2. call' = [call EXCEPT !.step = step]
  BY DEF Onward, Goto
<1>3. CallOK' /\ call'.step = step
  BY <1>1, <1>2, StepsKnown DEF CallPart, CallOK, Call
<1>4. CallSoFar'
  BY <1>1, <1>2, <1>3, OpOfStep DEF CallPart, CallSoFar, CallOK, Call
<1>5. QED
  BY <1>3, <1>4 DEF CallPart, PasteIsTruthful, Onward

(* The parts of IInv make it up again after a step that pastes nothing.    *)
LEMMA Together ==
  ASSUME IInv, PanesOK', CallPart', call.step \notin {"paste", "drop"},
         call'.step \notin {"paste", "drop"},
         UNCHANGED <<buffers, bound, unanswered>>, faults' \in 0..MaxFaults,
         HalfPrepared', attached' \subseteq Panels \X Sessions
  PROVE  IInv'
<1>2. BuffersHeld'
  BY DEF IInv, BuffersHeld, Held
<1>3. RestOK'
  BY DEF IInv, RestOK, CallPart
<1>4. QED
  BY <1>2, <1>3 DEF IInv, CallPart

LEMMA Faults == ASSUME RestOK, Fault PROVE faults' \in 0..MaxFaults
BY TerminalAssumption DEF RestOK, Fault

LEMMA PartOfInv == ASSUME IInv PROVE CallPart
BY DEF IInv, CallPart, RestOK

-----------------------------------------------------------------------------
(* The actions                                                             *)

(* A step of a call that is neither a paste nor the first of an attach.    *)
LEMMA PlainStep ==
  ASSUME IInv, PanesOK', call.op \notin Pasting, call.op # "none",
         \/ \E ok \in BOOLEAN : Finish(ok)
         \/ \E step \in StepsOf(call.op) \ {"status"} : Onward(step),
         UNCHANGED <<buffers, bound, unanswered>>, attached' = attached,
         faults' \in 0..MaxFaults
  PROVE  IInv'
<1>1. call.step \notin {"paste", "drop"}
  BY OpOfStep DEF IInv
<1>2. /\ CallPart' /\ call'.step \notin {"paste", "drop", "status"}
      /\ call'.op = "attach" => call.op = "attach" /\ call'.panel = call.panel
  <2>1. CASE \E ok \in BOOLEAN : Finish(ok)
    BY <2>1, FinishPart, PartOfInv, NoCallOK DEF Finish, FinishAs
  <2>2. ASSUME NEW step \in StepsOf(call.op) \ {"status"}, Onward(step)
        PROVE  /\ CallPart' /\ call'.step \notin {"paste", "drop", "status"}
               /\ call'.op = "attach" => call.op = "attach" /\ call'.panel = call.panel
    <3>1. step \notin {"paste", "drop"}
      BY DEF StepsOf, Wheeling
    <3>2. call'.op = call.op /\ call'.panel = call.panel
      BY <2>2 DEF Onward, Goto, IInv, CallOK, Call
    <3>3. QED
      BY <2>2, <3>1, <3>2, OnwardPart, PartOfInv
  <2>3. QED
    BY <2>1, <2>2
<1>3. HalfPrepared'
  BY <1>2 DEF HalfPrepared, IInv
<1>4. attached' \subseteq Panels \X Sessions
  BY DEF IInv, RestOK
<1>5. QED
  BY <1>1, <1>2, <1>3, <1>4, Together

LEMMA StepQuery == ASSUME IInv, Query PROVE IInv'
<1>1. call.op \in Wheeling /\ call.op \notin Pasting /\ call.op # "none"
  BY OpOfStep DEF IInv, Query, At, CallOK, Call, StepsOf, Operations, Pasting, Wheeling
<1>2. UNCHANGED <<pane, buffers, bound, unanswered, attached>>
  BY DEF Query, Command, Answered, Refused, Lost
<1>3. faults' \in 0..MaxFaults
  BY Faults DEF Query, Command, Answered, Refused, Lost, IInv, RestOK
<1>4. \/ \E ok \in BOOLEAN : Finish(ok)
      \/ \E step \in StepsOf(call.op) \ {"status"} : Onward(step)
  <2>1. \/ \E ok \in BOOLEAN : Finish(ok)
        \/ Onward("move") \/ Onward("enter")
    BY DEF Query, Command
  <2>2. {"move", "enter"} \subseteq StepsOf(call.op) \ {"status"}
    BY <1>1 DEF StepsOf, Wheeling, Pasting
  <2>3. QED
    BY <2>1, <2>2
<1>5. PanesOK'
  BY <1>2, PanesSame DEF IInv
<1>6. QED
  BY <1>1, <1>2, <1>3, <1>4, <1>5, PlainStep

LEMMA StepQueryAgain == ASSUME IInv, QueryAgain PROVE IInv'
<1>1. call.op \in Wheeling /\ call.op \notin Pasting /\ call.op # "none"
  BY OpOfStep DEF IInv, QueryAgain, At, CallOK, Call, StepsOf, Operations, Pasting, Wheeling
<1>2. UNCHANGED <<pane, buffers, bound, unanswered, attached>>
  BY DEF QueryAgain, Command, Answered, Refused, Lost
<1>3. faults' \in 0..MaxFaults
  BY Faults DEF QueryAgain, Command, Answered, Refused, Lost, IInv, RestOK
<1>4. \/ \E ok \in BOOLEAN : Finish(ok)
      \/ \E step \in StepsOf(call.op) \ {"status"} : Onward(step)
  <2>1. (\E ok \in BOOLEAN : Finish(ok)) \/ Onward("cancel")
    BY DEF QueryAgain, Command
  <2>2. "cancel" \in StepsOf(call.op) \ {"status"}
    BY <1>1 DEF StepsOf, Wheeling, Pasting
  <2>3. QED
    BY <2>1, <2>2
<1>5. PanesOK'
  BY <1>2, PanesSame DEF IInv
<1>6. QED
  BY <1>1, <1>2, <1>3, <1>4, <1>5, PlainStep

LEMMA StepEnter == ASSUME IInv, EnterCopyMode PROVE IInv'
<1> DEFINE p == [Target EXCEPT !.scroll = 0, !.byHand = FALSE]
<1>1. /\ call.op \in Wheeling /\ call.op \notin Pasting /\ call.op # "none"
      /\ call.target \in Sessions
  BY OpOfStep, CallTyped DEF IInv, EnterCopyMode, At, CallOK, Call, StepsOf,
                             Operations, Pasting, Wheeling
<1>2. UNCHANGED <<buffers, bound, unanswered, attached>>
  BY DEF EnterCopyMode, Command, Answered, Refused, Lost
<1>3. faults' \in 0..MaxFaults
  BY Faults DEF EnterCopyMode, Command, Answered, Refused, Lost, IInv, RestOK
<1>4. \/ \E ok \in BOOLEAN : Finish(ok)
      \/ \E step \in StepsOf(call.op) \ {"status"} : Onward(step)
  <2>1. (\E ok \in BOOLEAN : Finish(ok)) \/ Onward("move")
    BY DEF EnterCopyMode, Command
  <2>2. "move" \in StepsOf(call.op) \ {"status"}
    BY <1>1 DEF StepsOf, Wheeling, Pasting
  <2>3. QED
    BY <2>1, <2>2
<1>5. \/ pane' = pane
      \/ Target.alive /\ pane' = [pane EXCEPT ![call.target] = p]
  BY DEF EnterCopyMode, Command, Answered, Refused, Lost, Become
<1>6. p \in Pane /\ (Target.alive => p.alive)
  <2>1. Target \in Pane
    BY <1>1, PaneTyped DEF IInv, Target
  <2>2. 0 \in {None} \cup 0..Top
    BY TerminalAssumption
  <2>3. QED
    BY <2>1, <2>2 DEF Pane
<1>7. PanesOK'
  BY <1>1, <1>5, <1>6, PanesSame, OnePane DEF IInv, Target
<1>8. QED
  BY <1>1, <1>2, <1>3, <1>4, <1>7, PlainStep

LEMMA StepMove == ASSUME IInv, Move PROVE IInv'
<1>1. /\ call.op \in Wheeling /\ call.op \notin Pasting /\ call.op # "none"
      /\ call.target \in Sessions
  BY OpOfStep, CallTyped DEF IInv, Move, At, CallOK, Call, StepsOf,
                             Operations, Pasting, Wheeling
<1>2. UNCHANGED <<buffers, bound, unanswered, attached>>
  BY DEF Move, Command, Answered, Refused, Lost
<1>3. faults' \in 0..MaxFaults
  BY Faults DEF Move, Command, Answered, Refused, Lost, IInv, RestOK
<1>4. \/ \E ok \in BOOLEAN : Finish(ok)
      \/ \E step \in StepsOf(call.op) \ {"status"} : Onward(step)
  <2>1. (\E ok \in BOOLEAN : Finish(ok)) \/ Onward("queryAgain")
    BY DEF Move, Command
  <2>2. "queryAgain" \in StepsOf(call.op) \ {"status"}
    BY <1>1 DEF StepsOf, Wheeling, Pasting
  <2>3. QED
    BY <2>1, <2>2
<1>5. \/ pane' = pane
      \/ /\ Target.alive /\ InCopyMode
         /\ pane' = [pane EXCEPT ![call.target] = Scrolled]
  BY DEF Move, Command, Answered, Refused, Lost, Become
<1>6. ASSUME Target.alive, InCopyMode
      PROVE  Scrolled \in Pane /\ Scrolled.alive
  <2>1. Target \in Pane /\ Target.scroll \in 0..Top
    BY <1>1, <1>6, PaneTyped DEF IInv, Target, InCopyMode
  <2>2. \/ Scrolled = Out(Target)
        \/ \E x \in 0..Top : Scrolled = [Target EXCEPT !.scroll = x]
    <3>1. CASE call.op = "up"
      <4>1. (IF Target.scroll = Top THEN Top ELSE Target.scroll + 1) \in 0..Top
        BY <2>1, TerminalAssumption
      <4>2. QED
        BY <3>1, <4>1 DEF Scrolled
    <3>2. CASE call.op # "up"
      <4>1. (IF Target.scroll > 1 THEN Target.scroll - 1 ELSE 0) \in 0..Top
        BY <2>1, TerminalAssumption
      <4>2. QED
        BY <3>2, <4>1 DEF Scrolled
    <3>3. QED
      BY <3>1, <3>2
  <2>3. QED
    BY <1>6, <2>1, <2>2, OutOfMode DEF Pane
<1>7. PanesOK'
  BY <1>1, <1>5, <1>6, PanesSame, OnePane DEF IInv, Target
<1>8. QED
  BY <1>1, <1>2, <1>3, <1>4, <1>7, PlainStep

LEMMA StepCancel == ASSUME IInv, Cancel PROVE IInv'
<1>1. /\ call.op \notin Pasting /\ call.op # "none" /\ call.target \in Sessions
  BY OpOfStep, CallTyped DEF IInv, Cancel, At
<1>2. UNCHANGED <<buffers, bound, unanswered, attached>>
  BY DEF Cancel, Command, Answered, Refused, Lost
<1>3. faults' \in 0..MaxFaults
  BY Faults DEF Cancel, Command, Answered, Refused, Lost, IInv, RestOK
<1>4. \E ok \in BOOLEAN : Finish(ok)
  BY DEF Cancel, Command
<1>5. pane' \in AfterKey
  BY DEF Cancel, Command, Answered, Refused, Lost, AfterKey
<1>7. PanesOK'
  BY <1>1, <1>5, KeyKeeps DEF IInv
<1>8. QED
  BY <1>1, <1>2, <1>3, <1>4, <1>7, PlainStep

LEMMA StepHome == ASSUME IInv, Home PROVE IInv'
<1>1. /\ call.op = "kill" /\ call.op \notin Pasting /\ call.target \in Sessions
  BY OpOfStep, CallTyped DEF IInv, Home, At, CallOK, Call, StepsOf, Operations,
                             Pasting, Wheeling
<1>2. UNCHANGED <<buffers, bound, unanswered, attached>>
  BY DEF Home, SendKey, Command, Answered, Refused, Lost
<1>3. faults' \in 0..MaxFaults
  BY Faults DEF Home, SendKey, Command, Answered, Refused, Lost, IInv, RestOK
<1>4. Onward("cut") /\ "cut" \in StepsOf(call.op) \ {"status"}
  BY <1>1 DEF Home, SendKey, Command, StepsOf, Pasting, Wheeling
<1>5. pane' \in AfterKey
  BY DEF Home, SendKey, Command, Answered, Refused, Lost, AfterKey
<1>6. PanesOK'
  BY <1>1, <1>5, KeyKeeps DEF IInv
<1>7. QED
  BY <1>1, <1>2, <1>3, <1>4, <1>6, PlainStep

LEMMA StepCutOrSend == ASSUME IInv, Cut \/ Send PROVE IInv'
<1>1. /\ call.op \notin Pasting /\ call.op # "none" /\ call.target \in Sessions
  BY OpOfStep, CallTyped DEF IInv, Cut, Send, At
<1>2. UNCHANGED <<buffers, bound, unanswered, attached>>
  BY DEF Cut, Send, SendKey, Command, Answered, Refused, Lost
<1>3. faults' \in 0..MaxFaults
  BY Faults DEF Cut, Send, SendKey, Command, Answered, Refused, Lost, IInv, RestOK
<1>4. \E ok \in BOOLEAN : Finish(ok)
  BY DEF Cut, Send, SendKey, Command
<1>5. pane' \in AfterKey
  BY DEF Cut, Send, SendKey, Command, Answered, Refused, Lost, AfterKey
<1>6. PanesOK'
  BY <1>1, <1>5, KeyKeeps DEF IInv
<1>7. QED
  BY <1>1, <1>2, <1>3, <1>4, <1>6, PlainStep

LEMMA MouseTyped == ASSUME NEW s PROVE MouseOf(s) \in {"unset", "on", "off"}
BY DEF MouseOf

LEMMA StepSetMouse == ASSUME IInv, SetMouse PROVE IInv'
<1> DEFINE p == [Target EXCEPT !.mouse = MouseWanted]
<1>1. /\ call.op = "attach" /\ call.op \notin Pasting /\ call.target \in Sessions
      /\ call.step = "mouse" /\ call.panel \in Panels
  BY OpOfStep, CallTyped DEF IInv, SetMouse, At, Pasting, HalfPrepared
<1>2. UNCHANGED <<buffers, bound, unanswered, attached>>
  BY DEF SetMouse, Command, Answered, Refused, Lost
<1>3. faults' \in 0..MaxFaults
  BY Faults DEF SetMouse, Command, Answered, Refused, Lost, IInv, RestOK
<1>4. \/ pane' = pane
      \/ Target.alive /\ pane' = [pane EXCEPT ![call.target] = p]
  BY DEF SetMouse, Command, Answered, Refused, Lost, Become
<1>5. p \in Pane /\ p.alive = Target.alive /\ p.mouse = MouseWanted
  BY <1>1, PaneTyped, MouseTyped DEF IInv, Target, Pane, MouseWanted
<1>6. PanesOK'
  <2>1. CASE pane' = pane
    BY <2>1, PanesSame DEF IInv
  <2>2. CASE Target.alive /\ pane' = [pane EXCEPT ![call.target] = p]
    BY <1>1, <1>5, <2>2, OnePane DEF IInv
  <2>3. QED
    BY <1>4, <2>1, <2>2
<1>7. CASE Finish(FALSE)
  BY <1>1, <1>2, <1>3, <1>6, <1>7, PlainStep
<1>8. CASE Onward("status") /\ pane' = [pane EXCEPT ![call.target] = p]
  <2>1. "status" \in StepsOf(call.op)
    BY <1>1 DEF StepsOf, Pasting, Wheeling
  <2>2. CallPart' /\ call'.step = "status"
    BY <1>1, <1>8, <2>1, OnwardPart, PartOfInv
  <2>3. call'.target = call.target /\ call'.panel = call.panel
    BY <1>8 DEF Onward, Goto, IInv, CallOK, Call
  <2>4. pane'[call'.target] = p
    BY <1>1, <1>8, <2>3 DEF IInv, PanesOK
  <2>5. HalfPrepared'
    BY <1>1, <1>2, <1>5, <2>3, <2>4 DEF HalfPrepared, Target, MouseWanted, MouseOf
  <2>6. attached' \subseteq Panels \X Sessions
    BY <1>2 DEF IInv, RestOK
  <2>7. QED
    BY <1>1, <1>2, <1>3, <1>6, <2>2, <2>5, <2>6, Together
<1>9. QED
  BY <1>7, <1>8 DEF SetMouse, Command, Answered, Become

(* The client starts with both options set. *)
LEMMA StepSetStatus ==
  ASSUME IInv, SetStatus
  PROVE  IInv' /\ \A c \in attached' \ attached : ReadyFor(c)'
<1> DEFINE p == [Target EXCEPT !.status = FALSE]
<1>1. /\ call.op = "attach" /\ call.op \notin Pasting /\ call.target \in Sessions
      /\ call.step = "status" /\ call.panel \in Panels
  BY OpOfStep, CallTyped DEF IInv, SetStatus, At, Pasting, HalfPrepared
<1>2. UNCHANGED <<buffers, bound, unanswered>>
  BY DEF SetStatus, Command, Answered, Refused, Lost
<1>3. faults' \in 0..MaxFaults
  BY Faults DEF SetStatus, Command, Answered, Refused, Lost, IInv, RestOK
<1>4. \/ pane' = pane
      \/ Target.alive /\ pane' = [pane EXCEPT ![call.target] = p]
  BY DEF SetStatus, Command, Answered, Refused, Lost, Become
<1>5. /\ p \in Pane /\ p.alive = Target.alive
      /\ p.mouse = Target.mouse /\ p.status = FALSE
  BY <1>1, PaneTyped DEF IInv, Target, Pane
<1>6. PanesOK'
  <2>1. CASE pane' = pane
    BY <2>1, PanesSame DEF IInv
  <2>2. CASE Target.alive /\ pane' = [pane EXCEPT ![call.target] = p]
    BY <1>1, <1>5, <2>2, OnePane DEF IInv
  <2>3. QED
    BY <1>4, <2>1, <2>2
<1>7. CASE Finish(FALSE) /\ attached' = Clients(FALSE)
  BY <1>1, <1>2, <1>3, <1>6, <1>7, PlainStep DEF Clients
<1>8. CASE /\ Target.alive /\ pane' = [pane EXCEPT ![call.target] = p]
           /\ call' = NoCall /\ attached' = Clients(TRUE)
           /\ UNCHANGED <<error, outcome>>
  <2>1. CallPart' /\ call'.step = "idle" /\ call'.op = "none"
    BY <1>8, NoCallOK, PartOfInv
       DEF CallPart, CallOK, CallSoFar, NoCall, StepsOf, Pasting, Wheeling,
           PasteIsTruthful
  <2>2. HalfPrepared'
    BY <2>1 DEF HalfPrepared
  <2>3. attached' \subseteq Panels \X Sessions
    BY <1>1, <1>8 DEF Clients, IInv, RestOK
  <2>4. ASSUME NEW c \in attached' \ attached
        PROVE  ReadyFor(c)'
    <3>1. c[1] = call.panel /\ c[2] = call.target
      BY <1>8 DEF Clients
    <3>2. pane'[c[2]] = p
      BY <1>1, <1>8, <3>1 DEF IInv, PanesOK
    <3>3. p.mouse = MouseOf(bound'[c[1]])
      BY <1>1, <1>2, <1>5, <1>8, <3>1 DEF IInv, HalfPrepared, MouseWanted
    <3>4. QED
      BY <1>5, <1>8, <3>2, <3>3 DEF ReadyFor, MouseOf
  <2>5. IInv'
    BY <1>1, <1>2, <1>3, <1>6, <2>1, <2>2, <2>3, Together
  <2>6. QED
    BY <2>4, <2>5
<1>9. QED
  BY <1>7, <1>8 DEF SetStatus, Command, Answered, Become

-----------------------------------------------------------------------------
(* A paste                                                                 *)

(* The end of a paste: what is reported of it is what came of it.          *)
LEMMA PasteEnds ==
  ASSUME CallPart, NEW c \in Call, c.op \in Pasting, NEW ok \in BOOLEAN,
         ok => c.hits = 1 /\ (c.enter # "none" <=> c.op = "submit"),
         ~ok /\ ~c.lost => c.hits = 0 /\ c.enter = "none",
         FinishAs(c, ok)
  PROVE  CallPart' /\ call'.step = "idle"
<1>1. call' = NoCall
  BY DEF FinishAs
<1>2. outcome' = [op |-> c.op, ok |-> ok, hits |-> c.hits,
                  enter |-> c.enter, lost |-> c.lost]
  BY DEF FinishAs
<1>3. outcome' \in Outcome /\ PasteIsTruthful'
  BY <1>2 DEF Outcome, Call, PasteIsTruthful
<1>4. error' \in [Panels -> BOOLEAN]
  BY DEF FinishAs, CallPart
<1>5. CallOK' /\ CallSoFar' /\ call'.step = "idle"
  BY <1>1, NoCallOK DEF CallOK, CallSoFar, NoCall, StepsOf, Pasting, Wheeling
<1>6. QED
  BY <1>3, <1>4, <1>5 DEF CallPart

(* A step of a paste leaves the clients alone. *)
LEMMA PasteStep ==
  ASSUME IInv, CallPart', PanesOK', call'.step # "status",
         call'.op = "attach" => call'.panel \in Panels,
         UNCHANGED <<bound, attached>>,
         buffers' \subseteq Buffers, unanswered' \subseteq Buffers,
         faults' \in 0..MaxFaults, BuffersHeld'
  PROVE  IInv'
<1>1. HalfPrepared'
  BY DEF HalfPrepared
<1>2. RestOK'
  BY DEF IInv, RestOK, CallPart
<1>3. QED
  BY <1>1, <1>2 DEF IInv, CallPart

(* The operation of a call at one of these steps is no attach. *)
LEMMA NoAttach ==
  ASSUME CallOK, call.step \in {"idle", "drop", "paste", "load"}
  PROVE  call.op # "attach"
BY OpOfStep

LEMMA NoAttachNext ==
  ASSUME CallOK', call'.step \in {"idle", "drop", "paste"}
  PROVE  call'.op # "attach"
BY DEF CallOK, StepsOf, Pasting, Wheeling

LEMMA StepLoad == ASSUME IInv, NEW b \in Buffers, Load(b) PROVE IInv'
<1>1. call.op \in Pasting /\ call.step = "load" /\ CallPart /\ call \in Call
  BY OpOfStep, PartOfInv DEF IInv, Load, At, CallOK
<1>2. UNCHANGED <<pane, bound, attached>> /\ PanesOK'
  BY PanesSame DEF Load, IInv
<1>3. CASE /\ call' = [call EXCEPT !.step = "paste", !.buffer = b]
           /\ buffers' = buffers \cup {b}
           /\ UNCHANGED <<error, outcome, unanswered, faults>>
  <2>1. call' \in Call
    BY <1>1, <1>3, StepsKnown DEF Call, AllSteps
  <2>2. /\ call'.step = "paste" /\ call'.buffer = b /\ call'.op = call.op
        /\ call'.target = call.target /\ call'.hits = call.hits
        /\ call'.enter = call.enter /\ call'.lost = call.lost
    BY <1>1, <1>3 DEF Call
  <2>3. CallOK'
    BY <1>1, <2>1, <2>2, TerminalAssumption DEF CallPart, CallOK, StepsOf
  <2>4. CallPart'
    BY <1>1, <1>3, <2>2, <2>3 DEF CallPart, CallSoFar, PasteIsTruthful
  <2>5. BuffersHeld'
    BY <1>1, <1>3, <2>2 DEF IInv, BuffersHeld, Held
  <2>6. buffers' \subseteq Buffers /\ unanswered' \subseteq Buffers
        /\ faults' \in 0..MaxFaults
    BY <1>3 DEF IInv, RestOK
  <2>7. QED
    BY <1>2, <2>2, <2>3, <2>4, <2>5, <2>6, PasteStep, NoAttachNext
<1>4. CASE /\ Fault
           /\ buffers' \in {buffers, buffers \cup {b}}
           /\ unanswered' = unanswered \cup {b}
           /\ Finish(FALSE)
  <2>1. CallPart' /\ call'.step = "idle"
    BY <1>1, <1>4, PasteEnds DEF Finish, CallPart, CallSoFar
  <2>2. BuffersHeld'
    BY <1>1, <1>4, <2>1 DEF IInv, BuffersHeld, Held
  <2>3. buffers' \subseteq Buffers /\ unanswered' \subseteq Buffers
    BY <1>4 DEF IInv, RestOK
  <2>4. faults' \in 0..MaxFaults
    BY <1>4, Faults DEF IInv
  <2>5. QED
    BY <1>2, <2>1, <2>2, <2>3, <2>4, PasteStep, NoAttachNext DEF CallPart
<1>5. QED
  BY <1>3, <1>4 DEF Load

(* What failed goes on to the removal of its buffer.  *)
LEMMA PasteFails ==
  ASSUME CallPart, NEW c \in Call, c.op = call.op, call.op \in Pasting,
         c.target = call.target, c.buffer = call.buffer, call.step = "paste",
         c.hits \in 0..1, ~c.lost => c.hits = 0 /\ c.enter = "none", PasteFailed(c)
  PROVE  CallPart' /\ call'.step = "drop" /\ call'.buffer = call.buffer
<1>1. call' = [c EXCEPT !.step = "drop"] /\ UNCHANGED <<error, outcome>>
  BY DEF PasteFailed
<1>2. call' \in Call
  BY <1>1, StepsKnown DEF Call, AllSteps
<1>3. /\ call'.step = "drop" /\ call'.buffer = call.buffer
      /\ call'.op = call.op /\ call'.target = call.target
      /\ call'.hits = c.hits /\ call'.enter = c.enter /\ call'.lost = c.lost
  BY <1>1 DEF Call
<1>4. CallOK'
  BY <1>2, <1>3 DEF CallPart, CallOK, StepsOf
<1>5. QED
  BY <1>1, <1>3, <1>4 DEF CallPart, CallSoFar, PasteIsTruthful

(* What Delivered and a lost answer change of a call, and what they keep.  *)
LEMMA LostFields ==
  ASSUME NEW c \in Call
  PROVE  LET d == [c EXCEPT !.lost = TRUE]
         IN  /\ d \in Call /\ d.op = c.op /\ d.target = c.target
             /\ d.buffer = c.buffer /\ d.hits = c.hits /\ d.lost = TRUE
BY DEF Call

LEMMA DeliveredFields ==
  ASSUME call \in Call, call.hits = 0, NEW enter \in Enters
  PROVE  LET d == Delivered(enter)
         IN  /\ d \in Call /\ d.op = call.op /\ d.target = call.target
             /\ d.buffer = call.buffer /\ d.hits = 1 /\ d.enter = enter
<1>1. call.hits + 1 = 1 /\ 1 \in 0..2
  OBVIOUS
<1>2. Delivered(enter) = [call EXCEPT !.hits = 1, !.enter = enter]
  BY <1>1 DEF Delivered
<1>3. QED
  BY <1>1, <1>2 DEF Call

LEMMA EnterTyped ==
  /\ EnterGoesTo \in Enters
  /\ EnterGoesTo # "none" <=> call.op = "submit"
BY DEF EnterGoesTo, Enters

(* The Enter may end copy mode, as any key.  *)
LEMMA EnterKeeps ==
  ASSUME PanesOK, call.target \in Sessions, pane' \in AfterEnter
  PROVE  PanesOK'
<1>1. pane' \in AfterKey
  BY DEF AfterEnter, AfterKey
<1>2. QED
  BY <1>1, KeyKeeps

LEMMA StepPasteBuffer == ASSUME IInv, PasteBuffer PROVE IInv'
<1>1. /\ call.op \in Pasting /\ call.step = "paste" /\ CallPart /\ call \in Call
      /\ call.hits = 0 /\ call.enter = "none" /\ ~call.lost
      /\ call.op # "none" /\ call.target \in Sessions
  BY OpOfStep, PartOfInv, CallTyped
     DEF IInv, PasteBuffer, At, CallOK, CallSoFar, Pasting
<1>2. UNCHANGED <<bound, attached, unanswered>>
  BY DEF PasteBuffer
<1>3. buffers' \subseteq buffers /\ buffers' \subseteq Buffers /\ unanswered' \subseteq Buffers
  BY <1>2 DEF PasteBuffer, PasteDone, PasteRefused, PasteLost, IInv, RestOK
<1>4. faults' \in 0..MaxFaults
  BY Faults DEF PasteBuffer, PasteDone, PasteRefused, PasteLost, IInv, RestOK
<1>5. PanesOK'
  <2>1. pane' = pane \/ pane' \in AfterEnter
    BY DEF PasteBuffer, PasteDone, PasteRefused, PasteLost
  <2>2. QED
    BY <1>1, <2>1, PanesSame, EnterKeeps DEF IInv
<1>6. CASE PasteDone
  <2> DEFINE c == Delivered(EnterGoesTo)
  <2>1. /\ c \in Call /\ c.op = call.op /\ c.hits = 1
        /\ (c.enter # "none" <=> c.op = "submit")
    BY <1>1, EnterTyped, DeliveredFields
  <2>2. FinishAs(c, TRUE) /\ buffers' = buffers \ {call.buffer}
    BY <1>6 DEF PasteDone
  <2> HIDE DEF c
  <2>3. CallPart' /\ call'.step = "idle"
    BY <1>1, <2>1, <2>2, PasteEnds
  <2>4. BuffersHeld'
    BY <1>1, <1>2, <2>2, <2>3 DEF IInv, BuffersHeld, Held
  <2>5. QED
    BY <1>2, <1>3, <1>4, <1>5, <2>3, <2>4, PasteStep, NoAttachNext DEF CallPart
<1>7. ASSUME NEW c \in Call, c.op = call.op, c.target = call.target,
             c.buffer = call.buffer, c.hits \in 0..1,
             ~c.lost => c.hits = 0 /\ c.enter = "none", PasteFailed(c)
      PROVE  IInv'
  <2>1. CallPart' /\ call'.step = "drop" /\ call'.buffer = call.buffer
    BY <1>1, <1>7, PasteFails
  <2>2. BuffersHeld'
    BY <1>1, <1>2, <1>3, <2>1 DEF IInv, BuffersHeld, Held
  <2>3. QED
    BY <1>2, <1>3, <1>4, <1>5, <2>1, <2>2, PasteStep, NoAttachNext DEF CallPart
<1>8. CASE PasteFailed(call)
  BY <1>1, <1>7, <1>8
<1>9. CASE PasteFailed([call EXCEPT !.lost = TRUE])
  <2> DEFINE c == [call EXCEPT !.lost = TRUE]
  <2>1. /\ c \in Call /\ c.op = call.op /\ c.target = call.target
        /\ c.buffer = call.buffer /\ c.hits = 0 /\ c.lost = TRUE
    BY <1>1, LostFields
  <2>2. PasteFailed(c)
    BY <1>9
  <2> HIDE DEF c
  <2>3. QED
    BY <1>7, <2>1, <2>2
<1>10. ASSUME NEW enter \in Enters,
              PasteFailed([Delivered(enter) EXCEPT !.lost = TRUE])
       PROVE  IInv'
  <2> DEFINE d == Delivered(enter)
             c == [d EXCEPT !.lost = TRUE]
  <2>1. /\ d \in Call /\ d.op = call.op /\ d.target = call.target
        /\ d.buffer = call.buffer /\ d.hits = 1
    BY <1>1, DeliveredFields
  <2>2. PasteFailed(c)
    BY <1>10
  <2> HIDE DEF d
  <2>3. /\ c \in Call /\ c.op = d.op /\ c.target = d.target
        /\ c.buffer = d.buffer /\ c.hits = d.hits /\ c.lost = TRUE
    BY <2>1, LostFields
  <2> HIDE DEF c
  <2>4. QED
    BY <1>7, <2>1, <2>2, <2>3
<1>11. "none" \in Enters
  BY DEF Enters
<1>12. QED
  BY <1>6, <1>8, <1>9, <1>10, <1>11, EnterTyped
     DEF PasteBuffer, PasteRefused, PasteLost

LEMMA StepDropBuffer == ASSUME IInv, DropBuffer PROVE IInv'
<1>1. /\ call.op \in Pasting /\ call.step = "drop" /\ CallPart /\ call \in Call
      /\ ~call.lost => call.hits = 0 /\ call.enter = "none"
  BY OpOfStep, PartOfInv DEF IInv, DropBuffer, At, CallOK, CallSoFar
<1>2. CallPart' /\ call'.step = "idle"
  BY <1>1, PasteEnds DEF DropBuffer, Finish
<1>3. UNCHANGED <<pane, bound, attached>> /\ PanesOK'
  BY PanesSame DEF DropBuffer, IInv
<1>4. /\ buffers' \subseteq buffers /\ unanswered \subseteq unanswered'
      /\ call.buffer \notin buffers' \/ call.buffer \in unanswered'
      /\ unanswered' \subseteq unanswered \cup {call.buffer}
  BY DEF DropBuffer
<1>5. call.buffer \in Buffers
  BY <1>1, CallTyped DEF CallPart
<1>6. BuffersHeld'
  BY <1>1, <1>2, <1>4 DEF IInv, BuffersHeld, Held
<1>7. buffers' \subseteq Buffers /\ unanswered' \subseteq Buffers
  BY <1>4, <1>5 DEF IInv, RestOK
<1>8. faults' \in 0..MaxFaults
  BY Faults DEF DropBuffer, IInv, RestOK
<1>9. QED
  BY <1>2, <1>3, <1>6, <1>7, <1>8, PasteStep, NoAttachNext DEF CallPart

-----------------------------------------------------------------------------
(* The user and the others                                                 *)

LEMMA StepBegin ==
  ASSUME IInv, NEW op \in Operations \ {"none"}, NEW step \in StepsOf(op),
         step \notin {"paste", "drop", "status"},
         NEW p \in Panels \cup {None}, op = "attach" => p \in Panels,
         NEW s \in Sessions, Begin(op, step, p, s)
  PROVE  IInv'
<1>1. /\ call' = [NoCall EXCEPT !.op = op, !.step = step, !.panel = p, !.target = s]
      /\ UNCHANGED <<pane, buffers, bound, error, attached, outcome, unanswered,
                     faults>>
      /\ call.op = "none"
  BY DEF Begin, Idle
<1>2. call.step = "idle"
  BY <1>1, OpOfStep DEF IInv
<1>3. /\ call' \in Call /\ call'.op = op /\ call'.step = step /\ call'.target = s
      /\ call'.hits = 0 /\ call'.enter = "none" /\ ~call'.lost /\ call'.panel = p
  <2>1. call' = [op |-> op, step |-> step, panel |-> p, target |-> s,
                 buffer |-> None, hits |-> 0, enter |-> "none", lost |-> FALSE]
    BY <1>1 DEF NoCall
  <2>2. step \in UNION { StepsOf(o) : o \in Operations }
    OBVIOUS
  <2>3. QED
    BY <2>1, <2>2 DEF Call, Enters
<1>4. CallPart'
  BY <1>1, <1>3, PartOfInv, TerminalAssumption
     DEF CallPart, CallOK, CallSoFar, PasteIsTruthful
<1>5. BuffersHeld'
  BY <1>1, <1>2, <1>3 DEF IInv, BuffersHeld, Held
<1>6. buffers' \subseteq Buffers /\ unanswered' \subseteq Buffers
      /\ faults' \in 0..MaxFaults
  BY <1>1 DEF IInv, RestOK
<1>7. PanesOK'
  BY <1>1, PanesSame DEF IInv
<1>8. QED
  BY <1>1, <1>3, <1>4, <1>5, <1>6, <1>7, PasteStep

LEMMA BoundTyped ==
  ASSUME IInv, NEW p \in Panels, bound[p] # None PROVE bound[p] \in Sessions
BY DEF IInv, RestOK

LEMMA StepUserCall == ASSUME IInv, UserCall PROVE IInv'
<1>1. /\ {"paste", "submit", "up", "down", "kill", "key", "attach"}
           \subseteq Operations \ {"none"}
      /\ "load" \in StepsOf("paste") /\ "load" \in StepsOf("submit")
      /\ "query" \in StepsOf("up") /\ "query" \in StepsOf("down")
      /\ "home" \in StepsOf("kill") /\ "send" \in StepsOf("key")
      /\ "mouse" \in StepsOf("attach")
  BY DEF Operations, StepsOf, Pasting, Wheeling
<1>2. ASSUME NEW p \in Panels, Paste(p) PROVE IInv'
  BY <1>1, <1>2, BoundTyped, StepBegin DEF Paste
<1>3. ASSUME NEW p \in Panels, Wheel(p, "up") PROVE IInv'
  BY <1>1, <1>3, BoundTyped, StepBegin DEF Wheel
<1>4. ASSUME NEW p \in Panels, Wheel(p, "down") PROVE IInv'
  BY <1>1, <1>4, BoundTyped, StepBegin DEF Wheel
<1>5. ASSUME NEW p \in Panels, KillInputLine(p) PROVE IInv'
  BY <1>1, <1>5, BoundTyped, StepBegin DEF KillInputLine
<1>6. ASSUME NEW p \in Panels, PasteImage(p) PROVE IInv'
  <2>1. bound[p] \in Sessions
    BY <1>6, TerminalAssumption DEF PasteImage
  <2>2. QED
    BY <1>1, <1>6, <2>1, StepBegin DEF PasteImage
<1>7. ASSUME NEW p \in Panels, NEW s \in Sessions, PrepareAttach(p, s) PROVE IInv'
  BY <1>1, <1>7, StepBegin DEF PrepareAttach
<1>8. ASSUME NEW s \in Sessions, Bootstrap(s) PROVE IInv'
  BY <1>1, <1>8, StepBegin DEF Bootstrap
<1>9. ASSUME NEW p \in Panels,
             \/ PasteNothing(p) \/ PasteImageRefused(p) \/ OpenExternal(p)
             \/ \E s \in Sessions \cup {None} : Bind(p, s)
      PROVE  IInv'
  <2>1. /\ UNCHANGED <<pane, buffers, attached, call, outcome, unanswered, faults>>
        /\ bound' \in [Panels -> Sessions \cup {None}]
        /\ error' \in [Panels -> BOOLEAN]
    BY <1>9 DEF PasteNothing, PasteImageRefused, OpenExternal, Bind, IInv, RestOK
  <2>2. call.step # "status" /\ call.op # "attach"
    BY <1>9, OpOfStep
       DEF PasteNothing, PasteImageRefused, OpenExternal, Bind, IInv, Idle
  <2>3. HalfPrepared'
    BY <2>1, <2>2 DEF HalfPrepared
  <2>4. QED
    BY <2>1, <2>3 DEF IInv, PanesOK, CallOK, RestOK, CallSoFar, BuffersHeld, Held,
                      PasteIsTruthful
<1>10. QED
  BY <1>2, <1>3, <1>4, <1>5, <1>6, <1>7, <1>8, <1>9 DEF UserCall

(* Somebody else changes a pane; it keeps its options or ends.  *)
LEMMA OthersStep ==
  ASSUME IInv, NEW s \in Sessions, NEW q \in Pane,
         ~q.alive => q.scroll = None,
         q.alive => pane[s].alive /\ q.mouse = pane[s].mouse,
         pane' = [pane EXCEPT ![s] = q],
         buffers' \subseteq buffers, attached' \subseteq attached,
         UNCHANGED <<bound, error, call, outcome, unanswered, faults>>
  PROVE  IInv'
<1>1. PanesOK'
  BY OnePane DEF IInv
<1>2. HalfPrepared'
  <2>1. CASE call.step = "status"
    <3>1. call.target \in Sessions
      BY <2>1, OpOfStep, CallTyped DEF IInv
    <3>2. pane'[call.target].alive =>
            /\ pane[call.target].alive
            /\ pane'[call.target].mouse = pane[call.target].mouse
      BY <3>1 DEF IInv, PanesOK
    <3>3. QED
      BY <3>2 DEF IInv, HalfPrepared, Target, MouseWanted, MouseOf
  <2>2. CASE call.step # "status"
    BY <2>2 DEF IInv, HalfPrepared
  <2>3. QED
    BY <2>1, <2>2
<1>3. RestOK' /\ BuffersHeld'
  BY DEF IInv, RestOK, BuffersHeld, Held
<1>4. CallOK' /\ CallSoFar' /\ PasteIsTruthful'
  BY DEF IInv, CallOK, CallSoFar, PasteIsTruthful
<1>5. QED
  BY <1>1, <1>2, <1>3, <1>4 DEF IInv

LEMMA StepAgentEnds == ASSUME IInv, NEW s \in Sessions, AgentEnds(s) PROVE IInv'
<1>1. Gone \in Pane /\ ~Gone.alive /\ Gone.scroll = None
  BY DEF Gone, Fresh, Pane
<1>2. pane' = [pane EXCEPT ![s] = Gone]
  BY DEF AgentEnds
<1>3. buffers' \subseteq buffers /\ attached' \subseteq attached
  BY DEF AgentEnds
<1>4. UNCHANGED <<bound, error, call, outcome, unanswered, faults>>
  BY DEF AgentEnds
<1>5. QED
  BY <1>1, <1>2, <1>3, <1>4, OthersStep

LEMMA StepUserEnters ==
  ASSUME IInv, NEW s \in Sessions, UserEntersCopyMode(s) PROVE IInv'
<1> DEFINE q == [pane[s] EXCEPT !.scroll = 0, !.byHand = TRUE]
<1>1. pane[s] \in Pane /\ 0 \in {None} \cup 0..Top
  BY PaneTyped, TerminalAssumption DEF IInv
<1>2. q \in Pane /\ q.alive /\ pane[s].alive /\ q.mouse = pane[s].mouse
  BY <1>1 DEF Pane, UserEntersCopyMode
<1>3. pane' = [pane EXCEPT ![s] = q]
  BY DEF UserEntersCopyMode, IInv, PanesOK
<1>4. UNCHANGED <<buffers, bound, error, attached, call, outcome, unanswered, faults>>
  BY DEF UserEntersCopyMode
<1>5. QED
  BY <1>2, <1>3, <1>4, OthersStep

LEMMA StepUserLeaves ==
  ASSUME IInv, NEW s \in Sessions, UserLeavesCopyMode(s) PROVE IInv'
<1>1. pane[s] \in Pane
  BY PaneTyped DEF IInv
<1>2. /\ Out(pane[s]) \in Pane /\ Out(pane[s]).scroll = None
      /\ Out(pane[s]).alive = pane[s].alive /\ Out(pane[s]).mouse = pane[s].mouse
  BY <1>1, OutOfMode
<1>3. pane' = [pane EXCEPT ![s] = Out(pane[s])]
  BY DEF UserLeavesCopyMode
<1>4. UNCHANGED <<buffers, bound, error, attached, call, outcome, unanswered, faults>>
  BY DEF UserLeavesCopyMode
<1>5. QED
  BY <1>2, <1>3, <1>4, OthersStep

LEMMA StepDetach == ASSUME IInv, NEW c, Detach(c) PROVE IInv'
<1>1. /\ attached' \subseteq attached
      /\ UNCHANGED <<pane, buffers, bound, error, call, outcome, unanswered, faults>>
  BY DEF Detach
<1>2. HalfPrepared'
  BY <1>1 DEF IInv, HalfPrepared, Target, MouseWanted, MouseOf
<1>3. QED
  BY <1>1, <1>2 DEF IInv, PanesOK, CallOK, RestOK, CallSoFar, BuffersHeld, Held,
                    PasteIsTruthful

LEMMA StepCrash == ASSUME IInv, Crash PROVE IInv'
<1>1. /\ call' = NoCall /\ attached' = {}
      /\ unanswered' = unanswered \cup ({call.buffer} \ {None})
      /\ bound' = [p \in Panels |-> None] /\ error' = [p \in Panels |-> FALSE]
      /\ UNCHANGED <<pane, buffers, outcome>>
  BY DEF Crash
<1>2. CallOK' /\ CallSoFar' /\ call'.step = "idle"
  BY <1>1, NoCallOK DEF CallOK, CallSoFar, NoCall, StepsOf, Pasting, Wheeling
<1>3. BuffersHeld'
  BY <1>1, <1>2 DEF IInv, BuffersHeld, Held, CallOK
<1>4. RestOK'
  <2>1. unanswered' \subseteq Buffers
    BY <1>1, CallTyped DEF IInv, RestOK
  <2>2. faults' \in 0..MaxFaults
    BY Faults DEF Crash, IInv
  <2>3. QED
    BY <1>1, <2>1, <2>2 DEF IInv, RestOK
<1>5. PanesOK' /\ PasteIsTruthful' /\ HalfPrepared'
  BY <1>1, <1>2 DEF IInv, PanesOK, PasteIsTruthful, HalfPrepared, NoCall
<1>6. QED
  BY <1>2, <1>3, <1>4, <1>5 DEF IInv

-----------------------------------------------------------------------------
(* The theorems                                                            *)

LEMMA StepInv == ASSUME IInv, [Next]_vars PROVE IInv'
<1>1. CASE CallStep
  BY <1>1, StepLoad, StepPasteBuffer, StepDropBuffer, StepQuery, StepEnter,
     StepMove, StepQueryAgain, StepCancel, StepHome, StepCutOrSend,
     StepSetMouse, StepSetStatus DEF CallStep
<1>2. CASE UserCall
  BY <1>2, StepUserCall
<1>3. CASE Environment
  BY <1>3, StepAgentEnds, StepUserEnters, StepUserLeaves, StepDetach, StepCrash
     DEF Environment
<1>4. CASE UNCHANGED vars
  BY <1>4 DEF vars, IInv, PanesOK, CallOK, RestOK, CallSoFar, BuffersHeld, Held,
              HalfPrepared, Target, MouseWanted, MouseOf, PasteIsTruthful
<1>5. QED
  BY <1>1, <1>2, <1>3, <1>4 DEF Next

LEMMA Invariance == Spec => []IInv
BY InitInv, StepInv, PTL DEF Spec

(* The types: a call is at a step of its own operation, it has a session   *)
(* and, once loaded, a buffer; a position is within the history; a dead    *)
(* pane is not in copy mode (TmuxTerminalBackend).                         *)
THEOREM TerminalTypes == Spec => []TypeOK
<1>1. IInv => TypeOK
  BY TypeParts DEF IInv
<1>2. QED
  BY <1>1, Invariance, PTL

(* Between calls no paste buffer stays on the server but those of which    *)
(* tmux did not answer, or the app died (pasteText, pasteTextAndSubmit).   *)
THEOREM NoPasteStays == Spec => []NoPasteLeft
<1>1. IInv => NoPasteLeft
  BY OpOfStep DEF IInv, BuffersHeld, Held, NoPasteLeft, Idle
<1>2. QED
  BY <1>1, Invariance, PTL

(* A paste reported as done reached the agent once, its Enter was sent to  *)
(* the agent or, where a copy mode was open, to that; of one reported as   *)
(* failed nothing arrived unless an answer was lost, whatever fails and    *)
(* whoever ends meanwhile (pasteText, pasteTextAndSubmit, setErrorMessage).*)
THEOREM PastesAreTruthful == Spec => []PasteIsTruthful
<1>1. IInv => PasteIsTruthful
  BY DEF IInv
<1>2. QED
  BY <1>1, Invariance, PTL

(* Only the second command of an attach starts a client. *)
LEMMA ClientsOnlyThere ==
  ASSUME IInv, [Next]_vars
  PROVE  SetStatus \/ attached' \subseteq attached
<1>1. CASE CallStep
  BY <1>1 DEF CallStep, Load, PasteBuffer, DropBuffer, Query, EnterCopyMode, Move,
              QueryAgain, Cancel, Home, Cut, Send, SetMouse
<1>2. CASE UserCall
  BY <1>2 DEF UserCall, Bind, Paste, PasteNothing, PasteImage, PasteImageRefused,
              KillInputLine, OpenExternal, Wheel, PrepareAttach, Bootstrap, Begin
<1>3. CASE Environment
  BY <1>3 DEF Environment, AgentEnds, UserEntersCopyMode, UserLeavesCopyMode,
              Detach, Crash
<1>4. CASE UNCHANGED vars
  BY <1>4 DEF vars
<1>5. QED
  BY <1>1, <1>2, <1>3, <1>4 DEF Next

(* A client starts only in a session whose two options the call has just   *)
(* set, the mouse as the controller's binding asks for, whichever command  *)
(* fails and whatever session the viewport shows                           *)
(* (prepareInteractiveAttach, NativeTerminalViewport).                     *)
THEOREM ClientsAreReady == Spec => ClientsStartReady
<1>1. IInv /\ [Next]_vars => [\A c \in attached' \ attached : ReadyFor(c)']_vars
  BY ClientsOnlyThere, StepSetStatus
<1>2. QED
  BY <1>1, Invariance, PTL DEF Spec, ClientsStartReady

=============================================================================
