-------------------------- MODULE SessionStatusProofs -------------------------
(***************************************************************************)
(* SessionStatus, for any screens the providers may show, and any number   *)
(* of openings and failures: every status a row gets goes with the one who *)
(* gave it, a row that is watched names a tmux session, and an exit report *)
(* that is not held back closes the row.                                   *)
(***************************************************************************)
EXTENDS SessionStatus, TLAPS

-----------------------------------------------------------------------------
(* The types                                                               *)

HintsOf == [titles : SUBSET Kinds, hold : Nat, eager : BOOLEAN,
            segment : BOOLEAN, generic : BOOLEAN]

StatusRecord == [state : States, by : {"UiLocal", "Tmux", "PromptMarker",
                                       "ProviderHint"},
                 detail : Details, text : 0..2]

LEMMA HintsTyped ==
  ASSUME provider \in Providers
  PROVE  H.titles \subseteq Kinds
<1>1. provider \in DOMAIN Hints
  BY ScreensAssumption
<1>2. DOMAIN Hints = {"codex", "claude", "gemini", "hermes", "opencode"}
  BY DEF Hints
<1> QED
  BY <1>1, <1>2
  DEF H, Hints, CodexHints, ClaudeHints, GeminiHints, HermesHints,
      OpenCodeHints, Kinds

LEMMA BlankTyped == Blank \in Capture
BY DEF Blank, Capture

LEMMA CapturedTyped ==
  ASSUME TypeOK, NEW few \in BOOLEAN, NEW failed \in BOOLEAN
  PROVE  /\ CapturePane(few, failed) \in Capture
         /\ Captured(screen, few).title \in Kinds \cup {None}
<1>1. screen \in Screen
  BY ScreensAssumption DEF TypeOK
<1>2. Captured(screen, few) \in Capture
  BY <1>1 DEF Captured, Capture, Screen
<1> QED BY <1>2, BlankTyped DEF CapturePane, Capture

(* Of the rules that apply there is a strongest one.                       *)
LEMMA StrongestRule ==
  ASSUME NEW said \in SUBSET (1..10), said # {}
  PROVE  \E i \in said : \A j \in said : i <= j
<1> SUFFICES ASSUME \A i \in said : \E j \in said : j < i
             PROVE  FALSE
  OBVIOUS
<1>1. 1 \notin said
  OBVIOUS
<1>2. 2 \notin said
  BY <1>1
<1>3. 3 \notin said
  BY <1>1, <1>2
<1>4. 4 \notin said
  BY <1>1, <1>2, <1>3
<1>5. 5 \notin said
  BY <1>1, <1>2, <1>3, <1>4
<1>6. \A i \in said : i \in 6..10
  BY <1>1, <1>2, <1>3, <1>4, <1>5
<1>7. 6 \notin said
  BY <1>6
<1>8. 7 \notin said
  BY <1>6, <1>7
<1>9. 8 \notin said
  BY <1>6, <1>7, <1>8
<1>10. 9 \notin said
  BY <1>6, <1>7, <1>8, <1>9
<1>11. \A i \in said : i = 10
  BY <1>6, <1>7, <1>8, <1>9, <1>10
<1>12. PICK i \in said : TRUE
  OBVIOUS
<1> QED BY <1>11, <1>12

LEMMA AppliesBaseOrRule ==
  ASSUME NEW kind, NEW r, NEW seen
  PROVE  \/ ApplySignal(kind, r, seen) = Base(kind, r, seen)
            /\ \A i \in 1..10 : ~Overrides(kind, r, seen)[i].when
         \/ \E i \in 1..10 :
              /\ Overrides(kind, r, seen)[i].when
              /\ ApplySignal(kind, r, seen)
                   = Overrides(kind, r, seen)[i].status
<1> DEFINE rules == Overrides(kind, r, seen)
           said == { i \in DOMAIN rules : rules[i].when }
<1>1. DOMAIN rules = 1..10
  BY DEF Overrides
<1> HIDE DEF rules
<1>2. CASE said = {}
  BY <1>1, <1>2 DEF ApplySignal, rules
<1>3. CASE said # {}
  <2>1. \E i \in said : \A j \in said : i <= j
    BY <1>1, <1>3, StrongestRule
  <2>2. (CHOOSE i \in said : \A j \in said : i <= j) \in said
    BY <2>1
  <2> QED BY <1>1, <1>3, <2>2 DEF ApplySignal, rules
<1> QED BY <1>2, <1>3 DEF rules

(* Whatever a signal makes of a row, its state goes with who says so.      *)
LEMMA StatusTyped ==
  ASSUME NEW r \in Row, StatusOK(r), NEW seen \in Capture,
         NEW kind \in {"attached", "output", "exited"}
  PROVE  /\ ApplySignal(kind, r, seen) \in StatusRecord
         /\ StatusOK(ApplySignal(kind, r, seen))
<1>1. StatusOf(r) \in StatusRecord /\ StatusOK(StatusOf(r))
  BY DEF StatusOf, Status, StatusRecord, Row, StatusOK
<1>2. Base(kind, r, seen) \in StatusRecord /\ StatusOK(Base(kind, r, seen))
  <2>1. Retained(r) \in Details
    BY DEF Retained, Row, Details
  <2>2. CASE kind = "exited"
    BY <2>2 DEF Base, Status, StatusRecord, StatusOK, States, Details
  <2>3. CASE kind = "attached"
    BY <2>1, <2>3 DEF Base, Status, StatusRecord, StatusOK, States, Row
  <2>4. CASE kind = "output"
    BY <1>1, <2>4 DEF Base, Status, StatusRecord, StatusOK, States, Details
  <2> QED BY <2>2, <2>3, <2>4
<1>3. ASSUME NEW i \in 1..10
      PROVE  /\ Overrides(kind, r, seen)[i].status \in StatusRecord
             /\ StatusOK(Overrides(kind, r, seen)[i].status)
  <2>1. seen.text \in 0..2
    BY DEF Capture
  <2> DEFINE status == Overrides(kind, r, seen)[i].status
  <2>2. status \in { StatusOf(r),
                     Status("AwaitingApproval", "ProviderHint", "approval", 0),
                     Status("Idle", "PromptMarker", "prompt", 0),
                     Status("Thinking", "ProviderHint", "active", seen.text),
                     Status("WaitingForInput", "ProviderHint", "waiting", 0) }
    BY DEF Overrides
  <2> HIDE DEF status
  <2>3. status \in StatusRecord /\ StatusOK(status)
    BY <1>1, <2>1, <2>2 DEF Status, StatusRecord, StatusOK, States, Details
  <2> QED BY <2>3 DEF status
<1> QED BY <1>2, <1>3, AppliesBaseOrRule

LEMMA StampedTyped ==
  ASSUME NEW r \in Row, NEW status \in StatusRecord, StatusOK(status),
         NEW ref \in 0..MaxOpens
  PROVE  Stamped(r, status, ref) \in Row /\ StatusOK(Stamped(r, status, ref))
<1>1. 0 \in 0..AgeCap
  BY DEF AgeCap
<1> QED BY <1>1 DEF Stamped, Row, StatusRecord, StatusOK

LEMMA AppliedTyped ==
  ASSUME NEW r \in Row, StatusOK(r), NEW seen \in Capture,
         NEW kind \in {"attached", "output", "exited"}, NEW w \in Threads,
         NEW m \in 0..MaxOpens
  PROVE  /\ Applied(r, kind, seen, m) \in Frame
         /\ FrameOK(w, Applied(r, kind, seen, m))
<1> DEFINE status == ApplySignal(kind, r, seen)
           ref == IF kind = "exited" THEN 0 ELSE m
<1>0. ref \in 0..MaxOpens
  BY BoundsAssumption
<1>1. status \in StatusRecord /\ StatusOK(status)
  BY StatusTyped
<1> HIDE DEF status
<1>2. Stamped(r, status, ref) \in Row /\ StatusOK(Stamped(r, status, ref))
  BY <1>0, <1>1, StampedTyped
<1> DEFINE f == [pc |-> "write", signal |-> NoSignal,
                 record |-> Stamped(r, status, ref)]
<1>3. f \in Frame /\ FrameOK(w, f)
  BY <1>2 DEF Frame, FrameOK
<1>4. IdleFrame \in Frame /\ FrameOK(w, IdleFrame)
  BY DEF IdleFrame, Frame, FrameOK
<1>5. Applied(r, kind, seen, m) \in {f, IdleFrame}
  BY DEF Applied, status
<1> QED BY <1>3, <1>4, <1>5

-----------------------------------------------------------------------------
(* Every action keeps the types                                            *)

(* What TypeOK says of the frames.                                        *)
FramesOK(f) == f \in [Threads -> Frame] /\ \A w \in Threads : FrameOK(w, f[w])

LEMMA FramesTyped ==
  ASSUME TypeOK, NEW w \in Threads, NEW f \in Frame, FrameOK(w, f),
         frame' = [frame EXCEPT ![w] = f]
  PROVE  FramesOK(frame')
BY DEF TypeOK, FramesOK

LEMMA IdleTyped ==
  ASSUME NEW w \in Threads
  PROVE  IdleFrame \in Frame /\ FrameOK(w, IdleFrame)
BY DEF IdleFrame, Frame, FrameOK

LEMMA TryTyped ==
  ASSUME TypeOK, NEW failed \in BOOLEAN, Try(failed)
  PROVE  faults' \in 0..MaxFaults
BY BoundsAssumption DEF TypeOK, Try, Fault

LEMMA RowWithAge ==
  ASSUME NEW r \in Row, StatusOK(r)
  PROVE  /\ [r EXCEPT !.age = Least(@ + 1, AgeCap)] \in Row
         /\ StatusOK([r EXCEPT !.age = Least(@ + 1, AgeCap)])
<1>1. Least(r.age + 1, AgeCap) \in 0..AgeCap
  BY DEF Row, Least, AgeCap
<1> HIDE DEF AgeCap
<1> QED BY <1>1 DEF Row, StatusOK

LEMMA OpenType ==
  ASSUME TypeOK, Open
  PROVE  TypeOK'
<1> DEFINE r == [state |-> "Starting", by |-> "UiLocal", detail |-> "opened",
                 text |-> 0, ref |-> 0, age |-> 0, mux |-> opens + 1]
           f == [pc |-> "attach", signal |-> NoSignal, record |-> r]
<1>1. opens + 1 \in 0..MaxOpens
  BY BoundsAssumption DEF TypeOK, Open
<1>2. r \in Row /\ StatusOK(r)
  <2>1. 0 \in 0..MaxOpens /\ 0 \in 0..AgeCap
    BY BoundsAssumption DEF AgeCap
  <2> QED BY <1>1, <2>1 DEF Row, StatusOK, States, Details
<1>3. row' = r /\ frame' = [frame EXCEPT !["ui"] = f]
  BY DEF Open
<1> HIDE DEF r
<1>4. "ui" \in Threads /\ f \in Frame /\ FrameOK("ui", f)
  BY <1>2 DEF Threads, Frame, FrameOK
<1>5. FramesOK(frame')
  BY <1>3, <1>4, FramesTyped
<1> QED BY <1>1, <1>2, <1>3, <1>5 DEF TypeOK, Open, FramesOK

LEMMA AttachType ==
  ASSUME TypeOK, Attach
  PROVE  TypeOK'
<1>1. /\ "ui" \in Threads
      /\ frame["ui"].record \in Row /\ StatusOK(frame["ui"].record)
  BY DEF TypeOK, FrameOK, Threads, Attach
<1>2. PICK failed \in BOOLEAN :
        /\ Try(failed)
        /\ frame' = [frame EXCEPT !["ui"] =
                      Applied(frame["ui"].record, "attached",
                              IF live THEN CapturePane(FALSE, failed)
                              ELSE Blank,
                              frame["ui"].record.mux)]
  BY DEF Attach, MayFail
<1> DEFINE seen == IF live THEN CapturePane(FALSE, failed) ELSE Blank
           m == frame["ui"].record.mux
           f == Applied(frame["ui"].record, "attached", seen, m)
<1>3. seen \in Capture
  BY CapturedTyped, BlankTyped
<1>30. m \in 0..MaxOpens
  BY <1>1 DEF Row
<1> HIDE DEF seen, m
<1>4. f \in Frame /\ FrameOK("ui", f)
  BY <1>1, <1>3, <1>30, AppliedTyped
<1>5. frame' = [frame EXCEPT !["ui"] = f]
  BY <1>2 DEF seen, m
<1> HIDE DEF f
<1>6. FramesOK(frame')
  BY <1>1, <1>4, <1>5, FramesTyped
<1> QED BY <1>2, <1>6, TryTyped DEF TypeOK, Attach, FramesOK

LEMMA AgentType ==
  ASSUME TypeOK, Terminate \/ Draw \/ AgentEnds
  PROVE  TypeOK'
<1>1. CASE Terminate
  <2>1. row' = [state |-> "Exited", by |-> "UiLocal", detail |-> "ended",
                text |-> 0, ref |-> 0, age |-> 0, mux |-> 0]
    BY <1>1 DEF Terminate, TypeOK, Row
  <2>2. row' \in Row /\ StatusOK(row)'
    BY <2>1, BoundsAssumption DEF Row, StatusOK, States, Details, AgeCap
  <2>3. live' \in BOOLEAN
    BY <1>1 DEF Terminate, TypeOK
  <2> QED BY <1>1, <2>2, <2>3 DEF TypeOK, Terminate
<1>2. CASE Draw
  BY <1>2 DEF TypeOK, Draw
<1>3. CASE AgentEnds
  BY <1>3 DEF TypeOK, AgentEnds
<1> QED BY <1>1, <1>2, <1>3

LEMMA WorkersAreThreads ==
  ASSUME NEW w \in Workers
  PROVE  w \in Threads /\ w # "ui"
BY DEF Workers, Threads

LEMMA KeepTyped ==
  ASSUME TypeOK, NEW w, NEW c \in Observed \cup {None}, Keep(w, c)
  PROVE  cache' \in Observed \cup {None}
BY DEF TypeOK, Keep

LEMMA SendTyped ==
  ASSUME TypeOK, NEW w \in Workers, NEW capture \in Capture,
         NEW kind \in {"attached", "output", "exited"},
         Send(w, kind, capture)
  PROVE  FramesOK(frame')
<1> DEFINE f == [pc |-> "apply", record |-> None,
                 signal |-> [kind |-> kind, mux |-> row.mux, seen |-> capture]]
<1>1. f \in Frame /\ FrameOK(w, f)
  BY WorkersAreThreads DEF Frame, FrameOK, Signal, TypeOK, Row
<1> HIDE DEF f
<1> QED BY <1>1, WorkersAreThreads, FramesTyped DEF Send, f

LEMMA PollType ==
  ASSUME TypeOK, NEW w \in Workers, Poll(w)
  PROVE  TypeOK'
<1>1. CASE PollFails(w)
  BY <1>1, BoundsAssumption DEF TypeOK, PollFails, Fault
<1>2. CASE PollNothing(w)
  BY <1>2 DEF TypeOK, PollNothing, Keep
<1>3. CASE PollGone(w)
  <2>1. FramesOK(frame')
    BY <1>3, BlankTyped, SendTyped DEF PollGone
  <2> QED BY <1>3, <2>1 DEF TypeOK, PollGone, Keep, FramesOK
<1>4. CASE PollPane(w)
  <2> DEFINE c == CacheOf(w)
             fresh == row.state = "Idle"
             capture(failed) ==
               IF Due(c) THEN CapturePane(fresh, failed)
               ELSE [c.seen EXCEPT !.title = Captured(screen, FALSE).title]
  <2>1. PICK failed \in BOOLEAN :
          /\ Try(failed)
          /\ Keep(w, [mux |-> row.mux, seen |-> capture(failed),
                      age |-> NextAge(c)])
          /\ IF c = None \/ c.mux # row.mux
             THEN Send(w, "attached", capture(failed))
             ELSE IF c.seen # capture(failed)
             THEN Send(w, "output", capture(failed))
             ELSE UNCHANGED frame
    BY <1>4 DEF PollPane, MayFail
  <2>2. c \in Observed \cup {None}
    BY DEF TypeOK, CacheOf
  <2> HIDE DEF c
  <2>3. ASSUME ~Due(c) PROVE c \in Observed
    BY <2>2, <2>3 DEF Due
  <2>4. capture(failed) \in Capture
    <3>1. CASE Due(c)
      BY <3>1, CapturedTyped
    <3>2. CASE ~Due(c)
      BY <2>3, <3>2, CapturedTyped DEF Observed, Capture
    <3> QED BY <3>1, <3>2
  <2> HIDE DEF capture
  <2>5. NextAge(c) \in 0..2 /\ row.mux \in 0..MaxOpens
    BY <2>3 DEF NextAge, Observed, TypeOK, Row
  <2>6. cache' \in Observed \cup {None}
    BY <2>1, <2>4, <2>5, KeepTyped DEF Observed
  <2>7. FramesOK(frame')
    BY <2>1, <2>4, SendTyped DEF TypeOK, FramesOK
  <2>8. faults' \in 0..MaxFaults
    BY <2>1, TryTyped
  <2> QED BY <1>4, <2>6, <2>7, <2>8 DEF TypeOK, PollPane, FramesOK
<1> QED BY <1>1, <1>2, <1>3, <1>4 DEF Poll

LEMMA ApplyType ==
  ASSUME TypeOK, NEW w \in Workers, Apply(w)
  PROVE  TypeOK'
<1> DEFINE signal == frame[w].signal
           again == /\ Watched(row) /\ LiveMux(signal.mux)
                    /\ signal.kind # "exited" /\ signal.seen.tail = <<>>
           seen(failed) ==
             IF again THEN [CapturePane(FALSE, failed) EXCEPT
                              !.title = signal.seen.title]
             ELSE signal.seen
           f(failed) == IF ~Watched(row) THEN IdleFrame
                        ELSE Applied(row, signal.kind, seen(failed), signal.mux)
<1>1. w \in Threads /\ signal \in Signal
  BY WorkersAreThreads DEF TypeOK, Apply, FrameOK
<1>2. PICK failed \in BOOLEAN :
        Try(failed) /\ frame' = [frame EXCEPT ![w] = f(failed)]
  BY DEF Apply, MayFail
<1> HIDE DEF signal
<1>3. seen(failed) \in Capture
  BY <1>1, CapturedTyped DEF Signal, Capture
<1> HIDE DEF seen
<1>4. f(failed) \in Frame /\ FrameOK(w, f(failed))
  BY <1>1, <1>3, AppliedTyped, IdleTyped DEF Signal, TypeOK
<1> HIDE DEF f
<1>5. FramesOK(frame')
  BY <1>1, <1>2, <1>4, FramesTyped
<1>6. cache' \in Observed \cup {None}
  BY DEF Apply, Keep, CacheOf, TypeOK
<1> QED BY <1>2, <1>5, <1>6, TryTyped DEF TypeOK, Apply, FramesOK

LEMMA WriteType ==
  ASSUME TypeOK, NEW w \in Threads, Write(w)
  PROVE  TypeOK'
<1>1. PICK failed \in BOOLEAN :
        Try(failed) /\ row' = IF failed THEN row ELSE frame[w].record
  BY DEF Write
<1>2. row' \in Row /\ StatusOK(row)'
  <2>1. frame[w].record \in Row /\ StatusOK(frame[w].record)
    BY DEF TypeOK, Write, FrameOK
  <2> QED BY <1>1, <2>1 DEF TypeOK, StatusOK
<1>3. FramesOK(frame')
  BY IdleTyped, FramesTyped DEF Write
<1>4. cache' \in Observed \cup {None}
  BY DEF Write, Keep, TypeOK
<1> QED BY <1>1, <1>2, <1>3, <1>4, TryTyped DEF TypeOK, Write, FramesOK

LEMMA TickType ==
  ASSUME TypeOK, Tick
  PROVE  TypeOK'
<1>1. row' \in Row /\ StatusOK(row)'
  <2>1. row' = [row EXCEPT !.age = Least(@ + 1, AgeCap)]
    BY DEF Tick
  <2> QED BY <2>1, RowWithAge DEF TypeOK, StatusOK
<1>2. cache' \in Observed \cup {None}
  BY DEF Tick, TypeOK, Observed, Least
<1> QED BY <1>1, <1>2 DEF TypeOK, Tick

LEMMA InitType == Init => TypeOK
<1> SUFFICES ASSUME Init PROVE TypeOK
  OBVIOUS
<1>1. row \in Row /\ StatusOK(row)
  BY BoundsAssumption DEF Init, Row, StatusOK, States, Details, AgeCap
<1>2. FramesOK(frame)
  BY IdleTyped DEF Init, FramesOK
<1>3. 0 \in 0..MaxOpens /\ 0 \in 0..MaxFaults
  BY BoundsAssumption
<1> HIDE DEF IdleFrame
<1> QED BY <1>1, <1>2, <1>3 DEF Init, TypeOK, FramesOK

LEMMA StepType ==
  ASSUME TypeOK, [Next]_vars
  PROVE  TypeOK'
<1>1. CASE UNCHANGED vars
  BY <1>1 DEF TypeOK, vars
<1> QED
  BY <1>1, OpenType, AttachType, AgentType, PollType, ApplyType, WriteType,
     TickType DEF Next

(* Whatever the interleaving of the workers, the UI and the agent: the row *)
(* has a status, and that status goes with the one it came from.           *)
THEOREM StatusTypeCorrect == Spec => []TypeOK
<1>1. Init => TypeOK
  BY InitType
<1>2. TypeOK /\ [Next]_vars => TypeOK'
  BY StepType
<1> QED BY <1>1, <1>2, PTL DEF Spec

-----------------------------------------------------------------------------
(* Exit reports                                                            *)

(* A row that is watched names a tmux session that was opened, though not  *)
(* always the newest: a late write may bring an older one back.            *)
WatchedIsOpened == Watched(row) => row.mux \in 1..opens

RecordsAreOpened ==
  \A w \in Threads : frame[w].pc \in {"attach", "write"} =>
                       frame[w].record.mux \in 1..opens

ExitsSeeNothing ==
  \A w \in Workers :
    (frame[w].pc = "apply" /\ frame[w].signal.kind = "exited") =>
      frame[w].signal.seen = Blank

ReportsInv == TypeOK /\ WatchedIsOpened /\ RecordsAreOpened /\ ExitsSeeNothing

(* An exit report for a watched row closes it, or is held back because of  *)
(* what the row says of the last seconds.                                  *)
ExitIsTaken(w) ==
  (Apply(w) /\ frame[w].signal.kind = "exited" /\ Watched(row)) =>
    \/ HoldsRecent(row)
    \/ /\ frame'[w].pc = "write"
       /\ frame'[w].record.state = "Exited"
       /\ frame'[w].record.mux = row.mux

ExitsAreTaken == [][\A w \in Workers : ExitIsTaken(w)]_vars

(* Only records that are watched already, or are being closed, are written *)
(* back: a thread keeps the tmux session of the record it started from.    *)
LEMMA AppliedKeepsMux ==
  ASSUME NEW r, NEW kind, NEW seen, NEW m
  PROVE  LET f == Applied(r, kind, seen, m)
         IN  /\ f.pc \in {"idle", "write"}
             /\ f.pc = "write" => f.record.mux = r.mux
BY DEF Applied, IdleFrame, Stamped

LEMMA OpensIsNat ==
  ASSUME TypeOK
  PROVE  opens \in Nat
BY BoundsAssumption DEF TypeOK

(* One thread goes on, to a frame whose record names an opened session, or *)
(* whose exit report, if it is one, says nothing of the pane.              *)
FrameOpened(f, n) ==
  /\ f.pc \in {"attach", "write"} => f.record.mux \in 1..n
  /\ (f.pc = "apply" /\ f.signal.kind = "exited") => f.signal.seen = Blank

LEMMA FramesOpened ==
  ASSUME ReportsInv, NEW w \in Threads, NEW f, FrameOpened(f, opens'),
         frame' = [frame EXCEPT ![w] = f],
         opens' = opens \/ opens' = opens + 1
  PROVE  RecordsAreOpened' /\ ExitsSeeNothing'
<1>1. ASSUME NEW v \in Threads PROVE frame'[v] = IF v = w THEN f ELSE frame[v]
  BY DEF ReportsInv, TypeOK
<1>2. 1..opens \subseteq 1..opens'
  BY OpensIsNat DEF ReportsInv
<1>3. RecordsAreOpened'
  BY <1>1, <1>2 DEF ReportsInv, RecordsAreOpened, FrameOpened
<1>4. ExitsSeeNothing'
  BY <1>1, WorkersAreThreads DEF ReportsInv, ExitsSeeNothing, FrameOpened
<1> QED BY <1>3, <1>4

LEMMA ReportsOfUI ==
  ASSUME ReportsInv, Open \/ Attach \/ Terminate \/ Draw \/ AgentEnds
  PROVE  WatchedIsOpened' /\ RecordsAreOpened' /\ ExitsSeeNothing'
<1>0. "ui" \in Threads /\ opens \in Nat
  BY OpensIsNat DEF ReportsInv, Threads
<1>1. CASE Open
  <2> DEFINE r == [state |-> "Starting", by |-> "UiLocal", detail |-> "opened",
                   text |-> 0, ref |-> 0, age |-> 0, mux |-> opens + 1]
             f == [pc |-> "attach", signal |-> NoSignal, record |-> r]
  <2>1. /\ row' = r /\ frame' = [frame EXCEPT !["ui"] = f]
        /\ opens' = opens + 1
    BY <1>1 DEF Open
  <2>2. r.mux \in 1..opens'
    BY <1>0, <2>1
  <2>3. FrameOpened(f, opens')
    BY <2>2 DEF FrameOpened
  <2>4. RecordsAreOpened' /\ ExitsSeeNothing'
    <3> HIDE DEF f
    <3> QED BY <1>0, <2>1, <2>3, FramesOpened
  <2>5. WatchedIsOpened'
    BY <2>1, <2>2 DEF WatchedIsOpened, Watched
  <2> QED BY <2>4, <2>5
<1>2. CASE Attach
  <2>1. PICK failed \in BOOLEAN :
          frame' = [frame EXCEPT !["ui"] =
                      Applied(frame["ui"].record, "attached",
                              IF live THEN CapturePane(FALSE, failed)
                              ELSE Blank,
                              frame["ui"].record.mux)]
    BY <1>2 DEF Attach, MayFail
  <2> DEFINE r == frame["ui"].record
             seen == IF live THEN CapturePane(FALSE, failed) ELSE Blank
             f == Applied(r, "attached", seen, r.mux)
  <2>2. /\ f.pc \in {"idle", "write"}
        /\ f.pc = "write" => f.record.mux = r.mux
    <3> HIDE DEF r, seen
    <3> QED BY AppliedKeepsMux
  <2>3. frame["ui"].record.mux \in 1..opens
    BY <1>0, <1>2 DEF ReportsInv, RecordsAreOpened, Attach
  <2>4. opens' = opens /\ row' = row /\ frame' = [frame EXCEPT !["ui"] = f]
    BY <1>2, <2>1 DEF Attach
  <2> HIDE DEF f
  <2>5. FrameOpened(f, opens')
    BY <2>2, <2>3, <2>4 DEF FrameOpened
  <2>6. RecordsAreOpened' /\ ExitsSeeNothing'
    BY <1>0, <2>4, <2>5, FramesOpened
  <2> QED BY <2>4, <2>6 DEF ReportsInv, WatchedIsOpened, Watched
<1>3. CASE Terminate
  <2>1. row'.state = "Exited"
    BY <1>3 DEF ReportsInv, Terminate, TypeOK, Row
  <2> QED BY <1>3, <2>1
          DEF ReportsInv, Terminate, WatchedIsOpened, Watched,
              RecordsAreOpened, ExitsSeeNothing
<1>4. CASE Draw \/ AgentEnds
  BY <1>4 DEF ReportsInv, Draw, AgentEnds, WatchedIsOpened, Watched,
              RecordsAreOpened, ExitsSeeNothing
<1> QED BY <1>1, <1>2, <1>3, <1>4

LEMMA ReportsOfPoll ==
  ASSUME ReportsInv, NEW w \in Workers, Poll(w)
  PROVE  WatchedIsOpened' /\ RecordsAreOpened' /\ ExitsSeeNothing'
<1>1. row' = row /\ opens' = opens /\ w \in Threads /\ opens \in Nat
  BY OpensIsNat, WorkersAreThreads
  DEF ReportsInv, Poll, PollFails, PollNothing, PollGone, PollPane
<1>2. \/ UNCHANGED frame
      \/ Send(w, "exited", Blank)
      \/ \E kind \in {"attached", "output"} : \E seen : Send(w, kind, seen)
  BY DEF Poll, PollFails, PollNothing, PollGone, PollPane
<1>3. RecordsAreOpened' /\ ExitsSeeNothing'
  <2>1. CASE UNCHANGED frame
    BY <1>1, <2>1 DEF ReportsInv, RecordsAreOpened, ExitsSeeNothing
  <2>2. ASSUME NEW kind, NEW seen, Send(w, kind, seen),
               kind = "exited" => seen = Blank
        PROVE  RecordsAreOpened' /\ ExitsSeeNothing'
    <3> DEFINE f == [pc |-> "apply", record |-> None,
                     signal |-> [kind |-> kind, mux |-> row.mux, seen |-> seen]]
    <3>1. frame' = [frame EXCEPT ![w] = f]
      BY <2>2 DEF Send
    <3>2. FrameOpened(f, opens')
      BY <2>2 DEF FrameOpened
    <3> HIDE DEF f
    <3> QED BY <1>1, <3>1, <3>2, FramesOpened
  <2> QED BY <1>2, <2>1, <2>2
<1> QED BY <1>1, <1>3 DEF ReportsInv, WatchedIsOpened, Watched

LEMMA ReportsOfApply ==
  ASSUME ReportsInv, NEW w \in Workers, Apply(w)
  PROVE  WatchedIsOpened' /\ RecordsAreOpened' /\ ExitsSeeNothing'
<1>1. row' = row /\ opens' = opens /\ w \in Threads /\ opens \in Nat
  BY OpensIsNat, WorkersAreThreads DEF ReportsInv, Apply
<1>2. ASSUME NEW f, frame' = [frame EXCEPT ![w] = f], FrameOpened(f, opens)
      PROVE  RecordsAreOpened' /\ ExitsSeeNothing'
  BY <1>1, <1>2, FramesOpened
<1>3. FrameOpened(IdleFrame, opens)
  BY DEF FrameOpened, IdleFrame
<1>4. ASSUME Watched(row), NEW kind, NEW seen, NEW m
      PROVE  FrameOpened(Applied(row, kind, seen, m), opens)
  BY <1>4, AppliedKeepsMux DEF ReportsInv, WatchedIsOpened, FrameOpened
<1>5. RecordsAreOpened' /\ ExitsSeeNothing'
  <2> DEFINE signal == frame[w].signal
             again == /\ Watched(row) /\ LiveMux(signal.mux)
                      /\ signal.kind # "exited" /\ signal.seen.tail = <<>>
             seen(failed) ==
               IF again THEN [CapturePane(FALSE, failed) EXCEPT
                                !.title = signal.seen.title]
               ELSE signal.seen
  <2>1. PICK failed \in BOOLEAN :
          frame' = [frame EXCEPT ![w] =
                      IF ~Watched(row) THEN IdleFrame
                      ELSE Applied(row, signal.kind, seen(failed), signal.mux)]
    BY DEF Apply, MayFail
  <2> HIDE DEF signal, seen
  <2>2. CASE ~Watched(row)
    BY <1>2, <1>3, <2>1, <2>2
  <2>3. CASE Watched(row)
    <3> DEFINE f == Applied(row, signal.kind, seen(failed), signal.mux)
    <3>1. FrameOpened(f, opens) /\ frame' = [frame EXCEPT ![w] = f]
      BY <1>4, <2>1, <2>3
    <3> HIDE DEF f
    <3> QED BY <1>2, <3>1
  <2> QED BY <2>2, <2>3
<1> QED BY <1>1, <1>5 DEF ReportsInv, WatchedIsOpened, Watched

LEMMA ReportsOfWrite ==
  ASSUME ReportsInv, NEW w \in Threads, Write(w)
  PROVE  WatchedIsOpened' /\ RecordsAreOpened' /\ ExitsSeeNothing'
<1>1. row' \in {row, frame[w].record} /\ opens' = opens /\ opens \in Nat
  BY OpensIsNat DEF ReportsInv, Write
<1>2. frame[w].record.mux \in 1..opens
  BY DEF ReportsInv, RecordsAreOpened, Write
<1>3. WatchedIsOpened'
  BY <1>1, <1>2 DEF ReportsInv, WatchedIsOpened, Watched
<1>4. /\ frame' = [frame EXCEPT ![w] = IdleFrame]
      /\ FrameOpened(IdleFrame, opens')
  BY DEF Write, IdleFrame, FrameOpened
<1> HIDE DEF IdleFrame
<1>5. RecordsAreOpened' /\ ExitsSeeNothing'
  BY <1>1, <1>4, FramesOpened
<1> QED BY <1>3, <1>5

LEMMA ReportsOfTick ==
  ASSUME ReportsInv, Tick
  PROVE  WatchedIsOpened' /\ RecordsAreOpened' /\ ExitsSeeNothing'
<1>1. row'.state = row.state /\ row'.mux = row.mux
  BY DEF Tick, ReportsInv, TypeOK, Row
<1> QED BY <1>1 DEF Tick, ReportsInv, WatchedIsOpened, Watched,
                    RecordsAreOpened, ExitsSeeNothing

LEMMA ReportsInvariant == Spec => []ReportsInv
<1>1. Init => ReportsInv
  BY InitType, WorkersAreThreads
  DEF Init, ReportsInv, WatchedIsOpened, Watched, RecordsAreOpened,
      ExitsSeeNothing, IdleFrame
<1>2. ReportsInv /\ [Next]_vars => ReportsInv'
  <2> SUFFICES ASSUME ReportsInv, [Next]_vars PROVE ReportsInv'
    OBVIOUS
  <2>1. TypeOK'
    BY StepType DEF ReportsInv
  <2>2. CASE UNCHANGED vars
    BY <2>1, <2>2 DEF ReportsInv, WatchedIsOpened, Watched, RecordsAreOpened,
                      ExitsSeeNothing, vars
  <2>3. CASE Next
    <3>1. WatchedIsOpened' /\ RecordsAreOpened' /\ ExitsSeeNothing'
      BY <2>3, ReportsOfUI, ReportsOfPoll, ReportsOfApply, ReportsOfWrite,
         ReportsOfTick DEF Next
    <3> QED BY <2>1, <3>1 DEF ReportsInv
  <2> QED BY <2>2, <2>3
<1> QED BY <1>1, <1>2, PTL DEF Spec

(* A row that says its agent runs names a tmux session that was opened,    *)
(* whichever of the late writes of two workers and the UI was the last.    *)
THEOREM WatchedRowsWereOpened == Spec => []WatchedIsOpened
<1>1. ReportsInv => WatchedIsOpened
  BY DEF ReportsInv
<1> QED BY <1>1, ReportsInvariant, PTL

-----------------------------------------------------------------------------
(* What an exit report meets                                               *)

LEMMA BlankSaysNothing ==
  ASSUME provider \in Providers
  PROVE  Read(Blank).says = {}
<1>1. Read(Blank) = Reading(Hints[provider], <<>>)
  BY DEF Read, Readings, Blank
<1>2. \A n : Recent(<<>>, n) = {}
  BY DEF Recent, Kept
<1>3. \A k, n : ~Says(<<>>, k, n)
  BY <1>2 DEF Says
<1> QED BY <1>1, <1>3 DEF Reading

(* Of the rules, only the hold of recent input can apply to an exit report *)
(* that sees nothing.                                                      *)
LEMMA ExitMeetsHolds ==
  ASSUME TypeOK, NEW r, ~HoldsRecent(r)
  PROVE  ApplySignal("exited", r, Blank) = Status("Exited", "Tmux", "gone", 0)
<1>1. provider \in Providers
  BY DEF TypeOK
<1>2. None \notin H.titles /\ None \notin Kinds
  BY <1>1, HintsTyped, NoneAssumption
<1>3. ASSUME NEW i \in 1..10
      PROVE  ~Overrides("exited", r, Blank)[i].when
  <2>1. Blank.title = None
    BY DEF Blank
  <2>2. Read(Blank).says = {}
    BY <1>1, BlankSaysNothing
  <2>3. None \notin {"approval", "prompt", "active", "waiting"}
    BY <1>2 DEF Kinds
  <2> DEFINE titled == IF Blank.title \in H.titles THEN Blank.title ELSE None
  <2>4. titled = None
    BY <2>1
  <2>5. /\ ~Overrides("exited", r, Blank)[1].when
        /\ ~Overrides("exited", r, Blank)[2].when
        /\ ~Overrides("exited", r, Blank)[3].when
        /\ ~Overrides("exited", r, Blank)[9].when
    BY <2>3, <2>4 DEF Overrides
  <2>6. /\ ~Overrides("exited", r, Blank)[4].when
        /\ ~Overrides("exited", r, Blank)[6].when
    BY DEF Overrides
  <2>7. /\ ~Overrides("exited", r, Blank)[5].when
        /\ ~Overrides("exited", r, Blank)[7].when
        /\ ~Overrides("exited", r, Blank)[8].when
        /\ ~Overrides("exited", r, Blank)[10].when
    BY <2>2 DEF Overrides
  <2> QED BY <2>5, <2>6, <2>7
<1>4. Base("exited", r, Blank) = Status("Exited", "Tmux", "gone", 0)
  BY DEF Base
<1> QED BY <1>3, <1>4, AppliesBaseOrRule

(* A report that a session's tmux session is gone closes its row, unless   *)
(* what the user or a busy provider did in the last seconds is held: no    *)
(* title, pattern or tail seen earlier stands in its way.                  *)
THEOREM ExitReportsClose == Spec => ExitsAreTaken
<1>1. ReportsInv /\ [Next]_vars => \A w \in Workers : ExitIsTaken(w)
  <2> SUFFICES ASSUME ReportsInv, NEW w \in Workers, Apply(w),
                      frame[w].signal.kind = "exited", Watched(row),
                      ~HoldsRecent(row)
               PROVE  /\ frame'[w].pc = "write"
                      /\ frame'[w].record.state = "Exited"
                      /\ frame'[w].record.mux = row.mux
    BY DEF ExitIsTaken
  <2>1. w \in Threads /\ frame[w].signal.seen = Blank
    BY WorkersAreThreads DEF ReportsInv, ExitsSeeNothing, Apply
  <2> DEFINE m == frame[w].signal.mux
  <2>2. frame' = [frame EXCEPT ![w] = Applied(row, "exited", Blank, m)]
    BY <2>1 DEF Apply
  <2>3. frame'[w] = Applied(row, "exited", Blank, m)
    BY <2>1, <2>2 DEF ReportsInv, TypeOK
  <2> DEFINE status == ApplySignal("exited", row, Blank)
  <2>4. status = Status("Exited", "Tmux", "gone", 0)
    BY ExitMeetsHolds DEF ReportsInv
  <2>5. Changed(row, status, 0)
    BY <2>4 DEF Changed, StatusOf, Status, Watched
  <2>6. frame'[w] = [pc |-> "write", signal |-> NoSignal,
                     record |-> Stamped(row, status, 0)]
    BY <2>3, <2>5 DEF Applied
  <2> QED BY <2>4, <2>6 DEF Stamped, Status
<1> QED BY <1>1, ReportsInvariant, PTL DEF Spec, ExitsAreTaken


=============================================================================
