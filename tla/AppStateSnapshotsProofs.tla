----------------------- MODULE AppStateSnapshotsProofs -----------------------
(***************************************************************************)
(* AppStateSnapshots for any number of sessions, names, actions and        *)
(* failures: the types, that no answer takes back a user's decision, and   *)
(* that no refresh he asked for is lost.                                   *)
(***************************************************************************)
EXTENDS AppStateSnapshots, TLAPS

USE DEF Workers

-----------------------------------------------------------------------------
(* Types                                                                   *)

(* A record of the right type keeps it when its session is closed.         *)
LEMMA ExitedRow ==
  ASSUME NEW rec \in Row
  PROVE  /\ ExitedOf(rec) \in Row
         /\ IsExited(ExitedOf(rec))
         /\ IsExited(rec) => ExitedOf(rec) = rec
         /\ ~IsExited(rec) <=> IsLive(rec)
  BY NoRowAssumption DEF ExitedOf, Row, IsExited, IsLive

LEMMA AskedType ==
  ASSUME NEW v \in Nat
  PROVE  /\ Asked(v) \in Job /\ IdleJob \in Job
         /\ Asked(v).pc = "list" /\ Asked(v).version = v
         /\ IdleJob.pc = "idle" /\ IdleJob.version = 0
  BY DEF Asked, IdleJob, Job, NoRows, Rows

LEMMA PolledType ==
  ASSUME version \in Nat,
         NEW rows, NEW jobs \in [Workers -> Job]
  PROVE  /\ Polled(rows, jobs) \in [Workers -> Job]
         /\ Polled(rows, jobs)["refresh"] = jobs["refresh"]
         /\ Polled(rows, jobs)["monitor"] \in {jobs["monitor"], Asked(version)}
  BY AskedType DEF Polled

LEMMA StillSaidType ==
  ASSUME TypeOK, NEW rows, NEW alive
  PROVE  StillSaid(rows, alive) \in [Sessions -> Verdicts]
  BY DEF StillSaid, TypeOK, Verdicts

LEMMA SelfRefreshType ==
  ASSUME NEW rows \in Rows, NEW alive
  PROVE  SelfRefresh(rows, alive) \subseteq Rows
<1> SUFFICES ASSUME NEW ended \in SUBSET { s \in Sessions \ alive : IsLive(rows[s]) }
             PROVE  [s \in Sessions |-> IF s \in ended THEN ExitedOf(rows[s])
                                                       ELSE rows[s]] \in Rows
  BY DEF SelfRefresh
<1> QED
  BY ExitedRow DEF Rows, IsLive

(* The table and the record lists stay of their type in every step.        *)
LEMMA TypeInit == Init => TypeOK
<1> SUFFICES ASSUME Init PROVE TypeOK
  OBVIOUS
<1>1. store \in Rows
  BY AliasAssumption DEF Init, Rows, Row
<1>2. job \in [Workers -> Job]
  BY AskedType DEF Init
<1>3. shown \in Rows
  BY DEF Init, NoRows, Rows
<1>4. actions \in 0..MaxActions /\ faults \in 0..MaxFaults
  BY LimitAssumption DEF Init
<1> QED
  BY <1>1, <1>2, <1>3, <1>4 DEF Init, TypeOK, Verdicts

LEMMA TypeUser ==
  ASSUME TypeOK, UserAction
  PROVE  TypeOK'
<1>a. Act => actions' \in 0..MaxActions
  BY LimitAssumption DEF TypeOK, Act
<1>f. Fault => faults' \in 0..MaxFaults
  BY LimitAssumption DEF TypeOK, Fault
<1>t. ASSUME NEW s \in Sessions, NEW rec \in Row, NEW v \in Verdicts,
             Touch(s, rec, v)
      PROVE  /\ store' \in Rows /\ shown' \in Rows /\ version' \in Nat
             /\ verdict' \in [Sessions -> Verdicts]
             /\ due' \in BOOLEAN /\ asked' \in BOOLEAN
  BY <1>t DEF Touch, TypeOK, Rows
<1>r. ASSUME NEW ids, NEW hidden, Remove(ids, hidden)
      PROVE  /\ store' \in Rows /\ shown' \in Rows /\ version' \in Nat
             /\ verdict' \in [Sessions -> Verdicts]
  <2>1. store' \in Rows /\ shown' \in Rows
    BY <1>r DEF Remove, TypeOK, Rows, Without
  <2>2. verdict' \in [Sessions -> Verdicts]
    BY <1>r DEF Remove, TypeOK, Verdicts
  <2> QED
    BY <1>r, <2>1, <2>2 DEF Remove, TypeOK
<1>n. NewRow \in Row
  BY AliasAssumption DEF NewRow, Row
<1>e. ASSUME NEW s \in Sessions, store[s] # None
      PROVE  [store EXCEPT ![s] = ExitedOf(@)] \in Rows
  BY <1>e, ExitedRow DEF TypeOK, Rows
<1>1. ASSUME NEW s \in Sessions, Launch(s) PROVE TypeOK'
  BY <1>1, <1>a, <1>t, <1>n DEF Launch, TypeOK, Verdicts
<1>2. ASSUME NEW s \in Sessions, Resume(s) PROVE TypeOK'
  <2>1. [store[s] EXCEPT !.state = "Live"] \in Row
    BY <1>2 DEF Resume, IsExited, TypeOK, Rows, Row
  <2> QED
    BY <1>2, <1>a, <1>t, <2>1 DEF Resume, TypeOK, Verdicts
<1>3. ASSUME NEW s \in Sessions, Terminate(s) PROVE TypeOK'
  <2>1. ExitedOf(store[s]) \in Row
    BY <1>3, ExitedRow DEF Terminate, TypeOK, Rows
  <2>2. CASE Touch(s, ExitedOf(store[s]), "ended") /\ UNCHANGED faults
    BY <1>3, <1>a, <1>t, <2>1, <2>2 DEF Terminate, TypeOK, Verdicts
  <2>3. CASE /\ Fault
             /\ verdict' = StillSaid(store, agents')
             /\ UNCHANGED <<store, shown, version, due, asked>>
    BY <1>3, <1>a, <1>f, StillSaidType, <2>3 DEF Terminate, TypeOK
  <2> QED
    BY <1>3, <2>2, <2>3 DEF Terminate
<1>4. ASSUME NEW s \in Sessions, NEW a \in Aliases, Rename(s, a) PROVE TypeOK'
  <2>1. store' \in Rows /\ shown' \in Rows
    BY <1>4 DEF Rename, TypeOK, Rows, Row
  <2> QED
    BY <1>4, <1>a, <2>1 DEF Rename, TypeOK
<1>5. ASSUME NEW ids \in SUBSET Sessions, DeleteResume(ids) PROVE TypeOK'
  BY <1>5, <1>a, <1>r DEF DeleteResume, TypeOK
<1>6. CASE ClearAll
  BY <1>6, <1>a, <1>r DEF ClearAll, TypeOK
<1>7. CASE Reselect
  BY <1>7, <1>a DEF Reselect, TypeOK
<1>8. CASE CheckActive
  <2>1. store' \in Rows
    BY <1>8, SelfRefreshType DEF CheckActive, TypeOK
  <2>2. verdict' \in [Sessions -> Verdicts]
    BY <1>8, StillSaidType DEF CheckActive
  <2> QED
    BY <1>8, <1>a, <2>1, <2>2 DEF CheckActive, TypeOK
<1>9. CASE RefreshKey
  <2>1. job' \in [Workers -> Job]
    BY <1>9, AskedType DEF RefreshKey, StartRefresh, TypeOK
  <2> QED
    BY <1>9, <1>a, <2>1 DEF RefreshKey, TypeOK
<1>10. ASSUME NEW s \in Sessions, NEW t \in Sessions, Relaunch(s, t)
       PROVE  TypeOK'
  <2>1. PICK rows \in SelfRefresh([store EXCEPT ![s] = ExitedOf(@)], agents \ {s}) :
          store' = [rows EXCEPT ![t] = NewRow]
    BY <1>10 DEF Relaunch
  <2>2. rows \in Rows
    BY <1>10, <1>e, <2>1, SelfRefreshType DEF Relaunch
  <2>3. store' \in Rows
    BY <1>n, <2>1, <2>2 DEF Rows
  <2>4. verdict' \in [Sessions -> Verdicts]
    BY <1>10, StillSaidType DEF Relaunch, Verdicts
  <2> QED
    <3>1. agents' \subseteq Sessions /\ born' \subseteq Sessions
      BY <1>10 DEF Relaunch, TypeOK
    <3>2. /\ version' \in Nat /\ due' \in BOOLEAN /\ asked' \in BOOLEAN
          /\ job' = job /\ faults' = faults /\ shown' = store'
      BY <1>10 DEF Relaunch, TypeOK
    <3>3. actions' \in 0..MaxActions
      BY <1>10, <1>a DEF Relaunch
    <3> QED
      BY <2>3, <2>4, <3>1, <3>2, <3>3 DEF TypeOK
<1>11. ASSUME NEW s \in Sessions, RelaunchFails(s) PROVE TypeOK'
  <2>1. store' \in Rows
    BY <1>11, <1>e, SelfRefreshType DEF RelaunchFails
  <2>2. verdict' \in [Sessions -> Verdicts]
    BY <1>11, StillSaidType DEF RelaunchFails
  <2> QED
    BY <1>11, <1>a, <2>1, <2>2 DEF RelaunchFails, TypeOK
<1>12. ASSUME NEW gone \in SUBSET Sessions, Reload(gone) PROVE TypeOK'
  <2>1. PICK rows \in SelfRefresh(store, agents) : store' = Without(rows, gone)
    BY <1>12 DEF Reload
  <2>2. rows \in Rows
    BY <2>1, SelfRefreshType DEF TypeOK
  <2>3. store' \in Rows
    BY <2>1, <2>2 DEF Rows, Without
  <2>4. verdict' \in [Sessions -> Verdicts]
    BY <1>12, StillSaidType DEF Reload, Verdicts
  <2>5. job' \in [Workers -> Job]
    BY <1>12, PolledType DEF Reload, TypeOK
  <2> QED
    BY <1>12, <1>a, <2>3, <2>4, <2>5 DEF Reload, TypeOK
<1> QED
  BY <1>1, <1>2, <1>3, <1>4, <1>5, <1>6, <1>7, <1>8, <1>9, <1>10, <1>11, <1>12
  DEF UserAction

(* What a worker reads of a session it has listed as live.                 *)
LEMMA ReadType ==
  ASSUME TypeOK, NEW w \in Workers, NEW s \in Sessions, IsLive(job[w].list[s]),
         NEW read, read = IF store[s] = None THEN job[w].list[s] ELSE store[s]
  PROVE  /\ read \in Row
         /\ (IF s \in agents THEN read ELSE ExitedOf(read)) \in Row
<1>1. job[w].list[s] \in Row
  BY DEF TypeOK, Job, Rows, IsLive
<1>2. store[s] # None => store[s] \in Row
  BY DEF TypeOK, Rows
<1> QED
  BY <1>1, <1>2, ExitedRow

LEMMA TypeWorker ==
  ASSUME TypeOK, WorkerStep
  PROVE  TypeOK'
<1>f. Fault => faults' \in 0..MaxFaults
  BY LimitAssumption DEF TypeOK, Fault
<1>1. ASSUME NEW w \in Workers, List(w) PROVE TypeOK'
  <2>1. job' \in [Workers -> Job]
    BY <1>1 DEF List, TypeOK, Job
  <2> QED
    BY <1>1, <1>f, <2>1 DEF List, TypeOK
<1>2. ASSUME NEW w \in Workers, Resolved(w) PROVE TypeOK'
  <2>1. job' \in [Workers -> Job]
    BY <1>2 DEF Resolved, TypeOK, Job
  <2> QED
    BY <1>2, <2>1 DEF Resolved, TypeOK
<1>3. ASSUME NEW w \in Workers, Return(w) PROVE TypeOK'
  <2>1. job' \in [Workers -> Job]
    BY <1>3 DEF Return, TypeOK, Job
  <2> QED
    BY <1>3, <2>1 DEF Return, TypeOK
<1>4. ASSUME NEW w \in Workers, NEW s \in Sessions, WriteBack(w, s)
      PROVE  TypeOK'
  <2>1. store' \in Rows
    BY <1>4 DEF WriteBack, TypeOK, Rows, Job
  <2>2. verdict' \in [Sessions -> Verdicts]
    BY <1>4, StillSaidType DEF WriteBack
  <2> QED
    BY <1>4, <2>1, <2>2 DEF WriteBack, TypeOK
<1>5. ASSUME NEW w \in Workers, NEW s \in Sessions, Observe(w, s)
      PROVE  TypeOK'
  <2> DEFINE read == IF store[s] = None THEN job[w].list[s] ELSE store[s]
             rec  == IF s \in agents THEN read ELSE ExitedOf(read)
  <2>1. rec \in Row
    BY <1>5, ReadType DEF Observe
  <2>2. job' = [job EXCEPT ![w].list[s] = rec]
    BY <1>5 DEF Observe
  <2>3. job' \in [Workers -> Job]
    <3> HIDE DEF rec
    <3> QED BY <2>1, <2>2 DEF TypeOK, Job, Rows
  <2>4. store' = store \/ store' = [store EXCEPT ![s] = rec]
    BY <1>5 DEF Observe
  <2>5. store' \in Rows
    <3> HIDE DEF rec
    <3> QED BY <2>1, <2>4 DEF TypeOK, Rows
  <2>6. verdict' = verdict \/ verdict' = StillSaid(store', agents)
    BY <1>5 DEF Observe
  <2>7. verdict' \in [Sessions -> Verdicts]
    BY <2>6, StillSaidType DEF TypeOK
  <2> QED
    BY <1>5, <2>3, <2>5, <2>7 DEF Observe, TypeOK
<1>6. ASSUME NEW w \in Workers, NEW s \in Sessions, ObserveUnsaved(w, s)
      PROVE  TypeOK'
  <2> DEFINE read == IF store[s] = None THEN job[w].list[s] ELSE store[s]
             rec  == IF s \in agents THEN read ELSE ExitedOf(read)
  <2>1. rec \in Row
    BY <1>6, ReadType DEF ObserveUnsaved
  <2>2. job' = [job EXCEPT ![w].list[s] = rec, ![w].unsaved = TRUE]
    BY <1>6 DEF ObserveUnsaved
  <2>3. job' \in [Workers -> Job]
    <3> HIDE DEF rec
    <3> QED BY <2>1, <2>2 DEF TypeOK, Job, Rows
  <2> QED
    BY <1>6, <1>f, <2>3 DEF ObserveUnsaved, TypeOK
<1> QED
  BY <1>1, <1>2, <1>3, <1>4, <1>5, <1>6 DEF WorkerStep

LEMMA TypeNext ==
  ASSUME TypeOK, [Next]_vars
  PROVE  TypeOK'
<1>1. CASE UserAction
  BY <1>1, TypeUser
<1>2. CASE WorkerStep
  BY <1>2, TypeWorker
<1>3. ASSUME NEW s \in Sessions, AgentEnds(s) PROVE TypeOK'
  BY <1>3, StillSaidType DEF AgentEnds, TypeOK
<1>4. CASE RefreshDue
  <2>1. job' \in [Workers -> Job]
    BY <1>4, AskedType DEF RefreshDue, StartRefresh, TypeOK
  <2> QED
    BY <1>4, <2>1 DEF RefreshDue, TypeOK
<1>5. CASE MonitorTimer
  <2>1. job' \in [Workers -> Job]
    BY <1>5, PolledType DEF MonitorTimer, TypeOK
  <2> QED
    BY <1>5, <2>1 DEF MonitorTimer, TypeOK
<1>6. CASE RefreshFinished
  <2> DEFINE jobs == [job EXCEPT !["refresh"] = IdleJob]
  <2>1. jobs \in [Workers -> Job]
    BY AskedType DEF TypeOK
  <2>2. job["refresh"].list \in Rows
    BY DEF TypeOK, Job
  <2>3. job' = jobs \/ job' = Polled(job["refresh"].list, jobs)
    BY <1>6 DEF RefreshFinished
  <2>4. job' \in [Workers -> Job]
    <3> HIDE DEF jobs
    <3> QED BY <2>1, <2>3, PolledType DEF TypeOK
  <2>5. /\ shown' \in {shown, job["refresh"].list}
        /\ asked' \in {asked, FALSE} /\ due' \in {due, TRUE}
    BY <1>6 DEF RefreshFinished
  <2> QED
    BY <1>6, <2>2, <2>4, <2>5 DEF RefreshFinished, TypeOK
<1>7. CASE MonitorFinished
  <2>1. job' \in [Workers -> Job] /\ shown' \in Rows
    BY <1>7, AskedType DEF MonitorFinished, TypeOK, Job
  <2> QED
    BY <1>7, <2>1 DEF MonitorFinished, TypeOK
<1>8. CASE UNCHANGED vars
  BY <1>8 DEF vars, TypeOK
<1> QED
  BY <1>1, <1>2, <1>3, <1>4, <1>5, <1>6, <1>7, <1>8 DEF Next

(* Every variable keeps its type, for any number of sessions, names,       *)
(* actions and failures: a record in the table, on the screen or in the    *)
(* memory of a worker is always a whole one.                               *)
THEOREM SnapshotTypes == Spec => []TypeOK
  BY TypeInit, TypeNext, PTL DEF Spec

-----------------------------------------------------------------------------
(* The inductive invariant                                                 *)

(* A decision in force agrees with the table, and the agent of a session   *)
(* started is still there.                                                 *)
TableAgrees ==
  \A s \in Sessions : /\ Agrees(verdict[s], store[s])
                      /\ verdict[s] = "started" => s \in agents

Listed(w) ==
  job[w].pc \in {"resolve", "observe"} \/ (job[w].pc = "done" /\ ~job[w].error)

(* No answer is newer than the version, and the records of one that would  *)
(* still be shown agree with the decisions in force.                       *)
AnswersAgree ==
  \A w \in Workers :
    /\ job[w].version <= version
    /\ (Listed(w) /\ Current(w)) =>
         \A s \in Sessions : Agrees(verdict[s], job[w].list[s])

IInv == TypeOK /\ TableAgrees /\ AnswersAgree

LEMMA InvInit == Init => IInv
<1> SUFFICES ASSUME Init PROVE IInv
  OBVIOUS
<1>1. TypeOK
  BY TypeInit
<1>2. TableAgrees
  BY DEF Init, TableAgrees, Agrees
<1>3. AnswersAgree
  BY AskedType DEF Init, AnswersAgree, Listed
<1> QED
  BY <1>1, <1>2, <1>3 DEF IInv

(* A decision outlives a step, or is dropped; whatever agreed with it      *)
(* agrees with what is left of it.                                         *)
LEMMA StillSaidWeaker ==
  ASSUME NEW rows, NEW alive, NEW s \in Sessions
  PROVE  /\ StillSaid(rows, alive)[s] \in {verdict[s], "none"}
         /\ Agrees(StillSaid(rows, alive)[s], rows[s])
         /\ StillSaid(rows, alive)[s] = "started" => s \in alive
         /\ \A rec : Agrees(verdict[s], rec)
                      => Agrees(StillSaid(rows, alive)[s], rec)
  BY DEF StillSaid, Agrees

(* Steps that leave the answers alone and only drop decisions.             *)
LEMMA AnswersKept ==
  ASSUME TypeOK, AnswersAgree, job' = job, version' = version,
         \A s \in Sessions : verdict'[s] \in {verdict[s], "none"}
  PROVE  AnswersAgree'
  BY DEF AnswersAgree, Listed, Current, Agrees

(* After a new version no answer on its way will be shown.                 *)
LEMMA AnswersOutdated ==
  ASSUME TypeOK, AnswersAgree, version' = version + 1,
         \A w \in Workers : job'[w] \in {job[w], Asked(version)}
  PROVE  AnswersAgree'
<1>1. ASSUME NEW w \in Workers
      PROVE  job'[w].version \in Nat /\ job'[w].version <= version
  BY AskedType DEF AnswersAgree, TypeOK, Job
<1> QED
  BY <1>1 DEF AnswersAgree, TypeOK, Current

(* Steps that start a worker or drop an answer.                            *)
LEMMA AnswersReplaced ==
  ASSUME TypeOK, AnswersAgree, version' = version,
         \A s \in Sessions : verdict'[s] \in {verdict[s], "none"},
         \A w \in Workers : job'[w] \in {job[w], IdleJob, Asked(version)}
  PROVE  AnswersAgree'
<1> SUFFICES ASSUME NEW w \in Workers
             PROVE  /\ job'[w].version <= version
                    /\ (Listed(w)' /\ Current(w)') =>
                         \A s \in Sessions : Agrees(verdict'[s], job'[w].list[s])
  BY DEF AnswersAgree
<1>1. CASE job'[w] = job[w]
  BY <1>1 DEF AnswersAgree, Listed, Current, Agrees
<1>2. CASE job'[w] = IdleJob
  BY <1>2, AskedType DEF Listed, TypeOK
<1>3. CASE job'[w] = Asked(version)
  BY <1>3, AskedType DEF Listed, TypeOK
<1> QED
  BY <1>1, <1>2, <1>3

-----------------------------------------------------------------------------
(* User actions                                                            *)

(* What is shown keeps to the decisions a step leaves in force.            *)
Sticks(s) ==
  (verdict'[s] = verdict[s] /\ Agrees(verdict[s], shown[s]))
    => Agrees(verdict[s], shown'[s])

LEMMA TouchKeeps ==
  ASSUME IInv, NEW s \in Sessions, NEW rec, NEW v, Touch(s, rec, v),
         Agrees(v, rec), v = "started" => s \in agents',
         \A t \in Sessions \ {s} : t \in agents => t \in agents',
         job' = job
  PROVE  TableAgrees' /\ AnswersAgree' /\ \A t \in Sessions : Sticks(t)
<1>1. /\ store' = [store EXCEPT ![s] = rec] /\ shown' = [shown EXCEPT ![s] = rec]
      /\ verdict' = [verdict EXCEPT ![s] = v] /\ version' = version + 1
      /\ store \in Rows /\ shown \in Rows /\ verdict \in [Sessions -> Verdicts]
  BY DEF Touch, IInv, TypeOK
<1>2. TableAgrees'
  BY <1>1 DEF TableAgrees, IInv, Rows
<1>3. AnswersAgree'
  BY <1>1, AnswersOutdated DEF IInv
<1>4. \A t \in Sessions : Sticks(t)
  BY <1>1 DEF Sticks, Rows
<1> QED
  BY <1>2, <1>3, <1>4

LEMMA RemoveKeeps ==
  ASSUME IInv, NEW ids \in SUBSET Sessions, NEW hidden \in SUBSET Sessions,
         Remove(ids, hidden), UNCHANGED <<agents, job>>,
         \A s \in hidden \ ids : IsExited(shown[s]) /\ ~IsExited(store[s])
  PROVE  TableAgrees' /\ AnswersAgree' /\ \A s \in Sessions : Sticks(s)
<1>1. /\ version' = version + 1
      /\ \A s \in Sessions :
           /\ store'[s] = IF s \in ids THEN None ELSE store[s]
           /\ shown'[s] = IF s \in hidden THEN None ELSE shown[s]
           /\ verdict'[s] = IF s \in ids THEN "deleted" ELSE verdict[s]
  BY DEF Remove, Without
<1>2. TableAgrees'
  BY <1>1 DEF TableAgrees, IInv, Agrees
<1>3. AnswersAgree'
  BY <1>1, AnswersOutdated DEF IInv
<1>4. ASSUME NEW s \in Sessions PROVE Sticks(s)
  BY <1>1 DEF Sticks, Agrees, TableAgrees, IInv, IsExited, IsLive
<1> QED
  BY <1>2, <1>3, <1>4

LEMMA UserKeeps ==
  ASSUME IInv, UserAction
  PROVE  TableAgrees' /\ AnswersAgree' /\ \A s \in Sessions : Sticks(s)
<1>1. ASSUME NEW s \in Sessions, Launch(s)
      PROVE  TableAgrees' /\ AnswersAgree' /\ \A t \in Sessions : Sticks(t)
  <2>1. Agrees("started", NewRow)
    BY AliasAssumption, NoRowAssumption DEF Agrees, NewRow, IsLive, Row
  <2> QED
    BY <1>1, <2>1, TouchKeeps DEF Launch
<1>2. ASSUME NEW s \in Sessions, Resume(s)
      PROVE  TableAgrees' /\ AnswersAgree' /\ \A t \in Sessions : Sticks(t)
  <2>1. Agrees("started", [store[s] EXCEPT !.state = "Live"])
    BY <1>2, NoRowAssumption
    DEF Resume, Agrees, IsLive, IsExited, IInv, TypeOK, Rows, Row
  <2> QED
    BY <1>2, <2>1, TouchKeeps DEF Resume
<1>3. ASSUME NEW s \in Sessions, Terminate(s)
      PROVE  TableAgrees' /\ AnswersAgree' /\ \A t \in Sessions : Sticks(t)
  <2>1. CASE Touch(s, ExitedOf(store[s]), "ended")
    <3>1. Agrees("ended", ExitedOf(store[s]))
      BY <1>3, ExitedRow DEF Terminate, Agrees, IInv, TypeOK, Rows
    <3> QED
      BY <1>3, <2>1, <3>1, TouchKeeps DEF Terminate
  <2>2. CASE /\ verdict' = StillSaid(store, agents')
             /\ UNCHANGED <<store, shown, version>>
    <3>1. TableAgrees'
      BY <2>2, StillSaidWeaker DEF TableAgrees
    <3>2. AnswersAgree'
      BY <1>3, <2>2, StillSaidWeaker, AnswersKept DEF Terminate, IInv
    <3> QED
      BY <2>2, <3>1, <3>2 DEF Sticks
  <2> QED
    BY <1>3, <2>1, <2>2 DEF Terminate
<1>4. ASSUME NEW s \in Sessions, NEW a \in Aliases, Rename(s, a)
      PROVE  TableAgrees' /\ AnswersAgree' /\ \A t \in Sessions : Sticks(t)
  <2>1. \A t \in Sessions, v \in Verdicts :
          /\ Agrees(v, store'[t]) <=> Agrees(v, store[t])
          /\ Agrees(v, shown'[t]) <=> Agrees(v, shown[t])
    BY <1>4, NoRowAssumption
    DEF Rename, Agrees, IsLive, IsExited, IInv, TypeOK, Rows, Row
  <2>2. TableAgrees'
    BY <1>4, <2>1 DEF Rename, TableAgrees, IInv, TypeOK
  <2>3. AnswersAgree'
    BY <1>4 DEF Rename, AnswersAgree, IInv, Listed, Current
  <2> QED
    BY <1>4, <2>1, <2>2, <2>3 DEF Sticks, IInv, TypeOK
<1>5. ASSUME NEW ids \in SUBSET Sessions, DeleteResume(ids)
      PROVE  TableAgrees' /\ AnswersAgree' /\ \A t \in Sessions : Sticks(t)
  <2> DEFINE stored == { s \in ids : store[s] # None }
  <2>1. stored \in SUBSET Sessions /\ Remove(stored, ids)
    BY <1>5 DEF DeleteResume
  <2>2. \A s \in ids \ stored : IsExited(shown[s]) /\ ~IsExited(store[s])
    BY <1>5 DEF DeleteResume, IsExited
  <2> HIDE DEF stored
  <2> QED
    BY <1>5, <2>1, <2>2, RemoveKeeps DEF DeleteResume
<1>6. CASE ClearAll
  <2> DEFINE closed == { s \in Sessions : IsExited(store[s]) }
             cards  == { s \in Sessions : IsExited(shown[s]) }
  <2>1. /\ closed \in SUBSET Sessions /\ cards \in SUBSET Sessions
        /\ Remove(closed, cards)
        /\ \A s \in cards \ closed : IsExited(shown[s]) /\ ~IsExited(store[s])
    BY <1>6 DEF ClearAll
  <2> HIDE DEF closed, cards
  <2> QED
    BY <1>6, <2>1, RemoveKeeps DEF ClearAll
<1>7. CASE Reselect
  BY <1>7, AnswersOutdated DEF Reselect, IInv, TableAgrees, Sticks
<1>8. CASE CheckActive
  <2>1. shown' = store' /\ verdict' = StillSaid(store', agents)
    BY <1>8 DEF CheckActive
  <2>2. TableAgrees' /\ \A s \in Sessions : Sticks(s)
    BY <1>8, <2>1, StillSaidWeaker DEF CheckActive, TableAgrees, Sticks
  <2>3. AnswersAgree'
    BY <1>8, <2>1, StillSaidWeaker, AnswersKept, AnswersOutdated
    DEF CheckActive, IInv
  <2> QED
    BY <2>2, <2>3
<1>9. CASE RefreshKey
  <2>1. \A w \in Workers : job'[w] \in {job[w], IdleJob, Asked(version)}
    BY <1>9 DEF RefreshKey, StartRefresh, IInv, TypeOK
  <2> QED
    BY <1>9, <2>1, AnswersReplaced DEF RefreshKey, IInv, TableAgrees, Sticks
<1>10. ASSUME NEW s \in Sessions, NEW t \in Sessions, Relaunch(s, t)
       PROVE  TableAgrees' /\ AnswersAgree' /\ \A u \in Sessions : Sticks(u)
  <2> DEFINE said == StillSaid(store', agents')
  <2>1. PICK rows \in SelfRefresh([store EXCEPT ![s] = ExitedOf(@)], agents \ {s}) :
          store' = [rows EXCEPT ![t] = NewRow]
    BY <1>10 DEF Relaunch
  <2>2. /\ s # t /\ store[s] \in Row
        /\ [store EXCEPT ![s] = ExitedOf(@)] \in Rows
        /\ IsExited([store EXCEPT ![s] = ExitedOf(@)][s])
    BY <1>10, ExitedRow DEF Relaunch, IInv, TypeOK, Rows
  <2>3. rows \in Rows
    BY <2>1, <2>2, SelfRefreshType
  <2>4. IsExited(rows[s])
    <3> DEFINE before == [store EXCEPT ![s] = ExitedOf(@)]
    <3>1. ~IsLive(before[s])
      BY <2>2 DEF IsExited, IsLive
    <3> HIDE DEF before
    <3>2. PICK ended \in SUBSET { x \in Sessions \ (agents \ {s}) : IsLive(before[x]) } :
            rows = [x \in Sessions |-> IF x \in ended THEN ExitedOf(before[x])
                                                      ELSE before[x]]
      BY <2>1 DEF SelfRefresh, before
    <3>3. rows[s] = before[s]
      BY <3>1, <3>2
    <3> QED
      BY <2>2, <3>3 DEF before
  <2>5. /\ Agrees("ended", store'[s])
        /\ Agrees("started", store'[t])
    BY <2>1, <2>2, <2>3, <2>4, AliasAssumption, NoRowAssumption
    DEF Agrees, NewRow, IsLive, Rows, Row
  <2>6. /\ verdict' = [said EXCEPT ![s] = "ended", ![t] = "started"]
        /\ said \in [Sessions -> Verdicts]
        /\ t \in agents' /\ shown' = store'
        /\ version' = version + 1 /\ job' = job
    BY <1>10, StillSaidType DEF Relaunch, IInv
  <2>7. \A u \in Sessions : /\ Agrees(said[u], store'[u])
                            /\ said[u] = "started" => u \in agents'
    BY StillSaidWeaker
  <2> HIDE DEF said
  <2>8. \A u \in Sessions : /\ Agrees(verdict'[u], store'[u])
                            /\ verdict'[u] = "started" => u \in agents'
    BY <2>2, <2>5, <2>6, <2>7
  <2>9. AnswersAgree'
    BY <2>6, AnswersOutdated DEF IInv
  <2> QED
    BY <2>6, <2>8, <2>9 DEF TableAgrees, Sticks
<1>11. ASSUME NEW s \in Sessions, RelaunchFails(s)
       PROVE  TableAgrees' /\ AnswersAgree' /\ \A u \in Sessions : Sticks(u)
  <2>1. /\ shown' = store' /\ verdict' = StillSaid(store', agents')
        /\ UNCHANGED <<version, job>>
    BY <1>11 DEF RelaunchFails
  <2>2. TableAgrees' /\ \A u \in Sessions : Sticks(u)
    BY <2>1, StillSaidWeaker DEF TableAgrees, Sticks
  <2>3. AnswersAgree'
    BY <2>1, StillSaidWeaker, AnswersKept DEF IInv
  <2> QED
    BY <2>2, <2>3
<1>12. ASSUME NEW gone \in SUBSET Sessions, Reload(gone)
       PROVE  TableAgrees' /\ AnswersAgree' /\ \A u \in Sessions : Sticks(u)
  <2>1. PICK rows \in SelfRefresh(store, agents) : store' = Without(rows, gone)
    BY <1>12 DEF Reload
  <2>2. /\ shown' = store' /\ UNCHANGED agents
        /\ \A u \in Sessions : verdict'[u] = IF u \in gone THEN "deleted"
                                              ELSE StillSaid(store', agents)[u]
        /\ \A u \in gone : store'[u] = None
    BY <1>12, <2>1 DEF Reload, Without
  <2>3. \A u \in Sessions : /\ Agrees(verdict'[u], store'[u])
                            /\ verdict'[u] = "started" => u \in agents
    BY <2>2, StillSaidWeaker DEF Agrees
  <2>4. \A w \in Workers : job'[w] \in {job[w], Asked(version)}
    BY <1>12, PolledType DEF Reload, IInv, TypeOK
  <2>5. ASSUME version' = version + 1 PROVE AnswersAgree'
    BY <2>4, <2>5, AnswersOutdated DEF IInv
  <2>6. ASSUME gone = {}, version' = version PROVE AnswersAgree'
    <3>1. \A u \in Sessions : verdict'[u] \in {verdict[u], "none"}
      BY <2>2, <2>6, StillSaidWeaker
    <3> QED
      BY <2>4, <2>6, <3>1, AnswersReplaced DEF IInv
  <2>7. AnswersAgree'
    BY <1>12, <2>5, <2>6 DEF Reload
  <2> QED
    BY <2>2, <2>3, <2>7 DEF TableAgrees, Sticks
<1> QED
  BY <1>1, <1>2, <1>3, <1>4, <1>5, <1>6, <1>7, <1>8, <1>9, <1>10, <1>11, <1>12
  DEF UserAction

-----------------------------------------------------------------------------
(* Workers                                                                 *)

(* A worker that observes a session it has listed: what it keeps agrees    *)
(* with the decision left in force.                                        *)
LEMMA ObservedAgrees ==
  ASSUME IInv, NEW w \in Workers, NEW s \in Sessions,
         IsLive(job[w].list[s]), Listed(w), Current(w),
         NEW read, read = IF store[s] = None THEN job[w].list[s] ELSE store[s],
         NEW rec, rec = IF s \in agents THEN read ELSE ExitedOf(read),
         ~IsExited(read) => Agrees(verdict'[s], rec),
         verdict'[s] \in {verdict[s], "none"}
  PROVE  Agrees(verdict'[s], rec)
<1>1. CASE IsExited(read)
  <2>1. read \in Row
    BY ReadType DEF IInv
  <2>2. IsExited(rec)
    BY <1>1, <2>1, ExitedRow
  <2>3. store[s] = read
    BY <1>1, <2>1, ExitedRow DEF IsLive, IsExited
  <2>4. verdict[s] \notin {"started", "deleted"}
    BY <1>1, <2>1, <2>3, ExitedRow
    DEF IInv, TableAgrees, Agrees, IsLive, IsExited
  <2> QED
    BY <2>2, <2>4 DEF Agrees
<1>2. CASE ~IsExited(read)
  BY <1>2
<1> QED
  BY <1>1, <1>2

(* One record of one worker changes, and decisions are only dropped.       *)
LEMMA AnswersObserved ==
  ASSUME IInv, NEW w \in Workers, NEW s \in Sessions, NEW rec,
         \A u \in Workers \ {w} : job'[u] = job[u],
         /\ job'[w].pc = job[w].pc /\ job'[w].version = job[w].version
         /\ job'[w].error = job[w].error
         /\ job'[w].list = [job[w].list EXCEPT ![s] = rec],
         version' = version,
         \A t \in Sessions : verdict'[t] \in {verdict[t], "none"},
         (Listed(w) /\ Current(w)) => Agrees(verdict'[s], rec)
  PROVE  AnswersAgree'
<1>1. job[w].list \in Rows
  BY DEF IInv, TypeOK, Job
<1>2. ASSUME NEW t \in Sessions, NEW r, Agrees(verdict[t], r)
      PROVE  Agrees(verdict'[t], r)
  BY <1>2 DEF Agrees
<1>3. ASSUME NEW u \in Workers \ {w}
      PROVE  /\ job'[u].version <= version'
             /\ (Listed(u)' /\ Current(u)') =>
                  \A t \in Sessions : Agrees(verdict'[t], job'[u].list[t])
  BY <1>2 DEF IInv, AnswersAgree, Listed, Current
<1>4. /\ job'[w].version <= version'
      /\ (Listed(w)' /\ Current(w)') =>
           \A t \in Sessions : Agrees(verdict'[t], job'[w].list[t])
  BY <1>1, <1>2 DEF IInv, AnswersAgree, Listed, Current, Rows
<1> QED
  BY <1>3, <1>4 DEF AnswersAgree

LEMMA WorkerKeeps ==
  ASSUME IInv, WorkerStep
  PROVE  TableAgrees' /\ AnswersAgree' /\ \A s \in Sessions : Sticks(s)
<1>0. UNCHANGED <<shown, version>>
  BY DEF WorkerStep, List, Resolved, Return, WriteBack, Observe, ObserveUnsaved
<1>1. \A s \in Sessions : Sticks(s)
  BY <1>0 DEF Sticks
<1>2. ASSUME NEW w \in Workers, List(w) PROVE TableAgrees' /\ AnswersAgree'
  <2>1. TableAgrees'
    BY <1>2 DEF List, IInv, TableAgrees
  <2>2. \A u \in Workers \ {w} : job'[u] = job[u]
    BY <1>2 DEF List, IInv, TypeOK
  <2>3. /\ job'[w].version = job[w].version
        /\ \/ job'[w].pc = "resolve" /\ job'[w].list = store
           \/ job'[w].pc = "done" /\ job'[w].error
    BY <1>2 DEF List, IInv, TypeOK, Job
  <2> QED
    BY <1>0, <1>2, <2>1, <2>2, <2>3
    DEF List, IInv, TableAgrees, AnswersAgree, Listed, Current
<1>3. ASSUME NEW w \in Workers, Resolved(w) PROVE TableAgrees' /\ AnswersAgree'
  <2>1. \A u \in Workers : /\ job'[u].version = job[u].version
                           /\ job'[u].list = job[u].list
                           /\ job'[u].error = job[u].error
                           /\ Listed(u)' = Listed(u)
    BY <1>3 DEF Resolved, IInv, TypeOK, Job, Listed
  <2> QED
    BY <1>0, <1>3, <2>1 DEF Resolved, IInv, TableAgrees, AnswersAgree, Current
<1>4. ASSUME NEW w \in Workers, Return(w) PROVE TableAgrees' /\ AnswersAgree'
  <2>1. TableAgrees'
    BY <1>4 DEF Return, IInv, TableAgrees
  <2>2. \A u \in Workers \ {w} : job'[u] = job[u]
    BY <1>4 DEF Return, IInv, TypeOK
  <2>3. /\ job'[w].version = job[w].version /\ Listed(w)
        /\ job'[w].list \in {job[w].list, store}
    BY <1>4 DEF Return, IInv, TypeOK, Job, Listed
  <2> QED
    BY <1>0, <1>4, <2>1, <2>2, <2>3
    DEF Return, IInv, TableAgrees, AnswersAgree, Listed, Current
<1>5. ASSUME NEW w \in Workers, NEW s \in Sessions, WriteBack(w, s)
      PROVE  TableAgrees' /\ AnswersAgree'
  <2>1. verdict' = StillSaid(store', agents) /\ UNCHANGED <<agents, job>>
    BY <1>5 DEF WriteBack
  <2> QED
    BY <1>0, <2>1, StillSaidWeaker, AnswersKept DEF TableAgrees, IInv
<1>6. ASSUME NEW w \in Workers, NEW s \in Sessions, Observe(w, s)
      PROVE  TableAgrees' /\ AnswersAgree'
  <2> DEFINE read == IF store[s] = None THEN job[w].list[s] ELSE store[s]
             rec  == IF s \in agents THEN read ELSE ExitedOf(read)
  <2>1. /\ UNCHANGED agents
        /\ \/ IsExited(read) /\ UNCHANGED <<store, verdict>>
           \/ /\ ~IsExited(read)
              /\ store' = [store EXCEPT ![s] = rec]
              /\ verdict' = StillSaid(store', agents)
    BY <1>6 DEF Observe
  <2>2. TableAgrees'
    <3> HIDE DEF read, rec
    <3> QED BY <2>1, StillSaidWeaker DEF TableAgrees, IInv
  <2>3. \A t \in Sessions : verdict'[t] \in {verdict[t], "none"}
    <3> HIDE DEF read, rec
    <3> QED BY <2>1, StillSaidWeaker
  <2>4. ~IsExited(read) => Agrees(verdict'[s], rec)
    <3> HIDE DEF read, rec
    <3> QED BY <2>1, StillSaidWeaker DEF IInv, TypeOK, Rows
  <2>5. (Listed(w) /\ Current(w)) => Agrees(verdict'[s], rec)
    BY <1>6, <2>3, <2>4, ObservedAgrees DEF Observe
  <2>6. job' = [job EXCEPT ![w].list[s] = rec]
    BY <1>6 DEF Observe
  <2>7. /\ \A u \in Workers \ {w} : job'[u] = job[u]
        /\ job'[w].pc = job[w].pc /\ job'[w].version = job[w].version
        /\ job'[w].error = job[w].error
        /\ job'[w].list = [job[w].list EXCEPT ![s] = rec]
    <3> HIDE DEF read, rec
    <3> QED BY <2>6 DEF IInv, TypeOK, Job
  <2>8. AnswersAgree'
    <3> HIDE DEF read, rec
    <3> QED BY <1>0, <2>3, <2>5, <2>7, AnswersObserved
  <2> QED
    BY <2>2, <2>8
<1>7. ASSUME NEW w \in Workers, NEW s \in Sessions, ObserveUnsaved(w, s)
      PROVE  TableAgrees' /\ AnswersAgree'
  <2> DEFINE read == IF store[s] = None THEN job[w].list[s] ELSE store[s]
             rec  == IF s \in agents THEN read ELSE ExitedOf(read)
  <2>1. UNCHANGED <<agents, store, verdict>>
    BY <1>7 DEF ObserveUnsaved
  <2>2. TableAgrees'
    BY <2>1 DEF TableAgrees, IInv
  <2>3. (Listed(w) /\ Current(w)) => Agrees(verdict[s], rec)
    <3> SUFFICES ASSUME Listed(w), Current(w) PROVE Agrees(verdict[s], rec)
      OBVIOUS
    <3>1. Agrees(verdict[s], job[w].list[s]) /\ Agrees(verdict[s], store[s])
      BY DEF IInv, AnswersAgree, TableAgrees
    <3>2. IsLive(job[w].list[s]) /\ ~IsExited(store[s])
      BY <1>7 DEF ObserveUnsaved
    <3>3. verdict[s] \notin {"ended", "deleted"}
      BY <3>1, <3>2 DEF Agrees, IsLive
    <3>4. verdict[s] = "started" => s \in agents /\ rec = store[s]
      BY <3>1 DEF Agrees, IInv, TableAgrees, IsLive
    <3> QED
      <4> HIDE DEF read, rec
      <4> QED BY <3>1, <3>3, <3>4 DEF Agrees
  <2>4. job' = [job EXCEPT ![w].list[s] = rec, ![w].unsaved = TRUE]
    BY <1>7 DEF ObserveUnsaved
  <2>5. /\ \A u \in Workers \ {w} : job'[u] = job[u]
        /\ job'[w].pc = job[w].pc /\ job'[w].version = job[w].version
        /\ job'[w].error = job[w].error
        /\ job'[w].list = [job[w].list EXCEPT ![s] = rec]
    <3> HIDE DEF read, rec
    <3> QED BY <2>4 DEF IInv, TypeOK, Job
  <2>6. AnswersAgree'
    <3> HIDE DEF read, rec
    <3> QED BY <1>0, <2>1, <2>3, <2>5, AnswersObserved
  <2> QED
    BY <2>2, <2>6
<1> QED
  BY <1>1, <1>2, <1>3, <1>4, <1>5, <1>6, <1>7 DEF WorkerStep

-----------------------------------------------------------------------------
(* Answers                                                                 *)

LEMMA FinishedKeeps ==
  ASSUME IInv, RefreshFinished \/ MonitorFinished
  PROVE  TableAgrees' /\ AnswersAgree' /\ \A s \in Sessions : Sticks(s)
<1>1. UNCHANGED <<store, agents, version, verdict>>
  BY DEF RefreshFinished, MonitorFinished
<1>2. TableAgrees'
  BY <1>1 DEF TableAgrees, IInv
<1>3. CASE RefreshFinished
  <2> DEFINE jobs == [job EXCEPT !["refresh"] = IdleJob]
  <2>1. \/ shown' = shown
        \/ /\ Current("refresh") /\ Listed("refresh")
           /\ shown' = job["refresh"].list
    BY <1>3 DEF RefreshFinished, Listed
  <2>2. job' = jobs \/ job' = Polled(job["refresh"].list, jobs)
    BY <1>3 DEF RefreshFinished
  <2>3. /\ jobs \in [Workers -> Job]
        /\ jobs["refresh"] = IdleJob /\ jobs["monitor"] = job["monitor"]
    BY AskedType DEF IInv, TypeOK
  <2>4. \A w \in Workers : job'[w] \in {job[w], IdleJob, Asked(version)}
    <3> HIDE DEF jobs
    <3> QED BY <2>2, <2>3, PolledType DEF IInv, TypeOK
  <2>5. AnswersAgree'
    BY <1>1, <2>4, AnswersReplaced DEF IInv
  <2>6. \A s \in Sessions : Sticks(s)
    BY <1>1, <2>1 DEF Sticks, IInv, AnswersAgree
  <2> QED
    BY <1>2, <2>5, <2>6
<1>4. CASE MonitorFinished
  <2>1. \/ shown' = shown
        \/ /\ Current("monitor") /\ Listed("monitor")
           /\ shown' = job["monitor"].list
    BY <1>4 DEF MonitorFinished, Listed
  <2>2. \A w \in Workers : job'[w] \in {job[w], IdleJob, Asked(version)}
    BY <1>4 DEF MonitorFinished, IInv, TypeOK
  <2>3. AnswersAgree'
    BY <1>1, <2>2, AnswersReplaced DEF IInv
  <2>4. \A s \in Sessions : Sticks(s)
    BY <1>1, <2>1 DEF Sticks, IInv, AnswersAgree
  <2> QED
    BY <1>2, <2>3, <2>4
<1> QED
  BY <1>3, <1>4

(* Every step keeps the invariant and every decision shown.                *)
LEMMA StepKeeps ==
  ASSUME IInv, [Next]_vars
  PROVE  IInv' /\ \A s \in Sessions : Sticks(s)
<1>0. TypeOK'
  BY TypeNext DEF IInv
<1>1. CASE UserAction
  BY <1>0, <1>1, UserKeeps DEF IInv
<1>2. CASE WorkerStep
  BY <1>0, <1>2, WorkerKeeps DEF IInv
<1>3. CASE RefreshFinished \/ MonitorFinished
  BY <1>0, <1>3, FinishedKeeps DEF IInv
<1>4. ASSUME NEW s \in Sessions, AgentEnds(s)
      PROVE  IInv' /\ \A t \in Sessions : Sticks(t)
  <2>1. verdict' = StillSaid(store, agents') /\ UNCHANGED <<store, shown, version, job>>
    BY <1>4 DEF AgentEnds
  <2> QED
    BY <1>0, <2>1, StillSaidWeaker, AnswersKept DEF IInv, TableAgrees, Sticks
<1>5. CASE RefreshDue \/ MonitorTimer
  <2>1. UNCHANGED <<store, agents, shown, version, verdict>>
    BY <1>5 DEF RefreshDue, MonitorTimer
  <2>2. \A w \in Workers : job'[w] \in {job[w], IdleJob, Asked(version)}
    BY <1>5, PolledType DEF RefreshDue, MonitorTimer, StartRefresh, IInv, TypeOK
  <2>3. AnswersAgree'
    BY <2>1, <2>2, AnswersReplaced DEF IInv
  <2> QED
    BY <1>0, <2>1, <2>3 DEF IInv, TableAgrees, Sticks
<1>6. CASE UNCHANGED vars
  BY <1>0, <1>6 DEF vars, IInv, TableAgrees, AnswersAgree, Listed, Current, Sticks
<1> QED
  BY <1>1, <1>2, <1>3, <1>4, <1>5, <1>6 DEF Next

(* No answer of the refresh or of the monitor, however late, takes back    *)
(* from the screen what the user decided and the table still says.         *)
THEOREM DecisionsStick == Spec => DecisionSticks
<1>1. Spec => []IInv
  BY InvInit, StepKeeps, PTL DEF Spec
<1>2. IInv /\ [Next]_vars =>
        [\A s \in Sessions :
           (verdict'[s] = verdict[s] /\ Agrees(verdict[s], shown[s]))
             => Agrees(verdict[s], shown'[s])]_vars
  BY StepKeeps DEF Sticks
<1> QED
  BY <1>1, <1>2, PTL DEF Spec, DecisionSticks

-----------------------------------------------------------------------------
(* Requests                                                                *)

(* A request that is not answered is queued, or a refresh is on its way.   *)
RequestIsPending == asked => due \/ Refreshing

LEMMA StartedRefresh ==
  ASSUME TypeOK, StartRefresh
  PROVE  Refreshing'
BY AskedType DEF StartRefresh, Refreshing, TypeOK

LEMMA UserKeepsRequests ==
  ASSUME TypeOK, RequestIsPending, UserAction
  PROVE  RequestIsPending'
<1>1. CASE RefreshKey
  BY <1>1, StartedRefresh DEF RefreshKey, RequestIsPending
<1>2. ASSUME NEW gone, Reload(gone)
      PROVE  RequestIsPending'
  <2>1. job'["refresh"] = job["refresh"]
    BY <1>2, PolledType DEF Reload, TypeOK
  <2> QED BY <1>2, <2>1 DEF Reload, RequestIsPending, Refreshing
<1>3. CASE \/ \E s \in Sessions : Launch(s) \/ Resume(s) \/ Terminate(s)
           \/ \E s, t \in Sessions : Relaunch(s, t)
  BY <1>3 DEF Launch, Resume, Terminate, Relaunch, Touch, RequestIsPending,
              Refreshing
<1>4. CASE \/ \E s \in Sessions, a \in Aliases : Rename(s, a)
           \/ \E s \in Sessions : RelaunchFails(s)
           \/ \E ids \in SUBSET Sessions : DeleteResume(ids)
           \/ ClearAll \/ Reselect \/ CheckActive
  BY <1>4 DEF Rename, RelaunchFails, DeleteResume, ClearAll, Reselect,
              CheckActive, RequestIsPending, Refreshing
<1> QED BY <1>1, <1>2, <1>3, <1>4 DEF UserAction

LEMMA WorkersKeepRequests ==
  ASSUME TypeOK, RequestIsPending, WorkerStep
  PROVE  RequestIsPending'
<1>1. due' = due /\ asked' = asked
  BY DEF WorkerStep, List, Resolved, Return, WriteBack, Observe, ObserveUnsaved
<1>2. Refreshing => Refreshing'
  <2>1. CASE \E w \in Workers : List(w)
    BY <2>1 DEF List, TypeOK, Job, Refreshing
  <2>2. CASE \E w \in Workers : Resolved(w) \/ Return(w)
    BY <2>2 DEF Resolved, Return, TypeOK, Job, Refreshing
  <2>3. CASE \E w \in Workers, s \in Sessions : WriteBack(w, s)
    BY <2>3 DEF WriteBack, Refreshing
  <2>4. ASSUME NEW w \in Workers, NEW s \in Sessions,
               Observe(w, s) \/ ObserveUnsaved(w, s)
        PROVE  Refreshing => Refreshing'
    <3>1. \E rec : \/ job' = [job EXCEPT ![w].list[s] = rec]
                   \/ job' = [job EXCEPT ![w].list[s] = rec,
                                         ![w].unsaved = TRUE]
      BY <2>4 DEF Observe, ObserveUnsaved
    <3> QED BY <3>1 DEF TypeOK, Job, Refreshing
  <2> QED BY <2>1, <2>2, <2>3, <2>4 DEF WorkerStep
<1> QED BY <1>1, <1>2 DEF RequestIsPending

(* A refresh a user action asked for is never lost: while it is not        *)
(* answered a call of refresh is queued or a refresh runs, although a call *)
(* made while one runs does nothing and an old answer is thrown away.      *)
THEOREM RequestsAreNotLost == Spec => []RequestIsPending
<1>1. Init => RequestIsPending
  BY DEF Init, RequestIsPending
<1>2. TypeOK /\ RequestIsPending /\ [Next]_vars => RequestIsPending'
  <2> SUFFICES ASSUME TypeOK, RequestIsPending, [Next]_vars
               PROVE  RequestIsPending'
    OBVIOUS
  <2>1. CASE UserAction
    BY <2>1, UserKeepsRequests
  <2>2. CASE WorkerStep
    BY <2>2, WorkersKeepRequests
  <2>3. CASE RefreshDue
    BY <2>3, StartedRefresh DEF RefreshDue, RequestIsPending
  <2>4. CASE RefreshFinished
    BY <2>4 DEF RefreshFinished, RequestIsPending
  <2>5. CASE MonitorTimer
    <3>1. job'["refresh"] = job["refresh"]
      BY <2>5, PolledType DEF MonitorTimer, TypeOK
    <3> QED BY <2>5, <3>1 DEF MonitorTimer, RequestIsPending, Refreshing
  <2>6. CASE MonitorFinished
    BY <2>6 DEF MonitorFinished, RequestIsPending, Refreshing, TypeOK
  <2>7. CASE (\E s \in Sessions : AgentEnds(s)) \/ UNCHANGED vars
    BY <2>7 DEF AgentEnds, vars, RequestIsPending, Refreshing
  <2> QED BY <2>1, <2>2, <2>3, <2>4, <2>5, <2>6, <2>7 DEF Next
<1> QED BY <1>1, <1>2, SnapshotTypes, PTL DEF Spec

=============================================================================
