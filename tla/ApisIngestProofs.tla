-------------------------- MODULE ApisIngestProofs --------------------------
(***************************************************************************)
(* Proofs about ApisIngest, for any number of SIPs, attempts and sessions. *)
(*                                                                         *)
(* That an AIP is imported at most once is not the work of one part: APIS  *)
(* takes one run for a task, the workflows never change the task they have *)
(* got, and no two of them get the same one.  The invariant holds the      *)
(* three together, with what a request on its way to APIS may ask for: a   *)
(* run, however old, is for the task its SIP was analysed under and for    *)
(* the behaviour that was decided.                                         *)
(*                                                                         *)
(* How many tasks nobody follows there can be is a count of attempts: each *)
(* such task was made by an attempt whose answer was lost, and an analysis *)
(* makes no more attempts than its policy allows.                          *)
(***************************************************************************)
EXTENDS ApisIngest, FiniteSetTheorems, SequenceTheorems, TLAPS

\* What the status endpoint may add to.
TaskInv(t) ==
  /\ t.status = "Neu" => t.analysisPolls <= 1
  /\ t.status = "WirdImportiert" => t.importPolls <= 1
  /\ t.status \in {"WirdImportiert", "Importiert"} => t.run # NoRun
  /\ t.status = "Importiert" => t.importDone

TasksInv == \A id \in Known : TaskInv(tasks[id])

PrePcs  == {"checks", "submit", "poll", "decision", "build"}
PostPcs == {"store", "download", "run", "poll run", "clean up"}

Imported(t) == t.status = "Importiert" /\ t.importResult = "Erfolgreich"

\* The decision that goes with the result of the analysis.
Decided(f, t) ==
  \/ t.analysisResult \in {"AlleNeu", "AlleGleich"} /\ f.metadata = NoDecision
  \/ /\ t.analysisResult = "Konflikte"
     /\ f.decision \in {"overwrite", "append"} /\ f.metadata = f.decision

\* Where a SIP may be, with the tasks that are known.
PhaseInv(f, known) ==
  /\ f.pc \in PrePcs => f.pre = "pending"
  /\ f.pc \in PostPcs => f.pre = "success"
  /\ f.post # "pending" => f.pc = "over" /\ f.pre = "success"
  /\ f.pc \in {"checks", "submit"} => f.task = NoTask
  /\ f.pc \in {"poll", "decision", "build"} \/ f.pre = "success" => f.task # NoTask
  /\ f.task \in known \cup {NoTask}

\* What its workflows know of its task by then.
KnowledgeInv(f, ts) ==
  /\ f.pc = "decision" => ts[f.task].analysisResult = "Konflikte"
  /\ f.pc = "build" \/ f.pre = "success" => Decided(f, ts[f.task])
  /\ f.pc = "clean up" /\ f.outcome = "success" => Imported(ts[f.task])
  /\ f.post = "success" => Imported(ts[f.task])

FlowInv == \A s \in Sips : PhaseInv(flow[s], Known) /\ KnowledgeInv(flow[s], tasks)

\* Every task belongs to one SIP, or to an answer on its way to one.
Created(a) == a.to.op = "task" /\ a.body = "created"
OwnersInv ==
  /\ \A s, t \in Sips : flow[s].task = flow[t].task /\ flow[s].task # NoTask => s = t
  /\ \A a \in answers : Created(a) =>
       /\ a.id \in Known
       /\ \A s \in Sips : flow[s].task # a.id
       /\ \A b \in answers : Created(b) /\ b.id = a.id => b = a

\* A run that is asked for, or was, is the one its SIP has decided on.
Authorised(r) ==
  /\ flow[r.sip].pre = "success"
  /\ r.task = flow[r.sip].task
  /\ r.behaviour = ImportBehaviour(flow[r.sip].metadata)
RunsInv ==
  /\ \A m \in requests : m.op = "run" => Authorised(m)
  /\ \A i \in imported : Authorised(i) /\ tasks[i.task].run # NoRun
  /\ \A i, j \in imported : i.task = j.task => i = j
  /\ \A id \in Known : tasks[id].run # NoRun => \E i \in imported : i.task = id

Inv == TypeOK /\ TasksInv /\ FlowInv /\ OwnersInv /\ RunsInv

-----------------------------------------------------------------------------
(* What the server does to its tasks.                                       *)

\* Task id, if there was one, is still what it was in what matters to the workflows.
TaskKept(id) ==
  /\ id \in Known'
  /\ tasks'[id].analysisResult = tasks[id].analysisResult
  /\ tasks[id].run # NoRun => tasks'[id].run # NoRun
  /\ tasks[id].status \in {"Importiert", "Abgebrochen"} =>
       tasks'[id].status = tasks[id].status
  /\ Imported(tasks[id]) => Imported(tasks'[id])

TasksKept == \A id \in Known : TaskKept(id)

\* The identifiers in use are the positions of the tasks; the next one is not.
LEMMA KnownFacts ==
  ASSUME MockTypeOK
  PROVE  /\ Len(tasks) \in Nat /\ DOMAIN tasks = Known
         /\ \A id \in Known : id \in Nat /\ id # NoTask /\ tasks[id] \in TaskState
         /\ Len(tasks) + 1 \notin Known /\ Len(tasks) + 1 \in Nat
         /\ 1..(Len(tasks) + 1) = Known \cup {Len(tasks) + 1}
<1>1. tasks \in Seq(TaskState)
  BY DEF MockTypeOK
<1>2. Len(tasks) \in Nat /\ DOMAIN tasks = 1..Len(tasks) /\ tasks \in [1..Len(tasks) -> TaskState]
  BY <1>1, LenProperties
<1>3. \A n \in Nat : /\ \A id \in 1..n : id \in Nat /\ id # 0
                     /\ n + 1 \notin 1..n /\ n + 1 \in Nat
                     /\ 1..(n + 1) = 1..n \cup {n + 1}
  OBVIOUS
<1> QED
  BY <1>2, <1>3 DEF Known, NoTask

\* A poll keeps a task's type and moves it on by one step.
LEMMA AdvanceFacts ==
  ASSUME NEW t \in TaskState, TaskInv(t)
  PROVE  /\ AdvanceTask(t) \in TaskState /\ TaskInv(AdvanceTask(t))
         /\ AdvanceTask(t).analysisResult = t.analysisResult
         /\ AdvanceTask(t).importResult = t.importResult
         /\ AdvanceTask(t).run = t.run
         /\ t.status \in {"Importiert", "Abgebrochen"} => AdvanceTask(t) = t
<1>0. /\ t.status \in Statuses /\ t.analysisPolls \in 0..2 /\ t.importPolls \in 0..2
      /\ t = [status |-> t.status, analysisPolls |-> t.analysisPolls,
              importPolls |-> t.importPolls, analysisDone |-> t.analysisDone,
              importDone |-> t.importDone, analysisResult |-> t.analysisResult,
              importResult |-> t.importResult, run |-> t.run]
  BY DEF TaskState
<1>1. CASE t.status = "Neu"
  <2>1. t.analysisPolls + 1 \in 0..2 /\ (~(t.analysisPolls + 1 > 1) => t.analysisPolls + 1 <= 1)
    BY <1>0, <1>1 DEF TaskInv
  <2>2. CASE t.analysisPolls + 1 > 1
    <3>1. AdvanceTask(t) = [t EXCEPT !.analysisPolls = t.analysisPolls + 1, !.status = "InAnalyse"]
      BY <1>1, <2>2 DEF AdvanceTask
    <3> QED
      BY <1>0, <1>1, <2>1, <3>1 DEF TaskInv, TaskState, Statuses
  <2>3. CASE ~(t.analysisPolls + 1 > 1)
    <3>1. AdvanceTask(t) = [t EXCEPT !.analysisPolls = t.analysisPolls + 1, !.status = t.status]
      BY <1>1, <2>3 DEF AdvanceTask
    <3> QED
      BY <1>0, <1>1, <2>1, <2>3, <3>1 DEF TaskInv, TaskState, Statuses
  <2> QED
    BY <2>2, <2>3
<1>2. CASE t.status = "InAnalyse"
  BY <1>0, <1>2 DEF AdvanceTask, TaskInv, TaskState, Statuses
<1>3. CASE t.status = "WirdImportiert"
  <2>1. t.importPolls + 1 \in 0..2 /\ (~(t.importPolls + 1 > 1) => t.importPolls + 1 <= 1)
    BY <1>0, <1>3 DEF TaskInv
  <2>2. t.run # NoRun
    BY <1>3 DEF TaskInv
  <2>3. CASE t.importPolls + 1 > 1
    <3>1. AdvanceTask(t) = [t EXCEPT !.importPolls = t.importPolls + 1, !.importDone = TRUE,
                                     !.status = "Importiert"]
      BY <1>3, <2>3 DEF AdvanceTask
    <3> QED
      BY <1>0, <1>3, <2>1, <2>2, <3>1 DEF TaskInv, TaskState, Statuses
  <2>4. CASE ~(t.importPolls + 1 > 1)
    <3>1. AdvanceTask(t) = [t EXCEPT !.importPolls = t.importPolls + 1]
      BY <1>3, <2>4 DEF AdvanceTask
    <3> QED
      BY <1>0, <1>3, <2>1, <2>2, <2>4, <3>1 DEF TaskInv, TaskState, Statuses
  <2> QED
    BY <2>3, <2>4
<1>4. CASE t.status \notin {"Neu", "InAnalyse", "WirdImportiert"}
  BY <1>4 DEF AdvanceTask
<1> QED
  BY <1>0, <1>1, <1>2, <1>3, <1>4 DEF Statuses

\* One task is replaced.
LEMMA ReplaceFacts ==
  ASSUME MockTypeOK, TasksInv, NEW id \in Known, NEW u \in TaskState, TaskInv(u),
         tasks' = [tasks EXCEPT ![id] = u], UNCHANGED handler, nextRun' \in Nat
  PROVE  /\ MockTypeOK' /\ TasksInv' /\ Known' = Known
         /\ tasks'[id] = u /\ \A j \in Known \ {id} : tasks'[j] = tasks[j]
<1>1. tasks \in Seq(TaskState) /\ id \in 1..Len(tasks) /\ Len(tasks) \in Nat
  BY KnownFacts DEF MockTypeOK, Known
<1>2. /\ tasks' \in Seq(TaskState) /\ Len(tasks') = Len(tasks)
      /\ \A j \in 1..Len(tasks) : tasks'[j] = IF j = id THEN u ELSE tasks[j]
  BY <1>1, ExceptSeq
<1> QED
  BY <1>1, <1>2 DEF MockTypeOK, TasksInv, Known

\* The status endpoint.
LEMMA PollFacts ==
  ASSUME MockTypeOK, TasksInv, NEW id, APIImporttasksIDStatusGet(id)
  PROVE  /\ MockTypeOK' /\ TasksInv' /\ Known' = Known /\ TasksKept
         /\ id \in Known /\ tasks'[id] = AdvanceTask(tasks[id])
         /\ \A j \in Known : tasks'[j].run = tasks[j].run
<1>1. id \in Known /\ tasks' = [tasks EXCEPT ![id] = AdvanceTask(tasks[id])]
      /\ UNCHANGED <<handler, nextRun>>
  BY DEF APIImporttasksIDStatusGet
<1>2. tasks[id] \in TaskState /\ TaskInv(tasks[id])
  BY <1>1, KnownFacts DEF TasksInv
<1> DEFINE u == AdvanceTask(tasks[id])
<1>3. /\ u \in TaskState /\ TaskInv(u) /\ u.run = tasks[id].run
      /\ u.analysisResult = tasks[id].analysisResult
      /\ tasks[id].status \in {"Importiert", "Abgebrochen"} => u = tasks[id]
  BY <1>2, AdvanceFacts
<1> HIDE DEF u
<1>4. nextRun' \in Nat
  BY <1>1 DEF MockTypeOK
<1>5. /\ MockTypeOK' /\ TasksInv' /\ Known' = Known
      /\ tasks'[id] = u /\ \A j \in Known \ {id} : tasks'[j] = tasks[j]
  BY <1>1, <1>3, <1>4, ReplaceFacts DEF u
<1>6. TasksKept
  BY <1>3, <1>5 DEF TasksKept, TaskKept, Imported
<1> QED
  BY <1>1, <1>3, <1>5, <1>6 DEF u

\* The cancel endpoint: an imported task is left alone.
LEMMA CancelFacts ==
  ASSUME MockTypeOK, TasksInv, NEW id, APIImporttasksIDCancelPost(id)
  PROVE  /\ MockTypeOK' /\ TasksInv' /\ Known' = Known /\ TasksKept
         /\ \A j \in Known : tasks'[j].run = tasks[j].run
<1>1. id \in Known /\ tasks' = [tasks EXCEPT ![id] = CancelTask(tasks[id])]
      /\ UNCHANGED <<handler, nextRun>> /\ tasks[id].status # "Importiert"
  BY DEF APIImporttasksIDCancelPost, CancelAccepted
<1>2. tasks[id] \in TaskState
  BY <1>1, KnownFacts
<1> DEFINE u == CancelTask(tasks[id])
<1>3. /\ u \in TaskState /\ TaskInv(u) /\ u.run = tasks[id].run
      /\ u.analysisResult = tasks[id].analysisResult /\ u.status = "Abgebrochen"
  BY <1>2 DEF CancelTask, TaskState, TaskInv, Statuses
<1> HIDE DEF u
<1>4. nextRun' \in Nat
  BY <1>1 DEF MockTypeOK
<1>5. /\ MockTypeOK' /\ TasksInv' /\ Known' = Known
      /\ tasks'[id] = u /\ \A j \in Known \ {id} : tasks'[j] = tasks[j]
  BY <1>1, <1>3, <1>4, ReplaceFacts DEF u
<1>6. TasksKept
  BY <1>1, <1>3, <1>5 DEF TasksKept, TaskKept, Imported
<1> QED
  BY <1>3, <1>5, <1>6

\* The import run endpoint: the task had no run, and has one now.
LEMMA StartFacts ==
  ASSUME MockTypeOK, TasksInv, NEW id, APIImporttasksIDImportrunsPost(id)
  PROVE  /\ MockTypeOK' /\ TasksInv' /\ Known' = Known /\ TasksKept
         /\ id \in Known /\ tasks[id].run = NoRun /\ tasks'[id].run # NoRun
         /\ \A j \in Known \ {id} : tasks'[j].run = tasks[j].run
<1>1. /\ id \in Known /\ tasks' = [tasks EXCEPT ![id] = StartRun(tasks[id], nextRun + 1)]
      /\ UNCHANGED handler /\ nextRun' = nextRun + 1
      /\ tasks[id].status = "Analysiert" /\ tasks[id].run = NoRun
  BY DEF APIImporttasksIDImportrunsPost, RunAccepted
<1>2. tasks[id] \in TaskState
  BY <1>1, KnownFacts
<1>3. nextRun + 1 \in Nat /\ nextRun + 1 # NoRun /\ handler.importResult \in ImportResults
  BY DEF MockTypeOK, NoRun
<1> DEFINE u == StartRun(tasks[id], nextRun + 1)
<1>4. /\ u \in TaskState /\ TaskInv(u) /\ u.run # NoRun
      /\ u.analysisResult = tasks[id].analysisResult
  <2>1. 0 \in 0..2 /\ 0 <= 1
    OBVIOUS
  <2> QED
    BY <1>2, <1>3, <2>1 DEF StartRun, TaskState, TaskInv, Statuses
<1> HIDE DEF u
<1>5. /\ MockTypeOK' /\ TasksInv' /\ Known' = Known
      /\ tasks'[id] = u /\ \A j \in Known \ {id} : tasks'[j] = tasks[j]
  BY <1>1, <1>3, <1>4, ReplaceFacts DEF u
<1>6. TasksKept
  BY <1>1, <1>4, <1>5 DEF TasksKept, TaskKept, Imported
<1> QED
  BY <1>1, <1>4, <1>5, <1>6

\* A new task has a new number, and no run.
LEMMA PostFacts ==
  ASSUME MockTypeOK, TasksInv, APIImporttasksPost
  PROVE  /\ MockTypeOK' /\ TasksInv' /\ TasksKept
         /\ Known' = Known \cup {Len(tasks) + 1} /\ Len(tasks) + 1 \notin Known
         /\ tasks'[Len(tasks) + 1].run = NoRun
         /\ \A j \in Known : tasks'[j] = tasks[j]
<1>1. tasks' = Append(tasks, NewTask) /\ UNCHANGED <<handler, nextRun>>
  BY DEF APIImporttasksPost
<1>2. NewTask \in TaskState /\ TaskInv(NewTask) /\ NewTask.run = NoRun
  <2>1. handler.analysisResult \in AnalysisResults /\ handler.importResult \in ImportResults
    BY DEF MockTypeOK
  <2>2. 0 \in 0..2 /\ 0 <= 1 /\ NoRun \in Nat
    BY DEF NoRun
  <2> QED
    BY <2>1, <2>2 DEF NewTask, TaskState, TaskInv, Statuses
<1>3. tasks \in Seq(TaskState)
  BY DEF MockTypeOK
<1>4. /\ tasks' \in Seq(TaskState) /\ Len(tasks') = Len(tasks) + 1
      /\ \A j \in 1..Len(tasks) : tasks'[j] = tasks[j]
      /\ tasks'[Len(tasks) + 1] = NewTask
  BY <1>1, <1>2, <1>3, AppendProperties
<1>5. Known' = Known \cup {Len(tasks) + 1} /\ Len(tasks) + 1 \notin Known
  BY <1>4, KnownFacts DEF Known
<1>6. MockTypeOK' /\ TasksInv'
  BY <1>1, <1>2, <1>4, <1>5 DEF MockTypeOK, TasksInv, Known
<1>7. TasksKept
  BY <1>4, <1>5 DEF TasksKept, TaskKept, Imported, Known
<1> QED
  BY <1>2, <1>4, <1>5, <1>6, <1>7 DEF Known

-----------------------------------------------------------------------------
(* What stays when a SIP moves on.                                          *)

\* The server may have moved a task on, but has made none and started no import.
ServerPolled ==
  /\ MockTypeOK' /\ TasksInv' /\ TasksKept /\ Known' = Known
  /\ \A id \in Known : tasks'[id].run = tasks[id].run

\* A server that was not called has done nothing to its tasks.
LEMMA ServerIdle ==
  ASSUME Inv, UNCHANGED mockVars
  PROVE  ServerPolled
BY DEF Inv, TypeOK, mockVars, MockTypeOK, TasksInv, TaskInv, TasksKept, TaskKept, Imported,
       Known, ServerPolled

\* What a SIP's workflows have settled is not changed again.
FlowKept(s) ==
  /\ flow[s].task # NoTask => flow'[s].task = flow[s].task
  /\ flow[s].pre # "pending" => flow'[s].pre = flow[s].pre
  /\ flow[s].pre = "success" => flow'[s].metadata = flow[s].metadata
  /\ flow[s].post # "pending" => flow'[s].post = flow[s].post

\* What the workflows know of a task goes on being true.
LEMMA KnowledgeStays ==
  ASSUME TasksKept, NEW f, PhaseInv(f, Known), KnowledgeInv(f, tasks)
  PROVE  PhaseInv(f, Known') /\ KnowledgeInv(f, tasks')
<1>1. PhaseInv(f, Known')
  BY DEF TasksKept, TaskKept, PhaseInv
<1>2. CASE f.task = NoTask
  BY <1>2 DEF PhaseInv, KnowledgeInv, PrePcs, PostPcs
<1>3. CASE f.task \in Known
  <2>1. /\ tasks'[f.task].analysisResult = tasks[f.task].analysisResult
        /\ Imported(tasks[f.task]) => Imported(tasks'[f.task])
    BY <1>3 DEF TasksKept, TaskKept
  <2> QED
    BY <1>1, <2>1 DEF KnowledgeInv, Decided
<1> QED
  BY <1>1, <1>2, <1>3 DEF PhaseInv

\* A SIP that moves leaves the others where they are.
LEMMA MoveFacts ==
  ASSUME flow \in [Sips -> Flow], NEW s \in Sips, NEW f, Move(s, f)
  PROVE  /\ flow'[s] = f /\ \A t \in Sips \ {s} : flow'[t] = flow[t]
         /\ f \in Flow => flow' \in [Sips -> Flow]
BY DEF Move

\* A request is sent with what the workflow holds.
LEMMA MessageFacts ==
  ASSUME NEW op \in {"task", "run"}, NEW s \in Sips, NEW f \in Flow
  PROVE  /\ Message(op, s, f) \in Request
         /\ Message(op, s, f).op = op /\ Message(op, s, f).sip = s
         /\ Message(op, s, f).task = f.task
         /\ op = "run" => Message(op, s, f).behaviour = ImportBehaviour(f.metadata)
BY DEF Message, Request, Flow, ImportBehaviour, Behaviours

\* Whoever owns a task keeps it.
LEMMA OwnersStay ==
  ASSUME Inv, ServerPolled, NEW s \in Sips, \A t \in Sips \ {s} : flow'[t] = flow[t],
         flow'[s].task = flow[s].task, answers' \subseteq answers
  PROVE  OwnersInv'
BY DEF Inv, OwnersInv, ServerPolled, Created

\* A SIP moves on, and with it the invariant.
LEMMA MoveInv ==
  ASSUME Inv, ServerPolled, UNCHANGED imported, OwnersInv',
         NEW s \in Sips, flow' \in [Sips -> Flow], \A t \in Sips \ {s} : flow'[t] = flow[t],
         NEW op \in {"task", "run"}, op = "run" => flow'[s].pre = "success",
         requests' \subseteq requests \cup {Message(op, s, flow'[s])},
         answers' \subseteq answers, FlowKept(s),
         PhaseInv(flow'[s], Known), KnowledgeInv(flow'[s], tasks')
  PROVE  Inv'
<1>1. TypeOK'
  BY MessageFacts DEF Inv, TypeOK, ServerPolled
<1>2. FlowInv'
  <2>1. ASSUME NEW t \in Sips \ {s}
        PROVE  PhaseInv(flow[t], Known') /\ KnowledgeInv(flow[t], tasks')
    BY KnowledgeStays DEF Inv, FlowInv, ServerPolled
  <2> QED
    BY <2>1 DEF FlowInv, ServerPolled
<1>3. ASSUME NEW r, r.sip \in Sips, Authorised(r) PROVE Authorised(r)'
  <2>1. CASE r.sip = s
    <3>1. flow[s].pre = "success" /\ flow[s].task # NoTask
      BY <1>3, <2>1 DEF Authorised, Inv, FlowInv, PhaseInv
    <3> QED
      BY <1>3, <2>1, <3>1 DEF Authorised, FlowKept
  <2>2. CASE r.sip # s
    BY <1>3, <2>2 DEF Authorised
  <2> QED
    BY <2>1, <2>2
<1>4. \A m \in requests' : m.op = "run" => Authorised(m)'
  <2> SUFFICES ASSUME NEW m \in requests', m.op = "run" PROVE Authorised(m)'
    OBVIOUS
  <2>1. CASE m \in requests
    BY <1>3, <2>1 DEF Inv, RunsInv, TypeOK, Request
  <2>2. CASE m = Message(op, s, flow'[s])
    <3>1. flow'[s] \in Flow
      OBVIOUS
    <3>2. op = "run" /\ m.sip = s /\ m.task = flow'[s].task
          /\ m.behaviour = ImportBehaviour(flow'[s].metadata)
      BY <2>2, <3>1, MessageFacts
    <3> QED
      BY <3>2 DEF Authorised
  <2> QED
    BY <2>1, <2>2
<1>5. \A i \in imported' : Authorised(i)' /\ tasks'[i.task].run # NoRun
  <2> SUFFICES ASSUME NEW i \in imported PROVE Authorised(i)' /\ tasks'[i.task].run # NoRun
    OBVIOUS
  <2>1. Authorised(i) /\ tasks[i.task].run # NoRun /\ i.sip \in Sips
    BY DEF Inv, RunsInv, TypeOK
  <2>2. i.task \in Known
    BY <2>1 DEF Authorised, Inv, FlowInv, PhaseInv
  <2> QED
    BY <1>3, <2>1, <2>2 DEF ServerPolled
<1>6. RunsInv'
  BY <1>4, <1>5 DEF Inv, RunsInv, ServerPolled
<1> QED
  BY <1>1, <1>2, <1>6 DEF Inv, ServerPolled

\* A step keeps the invariant, and takes nothing back.
Kept == Inv' /\ TasksKept /\ \A s \in Sips : FlowKept(s)

\* A SIP moves on with the task and the result it has, if it has them.
LEMMA SteadyMove ==
  ASSUME Inv, ServerPolled, UNCHANGED imported, NEW s \in Sips, NEW f \in Flow, Move(s, f),
         NEW op \in {"task", "run"}, op = "run" => f.pre = "success",
         requests' \subseteq requests \cup {Message(op, s, f)}, answers' \subseteq answers,
         f.task = flow[s].task, flow[s].pre # "pending" => f.pre = flow[s].pre,
         flow[s].pre = "success" => f.metadata = flow[s].metadata,
         flow[s].post = "pending", PhaseInv(f, Known), KnowledgeInv(f, tasks')
  PROVE  Kept
<1>1. /\ flow' \in [Sips -> Flow] /\ flow'[s] = f /\ \A t \in Sips \ {s} : flow'[t] = flow[t]
  BY MoveFacts DEF Inv, TypeOK
<1>2. OwnersInv'
  BY <1>1, OwnersStay
<1>3. \A t \in Sips : FlowKept(t)
  BY <1>1 DEF FlowKept
<1>4. Inv'
  BY <1>1, <1>2, <1>3, MoveInv
<1> QED
  BY <1>3, <1>4 DEF Kept, ServerPolled

\* A SIP's flow keeps its shape when some of its fields are set.
LEMMA FlowFacts ==
  ASSUME Inv, NEW s \in Sips
  PROVE  /\ flow \in [Sips -> Flow] /\ flow[s] \in Flow
         /\ PhaseInv(flow[s], Known) /\ KnowledgeInv(flow[s], tasks)
         /\ 1 \in 1..MaxAttempts
         /\ flow[s].attempt < MaxAttempts => flow[s].attempt + 1 \in 1..MaxAttempts
         /\ flow[s].session < MaxSessions => flow[s].session + 1 \in 1..MaxSessions
<1>1. flow \in [Sips -> Flow] /\ flow[s] \in Flow
  BY DEF Inv, TypeOK
<1>2. flow[s].attempt \in 1..MaxAttempts /\ flow[s].session \in 1..MaxSessions
  BY <1>1 DEF Flow
<1>3. \A max \in Nat : \A n \in 1..max : n < max => n + 1 \in 1..max
  OBVIOUS
<1>4. MaxAttempts \in Nat /\ MaxSessions \in Nat /\ 1 \in 1..MaxAttempts
  BY BoundsPositive
<1> QED
  BY <1>1, <1>2, <1>3, <1>4 DEF Inv, FlowInv

\* The ends of the two workflows.
LEMMA PreOverKept ==
  ASSUME Inv, ServerPolled, UNCHANGED imported, NEW s \in Sips,
         flow[s].pc \in PrePcs, NEW o \in {"content error", "system error"},
         NEW d \in {"none", "cancel"},
         Move(s, [PreOver(flow[s], o) EXCEPT !.decision = d]) \/ Move(s, PreOver(flow[s], o)),
         requests' \subseteq requests, answers' \subseteq answers
  PROVE  Kept
<1>1. PICK f : Move(s, f) /\ f \in {[PreOver(flow[s], o) EXCEPT !.decision = d], PreOver(flow[s], o)}
  OBVIOUS
<1>2. flow[s] \in Flow /\ PhaseInv(flow[s], Known)
  BY FlowFacts
<1>3. /\ f \in Flow /\ f.pc = "over" /\ f.pre = o /\ f.task = flow[s].task
      /\ f.post = flow[s].post
  BY <1>1, <1>2, ZenonT(60) DEF PreOver, Flow
<1>4. /\ flow[s].pre = "pending" /\ flow[s].post = "pending"
      /\ PhaseInv(f, Known) /\ KnowledgeInv(f, tasks')
  BY <1>2, <1>3 DEF PhaseInv, KnowledgeInv, PrePcs, PostPcs
<1> QED
  BY <1>1, <1>3, <1>4, SteadyMove

\* A failure in poststorage goes to the clean-up.
LEMMA PostFailedKept ==
  ASSUME Inv, ServerPolled, UNCHANGED imported, NEW s \in Sips,
         flow[s].pc \in PostPcs, Move(s, PostFailed(flow[s])),
         requests' \subseteq requests, answers' \subseteq answers
  PROVE  Kept
<1> DEFINE f == PostFailed(flow[s])
<1>1. /\ flow[s] \in Flow /\ PhaseInv(flow[s], Known')
      /\ PhaseInv(flow[s], Known) /\ KnowledgeInv(flow[s], tasks')
  BY FlowFacts, KnowledgeStays DEF ServerPolled
<1>2. /\ f \in Flow /\ f.pc = "clean up" /\ f.outcome = "system error"
      /\ f.pre = flow[s].pre /\ f.task = flow[s].task /\ f.metadata = flow[s].metadata
      /\ f.decision = flow[s].decision /\ f.post = flow[s].post
  BY <1>1 DEF PostFailed, Flow
<1>3. /\ flow[s].post = "pending"
      /\ PhaseInv(f, Known) /\ KnowledgeInv(f, tasks')
  BY <1>1, <1>2 DEF PhaseInv, KnowledgeInv, Decided, PrePcs, PostPcs
<1> HIDE DEF f
<1>4. Move(s, f)
  BY DEF f
<1> QED
  BY <1>2, <1>3, <1>4, SteadyMove

-----------------------------------------------------------------------------
(* The steps of preprocessing.                                              *)

\* The step before the first POST.
LEMMA ChecksKept ==
  ASSUME Inv, NEW s \in Sips, Checks(s)
  PROVE  Kept
<1>1. /\ flow[s].pc = "checks" /\ UNCHANGED <<mockVars, answers, imported>>
  BY DEF Checks, mockVars
<1>2. ServerPolled
  BY <1>1, ServerIdle
<1>3. CASE \E o \in {"content error", "system error"} : Move(s, PreOver(flow[s], o)) /\ UNCHANGED requests
  BY <1>1, <1>2, <1>3, PreOverKept DEF PrePcs
<1>4. CASE MoveAndSend(s, [flow[s] EXCEPT !.pc = "submit", !.sent = TRUE], "task")
  <2> DEFINE f == [flow[s] EXCEPT !.pc = "submit", !.sent = TRUE]
  <2>1. flow[s] \in Flow /\ PhaseInv(flow[s], Known)
    BY FlowFacts
  <2>2. /\ f \in Flow /\ f.pc = "submit" /\ f.pre = flow[s].pre /\ f.task = flow[s].task
        /\ f.post = flow[s].post
    BY <2>1 DEF Flow
  <2>3. /\ f.pre = "pending" /\ flow[s].post = "pending"
        /\ PhaseInv(f, Known) /\ KnowledgeInv(f, tasks')
    BY <1>1, <2>1, <2>2 DEF PhaseInv, KnowledgeInv, PrePcs, PostPcs
  <2>4. Move(s, f) /\ requests' \subseteq requests \cup {Message("task", s, f)}
    BY <1>4 DEF MoveAndSend
  <2> HIDE DEF f
  <2> QED
    BY <1>1, <1>2, <2>2, <2>3, <2>4, SteadyMove
<1> QED
  BY <1>3, <1>4 DEF Checks

\* The next attempt to create a task, or the last one given up.
LEMMA RetryTaskKept ==
  ASSUME Inv, NEW s \in Sips, RetryTask(s)
  PROVE  Kept
<1>1. /\ flow[s].pc = "submit" /\ UNCHANGED <<mockVars, imported>> /\ answers' \subseteq answers
  BY DEF RetryTask, mockVars, Forget
<1>2. ServerPolled
  BY <1>1, ServerIdle
<1>3. CASE Move(s, PreOver(flow[s], "system error")) /\ UNCHANGED requests
  BY <1>1, <1>2, <1>3, PreOverKept DEF PrePcs
<1>4. CASE /\ flow[s].attempt < MaxAttempts
           /\ MoveAndSend(s, [flow[s] EXCEPT !.attempt = flow[s].attempt + 1], "task")
  <2> DEFINE f == [flow[s] EXCEPT !.attempt = flow[s].attempt + 1]
  <2>1. flow[s] \in Flow /\ PhaseInv(flow[s], Known) /\ flow[s].attempt + 1 \in 1..MaxAttempts
    BY <1>4, FlowFacts
  <2>2. /\ f \in Flow /\ f.pc = "submit" /\ f.pre = flow[s].pre /\ f.task = flow[s].task
        /\ f.post = flow[s].post
    BY <1>1, <2>1 DEF Flow
  <2>3. /\ f.pre = "pending" /\ flow[s].post = "pending"
        /\ PhaseInv(f, Known) /\ KnowledgeInv(f, tasks')
    BY <1>1, <2>1, <2>2 DEF PhaseInv, KnowledgeInv, PrePcs, PostPcs
  <2>4. Move(s, f) /\ requests' \subseteq requests \cup {Message("task", s, f)}
    BY <1>4 DEF MoveAndSend
  <2> HIDE DEF f
  <2> QED
    BY <1>1, <1>2, <2>2, <2>3, <2>4, SteadyMove
<1> QED
  BY <1>3, <1>4 DEF RetryTask

\* The answer's task has no other owner, and gets this one.
LEMMA ReceiveTaskKept ==
  ASSUME Inv, NEW s \in Sips, ReceiveTask(s)
  PROVE  Kept
<1>1. /\ flow[s].pc = "submit" /\ UNCHANGED <<mockVars, requests, imported>>
  BY DEF ReceiveTask, mockVars
<1>2. ServerPolled
  BY <1>1, ServerIdle
<1>3. PICK a \in answers :
        /\ a.to = Message("task", s, flow[s]) /\ answers' = answers \ {a}
        /\ Move(s, IF a.body = "created"
                   THEN [flow[s] EXCEPT !.pc = "poll", !.task = a.id, !.attempt = 1]
                   ELSE PreOver(flow[s], "system error"))
  BY DEF ReceiveTask, AnswerTo
<1>4. CASE a.body # "created"
  <2>1. Move(s, PreOver(flow[s], "system error"))
    BY <1>3, <1>4
  <2> QED
    BY <1>1, <1>2, <1>3, <2>1, PreOverKept DEF PrePcs
<1>5. CASE a.body = "created"
  <2> DEFINE f == [flow[s] EXCEPT !.pc = "poll", !.task = a.id, !.attempt = 1]
  <2>1. flow[s] \in Flow /\ PhaseInv(flow[s], Known) /\ 1 \in 1..MaxAttempts
    BY FlowFacts
  <2>2. /\ Created(a) /\ a.id \in Known /\ a.id \in Nat /\ a.id # NoTask
        /\ \A t \in Sips : flow[t].task # a.id
        /\ \A b \in answers : Created(b) /\ b.id = a.id => b = a
    <3>1. Created(a)
      BY <1>3, <1>5, <2>1, MessageFacts DEF Created
    <3> QED
      BY <3>1, KnownFacts DEF Inv, OwnersInv, TypeOK
  <2>3. /\ f \in Flow /\ f.pc = "poll" /\ f.pre = flow[s].pre /\ f.task = a.id
        /\ f.post = flow[s].post
    BY <2>1, <2>2 DEF Flow
  <2>4. /\ f.pre = "pending" /\ flow[s].pre = "pending" /\ flow[s].post = "pending"
        /\ flow[s].task = NoTask
        /\ PhaseInv(f, Known) /\ KnowledgeInv(f, tasks')
    BY <1>1, <2>1, <2>2, <2>3 DEF PhaseInv, KnowledgeInv, PrePcs, PostPcs
  <2>5. Move(s, f)
    BY <1>3, <1>5
  <2> HIDE DEF f
  <2>6. /\ flow' \in [Sips -> Flow] /\ flow'[s] = f /\ \A t \in Sips \ {s} : flow'[t] = flow[t]
    BY <2>3, <2>5, FlowFacts, MoveFacts
  <2>7. \A t \in Sips : FlowKept(t)
    BY <2>4, <2>6 DEF FlowKept
  <2>8. OwnersInv'
    BY <1>2, <1>3, <2>2, <2>3, <2>6 DEF Inv, OwnersInv, Created, ServerPolled
  <2>9. requests' \subseteq requests \cup {Message("task", s, flow'[s])}
    BY <1>1
  <2>10. Inv'
    BY <1>1, <1>2, <1>3, <2>4, <2>6, <2>7, <2>8, <2>9, MoveInv
  <2> QED
    BY <1>2, <2>7, <2>10 DEF Kept, ServerPolled
<1> QED
  BY <1>4, <1>5

\* The workflow goes on with what the server says of the task's analysis.
LEMMA PollAnalysisKept ==
  ASSUME Inv, NEW s \in Sips, PollAnalysis(s)
  PROVE  Kept
<1> DEFINE id == flow[s].task
           t  == tasks'[id]
           result == StatusResponse(t).analysisResult
<1>1. /\ flow[s].pc = "poll" /\ APIImporttasksIDStatusGet(id)
      /\ UNCHANGED <<requests, answers, imported>>
  BY DEF PollAnalysis
<1>2. ServerPolled /\ id \in Known /\ t = AdvanceTask(tasks[id])
  BY <1>1, PollFacts DEF Inv, TypeOK, ServerPolled
<1>3. /\ flow[s] \in Flow /\ flow \in [Sips -> Flow] /\ 1 \in 1..MaxAttempts
      /\ PhaseInv(flow[s], Known) /\ KnowledgeInv(flow[s], tasks')
  BY <1>2, FlowFacts, KnowledgeStays DEF ServerPolled
<1>4. \/ UNCHANGED flow \/ Move(s, PreOver(flow[s], "system error"))
      \/ Move(s, AfterAnalysis(flow[s], result))
  BY <1>2 DEF PollAnalysis, AnalysisComplete
<1>5. flow[s].pre = "pending" /\ flow[s].post = "pending"
  BY <1>1, <1>3 DEF PhaseInv, PrePcs
<1>m. requests' \subseteq requests \cup {Message("task", s, flow[s])}
  BY <1>1
<1>6. ASSUME NEW f \in Flow, Move(s, f), f.task = id, PhaseInv(f, Known),
             KnowledgeInv(f, tasks')
      PROVE  Kept
  <2>1. requests' \subseteq requests \cup {Message("task", s, f)}
    BY <1>1
  <2> QED
    BY <1>1, <1>2, <1>5, <1>6, <2>1, SteadyMove
<1>7. CASE UNCHANGED flow
  <2>1. Move(s, flow[s])
    BY <1>3, <1>7 DEF Move
  <2> QED
    BY <1>3, <1>6, <2>1
<1>8. CASE Move(s, PreOver(flow[s], "system error"))
  BY <1>1, <1>2, <1>8, PreOverKept DEF PrePcs
<1>9. CASE Move(s, AfterAnalysis(flow[s], result)) /\ result \in {"AlleNeu", "AlleGleich"}
  <2> DEFINE f == [flow[s] EXCEPT !.pc = "build", !.attempt = 1, !.metadata = NoDecision]
  <2>1. Move(s, f)
    BY <1>9 DEF AfterAnalysis
  <2>2. t.analysisResult \in {"AlleNeu", "AlleGleich"}
    BY <1>9 DEF StatusResponse
  <2>3. /\ f \in Flow /\ f.pc = "build" /\ f.metadata = NoDecision /\ f.task = id
        /\ f.pre = "pending" /\ f.post = "pending"
    BY <1>3, <1>5 DEF Flow, Decisions
  <2>4. PhaseInv(f, Known) /\ KnowledgeInv(f, tasks')
    BY <1>1, <1>3, <2>2, <2>3 DEF PhaseInv, KnowledgeInv, Decided, PrePcs, PostPcs
  <2> HIDE DEF f
  <2> QED
    BY <1>6, <2>1, <2>3, <2>4
<1>10. CASE Move(s, AfterAnalysis(flow[s], result)) /\ result = "Konflikte"
  <2> DEFINE f == [flow[s] EXCEPT !.pc = "decision", !.attempt = 1]
  <2>1. Move(s, f)
    BY <1>10 DEF AfterAnalysis
  <2>2. t.analysisResult = "Konflikte"
    BY <1>10 DEF StatusResponse
  <2>3. /\ f \in Flow /\ f.pc = "decision" /\ f.task = id
        /\ f.pre = "pending" /\ f.post = "pending"
    BY <1>3, <1>5 DEF Flow
  <2>4. PhaseInv(f, Known) /\ KnowledgeInv(f, tasks')
    BY <1>1, <1>3, <2>2, <2>3 DEF PhaseInv, KnowledgeInv, PrePcs, PostPcs
  <2> HIDE DEF f
  <2> QED
    BY <1>6, <2>1, <2>3, <2>4
<1>11. CASE /\ Move(s, AfterAnalysis(flow[s], result))
            /\ result \notin {"AlleNeu", "AlleGleich", "Konflikte"}
  <2>1. Move(s, PreOver(flow[s], "system error"))
    BY <1>11 DEF AfterAnalysis
  <2> QED
    BY <1>8, <2>1
<1> QED
  BY <1>4, <1>7, <1>8, <1>9, <1>10, <1>11

\* A poll that failed, before or after the import was asked for.
LEMMA PollFailsKept ==
  ASSUME Inv, NEW s \in Sips, PollFails(s)
  PROVE  Kept
<1>1. /\ flow[s].pc \in {"poll", "poll run"} /\ UNCHANGED <<requests, answers, imported>>
      /\ APIImporttasksIDStatusGet(flow[s].task) \/ UNCHANGED mockVars
  BY DEF PollFails, mockVars
<1>2. ServerPolled
  <2>1. CASE APIImporttasksIDStatusGet(flow[s].task)
    BY <2>1, PollFacts DEF Inv, TypeOK, ServerPolled
  <2>2. CASE UNCHANGED mockVars
    BY <2>2, ServerIdle
  <2> QED
    BY <1>1, <2>1, <2>2
<1>3. CASE flow[s].pc = "poll" /\ Move(s, PreOver(flow[s], "system error"))
  BY <1>1, <1>2, <1>3, PreOverKept DEF PrePcs
<1>4. CASE flow[s].pc = "poll run" /\ Move(s, PostFailed(flow[s]))
  BY <1>1, <1>2, <1>4, PostFailedKept DEF PostPcs
<1>5. CASE /\ flow[s].attempt < MaxAttempts
           /\ Move(s, [flow[s] EXCEPT !.attempt = flow[s].attempt + 1])
  <2> DEFINE f == [flow[s] EXCEPT !.attempt = flow[s].attempt + 1]
  <2>1. /\ flow[s] \in Flow /\ flow[s].attempt + 1 \in 1..MaxAttempts
        /\ PhaseInv(flow[s], Known) /\ KnowledgeInv(flow[s], tasks')
    BY <1>2, <1>5, FlowFacts, KnowledgeStays DEF ServerPolled
  <2>2. /\ f \in Flow /\ f.pc = flow[s].pc /\ f.pre = flow[s].pre /\ f.task = flow[s].task
        /\ f.post = flow[s].post /\ f.metadata = flow[s].metadata
        /\ f.decision = flow[s].decision /\ f.outcome = flow[s].outcome
    BY <2>1 DEF Flow
  <2>3. /\ flow[s].post = "pending"
        /\ PhaseInv(f, Known) /\ KnowledgeInv(f, tasks')
    BY <1>1, <2>1, <2>2 DEF PhaseInv, KnowledgeInv, Decided
  <2>4. Move(s, f) /\ requests' \subseteq requests \cup {Message("task", s, f)}
    BY <1>1, <1>5
  <2> HIDE DEF f
  <2> QED
    BY <1>1, <1>2, <2>2, <2>3, <2>4, SteadyMove
<1> QED
  BY <1>3, <1>4, <1>5 DEF PollFails

\* The operator decides about a conflict, and the metadata says what.
LEMMA DecideKept ==
  ASSUME Inv, NEW s \in Sips, Decide(s)
  PROVE  Kept
<1>1. flow[s].pc = "decision" /\ UNCHANGED <<mockVars, requests, answers, imported>>
  BY DEF Decide, mockVars
<1>2. ServerPolled
  BY <1>1, ServerIdle
<1>3. CASE \/ Move(s, [PreOver(flow[s], "content error") EXCEPT !.decision = "cancel"])
           \/ Move(s, PreOver(flow[s], "system error"))
  BY <1>1, <1>2, <1>3, PreOverKept DEF PrePcs
<1>4. ASSUME NEW o \in {"overwrite", "append"},
             Move(s, [flow[s] EXCEPT !.pc = "build", !.decision = o, !.metadata = o])
      PROVE  Kept
  <2> DEFINE f == [flow[s] EXCEPT !.pc = "build", !.decision = o, !.metadata = o]
  <2>1. /\ flow[s] \in Flow /\ PhaseInv(flow[s], Known) /\ KnowledgeInv(flow[s], tasks')
    BY <1>2, FlowFacts, KnowledgeStays DEF ServerPolled
  <2>2. /\ f \in Flow /\ f.pc = "build" /\ f.pre = flow[s].pre /\ f.task = flow[s].task
        /\ f.post = flow[s].post /\ f.metadata = o /\ f.decision = o
    BY <2>1, ZenonT(60) DEF Flow, Decisions
  <2>3. /\ f.pre = "pending" /\ flow[s].post = "pending"
        /\ PhaseInv(f, Known) /\ KnowledgeInv(f, tasks')
    BY <1>1, <2>1, <2>2 DEF PhaseInv, KnowledgeInv, Decided, PrePcs, PostPcs
  <2>4. Move(s, f) /\ requests' \subseteq requests \cup {Message("task", s, f)}
    BY <1>1, <1>4
  <2> HIDE DEF f
  <2> QED
    BY <1>1, <1>2, <2>2, <2>3, <2>4, SteadyMove
<1> QED
  BY <1>3, <1>4 DEF Decide

\* The rest of preprocessing.
LEMMA BuildKept ==
  ASSUME Inv, NEW s \in Sips, Build(s)
  PROVE  Kept
<1>1. flow[s].pc = "build" /\ UNCHANGED <<mockVars, requests, answers, imported>>
  BY DEF Build, mockVars
<1>2. ServerPolled
  BY <1>1, ServerIdle
<1>3. CASE Move(s, PreOver(flow[s], "system error"))
  BY <1>1, <1>2, <1>3, PreOverKept DEF PrePcs
<1>4. CASE Move(s, [flow[s] EXCEPT !.pc = "store", !.pre = "success"])
  <2> DEFINE f == [flow[s] EXCEPT !.pc = "store", !.pre = "success"]
  <2>1. /\ flow[s] \in Flow /\ PhaseInv(flow[s], Known) /\ KnowledgeInv(flow[s], tasks')
    BY <1>2, FlowFacts, KnowledgeStays DEF ServerPolled
  <2>2. /\ f \in Flow /\ f.pc = "store" /\ f.pre = "success" /\ f.task = flow[s].task
        /\ f.post = flow[s].post /\ f.metadata = flow[s].metadata
        /\ f.decision = flow[s].decision
    BY <2>1 DEF Flow
  <2>3. /\ flow[s].pre = "pending" /\ flow[s].post = "pending"
        /\ PhaseInv(f, Known) /\ KnowledgeInv(f, tasks')
    BY <1>1, <2>1, <2>2 DEF PhaseInv, KnowledgeInv, Decided, PrePcs, PostPcs
  <2>4. Move(s, f) /\ requests' \subseteq requests \cup {Message("task", s, f)}
    BY <1>1, <1>4
  <2> HIDE DEF f
  <2> QED
    BY <1>1, <1>2, <2>2, <2>3, <2>4, SteadyMove
<1> QED
  BY <1>3, <1>4 DEF Build

-----------------------------------------------------------------------------
(* The steps after preprocessing.                                           *)

\* A SIP in poststorage moves on: it has been decided on, and stays so.
LEMMA PostMove ==
  ASSUME Inv, ServerPolled, UNCHANGED imported, NEW s \in Sips, flow[s].pc \in PostPcs,
         NEW f \in Flow, Move(s, f), requests' \subseteq requests \cup {Message("run", s, f)},
         answers' \subseteq answers, f.pc \in PostPcs \cup {"over"},
         f.pre = flow[s].pre, f.task = flow[s].task, f.metadata = flow[s].metadata,
         f.decision = flow[s].decision, f.post # "pending" => f.pc = "over",
         f.pc = "clean up" /\ f.outcome = "success" => Imported(tasks'[f.task]),
         f.post = "success" => Imported(tasks'[f.task])
  PROVE  Kept
<1>1. /\ PhaseInv(flow[s], Known) /\ KnowledgeInv(flow[s], tasks')
  BY FlowFacts, KnowledgeStays DEF ServerPolled
<1>2. flow[s].pre = "success" /\ flow[s].post = "pending" /\ flow[s].task # NoTask
      /\ Decided(flow[s], tasks'[flow[s].task])
  BY <1>1 DEF PhaseInv, KnowledgeInv, PostPcs
<1>3. PhaseInv(f, Known)
  BY <1>1, <1>2 DEF PhaseInv, PrePcs, PostPcs
<1>4. KnowledgeInv(f, tasks')
  BY <1>2 DEF KnowledgeInv, Decided, PostPcs
<1> QED
  BY <1>2, <1>3, <1>4, SteadyMove

\* The storage of the AIP.
LEMMA StoreKept ==
  ASSUME Inv, NEW s \in Sips, Store(s)
  PROVE  Kept
<1>1. flow[s].pc = "store" /\ UNCHANGED <<mockVars, requests, answers, imported>>
  BY DEF Store, mockVars
<1>2. ServerPolled
  BY <1>1, ServerIdle
<1>3. PICK pc \in {"download", "over"} : Move(s, [flow[s] EXCEPT !.pc = pc])
  BY DEF Store
<1> DEFINE f == [flow[s] EXCEPT !.pc = pc]
<1>4. flow[s] \in Flow /\ PhaseInv(flow[s], Known)
  BY FlowFacts
<1>5. /\ f \in Flow /\ f.pc = pc /\ f.pre = flow[s].pre /\ f.task = flow[s].task
      /\ f.metadata = flow[s].metadata /\ f.decision = flow[s].decision
      /\ f.post = flow[s].post
  BY <1>4 DEF Flow
<1>6. f.post = "pending"
  BY <1>1, <1>4, <1>5 DEF PhaseInv
<1> HIDE DEF f
<1>7. Move(s, f) /\ requests' \subseteq requests \cup {Message("run", s, f)}
  BY <1>1, <1>3 DEF f
<1> QED
  BY <1>1, <1>2, <1>5, <1>6, <1>7, PostMove DEF PostPcs

\* The download, and the first POST of a run.
LEMMA DownloadKept ==
  ASSUME Inv, NEW s \in Sips, Download(s)
  PROVE  Kept
<1>1. flow[s].pc = "download" /\ UNCHANGED <<mockVars, answers, imported>>
  BY DEF Download, mockVars
<1>2. ServerPolled
  BY <1>1, ServerIdle
<1>3. CASE Move(s, PostFailed(flow[s])) /\ UNCHANGED requests
  BY <1>1, <1>2, <1>3, PostFailedKept DEF PostPcs
<1>4. CASE MoveAndSend(s, [flow[s] EXCEPT !.pc = "run", !.attempt = 1], "run")
  <2> DEFINE f == [flow[s] EXCEPT !.pc = "run", !.attempt = 1]
  <2>1. flow[s] \in Flow /\ PhaseInv(flow[s], Known) /\ 1 \in 1..MaxAttempts
    BY FlowFacts
  <2>2. /\ f \in Flow /\ f.pc = "run" /\ f.pre = flow[s].pre /\ f.task = flow[s].task
        /\ f.metadata = flow[s].metadata /\ f.decision = flow[s].decision
        /\ f.post = flow[s].post
    BY <2>1 DEF Flow
  <2>3. f.post = "pending"
    BY <1>1, <2>1, <2>2 DEF PhaseInv
  <2>4. Move(s, f) /\ requests' \subseteq requests \cup {Message("run", s, f)}
    BY <1>4 DEF MoveAndSend
  <2> HIDE DEF f
  <2> QED
    BY <1>1, <1>2, <2>2, <2>3, <2>4, PostMove DEF PostPcs
<1> QED
  BY <1>3, <1>4 DEF Download

\* The next attempt to create a run, or the last one given up.
LEMMA RetryRunKept ==
  ASSUME Inv, NEW s \in Sips, RetryRun(s)
  PROVE  Kept
<1>1. /\ flow[s].pc = "run" /\ UNCHANGED <<mockVars, imported>> /\ answers' \subseteq answers
  BY DEF RetryRun, mockVars, Forget
<1>2. ServerPolled
  BY <1>1, ServerIdle
<1>3. CASE Move(s, PostFailed(flow[s])) /\ UNCHANGED requests
  BY <1>1, <1>2, <1>3, PostFailedKept DEF PostPcs
<1>4. CASE /\ flow[s].attempt < MaxAttempts
           /\ MoveAndSend(s, [flow[s] EXCEPT !.attempt = flow[s].attempt + 1], "run")
  <2> DEFINE f == [flow[s] EXCEPT !.attempt = flow[s].attempt + 1]
  <2>1. flow[s] \in Flow /\ PhaseInv(flow[s], Known) /\ flow[s].attempt + 1 \in 1..MaxAttempts
    BY <1>4, FlowFacts
  <2>2. /\ f \in Flow /\ f.pc = "run" /\ f.pre = flow[s].pre /\ f.task = flow[s].task
        /\ f.metadata = flow[s].metadata /\ f.decision = flow[s].decision
        /\ f.post = flow[s].post
    BY <1>1, <2>1 DEF Flow
  <2>3. f.post = "pending"
    BY <1>1, <2>1, <2>2 DEF PhaseInv
  <2>4. Move(s, f) /\ requests' \subseteq requests \cup {Message("run", s, f)}
    BY <1>4 DEF MoveAndSend
  <2> HIDE DEF f
  <2> QED
    BY <1>1, <1>2, <2>2, <2>3, <2>4, PostMove DEF PostPcs
<1> QED
  BY <1>3, <1>4 DEF RetryRun

\* The answer to the POST of a run.
LEMMA ReceiveRunKept ==
  ASSUME Inv, NEW s \in Sips, ReceiveRun(s)
  PROVE  Kept
<1>1. /\ flow[s].pc = "run" /\ UNCHANGED <<mockVars, requests, imported>>
      /\ answers' \subseteq answers
  BY DEF ReceiveRun, mockVars
<1>2. ServerPolled
  BY <1>1, ServerIdle
<1>3. \/ Move(s, [flow[s] EXCEPT !.pc = "poll run", !.attempt = 1])
      \/ Move(s, PostFailed(flow[s]))
  BY DEF ReceiveRun
<1>4. CASE Move(s, PostFailed(flow[s]))
  BY <1>1, <1>2, <1>4, PostFailedKept DEF PostPcs
<1>5. CASE Move(s, [flow[s] EXCEPT !.pc = "poll run", !.attempt = 1])
  <2> DEFINE f == [flow[s] EXCEPT !.pc = "poll run", !.attempt = 1]
  <2>1. flow[s] \in Flow /\ PhaseInv(flow[s], Known) /\ 1 \in 1..MaxAttempts
    BY FlowFacts
  <2>2. /\ f \in Flow /\ f.pc = "poll run" /\ f.pre = flow[s].pre /\ f.task = flow[s].task
        /\ f.metadata = flow[s].metadata /\ f.decision = flow[s].decision
        /\ f.post = flow[s].post
    BY <2>1 DEF Flow
  <2>3. f.post = "pending"
    BY <1>1, <2>1, <2>2 DEF PhaseInv
  <2>4. Move(s, f) /\ requests' \subseteq requests \cup {Message("run", s, f)}
    BY <1>1, <1>5
  <2> HIDE DEF f
  <2> QED
    BY <1>1, <1>2, <2>2, <2>3, <2>4, PostMove DEF PostPcs
<1> QED
  BY <1>3, <1>4, <1>5

\* The import is over for the workflow only when it is for the server.
LEMMA PollImportKept ==
  ASSUME Inv, NEW s \in Sips, PollImport(s)
  PROVE  Kept
<1> DEFINE id == flow[s].task
           t  == tasks'[id]
<1>1. /\ flow[s].pc = "poll run" /\ APIImporttasksIDStatusGet(id)
      /\ UNCHANGED <<requests, answers, imported>>
  BY DEF PollImport
<1>2. ServerPolled /\ id \in Known /\ t = AdvanceTask(tasks[id])
  BY <1>1, PollFacts DEF Inv, TypeOK, ServerPolled
<1>3. flow[s] \in Flow /\ flow \in [Sips -> Flow] /\ PhaseInv(flow[s], Known)
  BY FlowFacts
<1>4. \/ UNCHANGED flow \/ Move(s, PostFailed(flow[s]))
      \/ /\ StatusResponse(t).status = "Importiert" /\ StatusResponse(t).importResult # "Fehler"
         /\ Move(s, [flow[s] EXCEPT !.pc = "clean up"])
  BY <1>2 DEF PollImport, ImportComplete
<1>5. flow[s].post = "pending"
  BY <1>1, <1>3 DEF PhaseInv
<1>6. ASSUME NEW f \in Flow, Move(s, f), f.pc \in {"poll run", "clean up"},
             f.pre = flow[s].pre, f.task = flow[s].task, f.metadata = flow[s].metadata,
             f.decision = flow[s].decision, f.post = flow[s].post,
             f.pc = "clean up" => Imported(t)
      PROVE  Kept
  <2>1. requests' \subseteq requests \cup {Message("run", s, f)}
    BY <1>1
  <2> QED
    BY <1>1, <1>2, <1>5, <1>6, <2>1, PostMove DEF PostPcs
<1>7. CASE UNCHANGED flow
  <2>1. Move(s, flow[s])
    BY <1>3, <1>7 DEF Move
  <2> QED
    BY <1>1, <1>3, <1>6, <2>1
<1>8. CASE Move(s, PostFailed(flow[s]))
  BY <1>1, <1>2, <1>8, PostFailedKept DEF PostPcs
<1>9. CASE /\ StatusResponse(t).status = "Importiert" /\ StatusResponse(t).importResult # "Fehler"
           /\ Move(s, [flow[s] EXCEPT !.pc = "clean up"])
  <2> DEFINE f == [flow[s] EXCEPT !.pc = "clean up"]
  <2>1. Move(s, f)
    BY <1>9
  <2>2. Imported(t)
    <3>1. t \in TaskState /\ TaskInv(t)
      BY <1>2, AdvanceFacts, KnownFacts DEF Inv, TypeOK, TasksInv
    <3>2. t.status = "Importiert" /\ t.importDone /\ t.importResult # "Fehler"
      BY <1>9, <3>1 DEF StatusResponse, TaskInv
    <3> QED
      BY <3>1, <3>2 DEF Imported, TaskState, ImportResults
  <2>3. /\ f \in Flow /\ f.pc = "clean up" /\ f.pre = flow[s].pre /\ f.task = flow[s].task
        /\ f.metadata = flow[s].metadata /\ f.decision = flow[s].decision
        /\ f.post = flow[s].post
    BY <1>3 DEF Flow
  <2> HIDE DEF f
  <2> QED
    BY <1>6, <2>1, <2>2, <2>3
<1> QED
  BY <1>4, <1>7, <1>8, <1>9

\* The end of poststorage.
LEMMA CleanUpKept ==
  ASSUME Inv, NEW s \in Sips, CleanUp(s)
  PROVE  Kept
<1>1. flow[s].pc = "clean up" /\ UNCHANGED <<mockVars, requests, answers, imported>>
  BY DEF CleanUp, mockVars
<1>2. ServerPolled
  BY <1>1, ServerIdle
<1>3. PICK post \in {flow[s].outcome, "failed"} :
        Move(s, [flow[s] EXCEPT !.pc = "over", !.post = post])
  BY DEF CleanUp
<1> DEFINE f == [flow[s] EXCEPT !.pc = "over", !.post = post]
<1>4. flow[s] \in Flow /\ PhaseInv(flow[s], Known') /\ KnowledgeInv(flow[s], tasks')
  BY <1>2, FlowFacts, KnowledgeStays DEF ServerPolled
<1>5. post \in {"success", "system error", "failed"}
  BY <1>4 DEF Flow
<1>6. /\ f \in Flow /\ f.pc = "over" /\ f.pre = flow[s].pre /\ f.task = flow[s].task
      /\ f.metadata = flow[s].metadata /\ f.decision = flow[s].decision
      /\ f.post = post
  BY <1>4, <1>5, ZenonT(60) DEF Flow
<1>7. f.post = "success" => Imported(tasks'[f.task])
  BY <1>1, <1>3, <1>4, <1>6 DEF KnowledgeInv
<1> HIDE DEF f
<1>8. Move(s, f) /\ requests' \subseteq requests \cup {Message("run", s, f)}
  BY <1>1, <1>3 DEF f
<1> QED
  BY <1>1, <1>2, <1>6, <1>7, <1>8, PostMove DEF PostPcs

\* A session is lost: the next one starts, or the workflow fails.
LEMMA LoseSessionKept ==
  ASSUME Inv, NEW s \in Sips, LoseSession(s)
  PROVE  Kept
<1>1. /\ flow[s].pc \in {"download", "run", "poll run", "clean up"}
      /\ UNCHANGED <<mockVars, requests, imported>> /\ answers' \subseteq answers
  BY DEF LoseSession, mockVars, Forget
<1>2. ServerPolled
  BY <1>1, ServerIdle
<1> DEFINE g == IF flow[s].pc = "clean up" THEN flow[s]
                ELSE [flow[s] EXCEPT !.outcome = "system error"]
           f == IF g.session < MaxSessions
                THEN [g EXCEPT !.pc = "download", !.session = g.session + 1, !.attempt = 1]
                ELSE [g EXCEPT !.pc = "over", !.post = "failed"]
<1>3. /\ flow[s] \in Flow /\ PhaseInv(flow[s], Known) /\ 1 \in 1..MaxAttempts
      /\ flow[s].session < MaxSessions => flow[s].session + 1 \in 1..MaxSessions
  BY FlowFacts
<1>4. /\ g \in Flow /\ g.pre = flow[s].pre /\ g.task = flow[s].task
      /\ g.metadata = flow[s].metadata /\ g.decision = flow[s].decision
      /\ g.post = flow[s].post /\ g.session = flow[s].session
  BY <1>3, ZenonT(60) DEF Flow
<1>5. flow[s].post = "pending"
  BY <1>1, <1>3 DEF PhaseInv
<1>6. Move(s, f)
  BY DEF LoseSession
<1> HIDE DEF g
<1>7. /\ f \in Flow /\ f.pc \in {"download", "over"} /\ f.pre = flow[s].pre
      /\ f.task = flow[s].task /\ f.metadata = flow[s].metadata
      /\ f.decision = flow[s].decision
      /\ f.post # "pending" => f.pc = "over" /\ f.post = "failed"
  <2>1. CASE g.session < MaxSessions
    BY <1>3, <1>4, <1>5, <2>1, ZenonT(60) DEF Flow
  <2>2. CASE ~(g.session < MaxSessions)
    BY <1>4, <2>2, ZenonT(60) DEF Flow
  <2> QED
    BY <2>1, <2>2
<1> HIDE DEF f
<1>8. requests' \subseteq requests \cup {Message("run", s, f)}
  BY <1>1
<1>9. /\ flow[s].pc \in PostPcs /\ f.pc \in PostPcs \cup {"over"} /\ f.pc # "clean up"
      /\ f.post # "success"
  BY <1>1, <1>7 DEF PostPcs
<1> QED
  BY <1>1, <1>2, <1>6, <1>7, <1>8, <1>9, PostMove

-----------------------------------------------------------------------------
(* The steps of the server.                                                 *)

\* Nobody moves: what the workflows know stays true.
LEMMA FlowStays ==
  ASSUME Inv, TasksKept, UNCHANGED flow
  PROVE  /\ FlowInv' /\ \A s \in Sips : FlowKept(s)
         /\ \A r : Authorised(r)' <=> Authorised(r)
<1>1. FlowInv'
  BY KnowledgeStays DEF Inv, FlowInv
<1> QED
  BY <1>1 DEF FlowKept, Authorised

\* An answer that creates no task changes nobody's claims.
LEMMA OwnersAnswered ==
  ASSUME Inv, UNCHANGED flow, Known \subseteq Known', NEW a, ~Created(a),
         answers' \subseteq answers \cup {a}
  PROVE  OwnersInv'
BY DEF Inv, OwnersInv, Created

\* An answer is one more, if anybody waits for it.
LEMMA AnswerFacts ==
  ASSUME Inv, NEW m \in requests, NEW body \in Bodies, NEW id \in Nat, Answer(m, body, id)
  PROVE  LET a == [to |-> m, body |-> body, id |-> id] IN
           /\ answers' \subseteq answers \cup {a}
           /\ answers' \subseteq [to: Request, body: Bodies, id: Nat]
           /\ a.to = m /\ a.body = body /\ a.id = id
<1> DEFINE a == [to |-> m, body |-> body, id |-> id]
<1>1. a \in [to: Request, body: Bodies, id: Nat]
  BY DEF Inv, TypeOK
<1>2. answers' \subseteq answers \cup {a}
  BY Zenon DEF Answer
<1> QED
  BY <1>1, <1>2 DEF Inv, TypeOK

\* A task is canceled in APIS.
LEMMA ClerkKept ==
  ASSUME Inv, NEW id \in Known, ClerkCancels(id)
  PROVE  Kept
<1>1. APIImporttasksIDCancelPost(id) /\ UNCHANGED <<flow, requests, answers, imported>>
  BY DEF ClerkCancels
<1>2. /\ MockTypeOK' /\ TasksInv' /\ Known' = Known /\ TasksKept
      /\ \A j \in Known : tasks'[j].run = tasks[j].run
  BY <1>1, CancelFacts DEF Inv, TypeOK
<1>3. /\ FlowInv' /\ \A s \in Sips : FlowKept(s)
      /\ \A r : Authorised(r)' <=> Authorised(r)
  BY <1>1, <1>2, FlowStays
<1>4. TypeOK' /\ OwnersInv'
  BY <1>1, <1>2 DEF Inv, TypeOK, OwnersInv, Created
<1>5. RunsInv'
  <2>1. \A i \in imported : i.task \in Known
    BY DEF Inv, RunsInv, Authorised, FlowInv, PhaseInv, TypeOK
  <2> QED
    BY <1>1, <1>2, <1>3, <2>1 DEF Inv, RunsInv
<1> QED
  BY <1>2, <1>3, <1>4, <1>5 DEF Inv, Kept

\* APIS serves a request, old or new: it creates a task or a run, or refuses.
LEMMA ServeKept ==
  ASSUME Inv, NEW m \in requests, Serve(m)
  PROVE  Kept
<1>1. requests' \subseteq requests /\ UNCHANGED flow
  BY DEF Serve
<1>t. /\ MockTypeOK /\ TasksInv /\ m \in Request /\ flow \in [Sips -> Flow]
      /\ requests \subseteq Request /\ m.sip \in Sips
      /\ imported \subseteq [sip: Sips, task: Nat, run: Nat, behaviour: Behaviours]
  BY DEF Inv, TypeOK, Request
<1>k. \A i \in imported : i.task \in Known
  BY DEF Inv, RunsInv, Authorised, FlowInv, PhaseInv, TypeOK
<1>2. CASE /\ m.op = "task" /\ APIImporttasksPost /\ Answer(m, "created", Len(tasks) + 1)
           /\ UNCHANGED imported
  <2> DEFINE n == Len(tasks) + 1
             a == [to |-> m, body |-> "created", id |-> n]
  <2>1. /\ MockTypeOK' /\ TasksInv' /\ TasksKept
        /\ Known' = Known \cup {n} /\ n \notin Known /\ n \in Nat /\ n # NoTask
        /\ tasks'[n].run = NoRun
        /\ \A j \in Known : tasks'[j] = tasks[j]
    BY <1>2, <1>t, PostFacts, KnownFacts DEF NoTask
  <2>2. /\ answers' \subseteq answers \cup {a}
        /\ answers' \subseteq [to: Request, body: Bodies, id: Nat]
        /\ a.id = n
    BY <1>2, <2>1, AnswerFacts DEF Bodies
  <2>3. /\ FlowInv' /\ \A s \in Sips : FlowKept(s)
        /\ \A r : Authorised(r)' <=> Authorised(r)
    BY <1>1, <2>1, FlowStays
  <2>4. TypeOK'
    BY <1>1, <1>2, <1>t, <2>1, <2>2 DEF TypeOK
  <2> HIDE DEF a
  <2>5. /\ \A s \in Sips : flow[s].task # n
        /\ \A b \in answers : Created(b) => b.id # n /\ b.id \in Known
    BY <2>1 DEF Inv, FlowInv, PhaseInv, OwnersInv
  <2>6. OwnersInv'
    <3>1. \A s, t \in Sips : flow[s].task = flow[t].task /\ flow[s].task # NoTask => s = t
      BY DEF Inv, OwnersInv
    <3>2. ASSUME NEW b \in answers', Created(b)
          PROVE  /\ b.id \in Known' /\ \A s \in Sips : flow[s].task # b.id
                 /\ \A c \in answers' : Created(c) /\ c.id = b.id => c = b
      <4>1. CASE b = a
        BY <2>1, <2>2, <2>5, <4>1
      <4>2. CASE b \in answers
        BY <2>1, <2>2, <2>5, <3>2, <4>2 DEF Inv, OwnersInv
      <4> QED
        BY <2>2, <4>1, <4>2
    <3> QED
      BY <1>1, <3>1, <3>2 DEF OwnersInv, Created
  <2>7. RunsInv'
    BY <1>1, <1>2, <1>k, <2>1, <2>3 DEF Inv, RunsInv
  <2> QED
    BY <2>1, <2>3, <2>4, <2>6, <2>7 DEF Inv, Kept
<1>3. CASE /\ m.op = "run" /\ APIImporttasksIDImportrunsPost(m.task)
           /\ Answer(m, "created", nextRun + 1)
           /\ imported' = imported \cup
                {[sip |-> m.sip, task |-> m.task, run |-> nextRun + 1,
                  behaviour |-> m.behaviour]}
  <2> DEFINE a == [to |-> m, body |-> "created", id |-> nextRun + 1]
             i == [sip |-> m.sip, task |-> m.task, run |-> nextRun + 1,
                   behaviour |-> m.behaviour]
  <2>1. /\ MockTypeOK' /\ TasksInv' /\ Known' = Known /\ TasksKept
        /\ m.task \in Known /\ tasks[m.task].run = NoRun /\ tasks'[m.task].run # NoRun
        /\ \A j \in Known \ {m.task} : tasks'[j].run = tasks[j].run
    BY <1>3, <1>t, StartFacts
  <2>2. nextRun + 1 \in Nat /\ m.task \in Nat
    BY <1>t, <2>1, KnownFacts DEF MockTypeOK
  <2>3. /\ answers' \subseteq answers \cup {a}
        /\ answers' \subseteq [to: Request, body: Bodies, id: Nat]
        /\ ~Created(a)
    BY <1>3, <2>2, AnswerFacts DEF Bodies, Created
  <2>4. /\ FlowInv' /\ \A s \in Sips : FlowKept(s)
        /\ \A r : Authorised(r)' <=> Authorised(r)
    BY <1>1, <2>1, FlowStays
  <2>5. Authorised(m) /\ m.behaviour \in Behaviours
    BY <1>3 DEF Inv, RunsInv, Authorised, ImportBehaviour, Behaviours
  <2>6. /\ i \in [sip: Sips, task: Nat, run: Nat, behaviour: Behaviours]
        /\ i.task = m.task /\ Authorised(i)
    BY <1>t, <2>2, <2>5 DEF Authorised
  <2>7. imported' = imported \cup {i}
    BY <1>3
  <2> HIDE DEF a, i
  <2>8. TypeOK'
    BY <1>1, <1>t, <2>1, <2>3, <2>6, <2>7 DEF TypeOK
  <2>9. OwnersInv'
    BY <1>1, <2>1, <2>3, OwnersAnswered
  <2>10. RunsInv'
    <3>1. \A j \in imported : j.task # m.task /\ j.task \in Known /\ Authorised(j)
                              /\ tasks[j.task].run # NoRun
      BY <1>k, <2>1 DEF Inv, RunsInv
    <3>2. \A r \in requests' : r.op = "run" => Authorised(r)'
      BY <1>1, <2>4 DEF Inv, RunsInv
    <3>3. \A j \in imported' : Authorised(j)' /\ tasks'[j.task].run # NoRun
      BY <2>1, <2>4, <2>6, <2>7, <3>1
    <3>4. \A j, k \in imported' : j.task = k.task => j = k
      BY <2>6, <2>7, <3>1 DEF Inv, RunsInv
    <3>5. \A id \in Known' : tasks'[id].run # NoRun => \E j \in imported' : j.task = id
      BY <2>1, <2>6, <2>7 DEF Inv, RunsInv
    <3> QED
      BY <3>2, <3>3, <3>4, <3>5 DEF RunsInv
  <2> QED
    BY <2>1, <2>4, <2>8, <2>9, <2>10 DEF Inv, Kept
<1>4. CASE Answer(m, "refused", NoTask) /\ UNCHANGED <<handler, tasks, nextRun, imported>>
  <2> DEFINE a == [to |-> m, body |-> "refused", id |-> NoTask]
  <2>1. ServerPolled
    BY <1>4, ServerIdle DEF mockVars
  <2>2. /\ answers' \subseteq answers \cup {a}
        /\ answers' \subseteq [to: Request, body: Bodies, id: Nat]
        /\ ~Created(a)
    BY <1>4, AnswerFacts DEF Bodies, Created, NoTask
  <2>3. /\ FlowInv' /\ \A s \in Sips : FlowKept(s)
        /\ \A r : Authorised(r)' <=> Authorised(r)
    BY <1>1, <2>1, FlowStays DEF ServerPolled
  <2> HIDE DEF a
  <2>4. TypeOK'
    BY <1>1, <1>4, <1>t, <2>1, <2>2 DEF TypeOK, ServerPolled
  <2>5. OwnersInv'
    BY <1>1, <2>1, <2>2, OwnersAnswered DEF ServerPolled
  <2>6. RunsInv'
    BY <1>1, <1>4, <1>k, <2>1, <2>3 DEF Inv, RunsInv, ServerPolled
  <2> QED
    BY <2>1, <2>3, <2>4, <2>5, <2>6 DEF Inv, Kept, ServerPolled
<1> QED
  BY <1>2, <1>3, <1>4 DEF Serve

-----------------------------------------------------------------------------
\* The invariant holds at the start: there is no task, and nobody has one.
LEMMA InitInv == Init => Inv
<1> SUFFICES ASSUME Init PROVE Inv
  OBVIOUS
<1>1. MockTypeOK /\ Known = {}
  <2>1. tasks = <<>> /\ nextRun = 0
    BY DEF Init, MockInit
  <2> QED
    BY <2>1 DEF Init, MockInit, MockTypeOK, Known
<1>2. \A s \in Sips :
        flow[s] = [pc |-> "checks", attempt |-> 1, session |-> 1, sent |-> FALSE,
                   task |-> NoTask, decision |-> "none", metadata |-> "unset",
                   pre |-> "pending", outcome |-> "success", post |-> "pending"]
  BY DEF Init
<1>3. flow \in [Sips -> Flow]
  <2>1. 1 \in 1..MaxAttempts /\ 1 \in 1..MaxSessions /\ NoTask \in Nat
    BY BoundsPositive DEF NoTask
  <2> QED
    BY <2>1 DEF Init, Flow
<1>4. FlowInv /\ OwnersInv
  BY <1>2 DEF Init, FlowInv, PhaseInv, KnowledgeInv, OwnersInv, PrePcs, PostPcs
<1> QED
  BY <1>1, <1>3, <1>4 DEF Init, Inv, TypeOK, TasksInv, RunsInv

\* The inductive step.
LEMMA NextInv == Inv /\ [Next]_vars => Kept
<1> SUFFICES ASSUME Inv, [Next]_vars PROVE Kept
  OBVIOUS
<1>1. ASSUME NEW s \in Sips, Step(s) \/ PollFails(s) \/ LoseSession(s) PROVE Kept
  BY <1>1, ChecksKept, ReceiveTaskKept, RetryTaskKept, PollAnalysisKept, DecideKept,
     BuildKept, StoreKept, DownloadKept, ReceiveRunKept, RetryRunKept, PollImportKept,
     CleanUpKept, PollFailsKept, LoseSessionKept DEF Step, PreStep, PostStep
<1>2. ASSUME NEW m \in requests, Serve(m) PROVE Kept
  BY <1>2, ServeKept
<1>3. ASSUME NEW id \in Known, ClerkCancels(id) PROVE Kept
  BY <1>3, ClerkKept
<1>4. CASE UNCHANGED vars
  <2>1. ServerPolled /\ UNCHANGED <<flow, requests, answers, imported>>
    BY <1>4, ServerIdle DEF vars, mockVars
  <2>2. FlowInv' /\ \A s \in Sips : FlowKept(s)
    BY <2>1, FlowStays DEF ServerPolled
  <2>3. TypeOK' /\ TasksInv' /\ OwnersInv' /\ RunsInv'
    BY <1>4 DEF vars, Inv, TypeOK, MockTypeOK, TasksInv, TaskInv, OwnersInv, Created, RunsInv,
                Authorised, Known
  <2> QED
    BY <2>1, <2>2, <2>3 DEF Kept, Inv, ServerPolled
<1> QED
  BY <1>1, <1>2, <1>3, <1>4 DEF Next

\* The invariant holds throughout.
LEMMA Invariance == Spec => []Inv
<1>1. Inv /\ [Next]_vars => Inv'
  BY NextInv DEF Kept
<1> QED
  BY InitInv, <1>1, PTL DEF Spec

-----------------------------------------------------------------------------
(* Orphans: how many tasks there can be, and what becomes of those nobody    *)
(* owns.  Every task, and every POST for one on its way, is charged to an    *)
(* attempt that was made, and no two of them to the same attempt.            *)

\* SIP s has made its k-th attempt to create a task.
Attempted(s, k) ==
  /\ flow[s].pc # "checks"
  /\ flow[s].pc = "submit" => k <= flow[s].attempt

\* Which attempt each task comes from.
Charges(by) ==
  /\ by \in [Known -> Sips \X (1..MaxAttempts)]
  /\ \A i, j \in Known : by[i] = by[j] => i = j
  /\ \A i \in Known : Attempted(by[i][1], by[i][2])
  /\ \A i \in Known : \A m \in requests : m.op = "task" => by[i] # <<m.sip, m.attempt>>

\* A task's POST is told from the others by its SIP and attempt alone.
TaskPost(m) == m.session = 1 /\ m.task = NoTask /\ m.behaviour = "none"

AttemptsInv ==
  /\ \A s \in Sips : flow[s].pc \in PrePcs => flow[s].session = 1
  /\ \A m \in requests : m.op = "task" => TaskPost(m) /\ Attempted(m.sip, m.attempt)
  /\ \E by : Charges(by)

Orphan(id) == \A s \in Sips : flow[s].task # id
Untouched(t) == t.run = NoRun /\ t.status \in {"Neu", "Abgebrochen"}
OrphanInv == \A id \in Known : Orphan(id) => Untouched(tasks[id])

CountInv == AttemptsInv /\ OrphanInv

\* A SIP moves on past its attempts: nothing is charged to anybody.
LEMMA AttemptsPassed ==
  ASSUME Inv, AttemptsInv, NEW s \in Sips, \A t \in Sips \ {s} : flow'[t] = flow[t],
         flow'[s].pc \notin {"checks", "submit"},
         flow'[s].pc \in PrePcs => flow'[s].session = 1,
         \A m \in requests' : m.op = "task" => m \in requests, Known' = Known
  PROVE  AttemptsInv'
<1>1. \A t, k : t \in Sips /\ Attempted(t, k) => Attempted(t, k)'
  BY DEF Attempted
<1>2. \A m \in requests : m.sip \in Sips
  BY DEF Inv, TypeOK, Request
<1>3. PICK by : Charges(by)
  BY DEF AttemptsInv
<1>4. \A i \in Known : by[i][1] \in Sips
  BY <1>3 DEF Charges
<1>5. Charges(by)'
  BY <1>1, <1>3, <1>4 DEF Charges
<1> QED
  BY <1>1, <1>2, <1>5 DEF AttemptsInv, TaskPost

\* A SIP makes an attempt: it is a new one.
LEMMA AttemptMade ==
  ASSUME Inv, AttemptsInv, NEW s \in Sips, \A t \in Sips \ {s} : flow'[t] = flow[t],
         NEW f \in Flow, flow'[s] = f, f.pc = "submit", f.session = 1, f.task = NoTask,
         ~Attempted(s, f.attempt), \A k \in 1..MaxAttempts : Attempted(s, k) => k <= f.attempt,
         requests' = requests \cup {Message("task", s, f)}, Known' = Known
  PROVE  AttemptsInv'
<1> DEFINE m == Message("task", s, f)
<1>1. m.op = "task" /\ m.sip = s /\ m.attempt = f.attempt /\ TaskPost(m)
  BY DEF Message, TaskPost
<1>2. \A t \in Sips : \A k \in 1..MaxAttempts : Attempted(t, k) => Attempted(t, k)'
  BY DEF Attempted
<1>3. \A n \in requests : n.sip \in Sips /\ n.attempt \in 1..MaxAttempts
  BY DEF Inv, TypeOK, Request
<1>4. PICK by : Charges(by)
  BY DEF AttemptsInv
<1>5. \A i \in Known : by[i][1] \in Sips /\ by[i][2] \in 1..MaxAttempts
                       /\ Attempted(by[i][1], by[i][2])
  BY <1>4 DEF Charges
<1>6. f.attempt <= f.attempt /\ Attempted(s, f.attempt)'
  <2>1. f.attempt \in 1..MaxAttempts
    BY Zenon DEF Flow
  <2>2. \A n \in 1..MaxAttempts : n <= n
    OBVIOUS
  <2> QED
    BY <2>1, <2>2 DEF Attempted
<1> HIDE DEF m
<1>7. requests' = requests \cup {m}
  BY DEF m
<1>8. \A i \in Known : by[i] # <<s, f.attempt>>
  BY <1>5
<1>9. Charges(by)'
  <2>1. \A i \in Known : \A n \in requests' : n.op = "task" => by[i] # <<n.sip, n.attempt>>
    BY <1>1, <1>4, <1>7, <1>8 DEF Charges
  <2> QED
    BY <1>2, <1>4, <1>5, <2>1 DEF Charges
<1>10. \A n \in requests' : n.op = "task" => TaskPost(n) /\ Attempted(n.sip, n.attempt)'
  BY <1>1, <1>2, <1>3, <1>6, <1>7 DEF AttemptsInv
<1>11. \A t \in Sips : flow'[t].pc \in PrePcs => flow'[t].session = 1
  BY DEF AttemptsInv
<1>12. \A n : TaskPost(n)' <=> TaskPost(n)
  BY DEF TaskPost
<1> QED
  BY <1>9, <1>10, <1>11, <1>12 DEF AttemptsInv

\* Nobody moves and no task is created.
LEMMA AttemptsStay ==
  ASSUME AttemptsInv, UNCHANGED flow, Known' = Known, requests' \subseteq requests
  PROVE  AttemptsInv'
<1>1. PICK by : Charges(by)
  BY DEF AttemptsInv
<1>2. Charges(by)'
  BY <1>1 DEF Charges, Attempted
<1> QED
  BY <1>2 DEF AttemptsInv, Attempted, TaskPost

\* APIS creates a task: it is charged to the attempt of its POST.
LEMMA AttemptServed ==
  ASSUME Inv, AttemptsInv, UNCHANGED flow, NEW m \in requests, m.op = "task",
         requests' = requests \ {m}, NEW n, n \notin Known, Known' = Known \cup {n}
  PROVE  AttemptsInv'
<1>1. PICK by : Charges(by)
  BY DEF AttemptsInv
<1> DEFINE at == <<m.sip, m.attempt>>
<1>b. PICK by2 : by2 = [i \in Known \cup {n} |-> IF i = n THEN at ELSE by[i]]
  OBVIOUS
<1>2. at \in Sips \X (1..MaxAttempts) /\ Attempted(at[1], at[2]) /\ TaskPost(m)
  BY DEF Inv, TypeOK, Request, AttemptsInv
<1>3. \A i \in Known : by[i] # at
  BY <1>1 DEF Charges
<1>4. \A r \in requests' : r.op = "task" => at # <<r.sip, r.attempt>>
  <2> SUFFICES ASSUME NEW r \in requests', r.op = "task", at = <<r.sip, r.attempt>>
               PROVE  FALSE
    OBVIOUS
  <2>1. r \in Request /\ m \in Request /\ r # m /\ TaskPost(r)
    BY DEF Inv, TypeOK, AttemptsInv
  <2>2. \A q \in Request :
          q = [op |-> q.op, sip |-> q.sip, session |-> q.session, attempt |-> q.attempt,
               task |-> q.task, behaviour |-> q.behaviour]
    BY DEF Request
  <2>3. r.sip = m.sip /\ r.attempt = m.attempt
    OBVIOUS
  <2>4. r = m
    BY <1>2, <2>1, <2>2, <2>3 DEF TaskPost
  <2> QED
    BY <2>1, <2>4
<1>5. Charges(by2)'
  <2> HIDE DEF at
  <2>1. by2 \in [Known' -> Sips \X (1..MaxAttempts)]
    BY <1>1, <1>2, <1>b DEF Charges
  <2>2. \A i \in Known : by2[i] = by[i] /\ i # n
    BY <1>b
  <2>3. by2[n] = at
    BY <1>b
  <2>4. \A i, j \in Known' : by2[i] = by2[j] => i = j
    BY <1>1, <1>3, <2>2, <2>3 DEF Charges
  <2>5. \A i \in Known' : Attempted(by2[i][1], by2[i][2])'
    <3>1. \A t, k : Attempted(t, k)' <=> Attempted(t, k)
      BY DEF Attempted
    <3>2. \A i \in Known' : Attempted(by2[i][1], by2[i][2])
      BY <1>1, <1>2, <2>2, <2>3 DEF Charges
    <3> QED
      BY <3>1, <3>2
  <2>6. \A i \in Known' : \A r \in requests' : r.op = "task" => by2[i] # <<r.sip, r.attempt>>
    BY <1>1, <1>4, <2>2, <2>3 DEF Charges
  <2> QED
    BY <2>1, <2>4, <2>5, <2>6 DEF Charges
<1> QED
  BY <1>5 DEF AttemptsInv, Attempted, TaskPost

\* A step of SIP s once its task POST is answered or given up: it makes no task, and
\* sends no request for one.
Later(s) ==
  /\ \A t \in Sips \ {s} : flow'[t] = flow[t]
  /\ flow'[s].pc \notin {"checks", "submit"}
  /\ flow'[s].pc \in PrePcs => flow[s].pc \in PrePcs /\ flow'[s].session = flow[s].session
  /\ \A m \in requests' : m.op = "task" => m \in requests
  /\ UNCHANGED tasks \/ APIImporttasksIDStatusGet(flow[s].task)

\* Such a step keeps what is charged, and touches only the task the SIP owns.
LEMMA LaterCounted ==
  ASSUME Inv, CountInv, Kept, NEW s \in Sips, Later(s)
  PROVE  CountInv'
<1>3. Known' = Known /\ \A id \in Known : id # flow[s].task => tasks'[id] = tasks[id]
  <2>1. CASE UNCHANGED tasks
    BY <2>1 DEF Known
  <2>2. CASE APIImporttasksIDStatusGet(flow[s].task)
    <3>1. Known' = Known
      BY <2>2, PollFacts DEF Inv, TypeOK
    <3>2. \A id \in Known : id # flow[s].task => tasks'[id] = tasks[id]
      BY <2>2, KnownFacts DEF APIImporttasksIDStatusGet, Inv, TypeOK
    <3> QED
      BY <3>1, <3>2
  <2> QED
    BY <2>1, <2>2 DEF Later
<1>4. AttemptsInv'
  <2>1. flow'[s].pc \in PrePcs => flow'[s].session = 1
    BY DEF CountInv, AttemptsInv, Later
  <2> QED
    BY <1>3, <2>1, AttemptsPassed DEF CountInv, Later
<1>5. OrphanInv'
  <2> SUFFICES ASSUME NEW id \in Known, Orphan(id)' PROVE Untouched(tasks'[id])
    BY <1>3 DEF OrphanInv, Untouched
  <2>1. id # NoTask /\ Orphan(id)
    <3>1. \A t \in Sips : FlowKept(t)
      BY DEF Kept
    <3>2. id # NoTask
      BY KnownFacts DEF Inv, TypeOK
    <3> QED
      BY <3>1, <3>2 DEF Orphan, FlowKept
  <2>2. tasks'[id] = tasks[id]
    BY <1>3, <2>1 DEF Orphan
  <2> QED
    BY <2>1, <2>2 DEF CountInv, OrphanInv
<1> QED
  BY <1>4, <1>5 DEF CountInv

\* Which steps these are.
LEMMA LaterSteps ==
  ASSUME Inv, NEW s \in Sips,
         \/ ReceiveTask(s) \/ PollAnalysis(s) \/ Decide(s) \/ Build(s) \/ Store(s)
         \/ PostStep(s) \/ PollFails(s) \/ LoseSession(s)
  PROVE  Later(s)
<1>0. flow \in [Sips -> Flow] /\ flow[s] \in Flow
  BY FlowFacts
<1>m. \A f : Message("run", s, f).op # "task"
  BY DEF Message
<1> DEFINE Moved(f) ==
      /\ f.pc \notin {"checks", "submit"}
      /\ f.pc \in PrePcs => flow[s].pc \in PrePcs /\ f.session = flow[s].session
<1>f. ASSUME NEW f, Move(s, f), Moved(f)
      PROVE  /\ \A t \in Sips \ {s} : flow'[t] = flow[t]
             /\ Moved(flow'[s])
  <2>1. flow'[s] = f /\ \A t \in Sips \ {s} : flow'[t] = flow[t]
    BY <1>0, <1>f, MoveFacts
  <2> QED
    BY <1>f, <2>1
<1>o. \A o : flow[s].pc \in PrePcs => Moved(PreOver(flow[s], o))
  BY <1>0 DEF PreOver, PrePcs, Flow
<1>p. Moved(PostFailed(flow[s]))
  BY <1>0 DEF PostFailed, PrePcs, Flow
<1> HIDE DEF Moved
<1> DEFINE Posts == \A m \in requests' : m.op = "task" => m \in requests
<1>l. ASSUME NEW f, Move(s, f), Moved(f), Posts,
             UNCHANGED tasks \/ APIImporttasksIDStatusGet(flow[s].task)
      PROVE  Later(s)
  BY <1>f, <1>l DEF Later, Moved
<1>1. CASE ReceiveTask(s)
  <2>1. PICK a : Move(s, IF a.body = "created"
                        THEN [flow[s] EXCEPT !.pc = "poll", !.task = a.id, !.attempt = 1]
                        ELSE PreOver(flow[s], "system error"))
    BY <1>1 DEF ReceiveTask
  <2>2. /\ flow[s].pc \in PrePcs
        /\ Moved([flow[s] EXCEPT !.pc = "poll", !.task = a.id, !.attempt = 1])
    BY <1>0, <1>1 DEF ReceiveTask, Moved, PrePcs, Flow
  <2>3. Posts /\ UNCHANGED tasks
    BY <1>1 DEF ReceiveTask
  <2> QED
    BY <1>l, <1>o, <2>1, <2>2, <2>3
<1>2. CASE PollAnalysis(s)
  <2> DEFINE r == StatusResponse(AdvanceTask(tasks[flow[s].task])).analysisResult
  <2>1. \/ UNCHANGED flow \/ Move(s, PreOver(flow[s], "system error"))
        \/ Move(s, AfterAnalysis(flow[s], r))
    BY <1>2 DEF PollAnalysis, AnalysisComplete
  <2> HIDE DEF r
  <2>2. flow[s].pc = "poll" /\ flow[s].pc \in PrePcs
    BY <1>2 DEF PollAnalysis, PrePcs
  <2>3. Moved(AfterAnalysis(flow[s], r))
    <3>1. /\ Moved([flow[s] EXCEPT !.pc = "build", !.attempt = 1, !.metadata = NoDecision])
          /\ Moved([flow[s] EXCEPT !.pc = "decision", !.attempt = 1])
      BY <1>0, <2>2 DEF Moved, Flow
    <3> QED
      BY <1>o, <2>2, <3>1 DEF AfterAnalysis
  <2>4. UNCHANGED flow => Move(s, flow[s])
    BY <1>0 DEF Move
  <2>5. Moved(flow[s])
    BY <2>2 DEF Moved
  <2>6. Posts /\ APIImporttasksIDStatusGet(flow[s].task)
    BY <1>2 DEF PollAnalysis
  <2> QED
    BY <1>l, <1>o, <2>1, <2>2, <2>3, <2>4, <2>5, <2>6
<1>3. CASE Decide(s)
  <2>1. /\ flow[s].pc \in PrePcs
        /\ \A o : Moved([flow[s] EXCEPT !.pc = "build", !.decision = o, !.metadata = o])
        /\ Moved([PreOver(flow[s], "content error") EXCEPT !.decision = "cancel"])
    BY <1>0, <1>3 DEF Decide, Moved, PreOver, PrePcs, Flow
  <2>2. Posts /\ UNCHANGED tasks
    BY <1>3 DEF Decide
  <2> QED
    BY <1>3, <1>l, <1>o, <2>1, <2>2 DEF Decide
<1>4. CASE Build(s)
  <2>1. flow[s].pc \in PrePcs /\ Moved([flow[s] EXCEPT !.pc = "store", !.pre = "success"])
    BY <1>0, <1>4 DEF Build, Moved, PrePcs, Flow
  <2>2. Posts /\ UNCHANGED tasks
    BY <1>4 DEF Build
  <2> QED
    BY <1>4, <1>l, <1>o, <2>1, <2>2 DEF Build
<1>5. CASE Store(s)
  <2>1. Moved([flow[s] EXCEPT !.pc = "download"]) /\ Moved([flow[s] EXCEPT !.pc = "over"])
    BY <1>0 DEF Moved, PrePcs, Flow
  <2>2. Posts /\ UNCHANGED tasks
    BY <1>5 DEF Store
  <2> QED
    BY <1>5, <1>l, <2>1, <2>2 DEF Store
<1>6. CASE Download(s)
  <2>1. Moved([flow[s] EXCEPT !.pc = "run", !.attempt = 1])
    BY <1>0 DEF Moved, PrePcs, Flow
  <2>2. Posts /\ UNCHANGED tasks
    BY <1>6, <1>m DEF Download, MoveAndSend
  <2> QED
    BY <1>6, <1>l, <1>p, <2>1, <2>2 DEF Download, MoveAndSend
<1>7. CASE ReceiveRun(s)
  <2>1. PICK a : Move(s, IF a.body = "created"
                        THEN [flow[s] EXCEPT !.pc = "poll run", !.attempt = 1]
                        ELSE PostFailed(flow[s]))
    BY <1>7 DEF ReceiveRun
  <2>2. Moved([flow[s] EXCEPT !.pc = "poll run", !.attempt = 1])
    BY <1>0 DEF Moved, PrePcs, Flow
  <2>3. Posts /\ UNCHANGED tasks
    BY <1>7 DEF ReceiveRun
  <2> QED
    BY <1>l, <1>p, <2>1, <2>2, <2>3
<1>8. CASE RetryRun(s)
  <2>1. Moved([flow[s] EXCEPT !.attempt = flow[s].attempt + 1])
    BY <1>0, <1>8 DEF RetryRun, Moved, PrePcs, Flow
  <2>2. Posts /\ UNCHANGED tasks
    BY <1>8, <1>m DEF RetryRun, MoveAndSend
  <2> QED
    BY <1>8, <1>l, <1>p, <2>1, <2>2 DEF RetryRun, MoveAndSend
<1>9. CASE PollImport(s)
  <2>1. \/ UNCHANGED flow \/ Move(s, PostFailed(flow[s]))
        \/ Move(s, [flow[s] EXCEPT !.pc = "clean up"])
    BY <1>9 DEF PollImport, ImportComplete
  <2>2. Moved([flow[s] EXCEPT !.pc = "clean up"]) /\ Moved(flow[s])
    BY <1>0, <1>9 DEF PollImport, Moved, PrePcs, Flow
  <2>3. UNCHANGED flow => Move(s, flow[s])
    BY <1>0 DEF Move
  <2>4. Posts /\ APIImporttasksIDStatusGet(flow[s].task)
    BY <1>9 DEF PollImport
  <2> QED
    BY <1>l, <1>p, <2>1, <2>2, <2>3, <2>4
<1>10. CASE CleanUp(s)
  <2>1. \A o : Moved([flow[s] EXCEPT !.pc = "over", !.post = o])
    BY <1>0 DEF Moved, PrePcs, Flow
  <2>2. Posts /\ UNCHANGED tasks
    BY <1>10 DEF CleanUp
  <2> QED
    BY <1>10, <1>l, <2>1, <2>2 DEF CleanUp
<1>11. CASE PollFails(s)
  <2>1. /\ Moved([flow[s] EXCEPT !.attempt = flow[s].attempt + 1])
        /\ flow[s].pc = "poll" => flow[s].pc \in PrePcs
    BY <1>0, <1>11 DEF PollFails, Moved, PrePcs, Flow
  <2>2. Posts /\ (UNCHANGED tasks \/ APIImporttasksIDStatusGet(flow[s].task))
    BY <1>11 DEF PollFails
  <2> QED
    BY <1>11, <1>l, <1>o, <1>p, <2>1, <2>2 DEF PollFails
<1>12. CASE LoseSession(s)
  <2>1. PICK f \in {flow[s], [flow[s] EXCEPT !.outcome = "system error"]} :
          Move(s, IF f.session < MaxSessions
                  THEN [f EXCEPT !.pc = "download", !.session = f.session + 1, !.attempt = 1]
                  ELSE [f EXCEPT !.pc = "over", !.post = "failed"])
    BY <1>12 DEF LoseSession
  <2>2. /\ Moved([f EXCEPT !.pc = "download", !.session = f.session + 1, !.attempt = 1])
        /\ Moved([f EXCEPT !.pc = "over", !.post = "failed"])
    BY <1>0 DEF Moved, PrePcs, Flow
  <2>3. Posts /\ UNCHANGED tasks
    BY <1>12 DEF LoseSession
  <2> QED
    BY <1>l, <2>1, <2>2, <2>3
<1> QED
  BY <1>1, <1>2, <1>3, <1>4, <1>5, <1>6, <1>7, <1>8, <1>9, <1>10, <1>11, <1>12 DEF PostStep

\* The first attempt to create a task, the next one, or the end of them.
LEMMA AttemptsCounted ==
  ASSUME Inv, CountInv, Kept, NEW s \in Sips, Checks(s) \/ RetryTask(s)
  PROVE  CountInv'
<1>0. flow \in [Sips -> Flow] /\ flow[s] \in Flow /\ PhaseInv(flow[s], Known)
  BY FlowFacts
<1>1. UNCHANGED tasks /\ Known' = Known
  BY DEF Checks, RetryTask, Known
<1>2. OrphanInv'
  <2>1. \A id \in Known : Orphan(id)' => Orphan(id)
    <3>1. \A id \in Known : id # NoTask
      BY KnownFacts DEF Inv, TypeOK
    <3>2. \A t \in Sips : flow[t].task # NoTask => flow'[t].task = flow[t].task
      BY DEF Kept, FlowKept
    <3> QED
      BY <3>1, <3>2 DEF Orphan
  <2> QED
    BY <1>1, <2>1 DEF CountInv, OrphanInv, Untouched
<1>3. ASSUME NEW o, Move(s, PreOver(flow[s], o)), UNCHANGED requests
      PROVE  AttemptsInv'
  <2>1. PreOver(flow[s], o).pc = "over"
    BY <1>0 DEF PreOver, Flow
  <2>2. flow'[s].pc = "over" /\ \A t \in Sips \ {s} : flow'[t] = flow[t]
    BY <1>0, <1>3, <2>1, MoveFacts
  <2> QED
    BY <1>1, <1>3, <2>2, AttemptsPassed DEF CountInv, PrePcs
<1>4. ASSUME NEW f \in Flow, MoveAndSend(s, f, "task"), f.pc = "submit",
             flow[s].pc \in {"checks", "submit"},
             f.session = flow[s].session, f.task = flow[s].task,
             ~Attempted(s, f.attempt), \A k \in 1..MaxAttempts : Attempted(s, k) => k <= f.attempt
      PROVE  AttemptsInv'
  <2>1. f.session = 1 /\ f.task = NoTask
    BY <1>0, <1>4 DEF PhaseInv, CountInv, AttemptsInv, PrePcs
  <2>2. flow'[s] = f /\ \A t \in Sips \ {s} : flow'[t] = flow[t]
    BY <1>0, <1>4, MoveFacts DEF MoveAndSend
  <2>3. requests' = requests \cup {Message("task", s, f)}
    BY <1>4 DEF MoveAndSend
  <2> QED
    BY <1>1, <1>4, <2>1, <2>2, <2>3, AttemptMade DEF CountInv
<1>5. CASE Checks(s)
  <2> DEFINE f == [flow[s] EXCEPT !.pc = "submit", !.sent = TRUE]
  <2>1. /\ f \in Flow /\ f.pc = "submit" /\ f.session = flow[s].session
        /\ f.task = flow[s].task
    BY <1>0 DEF Flow
  <2>2. flow[s].pc = "checks" /\ \A k : ~Attempted(s, k)
    BY <1>5 DEF Checks, Attempted
  <2> HIDE DEF f
  <2>3. MoveAndSend(s, f, "task") => AttemptsInv'
    BY <1>4, <2>1, <2>2
  <2>4. \/ MoveAndSend(s, f, "task")
        \/ \E o \in {"content error", "system error"} : Move(s, PreOver(flow[s], o)) /\ UNCHANGED requests
    BY <1>5 DEF Checks, f
  <2> QED
    BY <1>2, <1>3, <2>3, <2>4 DEF CountInv
<1>6. CASE RetryTask(s)
  <2> DEFINE f == [flow[s] EXCEPT !.attempt = flow[s].attempt + 1]
  <2>1. \/ flow[s].attempt < MaxAttempts /\ MoveAndSend(s, f, "task")
        \/ Move(s, PreOver(flow[s], "system error")) /\ UNCHANGED requests
    BY <1>6 DEF RetryTask
  <2>2. ASSUME flow[s].attempt < MaxAttempts, MoveAndSend(s, f, "task")
        PROVE  AttemptsInv'
    <3>1. flow[s].attempt + 1 \in 1..MaxAttempts
      BY <2>2, FlowFacts
    <3>2. /\ f \in Flow /\ f.pc = flow[s].pc /\ f.session = flow[s].session
          /\ f.task = flow[s].task /\ f.attempt = flow[s].attempt + 1
      BY <1>0, <3>1 DEF Flow
    <3>3. flow[s].pc = "submit" /\ \A k : Attempted(s, k) => k <= flow[s].attempt
      BY <1>6 DEF RetryTask, Attempted
    <3>4. flow[s].attempt \in 1..MaxAttempts /\ MaxAttempts \in Nat
      BY <1>0, BoundsPositive DEF Flow
    <3>5. \A max \in Nat : \A n \in 1..max :
            ~(n + 1 <= n) /\ \A k \in 1..max : k <= n => k <= n + 1
      OBVIOUS
    <3>6. /\ ~Attempted(s, f.attempt)
          /\ \A k \in 1..MaxAttempts : Attempted(s, k) => k <= f.attempt
      BY <3>2, <3>3, <3>4, <3>5
    <3> HIDE DEF f
    <3> QED
      BY <1>4, <2>2, <3>2, <3>3, <3>6
  <2> QED
    BY <1>2, <1>3, <2>1, <2>2 DEF CountInv
<1> QED
  BY <1>5, <1>6

\* APIS serves a request: a new task is charged to it, a run is for a task with an owner.
LEMMA ServeCounted ==
  ASSUME Inv, CountInv, NEW m \in requests, Serve(m)
  PROVE  CountInv'
<1>1. UNCHANGED flow /\ requests' = requests \ {m} /\ m.sip \in Sips
  BY DEF Serve, Inv, TypeOK, Request
<1>2. \A id : Orphan(id)' <=> Orphan(id)
  BY <1>1 DEF Orphan
<1>3. CASE m.op = "task" /\ APIImporttasksPost
  <2> DEFINE n == Len(tasks) + 1
  <2>1. Known' = Known \cup {n} /\ n \notin Known /\ \A j \in Known : tasks'[j] = tasks[j]
    BY <1>3, PostFacts DEF Inv, TypeOK
  <2>2. Untouched(tasks'[n])
    <3>1. tasks \in Seq(TaskState) /\ tasks' = Append(tasks, NewTask)
      BY <1>3 DEF APIImporttasksPost, Inv, TypeOK, MockTypeOK
    <3>2. tasks'[n] = NewTask
      BY <3>1, AppendProperties DEF NewTask
    <3> QED
      BY <3>2 DEF Untouched, NewTask
  <2> HIDE DEF n
  <2>3. AttemptsInv'
    BY <1>1, <1>3, <2>1, AttemptServed DEF CountInv
  <2>4. OrphanInv'
    BY <1>2, <2>1, <2>2 DEF CountInv, OrphanInv
  <2> QED
    BY <2>3, <2>4 DEF CountInv
<1>4. CASE m.op = "run" /\ APIImporttasksIDImportrunsPost(m.task)
  <2>1. Known' = Known
    BY <1>4, StartFacts DEF Inv, TypeOK
  <2>2. \A id \in Known : id # m.task => tasks'[id] = tasks[id]
    BY <1>4, KnownFacts DEF APIImporttasksIDImportrunsPost, Inv, TypeOK
  <2>3. ~Orphan(m.task)
    BY <1>1, <1>4 DEF Orphan, Inv, RunsInv, Authorised
  <2>4. OrphanInv'
    BY <1>2, <2>1, <2>2, <2>3 DEF CountInv, OrphanInv, Untouched
  <2>5. AttemptsInv'
    BY <1>1, <2>1, AttemptsStay DEF CountInv
  <2> QED
    BY <2>4, <2>5 DEF CountInv
<1>5. CASE UNCHANGED tasks
  <2>1. Known' = Known
    BY <1>5 DEF Known
  <2>2. AttemptsInv'
    BY <1>1, <2>1, AttemptsStay DEF CountInv
  <2>3. OrphanInv'
    BY <1>2, <1>5, <2>1 DEF CountInv, OrphanInv, Untouched
  <2> QED
    BY <2>2, <2>3 DEF CountInv
<1> QED
  BY <1>3, <1>4, <1>5 DEF Serve

\* A clerk may cancel an orphan; nothing else becomes of it.
LEMMA ClerkCounted ==
  ASSUME Inv, CountInv, NEW id \in Known, ClerkCancels(id)
  PROVE  CountInv'
<1>1. APIImporttasksIDCancelPost(id) /\ UNCHANGED <<flow, requests>>
  BY DEF ClerkCancels
<1>2. Known' = Known /\ \A j \in Known : tasks'[j].run = tasks[j].run
  BY <1>1, CancelFacts DEF Inv, TypeOK
<1>3. tasks[id] \in TaskState /\ id \in DOMAIN tasks /\ DOMAIN tasks = Known
  BY KnownFacts DEF Inv, TypeOK
<1>4. /\ tasks' = [tasks EXCEPT ![id] = CancelTask(tasks[id])]
      /\ CancelTask(tasks[id]).status = "Abgebrochen"
  BY <1>1, <1>3 DEF APIImporttasksIDCancelPost, CancelTask, TaskState
<1>5. \A j \in Known : tasks'[j].status \in {tasks[j].status, "Abgebrochen"}
  BY <1>3, <1>4
<1>6. OrphanInv'
  BY <1>1, <1>2, <1>5 DEF CountInv, OrphanInv, Orphan, Untouched
<1>7. AttemptsInv'
  BY <1>1, <1>2, AttemptsStay DEF CountInv
<1> QED
  BY <1>6, <1>7 DEF CountInv

\* Nothing is charged at the start.
LEMMA InitCount == Init => CountInv
<1> SUFFICES ASSUME Init PROVE CountInv
  OBVIOUS
<1>1. Known = {}
  BY DEF Init, MockInit, Known
<1>2. \A s \in Sips : flow[s].session = 1
  BY DEF Init
<1>3. PICK by : by = [i \in {} |-> 0]
  OBVIOUS
<1>4. Charges(by)
  BY <1>1, <1>3 DEF Charges
<1> QED
  BY <1>1, <1>2, <1>4 DEF Init, CountInv, AttemptsInv, OrphanInv

\* The inductive step.
LEMMA NextCount == Inv /\ CountInv /\ [Next]_vars => CountInv'
<1> SUFFICES ASSUME Inv, CountInv, [Next]_vars PROVE CountInv'
  OBVIOUS
<1>1. Kept
  BY NextInv
<1>2. ASSUME NEW s \in Sips, Step(s) \/ PollFails(s) \/ LoseSession(s) PROVE CountInv'
  <2>1. CASE Checks(s) \/ RetryTask(s)
    BY <1>1, <2>1, AttemptsCounted
  <2>2. CASE \/ ReceiveTask(s) \/ PollAnalysis(s) \/ Decide(s) \/ Build(s) \/ Store(s)
             \/ PostStep(s) \/ PollFails(s) \/ LoseSession(s)
    BY <1>1, <2>2, LaterSteps, LaterCounted
  <2> QED
    BY <1>2, <2>1, <2>2 DEF Step, PreStep
<1>3. ASSUME NEW m \in requests, Serve(m) PROVE CountInv'
  BY <1>3, ServeCounted
<1>4. ASSUME NEW id \in Known, ClerkCancels(id) PROVE CountInv'
  BY <1>4, ClerkCounted
<1>5. CASE UNCHANGED vars
  <2>1. UNCHANGED <<flow, tasks, requests>> /\ Known' = Known
    BY <1>5 DEF vars, Known
  <2>2. AttemptsInv'
    BY <2>1, AttemptsStay DEF CountInv
  <2>3. OrphanInv'
    BY <2>1 DEF CountInv, OrphanInv, Orphan, Untouched
  <2> QED
    BY <2>2, <2>3 DEF CountInv
<1> QED
  BY <1>2, <1>3, <1>4, <1>5 DEF Next

\* Tasks that are charged to different attempts are at most as many as the attempts.
LEMMA ChargesBound ==
  ASSUME MockTypeOK, NEW by, Charges(by)
  PROVE  Len(tasks) <= MaxAttempts * Cardinality(Sips)
<1>1. Len(tasks) \in Nat /\ MaxAttempts \in Nat /\ 1 <= MaxAttempts
  BY KnownFacts, BoundsPositive
<1>2. IsFiniteSet(1..MaxAttempts) /\ Cardinality(1..MaxAttempts) = MaxAttempts
  BY <1>1, FS_Interval, SMTT(60)
<1>3. /\ IsFiniteSet(Sips \X (1..MaxAttempts)) /\ Cardinality(Sips) \in Nat
      /\ Cardinality(Sips \X (1..MaxAttempts)) = Cardinality(Sips) * MaxAttempts
  BY <1>2, SipsFinite, FS_Product, FS_CardinalityType
<1>4. by \in Injection(Known, Sips \X (1..MaxAttempts))
  <2>1. \A i, j \in Known : by[i] = by[j] => i = j
    BY DEF Charges
  <2>2. IsInjective(by)
    BY <2>1 DEF Charges, IsInjective
  <2> QED
    BY <2>2 DEF Charges, Injection
<1>5. Cardinality(Known) <= Cardinality(Sips \X (1..MaxAttempts))
  BY <1>3, <1>4, FS_Injection
<1>6. Cardinality(Known) = Len(tasks)
  <2>1. Cardinality(1..Len(tasks)) = IF 1 > Len(tasks) THEN 0 ELSE Len(tasks) - 1 + 1
    BY <1>1, FS_Interval, SMTT(60)
  <2> QED
    BY <1>1, <2>1 DEF Known
<1>7. \A a, b \in Nat : a * b = b * a
  OBVIOUS
<1> QED
  BY <1>1, <1>3, <1>5, <1>6, <1>7

-----------------------------------------------------------------------------
(* Theorems.                                                                *)

\* The state of the ingests and of the server is well formed.
THEOREM TypeCorrect == Spec => []TypeOK
<1>1. Inv => TypeOK
  BY DEF Inv
<1> QED
  BY Invariance, <1>1, PTL

\* However many SIPs there are, and however often their POSTs are repeated, late or
\* lost: APIS imports each AIP at most once.
THEOREM ImportedAtMostOnce == Spec => []AtMostOneImport
<1>1. ASSUME Inv PROVE AtMostOneImport
  <2> SUFFICES ASSUME NEW s \in Sips PROVE Cardinality(RunsOf(s)) <= 1
    BY DEF AtMostOneImport
  <2>1. \A i, j \in RunsOf(s) : i = j
    BY <1>1 DEF RunsOf, Inv, RunsInv, Authorised
  <2>2. CASE RunsOf(s) = {}
    BY <2>2, FS_EmptySet
  <2>3. ASSUME NEW i \in RunsOf(s) PROVE Cardinality(RunsOf(s)) <= 1
    <3>1. RunsOf(s) = {i}
      BY <2>1
    <3> QED
      BY <3>1, FS_Singleton
  <2> QED
    BY <2>2, <2>3
<1> QED
  BY Invariance, <1>1, PTL

\* Nothing is imported but what was preprocessed to the end, under the task it was
\* analysed in and the way that was decided.
THEOREM OnlyAuthorisedImports == Spec => []ImportsAreAuthorised
<1>1. ASSUME Inv PROVE ImportsAreAuthorised
  <2> SUFFICES ASSUME NEW i \in imported
               PROVE  LET f == flow[i.sip] IN
                        /\ f.pre = "success" /\ f.task = i.task
                        /\ tasks[i.task].analysisResult \in {"AlleNeu", "AlleGleich"} =>
                             i.behaviour = "AppendOnly"
                        /\ tasks[i.task].analysisResult = "Konflikte" =>
                             /\ f.decision \in {"overwrite", "append"}
                             /\ i.behaviour = "OverwriteAndAppend" <=> f.decision = "overwrite"
                        /\ tasks[i.task].analysisResult # "Fehler"
    BY DEF ImportsAreAuthorised
  <2> DEFINE f == flow[i.sip]
  <2>1. /\ f.pre = "success" /\ i.task = f.task
        /\ i.behaviour = ImportBehaviour(f.metadata) /\ i.sip \in Sips
    BY <1>1 DEF Inv, RunsInv, Authorised, TypeOK
  <2>2. Decided(f, tasks[f.task])
    BY <1>1, <2>1 DEF Inv, FlowInv, KnowledgeInv
  <2> QED
    BY <2>1, <2>2 DEF Decided, ImportBehaviour, NoDecision
<1> QED
  BY Invariance, <1>1, PTL

\* A poststorage result that says success is about an AIP that APIS has imported, in a
\* run that this SIP asked for.
THEOREM SuccessIsImported == Spec => []SuccessMeansImported
<1>1. ASSUME Inv PROVE SuccessMeansImported
  <2> SUFFICES ASSUME NEW s \in Sips, flow[s].post = "success"
               PROVE  /\ tasks[flow[s].task].status = "Importiert"
                      /\ tasks[flow[s].task].importResult = "Erfolgreich"
                      /\ RunsOf(s) # {}
    BY DEF SuccessMeansImported
  <2> DEFINE id == flow[s].task
  <2>1. /\ Imported(tasks[id]) /\ id # NoTask /\ id \in Known
    BY <1>1 DEF Inv, FlowInv, KnowledgeInv, PhaseInv
  <2>2. PICK i \in imported : i.task = id
    BY <1>1, <2>1 DEF Inv, TasksInv, TaskInv, RunsInv, Imported
  <2>3. i.sip \in Sips /\ flow[i.sip].task = id
    BY <1>1, <2>2 DEF Inv, RunsInv, Authorised, TypeOK
  <2>4. i.sip = s
    BY <1>1, <2>1, <2>3 DEF Inv, OwnersInv
  <2> QED
    BY <2>1, <2>2, <2>4 DEF Imported, RunsOf
<1> QED
  BY Invariance, <1>1, PTL

-----------------------------------------------------------------------------
(* The contract of module PreprocessingContract.                            *)

\* What the contract speaks of, before the outcome of the analysis is known.
SentInv(f) ==
  /\ f.pc = "checks" => f.sent = FALSE /\ f.metadata = "unset"
  /\ f.pc \in {"submit", "poll", "decision"} => f.sent = TRUE /\ f.metadata = "unset"

\* A move from flow state f to g that the contract allows: nothing it speaks of
\* changes, or one of its steps.
Same(f, g)     == g.pre = f.pre /\ g.sent = f.sent /\ g.metadata = f.metadata
Rejects(f, g)  == f.pc = "checks" /\ g = [f EXCEPT !.pc = "over", !.pre = "content error"]
Submits(f, g)  == f.pc = "checks" /\ g.sent = TRUE /\ g.pre = f.pre /\ g.metadata = f.metadata
Fails(f, g)    == f.pc \in PrePcs /\ g = PreOver(f, "system error")
Accepts(f, g)  == /\ f.pc \in {"poll", "decision"} /\ g.metadata \in Decisions
                  /\ g.pre = f.pre /\ g.sent = f.sent
Cancels(f, g)  == /\ f.pc = "decision" /\ g.pre = "content error"
                  /\ g.sent = f.sent /\ g.metadata = f.metadata
Delivers(f, g) == /\ f.pc = "build" /\ g.pre = "success"
                  /\ g.sent = f.sent /\ g.metadata = f.metadata
Allowed(f, g)  ==
  \/ Same(f, g) \/ Rejects(f, g) \/ Submits(f, g) \/ Fails(f, g) \/ Accepts(f, g)
  \/ Cancels(f, g) \/ Delivers(f, g)

\* An allowed move is a step of the contract or a stutter.
LEMMA AllowedIsContract ==
  ASSUME Inv, NEW s \in Sips, SentInv(flow[s]), Allowed(flow[s], flow'[s])
  PROVE  [Contract(s)!Next]_(Contract(s)!contractVars)
<1> DEFINE f == flow[s]
           g == flow'[s]
<1>1. f \in Flow /\ PhaseInv(f, Known) /\ KnowledgeInv(f, tasks)
  BY FlowFacts
<1>2. CASE Same(f, g)
  BY <1>2 DEF Same, Contract!contractVars
<1>3. CASE Rejects(f, g)
  <2>1. /\ g.pre = "content error" /\ g.sent = f.sent /\ g.metadata = f.metadata
        /\ f.pre = "pending" /\ f.sent = FALSE
    BY <1>1, <1>3 DEF Rejects, Flow, PhaseInv, PrePcs, SentInv
  <2> QED
    BY <2>1 DEF Contract!Next, Contract!Reject
<1>4. CASE Submits(f, g)
  <2>1. f.pre = "pending" /\ f.sent = FALSE
    BY <1>1, <1>4 DEF Submits, PhaseInv, PrePcs, SentInv
  <2> QED
    BY <1>4, <2>1 DEF Submits, Contract!Next, Contract!Submit
<1>5. CASE Fails(f, g)
  <2>1. /\ g.pre = "system error" /\ g.sent = f.sent /\ g.metadata = f.metadata
        /\ f.pre = "pending"
    BY <1>1, <1>5 DEF Fails, PreOver, Flow, PhaseInv
  <2> QED
    BY <2>1 DEF Contract!Next, Contract!Fail
<1>6. CASE Accepts(f, g)
  <2>1. f.pre = "pending" /\ f.sent = TRUE /\ f.metadata = "unset"
    BY <1>1, <1>6 DEF Accepts, PhaseInv, PrePcs, SentInv
  <2> QED
    BY <1>6, <2>1 DEF Accepts, Contract!Next, Contract!Accept
<1>7. CASE Cancels(f, g)
  <2>1. f.pre = "pending" /\ f.sent = TRUE /\ f.metadata = "unset"
    BY <1>1, <1>7 DEF Cancels, PhaseInv, PrePcs, SentInv
  <2> QED
    BY <1>7, <2>1 DEF Cancels, Contract!Next, Contract!CancelIngest
<1>8. CASE Delivers(f, g)
  <2>1. f.pre = "pending" /\ f.metadata # "unset"
    BY <1>1, <1>8 DEF Delivers, PhaseInv, PrePcs, KnowledgeInv, Decided, NoDecision
  <2> QED
    BY <1>8, <2>1 DEF Delivers, Contract!Next, Contract!Deliver
<1> QED
  BY <1>2, <1>3, <1>4, <1>5, <1>6, <1>7, <1>8 DEF Allowed

\* Every step of a SIP is a move the contract allows, and sends its metadata in time.
LEMMA StepAllowed ==
  ASSUME Inv, NEW s \in Sips, SentInv(flow[s]), Step(s) \/ PollFails(s) \/ LoseSession(s)
  PROVE  Allowed(flow[s], flow'[s]) /\ SentInv(flow'[s])
<1> DEFINE f == flow[s]
<1>0. /\ f \in Flow /\ PhaseInv(f, Known)
      /\ \A g : Move(s, g) => flow'[s] = g
  BY FlowFacts, MoveFacts
<1>o. ASSUME NEW o \in {"content error", "system error"}, Move(s, PreOver(f, o)), f.pc \in PrePcs,
             o = "content error" => f.pc = "checks"
      PROVE  Allowed(f, flow'[s]) /\ SentInv(flow'[s])
  <2>1. flow'[s] = PreOver(f, o) /\ flow'[s].pc = "over"
    BY <1>0, <1>o DEF PreOver, Flow
  <2> QED
    BY <1>o, <2>1 DEF Allowed, Rejects, Fails, SentInv, PreOver
\* Moves after preprocessing do not touch what the contract speaks of.
<1>p. ASSUME NEW g \in Flow, Move(s, g), f.pc \in PostPcs, g.pc \in PostPcs \cup {"over"},
             Same(f, g)
      PROVE  Allowed(f, flow'[s]) /\ SentInv(flow'[s])
  BY <1>0, <1>p DEF Allowed, SentInv, PostPcs
\* Moves within preprocessing, as little.
<1>i. ASSUME NEW g \in Flow, Move(s, g), f.pc \in {"submit", "poll", "decision"},
             g.pc \in {"submit", "poll", "decision"}, Same(f, g)
      PROVE  Allowed(f, flow'[s]) /\ SentInv(flow'[s])
  BY <1>0, <1>i DEF Allowed, Same, SentInv
<1>u. CASE UNCHANGED flow
  BY <1>u DEF Allowed, Same
<1>1. CASE Checks(s)
  <2>1. CASE \E o \in {"content error", "system error"} : Move(s, PreOver(f, o))
    BY <1>1, <1>o, <2>1 DEF Checks, PrePcs
  <2>2. CASE Move(s, [f EXCEPT !.pc = "submit", !.sent = TRUE])
    <3>1. flow'[s] = [f EXCEPT !.pc = "submit", !.sent = TRUE]
      BY <1>0, <2>2
    <3>2. /\ flow'[s].pc = "submit" /\ flow'[s].sent = TRUE /\ flow'[s].pre = f.pre
          /\ flow'[s].metadata = f.metadata /\ f.pc = "checks"
      BY <1>0, <1>1, <3>1 DEF Flow, Checks
    <3> QED
      BY <3>2 DEF Allowed, Submits, SentInv
  <2> QED
    BY <1>1, <2>1, <2>2 DEF Checks, MoveAndSend
<1>2. CASE RetryTask(s)
  <2>1. CASE Move(s, PreOver(f, "system error"))
    BY <1>2, <1>o, <2>1 DEF RetryTask, PrePcs
  <2>2. CASE f.attempt < MaxAttempts /\ Move(s, [f EXCEPT !.attempt = f.attempt + 1])
    <3> DEFINE g == [f EXCEPT !.attempt = f.attempt + 1]
    <3>1. g \in Flow /\ g.pc = f.pc /\ f.pc = "submit" /\ Same(f, g)
      BY <1>0, <1>2, <2>2, FlowFacts DEF Flow, Same, RetryTask
    <3> HIDE DEF g
    <3> QED
      BY <1>i, <2>2, <3>1 DEF g
  <2> QED
    BY <1>2, <2>1, <2>2 DEF RetryTask, MoveAndSend
<1>3. CASE ReceiveTask(s)
  <2>0. f.pc = "submit"
    BY <1>3 DEF ReceiveTask
  <2>1. CASE Move(s, PreOver(f, "system error"))
    BY <1>o, <2>0, <2>1 DEF PrePcs
  <2>2. ASSUME NEW a \in answers, Move(s, [f EXCEPT !.pc = "poll", !.task = a.id, !.attempt = 1])
        PROVE  Allowed(f, flow'[s]) /\ SentInv(flow'[s])
    <3>1. flow'[s] = [f EXCEPT !.pc = "poll", !.task = a.id, !.attempt = 1]
      BY <1>0, <2>2
    <3>2. flow'[s].pc = "poll" /\ Same(f, flow'[s])
      BY <1>0, <3>1 DEF Flow, Same
    <3> QED
      BY <2>0, <3>2 DEF Allowed, Same, SentInv
  <2> QED
    BY <1>3, <2>1, <2>2 DEF ReceiveTask, AnswerTo
<1>4. CASE PollAnalysis(s)
  <2> DEFINE result == StatusResponse(AdvanceTask(tasks[f.task])).analysisResult
  <2>1. /\ f.pc = "poll"
        /\ \/ UNCHANGED flow \/ Move(s, PreOver(f, "system error"))
           \/ Move(s, AfterAnalysis(f, result))
    BY <1>4 DEF PollAnalysis, AnalysisComplete
  <2>2. CASE Move(s, PreOver(f, "system error"))
    BY <1>o, <2>1, <2>2 DEF PrePcs
  <2>3. CASE Move(s, AfterAnalysis(f, result)) /\ result \in {"AlleNeu", "AlleGleich"}
    <3>1. flow'[s] = [f EXCEPT !.pc = "build", !.attempt = 1, !.metadata = NoDecision]
      BY <1>0, <2>3 DEF AfterAnalysis
    <3>2. /\ flow'[s].pc = "build" /\ flow'[s].metadata = NoDecision
          /\ flow'[s].pre = f.pre /\ flow'[s].sent = f.sent
      BY <1>0, <3>1 DEF Flow
    <3> QED
      BY <2>1, <3>2 DEF Allowed, Accepts, SentInv, Decisions
  <2>4. CASE Move(s, AfterAnalysis(f, result)) /\ result = "Konflikte"
    <3> DEFINE g == [f EXCEPT !.pc = "decision", !.attempt = 1]
    <3>1. Move(s, g)
      BY <2>4 DEF AfterAnalysis
    <3>2. g \in Flow /\ g.pc = "decision" /\ Same(f, g)
      BY <1>0, FlowFacts, ZenonT(60) DEF Flow, Same
    <3> HIDE DEF g
    <3> QED
      BY <1>i, <2>1, <3>1, <3>2
  <2>5. CASE /\ Move(s, AfterAnalysis(f, result))
             /\ result \notin {"AlleNeu", "AlleGleich", "Konflikte"}
    BY <2>2, <2>5 DEF AfterAnalysis
  <2> QED
    BY <1>u, <2>1, <2>2, <2>3, <2>4, <2>5
<1>5. CASE PollFails(s)
  <2>1. CASE f.pc = "poll" /\ Move(s, PreOver(f, "system error"))
    BY <1>o, <2>1 DEF PrePcs
  <2>2. CASE f.pc = "poll run" /\ Move(s, PostFailed(f))
    <3> DEFINE g == PostFailed(f)
    <3>1. g \in Flow /\ g.pc = "clean up" /\ Same(f, g)
      BY <1>0 DEF PostFailed, Flow, Same
    <3>2. Move(s, g)
      BY <2>2
    <3> HIDE DEF g
    <3> QED
      BY <1>p, <2>2, <3>1, <3>2 DEF PostPcs
  <2>3. CASE f.attempt < MaxAttempts /\ Move(s, [f EXCEPT !.attempt = f.attempt + 1])
    <3> DEFINE g == [f EXCEPT !.attempt = f.attempt + 1]
    <3>1. g \in Flow /\ g.pc = f.pc /\ Same(f, g) /\ f.pc \in {"poll", "poll run"}
      BY <1>0, <1>5, <2>3, FlowFacts DEF Flow, Same, PollFails
    <3>2. Move(s, g)
      BY <2>3
    <3> HIDE DEF g
    <3> QED
      BY <1>i, <1>p, <3>1, <3>2 DEF PostPcs
  <2> QED
    BY <1>5, <2>1, <2>2, <2>3 DEF PollFails
<1>6. CASE Decide(s)
  <2>0. f.pc = "decision"
    BY <1>6 DEF Decide
  <2>1. CASE Move(s, PreOver(f, "system error"))
    BY <1>o, <2>0, <2>1 DEF PrePcs
  <2>2. CASE Move(s, [PreOver(f, "content error") EXCEPT !.decision = "cancel"])
    <3>1. flow'[s] = [PreOver(f, "content error") EXCEPT !.decision = "cancel"]
      BY <1>0, <2>2
    <3>2. /\ flow'[s].pc = "over" /\ flow'[s].pre = "content error"
          /\ flow'[s].sent = f.sent /\ flow'[s].metadata = f.metadata
      BY <1>0, <3>1 DEF PreOver, Flow
    <3> QED
      BY <2>0, <3>2 DEF Allowed, Cancels, SentInv
  <2>3. ASSUME NEW o \in {"overwrite", "append"},
               Move(s, [f EXCEPT !.pc = "build", !.decision = o, !.metadata = o])
        PROVE  Allowed(f, flow'[s]) /\ SentInv(flow'[s])
    <3>1. flow'[s] = [f EXCEPT !.pc = "build", !.decision = o, !.metadata = o]
      BY <1>0, <2>3
    <3>2. /\ flow'[s].pc = "build" /\ flow'[s].metadata = o
          /\ flow'[s].pre = f.pre /\ flow'[s].sent = f.sent
      BY <1>0, <3>1 DEF Flow
    <3> QED
      BY <2>0, <3>2 DEF Allowed, Accepts, SentInv, Decisions
  <2> QED
    BY <1>6, <2>1, <2>2, <2>3 DEF Decide
<1>7. CASE Build(s)
  <2>0. f.pc = "build"
    BY <1>7 DEF Build
  <2>1. CASE Move(s, PreOver(f, "system error"))
    BY <1>o, <2>0, <2>1 DEF PrePcs
  <2>2. CASE Move(s, [f EXCEPT !.pc = "store", !.pre = "success"])
    <3>1. flow'[s] = [f EXCEPT !.pc = "store", !.pre = "success"]
      BY <1>0, <2>2
    <3>2. /\ flow'[s].pc = "store" /\ flow'[s].pre = "success"
          /\ flow'[s].sent = f.sent /\ flow'[s].metadata = f.metadata
      BY <1>0, <3>1 DEF Flow
    <3> QED
      BY <2>0, <3>2 DEF Allowed, Delivers, SentInv
  <2> QED
    BY <1>7, <2>1, <2>2 DEF Build
\* The moves after preprocessing, one by one.
<1>f. ASSUME Move(s, PostFailed(f)), f.pc \in PostPcs
      PROVE  Allowed(f, flow'[s]) /\ SentInv(flow'[s])
  <2> DEFINE g == PostFailed(f)
  <2>1. g \in Flow /\ g.pc = "clean up" /\ Same(f, g)
    BY <1>0 DEF PostFailed, Flow, Same
  <2>2. Move(s, g)
    BY <1>f
  <2> HIDE DEF g
  <2> QED
    BY <1>f, <1>p, <2>1, <2>2 DEF PostPcs
<1>8. CASE Store(s)
  <2>1. ASSUME NEW p \in {"download", "over"}, Move(s, [f EXCEPT !.pc = p])
        PROVE  Allowed(f, flow'[s]) /\ SentInv(flow'[s])
    <3> DEFINE g == [f EXCEPT !.pc = p]
    <3>1. g \in Flow /\ g.pc = p /\ Same(f, g)
      BY <1>0 DEF Flow, Same
    <3>2. Move(s, g) /\ f.pc \in PostPcs
      BY <1>8, <2>1 DEF Store, PostPcs
    <3> HIDE DEF g
    <3> QED
      BY <1>p, <3>1, <3>2 DEF PostPcs
  <2> QED
    BY <1>8, <2>1 DEF Store
<1>9. CASE Download(s)
  <2>0. f.pc = "download" /\ f.pc \in PostPcs
    BY <1>9 DEF Download, PostPcs
  <2>1. CASE Move(s, PostFailed(f))
    BY <1>f, <2>0, <2>1
  <2>2. CASE Move(s, [f EXCEPT !.pc = "run", !.attempt = 1])
    <3> DEFINE g == [f EXCEPT !.pc = "run", !.attempt = 1]
    <3>1. g \in Flow /\ g.pc = "run" /\ Same(f, g)
      BY <1>0, FlowFacts, ZenonT(60) DEF Flow, Same
    <3>2. Move(s, g)
      BY <2>2
    <3> HIDE DEF g
    <3> QED
      BY <1>p, <2>0, <3>1, <3>2 DEF PostPcs
  <2> QED
    BY <1>9, <2>1, <2>2 DEF Download, MoveAndSend
<1>10. CASE ReceiveRun(s)
  <2>0. f.pc = "run" /\ f.pc \in PostPcs
    BY <1>10 DEF ReceiveRun, PostPcs
  <2>1. CASE Move(s, PostFailed(f))
    BY <1>f, <2>0, <2>1
  <2>2. CASE Move(s, [f EXCEPT !.pc = "poll run", !.attempt = 1])
    <3> DEFINE g == [f EXCEPT !.pc = "poll run", !.attempt = 1]
    <3>1. g \in Flow /\ g.pc = "poll run" /\ Same(f, g)
      BY <1>0, FlowFacts, ZenonT(60) DEF Flow, Same
    <3>2. Move(s, g)
      BY <2>2
    <3> HIDE DEF g
    <3> QED
      BY <1>p, <2>0, <3>1, <3>2 DEF PostPcs
  <2> QED
    BY <1>10, <2>1, <2>2 DEF ReceiveRun
<1>11. CASE RetryRun(s)
  <2>0. f.pc = "run" /\ f.pc \in PostPcs
    BY <1>11 DEF RetryRun, PostPcs
  <2>1. CASE Move(s, PostFailed(f))
    BY <1>f, <2>0, <2>1
  <2>2. CASE f.attempt < MaxAttempts /\ Move(s, [f EXCEPT !.attempt = f.attempt + 1])
    <3> DEFINE g == [f EXCEPT !.attempt = f.attempt + 1]
    <3>1. g \in Flow /\ g.pc = "run" /\ Same(f, g)
      BY <1>0, <2>0, <2>2, FlowFacts DEF Flow, Same
    <3>2. Move(s, g)
      BY <2>2
    <3> HIDE DEF g
    <3> QED
      BY <1>p, <2>0, <3>1, <3>2 DEF PostPcs
  <2> QED
    BY <1>11, <2>1, <2>2 DEF RetryRun, MoveAndSend
<1>12. CASE PollImport(s)
  <2>0. f.pc = "poll run" /\ f.pc \in PostPcs
    BY <1>12 DEF PollImport, PostPcs
  <2>1. CASE Move(s, PostFailed(f))
    BY <1>f, <2>0, <2>1
  <2>2. CASE Move(s, [f EXCEPT !.pc = "clean up"])
    <3> DEFINE g == [f EXCEPT !.pc = "clean up"]
    <3>1. g \in Flow /\ g.pc = "clean up" /\ Same(f, g)
      BY <1>0 DEF Flow, Same
    <3>2. Move(s, g)
      BY <2>2
    <3> HIDE DEF g
    <3> QED
      BY <1>p, <2>0, <3>1, <3>2 DEF PostPcs
  <2>3. UNCHANGED flow \/ Move(s, PostFailed(f)) \/ Move(s, [f EXCEPT !.pc = "clean up"])
    BY <1>12 DEF PollImport, ImportComplete
  <2> QED
    BY <1>u, <2>1, <2>2, <2>3
<1>13. CASE CleanUp(s)
  <2>1. ASSUME NEW o \in {f.outcome, "failed"},
               Move(s, [f EXCEPT !.pc = "over", !.post = o])
        PROVE  Allowed(f, flow'[s]) /\ SentInv(flow'[s])
    <3> DEFINE g == [f EXCEPT !.pc = "over", !.post = o]
    <3>1. g \in Flow /\ g.pc = "over" /\ Same(f, g)
      BY <1>0, ZenonT(60) DEF Flow, Same
    <3>2. Move(s, g) /\ f.pc \in PostPcs
      BY <1>13, <2>1 DEF CleanUp, PostPcs
    <3> HIDE DEF g
    <3> QED
      BY <1>p, <3>1, <3>2
  <2> QED
    BY <1>13, <2>1 DEF CleanUp
<1>14. CASE LoseSession(s)
  <2> DEFINE h == IF f.pc = "clean up" THEN f ELSE [f EXCEPT !.outcome = "system error"]
             g == IF h.session < MaxSessions
                  THEN [h EXCEPT !.pc = "download", !.session = h.session + 1, !.attempt = 1]
                  ELSE [h EXCEPT !.pc = "over", !.post = "failed"]
  <2>1. /\ 1 \in 1..MaxAttempts
        /\ f.session < MaxSessions => f.session + 1 \in 1..MaxSessions
    BY FlowFacts
  <2>2. h \in Flow /\ Same(f, h) /\ h.session = f.session
    BY <1>0, ZenonT(60) DEF Flow, Same
  <2>3. Move(s, g) /\ f.pc \in PostPcs
    BY <1>14 DEF LoseSession, PostPcs
  <2> HIDE DEF h
  <2>4. g \in Flow /\ g.pc \in {"download", "over"} /\ Same(f, g)
    <3>1. CASE h.session < MaxSessions
      BY <2>1, <2>2, <3>1 DEF Flow, Same
    <3>2. CASE ~(h.session < MaxSessions)
      BY <2>2, <3>2, ZenonT(60) DEF Flow, Same
    <3> QED
      BY <3>1, <3>2
  <2> HIDE DEF g
  <2> QED
    BY <1>p, <2>3, <2>4 DEF PostPcs
<1> QED
  BY <1>1, <1>2, <1>3, <1>4, <1>5, <1>6, <1>7, <1>8, <1>9, <1>10, <1>11, <1>12, <1>13, <1>14
  DEF Step, PreStep, PostStep

\* A step leaves the other SIPs alone; the server and the clerk leave all of them.
LEMMA OneAtATime ==
  ASSUME Inv, [Next]_vars, NEW s \in Sips, flow'[s] # flow[s]
  PROVE  Step(s) \/ PollFails(s) \/ LoseSession(s)
<1>1. ASSUME NEW t \in Sips, Step(t) \/ PollFails(t) \/ LoseSession(t)
      PROVE  t = s
  <2> DEFINE Moved == UNCHANGED flow \/ \E g : Move(t, g)
  <2>10. Checks(t) \/ RetryTask(t) \/ Download(t) \/ RetryRun(t) => Moved
    BY DEF Checks, RetryTask, Download, RetryRun, MoveAndSend
  <2>11. ReceiveTask(t) \/ ReceiveRun(t) => Moved
    BY DEF ReceiveTask, ReceiveRun
  <2>12. PollAnalysis(t) => Moved
    BY DEF PollAnalysis, AnalysisComplete
  <2>13. PollImport(t) => Moved
    BY DEF PollImport, ImportComplete
  <2>14. Decide(t) => Moved
    BY DEF Decide
  <2>15. Build(t) \/ Store(t) \/ CleanUp(t) => Moved
    BY DEF Build, Store, CleanUp
  <2>16. PollFails(t) => Moved
    BY DEF PollFails
  <2>17. LoseSession(t) => Moved
    BY DEF LoseSession
  <2>1. Moved
    BY <1>1, <2>10, <2>11, <2>12, <2>13, <2>14, <2>15, <2>16, <2>17
    DEF Step, PreStep, PostStep
  <2>2. flow \in [Sips -> Flow]
    BY DEF Inv, TypeOK
  <2> QED
    BY <2>1, <2>2 DEF Move
<1>2. \/ UNCHANGED flow
      \/ \E t \in Sips : Step(t) \/ PollFails(t) \/ LoseSession(t)
  BY DEF Next, vars, Serve, ClerkCancels
<1> QED
  BY <1>1, <1>2

ContractInv == Inv /\ \A s \in Sips : SentInv(flow[s])

\* Each SIP's half of preprocessing keeps the contract that the detailed workflow of
\* module Preprocessing keeps, whatever the other SIPs and APIS do meanwhile.
THEOREM ContractsAreKept == Spec => KeepsContracts
<1>1. Init => ContractInv /\ \A s \in Sips : Contract(s)!Init
  BY InitInv DEF Init, ContractInv, SentInv, Contract!Init
<1>2. ContractInv /\ [Next]_vars =>
        ContractInv' /\ \A s \in Sips : [Contract(s)!Next]_(Contract(s)!contractVars)
  <2> SUFFICES ASSUME ContractInv, [Next]_vars
               PROVE  ContractInv' /\ \A s \in Sips :
                        [Contract(s)!Next]_(Contract(s)!contractVars)
    OBVIOUS
  <2>1. Inv'
    BY NextInv DEF Kept, ContractInv
  <2>2. ASSUME NEW s \in Sips
        PROVE  SentInv(flow'[s]) /\ [Contract(s)!Next]_(Contract(s)!contractVars)
    <3>1. Allowed(flow[s], flow'[s]) /\ SentInv(flow'[s])
      <4>1. CASE flow'[s] = flow[s]
        BY <4>1 DEF ContractInv, Allowed, Same
      <4>2. CASE flow'[s] # flow[s]
        BY <4>2, OneAtATime, StepAllowed DEF ContractInv
      <4> QED
        BY <4>1, <4>2
    <3> QED
      BY <3>1, AllowedIsContract DEF ContractInv
  <2> QED
    BY <2>1, <2>2 DEF ContractInv
<1>3. ContractInv /\ [Next]_vars =>
        [\A s \in Sips : [Contract(s)!Next]_(Contract(s)!contractVars)]_vars
  BY <1>2
<1> QED
  BY <1>1, <1>2, <1>3, PTL DEF Spec, KeepsContracts

\* A POST that is repeated may leave a task nobody polls or imports; there are at most as
\* many tasks as attempts to create one, and of those without an owner APIS at most knows
\* that a clerk canceled them.
THEOREM OrphansBounded == Spec => []OrphansAreBounded
<1>1. ASSUME Inv, CountInv PROVE OrphansAreBounded
  <2>1. Len(tasks) <= MaxAttempts * Cardinality(Sips)
    BY <1>1, ChargesBound DEF Inv, TypeOK, CountInv, AttemptsInv
  <2> QED
    BY <1>1, <2>1 DEF OrphansAreBounded, CountInv, OrphanInv, Orphan, Untouched
<1>2. Inv /\ [Next]_vars => Inv'
  BY NextInv DEF Kept
<1>3. Spec => [](Inv /\ CountInv)
  BY InitInv, InitCount, <1>2, NextCount, PTL DEF Spec
<1> QED
  BY <1>1, <1>3, PTL
-----------------------------------------------------------------------------
(* Progress: what moves, moves on.                                          *)

\* What follows what in an ingest.
LEMMA Follows ==
  /\ Ahead(Course, "checks", "submit") /\ Ahead(Course, "checks", "over")
  /\ Ahead(Course, "submit", "poll") /\ Ahead(Course, "submit", "over")
  /\ Ahead(Course, "poll", "decision") /\ Ahead(Course, "poll", "build")
  /\ Ahead(Course, "poll", "over")
  /\ Ahead(Course, "decision", "build") /\ Ahead(Course, "decision", "over")
  /\ Ahead(Course, "build", "store") /\ Ahead(Course, "build", "over")
  /\ Ahead(Course, "store", "download") /\ Ahead(Course, "store", "over")
  /\ Ahead(Course, "download", "run") /\ Ahead(Course, "download", "clean up")
  /\ Ahead(Course, "download", "over")
  /\ Ahead(Course, "run", "poll run") /\ Ahead(Course, "run", "clean up")
  /\ Ahead(Course, "run", "over")
  /\ Ahead(Course, "poll run", "clean up") /\ Ahead(Course, "poll run", "over")
  /\ Ahead(Course, "clean up", "over")
<1>1. DOMAIN Course = 1..11
  BY DEF Course
<1>2. \A i, j \in 1..11 : i < j => Ahead(Course, Course[i], Course[j])
  BY <1>1 DEF Ahead
<1>3. /\ Course[1] = "checks" /\ Course[2] = "submit" /\ Course[3] = "poll"
      /\ Course[4] = "decision" /\ Course[5] = "build" /\ Course[6] = "store"
      /\ Course[7] = "download" /\ Course[8] = "run" /\ Course[9] = "poll run"
      /\ Course[10] = "clean up" /\ Course[11] = "over"
  BY DEF Course
<1>4. /\ \A j \in {2, 11} : Ahead(Course, Course[1], Course[j])
      /\ \A j \in {3, 11} : Ahead(Course, Course[2], Course[j])
      /\ \A j \in {4, 5, 11} : Ahead(Course, Course[3], Course[j])
      /\ \A j \in {5, 11} : Ahead(Course, Course[4], Course[j])
      /\ \A j \in {6, 11} : Ahead(Course, Course[5], Course[j])
      /\ \A j \in {7, 11} : Ahead(Course, Course[6], Course[j])
      /\ \A j \in {8, 10, 11} : Ahead(Course, Course[7], Course[j])
      /\ \A j \in {9, 10, 11} : Ahead(Course, Course[8], Course[j])
      /\ \A j \in {10, 11} : Ahead(Course, Course[9], Course[j])
      /\ \A j \in {11} : Ahead(Course, Course[10], Course[j])
  BY <1>2
<1> QED
  BY <1>3, <1>4

\* What follows what in a task: it may be canceled until it is imported.
LEMMA TaskFollows ==
  /\ Ahead(TaskCourse, "Neu", "InAnalyse") /\ Ahead(TaskCourse, "InAnalyse", "Analysiert")
  /\ Ahead(TaskCourse, "Analysiert", "WirdImportiert")
  /\ Ahead(TaskCourse, "WirdImportiert", "Importiert")
  /\ Ahead(TaskCourse, "Neu", "Abgebrochen") /\ Ahead(TaskCourse, "InAnalyse", "Abgebrochen")
  /\ Ahead(TaskCourse, "Analysiert", "Abgebrochen")
  /\ Ahead(TaskCourse, "WirdImportiert", "Abgebrochen")
<1>1. DOMAIN TaskCourse = 1..6
  BY DEF TaskCourse
<1>2. \A i, j \in 1..6 : i < j => Ahead(TaskCourse, TaskCourse[i], TaskCourse[j])
  BY <1>1 DEF Ahead
<1>3. /\ TaskCourse[1] = "Neu" /\ TaskCourse[2] = "InAnalyse" /\ TaskCourse[3] = "Analysiert"
      /\ TaskCourse[4] = "WirdImportiert" /\ TaskCourse[5] = "Importiert"
      /\ TaskCourse[6] = "Abgebrochen"
  BY DEF TaskCourse
<1>4. /\ \A j \in {2, 6} : Ahead(TaskCourse, TaskCourse[1], TaskCourse[j])
      /\ \A j \in {3, 6} : Ahead(TaskCourse, TaskCourse[2], TaskCourse[j])
      /\ \A j \in {4, 6} : Ahead(TaskCourse, TaskCourse[3], TaskCourse[j])
      /\ \A j \in {5, 6} : Ahead(TaskCourse, TaskCourse[4], TaskCourse[j])
  BY <1>2
<1> QED
  BY <1>3, <1>4

\* A poll moves a task on in the statuses that wait for something, and in no other.
LEMMA AdvanceMoves ==
  ASSUME NEW t \in TaskState, TaskInv(t)
  PROVE  /\ t.status \in {"Neu", "InAnalyse", "WirdImportiert"} => TaskMoved(t, AdvanceTask(t))
         /\ t.status \notin {"Neu", "InAnalyse", "WirdImportiert"} => AdvanceTask(t) = t
<1> DEFINE u == AdvanceTask(t)
<1>0. t.analysisPolls \in 0..2 /\ t.importPolls \in 0..2
  BY DEF TaskState
<1>1. CASE t.status = "Neu"
  <2>1. CASE t.analysisPolls + 1 > 1
    <3>1. u.status = "InAnalyse"
      BY <1>1, <2>1 DEF AdvanceTask, TaskState
    <3> QED
      BY <1>1, <3>1, TaskFollows DEF TaskMoved
  <2>2. CASE ~(t.analysisPolls + 1 > 1)
    <3>1. /\ u.status = t.status /\ u.analysisPolls = t.analysisPolls + 1
          /\ u.importPolls = t.importPolls
      BY <1>1, <2>2 DEF AdvanceTask, TaskState
    <3> HIDE DEF u
    <3>2. u.analysisPolls + u.importPolls > t.analysisPolls + t.importPolls
      BY <1>0, <3>1
    <3> QED
      BY <1>1, <3>1, <3>2 DEF TaskMoved, u
  <2> QED
    BY <2>1, <2>2
<1>2. CASE t.status = "InAnalyse"
  <2>1. u.status = "Analysiert"
    BY <1>2 DEF AdvanceTask, TaskState
  <2> QED
    BY <1>2, <2>1, TaskFollows DEF TaskMoved
<1>3. CASE t.status = "WirdImportiert"
  <2>1. CASE t.importPolls + 1 > 1
    <3>1. u.status = "Importiert"
      BY <1>3, <2>1 DEF AdvanceTask, TaskState
    <3> QED
      BY <1>3, <3>1, TaskFollows DEF TaskMoved
  <2>2. CASE ~(t.importPolls + 1 > 1)
    <3>1. /\ u.status = t.status /\ u.analysisPolls = t.analysisPolls
          /\ u.importPolls = t.importPolls + 1
      BY <1>3, <2>2 DEF AdvanceTask, TaskState
    <3> HIDE DEF u
    <3>2. u.analysisPolls + u.importPolls > t.analysisPolls + t.importPolls
      BY <1>0, <3>1
    <3> QED
      BY <1>3, <3>1, <3>2 DEF TaskMoved, u
  <2> QED
    BY <2>1, <2>2
<1>4. CASE t.status \notin {"Neu", "InAnalyse", "WirdImportiert"}
  BY <1>4 DEF AdvanceTask
<1> QED
  BY <1>1, <1>2, <1>3, <1>4

\* The import of a task was asked for, and the task has moved on since.
Started(t) == t.status \in {"WirdImportiert", "Importiert", "Abgebrochen"}

\* What a server step does to the tasks there are: it moves them on, and none of them back
\* to before its import.
TasksMoved ==
  \A id \in Known :
    /\ tasks'[id] # tasks[id] => TaskMoved(tasks[id], tasks'[id])
    /\ Started(tasks[id]) => Started(tasks'[id])

\* It moves one of them.
LEMMA OneTaskMoved ==
  ASSUME MockTypeOK, NEW id \in Known, NEW u, tasks' = [tasks EXCEPT ![id] = u],
         u # tasks[id] => TaskMoved(tasks[id], u), Started(tasks[id]) => Started(u)
  PROVE  TasksMoved /\ tasks'[id] = u
<1>1. DOMAIN tasks = Known
  BY KnownFacts
<1>2. tasks'[id] = u /\ \A j \in Known \ {id} : tasks'[j] = tasks[j]
  BY <1>1
<1> QED
  BY <1>2 DEF TasksMoved

\* The status endpoint does, of the task that is asked about.
LEMMA PollMovesTask ==
  ASSUME MockTypeOK, TasksInv, NEW id, APIImporttasksIDStatusGet(id)
  PROVE  TasksMoved
<1>1. id \in Known /\ tasks' = [tasks EXCEPT ![id] = AdvanceTask(tasks[id])]
  BY DEF APIImporttasksIDStatusGet
<1>2. tasks[id] \in TaskState /\ TaskInv(tasks[id])
  BY <1>1, KnownFacts DEF TasksInv
<1> DEFINE u == AdvanceTask(tasks[id])
<1>3. u # tasks[id] => TaskMoved(tasks[id], u)
  BY <1>2, AdvanceMoves
<1>4. Started(tasks[id]) => Started(u)
  BY <1>2 DEF Started, AdvanceTask, TaskState
<1> HIDE DEF u
<1> QED
  BY <1>1, <1>3, <1>4, OneTaskMoved DEF u

\* So does the cancel endpoint, which leaves an imported task alone.
LEMMA CancelMovesTask ==
  ASSUME MockTypeOK, NEW id \in Known, ClerkCancels(id)
  PROVE  TasksMoved
<1>1. /\ tasks' = [tasks EXCEPT ![id] = CancelTask(tasks[id])]
      /\ tasks[id].status \notin {"Importiert", "Abgebrochen"}
  BY DEF ClerkCancels, APIImporttasksIDCancelPost, CancelAccepted
<1>2. tasks[id] \in TaskState
  BY KnownFacts
<1> DEFINE u == CancelTask(tasks[id])
<1>3. u.status = "Abgebrochen" /\ tasks[id].status \in Statuses
  BY <1>2 DEF CancelTask, TaskState
<1>4. TaskMoved(tasks[id], u) /\ Started(u)
  BY <1>1, <1>3, TaskFollows DEF TaskMoved, Statuses, Started
<1> HIDE DEF u
<1> QED
  BY <1>1, <1>4, OneTaskMoved DEF u

\* And the endpoint that starts a run, which starts none but in Analysiert.
LEMMA RunMovesTask ==
  ASSUME MockTypeOK, NEW id, APIImporttasksIDImportrunsPost(id)
  PROVE  TasksMoved /\ id \in Known /\ Started(tasks'[id])
<1>1. /\ id \in Known /\ tasks' = [tasks EXCEPT ![id] = StartRun(tasks[id], nextRun + 1)]
      /\ tasks[id].status = "Analysiert"
  BY DEF APIImporttasksIDImportrunsPost, RunAccepted
<1>2. tasks[id] \in TaskState
  BY <1>1, KnownFacts
<1> DEFINE u == StartRun(tasks[id], nextRun + 1)
<1>3. u.status = "WirdImportiert"
  BY <1>2 DEF StartRun, TaskState
<1>4. TaskMoved(tasks[id], u) /\ Started(u)
  BY <1>1, <1>3, TaskFollows DEF TaskMoved, Started
<1> HIDE DEF u
<1>5. TasksMoved /\ tasks'[id] = u
  BY <1>1, <1>4, OneTaskMoved DEF u
<1> QED
  BY <1>1, <1>4, <1>5

\* A new task leaves the others as they are.
LEMMA PostMovesNone ==
  ASSUME MockTypeOK, TasksInv, APIImporttasksPost
  PROVE  TasksMoved
BY PostFacts DEF TasksMoved

\* Whatever the step, the tasks move on.
LEMMA NextMovesTasks ==
  ASSUME Inv, [Next]_vars
  PROVE  TasksMoved
<1>0. MockTypeOK /\ TasksInv
  BY DEF Inv, TypeOK
<1>1. UNCHANGED tasks => TasksMoved
  BY DEF TasksMoved
<1>2. ASSUME NEW s \in Sips, Step(s) \/ PollFails(s) \/ LoseSession(s)
      PROVE  UNCHANGED tasks \/ APIImporttasksIDStatusGet(flow[s].task)
  <2>1. CASE PollAnalysis(s) \/ PollImport(s) \/ PollFails(s)
    BY <2>1 DEF PollAnalysis, PollImport, PollFails
  <2>2. CASE Checks(s) \/ ReceiveTask(s) \/ RetryTask(s) \/ Decide(s) \/ Build(s) \/ Store(s)
    BY <2>2 DEF Checks, ReceiveTask, RetryTask, Decide, Build, Store
  <2>3. CASE Download(s) \/ ReceiveRun(s) \/ RetryRun(s) \/ CleanUp(s) \/ LoseSession(s)
    BY <2>3 DEF Download, ReceiveRun, RetryRun, CleanUp, LoseSession
  <2> QED
    BY <1>2, <2>1, <2>2, <2>3 DEF Step, PreStep, PostStep
<1>3. ASSUME NEW m \in requests, Serve(m) PROVE TasksMoved
  BY <1>0, <1>1, <1>3, PostMovesNone, RunMovesTask DEF Serve
<1>4. ASSUME NEW id \in Known, ClerkCancels(id) PROVE TasksMoved
  BY <1>0, <1>4, CancelMovesTask
<1>5. UNCHANGED vars => UNCHANGED tasks
  BY DEF vars
<1> QED
  BY <1>0, <1>1, <1>2, <1>3, <1>4, <1>5, PollMovesTask DEF Next
\* SIP s has moved on, or is polling.
Progressed(s) ==
  \/ FlowMoved(flow[s], flow'[s]) /\ flow'[s] # flow[s]
  \/ flow'[s] = flow[s] /\ flow[s].pc \in {"poll", "poll run"}

\* It has moved on when it is at a later step of its session.
LEMMA LaterStep ==
  ASSUME flow \in [Sips -> Flow], NEW s \in Sips, NEW g, Move(s, g),
         g.session = flow[s].session, Ahead(Course, flow[s].pc, g.pc), g.pc # flow[s].pc
  PROVE  Progressed(s)
<1>1. flow'[s] = g
  BY DEF Move
<1> QED
  BY <1>1 DEF Progressed, FlowMoved

\* And when it makes another attempt.
LEMMA LaterAttempt ==
  ASSUME flow \in [Sips -> Flow], NEW s \in Sips,
         Move(s, [flow[s] EXCEPT !.attempt = flow[s].attempt + 1])
  PROVE  Progressed(s)
<1> DEFINE g == [flow[s] EXCEPT !.attempt = flow[s].attempt + 1]
<1>1. flow[s] \in Flow /\ flow'[s] = g
  BY DEF Move
<1>2. flow[s].attempt \in Nat
  <2>1. flow[s].attempt \in 1..MaxAttempts
    BY <1>1, ZenonT(60) DEF Flow
  <2>2. MaxAttempts \in Nat
    BY BoundsPositive
  <2> QED
    BY <2>1, <2>2
<1>3. g.session = flow[s].session /\ g.pc = flow[s].pc /\ g.attempt = flow[s].attempt + 1
  BY <1>1 DEF Flow
<1> HIDE DEF g
<1>4. g.attempt > flow[s].attempt /\ g # flow[s]
  BY <1>2, <1>3
<1> QED
  BY <1>1, <1>3, <1>4 DEF Progressed, FlowMoved

\* And when it is given up, in either workflow.
LEMMA GivenUp ==
  ASSUME flow \in [Sips -> Flow], NEW s \in Sips
  PROVE  /\ flow[s].pc \in PrePcs => \A o :
              /\ Move(s, PreOver(flow[s], o)) => Progressed(s)
              /\ \A d : Move(s, [PreOver(flow[s], o) EXCEPT !.decision = d]) => Progressed(s)
         /\ flow[s].pc \in {"download", "run", "poll run"} /\ Move(s, PostFailed(flow[s])) =>
              Progressed(s)
<1>0. flow[s] \in Flow
  OBVIOUS
<1>1. ASSUME flow[s].pc \in PrePcs, NEW o, NEW d,
             NEW g \in {PreOver(flow[s], o), [PreOver(flow[s], o) EXCEPT !.decision = d]},
             Move(s, g)
      PROVE  Progressed(s)
  <2>1. g.session = flow[s].session /\ g.pc = "over"
    BY <1>0 DEF PreOver, Flow
  <2>2. Ahead(Course, flow[s].pc, "over") /\ flow[s].pc # "over"
    BY <1>1, Follows DEF PrePcs
  <2> QED
    BY <1>1, <2>1, <2>2, LaterStep
<1>2. ASSUME flow[s].pc \in {"download", "run", "poll run"}, Move(s, PostFailed(flow[s]))
      PROVE  Progressed(s)
  <2> DEFINE g == PostFailed(flow[s])
  <2>1. g.session = flow[s].session /\ g.pc = "clean up"
    BY <1>0 DEF PostFailed, Flow
  <2>2. Ahead(Course, flow[s].pc, "clean up") /\ flow[s].pc # "clean up"
    BY <1>2, Follows
  <2>3. Move(s, g)
    BY <1>2
  <2> HIDE DEF g
  <2> QED
    BY <2>1, <2>2, <2>3, LaterStep
<1> QED
  BY <1>1, <1>2

\* The steps of preprocessing, and the ingest between the two workflows.
LEMMA PreMovesOn ==
  ASSUME flow \in [Sips -> Flow], NEW s \in Sips, PreStep(s) \/ Store(s)
  PROVE  Progressed(s)
<1> DEFINE f == flow[s]
<1>0. f \in Flow
  OBVIOUS
<1>m. ASSUME NEW g, Move(s, g), g.session = f.session, Ahead(Course, f.pc, g.pc), g.pc # f.pc
      PROVE  Progressed(s)
  BY <1>m, LaterStep
<1>1. CASE Checks(s)
  <2>1. f.pc = "checks" /\ f.pc \in PrePcs
    BY <1>1 DEF Checks, PrePcs
  <2> DEFINE g == [f EXCEPT !.pc = "submit", !.sent = TRUE]
  <2>2. g.session = f.session /\ g.pc = "submit"
    BY <1>0 DEF Flow
  <2>3. Move(s, g) \/ \E o : Move(s, PreOver(f, o))
    BY <1>1 DEF Checks, MoveAndSend
  <2> HIDE DEF g
  <2> QED
    BY <1>m, <2>1, <2>2, <2>3, Follows, GivenUp
<1>2. CASE ReceiveTask(s)
  <2>1. f.pc = "submit" /\ f.pc \in PrePcs
    BY <1>2 DEF ReceiveTask, PrePcs
  <2>2. PICK a : Move(s, IF a.body = "created"
                        THEN [f EXCEPT !.pc = "poll", !.task = a.id, !.attempt = 1]
                        ELSE PreOver(f, "system error"))
    BY <1>2 DEF ReceiveTask
  <2> DEFINE g == [f EXCEPT !.pc = "poll", !.task = a.id, !.attempt = 1]
  <2>3. g.session = f.session /\ g.pc = "poll"
    BY <1>0 DEF Flow
  <2>4. Move(s, g) \/ Move(s, PreOver(f, "system error"))
    BY <2>2
  <2> HIDE DEF g
  <2> QED
    BY <1>m, <2>1, <2>3, <2>4, Follows, GivenUp
<1>3. CASE RetryTask(s)
  <2>1. f.pc \in PrePcs
    BY <1>3 DEF RetryTask, PrePcs
  <2>2. \/ Move(s, [f EXCEPT !.attempt = f.attempt + 1])
        \/ Move(s, PreOver(f, "system error"))
    BY <1>3 DEF RetryTask, MoveAndSend
  <2> QED
    BY <2>1, <2>2, GivenUp, LaterAttempt
<1>4. CASE PollAnalysis(s)
  <2>1. f.pc = "poll" /\ f.pc \in PrePcs
    BY <1>4 DEF PollAnalysis, PrePcs
  <2>2. PICK result :
          UNCHANGED flow \/ Move(s, PreOver(f, "system error")) \/ Move(s, AfterAnalysis(f, result))
    BY <1>4 DEF PollAnalysis, AnalysisComplete
  <2>3. CASE Move(s, AfterAnalysis(f, result)) /\ result \in {"AlleNeu", "AlleGleich"}
    <3> DEFINE g == [f EXCEPT !.pc = "build", !.attempt = 1, !.metadata = NoDecision]
    <3>1. g.session = f.session /\ g.pc = "build"
      BY <1>0 DEF Flow
    <3>2. Move(s, g)
      BY <2>3 DEF AfterAnalysis
    <3> HIDE DEF g
    <3> QED
      BY <1>m, <2>1, <3>1, <3>2, Follows
  <2>4. CASE Move(s, AfterAnalysis(f, result)) /\ result = "Konflikte"
    <3> DEFINE g == [f EXCEPT !.pc = "decision", !.attempt = 1]
    <3>1. g.session = f.session /\ g.pc = "decision"
      BY <1>0 DEF Flow
    <3>2. Move(s, g)
      BY <2>4 DEF AfterAnalysis
    <3> HIDE DEF g
    <3> QED
      BY <1>m, <2>1, <3>1, <3>2, Follows
  <2>5. CASE /\ Move(s, AfterAnalysis(f, result))
             /\ result \notin {"AlleNeu", "AlleGleich", "Konflikte"}
    <3>1. Move(s, PreOver(f, "system error"))
      BY <2>5 DEF AfterAnalysis
    <3> QED
      BY <2>1, <3>1, GivenUp
  <2> QED
    BY <2>1, <2>2, <2>3, <2>4, <2>5, GivenUp DEF Progressed
<1>5. CASE Decide(s)
  <2>1. f.pc = "decision" /\ f.pc \in PrePcs
    BY <1>5 DEF Decide, PrePcs
  <2>2. ASSUME NEW o, Move(s, [f EXCEPT !.pc = "build", !.decision = o, !.metadata = o])
        PROVE  Progressed(s)
    <3> DEFINE g == [f EXCEPT !.pc = "build", !.decision = o, !.metadata = o]
    <3>1. g.session = f.session /\ g.pc = "build"
      BY <1>0 DEF Flow
    <3>2. Move(s, g)
      BY <2>2
    <3> HIDE DEF g
    <3> QED
      BY <1>m, <2>1, <3>1, <3>2, Follows
  <2> QED
    BY <1>5, <2>1, <2>2, GivenUp DEF Decide
<1>6. CASE Build(s)
  <2>1. f.pc = "build" /\ f.pc \in PrePcs
    BY <1>6 DEF Build, PrePcs
  <2> DEFINE g == [f EXCEPT !.pc = "store", !.pre = "success"]
  <2>2. g.session = f.session /\ g.pc = "store"
    BY <1>0 DEF Flow
  <2>3. Move(s, g) \/ Move(s, PreOver(f, "system error"))
    BY <1>6 DEF Build
  <2> HIDE DEF g
  <2> QED
    BY <1>m, <2>1, <2>2, <2>3, Follows, GivenUp
<1>7. CASE Store(s)
  <2>1. PICK p \in {"download", "over"} : f.pc = "store" /\ Move(s, [f EXCEPT !.pc = p])
    BY <1>7 DEF Store
  <2> DEFINE g == [f EXCEPT !.pc = p]
  <2>2. g.session = f.session /\ g.pc = p
    BY <1>0 DEF Flow
  <2>3. Move(s, g)
    BY <2>1
  <2> HIDE DEF g
  <2> QED
    BY <1>m, <2>1, <2>2, <2>3, Follows
<1> QED
  BY <1>1, <1>2, <1>3, <1>4, <1>5, <1>6, <1>7 DEF PreStep

\* The steps of poststorage.
LEMMA PostMovesOn ==
  ASSUME flow \in [Sips -> Flow], NEW s \in Sips, PostStep(s)
  PROVE  Progressed(s)
<1> DEFINE f == flow[s]
<1>0. f \in Flow
  OBVIOUS
<1>m. ASSUME NEW g, Move(s, g), g.session = f.session, Ahead(Course, f.pc, g.pc), g.pc # f.pc
      PROVE  Progressed(s)
  BY <1>m, LaterStep
<1>1. CASE Download(s)
  <2> DEFINE g == [f EXCEPT !.pc = "run", !.attempt = 1]
  <2>1. g.session = f.session /\ g.pc = "run"
    BY <1>0 DEF Flow
  <2>2. f.pc = "download" /\ (Move(s, g) \/ Move(s, PostFailed(f)))
    BY <1>1 DEF Download, MoveAndSend
  <2> HIDE DEF g
  <2> QED
    BY <1>m, <2>1, <2>2, Follows, GivenUp
<1>2. CASE ReceiveRun(s)
  <2> DEFINE g == [f EXCEPT !.pc = "poll run", !.attempt = 1]
  <2>1. g.session = f.session /\ g.pc = "poll run"
    BY <1>0 DEF Flow
  <2>2. f.pc = "run" /\ (Move(s, g) \/ Move(s, PostFailed(f)))
    BY <1>2 DEF ReceiveRun
  <2> HIDE DEF g
  <2> QED
    BY <1>m, <2>1, <2>2, Follows, GivenUp
<1>3. CASE RetryRun(s)
  <2>1. f.pc = "run" /\ (\/ Move(s, [f EXCEPT !.attempt = f.attempt + 1])
                         \/ Move(s, PostFailed(f)))
    BY <1>3 DEF RetryRun, MoveAndSend
  <2> QED
    BY <2>1, GivenUp, LaterAttempt
<1>4. CASE PollImport(s)
  <2> DEFINE g == [f EXCEPT !.pc = "clean up"]
  <2>1. g.session = f.session /\ g.pc = "clean up"
    BY <1>0 DEF Flow
  <2>2. f.pc = "poll run" /\ (UNCHANGED flow \/ Move(s, g) \/ Move(s, PostFailed(f)))
    BY <1>4 DEF PollImport, ImportComplete
  <2> HIDE DEF g
  <2>3. UNCHANGED flow => Progressed(s)
    BY <2>2 DEF Progressed
  <2> QED
    BY <1>m, <2>1, <2>2, <2>3, Follows, GivenUp
<1>5. CASE CleanUp(s)
  <2>1. PICK o : f.pc = "clean up" /\ Move(s, [f EXCEPT !.pc = "over", !.post = o])
    BY <1>5 DEF CleanUp
  <2> DEFINE g == [f EXCEPT !.pc = "over", !.post = o]
  <2>2. g.session = f.session /\ g.pc = "over"
    BY <1>0 DEF Flow
  <2>3. Move(s, g)
    BY <2>1
  <2> HIDE DEF g
  <2> QED
    BY <1>m, <2>1, <2>2, <2>3, Follows
<1> QED
  BY <1>1, <1>2, <1>3, <1>4, <1>5 DEF PostStep

\* What fails or is lost brings the ingest on as well: to the next attempt or session.
LEMMA LossMovesOn ==
  ASSUME flow \in [Sips -> Flow], NEW s \in Sips, PollFails(s) \/ LoseSession(s)
  PROVE  Progressed(s)
<1> DEFINE f == flow[s]
<1>0. f \in Flow
  OBVIOUS
<1>1. CASE PollFails(s)
  <2>1. \/ f.pc = "poll" /\ Move(s, PreOver(f, "system error"))
        \/ f.pc = "poll run" /\ Move(s, PostFailed(f))
        \/ Move(s, [f EXCEPT !.attempt = f.attempt + 1])
    BY <1>1 DEF PollFails
  <2> QED
    BY <2>1, GivenUp, LaterAttempt DEF PrePcs
<1>2. CASE LoseSession(s)
  <2> DEFINE h == IF f.pc = "clean up" THEN f ELSE [f EXCEPT !.outcome = "system error"]
             g == IF h.session < MaxSessions
                  THEN [h EXCEPT !.pc = "download", !.session = h.session + 1, !.attempt = 1]
                  ELSE [h EXCEPT !.pc = "over", !.post = "failed"]
  <2>1. /\ Move(s, g) /\ f.pc \in {"download", "run", "poll run", "clean up"}
        /\ flow'[s] = g
    BY <1>2 DEF LoseSession, Move
  <2>2. h \in Flow /\ h.session = f.session /\ h.session \in Nat
    <3>1. h \in Flow /\ h.session = f.session
      BY <1>0, ZenonT(60) DEF Flow
    <3> HIDE DEF h
    <3>2. h.session \in 1..MaxSessions
      BY <3>1, ZenonT(60) DEF Flow
    <3>3. MaxSessions \in Nat
      BY BoundsPositive
    <3> QED
      BY <3>1, <3>2, <3>3
  <2> HIDE DEF h
  <2>3. CASE h.session < MaxSessions
    <3>1. g.session = h.session + 1
      BY <2>2, <2>3 DEF Flow
    <3> HIDE DEF g
    <3>2. g.session > f.session /\ g # f
      BY <2>2, <3>1
    <3> QED
      BY <2>1, <3>2 DEF Progressed, FlowMoved
  <2>4. CASE ~(h.session < MaxSessions)
    <3>1. g.session = f.session /\ g.pc = "over"
      BY <2>2, <2>4 DEF Flow
    <3> HIDE DEF g
    <3> QED
      BY <2>1, <3>1, Follows, LaterStep
  <2> QED
    BY <2>3, <2>4
<1> QED
  BY <1>1, <1>2

\* Nothing ever goes back, no result is taken back and no task revived, and what the
\* workflows do brings them on: to a later step, attempt or session, of which there are
\* finitely many.
THEOREM IngestsAlwaysMoveOn == Spec => IngestsMoveOn
<1> DEFINE Settled ==
             /\ \A s \in Sips :
                  /\ flow[s].post # "pending" => flow'[s].post = flow[s].post
                  /\ flow[s].pre # "pending" => flow'[s].pre = flow[s].pre
             /\ \A id \in Known : tasks[id].status \in {"Importiert", "Abgebrochen"} =>
                  tasks'[id].status = tasks[id].status
           Onwards ==
             /\ \A s \in Sips :
                  /\ flow'[s] # flow[s] => FlowMoved(flow[s], flow'[s])
                  /\ Step(s) /\ flow'[s] = flow[s] => flow[s].pc \in {"poll", "poll run"}
             /\ \A id \in Known : tasks'[id] # tasks[id] => TaskMoved(tasks[id], tasks'[id])
<1>1. ASSUME Inv, [Next]_vars PROVE Settled
  BY <1>1, NextInv DEF Kept, FlowKept, TasksKept, TaskKept
<1>2. ASSUME Inv, [Next]_vars PROVE Onwards
  <2>1. flow \in [Sips -> Flow]
    BY <1>2 DEF Inv, TypeOK
  <2>2. ASSUME NEW s \in Sips, Step(s) \/ PollFails(s) \/ LoseSession(s) PROVE Progressed(s)
    BY <2>1, <2>2, PreMovesOn, PostMovesOn, LossMovesOn DEF Step
  <2>3. ASSUME NEW s \in Sips, flow'[s] # flow[s] PROVE FlowMoved(flow[s], flow'[s])
    BY <1>2, <2>2, <2>3, OneAtATime DEF Progressed
  <2>4. ASSUME NEW s \in Sips, Step(s), flow'[s] = flow[s]
        PROVE  flow[s].pc \in {"poll", "poll run"}
    BY <2>2, <2>4 DEF Progressed
  <2>5. TasksMoved
    BY <1>2, NextMovesTasks
  <2> QED
    BY <2>3, <2>4, <2>5 DEF TasksMoved
<1>3. Inv /\ [Next]_vars =>
        [/\ \A s \in Sips :
              /\ flow[s].post # "pending" => flow'[s].post = flow[s].post
              /\ flow[s].pre # "pending" => flow'[s].pre = flow[s].pre
              /\ flow'[s] # flow[s] => FlowMoved(flow[s], flow'[s])
              /\ Step(s) /\ flow'[s] = flow[s] => flow[s].pc \in {"poll", "poll run"}
         /\ \A id \in Known :
              /\ tasks[id].status \in {"Importiert", "Abgebrochen"} =>
                   tasks'[id].status = tasks[id].status
              /\ tasks'[id] # tasks[id] => TaskMoved(tasks[id], tasks'[id])]_vars
  BY <1>1, <1>2
<1> QED
  BY Invariance, <1>3, PTL DEF Spec, IngestsMoveOn
-----------------------------------------------------------------------------
(* No poll is in vain: an import is waited for only when it was asked for.  *)

\* What asked for the import of a task is heard of only after the task moved on, and a
\* poll of the import waits only for such a task.
RunningInv ==
  /\ \A s \in Sips : flow[s].pc = "poll run" => Started(tasks[flow[s].task])
  /\ \A a \in answers : a.to.op = "run" /\ a.body = "created" =>
       a.to.task \in Known /\ Started(tasks[a.to.task])

\* A SIP gets to polling the import by the answer that a run was created, and not otherwise.
LEMMA PollRunEntered ==
  ASSUME flow \in [Sips -> Flow], NEW s \in Sips, Step(s) \/ PollFails(s) \/ LoseSession(s),
         flow'[s].pc = "poll run", flow[s].pc # "poll run"
  PROVE  \E a \in answers : a.to = Message("run", s, flow[s]) /\ a.body = "created"
<1> DEFINE f == flow[s]
<1>0. f \in Flow /\ \A g : Move(s, g) => flow'[s] = g
  BY DEF Move
<1>n. f.pc # "poll run" /\ flow'[s] # f /\ ~(UNCHANGED flow)
  OBVIOUS
<1>1. ASSUME NEW o PROVE ~Move(s, PreOver(f, o)) /\ ~Move(s, PostFailed(f))
  <2>1. PreOver(f, o).pc = "over" /\ PostFailed(f).pc = "clean up"
    BY <1>0 DEF PreOver, PostFailed, Flow
  <2> QED
    BY <1>0, <2>1
<1>2. ~Move(s, [f EXCEPT !.attempt = @ + 1])
  <2>1. [f EXCEPT !.attempt = @ + 1].pc = f.pc
    BY <1>0 DEF Flow
  <2> QED
    BY <1>0, <1>n, <2>1
<1>3. CASE Checks(s) \/ RetryTask(s) \/ ReceiveTask(s)
  <2>1. CASE Checks(s)
    <3>1. [f EXCEPT !.pc = "submit", !.sent = TRUE].pc = "submit"
      BY <1>0 DEF Flow
    <3>2. \/ Move(s, [f EXCEPT !.pc = "submit", !.sent = TRUE])
          \/ \E o : Move(s, PreOver(f, o))
      BY <2>1 DEF Checks, MoveAndSend
    <3> QED
      BY <1>0, <1>1, <3>1, <3>2
  <2>2. CASE RetryTask(s)
    BY <1>1, <1>2, <2>2 DEF RetryTask, MoveAndSend
  <2>3. CASE ReceiveTask(s)
    <3>1. PICK a \in answers :
            \/ Move(s, [f EXCEPT !.pc = "poll", !.task = a.id, !.attempt = 1])
            \/ Move(s, PreOver(f, "system error"))
      BY <2>3 DEF ReceiveTask, AnswerTo
    <3> QED
      BY <1>0, <1>1, <3>1 DEF Flow
  <2> QED
    BY <1>3, <2>1, <2>2, <2>3
<1>4. CASE PollAnalysis(s)
  <2>1. PICK r : Move(s, PreOver(f, "system error")) \/ Move(s, AfterAnalysis(f, r))
    BY <1>4, <1>n DEF PollAnalysis, AnalysisComplete
  <2>2. AfterAnalysis(f, r).pc # "poll run"
    BY <1>0 DEF AfterAnalysis, PreOver, Flow
  <2> QED
    BY <1>0, <1>1, <2>1, <2>2
<1>5. CASE Decide(s) \/ Build(s) \/ Store(s)
  <2>1. PICK g : /\ Move(s, g)
                 /\ \/ \E d : g = [f EXCEPT !.pc = "build", !.decision = d, !.metadata = d]
                    \/ g = [PreOver(f, "content error") EXCEPT !.decision = "cancel"]
                    \/ g = PreOver(f, "system error")
                    \/ g = [f EXCEPT !.pc = "store", !.pre = "success"]
                    \/ g = [f EXCEPT !.pc = "download"]
                    \/ g = [f EXCEPT !.pc = "over"]
    BY <1>5 DEF Decide, Build, Store
  <2>2. g.pc \in {"build", "over", "store", "download"}
    BY <1>0, <2>1, ZenonT(60) DEF PreOver, Flow
  <2> QED
    BY <1>0, <2>1, <2>2
<1>6. CASE Download(s) \/ RetryRun(s)
  <2>1. ~Move(s, [f EXCEPT !.pc = "run", !.attempt = 1])
    BY <1>0 DEF Flow
  <2> QED
    BY <1>1, <1>2, <1>6, <2>1 DEF Download, RetryRun, MoveAndSend
<1>7. CASE ReceiveRun(s)
  BY <1>1, <1>7 DEF ReceiveRun, AnswerTo
<1>8. CASE PollImport(s)
  BY <1>n, <1>8 DEF PollImport
<1>9. CASE CleanUp(s)
  <2>1. PICK o : Move(s, [f EXCEPT !.pc = "over", !.post = o])
    BY <1>9 DEF CleanUp
  <2> QED
    BY <1>0, <2>1 DEF Flow
<1>10. CASE PollFails(s)
  BY <1>1, <1>2, <1>10 DEF PollFails
<1>11. CASE LoseSession(s)
  <2> DEFINE h == IF f.pc = "clean up" THEN f ELSE [f EXCEPT !.outcome = "system error"]
  <2>1. PICK g : /\ Move(s, g)
                 /\ \/ g = [h EXCEPT !.pc = "download", !.session = h.session + 1, !.attempt = 1]
                    \/ g = [h EXCEPT !.pc = "over", !.post = "failed"]
    BY <1>11 DEF LoseSession
  <2>2. g.pc \in {"download", "over"}
    BY <1>0, <2>1 DEF Flow
  <2> QED
    BY <1>0, <2>1, <2>2
<1> QED
  BY <1>3, <1>4, <1>5, <1>6, <1>7, <1>8, <1>9, <1>10, <1>11 DEF Step, PreStep, PostStep

\* No step of a SIP adds to the answers.
LEMMA AnswersTaken ==
  ASSUME NEW s \in Sips, Step(s) \/ PollFails(s) \/ LoseSession(s)
  PROVE  answers' \subseteq answers
<1>1. CASE Checks(s) \/ PollAnalysis(s) \/ Decide(s) \/ Build(s) \/ Store(s) \/ Download(s)
  BY <1>1 DEF Checks, PollAnalysis, Decide, Build, Store, Download
<1>2. CASE RetryTask(s) \/ RetryRun(s) \/ LoseSession(s)
  BY <1>2 DEF RetryTask, RetryRun, LoseSession, Forget
<1>3. CASE ReceiveTask(s) \/ ReceiveRun(s)
  BY <1>3 DEF ReceiveTask, ReceiveRun
<1>4. CASE PollImport(s) \/ CleanUp(s) \/ PollFails(s)
  BY <1>4 DEF PollImport, CleanUp, PollFails
<1> QED
  BY <1>1, <1>2, <1>3, <1>4 DEF Step, PreStep, PostStep

\* The tasks of those that poll their import are known.
LEMMA PolledTaskKnown ==
  ASSUME Inv, NEW s \in Sips, flow[s].pc \in {"poll", "run", "poll run"}
  PROVE  /\ flow[s].task \in Known /\ flow[s].task # NoTask
         /\ flow[s].pc # "poll" => flow[s].pre = "success"
BY DEF Inv, FlowInv, PhaseInv, PostPcs

\* Whoever polls an import polls one that was asked for.
LEMMA NextRunning == Inv /\ RunningInv /\ [Next]_vars => RunningInv'
<1> SUFFICES ASSUME Inv, RunningInv, [Next]_vars PROVE RunningInv'
  OBVIOUS
<1>1. TasksMoved /\ Kept
  BY NextMovesTasks, NextInv
<1>2. /\ flow \in [Sips -> Flow] /\ MockTypeOK
      /\ \A id \in Known : id \in Known' /\ (Started(tasks[id]) => Started(tasks'[id]))
  BY <1>1 DEF Inv, TypeOK, TasksMoved, Kept, TasksKept, TaskKept
<1>3. ASSUME NEW a \in answers, a.to.op = "run", a.body = "created"
      PROVE  a.to.task \in Known' /\ Started(tasks'[a.to.task])
  BY <1>2, <1>3 DEF RunningInv
<1>4. ASSUME NEW s \in Sips, flow'[s] = flow[s], flow'[s].pc = "poll run"
      PROVE  Started(tasks'[flow'[s].task])
  BY <1>2, <1>4, PolledTaskKnown DEF RunningInv
<1>5. ASSUME NEW s \in Sips, flow'[s] # flow[s], flow'[s].pc = "poll run"
      PROVE  Started(tasks'[flow'[s].task])
  <2>1. Step(s) \/ PollFails(s) \/ LoseSession(s)
    BY <1>5, OneAtATime
  <2>2. flow'[s].task \in Known' /\ flow'[s].task # NoTask
    BY <1>1, <1>5 DEF Kept, Inv, FlowInv, PhaseInv, PostPcs
  <2>3. flow[s].task # NoTask => flow'[s].task = flow[s].task
    BY <1>1 DEF Kept, FlowKept
  <2>4. CASE flow[s].pc = "poll run"
    BY <1>2, <2>3, <2>4, PolledTaskKnown DEF RunningInv
  <2>5. CASE flow[s].pc # "poll run"
    <3>1. PICK a \in answers : a.to = Message("run", s, flow[s]) /\ a.body = "created"
      BY <1>2, <1>5, <2>1, <2>5, PollRunEntered
    <3>2. a.to.op = "run" /\ a.to.task = flow[s].task
      BY <1>2, <3>1, MessageFacts
    <3>3. a.to.task \in Known /\ Started(tasks'[a.to.task])
      BY <1>3, <3>1, <3>2 DEF RunningInv
    <3> QED
      BY <2>3, <3>2, <3>3 DEF Known, NoTask
  <2> QED
    BY <2>4, <2>5
<1>6. ASSUME NEW a \in answers', a \notin answers, a.to.op = "run", a.body = "created"
      PROVE  a.to.task \in Known' /\ Started(tasks'[a.to.task])
  <2>1. PICK m \in requests : Serve(m)
    BY <1>6, AnswersTaken DEF Next, vars, ClerkCancels
  <2>2. CASE m.op = "task" /\ Answer(m, "created", Len(tasks) + 1)
    <3>1. Len(tasks) + 1 \in Nat
      BY <1>2 DEF MockTypeOK
    <3>2. a.to = m
      BY <1>6, <2>2, <3>1, AnswerFacts DEF Bodies
    <3> QED
      BY <1>6, <2>2, <3>2
  <2>3. CASE APIImporttasksIDImportrunsPost(m.task) /\ Answer(m, "created", nextRun + 1)
    <3>1. nextRun + 1 \in Nat
      BY <1>2 DEF MockTypeOK
    <3>2. a.to = m
      BY <1>6, <2>3, <3>1, AnswerFacts DEF Bodies
    <3> QED
      BY <1>2, <2>3, <3>2, RunMovesTask
  <2>4. CASE Answer(m, "refused", NoTask)
    <3>1. a.body = "refused"
      BY <1>6, <2>4, AnswerFacts DEF Bodies, NoTask
    <3> QED
      BY <1>6, <3>1
  <2> QED
    BY <2>1, <2>2, <2>3, <2>4 DEF Serve
<1> QED
  BY <1>3, <1>4, <1>5, <1>6 DEF RunningInv

\* What a poll finds a task in is where the task was, or further on.
LEMMA NotBackward ==
  ASSUME NEW t \in TaskState
  PROVE  /\ AdvanceTask(t).status \in {"Neu", "InAnalyse"} => t.status \in {"Neu", "InAnalyse"}
         /\ AdvanceTask(t).status \in {"Analysiert", "WirdImportiert"} /\ Started(t) =>
              t.status = "WirdImportiert"
<1>1. CASE t.status = "InAnalyse"
  <2>1. AdvanceTask(t).status = "Analysiert"
    BY <1>1 DEF AdvanceTask, TaskState
  <2> QED
    BY <1>1, <2>1 DEF Started
<1>2. CASE t.status = "WirdImportiert"
  <2>1. AdvanceTask(t).status \in {"WirdImportiert", "Importiert"}
    BY <1>2 DEF AdvanceTask, TaskState
  <2> QED
    BY <1>2, <2>1
<1>3. CASE t.status = "Neu"
  BY <1>3 DEF Started
<1>4. CASE t.status \notin {"Neu", "InAnalyse", "WirdImportiert"}
  <2>1. AdvanceTask(t) = t
    BY <1>4 DEF AdvanceTask
  <2> QED
    BY <1>4, <2>1 DEF Started
<1> QED
  BY <1>1, <1>2, <1>3, <1>4

\* Whatever a poll is told to wait for has moved on, if what the import poll looks at was
\* started.
LEMMA WaitMoves ==
  ASSUME NEW t \in TaskState, TaskInv(t), NEW pc \in {"poll", "poll run"}, ToldToWait(pc, t),
         pc = "poll run" => Started(t)
  PROVE  TaskMoved(t, AdvanceTask(t))
<1>1. ASSUME NEW u, AnalysisComplete(u) = "wait" PROVE u \in {"Neu", "InAnalyse"}
  BY <1>1 DEF AnalysisComplete
<1>2. ASSUME NEW u, ImportComplete(u) = "wait" PROVE u \in {"Analysiert", "WirdImportiert"}
  BY <1>2 DEF ImportComplete
<1>3. CASE pc = "poll"
  BY <1>1, <1>3, NotBackward, AdvanceMoves DEF ToldToWait
<1>4. CASE pc = "poll run"
  BY <1>2, <1>4, NotBackward, AdvanceMoves DEF ToldToWait
<1> QED
  BY <1>3, <1>4

\* The poll of the analysis waits in Neu and InAnalyse, which each poll moves on from; that of
\* the import waits in Analysiert too, where it would wait for ever, but a task that was
\* started is not there any more.
THEOREM NoPollWaitsInVain == Spec => []NoPollIsInVain
<1>1. ASSUME Inv, RunningInv PROVE NoPollIsInVain
  <2>1. ASSUME NEW s \in Sips, flow[s].pc \in {"poll", "poll run"},
               ToldToWait(flow[s].pc, tasks[flow[s].task])
        PROVE  TaskMoved(tasks[flow[s].task], AdvanceTask(tasks[flow[s].task]))
    <3>1. tasks[flow[s].task] \in TaskState /\ TaskInv(tasks[flow[s].task])
      BY <1>1, <2>1, PolledTaskKnown, KnownFacts DEF Inv, TypeOK, TasksInv
    <3>2. flow[s].pc = "poll run" => Started(tasks[flow[s].task])
      BY <1>1 DEF RunningInv
    <3> QED
      BY <2>1, <3>1, <3>2, WaitMoves
  <2> QED
    BY <2>1, Zenon DEF NoPollIsInVain
<1>2. Inv /\ [Next]_vars => Inv'
  BY NextInv DEF Kept
<1>3. Init => RunningInv
  <2> SUFFICES ASSUME Init PROVE RunningInv
    OBVIOUS
  <2>1. \A s \in Sips : flow[s].pc = "checks"
    BY DEF Init
  <2>2. answers = {}
    BY DEF Init
  <2> QED
    BY <2>1, <2>2 DEF RunningInv
<1>4. Spec => [](Inv /\ RunningInv)
  BY InitInv, <1>2, <1>3, NextRunning, PTL DEF Spec
<1> QED
  BY <1>1, <1>4, PTL
=============================================================================
