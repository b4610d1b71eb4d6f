----------------------------- MODULE ApisIngest -----------------------------
(***************************************************************************)
(* The APIS integration from end to end: for each SIP the preprocessing    *)
(* workflow's APIS steps, the operator's decision, the rest of             *)
(* preprocessing and the storage of the AIP as single steps, and the       *)
(* poststorage workflow's import, against the APIS server of ApisMock.     *)
(*                                                                         *)
(* The two POST activities are modelled attempt by attempt: a request may  *)
(* be lost, answered late or answered to nobody, and Temporal makes the    *)
(* next attempt when one has timed out or its worker has died, whether or  *)
(* not the request of the last one is still on its way.  A poststorage     *)
(* session that loses its worker starts again from the top.                *)
(***************************************************************************)
EXTENDS ApisMock, FiniteSets

CONSTANTS
  Sips,         \* the SIPs being ingested
  MaxAttempts,  \* attempts of an activity: 3 (preprocessing.go:620, policies.go)
  MaxSessions   \* attempts of the session: 5 (poststorage.go:63)

ASSUME SipsFinite == IsFiniteSet(Sips)
ASSUME BoundsPositive == MaxAttempts \in Nat \ {0} /\ MaxSessions \in Nat \ {0}

VARIABLES
  flow,         \* where each SIP is, and what its workflows hold
  requests,     \* POSTs on their way to APIS
  answers,      \* their answers on the way back
  imported      \* the import runs APIS accepted, with the behaviour they asked for

vars == <<handler, tasks, nextRun, flow, requests, answers, imported>>

NoTask == 0
NoDecision == ""
Decisions  == {NoDecision, "overwrite", "append"}

\* CustomMetadata.ImportBehaviour, for the decisions that can be recorded.
ImportBehaviour(decision) ==
  IF decision = "overwrite" THEN "OverwriteAndAppend" ELSE "AppendOnly"

Behaviours == {"AppendOnly", "OverwriteAndAppend"}

Flow ==
  [pc: {"checks", "submit", "poll", "decision", "build", "store", "download", "run",
        "poll run", "clean up", "over"},
   attempt: 1..MaxAttempts,      \* of the current activity
   session: 1..MaxSessions,      \* of poststorage
   sent: BOOLEAN,                \* metadata was submitted to APIS
   task: Nat,                    \* CustomMetadata.ImportTaskID
   decision: {"none", "cancel"} \cup Decisions,   \* what the operator chose, if asked
   metadata: {"unset"} \cup Decisions,            \* PreprocessingResult.CustomMetadata
   pre: {"pending", "success", "content error", "system error"},
   outcome: {"success", "system error"},          \* PostStorageResult.Outcome so far
   post: {"pending", "success", "system error", "failed"}]

\* A POST is told from the others of its SIP by its session and attempt.
Request == [op: {"task", "run"}, sip: Sips, session: 1..MaxSessions,
            attempt: 1..MaxAttempts, task: Nat, behaviour: Behaviours \cup {"none"}]

Bodies == {"refused", "created"}

TypeOK ==
  /\ MockTypeOK
  /\ flow \in [Sips -> Flow]
  /\ requests \subseteq Request
  /\ answers \subseteq [to: Request, body: Bodies, id: Nat]
  /\ imported \subseteq [sip: Sips, task: Nat, run: Nat, behaviour: Behaviours]

Init ==
  /\ MockInit
  /\ flow = [s \in Sips |->
       [pc |-> "checks", attempt |-> 1, session |-> 1, sent |-> FALSE, task |-> NoTask,
        decision |-> "none", metadata |-> "unset", pre |-> "pending",
        outcome |-> "success", post |-> "pending"]]
  /\ requests = {} /\ answers = {} /\ imported = {}

Message(op, s, f) ==
  [op |-> op, sip |-> s, session |-> f.session, attempt |-> f.attempt,
   task |-> f.task,
   behaviour |-> IF op = "run" THEN ImportBehaviour(f.metadata) ELSE "none"]

\* SIP s moves on to the flow state f and, if op is a POST, sends it.
Move(s, f) == flow' = [flow EXCEPT ![s] = f]
MoveAndSend(s, f, op) == Move(s, f) /\ requests' = requests \cup {Message(op, s, f)}

\* The attempt SIP s waits on is given up: an answer to it finds nobody.
Forget(s) == answers' = {a \in answers : a.to.sip # s}

PreOver(f, outcome)  == [f EXCEPT !.pc = "over", !.pre = outcome]
PostFailed(f)        == [f EXCEPT !.pc = "clean up", !.outcome = "system error"]

-----------------------------------------------------------------------------
(* Preprocessing: everything before createAPISImportTask is one step.       *)

Checks(s) ==
  /\ flow[s].pc = "checks"
  /\ \/ MoveAndSend(s, [flow[s] EXCEPT !.pc = "submit", !.sent = TRUE], "task")
     \/ /\ \E o \in {"content error", "system error"} : Move(s, PreOver(flow[s], o))
        /\ UNCHANGED requests
  /\ UNCHANGED <<handler, tasks, nextRun, answers, imported>>

\* The answers SIP s waits for: at most one, to the attempt in progress.
AnswerTo(s, op) == {a \in answers : a.to = Message(op, s, flow[s])}

\* CreateImportTaskActivity's answer: a task ID, or an error it does not retry.
ReceiveTask(s) ==
  /\ flow[s].pc = "submit"
  /\ \E a \in AnswerTo(s, "task") :
       /\ answers' = answers \ {a}
       /\ Move(s, IF a.body = "created"
                  THEN [flow[s] EXCEPT !.pc = "poll", !.task = a.id, !.attempt = 1]
                  ELSE PreOver(flow[s], "system error"))
  /\ UNCHANGED <<handler, tasks, nextRun, requests, imported>>

\* Mutant: the attempts are not counted.
RetryTaskForever(s) ==
  /\ flow[s].pc = "submit"
  /\ MoveAndSend(s, flow[s], "task")
  /\ Forget(s)
  /\ UNCHANGED <<handler, tasks, nextRun, imported>>

\* The attempt timed out, lost its worker or got an error worth a retry; the
\* request may still reach APIS.
RetryTask(s) ==
  /\ flow[s].pc = "submit"
  /\ IF flow[s].attempt < MaxAttempts
     THEN MoveAndSend(s, [flow[s] EXCEPT !.attempt = @ + 1], "task")
     ELSE Move(s, PreOver(flow[s], "system error")) /\ UNCHANGED requests
  /\ Forget(s)
  /\ UNCHANGED <<handler, tasks, nextRun, imported>>

\* Mutant: a canceled task is still being analysed.
AnalysisCompleteIgnoresCancel(status) == IF status = "Analysiert" THEN "done" ELSE "wait"

\* analysisComplete.
AnalysisComplete(status) ==
  CASE status \in {"Neu", "InAnalyse"} -> "wait"
    [] status = "Analysiert"           -> "done"
    [] OTHER                           -> "error"

\* Mutant: the metadata is stored after a decision only.
AfterAnalysisForgetsMetadata(f, analysis) ==
  CASE analysis \in {"AlleNeu", "AlleGleich"} -> [f EXCEPT !.pc = "build", !.attempt = 1]
    [] analysis = "Konflikte" -> [f EXCEPT !.pc = "decision", !.attempt = 1]
    [] OTHER -> PreOver(f, "system error")

\* The workflow's switch on the analysis result.
AfterAnalysis(f, analysis) ==
  CASE analysis \in {"AlleNeu", "AlleGleich"} ->
         [f EXCEPT !.pc = "build", !.attempt = 1, !.metadata = NoDecision]
    [] analysis = "Konflikte" -> [f EXCEPT !.pc = "decision", !.attempt = 1]
    [] OTHER -> PreOver(f, "system error")

\* One status request of PollImportTaskStatusActivity.
PollAnalysis(s) ==
  /\ flow[s].pc = "poll"
  /\ LET id == flow[s].task
         answer == StatusResponse(AdvanceTask(tasks[id])) IN
       /\ APIImporttasksIDStatusGet(id)
       /\ CASE AnalysisComplete(answer.status) = "wait"  -> UNCHANGED flow
            [] AnalysisComplete(answer.status) = "error" ->
                 Move(s, PreOver(flow[s], "system error"))
            [] AnalysisComplete(answer.status) = "done"  ->
                 Move(s, AfterAnalysis(flow[s], answer.analysisResult))
  /\ UNCHANGED <<requests, answers, imported>>

\* A status request that failed, or whose answer was lost, ends the attempt; an
\* answer such as "unauthorized" or "not found" ends the activity.
PollFails(s) ==
  /\ flow[s].pc \in {"poll", "poll run"}
  /\ \/ flow[s].attempt < MaxAttempts /\ Move(s, [flow[s] EXCEPT !.attempt = @ + 1])
     \/ flow[s].pc = "poll" /\ Move(s, PreOver(flow[s], "system error"))
     \/ flow[s].pc = "poll run" /\ Move(s, PostFailed(flow[s]))
  /\ \/ APIImporttasksIDStatusGet(flow[s].task)
     \/ UNCHANGED <<handler, tasks, nextRun>>
  /\ UNCHANGED <<requests, answers, imported>>

\* Mutant: the decision is not copied into the metadata.
DecideDropsDecision(s) ==
  /\ flow[s].pc = "decision"
  /\ \E o \in {"overwrite", "append", "cancel"} :
       Move(s, IF o = "cancel"
               THEN [PreOver(flow[s], "content error") EXCEPT !.decision = o]
               ELSE [flow[s] EXCEPT !.pc = "build", !.decision = o,
                                    !.metadata = NoDecision])
  /\ UNCHANGED <<handler, tasks, nextRun, requests, answers, imported>>

\* The operator's answer, as waitForAPISDecision handles it; asking the parent
\* may fail instead.  No branch calls APIS.
Decide(s) ==
  /\ flow[s].pc = "decision"
  /\ \/ \E o \in {"overwrite", "append"} :
          Move(s, [flow[s] EXCEPT !.pc = "build", !.decision = o, !.metadata = o])
     \/ Move(s, [PreOver(flow[s], "content error") EXCEPT !.decision = "cancel"])
     \/ Move(s, PreOver(flow[s], "system error"))
  /\ UNCHANGED <<handler, tasks, nextRun, requests, answers, imported>>

\* The rest of preprocessing: premis.xml, restructuring, identifiers, bag.
Build(s) ==
  /\ flow[s].pc = "build"
  /\ \/ Move(s, [flow[s] EXCEPT !.pc = "store", !.pre = "success"])
     \/ Move(s, PreOver(flow[s], "system error"))
  /\ UNCHANGED <<handler, tasks, nextRun, requests, answers, imported>>

-----------------------------------------------------------------------------
(* Enduro stores the AIP and starts poststorage with the custom metadata of *)
(* a successful result; or the ingest fails on the way.                     *)

Store(s) ==
  /\ flow[s].pc = "store"
  /\ \/ Move(s, [flow[s] EXCEPT !.pc = "download"])
     \/ Move(s, [flow[s] EXCEPT !.pc = "over"])
  /\ UNCHANGED <<handler, tasks, nextRun, requests, answers, imported>>

-----------------------------------------------------------------------------
(* Poststorage: SessionHandler, and the session loop of Execute.            *)

Download(s) ==
  /\ flow[s].pc = "download"
  /\ \/ MoveAndSend(s, [flow[s] EXCEPT !.pc = "run", !.attempt = 1], "run")
     \/ Move(s, PostFailed(flow[s])) /\ UNCHANGED requests
  /\ UNCHANGED <<handler, tasks, nextRun, answers, imported>>

\* Mutant: a run that was refused is polled like one that was accepted.
ReceiveRunUnread(s) ==
  /\ flow[s].pc = "run"
  /\ \E a \in AnswerTo(s, "run") :
       /\ answers' = answers \ {a}
       /\ Move(s, [flow[s] EXCEPT !.pc = "poll run", !.attempt = 1])
  /\ UNCHANGED <<handler, tasks, nextRun, requests, imported>>

\* CreateImportRunActivity's answer.
ReceiveRun(s) ==
  /\ flow[s].pc = "run"
  /\ \E a \in AnswerTo(s, "run") :
       /\ answers' = answers \ {a}
       /\ Move(s, IF a.body = "created"
                  THEN [flow[s] EXCEPT !.pc = "poll run", !.attempt = 1]
                  ELSE PostFailed(flow[s]))
  /\ UNCHANGED <<handler, tasks, nextRun, requests, imported>>

RetryRun(s) ==
  /\ flow[s].pc = "run"
  /\ IF flow[s].attempt < MaxAttempts
     THEN MoveAndSend(s, [flow[s] EXCEPT !.attempt = @ + 1], "run")
     ELSE Move(s, PostFailed(flow[s])) /\ UNCHANGED requests
  /\ Forget(s)
  /\ UNCHANGED <<handler, tasks, nextRun, imported>>

\* Mutant: the import is taken for complete while it is still going on.
ImportCompleteEarly(status) ==
  IF status \in {"WirdImportiert", "Importiert"} THEN "done" ELSE "error"

\* importComplete.
ImportComplete(status) ==
  CASE status \in {"Analysiert", "WirdImportiert"} -> "wait"
    [] status = "Importiert"                       -> "done"
    [] OTHER                                       -> "error"

\* One status request of PollImportRunStatusActivity.
PollImport(s) ==
  /\ flow[s].pc = "poll run"
  /\ LET id == flow[s].task
         answer == StatusResponse(AdvanceTask(tasks[id])) IN
       /\ APIImporttasksIDStatusGet(id)
       /\ CASE ImportComplete(answer.status) = "wait"  -> UNCHANGED flow
            [] ImportComplete(answer.status) = "error" -> Move(s, PostFailed(flow[s]))
            [] ImportComplete(answer.status) = "done"  ->
                 Move(s, IF answer.importResult = "Fehler" THEN PostFailed(flow[s])
                         ELSE [flow[s] EXCEPT !.pc = "clean up"])
  /\ UNCHANGED <<requests, answers, imported>>

\* The deferred removal of the download: its error fails the workflow.
CleanUp(s) ==
  /\ flow[s].pc = "clean up"
  /\ \/ Move(s, [flow[s] EXCEPT !.pc = "over", !.post = flow[s].outcome])
     \/ Move(s, [flow[s] EXCEPT !.pc = "over", !.post = "failed"])
  /\ UNCHANGED <<handler, tasks, nextRun, requests, answers, imported>>

\* Mutant: the sessions are not counted.
LoseSessionUnbounded(s) ==
  /\ flow[s].pc \in {"download", "run", "poll run", "clean up"}
  /\ Move(s, [flow[s] EXCEPT !.pc = "download", !.session = @ + 1, !.attempt = 1])
  /\ Forget(s)
  /\ UNCHANGED <<handler, tasks, nextRun, requests, imported>>

\* The session's worker dies: the running activity ends in an error that is
\* recorded in the result, the removal fails as well, and that starts a new
\* session with the same result.
LoseSession(s) ==
  /\ flow[s].pc \in {"download", "run", "poll run", "clean up"}
  /\ LET f == IF flow[s].pc = "clean up" THEN flow[s]
              ELSE [flow[s] EXCEPT !.outcome = "system error"] IN
       Move(s, IF f.session < MaxSessions
               THEN [f EXCEPT !.pc = "download", !.session = @ + 1, !.attempt = 1]
               ELSE [f EXCEPT !.pc = "over", !.post = "failed"])
  /\ Forget(s)
  /\ UNCHANGED <<handler, tasks, nextRun, requests, imported>>

-----------------------------------------------------------------------------
(* The network and the server.                                              *)

\* Somebody still waits for the answer to m.
Awaited(m) ==
  /\ flow[m.sip].pc = IF m.op = "task" THEN "submit" ELSE "run"
  /\ m = Message(m.op, m.sip, flow[m.sip])

Answer(m, body, id) ==
  answers' = IF Awaited(m) THEN answers \cup {[to |-> m, body |-> body, id |-> id]}
             ELSE answers

\* APIS takes a request and answers it.  Any request may be refused (the token
\* has expired); a run is refused whenever the task cannot take it.
Serve(m) ==
  /\ m \in requests
  /\ requests' = requests \ {m}
  /\ \/ /\ m.op = "task"
        /\ APIImporttasksPost
        /\ Answer(m, "created", Len(tasks) + 1)
        /\ UNCHANGED imported
     \/ /\ m.op = "run"
        /\ APIImporttasksIDImportrunsPost(m.task)
        /\ Answer(m, "created", nextRun + 1)
        /\ imported' = imported \cup
             {[sip |-> m.sip, task |-> m.task, run |-> nextRun + 1,
               behaviour |-> m.behaviour]}
     \/ /\ Answer(m, "refused", NoTask)
        /\ UNCHANGED <<handler, tasks, nextRun, imported>>
  /\ UNCHANGED flow

\* Somebody cancels a task in APIS.
ClerkCancels(id) ==
  /\ APIImporttasksIDCancelPost(id)
  /\ tasks[id].status # "Abgebrochen"
  /\ UNCHANGED <<flow, requests, answers, imported>>

-----------------------------------------------------------------------------
PreStep(s)  == Checks(s) \/ ReceiveTask(s) \/ RetryTask(s) \/ PollAnalysis(s)
                 \/ Decide(s) \/ Build(s)
PostStep(s) == Download(s) \/ ReceiveRun(s) \/ RetryRun(s) \/ PollImport(s) \/ CleanUp(s)
Step(s)     == PreStep(s) \/ Store(s) \/ PostStep(s)

Next ==
  \/ \E s \in Sips : Step(s) \/ PollFails(s) \/ LoseSession(s)
  \/ \E m \in requests : Serve(m)
  \/ \E id \in Known : ClerkCancels(id)

Spec == Init /\ [][Next]_vars

\* Temporal schedules every workflow and retries within its policies, and the
\* operator answers.
FairSpec == Spec /\ \A s \in Sips : WF_vars(Step(s))

-----------------------------------------------------------------------------
(* Safety.                                                                  *)

RunsOf(s) == {i \in imported : i.sip = s}

\* However often the POST is repeated (by a retry whose first request arrived
\* late, by a second session), APIS imports an AIP at most once.
AtMostOneImport == \A s \in Sips : Cardinality(RunsOf(s)) <= 1

\* An import only ever happens for a package that was preprocessed to the end,
\* on the very task that was analysed for it, and the way the operator decided
\* when the analysis found conflicts.
ImportsAreAuthorised ==
  \A i \in imported :
    LET f == flow[i.sip] IN
      /\ f.pre = "success" /\ f.task = i.task
      /\ tasks[i.task].analysisResult \in {"AlleNeu", "AlleGleich"} =>
           i.behaviour = "AppendOnly"
      /\ tasks[i.task].analysisResult = "Konflikte" =>
           /\ f.decision \in {"overwrite", "append"}
           /\ i.behaviour = "OverwriteAndAppend" <=> f.decision = "overwrite"
      /\ tasks[i.task].analysisResult # "Fehler"

\* A poststorage result that says success is about an AIP that APIS has
\* imported; nothing that happens in APIS later undoes it.
SuccessMeansImported ==
  \A s \in Sips : flow[s].post = "success" =>
    /\ tasks[flow[s].task].status = "Importiert"
    /\ tasks[flow[s].task].importResult = "Erfolgreich"
    /\ RunsOf(s) # {}

\* Requests that were repeated leave orphans: tasks nobody polls and nobody
\* imports.  There are no more tasks, orphans included, than the attempts allowed.
\* (The task of an ingest that was canceled after its analysis is left behind too,
\* but it is the one its ingest knows, and so no orphan here.)
OrphansAreBounded ==
  /\ Len(tasks) <= MaxAttempts * Cardinality(Sips)
  /\ \A id \in Known : (\A s \in Sips : flow[s].task # id) =>
       tasks[id].run = NoRun /\ tasks[id].status \in {"Neu", "Abgebrochen"}

\* The preprocessing half keeps the contract the detailed workflow of module
\* Preprocessing keeps, so what is shown here is shown of that workflow too.
Contract(s) == INSTANCE PreprocessingContract WITH
  enabled   <- TRUE,
  verdict   <- flow[s].pre,
  submitted <- flow[s].sent,
  metadata  <- flow[s].metadata,
  built     <- flow[s].pre = "success"

KeepsContracts ==
  /\ \A s \in Sips : Contract(s)!Init
  /\ [][\A s \in Sips : [Contract(s)!Next]_(Contract(s)!contractVars)]_vars

-----------------------------------------------------------------------------
(* Progress.                                                                *)

\* The order in which an ingest goes through its steps, a session of poststorage
\* through its own, and a task through its statuses.
Course ==
  <<"checks", "submit", "poll", "decision", "build", "store", "download", "run",
    "poll run", "clean up", "over">>
TaskCourse ==
  <<"Neu", "InAnalyse", "Analysiert", "WirdImportiert", "Importiert", "Abgebrochen">>

\* Order has A before B.
Ahead(order, a, b) == \E i, j \in DOMAIN order : i < j /\ order[i] = a /\ order[j] = b

\* The task is further on in U than in T.
TaskMoved(t, u) ==
  \/ Ahead(TaskCourse, t.status, u.status)
  \/ /\ u.status = t.status
     /\ u.analysisPolls + u.importPolls > t.analysisPolls + t.importPolls

\* The ingest is further on in G than in F.
FlowMoved(f, g) ==
  \/ g.session > f.session
  \/ g.session = f.session /\ Ahead(Course, f.pc, g.pc)
  \/ g.session = f.session /\ g.pc = f.pc /\ g.attempt > f.attempt

\* The poll of task t is told to wait.
ToldToWait(pc, t) ==
  \/ pc = "poll"     /\ AnalysisComplete(AdvanceTask(t).status) = "wait"
  \/ pc = "poll run" /\ ImportComplete(AdvanceTask(t).status) = "wait"

\* The polls have no limit of their own.  They end because what they wait for
\* comes: whenever one is told to wait, its task has moved on, although the
\* import poll also waits in Analysiert, where a task stays for ever until a run
\* is accepted (poll_import_run_status_activity.go:104).
NoPollIsInVain ==
  \A s \in Sips : LET t == tasks[flow[s].task] IN
    flow[s].pc \in {"poll", "poll run"} /\ ToldToWait(flow[s].pc, t) => TaskMoved(t, AdvanceTask(t))

-----------------------------------------------------------------------------
(* Action and liveness properties.                                          *)

\* Nothing ever goes back: a result that was handed over is not taken back, a task
\* that is canceled or imported stays so, whatever late request comes, and every
\* other task moves on or stays as it is.  A step of a workflow brings it to a
\* later step, attempt or session, each of which has its limit; only a poll may
\* leave it where it is.
IngestsMoveOn ==
  [][/\ \A s \in Sips :
          /\ flow[s].post # "pending" => flow'[s].post = flow[s].post
          /\ flow[s].pre # "pending" => flow'[s].pre = flow[s].pre
          /\ flow'[s] # flow[s] => FlowMoved(flow[s], flow'[s])
          /\ Step(s) /\ flow'[s] = flow[s] => flow[s].pc \in {"poll", "poll run"}
     /\ \A id \in Known :
          /\ tasks[id].status \in {"Importiert", "Abgebrochen"} =>
               tasks'[id].status = tasks[id].status
          /\ tasks'[id] # tasks[id] => TaskMoved(tasks[id], tasks'[id])]_vars

\* Every ingest comes to an end, whatever is lost, refused or canceled.
EveryIngestEnds == \A s \in Sips : <>(flow[s].pc = "over")
=============================================================================
