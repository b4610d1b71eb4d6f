------------------------------ MODULE ApisMock ------------------------------
(***************************************************************************)
(* The APIS server the workflows talk to, as hack/apis-mock implements it: *)
(* one record per import task, at most one import run per task, and a      *)
(* status endpoint that is the only thing that moves a task on.  Each      *)
(* endpoint holds the handler's mutex, so each is one step.                *)
(*                                                                         *)
(* An endpoint is an operator on one task record and an action on the      *)
(* server; the answer a client gets is an operator on the state before.    *)
(***************************************************************************)
EXTENDS Naturals, Sequences

VARIABLES
  handler,      \* Handler.analysisResult and importResult: what APIS will answer
  tasks,        \* the import tasks, by number: Handler.nextTask is Len(tasks)
  nextRun       \* Handler.nextRun: the number of runs created

mockVars == <<handler, tasks, nextRun>>

Statuses == {"Neu", "InAnalyse", "Analysiert", "WirdImportiert", "Importiert",
             "Abgebrochen"}
AnalysisResults == {"AlleNeu", "AlleGleich", "Konflikte", "Fehler"}
ImportResults   == {"Erfolgreich", "Fehler"}
NoRun == 0

TaskState ==
  [status: Statuses, analysisPolls: 0..2, importPolls: 0..2,
   analysisDone: BOOLEAN, importDone: BOOLEAN,
   analysisResult: AnalysisResults, importResult: ImportResults,
   run: Nat]

Known == 1..Len(tasks)

MockTypeOK ==
  /\ handler \in [analysisResult: AnalysisResults, importResult: ImportResults]
  /\ tasks \in Seq(TaskState)
  /\ nextRun \in Nat

-----------------------------------------------------------------------------
(* What each endpoint does to a task record.                                *)

NewTask ==
  [status |-> "Neu", analysisPolls |-> 0, importPolls |-> 0,
   analysisDone |-> FALSE, importDone |-> FALSE,
   analysisResult |-> handler.analysisResult,
   importResult |-> handler.importResult, run |-> NoRun]

\* One poll moves the task by at most one step; analysis and import each need
\* a second poll before they are seen to have begun, or to be over.
AdvanceTask(t) ==
  CASE t.status = "Neu" ->
         [t EXCEPT !.analysisPolls = @ + 1,
                   !.status = IF t.analysisPolls + 1 > 1 THEN "InAnalyse" ELSE @]
    [] t.status = "InAnalyse" ->
         [t EXCEPT !.analysisDone = TRUE, !.status = "Analysiert"]
    [] t.status = "WirdImportiert" ->
         IF t.importPolls + 1 > 1
         THEN [t EXCEPT !.importPolls = @ + 1, !.importDone = TRUE,
                        !.status = "Importiert"]
         ELSE [t EXCEPT !.importPolls = @ + 1]
    [] OTHER -> t

StatusResponse(t) ==
  [status |-> t.status,
   analysisResult |-> IF t.analysisDone THEN t.analysisResult ELSE "none",
   importResult |-> IF t.importDone THEN t.importResult ELSE "none"]

\* Mutant: a second run is not refused.
RunAcceptedTwice(t) ==
  t.status \in {"Analysiert", "WirdImportiert"} /\ t.analysisResult # "Fehler"

\* The chain of refusals of the importRuns endpoint.
RunAccepted(t) ==
  /\ t.status = "Analysiert"          \* hence not canceled
  /\ t.analysisResult # "Fehler"
  /\ t.run = NoRun

StartRun(t, run) ==
  [t EXCEPT !.run = run, !.status = "WirdImportiert", !.importPolls = 0,
            !.importResult = handler.importResult]

\* Mutant: an imported task is canceled like any other.
CancelAcceptedAlways(t) == TRUE

CancelAccepted(t) == t.status # "Importiert"

CancelTask(t) == [t EXCEPT !.status = "Abgebrochen"]

\* The run endpoint's projection of a task that has a run.
RunStatus(t) ==
  CASE t.status = "Abgebrochen"    -> "Canceled"
    [] t.status = "WirdImportiert" -> "Started"
    [] t.status = "Importiert"     ->
         IF t.importResult = "Fehler" THEN "Failed" ELSE "Completed"
    [] OTHER -> "Created"

-----------------------------------------------------------------------------
(* The endpoints.                                                           *)

MockInit ==
  /\ handler \in [analysisResult: AnalysisResults, importResult: ImportResults]
  /\ tasks = <<>>
  /\ nextRun = 0

APIImporttasksPost ==
  /\ tasks' = Append(tasks, NewTask)
  /\ UNCHANGED <<handler, nextRun>>

APIImporttasksIDCancelPost(id) ==
  /\ id \in Known
  /\ CancelAccepted(tasks[id])
  /\ tasks' = [tasks EXCEPT ![id] = CancelTask(@)]
  /\ UNCHANGED <<handler, nextRun>>

APIImporttasksIDImportrunsPost(id) ==
  /\ id \in Known
  /\ RunAccepted(tasks[id])
  /\ nextRun' = nextRun + 1
  /\ tasks' = [tasks EXCEPT ![id] = StartRun(@, nextRun + 1)]
  /\ UNCHANGED handler

APIImporttasksIDStatusGet(id) ==
  /\ id \in Known
  /\ tasks' = [tasks EXCEPT ![id] = AdvanceTask(@)]
  /\ UNCHANGED <<handler, nextRun>>

=============================================================================
