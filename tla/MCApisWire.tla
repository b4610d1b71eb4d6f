----------------------------- MODULE MCApisWire -----------------------------
(***************************************************************************)
(* Two callers, each making one of the client's calls, and one task that   *)
(* may have come to any stage before.                                      *)
(***************************************************************************)
EXTENDS ApisWire

MCTaskIDs == <<"task-000001", "task-000002", "task-000003", "task-000004">>
MCRunIDs  == <<"run-000001", "run-000002", "run-000003", "run-000004">>
MCToken   == "mock-token"
MCProviderTokens == {MCToken, "expired"}

Task == [status |-> "Neu", analysisPolls |-> 0, importPolls |-> 0, analysisDone |-> FALSE,
         importDone |-> FALSE, analysisResult |-> "AlleNeu", importResult |-> "Erfolgreich",
         run |-> NoRun]
Analysed  == [Task EXCEPT !.status = "Analysiert", !.analysisPolls = 2, !.analysisDone = TRUE]
Importing == [Analysed EXCEPT !.status = "WirdImportiert", !.importPolls = 1, !.run = 1]
Imported  == [Importing EXCEPT !.status = "Importiert", !.importPolls = 2, !.importDone = TRUE]

MCPriorTasks == {Analysed, Importing, Imported}

TaskForm ==
  [sipType |-> Str("BornDigitalSIP"), username |-> Str("archivist"), file |-> Str("metadata")]
RunForm ==
  [importBehaviour |-> Str("OverwriteAndAppend"), username |-> Str("archivist"),
   file |-> Str("METS")]

ACall(op, id, request) == [op |-> op, id |-> id, runId |-> Empty, request |-> request]

MCCalls ==
  {ACall("healthz", Empty, NoRequest),
   ACall("importtasks", Empty, Request("form", TaskForm)),
   ACall("importruns", MCTaskIDs[1], Request("form", RunForm)),
   ACall("status", MCTaskIDs[1], NoRequest),
   ACall("status", MCTaskIDs[2], NoRequest),
   ACall("cancel", MCTaskIDs[1], Request("application/merge+json", [reason |-> Str("conflict")])),
   ACall("cancel", MCTaskIDs[1], Request(Empty, [cancelledBy |-> Null])),
   [ACall("runstatus", MCTaskIDs[1], NoRequest) EXCEPT !.runId = MCRunIDs[1]]}

Bearer == AuthorizationHeader(MCToken)

\* Requests a client would not send: a task without a form, a form without the type, a
\* cancellation with a null, a wrong method, no task ID.
MCHandWritten ==
  {HTTPRequest("POST", <<"api", "importtasks">>, Bearer, EncodeImporttasksRequest(Unset)),
   HTTPRequest("POST", <<"api", "importtasks">>, Bearer,
               Content(Multipart, {<<<<"file", Str("metadata")>>, <<"username", Str("curl")>>>>})),
   HTTPRequest("POST", <<"api", "importtasks", MCTaskIDs[1], "cancel">>, Bearer,
               Content(JSON, {<<<<"cancelledBy", Null>>>>})),
   HTTPRequest("POST", <<"api", "importtasks", MCTaskIDs[1], "status">>, Bearer, NoContent),
   HTTPRequest("GET", <<"api", "importtasks", Empty, "status">>, Bearer, NoContent)}
=============================================================================
