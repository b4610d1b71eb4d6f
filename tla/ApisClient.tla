----------------------------- MODULE ApisClient -----------------------------
(***************************************************************************)
(* The generated client the activities call APIS with: the request each    *)
(* operation builds, the typed result each response is read as, and what   *)
(* the activities conclude from that result.                               *)
(*                                                                         *)
(* A call is an operation with its parameters and its request, "" and      *)
(* NoRequest where it takes none.                                          *)
(***************************************************************************)
EXTENDS ApisSchemas

CONSTANTS
  StaticToken,      \* Config.Token, "" when it is not set
  ProviderTokens    \* what the token provider may answer, {} without a provider

Operations == {"healthz", "importtasks", "cancel", "importruns", "runstatus", "status"}

-----------------------------------------------------------------------------
(* Tokens.                                                                  *)

\* securitySource.Smart: the possible outcomes, a token or {} for an error.
Smart ==
  IF StaticToken # Empty THEN {{StaticToken}}
  ELSE {{}} \cup {{t} : t \in ProviderTokens}

AuthorizationHeader(token) == <<<<"Bearer", token>>>>

-----------------------------------------------------------------------------
(* Requests.                                                                *)

NoContent == Content(Empty, {})

\* The parts of a form: the file first, then the fields that are set.
FormParts(form, order) == Encode(form, <<"file">> \o order)

\* Mutant: the behaviour is not sent.
EncodeImportrunsRequestPlain(request) ==
  IF request.kind = "unset" THEN NoContent
  ELSE Content(Multipart, {FormParts(request.fields, <<"username">>)})

EncodeImportrunsRequest(request) ==
  IF request.kind = "unset" THEN NoContent
  ELSE Content(Multipart, {FormParts(request.fields, <<"importBehaviour", "username">>)})

\* No part of this form is optional.
EncodeImporttasksRequest(request) ==
  IF request.kind = "unset" THEN NoContent
  ELSE Content(Multipart,
         {[i \in 1..3 |-> LET k == <<"file", "sipType", "username">>[i] IN <<k, request.fields[k]>>]})

\* A request of any other kind is one with a content type: that type is its kind, and the
\* media type it is sent with, "" included.
EncodeCancelRequest(request) ==
  CASE request.kind = "empty" -> NoContent
    [] request.kind = "json"  -> Content(JSON, {EncodeCancelImportTaskRequest(request.fields)})
    [] request.kind = "text"  -> Content("text/json", {Encode(request.fields, <<"data">>)})
    [] OTHER -> Content(request.kind, {EncodeCancelImportTaskRequest(request.fields)})

SendHealthz(auth) == HTTPRequest("GET", <<"api", "healthz">>, auth, NoContent)

SendImporttasks(auth, call) ==
  HTTPRequest("POST", <<"api", "importtasks">>, auth, EncodeImporttasksRequest(call.request))

SendCancel(auth, call) ==
  HTTPRequest("POST", <<"api", "importtasks", call.id, "cancel">>, auth,
              EncodeCancelRequest(call.request))

SendImportruns(auth, call) ==
  HTTPRequest("POST", <<"api", "importtasks", call.id, "importruns">>, auth,
              EncodeImportrunsRequest(call.request))

SendRunStatus(auth, call) ==
  HTTPRequest("GET", <<"api", "importtasks", call.id, "importruns", call.runId, "status">>,
              auth, NoContent)

SendStatus(auth, call) ==
  HTTPRequest("GET", <<"api", "importtasks", call.id, "status">>, auth, NoContent)

Send(token, call) ==
  LET auth == AuthorizationHeader(token) IN
    CASE call.op = "healthz"     -> SendHealthz(auth)
      [] call.op = "importtasks" -> SendImporttasks(auth, call)
      [] call.op = "cancel"      -> SendCancel(auth, call)
      [] call.op = "importruns"  -> SendImportruns(auth, call)
      [] call.op = "runstatus"  -> SendRunStatus(auth, call)
      [] call.op = "status"      -> SendStatus(auth, call)

-----------------------------------------------------------------------------
(* Responses.  Each operation has a table of the problems it knows, by      *)
(* status; any other status, another media type and a body that does not    *)
(* decode are errors.                                                       *)

\* Each problem has one status.
ProblemType(status) ==
  CASE status = 400 -> "BadRequest" [] status = 401 -> "Unauthorized"
    [] status = 404 -> "NotFound"   [] status = 409 -> "Conflict"
    [] status = 415 -> "UnsupportedMediaType"
    [] status = 500 -> "InternalServerError"
Problems(statuses) == [status \in statuses |-> ProblemType(status)]

HealthzResults ==
  [status \in {200, 503} |-> IF status = 200 THEN "OK" ELSE "ServiceUnavailable"]
CancelProblems     == Problems({401, 404, 409, 500})
ImportrunsProblems == Problems({400, 401, 404, 415})
RunStatusProblems  == Problems({401, 404, 500})
StatusProblems     == Problems({401, 404, 500})

\* Mutant: a server error is taken for a refusal.
ImporttasksProblemsFinal ==
  [status \in {400, 401, 415, 500} |-> IF status = 500 THEN "BadRequest" ELSE ProblemType(status)]

ImporttasksProblems == Problems({400, 401, 415, 500})

\* What the body holds as a message m, and what that is as a result when it came in
\* the media type the operation reads.
BodyOf(a, m) == UNION {Decode(m, json) : json \in a.body}

Understand(a, contentType, type, read) ==
  {Typed(type, v) : v \in IF a.contentType = contentType THEN read ELSE {}}

UnderstandProblem(a, contentType, problems) ==
  IF a.status \in DOMAIN problems
  THEN Understand(a, contentType, problems[a.status], BodyOf(a, ProblemDetails))
  ELSE {}

DecodeHealthzResponse(a) ==
  IF a.status \in DOMAIN HealthzResults
  THEN Understand(a, JSON, HealthzResults[a.status],
                  UNION {DecodeHealthStatusResult(json) : json \in a.body})
  ELSE {}

DecodeCancelResponse(a) ==
  IF a.status = 204 THEN {Typed("NoContent", <<>>)}
  ELSE UnderstandProblem(a, JSON, CancelProblems)

DecodeImportrunsResponse(a) ==
  IF a.status = 201
  THEN Understand(a, JSON, "CreateImportRunResponse", BodyOf(a, CreateImportRunResponse))
  ELSE UnderstandProblem(a, ProblemJSON, ImportrunsProblems)

DecodeRunStatusResponse(a) ==
  IF a.status = 200
  THEN Understand(a, JSON, "ImportRunStatusResponse",
         {v \in BodyOf(a, ImportRunStatusResponse) : ValidateImportRunStatusResponse(v)})
  ELSE UnderstandProblem(a, JSON, RunStatusProblems)

DecodeStatusResponse(a) ==
  IF a.status = 200
  THEN Understand(a, JSON, "ImportTaskStatusResponse",
         {v \in BodyOf(a, ImportTaskStatusResponse) : ValidateImportTaskStatusResponse(v)})
  ELSE UnderstandProblem(a, JSON, StatusProblems)

DecodeImporttasksResponse(a) ==
  IF a.status = 201
  THEN Understand(a, JSON, "CreateImportTaskResponse", BodyOf(a, CreateImportTaskResponse))
  ELSE UnderstandProblem(a, JSON, ImporttasksProblems)

DecodeResponse(op, a) ==
  CASE op = "healthz"     -> DecodeHealthzResponse(a)
    [] op = "importtasks" -> DecodeImporttasksResponse(a)
    [] op = "cancel"      -> DecodeCancelResponse(a)
    [] op = "importruns"  -> DecodeImportrunsResponse(a)
    [] op = "runstatus"  -> DecodeRunStatusResponse(a)
    [] op = "status"      -> DecodeStatusResponse(a)

-----------------------------------------------------------------------------
(* What the activities conclude from a result: it is what they wanted, the  *)
(* attempt is worth repeating, or the activity is over for good.            *)

ID(res, key) == res.value[key][2]

\* CreateImportTaskActivity; results is {} when the call ended in an error.
TaskVerdict(results) ==
  CASE results = {} -> "retry"
    [] \E res \in results : res.type = "CreateImportTaskResponse" ->
         IF \E res \in results : ID(res, "importTaskId") # Empty THEN "done" ELSE "final"
    [] \E res \in results : res.type = "InternalServerError" -> "retry"
    [] OTHER -> "final"

\* CreateImportRunActivity.
RunVerdict(results) ==
  CASE results = {} -> "retry"
    [] \E res \in results : res.type = "CreateImportRunResponse" ->
         IF \E res \in results : ID(res, "importRunId") # Empty THEN "done" ELSE "final"
    [] OTHER -> "final"

Status(res, key) == Get(res.value, key)

\* PollImportTaskStatusActivity: the analysis must be over, and have a result.
AnalysisVerdict(results) ==
  CASE results = {} -> "retry"
    [] \E res \in results : res.type = "ImportTaskStatusResponse" ->
         LET res == CHOOSE r \in results : TRUE IN
           CASE Status(res, "status") \subseteq {"Neu", "InAnalyse"} -> "wait"
             [] Status(res, "status") = {"Analysiert"} ->
                  IF Status(res, "analysisResult") = {} THEN "final" ELSE "done"
             [] OTHER -> "final"
    [] \E res \in results : res.type = "InternalServerError" -> "retry"
    [] OTHER -> "final"

\* PollImportRunStatusActivity: the import must be over, and have a result.
ImportVerdict(results) ==
  CASE results = {} -> "retry"
    [] \E res \in results : res.type = "ImportTaskStatusResponse" ->
         LET res == CHOOSE r \in results : TRUE IN
           CASE Status(res, "status") \subseteq {"Analysiert", "WirdImportiert"} -> "wait"
             [] Status(res, "status") = {"Importiert"} ->
                  IF Status(res, "importResult") = {} THEN "final" ELSE "done"
             [] OTHER -> "final"
    [] \E res \in results : res.type = "InternalServerError" -> "retry"
    [] OTHER -> "final"
=============================================================================
