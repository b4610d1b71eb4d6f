----------------------------- MODULE ApisServer -----------------------------
(***************************************************************************)
(* The mock server as it is seen over HTTP: the generated server code in   *)
(* front of the endpoints of ApisMock.  A request is routed, its token is  *)
(* checked, its parameters and its body are decoded, and only then is the  *)
(* endpoint invoked; what the endpoint returns is encoded by its type.     *)
(***************************************************************************)
EXTENDS ApisMock, ApisSchemas

CONSTANTS
  TaskIDs,      \* the task IDs in the order they are given out, "task-%06d"
  RunIDs,       \* the run IDs, likewise
  Token         \* the one bearer token the mock accepts

ASSUME IDsAreDistinct ==
  \A ids \in {TaskIDs, RunIDs} : \A i, j \in DOMAIN ids :
    ids[i] # Empty /\ (ids[i] = ids[j] => i = j)

Decoded(code, request) == [code |-> code, request |-> request]

-----------------------------------------------------------------------------
(* Security.                                                                *)

\* The token of the first Bearer header; the scheme's case does not matter.
FindAuthorization(headers) ==
  LET bearer == {i \in DOMAIN headers : headers[i][1] \in {"Bearer", "bearer"}} IN
    {headers[i][2] : i \in {j \in bearer : \A k \in bearer : j <= k}}

HandleSmart(token) == token = Token

SecuritySmart(q) == \E token \in FindAuthorization(q.auth) : HandleSmart(token)

-----------------------------------------------------------------------------
(* Routing: paths are compared byte by byte, and a path parameter is        *)
(* whatever stands between two slashes.                                     *)

Route(op, args) == [op |-> op, args |-> args]

Allowed(method, wanted, op) == IF method = wanted THEN op ELSE "notallowed"

\* The routes below /api/importtasks/{id}/.
RouteTask(method, id, rest) ==
  CASE rest = <<"cancel">>     -> Route(Allowed(method, "POST", "cancel"), <<id>>)
    [] rest = <<"importruns">> -> Route(Allowed(method, "POST", "importruns"), <<id>>)
    [] rest = <<"status">>     -> Route(Allowed(method, "GET", "status"), <<id>>)
    [] Len(rest) = 3 /\ rest[1] = "importruns" /\ rest[3] = "status"
         -> Route(Allowed(method, "GET", "runstatus"), <<id, rest[2]>>)
    [] OTHER -> Route("notfound", <<>>)

RouteRequest(method, path) ==
  CASE path = <<"api", "healthz">>     -> Route(Allowed(method, "GET", "healthz"), <<>>)
    [] path = <<"api", "importtasks">> -> Route(Allowed(method, "POST", "importtasks"), <<>>)
    [] Len(path) > 3 /\ path[1] = "api" /\ path[2] = "importtasks" ->
         RouteTask(method, path[3], SubSeq(path, 4, Len(path)))
    [] OTHER -> Route("notfound", <<>>)

-----------------------------------------------------------------------------
(* Parameters and bodies.                                                   *)

\* A path parameter must not be empty.
DecodeCancelParams(args)     == {[id |-> id, runId |-> Empty] : id \in {args[1]} \ {Empty}}
DecodeImportrunsParams(args) == {[id |-> id, runId |-> Empty] : id \in {args[1]} \ {Empty}}
DecodeStatusParams(args)     == {[id |-> id, runId |-> Empty] : id \in {args[1]} \ {Empty}}

DecodeRunStatusParams(args) ==
  {[id |-> id, runId |-> run] : id \in {args[1]} \ {Empty}, run \in {args[2]} \ {Empty}}

\* An optional body: NONE when nothing came, 400 without a media type, else read.
DecodeBody(q, none, read) ==
  CASE q.contentType = Empty -> IF q.body = {} THEN Decoded(0, none) ELSE Decoded(400, NoRequest)
    [] q.contentType # Empty -> read

\* The values of the parts called k, and the form made of the parts in keys: the
\* forms here have no part twice.
Parts(q, k) ==
  UNION {{body[i][2] : i \in {j \in DOMAIN body : body[j][1] = k}} : body \in q.body}

Form(q, keys) ==
  [k \in {key \in keys : Parts(q, key) # {}} |-> CHOOSE v \in Parts(q, k) : TRUE]

\* What MatchContentType("application/*+json") matches.
SuffixedJson == {"application/merge+json", "application/problem+json"}

\* A JSON body becomes a request of this kind; an empty one counts as none.
ReadCancelRequest(q, kind) ==
  IF q.body = {} THEN Decoded(0, Request("empty", <<>>))
  ELSE LET read == UNION {Decode(CancelImportTaskRequest, json) : json \in q.body} IN
         IF read = {} THEN Decoded(400, NoRequest)
         ELSE Decoded(0, Request(kind, CHOOSE v \in read : TRUE))

DecodeCancelRequest(q) ==
  DecodeBody(q, Request("empty", <<>>),
    CASE q.contentType \in SuffixedJson     -> ReadCancelRequest(q, q.contentType)
      [] q.contentType = JSON              -> ReadCancelRequest(q, "json")
      [] q.contentType = "text/json"        -> Decoded(0, Request("text", Form(q, {"data"})))
      [] OTHER                              -> Decoded(415, NoRequest))

\* A multipart body becomes a request with the form, when the form is valid; no body,
\* no form.
ReadForm(q, form, valid) ==
  CASE q.contentType # Multipart -> Decoded(415, NoRequest)
    [] q.contentType = Multipart /\ q.body = {} -> Decoded(0, Unset)
    [] OTHER -> IF valid THEN Decoded(0, Request("form", form)) ELSE Decoded(400, NoRequest)

DecodeImportrunsRequest(q) ==
  LET form == Form(q, {"importBehaviour", "username", "file"}) IN
    DecodeBody(q, Unset, ReadForm(q, form,
      /\ {"username", "file"} \subseteq DOMAIN form
      /\ Get(form, "importBehaviour") \subseteq ValidImportBehaviourType))

DecodeImporttasksRequest(q) ==
  LET form == Form(q, {"sipType", "username", "file"}) IN
    DecodeBody(q, Unset, ReadForm(q, form,
      /\ DOMAIN form = {"sipType", "username", "file"}
      /\ Get(form, "sipType") \subseteq ValidSipType))

-----------------------------------------------------------------------------
(* The endpoints: what they return, by type, and what they do.              *)

\* The task an ID is the key of, if there is one.
TaskOf(id) == {n \in Known : TaskIDs[n] = id}

\* The title says what the type says, the detail why.
Problem(type, status, detail) ==
  Typed(type, [status |-> Int32Value(status), title |-> Str(type), detail |-> Str(detail)])

TaskNotFound == Problem("NotFound", 404, "NoImportTask")
BadRequest(detail) == Problem("BadRequest", 400, detail)

HealthzReply == Typed("OK", [status |-> Str("OK")])

ImporttasksReply ==
  Typed("CreateImportTaskResponse", [importTaskId |-> Str(TaskIDs[Len(tasks) + 1])])

CancelReply(id) ==
  CASE TaskOf(id) = {} -> TaskNotFound
    [] \E n \in TaskOf(id) : ~CancelAccepted(tasks[n]) ->
         Problem("Conflict", 409, "AlreadyImported")
    [] OTHER -> Typed("NoContent", <<>>)

\* Why a run is refused; the tests come in this order.
RunRefusal(t) ==
  CASE t.status = "Abgebrochen"      -> "Canceled"
    [] t.status = "Analysiert"       ->
         IF t.analysisResult = "Fehler" THEN "AnalysisFailed" ELSE "SecondRun"
    [] OTHER                         -> "AnalysisNotFinished"

ImportrunsReply(id) ==
  CASE TaskOf(id) = {} -> TaskNotFound
    [] \E n \in TaskOf(id) : RunAccepted(tasks[n]) ->
         Typed("CreateImportRunResponse", [importRunId |-> Str(RunIDs[nextRun + 1])])
    [] OTHER -> BadRequest(RunRefusal(tasks[CHOOSE n \in TaskOf(id) : TRUE]))

RunStatusReply(id, run) ==
  CASE TaskOf(id) = {} -> TaskNotFound
    [] \E n \in TaskOf(id) : tasks[n].run = NoRun \/ RunIDs[tasks[n].run] # run ->
         Problem("NotFound", 404, "NoImportRun")
    [] OTHER ->
         LET t == tasks[CHOOSE n \in TaskOf(id) : TRUE] IN
           Typed("ImportRunStatusResponse",
             IF t.status = "Importiert"
             THEN [status |-> Str(RunStatus(t)), importResult |-> Str(t.importResult)]
             ELSE [status |-> Str(RunStatus(t))])

\* The results are left out, not null, until they are there.
StatusReply(id) ==
  IF TaskOf(id) = {} THEN TaskNotFound
  ELSE LET told == StatusResponse(AdvanceTask(tasks[CHOOSE n \in TaskOf(id) : TRUE])) IN
    Typed("ImportTaskStatusResponse",
      [k \in {key \in DOMAIN told : told[key] # "none"} |-> Str(told[k])])

\* An invocation the request led to, or the status it was refused with.
Invocation(op, params, request, refusal) ==
  [op |-> op, id |-> params.id, runId |-> params.runId, request |-> request,
   refusal |-> refusal]
Refused(op, status) == Invocation(op, [id |-> Empty, runId |-> Empty], NoRequest, status)

\* The order in every handler: the token, the parameters, the body.
Handle(q, op, params, decoded) ==
  CASE ~SecuritySmart(q)                     -> Refused(op, 401)
    [] SecuritySmart(q) /\ params = {}       -> Refused(op, 400)
    [] SecuritySmart(q) /\ params # {} /\ decoded.code # 0 -> Refused(op, decoded.code)
    [] OTHER -> Invocation(op, CHOOSE p \in params : TRUE, decoded.request, 0)

NoParams == {[id |-> Empty, runId |-> Empty]}
NoBody   == Decoded(0, NoRequest)

HandleHealthz(q)          == Handle(q, "healthz", NoParams, NoBody)
HandleCancel(q, args)     == Handle(q, "cancel", DecodeCancelParams(args), DecodeCancelRequest(q))
HandleImportruns(q, args) ==
  Handle(q, "importruns", DecodeImportrunsParams(args), DecodeImportrunsRequest(q))
HandleRunStatus(q, args)  == Handle(q, "runstatus", DecodeRunStatusParams(args), NoBody)
HandleStatus(q, args)     == Handle(q, "status", DecodeStatusParams(args), NoBody)
HandleImporttasks(q)      == Handle(q, "importtasks", NoParams, DecodeImporttasksRequest(q))

ServeHTTP(q) ==
  LET route == RouteRequest(q.method, q.path) IN
    CASE route.op = "healthz"     -> HandleHealthz(q)
      [] route.op = "importtasks" -> HandleImporttasks(q)
      [] route.op = "cancel"      -> HandleCancel(q, route.args)
      [] route.op = "importruns"  -> HandleImportruns(q, route.args)
      [] route.op = "runstatus"  -> HandleRunStatus(q, route.args)
      [] route.op = "status"      -> HandleStatus(q, route.args)
      [] route.op = "notallowed" -> Refused("none", 405)
      [] route.op = "notfound"   -> Refused("none", 404)

Reply(inv) ==
  CASE inv.op = "healthz"     -> HealthzReply
    [] inv.op = "importtasks" -> ImporttasksReply
    [] inv.op = "cancel"      -> CancelReply(inv.id)
    [] inv.op = "importruns"  -> ImportrunsReply(inv.id)
    [] inv.op = "runstatus"  -> RunStatusReply(inv.id, inv.runId)
    [] inv.op = "status"      -> StatusReply(inv.id)

\* The endpoint's step, given that it is invoked: the whole of its effect.
Effect(inv) ==
  CASE inv.op = "importtasks" -> APIImporttasksPost
    [] inv.op = "cancel" /\ Reply(inv).type = "NoContent" ->
         \E n \in TaskOf(inv.id) : APIImporttasksIDCancelPost(n)
    [] inv.op = "importruns" /\ Reply(inv).type = "CreateImportRunResponse" ->
         \E n \in TaskOf(inv.id) : APIImporttasksIDImportrunsPost(n)
    [] inv.op = "status" /\ TaskOf(inv.id) # {} ->
         \E n \in TaskOf(inv.id) : APIImporttasksIDStatusGet(n)
    [] OTHER -> UNCHANGED mockVars

-----------------------------------------------------------------------------
(* Responses: status, media type and body.                                  *)

ProblemStatus ==
  [BadRequest |-> 400, Unauthorized |-> 401, NotFound |-> 404, Conflict |-> 409,
   UnsupportedMediaType |-> 415, InternalServerError |-> 500]

EncodeProblem(res, contentType) ==
  Response(ProblemStatus[res.type], contentType, {EncodeProblemDetails(res.value)})

EncodeHealthzResponse(res) ==
  Response(IF res.type = "OK" THEN 200 ELSE 503, JSON, {EncodeHealthStatusResult(res.value)})

EncodeCancelResponse(res) ==
  IF res.type = "NoContent" THEN Response(204, Empty, {}) ELSE EncodeProblem(res, JSON)

\* Mutant: problems are sent as plain JSON, as by the other operations.
EncodeImportrunsResponsePlain(res) ==
  IF res.type = "CreateImportRunResponse"
  THEN Response(201, JSON, {EncodeCreateImportRunResponse(res.value)})
  ELSE EncodeProblem(res, JSON)

EncodeImportrunsResponse(res) ==
  IF res.type = "CreateImportRunResponse"
  THEN Response(201, JSON, {EncodeCreateImportRunResponse(res.value)})
  ELSE EncodeProblem(res, ProblemJSON)

EncodeRunStatusResponse(res) ==
  IF res.type = "ImportRunStatusResponse"
  THEN Response(200, JSON, {EncodeImportRunStatusResponse(res.value)})
  ELSE EncodeProblem(res, JSON)

EncodeStatusResponse(res) ==
  IF res.type = "ImportTaskStatusResponse"
  THEN Response(200, JSON, {EncodeImportTaskStatusResponse(res.value)})
  ELSE EncodeProblem(res, JSON)

EncodeImporttasksResponse(res) ==
  IF res.type = "CreateImportTaskResponse"
  THEN Response(201, JSON, {EncodeCreateImportTaskResponse(res.value)})
  ELSE EncodeProblem(res, JSON)

EncodeResponse(op, res) ==
  CASE op = "healthz"     -> EncodeHealthzResponse(res)
    [] op = "importtasks" -> EncodeImporttasksResponse(res)
    [] op = "cancel"      -> EncodeCancelResponse(res)
    [] op = "importruns"  -> EncodeImportrunsResponse(res)
    [] op = "runstatus"  -> EncodeRunStatusResponse(res)
    [] op = "status"      -> EncodeStatusResponse(res)

\* What a refused request is answered: by http.NotFound, by notAllowed, or by
\* ogen's error handler, whatever the operation.
NotFound   == Response(404, "text/plain", {})
NotAllowed == Response(405, Empty, {})
ErrorHandler(status) == Response(status, JSON, {<<<<"error_message", Str("refused")>>>>})

Refusal(inv) ==
  CASE inv.refusal = 404 -> NotFound
    [] inv.refusal = 405 -> NotAllowed
    [] OTHER             -> ErrorHandler(inv.refusal)
=============================================================================
