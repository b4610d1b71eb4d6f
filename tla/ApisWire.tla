------------------------------ MODULE ApisWire ------------------------------
(***************************************************************************)
(* Calls of the generated client to the generated server, over a network:  *)
(* callers who each make one call, requests that are served late or never, *)
(* answers that come too late for whoever gave up, and answers that are    *)
(* not the mock's, because a proxy or another version of APIS wrote them.  *)
(* Somebody with curl may send a request no client would build.            *)
(***************************************************************************)
EXTENDS ApisServer, ApisClient, FiniteSets, SequencesExt

CONSTANTS
  Callers,        \* those who call
  Calls,          \* what they may call
  HandWritten,    \* the requests that may come from curl, at most one of them
  PriorTasks      \* the record of the task there is before anyone calls

\* The fields of a request, whatever their values.
IsFields(v) == v = [k \in DOMAIN v |-> v[k]]

\* A form that is filled in as by CreateImportTaskActivity and CreateImportRunActivity:
\* the file, the user and one more field, which is the type of the SIP for a task and may
\* be missing for a run.  No form at all is possible too.
IsForm(request, key, values) ==
  /\ request = Request(request.kind, request.fields) /\ request.kind \in {"unset", "form"}
  /\ IsFields(request.fields)
  /\ request.kind = "unset" => request = Unset
  /\ request.kind = "form" =>
       /\ {"username", "file"} \subseteq DOMAIN request.fields
       /\ key = "sipType" => key \in DOMAIN request.fields
       /\ DOMAIN request.fields \subseteq {key, "username", "file"}
       /\ Get(request.fields, key) \subseteq values

\* A cancellation's request: none, JSON, text, or JSON under a content type of the
\* caller's.  The encoder lets "" and the types ending in +json pass; with any other it
\* sends nothing, which is how a call without a token ends.
IsCancellation(request) ==
  /\ request = Request(request.kind, request.fields)
  /\ request.kind \in {"empty", "json", "text", Empty} \cup SuffixedJson
  /\ IsFields(request.fields)
  /\ request.kind = "empty" => request = Request("empty", <<>>)
  /\ request.kind \notin {"empty", "text"} =>
       /\ DOMAIN request.fields \subseteq {"reason", "cancelledBy"}
       /\ \A k \in DOMAIN request.fields : request.fields[k][1] \in OptNilString
  /\ request.kind = "text" => DOMAIN request.fields \subseteq {"data"}

IsCall(call) ==
  /\ call = [op |-> call.op, id |-> call.id, runId |-> call.runId, request |-> call.request]
  /\ call.op \in Operations
  /\ call.id = Empty <=> call.op \in {"healthz", "importtasks"}
  /\ call.runId = Empty <=> call.op # "runstatus"
  /\ CASE call.op = "importtasks" -> IsForm(call.request, "sipType", ValidSipType)
       [] call.op = "importruns"  ->
            IsForm(call.request, "importBehaviour", ValidImportBehaviourType)
       [] call.op = "cancel"      -> IsCancellation(call.request)
       [] OTHER                   -> call.request = NoRequest

ASSUME CallsAreOfTheClient == \A call \in Calls : IsCall(call)

\* What a task record looks like however far the endpoints have taken it.
TaskRecord(t) ==
  /\ t \in TaskState
  /\ t.status = "Neu" => t.analysisPolls <= 1
  /\ t.status = "WirdImportiert" => t.importPolls <= 1
  /\ t.status \in {"WirdImportiert", "Importiert"} => t.run # NoRun
  /\ t.status \in {"Analysiert", "WirdImportiert", "Importiert"} => t.analysisDone
  /\ t.status = "Importiert" <=> t.importDone

ASSUME PriorTasksAreTasks == \A t \in PriorTasks : TaskRecord(t) /\ t.run \in {NoRun, 1}

VARIABLES
  client,         \* each caller: its call, and what came of it
  requests,       \* the requests on their way
  answers,        \* the answers on their way
  served          \* what the server did with each request it got

vars == <<handler, tasks, nextRun, client, requests, answers, served>>

Curl == "curl"
ASSUME CurlIsNoCaller == Curl \notin Callers

\* The numbers in the task IDs do not run out: each caller creates one task at most, and so
\* does whoever has curl.
ASSUME IDsSuffice ==
  IsFiniteSet(Callers) /\ 1..(Cardinality(Callers) + 2) \subseteq DOMAIN TaskIDs

NoCall == [op |-> "none", id |-> Empty, runId |-> Empty, request |-> NoRequest]

Idle == [stage |-> "idle", call |-> NoCall, results |-> {}, disturbed |-> FALSE]

\* A call that is over: {} stands for an error.
Over(call, results, disturbed) ==
  [stage |-> "over", call |-> call, results |-> results, disturbed |-> disturbed]

Waiting(c) == c \in Callers /\ client[c].stage = "waiting"

Init ==
  /\ \E t \in PriorTasks :
       /\ tasks = <<t>>
       /\ nextRun = t.run
       /\ handler = [analysisResult |-> t.analysisResult, importResult |-> t.importResult]
  /\ client = [c \in Callers |-> Idle]
  /\ requests = {} /\ answers = {} /\ served = {}

\* A caller calls; without a token nothing is sent.
Call(c) ==
  /\ client[c].stage = "idle"
  /\ \E call \in Calls, tokens \in Smart :
       /\ requests' = requests \cup {[from |-> c, http |-> Send(t, call)] : t \in tokens}
       /\ client' = [client EXCEPT ![c] =
            IF tokens = {} THEN Over(call, {}, FALSE)
            ELSE [Idle EXCEPT !.stage = "waiting", !.call = call]]
  /\ UNCHANGED <<handler, tasks, nextRun, answers, served>>

CallByHand ==
  /\ \A m \in requests \cup served : m.from # Curl
  /\ \E q \in HandWritten : requests' = requests \cup {[from |-> Curl, http |-> q]}
  /\ UNCHANGED <<handler, tasks, nextRun, client, answers, served>>

\* What the server makes of a request: the invocation, the endpoint's step, the answer.
Respond(m) ==
  LET inv      == ServeHTTP(m.http)
      reply    == IF inv.refusal = 0 THEN {Reply(inv)} ELSE {}
      response == IF inv.refusal = 0 THEN EncodeResponse(inv.op, Reply(inv)) ELSE Refusal(inv)
  IN /\ IF inv.refusal = 0 THEN Effect(inv) ELSE UNCHANGED mockVars
     /\ answers' = answers \cup
          {[to |-> c, http |-> response, disturbed |-> FALSE] : c \in
             {d \in Callers : Waiting(d) /\ d = m.from}}
     /\ served' = served \cup
          {[from |-> m.from, invocation |-> inv, reply |-> reply,
            status |-> response.status, changed |-> tasks' # tasks]}
     /\ UNCHANGED client

\* Mutant: a request that was served is sent again.
ServeAgain(m) == Respond(m) /\ UNCHANGED requests

\* The server handles a request; nobody reads the answer of a caller who gave up.
Serve(m) == Respond(m) /\ requests' = requests \ {m}

\* What others may make of the fields of a response: one more, another order, any of
\* them left out, twice or null, a value nobody knows, no ID.
Enums == {"status", "analysisResult", "importResult"}
IDs   == {"importTaskId", "importRunId"}

Holding(s, i, value) == ReplaceAt(s, i, <<s[i][1], value>>)

Varied(s) ==
  {Append(s, <<"traceId", Str("0af7")>>), Reverse(s)}
  \cup {RemoveAt(s, i) : i \in DOMAIN s}
  \cup {<<<<s[i][1], Str(Empty)>>>> \o s : i \in DOMAIN s}
  \cup {Holding(s, i, Null) : i \in DOMAIN s}
  \cup {Holding(s, i, Str("Zurueckgestellt")) : i \in {j \in DOMAIN s : s[j][1] \in Enums}}
  \cup {Holding(s, i, Str(Empty)) : i \in {j \in DOMAIN s : s[j][1] \in IDs}}

Disturbed(http) ==
  {Response(502, "text/html", {}),
   Response(500, JSON, {<<<<"title", Str("InternalServerError")>>>>})}
  \cup {Response(http.status, http.contentType, {s}) : s \in UNION {Varied(b) : b \in http.body}}

\* At most one answer is disturbed.
Disturb(a) ==
  /\ \A c \in Callers : ~client[c].disturbed
  /\ \A b \in answers : ~b.disturbed
  /\ \E http \in Disturbed(a.http) :
       answers' = (answers \ {a}) \cup {[a EXCEPT !.http = http, !.disturbed = TRUE]}
  /\ UNCHANGED <<handler, tasks, nextRun, client, requests, served>>

Receive(a) ==
  /\ answers' = answers \ {a}
  /\ LET call == client[a.to].call IN
       client' = [client EXCEPT ![a.to] =
                    Over(call, DecodeResponse(call.op, a.http), a.disturbed)]
  /\ UNCHANGED <<handler, tasks, nextRun, requests, served>>

\* The client's timeout, a lost connection, or an activity that is over.
GiveUp(c) ==
  /\ Waiting(c)
  /\ client' = [client EXCEPT ![c] = Over(client[c].call, {}, FALSE)]
  /\ answers' = {a \in answers : a.to # c}
  /\ UNCHANGED <<handler, tasks, nextRun, requests, served>>

Next ==
  \/ \E c \in Callers : Call(c) \/ GiveUp(c)
  \/ CallByHand
  \/ \E m \in requests : Serve(m)
  \/ \E a \in answers : Disturb(a) \/ Receive(a)

Spec == Init /\ [][Next]_vars

-----------------------------------------------------------------------------
(* Properties.                                                              *)

Stages == {"idle", "waiting", "over"}

\* The state is well formed: a caller has at most one result and is owed at most one
\* answer, and no request is handled twice.
TypeOK ==
  /\ MockTypeOK
  /\ \A c \in Callers :
       /\ client[c].stage \in Stages
       /\ client[c].call \in Calls \cup {NoCall}
       /\ Cardinality(client[c].results) <= 1
       /\ Cardinality({a \in answers : a.to = c} \cup {m \in requests : m.from = c}) <= 1
       /\ \A s, t \in served : s.from = t.from => s = t
  /\ \A a \in answers : Waiting(a.to)

\* The one request of the client's that the server cannot read: a cancellation with a
\* content type that was left empty.
Untyped(call) == call.op = "cancel" /\ call.request.kind = Empty

\* What the server invokes for a caller is the call the caller made, with its
\* parameters and every field of its form; the front of the server refuses a caller
\* nothing but a bad token, and a cancellation without its content type.  The encoders of
\* internal/apis/gen and the router and the decoders of the server are generated apart and
\* must agree.
HandledAsSent ==
  \A s \in served : s.from \in Callers =>
    LET inv == s.invocation IN
      IF inv.refusal = 0
      THEN [op |-> inv.op, id |-> inv.id, runId |-> inv.runId, request |-> inv.request]
             = client[s.from].call
      ELSE inv.refusal = 401 \/ (inv.refusal = 400 /\ Untyped(client[s.from].call))

\* An answer that nobody disturbed is read as exactly the typed result the endpoint
\* returned; a refused token is read as Unauthorized, but by the operations whose 401
\* has another media type (importruns) or none in the interface (healthz): there it is
\* an error like a lost connection, and so is the 400 of a cancellation.
AnswersAreUnderstood ==
  \A a \in answers : ~a.disturbed =>
    \E s \in served :
      /\ s.from = a.to
      /\ LET read == DecodeResponse(s.invocation.op, a.http) IN
           CASE s.invocation.refusal = 0 -> read = s.reply
             [] s.invocation.refusal = 400 -> read = {}
             [] s.invocation.refusal = 401 /\ s.invocation.op \in {"importruns", "healthz"} ->
                  read = {}
             [] OTHER -> \E res \in read : res.type = "Unauthorized"

\* What the fields of a body say when it is read as a message m: the last value of every
\* key, when every value has a type its key accepts and every required key is there.
LastOneWins(m, json) ==
  LET keys == {json[i][1] : i \in DOMAIN json}
      last(k) == json[CHOOSE i \in DOMAIN json :
                        json[i][1] = k /\ \A j \in DOMAIN json : json[j][1] = k => j <= i][2]
  IN IF /\ \A i \in DOMAIN json : json[i][2][1] \in TypeOf(m, json[i][1])
        /\ m.required \subseteq keys
     THEN {[k \in keys |-> last(k)]} ELSE {}

\* Decoding by reading field after field gives what the fields say, for every answer on
\* its way, with any of its fields left out, repeated, null, unknown or in another order.
DecodingIsLastOneWins ==
  \A a \in answers : \A json \in a.http.body :
    \A m \in {ImportTaskStatusResponse, ImportRunStatusResponse, CreateImportTaskResponse,
              CreateImportRunResponse, HealthStatusResult, ProblemDetails} :
      Decode(m, json) = LastOneWins(m, json)

\* What an undisturbed answer says goes on being true: that a task was canceled or
\* imported, that it exists, which run it has, and that its ID is nobody else's.
AnswersStayTrue ==
  \A c \in Callers : \A res \in client[c].results : ~client[c].disturbed =>
    LET of == TaskOf(client[c].call.id) IN
      CASE res.type = "NoContent" -> \A n \in of : tasks[n].status = "Abgebrochen"
        [] res.type = "Conflict"  -> \A n \in of : tasks[n].status = "Importiert"
        [] res.type = "CreateImportTaskResponse" ->
             /\ TaskOf(ID(res, "importTaskId")) # {}
             /\ \A d \in Callers \ {c} : res \notin client[d].results
        [] res.type = "CreateImportRunResponse"  -> \A n \in of :
             tasks[n].run # NoRun /\ RunIDs[tasks[n].run] = ID(res, "importRunId")
        [] OTHER -> TRUE

\* A poll concludes only what is true of the task: "done" with the very result of the task,
\* from disturbed answers too.  The poll of the analysis is over for good only when the task
\* is past the analysis or cannot be asked for, or when somebody took the result, which the
\* interface does not require, from the answer that tells of the end of the analysis;
\* whatever else comes back is asked again.
PollsConcludeRightly ==
  \A c \in Callers : client[c].stage = "over" /\ client[c].call.op = "status" =>
    LET results   == client[c].results
        told(key) == UNION {Status(res, key) : res \in results}
    IN /\ AnalysisVerdict(results) = "done" => \E n \in TaskOf(client[c].call.id) :
            tasks[n].analysisDone /\ told("analysisResult") = {tasks[n].analysisResult}
       /\ ImportVerdict(results) = "done" => \E n \in TaskOf(client[c].call.id) :
            tasks[n].importDone /\ told("importResult") = {tasks[n].importResult}
       /\ AnalysisVerdict(results) = "final" =>
            \/ \E n \in TaskOf(client[c].call.id) :
                 tasks[n].status \in {"WirdImportiert", "Importiert", "Abgebrochen"}
            \/ \E s \in served : s.from = c /\ s.status \in {401, 404}
            \/ /\ client[c].disturbed
               /\ told("status") = {"Analysiert"} /\ told("analysisResult") = {}
               /\ \E n \in TaskOf(client[c].call.id) : tasks[n].analysisDone

\* What the activities that create something conclude from the end of their call.  An ID
\* that is missing in the answer ends the activity, but tells it nothing.
Creating == {"importtasks", "importruns"}

Verdict(end) ==
  IF end.call.op = "importtasks" THEN TaskVerdict(end.results) ELSE RunVerdict(end.results)

Told(end) ==
  CASE end.stage # "over" -> "nothing"
    [] end.stage = "over" /\ end.call.op \in Creating /\ Verdict(end) = "done" -> "done"
    [] /\ end.stage = "over" /\ end.call.op \in Creating /\ Verdict(end) = "final"
       /\ \A res \in end.results : res.type \in DOMAIN ProblemStatus -> "refused"
    [] OTHER -> "unknown"

Exchange == INSTANCE ApisExchange WITH
  made <- {s.from : s \in {r \in served : r.changed /\ r.from \in Callers}},
  told <- [c \in Callers |-> Told(client[c])]

\* The wire implements ApisExchange: an activity that is not tried again because it was
\* refused has created nothing and never will, and one that succeeds has created something,
\* whatever is lost, late or disturbed.
KeepsExchange == Exchange!Spec
=============================================================================
