---------------------------- MODULE ApisSchemas ----------------------------
(***************************************************************************)
(* The messages of the APIS interface, as the code generated from          *)
(* apis/openapi3.json reads and writes them: which fields a message has,   *)
(* what a field accepts, in which order an encoder writes the fields, and  *)
(* what a validator lets through once a message has been decoded.          *)
(*                                                                         *)
(* An HTTP request is its method, the segments of its path, the values of  *)
(* its Authorization headers, its media type ("" without the header) and   *)
(* its body; a response is its status, its media type and its body.  A     *)
(* body is a set: {} for none, {s} for the fields or parts s it holds.     *)
(*                                                                         *)
(* A JSON value is a kind with what it holds, <<"string", s>>, <<"int32",  *)
(* n>>, <<"number">> for every other number, <<"array", s>> or <<"null">>. *)
(* A JSON object is the sequence of its fields <<key, value>>: the order   *)
(* is the sender's, and nothing stops a key from coming twice.  A decoded  *)
(* message is a function from the fields that were set to their values.    *)
(* What may fail gives a set: {} for an error and {v} for a result v.      *)
(***************************************************************************)
EXTENDS Naturals, Sequences

Empty == ""    \* the empty string

Str(s)        == <<"string", s>>
Int32Value(n) == <<"int32", n>>
Null          == <<"null">>

HTTPRequest(method, path, auth, content) ==
  [method |-> method, path |-> path, auth |-> auth,
   contentType |-> content.contentType, body |-> content.body]
Content(contentType, body) == [contentType |-> contentType, body |-> body]
Response(status, contentType, body) ==
  [status |-> status, contentType |-> contentType, body |-> body]

JSON        == "application/json"
ProblemJSON == "application/problem+json"
Multipart   == "multipart/form-data"

\* A request as the code has it: which of the kinds its operation allows, and the
\* fields that are set; a result: its type and the fields that are set.
Request(kind, fields) == [kind |-> kind, fields |-> fields]
Typed(type, value)    == [type |-> type, value |-> value]

NoRequest == Request("none", <<>>)
Unset     == Request("unset", <<>>)

-----------------------------------------------------------------------------
(* Types of fields: the kinds of JSON values their decoders take.  An enum  *)
(* takes any string; only its validator knows its values.                   *)

String  == {"string"}
Int32   == {"int32"}
Float64 == {"int32", "number"}
Array   == {"array"}
Nil(T)  == T \cup {"null"}

AnalysisResult   == String
ImportResult     == String
ImportStatus     == String
ImportTaskStatus == String

OptFloat64                   == Float64
OptNilAnalysisResult         == Nil(AnalysisResult)
OptNilHealthCheckResultArray == Nil(Array)
OptNilImportResult           == Nil(ImportResult)
OptNilInt32                  == Nil(Int32)
OptNilString                 == Nil(String)

\* Get: the value of a field that is set and not null.
Get(v, k) == IF k \in DOMAIN v /\ v[k] # Null THEN {v[k][2]} ELSE {}

-----------------------------------------------------------------------------
(* Messages.  Closed ones refuse a field they do not know; ProblemDetails   *)
(* keeps it as an additional property.                                      *)

Message(types, required) == [types |-> types, required |-> required, open |-> FALSE]

CancelImportTaskRequest ==
  Message([reason |-> OptNilString, cancelledBy |-> OptNilString], {})

CreateImportRunResponse  == Message([importRunId |-> String], {"importRunId"})
CreateImportTaskResponse == Message([importTaskId |-> String], {"importTaskId"})

HealthCheckResult ==
  Message([durationMs |-> OptFloat64, name |-> String, status |-> String],
          {"name", "status"})

HealthStatusResult ==
  Message([checks |-> OptNilHealthCheckResultArray, status |-> String], {"status"})

ImportRunStatusResponse ==
  Message([status |-> ImportStatus, progressPercent |-> OptNilInt32,
           importResult |-> OptNilImportResult,
           processedDocumentCount |-> OptNilInt32, totalDocumentCount |-> OptNilInt32],
          {"status"})

ImportTaskStatusResponse ==
  Message([status |-> ImportTaskStatus, analysisResult |-> OptNilAnalysisResult,
           analysisProgressInPercent |-> OptNilInt32,
           analysisErrorMessage |-> OptNilString, importResult |-> OptNilImportResult],
          {"status"})

ProblemDetailsAdditional ==
  {"null", "string", "int32", "number", "array"}

ProblemDetails ==
  [types |-> [type |-> OptNilString, title |-> OptNilString, status |-> OptNilInt32,
              detail |-> OptNilString, instance |-> OptNilString],
   required |-> {}, open |-> TRUE]

-----------------------------------------------------------------------------
(* Decoding, field by field in the order they arrive.                       *)

TypeOf(m, k) == IF k \in DOMAIN m.types THEN m.types[k]
                ELSE IF m.open THEN ProblemDetailsAdditional ELSE {}

\* A message with one of its fields set.
Set(v, k, value) == [key \in DOMAIN v \cup {k} |-> IF key = k THEN value ELSE v[key]]

\* Mutant: what a field was set to first is kept.
DecodeFieldKeepsFirst(m, read, field) ==
  {IF field[1] \in DOMAIN v THEN v ELSE Set(v, field[1], field[2]) : v \in
     IF field[2][1] \in TypeOf(m, field[1]) THEN read ELSE {}}

\* One step of ObjBytes: the value is reset and set anew.
DecodeField(m, read, field) ==
  {Set(v, field[1], field[2]) : v \in
     IF field[2][1] \in TypeOf(m, field[1]) THEN read ELSE {}}

\* What has been read after each field.
Reading(m, json) ==
  LET read[i \in 0..Len(json)] ==
        IF i = 0 THEN {<<>>} ELSE DecodeField(m, read[i - 1], json[i])
  IN read

\* Decode, with the test of the required bits at its end.
Decode(m, json) == {v \in Reading(m, json)[Len(json)] : m.required \subseteq DOMAIN v}

\* The elements of checks are messages of their own.
DecodeHealthStatusResult(json) ==
  {v \in Decode(HealthStatusResult, json) :
     \A checks \in Get(v, "checks") : \A i \in DOMAIN checks :
       Decode(HealthCheckResult, checks[i]) # {}}

-----------------------------------------------------------------------------
(* Encoding: the fields that are set, in the order of encodeFields.         *)

WriteField(v, written, k) ==
  IF k \in DOMAIN v THEN Append(written, <<k, v[k]>>) ELSE written

\* What has been written after each key.
Writing(v, order) ==
  LET written[i \in 0..Len(order)] ==
        IF i = 0 THEN <<>> ELSE WriteField(v, written[i - 1], order[i])
  IN written

Encode(v, order) == Writing(v, order)[Len(order)]

EncodeCancelImportTaskRequest(v)  == Encode(v, <<"reason", "cancelledBy">>)
EncodeCreateImportRunResponse(v)  == Encode(v, <<"importRunId">>)
EncodeCreateImportTaskResponse(v) == Encode(v, <<"importTaskId">>)
EncodeHealthStatusResult(v)       == Encode(v, <<"checks", "status">>)

EncodeImportRunStatusResponse(v) ==
  Encode(v, <<"status", "progressPercent", "importResult", "processedDocumentCount",
              "totalDocumentCount">>)

EncodeImportTaskStatusResponse(v) ==
  Encode(v, <<"status", "analysisResult", "analysisProgressInPercent",
              "analysisErrorMessage", "importResult">>)

EncodeProblemDetails(v) ==
  Encode(v, <<"type", "title", "status", "detail", "instance">>)

-----------------------------------------------------------------------------
(* Validation of what was decoded.                                          *)

ValidAnalysisResult      == {"AlleGleich", "AlleNeu", "Konflikte", "Fehler"}
ValidImportBehaviourType == {"OverwriteAndAppend", "AppendOnly"}
ValidImportResult        == {"Erfolgreich", "Fehler"}
ValidImportTaskStatus    == {"Neu", "InAnalyse", "Analysiert", "WirdImportiert",
                             "Importiert", "Abgebrochen"}
ValidSipType             == {"DigitizedAIP", "DigitizedSIP", "BornDigitalAIP",
                             "BornDigitalSIP"}
ValidImportStatus ==
  {"RequestStart", "RequestCancel", "Started", "Failed", "Canceled", "Completed",
   "UndoStarted", "UndoCompleted", "Created", "Preparing"}

ValidateImportRunStatusResponse(v) ==
  Get(v, "status") \subseteq ValidImportStatus /\ Get(v, "importResult") \subseteq ValidImportResult

\* Mutant: the values of the enums are not looked at.
ValidateImportTaskStatusResponseNever(v) == TRUE

ValidateImportTaskStatusResponse(v) ==
  /\ Get(v, "status") \subseteq ValidImportTaskStatus
  /\ Get(v, "analysisResult") \subseteq ValidAnalysisResult
  /\ Get(v, "importResult") \subseteq ValidImportResult
=============================================================================
