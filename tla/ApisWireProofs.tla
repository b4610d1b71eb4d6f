--------------------------- MODULE ApisWireProofs ---------------------------
(***************************************************************************)
(* Proofs about module ApisWire: for any number of callers, any calls the  *)
(* activities can make, any requests by hand and any task there may be     *)
(* before, as long as the numbers of the task IDs do not run out.          *)
(*                                                                         *)
(* WireInv says who has a request or an answer on its way and that nobody  *)
(* has two; ServerInv that the records of the mock are task records.  They *)
(* are inductive together, and with them, one after the other, are         *)
(* TidingsInv, which says of the statuses that were sent whether something *)
(* was created, and TruthInv, which says that every reply goes on to hold  *)
(* and that there are no more tasks than requests were served.  Decoding   *)
(* and encoding are recursive functions: what they give for messages of    *)
(* any length is proved by induction over the fields.                      *)
(***************************************************************************)
EXTENDS ApisWire, FiniteSetTheorems, SequenceTheorems, WellFoundedInduction, TLAPS

-----------------------------------------------------------------------------
(* What the end of a call tells.                                            *)

\* An answer to the creation of a task is read by its status.
LEMMA TaskAnswers ==
  ASSUME NEW http
  PROVE  LET results == DecodeImporttasksResponse(http) IN
           /\ TaskVerdict(results) = "done" => http.status = 201
           /\ TaskVerdict(results) = "final" /\ (\A res \in results : res.type \in DOMAIN ProblemStatus)
                => http.status \notin {201, 500, 502}
<1> DEFINE results == DecodeImporttasksResponse(http)
           problems == {"BadRequest", "Unauthorized", "NotFound", "Conflict",
                        "UnsupportedMediaType", "InternalServerError"}
<1>1. DOMAIN ProblemStatus = problems
  BY DEF ProblemStatus
<1>2. \A type, v : Typed(type, v).type = type
  BY DEF Typed
<1>3. ASSUME http.status = 201 PROVE \A res \in results : res.type = "CreateImportTaskResponse"
  BY <1>2, <1>3 DEF DecodeImporttasksResponse, Understand
<1>4. ASSUME http.status # 201, NEW res \in results
      PROVE  /\ http.status \in {400, 401, 415, 500} /\ res.type \in problems
             /\ http.status = 500 => res.type = "InternalServerError"
  <2>1. results = UnderstandProblem(http, JSON, ImporttasksProblems)
    BY <1>4 DEF DecodeImporttasksResponse
  <2>2. http.status \in DOMAIN ImporttasksProblems /\ res.type = ImporttasksProblems[http.status]
    BY <1>2, <1>4, <2>1 DEF UnderstandProblem, Understand
  <2>3. http.status \in {400, 401, 415, 500} /\ res.type = ProblemType(http.status)
    BY <2>2 DEF ImporttasksProblems, Problems
  <2> QED
    BY <2>3 DEF ProblemType
<1> HIDE DEF results
<1>5. TaskVerdict(results) = "done" => http.status = 201
  <2> SUFFICES ASSUME TaskVerdict(results) = "done" PROVE http.status = 201
    OBVIOUS
  <2>1. PICK res \in results : res.type = "CreateImportTaskResponse"
    BY DEF TaskVerdict
  <2> QED
    BY <1>4, <2>1
<1>6. ASSUME TaskVerdict(results) = "final", \A res \in results : res.type \in DOMAIN ProblemStatus
      PROVE  http.status \notin {201, 500, 502}
  <2>1. PICK res \in results : TRUE
    BY <1>6 DEF TaskVerdict
  <2>2. http.status # 201
    BY <1>1, <1>3, <1>6, <2>1
  <2>3. http.status # 500
    BY <1>4, <1>6, <2>1 DEF TaskVerdict
  <2> QED
    BY <1>4, <2>1, <2>2, <2>3
<1> QED
  BY <1>5, <1>6 DEF results

\* So is an answer to the creation of a run.
LEMMA RunAnswers ==
  ASSUME NEW http
  PROVE  LET results == DecodeImportrunsResponse(http) IN
           /\ RunVerdict(results) = "done" => http.status = 201
           /\ RunVerdict(results) = "final" /\ (\A res \in results : res.type \in DOMAIN ProblemStatus)
                => http.status \notin {201, 500, 502}
<1> DEFINE results == DecodeImportrunsResponse(http)
           problems == {"BadRequest", "Unauthorized", "NotFound", "Conflict",
                        "UnsupportedMediaType", "InternalServerError"}
<1>1. DOMAIN ProblemStatus = problems
  BY DEF ProblemStatus
<1>2. \A type, v : Typed(type, v).type = type
  BY DEF Typed
<1>3. ASSUME http.status = 201 PROVE \A res \in results : res.type = "CreateImportRunResponse"
  BY <1>2, <1>3 DEF DecodeImportrunsResponse, Understand
<1>4. ASSUME http.status # 201, NEW res \in results
      PROVE  http.status \in {400, 401, 404, 415} /\ res.type \in problems
  <2>1. results = UnderstandProblem(http, ProblemJSON, ImportrunsProblems)
    BY <1>4 DEF DecodeImportrunsResponse
  <2>2. http.status \in DOMAIN ImportrunsProblems /\ res.type = ImportrunsProblems[http.status]
    BY <1>2, <1>4, <2>1 DEF UnderstandProblem, Understand
  <2>3. http.status \in {400, 401, 404, 415} /\ res.type = ProblemType(http.status)
    BY <2>2 DEF ImportrunsProblems, Problems
  <2> QED
    BY <2>3 DEF ProblemType
<1> HIDE DEF results
<1>5. RunVerdict(results) = "done" => http.status = 201
  <2> SUFFICES ASSUME RunVerdict(results) = "done" PROVE http.status = 201
    OBVIOUS
  <2>1. PICK res \in results : res.type = "CreateImportRunResponse"
    BY DEF RunVerdict
  <2> QED
    BY <1>4, <2>1
<1>6. ASSUME RunVerdict(results) = "final", \A res \in results : res.type \in DOMAIN ProblemStatus
      PROVE  http.status \notin {201, 500, 502}
  <2>1. PICK res \in results : TRUE
    BY <1>6 DEF RunVerdict
  <2> QED
    BY <1>1, <1>3, <1>4, <1>6, <2>1
<1> QED
  BY <1>5, <1>6 DEF results

-----------------------------------------------------------------------------
(* Requests and answers.                                                    *)

\* The answer the server has sent.
Sent(s) ==
  IF s.invocation.refusal = 0
  THEN EncodeResponse(s.invocation.op, CHOOSE res \in s.reply : TRUE)
  ELSE Refusal(s.invocation)

\* What the caller may get to read of it.
Arrives(s, http, disturbed) ==
  IF disturbed THEN http \in Disturbed(Sent(s)) ELSE http = Sent(s)

\* A request that was sent for a caller is that of its call.
Outstanding(m) ==
  m.from \in Callers =>
    /\ client[m.from].stage # "idle"
    /\ \E t : m = [from |-> m.from, http |-> Send(t, client[m.from].call)]

\* So was one that was served.
Answered(s) ==
  s.from \in Callers =>
    /\ client[s.from].stage # "idle"
    /\ \E t : s.invocation = ServeHTTP(Send(t, client[s.from].call))

ClientInv ==
  /\ DOMAIN client = Callers
  /\ \A c \in Callers :
       /\ client[c].stage \in Stages
       /\ client[c].stage = "idle" => client[c] = Idle
       /\ client[c].stage # "idle" => client[c].call \in Calls

RequestsInv ==
  /\ \A m \in requests : m.from \in Callers \cup {Curl} /\ Outstanding(m)
  /\ \A m, n \in requests : m.from = n.from => m = n

ServedInv ==
  /\ \A s \in served :
       /\ s.from \in Callers \cup {Curl} /\ Answered(s)
       /\ s.status = Sent(s).status
       /\ \A m \in requests : m.from # s.from
  /\ \A r, s \in served : r.from = s.from => r = s

AnswersInv ==
  /\ \A a \in answers :
       /\ Waiting(a.to)
       /\ a = [to |-> a.to, http |-> a.http, disturbed |-> a.disturbed]
       /\ \E s \in served : s.from = a.to /\ Arrives(s, a.http, a.disturbed)
  /\ \A a, b \in answers : a.to = b.to => a = b

\* What a caller has read.
ResultsInv ==
  \A c \in Callers : client[c].results # {} =>
    /\ client[c].stage = "over"
    /\ \E s \in served : \E http : /\ s.from = c /\ Arrives(s, http, client[c].disturbed)
                                   /\ client[c].results = DecodeResponse(client[c].call.op, http)

WireInv == ClientInv /\ RequestsInv /\ ServedInv /\ AnswersInv /\ ResultsInv

\* What the server makes of a request.
LEMMA ServeFacts ==
  ASSUME NEW m \in requests, Serve(m)
  PROVE  \E s : /\ s.from = m.from /\ s.invocation = ServeHTTP(m.http)
                /\ s.invocation.refusal = 0 => s.reply = {Reply(s.invocation)}
                /\ s.status = Sent(s).status /\ s.changed = (tasks' # tasks)
                /\ IF s.invocation.refusal = 0 THEN Effect(s.invocation) ELSE UNCHANGED mockVars
                /\ served' = served \cup {s} /\ requests' = requests \ {m}
                /\ answers' = answers \cup {[to |-> c, http |-> Sent(s), disturbed |-> FALSE] :
                                              c \in {d \in Callers : Waiting(d) /\ d = m.from}}
                /\ UNCHANGED client
<1> DEFINE inv      == ServeHTTP(m.http)
           reply    == IF inv.refusal = 0 THEN {Reply(inv)} ELSE {}
           response == IF inv.refusal = 0 THEN EncodeResponse(inv.op, Reply(inv)) ELSE Refusal(inv)
           s        == [from |-> m.from, invocation |-> inv, reply |-> reply,
                        status |-> response.status, changed |-> tasks' # tasks]
<1> HIDE DEF inv
<1>1. inv.refusal = 0 => (CHOOSE res \in {Reply(inv)} : TRUE) = Reply(inv)
  OBVIOUS
<1>2. /\ s.from = m.from /\ s.invocation = inv /\ s.reply = reply
      /\ s.status = response.status /\ s.changed = (tasks' # tasks)
  OBVIOUS
<1>3. Sent(s) = response
  <2>1. CASE inv.refusal = 0
    BY <1>1, <1>2, <2>1 DEF Sent
  <2>2. CASE inv.refusal # 0
    BY <1>2, <2>2 DEF Sent
  <2> QED
    BY <2>1, <2>2
<1>4. /\ IF inv.refusal = 0 THEN Effect(inv) ELSE UNCHANGED mockVars
      /\ answers' = answers \cup {[to |-> c, http |-> response, disturbed |-> FALSE] :
                                    c \in {d \in Callers : Waiting(d) /\ d = m.from}}
      /\ served' = served \cup {s} /\ requests' = requests \ {m} /\ UNCHANGED client
  BY Zenon DEF Serve, Respond, inv
<1> HIDE DEF s, response
<1> WITNESS s
<1>5. inv.refusal = 0 => s.reply = {Reply(inv)}
  BY <1>2
<1> QED
  BY <1>2, <1>3, <1>4, <1>5 DEF inv

\* There is one token, or none.
LEMMA OneToken == \A tokens \in Smart : \A t, u \in tokens : t = u
BY DEF Smart

\* A step that leaves the other callers alone leaves what is said of their requests alone.
LEMMA SameCaller ==
  ASSUME NEW c, client'[c] = client[c] \/ (client[c].stage # "idle" /\ client'[c].stage # "idle"
                                           /\ client'[c].call = client[c].call)
  PROVE  /\ \A m : m.from = c /\ Outstanding(m) => Outstanding(m)'
         /\ \A s : s.from = c /\ Answered(s) => Answered(s)'
BY DEF Outstanding, Answered

\* Call preserves the invariant: a caller who was idle has one request on its way at most.
LEMMA CallStep ==
  ASSUME WireInv, NEW c \in Callers, Call(c)
  PROVE  WireInv'
<1>1. PICK call \in Calls, tokens \in Smart :
        /\ requests' = requests \cup {[from |-> c, http |-> Send(t, call)] : t \in tokens}
        /\ client' = [client EXCEPT ![c] =
             IF tokens = {} THEN Over(call, {}, FALSE)
             ELSE [Idle EXCEPT !.stage = "waiting", !.call = call]]
  BY Zenon DEF Call
<1>2. client[c].stage = "idle" /\ UNCHANGED <<answers, served>>
  BY DEF Call
<1>3. /\ DOMAIN client' = Callers /\ \A d \in Callers : d # c => client'[d] = client[d]
      /\ client'[c] = IF tokens = {} THEN Over(call, {}, FALSE)
                      ELSE [Idle EXCEPT !.stage = "waiting", !.call = call]
  BY <1>1 DEF WireInv, ClientInv
<1>4. /\ client'[c].stage \in {"waiting", "over"} /\ client'[c].call = call
      /\ client'[c].results = {}
  BY <1>3 DEF Over, Idle
<1>5. ClientInv'
  BY <1>3, <1>4 DEF WireInv, ClientInv, Stages
<1>6. /\ \A m \in requests : m.from # c
      /\ \A s \in served : s.from # c
      /\ \A a \in answers : a.to # c
  BY <1>2 DEF WireInv, RequestsInv, ServedInv, AnswersInv, Outstanding, Answered, Waiting
<1>7. \A d \in Callers : d # c =>
        /\ \A m : m.from = d /\ Outstanding(m) => Outstanding(m)'
        /\ \A s : s.from = d /\ Answered(s) => Answered(s)'
  BY <1>3, SameCaller
<1>8. \A m \in requests' : m \in requests \/ \E t \in tokens : m = [from |-> c, http |-> Send(t, call)]
  BY <1>1
<1>9. RequestsInv'
  <2>1. ASSUME NEW m \in requests' PROVE m.from \in Callers \cup {Curl} /\ Outstanding(m)'
    <3>1. CASE m \in requests
      <4>1. m.from \in Callers \cup {Curl} /\ Outstanding(m)
        BY <3>1 DEF WireInv, RequestsInv
      <4> QED
        BY <1>6, <1>7, <3>1, <4>1 DEF Outstanding
    <3>2. CASE \E t \in tokens : m = [from |-> c, http |-> Send(t, call)]
      BY <1>4, <3>2 DEF Outstanding
    <3> QED
      BY <1>8, <3>1, <3>2
  <2>2. ASSUME NEW m \in requests', NEW n \in requests', m.from = n.from PROVE m = n
    BY <1>6, <1>8, <2>2, OneToken DEF WireInv, RequestsInv
  <2> QED
    BY <2>1, <2>2 DEF RequestsInv
<1>10. ServedInv'
  <2>1. ASSUME NEW s \in served PROVE s.from \in Callers \cup {Curl} /\ Answered(s)'
    <3>1. s.from \in Callers \cup {Curl} /\ Answered(s)
      BY DEF WireInv, ServedInv
    <3> QED
      BY <1>6, <1>7, <3>1 DEF Answered
  <2>2. ASSUME NEW s \in served, NEW m \in requests' PROVE m.from # s.from
    BY <1>6, <1>8 DEF WireInv, ServedInv
  <2> QED
    BY <1>2, <2>1, <2>2 DEF WireInv, ServedInv
<1>11. AnswersInv'
  BY <1>2, <1>3, <1>6 DEF WireInv, AnswersInv, Waiting
<1>12. ResultsInv'
  <2> SUFFICES ASSUME NEW d \in Callers, client'[d].results # {}
               PROVE  /\ client'[d].stage = "over"
                      /\ \E s \in served' : \E http :
                           /\ s.from = d /\ Arrives(s, http, client'[d].disturbed)
                           /\ client'[d].results = DecodeResponse(client'[d].call.op, http)
    BY Zenon DEF ResultsInv
  <2>1. client'[d] = client[d] /\ client[d].results # {}
    BY <1>3, <1>4
  <2>2. /\ client[d].stage = "over"
        /\ \E s \in served : \E http :
             /\ s.from = d /\ Arrives(s, http, client[d].disturbed)
             /\ client[d].results = DecodeResponse(client[d].call.op, http)
    BY <2>1 DEF WireInv, ResultsInv
  <2> QED
    BY <1>2, <2>1, <2>2
<1> QED
  BY <1>5, <1>9, <1>10, <1>11, <1>12 DEF WireInv

\* A caller comes to an end, and no answer is left for it.
LEMMA EndStep ==
  ASSUME WireInv, NEW c \in Callers, Waiting(c), NEW results, NEW disturbed,
         client' = [client EXCEPT ![c] = Over(client[c].call, results, disturbed)],
         answers' \subseteq answers, \A a \in answers' : a.to # c, UNCHANGED <<requests, served>>,
         results # {} => \E s \in served : \E http : /\ s.from = c /\ Arrives(s, http, disturbed)
                                                     /\ results = DecodeResponse(client[c].call.op, http)
  PROVE  WireInv'
<1>1. /\ DOMAIN client' = Callers /\ \A d \in Callers : d # c => client'[d] = client[d]
      /\ client'[c] = Over(client[c].call, results, disturbed) /\ client[c].stage = "waiting"
  BY DEF WireInv, ClientInv, Waiting
<1>2. /\ client'[c].stage = "over" /\ client'[c].call = client[c].call
      /\ client'[c].results = results /\ client'[c].disturbed = disturbed
  BY <1>1 DEF Over
<1>3. ClientInv'
  BY <1>1, <1>2 DEF WireInv, ClientInv, Stages
<1>4. \A d \in Callers :
        /\ \A m : m.from = d /\ Outstanding(m) => Outstanding(m)'
        /\ \A s : s.from = d /\ Answered(s) => Answered(s)'
  BY <1>1, <1>2, SameCaller
<1>5. \A m : Outstanding(m) => Outstanding(m)'
  BY <1>4 DEF Outstanding
<1>6. \A s : Answered(s) => Answered(s)'
  BY <1>4 DEF Answered
<1>7. RequestsInv' /\ ServedInv'
  BY <1>5, <1>6 DEF WireInv, RequestsInv, ServedInv
<1>8. AnswersInv'
  BY <1>1 DEF WireInv, AnswersInv, Waiting
<1>9. ResultsInv'
  BY <1>1, <1>2 DEF WireInv, ResultsInv
<1> QED
  BY <1>3, <1>7, <1>8, <1>9 DEF WireInv

\* Giving up preserves it: the caller's answers are dropped with its call.
LEMMA GiveUpStep ==
  ASSUME WireInv, NEW c \in Callers, GiveUp(c)
  PROVE  WireInv'
<1>1. /\ Waiting(c) /\ client' = [client EXCEPT ![c] = Over(client[c].call, {}, FALSE)]
      /\ answers' \subseteq answers /\ \A a \in answers' : a.to # c
      /\ UNCHANGED <<requests, served>>
  BY DEF GiveUp
<1> QED
  BY <1>1, EndStep

\* Receiving preserves it: what the caller reads has arrived for it.
LEMMA ReceiveStep ==
  ASSUME WireInv, NEW a \in answers, Receive(a)
  PROVE  WireInv'
<1>1. /\ answers' = answers \ {a} /\ UNCHANGED <<requests, served>>
      /\ client' = [client EXCEPT ![a.to] =
           Over(client[a.to].call, DecodeResponse(client[a.to].call.op, a.http), a.disturbed)]
  BY DEF Receive
<1>2. /\ Waiting(a.to) /\ \E s \in served : s.from = a.to /\ Arrives(s, a.http, a.disturbed)
      /\ \A b \in answers : a.to = b.to => a = b
  BY DEF WireInv, AnswersInv
<1>3. a.to \in Callers
  BY <1>2 DEF Waiting
<1> QED
  BY <1>1, <1>2, <1>3, EndStep

\* A request written by hand preserves it: whoever has curl writes one.
LEMMA CallByHandStep ==
  ASSUME WireInv, CallByHand
  PROVE  WireInv'
<1>1. PICK q : requests' = requests \cup {[from |-> Curl, http |-> q]}
  BY DEF CallByHand
<1>2. /\ \A m \in requests \cup served : m.from # Curl
      /\ UNCHANGED <<client, answers, served>>
  BY DEF CallByHand
<1>3. \A m \in requests' : m \in requests \/ m = [from |-> Curl, http |-> q]
  BY <1>1
<1>4. /\ \A m : Outstanding(m)' <=> Outstanding(m)
      /\ \A s : Answered(s)' <=> Answered(s)
  BY <1>2 DEF Outstanding, Answered
<1>5. Outstanding([from |-> Curl, http |-> q])
  BY CurlIsNoCaller DEF Outstanding
<1>6. RequestsInv'
  BY <1>2, <1>3, <1>4, <1>5 DEF WireInv, RequestsInv
<1>7. ServedInv'
  BY <1>2, <1>3, <1>4 DEF WireInv, ServedInv
<1>8. ClientInv' /\ AnswersInv' /\ ResultsInv'
  BY <1>2 DEF WireInv, ClientInv, AnswersInv, ResultsInv, Waiting
<1> QED
  BY <1>6, <1>7, <1>8 DEF WireInv

\* Disturbing an answer preserves it: it goes to whom it went to.
LEMMA DisturbStep ==
  ASSUME WireInv, NEW a \in answers, Disturb(a)
  PROVE  WireInv'
<1>1. /\ UNCHANGED <<client, requests, served>> /\ ~a.disturbed
      /\ \E http \in Disturbed(a.http) :
           answers' = (answers \ {a}) \cup {[a EXCEPT !.http = http, !.disturbed = TRUE]}
  BY DEF Disturb
<1>2. PICK http \in Disturbed(a.http) :
        answers' = (answers \ {a}) \cup {[a EXCEPT !.http = http, !.disturbed = TRUE]}
  BY <1>1
<1>3. PICK s \in served : s.from = a.to /\ Arrives(s, a.http, a.disturbed)
  BY DEF WireInv, AnswersInv
<1>4. a.http = Sent(s) /\ Arrives(s, http, TRUE)
  BY <1>1, <1>2, <1>3 DEF Arrives
<1> DEFINE b == [a EXCEPT !.http = http, !.disturbed = TRUE]
<1>5. b = [to |-> a.to, http |-> http, disturbed |-> TRUE]
  <2>1. PICK to, q, d : a = [to |-> to, http |-> q, disturbed |-> d]
    BY DEF WireInv, AnswersInv
  <2>2. b = [[to |-> to, http |-> q, disturbed |-> d] EXCEPT !.http = http, !.disturbed = TRUE]
    BY <2>1
  <2>3. a.to = to
    BY <2>1
  <2> HIDE DEF b
  <2> QED
    BY <2>2, <2>3
<1> HIDE DEF b
<1>6. answers' = (answers \ {a}) \cup {b}
  BY <1>2 DEF b
<1>7. AnswersInv'
  <2>1. \A x \in answers : Waiting(x.to)'
    BY <1>1 DEF WireInv, AnswersInv, Waiting
  <2>2. /\ b = [to |-> b.to, http |-> b.http, disturbed |-> b.disturbed]
        /\ b.to = a.to /\ Arrives(s, b.http, b.disturbed)
    BY <1>4, <1>5
  <2>3. \A x \in answers' :
          /\ Waiting(x.to)' /\ x = [to |-> x.to, http |-> x.http, disturbed |-> x.disturbed]
          /\ \E y \in served' : y.from = x.to /\ Arrives(y, x.http, x.disturbed)
    BY <1>1, <1>3, <1>6, <2>1, <2>2 DEF WireInv, AnswersInv
  <2>4. \A x, y \in answers' : x.to = y.to => x = y
    BY <1>6, <2>2 DEF WireInv, AnswersInv
  <2> QED
    BY <2>3, <2>4 DEF AnswersInv
<1>8. /\ \A m : Outstanding(m)' <=> Outstanding(m)
      /\ \A x : Answered(x)' <=> Answered(x)
  BY <1>1 DEF Outstanding, Answered
<1>9. ClientInv' /\ RequestsInv' /\ ServedInv' /\ ResultsInv'
  BY <1>1, <1>8 DEF WireInv, ClientInv, RequestsInv, ServedInv, ResultsInv
<1> QED
  BY <1>7, <1>9 DEF WireInv

\* Serving preserves it: a request is served once, and its answer goes to a caller who waits.
LEMMA ServeStep ==
  ASSUME WireInv, NEW m \in requests, Serve(m)
  PROVE  WireInv'
<1>1. PICK s : /\ s.from = m.from /\ s.invocation = ServeHTTP(m.http)
               /\ s.status = Sent(s).status
               /\ served' = served \cup {s} /\ requests' = requests \ {m}
               /\ answers' = answers \cup {[to |-> c, http |-> Sent(s), disturbed |-> FALSE] :
                                             c \in {d \in Callers : Waiting(d) /\ d = m.from}}
               /\ UNCHANGED client
  BY ServeFacts
<1>2. /\ \A x : Outstanding(x)' <=> Outstanding(x)
      /\ \A x : Answered(x)' <=> Answered(x)
      /\ \A c : Waiting(c)' <=> Waiting(c)
  BY <1>1 DEF Outstanding, Answered, Waiting
<1>3. m.from \in Callers \cup {Curl} /\ Outstanding(m)
  BY DEF WireInv, RequestsInv
<1>4. Answered(s)
  BY <1>1, <1>3 DEF Answered, Outstanding
<1>5. \A x \in served : x.from # m.from
  BY DEF WireInv, ServedInv
<1>6. RequestsInv'
  BY <1>1, <1>2 DEF WireInv, RequestsInv
<1>7. ServedInv'
  <2>1. \A n \in requests' : n.from # s.from
    BY <1>1 DEF WireInv, RequestsInv
  <2> QED
    BY <1>1, <1>2, <1>3, <1>4, <1>5, <2>1 DEF WireInv, ServedInv
<1>8. AnswersInv'
  <2>1. ASSUME NEW a \in answers', a \notin answers
        PROVE  /\ Waiting(a.to) /\ a.to = m.from
               /\ a = [to |-> m.from, http |-> Sent(s), disturbed |-> FALSE]
               /\ a = [to |-> a.to, http |-> a.http, disturbed |-> a.disturbed]
               /\ Arrives(s, a.http, a.disturbed)
    BY <1>1, <2>1 DEF Arrives
  <2>2. \A a \in answers : a.to # m.from
    BY <1>5 DEF WireInv, AnswersInv
  <2>3. \A a \in answers' : /\ Waiting(a.to)
                            /\ a = [to |-> a.to, http |-> a.http, disturbed |-> a.disturbed]
                            /\ \E x \in served' : x.from = a.to /\ Arrives(x, a.http, a.disturbed)
    BY <1>1, <2>1 DEF WireInv, AnswersInv
  <2>4. \A a, b \in answers' : a.to = b.to => a = b
    BY <2>1, <2>2 DEF WireInv, AnswersInv
  <2> QED
    BY <1>2, <2>3, <2>4 DEF AnswersInv
<1>9. ClientInv' /\ ResultsInv'
  BY <1>1 DEF WireInv, ClientInv, ResultsInv
<1> QED
  BY <1>6, <1>7, <1>8, <1>9 DEF WireInv

-----------------------------------------------------------------------------
(* The server.                                                              *)

ServerInv == MockTypeOK /\ \A n \in Known : TaskRecord(tasks[n])

\* What becomes of a task: nothing it has told is taken back.
Follows(t, u) ==
  /\ u.analysisResult = t.analysisResult
  /\ t.analysisDone => u.analysisDone
  /\ t.importDone => u.importDone /\ u.importResult = t.importResult
  /\ t.run # NoRun => u.run = t.run
  /\ t.status \in {"Importiert", "Abgebrochen"} => u.status = t.status
  /\ t.status = "WirdImportiert" => u.status \in {"WirdImportiert", "Importiert", "Abgebrochen"}

\* A record is all of its fields.
LEMMA RecordFacts ==
  ASSUME NEW t \in TaskState
  PROVE  /\ t.status \in Statuses /\ t.analysisPolls \in 0..2 /\ t.importPolls \in 0..2
         /\ t.analysisDone \in BOOLEAN /\ t.importDone \in BOOLEAN
         /\ t.analysisResult \in AnalysisResults /\ t.importResult \in ImportResults
         /\ t.run \in Nat
         /\ t = [status |-> t.status, analysisPolls |-> t.analysisPolls,
                 importPolls |-> t.importPolls, analysisDone |-> t.analysisDone,
                 importDone |-> t.importDone, analysisResult |-> t.analysisResult,
                 importResult |-> t.importResult, run |-> t.run]
BY DEF TaskState

\* A poll takes a task record on, and to a record.
LEMMA AdvanceFacts ==
  ASSUME NEW t, TaskRecord(t)
  PROVE  TaskRecord(AdvanceTask(t)) /\ Follows(t, AdvanceTask(t))
<1>0. t \in TaskState
  BY DEF TaskRecord
<1>1. CASE t.status = "Neu"
  <2>1. t.analysisPolls + 1 \in 0..2 /\ (~(t.analysisPolls + 1 > 1) => t.analysisPolls + 1 <= 1)
    BY <1>0, <1>1, RecordFacts DEF TaskRecord
  <2>2. CASE t.analysisPolls + 1 > 1
    <3>1. AdvanceTask(t) = [t EXCEPT !.analysisPolls = t.analysisPolls + 1, !.status = "InAnalyse"]
      BY <1>1, <2>2 DEF AdvanceTask
    <3> QED
      BY <1>0, <1>1, <2>1, <3>1, RecordFacts DEF TaskRecord, TaskState, Statuses, Follows
  <2>3. CASE ~(t.analysisPolls + 1 > 1)
    <3>1. AdvanceTask(t) = [t EXCEPT !.analysisPolls = t.analysisPolls + 1, !.status = t.status]
      BY <1>1, <2>3 DEF AdvanceTask
    <3> QED
      BY <1>0, <1>1, <2>1, <2>3, <3>1, RecordFacts DEF TaskRecord, TaskState, Statuses, Follows
  <2> QED
    BY <2>2, <2>3
<1>2. CASE t.status = "InAnalyse"
  <2>1. AdvanceTask(t) = [t EXCEPT !.analysisDone = TRUE, !.status = "Analysiert"]
    BY <1>2 DEF AdvanceTask
  <2> QED
    BY <1>0, <1>2, <2>1, RecordFacts DEF TaskRecord, TaskState, Statuses, Follows
<1>3. CASE t.status = "WirdImportiert"
  <2>1. t.importPolls + 1 \in 0..2 /\ (~(t.importPolls + 1 > 1) => t.importPolls + 1 <= 1)
    BY <1>0, <1>3, RecordFacts DEF TaskRecord
  <2>2. CASE t.importPolls + 1 > 1
    <3>1. AdvanceTask(t) = [t EXCEPT !.importPolls = t.importPolls + 1, !.importDone = TRUE,
                                     !.status = "Importiert"]
      BY <1>3, <2>2 DEF AdvanceTask
    <3> QED
      BY <1>0, <1>3, <2>1, <3>1, RecordFacts DEF TaskRecord, TaskState, Statuses, Follows
  <2>3. CASE ~(t.importPolls + 1 > 1)
    <3>1. AdvanceTask(t) = [t EXCEPT !.importPolls = t.importPolls + 1]
      BY <1>3, <2>3 DEF AdvanceTask
    <3> QED
      BY <1>0, <1>3, <2>1, <2>3, <3>1, RecordFacts DEF TaskRecord, TaskState, Statuses, Follows
  <2> QED
    BY <2>2, <2>3
<1>4. CASE t.status \notin {"Neu", "InAnalyse", "WirdImportiert"}
  BY <1>0, <1>4 DEF AdvanceTask, Follows
<1> QED
  BY <1>1, <1>2, <1>3, <1>4

\* So does a cancellation that is accepted,
LEMMA CancelFacts ==
  ASSUME NEW t, TaskRecord(t), CancelAccepted(t)
  PROVE  /\ TaskRecord(CancelTask(t)) /\ Follows(t, CancelTask(t))
         /\ CancelTask(t).status = "Abgebrochen"
<1>1. t \in TaskState
  BY DEF TaskRecord
<1> QED
  BY <1>1, RecordFacts DEF CancelTask, CancelAccepted, TaskRecord, TaskState, Statuses, Follows

\* and the start of a run, whose number the task then has.
LEMMA RunFacts ==
  ASSUME MockTypeOK, NEW t, TaskRecord(t), RunAccepted(t)
  PROVE  /\ TaskRecord(StartRun(t, nextRun + 1)) /\ Follows(t, StartRun(t, nextRun + 1))
         /\ StartRun(t, nextRun + 1).run = nextRun + 1 /\ StartRun(t, nextRun + 1) # t
<1>1. t \in TaskState
  BY DEF TaskRecord
<1>2. nextRun \in Nat /\ handler.importResult \in ImportResults
  BY DEF MockTypeOK
<1>3. /\ StartRun(t, nextRun + 1).status = "WirdImportiert"
      /\ StartRun(t, nextRun + 1).run = nextRun + 1
      /\ StartRun(t, nextRun + 1) \in TaskState
  <2>1. 0 \in 0..2 /\ nextRun + 1 \in Nat
    BY <1>2
  <2> QED
    BY <1>1, <1>2, <2>1 DEF StartRun, TaskState, Statuses
<1>4. t.status = "Analysiert" /\ t.run = NoRun
  BY DEF RunAccepted
<1>5. TaskRecord(StartRun(t, nextRun + 1)) /\ Follows(t, StartRun(t, nextRun + 1))
  BY <1>1, <1>2, <1>3, <1>4, RecordFacts DEF StartRun, TaskRecord, Follows, NoRun
<1> QED
  BY <1>3, <1>4, <1>5

\* A new task is a record.
LEMMA NewTaskFacts ==
  ASSUME MockTypeOK
  PROVE  TaskRecord(NewTask)
BY DEF MockTypeOK, NewTask, TaskRecord, TaskState, Statuses, NoRun

\* One task is replaced.
LEMMA ReplaceFacts ==
  ASSUME ServerInv, NEW n \in Known, NEW u, TaskRecord(u),
         tasks' = [tasks EXCEPT ![n] = u], UNCHANGED handler, nextRun' \in Nat
  PROVE  /\ ServerInv' /\ Len(tasks') = Len(tasks) /\ Known' = Known
         /\ tasks'[n] = u /\ \A j \in Known \ {n} : tasks'[j] = tasks[j]
<1>1. tasks \in Seq(TaskState) /\ n \in 1..Len(tasks) /\ u \in TaskState
  BY DEF ServerInv, MockTypeOK, Known, TaskRecord
<1>2. /\ tasks' \in Seq(TaskState) /\ Len(tasks') = Len(tasks)
      /\ \A j \in 1..Len(tasks) : tasks'[j] = IF j = n THEN u ELSE tasks[j]
  BY <1>1, ExceptSeq
<1> QED
  BY <1>1, <1>2 DEF ServerInv, MockTypeOK, Known

\* What a step of the server does: one task goes on, or one is new.
ServerStep ==
  /\ Len(tasks) \in Nat /\ Len(tasks') \in {Len(tasks), Len(tasks) + 1}
  /\ \A n \in Known : n \in Known' /\ Follows(tasks[n], tasks'[n])

\* Every task goes on from itself.
LEMMA FollowsItself == \A t : Follows(t, t)
BY DEF Follows

\* A server that does nothing keeps its invariant.
LEMMA StutterFacts ==
  ASSUME ServerInv, UNCHANGED mockVars
  PROVE  ServerInv' /\ ServerStep
<1>1. UNCHANGED <<handler, tasks, nextRun>> /\ Len(tasks) \in Nat
  BY DEF mockVars, ServerInv, MockTypeOK
<1> QED
  BY <1>1, FollowsItself DEF ServerInv, MockTypeOK, ServerStep, Known

\* APIImporttasksIDStatusGet keeps it, and advances the one task.
LEMMA StatusStep ==
  ASSUME ServerInv, NEW n \in Known, APIImporttasksIDStatusGet(n)
  PROVE  /\ ServerInv' /\ ServerStep
         /\ Len(tasks') = Len(tasks) /\ tasks'[n] = AdvanceTask(tasks[n])
<1>1. tasks' = [tasks EXCEPT ![n] = AdvanceTask(tasks[n])] /\ UNCHANGED <<handler, nextRun>>
  BY DEF APIImporttasksIDStatusGet
<1>2. TaskRecord(tasks[n]) /\ nextRun' \in Nat /\ Len(tasks) \in Nat
  BY <1>1 DEF ServerInv, MockTypeOK
<1>3. TaskRecord(AdvanceTask(tasks[n])) /\ Follows(tasks[n], AdvanceTask(tasks[n]))
  BY <1>2, AdvanceFacts
<1>4. /\ ServerInv' /\ Len(tasks') = Len(tasks) /\ Known' = Known
      /\ tasks'[n] = AdvanceTask(tasks[n]) /\ \A j \in Known \ {n} : tasks'[j] = tasks[j]
  BY <1>1, <1>2, <1>3, ReplaceFacts
<1> QED
  BY <1>2, <1>3, <1>4, FollowsItself DEF ServerStep

\* APIImporttasksIDCancelPost keeps it, and cancels the one task.
LEMMA CancelStep ==
  ASSUME ServerInv, NEW n \in Known, APIImporttasksIDCancelPost(n)
  PROVE  /\ ServerInv' /\ ServerStep
         /\ Len(tasks') = Len(tasks) /\ tasks'[n].status = "Abgebrochen"
<1>1. /\ tasks' = [tasks EXCEPT ![n] = CancelTask(tasks[n])] /\ UNCHANGED <<handler, nextRun>>
      /\ CancelAccepted(tasks[n])
  BY DEF APIImporttasksIDCancelPost
<1>2. TaskRecord(tasks[n]) /\ nextRun' \in Nat /\ Len(tasks) \in Nat
  BY <1>1 DEF ServerInv, MockTypeOK
<1>3. /\ TaskRecord(CancelTask(tasks[n])) /\ Follows(tasks[n], CancelTask(tasks[n]))
      /\ CancelTask(tasks[n]).status = "Abgebrochen"
  BY <1>1, <1>2, CancelFacts
<1>4. /\ ServerInv' /\ Len(tasks') = Len(tasks) /\ Known' = Known
      /\ tasks'[n] = CancelTask(tasks[n]) /\ \A j \in Known \ {n} : tasks'[j] = tasks[j]
  BY <1>1, <1>2, <1>3, ReplaceFacts
<1> QED
  BY <1>2, <1>3, <1>4, FollowsItself DEF ServerStep

\* APIImporttasksIDImportrunsPost keeps it, and gives the task a run.
LEMMA RunStep ==
  ASSUME ServerInv, NEW n \in Known, APIImporttasksIDImportrunsPost(n)
  PROVE  /\ ServerInv' /\ ServerStep /\ Len(tasks') = Len(tasks)
         /\ tasks'[n].run = nextRun + 1 /\ nextRun + 1 # NoRun /\ tasks' # tasks
<1>1. /\ tasks' = [tasks EXCEPT ![n] = StartRun(tasks[n], nextRun + 1)]
      /\ UNCHANGED handler /\ nextRun' = nextRun + 1 /\ RunAccepted(tasks[n])
  BY DEF APIImporttasksIDImportrunsPost
<1>2. TaskRecord(tasks[n]) /\ nextRun \in Nat /\ Len(tasks) \in Nat /\ MockTypeOK
  BY DEF ServerInv, MockTypeOK
<1>3. /\ TaskRecord(StartRun(tasks[n], nextRun + 1)) /\ Follows(tasks[n], StartRun(tasks[n], nextRun + 1))
      /\ StartRun(tasks[n], nextRun + 1).run = nextRun + 1
      /\ StartRun(tasks[n], nextRun + 1) # tasks[n]
  BY <1>1, <1>2, RunFacts
<1>4. nextRun' \in Nat /\ nextRun + 1 # NoRun
  BY <1>1, <1>2 DEF NoRun
<1>5. /\ ServerInv' /\ Len(tasks') = Len(tasks) /\ Known' = Known
      /\ tasks'[n] = StartRun(tasks[n], nextRun + 1) /\ \A j \in Known \ {n} : tasks'[j] = tasks[j]
  BY <1>1, <1>3, <1>4, ReplaceFacts
<1> QED
  BY <1>2, <1>3, <1>4, <1>5, FollowsItself DEF ServerStep

\* APIImporttasksPost keeps it, and adds a task.
LEMMA NewStep ==
  ASSUME ServerInv, APIImporttasksPost
  PROVE  /\ ServerInv' /\ ServerStep
         /\ Len(tasks') = Len(tasks) + 1 /\ tasks' # tasks
<1>1. tasks' = Append(tasks, NewTask) /\ UNCHANGED <<handler, nextRun>>
  BY DEF APIImporttasksPost
<1>2. TaskRecord(NewTask) /\ NewTask \in TaskState /\ tasks \in Seq(TaskState) /\ Len(tasks) \in Nat
  BY NewTaskFacts DEF ServerInv, TaskRecord, MockTypeOK
<1>3. /\ tasks' \in Seq(TaskState) /\ Len(tasks') = Len(tasks) + 1
      /\ \A n \in 1..Len(tasks) : tasks'[n] = tasks[n]
      /\ tasks'[Len(tasks) + 1] = NewTask
  BY <1>1, <1>2
<1>4. ServerInv'
  BY <1>1, <1>2, <1>3 DEF ServerInv, MockTypeOK, Known
<1>5. tasks' # tasks
  BY <1>2, <1>3
<1> QED
  BY <1>2, <1>3, <1>4, <1>5, FollowsItself DEF ServerStep, Known

\* Whatever is invoked, the server keeps its invariant.
LEMMA EffectStep ==
  ASSUME ServerInv, NEW inv, Effect(inv)
  PROVE  ServerInv' /\ ServerStep
<1>1. \A id : TaskOf(id) \subseteq Known
  BY DEF TaskOf
<1>2. CASE APIImporttasksPost
  BY <1>2, NewStep
<1>3. CASE \E n \in TaskOf(inv.id) : APIImporttasksIDCancelPost(n)
  BY <1>1, <1>3, CancelStep
<1>4. CASE \E n \in TaskOf(inv.id) : APIImporttasksIDImportrunsPost(n)
  BY <1>1, <1>4, RunStep
<1>5. CASE \E n \in TaskOf(inv.id) : APIImporttasksIDStatusGet(n)
  BY <1>1, <1>5, StatusStep
<1>6. CASE UNCHANGED mockVars
  BY <1>6, StutterFacts
<1>7. \/ APIImporttasksPost
      \/ \E n \in TaskOf(inv.id) : APIImporttasksIDCancelPost(n)
      \/ \E n \in TaskOf(inv.id) : APIImporttasksIDImportrunsPost(n)
      \/ \E n \in TaskOf(inv.id) : APIImporttasksIDStatusGet(n)
      \/ UNCHANGED mockVars
  BY Zenon DEF Effect
<1> QED
  BY <1>2, <1>3, <1>4, <1>5, <1>6, <1>7

-----------------------------------------------------------------------------
(* Decoding and encoding.                                                   *)

\* Induction over the natural numbers, for a set.
LEMMA Induction ==
  ASSUME NEW T \in SUBSET Nat, 0 \in T, \A n \in T : n + 1 \in T
  PROVE  T = Nat
<1> DEFINE C == Nat \ T
<1>1. SUFFICES ASSUME C # {} PROVE FALSE
  OBVIOUS
<1>2. PICK x \in C : \A y \in C : ~(<<y, x>> \in OpToRel(<, Nat))
  BY <1>1, NatLessThanWellFounded, WFMin
<1>3. x \in Nat /\ x # 0
  OBVIOUS
<1>4. x - 1 \in Nat /\ x - 1 < x /\ x - 1 + 1 = x
  BY <1>3
<1>5. <<x - 1, x>> \in OpToRel(<, Nat)
  BY <1>3, <1>4 DEF OpToRel
<1>6. x - 1 \in T
  BY <1>2, <1>4, <1>5
<1> QED
  BY <1>4, <1>6

\* What a decoder has read after each of the first n fields.
Reads(f, n, m, json) ==
  f = [i \in 0..n |-> IF i = 0 THEN {<<>>} ELSE DecodeField(m, f[i - 1], json[i])]

\* There are partial readings of every length.
LEMMA ReadsExists ==
  ASSUME NEW m, NEW json
  PROVE  \A n \in Nat : \E f : Reads(f, n, m, json)
<1> DEFINE T == {n \in Nat : \E f : Reads(f, n, m, json)}
<1>1. 0 \in T
  <2> DEFINE f == [i \in 0..0 |-> {<<>>}]
  <2>1. \A i \in 0..0 : i = 0
    OBVIOUS
  <2>2. f = [i \in 0..0 |-> IF i = 0 THEN {<<>>} ELSE DecodeField(m, f[i - 1], json[i])]
    BY <2>1
  <2>3. Reads(f, 0, m, json)
    BY <2>2 DEF Reads
  <2> QED
    BY <2>3
<1>2. ASSUME NEW n \in T PROVE n + 1 \in T
  <2>1. PICK f : f = [i \in 0..n |-> IF i = 0 THEN {<<>>} ELSE DecodeField(m, f[i - 1], json[i])]
    BY DEF Reads
  <2>2. n \in Nat /\ n + 1 \in Nat /\ n + 1 # 0 /\ n + 1 - 1 = n
    OBVIOUS
  <2>3. \A i \in 0..(n + 1) : i # n + 1 => /\ i \in 0..n /\ (i # 0 => i - 1 \in 0..(n + 1))
                                           /\ i - 1 # n + 1
    BY <2>2
  <2>4. n \in 0..(n + 1) /\ n # n + 1
    BY <2>2
  <2>5. \A i \in 0..n : f[i] = IF i = 0 THEN {<<>>} ELSE DecodeField(m, f[i - 1], json[i])
    BY <2>1
  <2> DEFINE g == [i \in 0..(n + 1) |-> IF i = n + 1 THEN DecodeField(m, f[n], json[n + 1]) ELSE f[i]]
  <2>6. /\ g[n + 1] = DecodeField(m, f[n], json[n + 1])
        /\ \A i \in 0..(n + 1) : i # n + 1 => g[i] = f[i]
    BY <2>2
  <2>7. g = [i \in 0..(n + 1) |-> g[i]]
    OBVIOUS
  <2> HIDE DEF g
  <2>8. ASSUME NEW i \in 0..(n + 1) PROVE g[i] = IF i = 0 THEN {<<>>} ELSE DecodeField(m, g[i - 1], json[i])
    <3>1. CASE i = n + 1
      BY <2>2, <2>4, <2>6, <3>1
    <3>2. CASE i # n + 1
      BY <2>3, <2>5, <2>6, <3>2
    <3> QED
      BY <3>1, <3>2
  <2>9. g = [i \in 0..(n + 1) |-> IF i = 0 THEN {<<>>} ELSE DecodeField(m, g[i - 1], json[i])]
    BY <2>7, <2>8
  <2>10. Reads(g, n + 1, m, json)
    BY <2>9 DEF Reads
  <2> QED
    BY <2>2, <2>10
<1>3. T = Nat
  <2> HIDE DEF T
  <2>1. T \in SUBSET Nat
    BY DEF T
  <2> QED
    BY <1>1, <1>2, <2>1, Induction
<1> QED
  BY <1>3

\* So the recursion of Reading defines what it says.
LEMMA ReadingFacts ==
  ASSUME NEW m, NEW json, Len(json) \in Nat
  PROVE  /\ Reading(m, json)[0] = {<<>>}
         /\ \A i \in 1..Len(json) :
              Reading(m, json)[i] = DecodeField(m, Reading(m, json)[i - 1], json[i])
<1>1. \E f : Reads(f, Len(json), m, json)
  BY ReadsExists
<1>2. Reading(m, json) = CHOOSE f : Reads(f, Len(json), m, json)
  BY DEF Reading, Reads
<1>3. Reads(Reading(m, json), Len(json), m, json)
  BY <1>1, <1>2
<1> DEFINE f == Reading(m, json)
<1> HIDE DEF f
<1>4. f = [i \in 0..Len(json) |-> IF i = 0 THEN {<<>>} ELSE DecodeField(m, f[i - 1], json[i])]
  BY <1>3 DEF f, Reads
<1>5. 0 \in 0..Len(json) /\ \A i \in 1..Len(json) : i \in 0..Len(json) /\ i # 0
  OBVIOUS
<1>6. f[0] = {<<>>} /\ \A i \in 1..Len(json) : f[i] = DecodeField(m, f[i - 1], json[i])
  BY <1>4, <1>5
<1> QED
  BY <1>6 DEF f

\* What an encoder has written after each of the first n keys.
Writes(f, n, v, order) ==
  f = [i \in 0..n |-> IF i = 0 THEN <<>> ELSE WriteField(v, f[i - 1], order[i])]

\* There are partial writings of every length.
LEMMA WritesExists ==
  ASSUME NEW v, NEW order
  PROVE  \A n \in Nat : \E f : Writes(f, n, v, order)
<1> DEFINE T == {n \in Nat : \E f : Writes(f, n, v, order)}
<1>1. 0 \in T
  <2> DEFINE f == [i \in 0..0 |-> <<>>]
  <2>1. \A i \in 0..0 : i = 0
    OBVIOUS
  <2>2. f = [i \in 0..0 |-> IF i = 0 THEN <<>> ELSE WriteField(v, f[i - 1], order[i])]
    BY <2>1
  <2>3. Writes(f, 0, v, order)
    BY <2>2 DEF Writes
  <2> QED
    BY <2>3
<1>2. ASSUME NEW n \in T PROVE n + 1 \in T
  <2>1. PICK f : f = [i \in 0..n |-> IF i = 0 THEN <<>> ELSE WriteField(v, f[i - 1], order[i])]
    BY DEF Writes
  <2>2. n \in Nat /\ n + 1 \in Nat /\ n + 1 # 0 /\ n + 1 - 1 = n
    OBVIOUS
  <2>3. \A i \in 0..(n + 1) : i # n + 1 => /\ i \in 0..n /\ (i # 0 => i - 1 \in 0..(n + 1))
                                           /\ i - 1 # n + 1
    BY <2>2
  <2>4. n \in 0..(n + 1) /\ n # n + 1
    BY <2>2
  <2>5. \A i \in 0..n : f[i] = IF i = 0 THEN <<>> ELSE WriteField(v, f[i - 1], order[i])
    BY <2>1
  <2> DEFINE g == [i \in 0..(n + 1) |-> IF i = n + 1 THEN WriteField(v, f[n], order[n + 1]) ELSE f[i]]
  <2>6. /\ g[n + 1] = WriteField(v, f[n], order[n + 1])
        /\ \A i \in 0..(n + 1) : i # n + 1 => g[i] = f[i]
    BY <2>2
  <2>7. g = [i \in 0..(n + 1) |-> g[i]]
    OBVIOUS
  <2> HIDE DEF g
  <2>8. ASSUME NEW i \in 0..(n + 1) PROVE g[i] = IF i = 0 THEN <<>> ELSE WriteField(v, g[i - 1], order[i])
    <3>1. CASE i = n + 1
      BY <2>2, <2>4, <2>6, <3>1
    <3>2. CASE i # n + 1
      BY <2>3, <2>5, <2>6, <3>2
    <3> QED
      BY <3>1, <3>2
  <2>9. g = [i \in 0..(n + 1) |-> IF i = 0 THEN <<>> ELSE WriteField(v, g[i - 1], order[i])]
    BY <2>7, <2>8
  <2>10. Writes(g, n + 1, v, order)
    BY <2>9 DEF Writes
  <2> QED
    BY <2>2, <2>10
<1>3. T = Nat
  <2> HIDE DEF T
  <2>1. T \in SUBSET Nat
    BY DEF T
  <2> QED
    BY <1>1, <1>2, <2>1, Induction
<1> QED
  BY <1>3

\* So the recursion of Writing defines what it says.
LEMMA WritingFacts ==
  ASSUME NEW v, NEW order, Len(order) \in Nat
  PROVE  /\ Writing(v, order)[0] = <<>>
         /\ \A i \in 1..Len(order) :
              Writing(v, order)[i] = WriteField(v, Writing(v, order)[i - 1], order[i])
<1>1. \E f : Writes(f, Len(order), v, order)
  BY WritesExists
<1>2. Writing(v, order) = CHOOSE f : Writes(f, Len(order), v, order)
  BY DEF Writing, Writes
<1>3. Writes(Writing(v, order), Len(order), v, order)
  BY <1>1, <1>2
<1> DEFINE f == Writing(v, order)
<1> HIDE DEF f
<1>4. f = [i \in 0..Len(order) |-> IF i = 0 THEN <<>> ELSE WriteField(v, f[i - 1], order[i])]
  BY <1>3 DEF f, Writes
<1>5. 0 \in 0..Len(order) /\ \A i \in 1..Len(order) : i \in 0..Len(order) /\ i # 0
  OBVIOUS
<1>6. f[0] = <<>> /\ \A i \in 1..Len(order) : f[i] = WriteField(v, f[i - 1], order[i])
  BY <1>4, <1>5
<1> QED
  BY <1>6 DEF f

\* The last of the first n fields that has the key k is the j-th.
IsLast(json, n, k, j) ==
  j \in 1..n /\ json[j][1] = k /\ \A i \in 1..n : json[i][1] = k => i <= j

\* What the first n fields say.
Says(v, json, n) ==
  /\ v = [k \in DOMAIN v |-> v[k]] /\ DOMAIN v = {json[i][1] : i \in 1..n}
  /\ \A k \in DOMAIN v : \E j \in 1..n : IsLast(json, n, k, j) /\ v[k] = json[j][2]

Fits(m, json, n) == \A i \in 1..n : json[i][2][1] \in TypeOf(m, json[i][1])

\* A field that is set is the last one with its key.
LEMMA SetSays ==
  ASSUME NEW json, NEW n \in Nat, NEW v, Says(v, json, n)
  PROVE  Says(Set(v, json[n + 1][1], json[n + 1][2]), json, n + 1)
<1> DEFINE key == json[n + 1][1]
           u   == Set(v, key, json[n + 1][2])
<1>1. /\ n + 1 \in 1..(n + 1) /\ \A i \in 1..(n + 1) : i <= n + 1 /\ (i # n + 1 => i \in 1..n)
      /\ \A i \in 1..n : i \in 1..(n + 1) /\ i # n + 1
  OBVIOUS
<1>2. /\ u = [k \in DOMAIN u |-> u[k]] /\ DOMAIN u = DOMAIN v \cup {key}
      /\ u[key] = json[n + 1][2] /\ \A k \in DOMAIN v : k # key => u[k] = v[k]
  BY DEF Set
<1>3. DOMAIN v = {json[i][1] : i \in 1..n}
  BY DEF Says
<1>4. DOMAIN u = {json[i][1] : i \in 1..(n + 1)}
  BY <1>1, <1>2, <1>3
<1> HIDE DEF u
<1>5. ASSUME NEW k \in DOMAIN u
      PROVE  \E j \in 1..(n + 1) : IsLast(json, n + 1, k, j) /\ u[k] = json[j][2]
  <2>1. CASE k = key
    BY <1>1, <1>2, <2>1 DEF IsLast
  <2>2. CASE k # key
    <3>1. k \in DOMAIN v
      BY <1>2, <2>2
    <3>2. PICK j \in 1..n : IsLast(json, n, k, j) /\ v[k] = json[j][2]
      BY <3>1 DEF Says
    <3>3. IsLast(json, n + 1, k, j)
      BY <1>1, <2>2, <3>2 DEF IsLast
    <3> QED
      BY <1>1, <1>2, <2>2, <3>1, <3>2, <3>3
  <2> QED
    BY <2>1, <2>2
<1>6. Says(u, json, n + 1)
  BY <1>2, <1>4, <1>5 DEF Says
<1> QED
  BY <1>6 DEF u

\* Nothing says nothing.
LEMMA NothingSays == ASSUME NEW json PROVE Says(<<>>, json, 0)
<1>1. DOMAIN <<>> = {} /\ 1..0 = {}
  OBVIOUS
<1>2. <<>> = [k \in DOMAIN <<>> |-> <<>>[k]]
  BY <1>1
<1> QED
  BY <1>1, <1>2 DEF Says

\* Two functions that say the same are the same.
LEMMA SaysOnce ==
  ASSUME NEW json, NEW n \in Nat, NEW u, NEW v, Says(u, json, n), Says(v, json, n)
  PROVE  u = v
<1>1. DOMAIN u = DOMAIN v
  BY DEF Says
<1>2. ASSUME NEW k \in DOMAIN u PROVE u[k] = v[k]
  <2>1. PICK i \in 1..n : IsLast(json, n, k, i) /\ u[k] = json[i][2]
    BY DEF Says
  <2>2. PICK j \in 1..n : IsLast(json, n, k, j) /\ v[k] = json[j][2]
    BY <1>1 DEF Says
  <2>3. i = j
    BY <2>1, <2>2 DEF IsLast
  <2> QED
    BY <2>1, <2>2, <2>3
<1> QED
  BY <1>1, <1>2 DEF Says

\* Reading field after field: what the fields say, if every value has a type its key
\* accepts, and nothing otherwise.
LEMMA ReadingSays ==
  ASSUME NEW m, NEW json, Len(json) \in Nat, NEW n \in 0..Len(json)
  PROVE  /\ ~Fits(m, json, n) => Reading(m, json)[n] = {}
         /\ Fits(m, json, n) => \E v : Says(v, json, n) /\ Reading(m, json)[n] = {v}
<1> DEFINE f == Reading(m, json)
           P(i) == /\ ~Fits(m, json, i) => f[i] = {}
                   /\ Fits(m, json, i) => \E v : Says(v, json, i) /\ f[i] = {v}
           T == {i \in Nat : i <= Len(json) => P(i)}
<1> HIDE DEF f
<1>1. f[0] = {<<>>} /\ \A i \in 1..Len(json) : f[i] = DecodeField(m, f[i - 1], json[i])
  BY ReadingFacts DEF f
<1>2. 0 \in T
  <2>1. Fits(m, json, 0)
    BY DEF Fits
  <2>2. P(0)
    BY <1>1, <2>1, NothingSays
  <2> QED
    BY <2>2
<1>3. ASSUME NEW i \in T PROVE i + 1 \in T
  <2> SUFFICES ASSUME i + 1 <= Len(json) PROVE P(i + 1)
    OBVIOUS
  <2>1. i \in Nat /\ i + 1 \in 1..Len(json) /\ i + 1 - 1 = i /\ i <= Len(json)
    BY <1>3
  <2>2. f[i + 1] = DecodeField(m, f[i], json[i + 1])
    BY <1>1, <2>1
  <2>3. P(i)
    BY <2>1
  <2> DEFINE fits == json[i + 1][2][1] \in TypeOf(m, json[i + 1][1])
  <2>4. Fits(m, json, i + 1) <=> Fits(m, json, i) /\ fits
    <3>1. \A j \in 1..(i + 1) : j \in 1..i \/ j = i + 1
      BY <2>1
    <3>2. i + 1 \in 1..(i + 1) /\ \A j \in 1..i : j \in 1..(i + 1)
      BY <2>1
    <3> QED
      BY <3>1, <3>2 DEF Fits
  <2>5. CASE ~Fits(m, json, i)
    <3>1. f[i] = {}
      BY <2>3, <2>5
    <3>2. f[i + 1] = {}
      BY <2>2, <3>1 DEF DecodeField
    <3> QED
      BY <2>4, <2>5, <3>2
  <2>6. CASE Fits(m, json, i) /\ ~fits
    <3>1. f[i + 1] = {}
      BY <2>2, <2>6 DEF DecodeField
    <3> QED
      BY <2>4, <2>6, <3>1
  <2>7. CASE Fits(m, json, i) /\ fits
    <3>1. PICK v : Says(v, json, i) /\ f[i] = {v}
      BY <2>3, <2>7
    <3>2. f[i + 1] = {Set(v, json[i + 1][1], json[i + 1][2])}
      BY <2>2, <2>7, <3>1 DEF DecodeField
    <3>3. Says(Set(v, json[i + 1][1], json[i + 1][2]), json, i + 1)
      BY <2>1, <3>1, SetSays
    <3> QED
      BY <2>4, <2>7, <3>2, <3>3
  <2> QED
    BY <2>5, <2>6, <2>7
<1>4. T = Nat
  <2> HIDE DEF T
  <2>1. T \in SUBSET Nat
    BY DEF T
  <2> QED
    BY <1>2, <1>3, <2>1, Induction
<1>5. P(n)
  <2>1. n \in T /\ n <= Len(json)
    BY <1>4
  <2> QED
    BY <2>1
<1> QED
  BY <1>5 DEF f

\* Decode: what all fields say, or nothing.
LEMMA DecodeSays ==
  ASSUME NEW m, NEW json, Len(json) \in Nat
  PROVE  /\ \A v \in Decode(m, json) : /\ Fits(m, json, Len(json)) /\ Says(v, json, Len(json))
                                       /\ m.required \subseteq DOMAIN v
         /\ \A v : Fits(m, json, Len(json)) /\ Says(v, json, Len(json)) /\ m.required \subseteq DOMAIN v
                     => Decode(m, json) = {v}
<1> DEFINE n == Len(json)
<1>1. n \in 0..n
  OBVIOUS
<1>2. /\ ~Fits(m, json, n) => Reading(m, json)[n] = {}
      /\ Fits(m, json, n) => \E v : Says(v, json, n) /\ Reading(m, json)[n] = {v}
  BY <1>1, ReadingSays
<1>3. Decode(m, json) = {v \in Reading(m, json)[n] : m.required \subseteq DOMAIN v}
  BY DEF Decode
<1>4. \A u, v : Says(u, json, n) /\ Says(v, json, n) => u = v
  BY <1>1, SaysOnce
<1> HIDE DEF n
<1>5. \A v \in Decode(m, json) : /\ Fits(m, json, n) /\ Says(v, json, n)
                                 /\ m.required \subseteq DOMAIN v
  BY <1>2, <1>3
<1>6. ASSUME NEW v, Fits(m, json, n), Says(v, json, n), m.required \subseteq DOMAIN v
      PROVE  Decode(m, json) = {v}
  <2>1. Reading(m, json)[n] = {v}
    BY <1>2, <1>4, <1>6
  <2> QED
    BY <1>3, <1>6, <2>1
<1> QED
  BY <1>5, <1>6 DEF n

\* There is at most one result.
LEMMA DecodeOnce ==
  ASSUME NEW m, NEW json, Len(json) \in Nat, NEW u \in Decode(m, json), NEW v \in Decode(m, json)
  PROVE  u = v
BY DecodeSays, SaysOnce

FieldsOf(v) == {<<k, v[k]>> : k \in DOMAIN v}

\* The fields of v with the first n keys, each once.
Wrote(s, v, order, n) ==
  /\ s \in Seq(FieldsOf(v))
  /\ \A j \in 1..Len(s) : \E i \in 1..n : s[j][1] = order[i]
  /\ \A i \in 1..n : order[i] \in DOMAIN v => \E j \in 1..Len(s) : s[j] = <<order[i], v[order[i]]>>
  /\ \A i, j \in 1..Len(s) : s[i][1] = s[j][1] => i = j
  /\ n >= 1 /\ order[1] \in DOMAIN v => Len(s) >= 1 /\ s[1] = <<order[1], v[order[1]]>>

\* One more key is written.
LEMMA WriteFieldWrites ==
  ASSUME NEW v, NEW order, NEW n \in Nat, NEW s, Wrote(s, v, order, n),
         \A i \in 1..n : order[i] # order[n + 1]
  PROVE  Wrote(WriteField(v, s, order[n + 1]), v, order, n + 1)
<1> DEFINE k == order[n + 1]
           u == WriteField(v, s, k)
<1>1. /\ n + 1 \in 1..(n + 1) /\ \A i \in 1..n : i \in 1..(n + 1)
      /\ \A i \in 1..(n + 1) : i \in 1..n \/ i = n + 1
      /\ n >= 1 \/ n = 0
  OBVIOUS
<1>2. s \in Seq(FieldsOf(v)) /\ Len(s) \in Nat
  BY DEF Wrote
<1>3. CASE k \notin DOMAIN v
  <2>1. u = s
    BY <1>3 DEF WriteField
  <2>2. n = 0 => order[1] \notin DOMAIN v
    BY <1>3
  <2> HIDE DEF u
  <2>3. \A j \in 1..Len(s) : \E i \in 1..(n + 1) : s[j][1] = order[i]
    BY <1>1 DEF Wrote
  <2>4. ASSUME NEW i \in 1..(n + 1), order[i] \in DOMAIN v
        PROVE  \E j \in 1..Len(s) : s[j] = <<order[i], v[order[i]]>>
    BY <1>1, <1>3, <2>4 DEF Wrote
  <2>5. Wrote(s, v, order, n + 1)
    BY <1>1, <2>2, <2>3, <2>4 DEF Wrote
  <2> QED
    BY <2>1, <2>5 DEF u
<1>4. CASE k \in DOMAIN v
  <2>1. u = Append(s, <<k, v[k]>>) /\ <<k, v[k]>> \in FieldsOf(v)
    BY <1>4 DEF WriteField, FieldsOf
  <2>2. /\ u \in Seq(FieldsOf(v)) /\ Len(u) = Len(s) + 1 /\ u[Len(s) + 1] = <<k, v[k]>>
        /\ \A j \in 1..Len(s) : u[j] = s[j]
    BY <1>2, <2>1
  <2> HIDE DEF u
  <2>3. /\ \A j \in 1..Len(u) : j \in 1..Len(s) \/ j = Len(s) + 1
        /\ \A j \in 1..Len(s) : j \in 1..Len(u)
        /\ Len(s) + 1 \in 1..Len(u) /\ Len(u) >= 1 /\ (Len(s) >= 1 => 1 \in 1..Len(s))
    BY <1>2, <2>2
  <2>4. \A j \in 1..Len(u) : \E i \in 1..(n + 1) : u[j][1] = order[i]
    BY <1>1, <2>2, <2>3 DEF Wrote
  <2>5. ASSUME NEW i \in 1..(n + 1), order[i] \in DOMAIN v
        PROVE  \E j \in 1..Len(u) : u[j] = <<order[i], v[order[i]]>>
    <3>1. CASE i = n + 1
      BY <2>2, <2>3, <3>1
    <3>2. CASE i \in 1..n
      <4>1. PICK j \in 1..Len(s) : s[j] = <<order[i], v[order[i]]>>
        BY <2>5, <3>2 DEF Wrote
      <4> QED
        BY <2>2, <2>3, <4>1
    <3> QED
      BY <1>1, <3>1, <3>2
  <2>6. \A j \in 1..Len(s) : s[j][1] # k
    BY DEF Wrote
  <2>7. \A i, j \in 1..Len(u) : u[i][1] = u[j][1] => i = j
    BY <2>2, <2>3, <2>6, SMTT(60) DEF Wrote
  <2>8. order[1] \in DOMAIN v => u[1] = <<order[1], v[order[1]]>>
    <3>1. CASE n = 0
      <4>1. Len(s) = 0
        BY <1>2, <3>1 DEF Wrote
      <4> QED
        BY <2>2, <3>1, <4>1
    <3>2. CASE n >= 1
      BY <2>2, <2>3, <3>2 DEF Wrote
    <3> QED
      BY <1>1, <3>1, <3>2
  <2>9. Wrote(u, v, order, n + 1)
    BY <2>2, <2>3, <2>4, <2>5, <2>7, <2>8 DEF Wrote
  <2> QED
    BY <2>9 DEF u
<1> QED
  BY <1>3, <1>4

Distinct(order) == \A i, j \in 1..Len(order) : order[i] = order[j] => i = j

\* Encode: the fields that are set, each once.
LEMMA EncodeWrites ==
  ASSUME NEW v, NEW order, Len(order) \in Nat, Distinct(order)
  PROVE  Wrote(Encode(v, order), v, order, Len(order))
<1> DEFINE f == Writing(v, order)
           T == {i \in Nat : i <= Len(order) => Wrote(f[i], v, order, i)}
<1> HIDE DEF f
<1>1. f[0] = <<>> /\ \A i \in 1..Len(order) : f[i] = WriteField(v, f[i - 1], order[i])
  BY WritingFacts DEF f
<1>2. 0 \in T
  <2>1. <<>> \in Seq(FieldsOf(v)) /\ Len(<<>>) = 0 /\ 1..0 = {}
    OBVIOUS
  <2>2. Wrote(f[0], v, order, 0)
    BY <1>1, <2>1 DEF Wrote
  <2> QED
    BY <2>2
<1>3. ASSUME NEW i \in T PROVE i + 1 \in T
  <2> SUFFICES ASSUME i + 1 <= Len(order) PROVE Wrote(f[i + 1], v, order, i + 1)
    OBVIOUS
  <2>1. i \in Nat /\ i + 1 \in 1..Len(order) /\ i + 1 - 1 = i /\ i <= Len(order)
    BY <1>3
  <2>2. f[i + 1] = WriteField(v, f[i], order[i + 1])
    BY <1>1, <2>1
  <2>3. Wrote(f[i], v, order, i)
    BY <2>1
  <2>4. \A j \in 1..i : order[j] # order[i + 1]
    BY <2>1 DEF Distinct
  <2> QED
    BY <2>1, <2>2, <2>3, <2>4, WriteFieldWrites
<1>4. T = Nat
  <2> HIDE DEF T
  <2>1. T \in SUBSET Nat
    BY DEF T
  <2> QED
    BY <1>2, <1>3, <2>1, Induction
<1>5. Wrote(f[Len(order)], v, order, Len(order))
  <2>1. Len(order) \in T /\ Len(order) <= Len(order)
    BY <1>4
  <2> QED
    BY <2>1
<1> QED
  BY <1>5 DEF f, Encode

\* A message that is encoded and decoded again is the same message.
LEMMA RoundTrip ==
  ASSUME NEW m, NEW v, NEW order, Len(order) \in Nat, Distinct(order), IsFields(v),
         \A k \in DOMAIN v : \E i \in 1..Len(order) : order[i] = k,
         \A k \in DOMAIN v : v[k][1] \in TypeOf(m, k), m.required \subseteq DOMAIN v
  PROVE  Decode(m, Encode(v, order)) = {v}
<1> DEFINE s == Encode(v, order)
<1> HIDE DEF s
<1>1. Wrote(s, v, order, Len(order))
  BY EncodeWrites DEF s
<1>2. s \in Seq(FieldsOf(v)) /\ Len(s) \in Nat
  BY <1>1 DEF Wrote
<1>3. \A i \in 1..Len(s) : s[i][1] \in DOMAIN v /\ s[i][2] = v[s[i][1]]
  BY <1>2 DEF FieldsOf
<1>4. Fits(m, s, Len(s))
  BY <1>3 DEF Fits
<1>5. ASSUME NEW k \in DOMAIN v PROVE \E j \in 1..Len(s) : s[j][1] = k
  <2>1. PICK i \in 1..Len(order) : order[i] = k
    OBVIOUS
  <2>2. PICK j \in 1..Len(s) : s[j] = <<k, v[k]>>
    BY <1>1, <2>1 DEF Wrote
  <2> QED
    BY <2>2
<1>6. \A i, j \in 1..Len(s) : s[i][1] = s[j][1] => i = j
  BY <1>1 DEF Wrote
<1>7. ASSUME NEW k \in DOMAIN v PROVE \E j \in 1..Len(s) : IsLast(s, Len(s), k, j) /\ v[k] = s[j][2]
  <2>1. PICK j \in 1..Len(s) : s[j][1] = k
    BY <1>5
  <2> QED
    BY <1>2, <1>3, <1>6, <2>1 DEF IsLast
<1>8. DOMAIN v = {s[i][1] : i \in 1..Len(s)}
  BY <1>3, <1>5
<1>9. Says(v, s, Len(s))
  BY <1>7, <1>8 DEF Says, IsFields
<1> QED
  BY <1>2, <1>4, <1>9, DecodeSays DEF s

-----------------------------------------------------------------------------
(* A call reaches the server as it was made.                                *)

\* The form that is read is the one that has the parts that were sent.
LEMMA PartsAreRead ==
  ASSUME NEW q, NEW s, NEW v, NEW keys, q.body = {s}, IsFields(v), DOMAIN v \subseteq keys,
         \A i \in DOMAIN s : s[i][1] \in DOMAIN v /\ s[i][2] = v[s[i][1]],
         \A k \in DOMAIN v : \E i \in DOMAIN s : s[i][1] = k
  PROVE  Form(q, keys) = v
<1>1. \A k : Parts(q, k) = {s[i][2] : i \in {j \in DOMAIN s : s[j][1] = k}}
  BY DEF Parts
<1>2. \A k \in DOMAIN v : Parts(q, k) = {v[k]}
  BY <1>1
<1>3. \A k : k \notin DOMAIN v => Parts(q, k) = {}
  BY <1>1
<1>4. {key \in keys : Parts(q, key) # {}} = DOMAIN v
  BY <1>2, <1>3
<1>5. \A k \in DOMAIN v : (CHOOSE x \in Parts(q, k) : TRUE) = v[k]
  BY <1>2
<1>6. Form(q, keys) = [k \in DOMAIN v |-> CHOOSE x \in Parts(q, k) : TRUE]
  BY <1>4 DEF Form
<1> QED
  BY <1>5, <1>6 DEF IsFields

\* A form that is encoded key by key is read as it was filled in.
LEMMA FormIsRead ==
  ASSUME NEW q, NEW v, NEW order, NEW keys, q.body = {Encode(v, order)},
         Len(order) \in Nat, Distinct(order), IsFields(v), DOMAIN v \subseteq keys,
         \A k \in DOMAIN v : \E i \in 1..Len(order) : order[i] = k
  PROVE  Form(q, keys) = v
<1> DEFINE s == Encode(v, order)
<1> HIDE DEF s
<1>1. Wrote(s, v, order, Len(order))
  BY EncodeWrites DEF s
<1>2. s \in Seq(FieldsOf(v)) /\ DOMAIN s = 1..Len(s)
  BY <1>1 DEF Wrote
<1>3. \A i \in DOMAIN s : s[i][1] \in DOMAIN v /\ s[i][2] = v[s[i][1]]
  BY <1>2 DEF FieldsOf
<1>4. ASSUME NEW k \in DOMAIN v PROVE \E i \in DOMAIN s : s[i][1] = k
  <2>1. PICK i \in 1..Len(order) : order[i] = k
    OBVIOUS
  <2>2. PICK j \in 1..Len(s) : s[j] = <<k, v[k]>>
    BY <1>1, <2>1 DEF Wrote
  <2> QED
    BY <1>2, <2>2
<1>5. q.body = {s}
  BY DEF s
<1> QED
  BY <1>3, <1>4, <1>5, PartsAreRead

\* The token that is sent is the one that is found.
LEMMA TokenIsFound ==
  ASSUME NEW t, NEW q, q.auth = AuthorizationHeader(t)
  PROVE  SecuritySmart(q) <=> t = Token
<1>1. {i \in DOMAIN q.auth : q.auth[i][1] \in {"Bearer", "bearer"}} = {1}
  BY DEF AuthorizationHeader
<1>2. {j \in {1} : \A k \in {1} : j <= k} = {1}
  OBVIOUS
<1>3. FindAuthorization(q.auth) = {q.auth[1][2]}
  BY <1>1, <1>2 DEF FindAuthorization
<1>4. q.auth[1][2] = t
  BY DEF AuthorizationHeader
<1> QED
  BY <1>3, <1>4 DEF SecuritySmart, HandleSmart

\* Every path the client builds is routed to its operation.
LEMMA Routes ==
  ASSUME NEW id, NEW run
  PROVE  /\ RouteRequest("GET", <<"api", "healthz">>) = Route("healthz", <<>>)
         /\ RouteRequest("POST", <<"api", "importtasks">>) = Route("importtasks", <<>>)
         /\ RouteRequest("POST", <<"api", "importtasks", id, "cancel">>) = Route("cancel", <<id>>)
         /\ RouteRequest("POST", <<"api", "importtasks", id, "importruns">>) = Route("importruns", <<id>>)
         /\ RouteRequest("GET", <<"api", "importtasks", id, "status">>) = Route("status", <<id>>)
         /\ RouteRequest("GET", <<"api", "importtasks", id, "importruns", run, "status">>)
              = Route("runstatus", <<id, run>>)
<1>1. /\ RouteRequest("GET", <<"api", "healthz">>) = Route("healthz", <<>>)
      /\ RouteRequest("POST", <<"api", "importtasks">>) = Route("importtasks", <<>>)
  <2>1. ASSUME NEW path, path = <<"api", "healthz">>, Len(path) <= 3
        PROVE  RouteRequest("GET", path) = Route("healthz", <<>>)
    BY <2>1 DEF RouteRequest, Allowed
  <2>2. ASSUME NEW path, path = <<"api", "importtasks">>, Len(path) <= 3
        PROVE  RouteRequest("POST", path) = Route("importtasks", <<>>)
    BY <2>2 DEF RouteRequest, Allowed
  <2>3. Len(<<"api", "healthz">>) <= 3 /\ Len(<<"api", "importtasks">>) <= 3
    OBVIOUS
  <2> QED
    BY <2>1, <2>2, <2>3, Zenon
<1>2. ASSUME NEW method, NEW last
      PROVE  RouteRequest(method, <<"api", "importtasks", id, last>>) = RouteTask(method, id, <<last>>)
  <2> DEFINE path == <<"api", "importtasks", id, last>>
             S    == {"api", "importtasks", id, last}
  <2>1. Len(path) = 4 /\ Len(path) > 3 /\ path[1] = "api" /\ path[2] = "importtasks" /\ path[3] = id /\ path[4] = last
    OBVIOUS
  <2>2. SubSeq(path, 4, Len(path)) = <<last>>
    <3>1. SubSeq(path, 4, 4) \in Seq(S) /\ <<last>> \in Seq(S)
      OBVIOUS
    <3>2. Len(SubSeq(path, 4, 4)) = 1 /\ SubSeq(path, 4, 4)[1] = last /\ Len(<<last>>) = 1
      OBVIOUS
    <3>3. \A i \in 1..1 : SubSeq(path, 4, 4)[i] = <<last>>[i]
      BY <3>2
    <3>4. SubSeq(path, 4, 4) = <<last>>
      <4> HIDE DEF path
      <4> QED
        BY <3>1, <3>2, <3>3, SeqEqual
    <3> QED
      BY <2>1, <3>4
  <2>3. path # <<"api", "healthz">> /\ path # <<"api", "importtasks">>
    OBVIOUS
  <2> HIDE DEF path
  <2>4. RouteRequest(method, path) = RouteTask(method, id, <<last>>)
    BY <2>1, <2>2, <2>3, Zenon DEF RouteRequest
  <2> QED
    BY <2>4 DEF path
<1>3. /\ RouteTask("POST", id, <<"cancel">>) = Route("cancel", <<id>>)
      /\ RouteTask("POST", id, <<"importruns">>) = Route("importruns", <<id>>)
      /\ RouteTask("GET", id, <<"status">>) = Route("status", <<id>>)
  <2>1. ASSUME NEW rest, rest = <<"cancel">>, rest # <<"importruns">>, rest # <<"status">>, Len(rest) # 3
        PROVE  RouteTask("POST", id, rest) = Route("cancel", <<id>>)
    BY <2>1, Zenon DEF RouteTask, Allowed
  <2>2. ASSUME NEW rest, rest = <<"importruns">>, rest # <<"cancel">>, rest # <<"status">>, Len(rest) # 3
        PROVE  RouteTask("POST", id, rest) = Route("importruns", <<id>>)
    BY <2>2, Zenon DEF RouteTask, Allowed
  <2>3. ASSUME NEW rest, rest = <<"status">>, rest # <<"cancel">>, rest # <<"importruns">>, Len(rest) # 3
        PROVE  RouteTask("GET", id, rest) = Route("status", <<id>>)
    BY <2>3, Zenon DEF RouteTask, Allowed
  <2>4. /\ <<"importruns">> # <<"cancel">> /\ <<"status">> # <<"cancel">>
        /\ <<"status">> # <<"importruns">>
        /\ Len(<<"cancel">>) # 3 /\ Len(<<"importruns">>) # 3 /\ Len(<<"status">>) # 3
    OBVIOUS
  <2> QED
    BY <2>1, <2>2, <2>3, <2>4, Zenon
<1>4. RouteRequest("GET", <<"api", "importtasks", id, "importruns", run, "status">>)
        = Route("runstatus", <<id, run>>)
  <2> DEFINE path == <<"api", "importtasks", id, "importruns", run, "status">>
             rest == <<"importruns", run, "status">>
             S    == {"api", "importtasks", id, "importruns", run, "status"}
  <2>1. Len(path) = 6 /\ Len(path) > 3 /\ path[1] = "api" /\ path[2] = "importtasks" /\ path[3] = id
    OBVIOUS
  <2>2. SubSeq(path, 4, Len(path)) = rest
    <3>1. SubSeq(path, 4, 6) \in Seq(S) /\ rest \in Seq(S)
      OBVIOUS
    <3>2. /\ Len(SubSeq(path, 4, 6)) = 3 /\ SubSeq(path, 4, 6)[1] = "importruns"
          /\ SubSeq(path, 4, 6)[2] = run /\ SubSeq(path, 4, 6)[3] = "status"
      OBVIOUS
    <3>3. Len(rest) = 3 /\ rest[1] = "importruns" /\ rest[2] = run /\ rest[3] = "status"
      OBVIOUS
    <3>4. \A i \in 1..3 : SubSeq(path, 4, 6)[i] = rest[i]
      BY <3>2, <3>3
    <3> HIDE DEF rest
    <3> QED
      BY <2>1, <3>1, <3>2, <3>3, <3>4, SeqEqual
  <2>3. path # <<"api", "healthz">> /\ path # <<"api", "importtasks">>
    OBVIOUS
  <2>4. /\ Len(rest) = 3 /\ rest[1] = "importruns" /\ rest[2] = run /\ rest[3] = "status"
        /\ rest # <<"cancel">> /\ rest # <<"importruns">> /\ rest # <<"status">>
    OBVIOUS
  <2> HIDE DEF path, rest
  <2>5. RouteRequest("GET", path) = RouteTask("GET", id, rest)
    BY <2>1, <2>2, <2>3, Zenon DEF RouteRequest
  <2>6. RouteTask("GET", id, rest) = Route("runstatus", <<id, run>>)
    BY <2>4, Zenon DEF RouteTask, Allowed
  <2> QED
    BY <2>5, <2>6 DEF path
<1> QED
  BY <1>1, <1>2, <1>3, <1>4

\* What a call is handled as: itself, or refused for its token or its content type.
Handled(call, t) ==
  IF t # Token THEN Refused(call.op, 401)
  ELSE IF Untyped(call) THEN Refused(call.op, 400)
  ELSE Invocation(call.op, call, call.request, 0)

\* A request is made of what it is made of.
LEMMA RequestFacts ==
  ASSUME NEW method, NEW path, NEW auth, NEW content
  PROVE  LET q == HTTPRequest(method, path, auth, content) IN
           /\ q.method = method /\ q.path = path /\ q.auth = auth
           /\ q.contentType = content.contentType /\ q.body = content.body
BY DEF HTTPRequest

\* Each request comes to the handler of its operation.
LEMMA ServeRoutes ==
  ASSUME NEW q, NEW id, NEW run
  PROVE  /\ q.method = "GET" /\ q.path = <<"api", "healthz">> => ServeHTTP(q) = HandleHealthz(q)
         /\ q.method = "POST" /\ q.path = <<"api", "importtasks">>
              => ServeHTTP(q) = HandleImporttasks(q)
         /\ q.method = "POST" /\ q.path = <<"api", "importtasks", id, "cancel">>
              => ServeHTTP(q) = HandleCancel(q, <<id>>)
         /\ q.method = "POST" /\ q.path = <<"api", "importtasks", id, "importruns">>
              => ServeHTTP(q) = HandleImportruns(q, <<id>>)
         /\ q.method = "GET" /\ q.path = <<"api", "importtasks", id, "status">>
              => ServeHTTP(q) = HandleStatus(q, <<id>>)
         /\ q.method = "GET" /\ q.path = <<"api", "importtasks", id, "importruns", run, "status">>
              => ServeHTTP(q) = HandleRunStatus(q, <<id, run>>)
<1> DEFINE route == RouteRequest(q.method, q.path)
<1>1. \A op, args : Route(op, args).op = op /\ Route(op, args).args = args
  BY DEF Route
<1>2. /\ route.op = "healthz" => ServeHTTP(q) = HandleHealthz(q)
      /\ route.op = "importtasks" => ServeHTTP(q) = HandleImporttasks(q)
      /\ route.op = "cancel" => ServeHTTP(q) = HandleCancel(q, route.args)
      /\ route.op = "importruns" => ServeHTTP(q) = HandleImportruns(q, route.args)
      /\ route.op = "status" => ServeHTTP(q) = HandleStatus(q, route.args)
      /\ route.op = "runstatus" => ServeHTTP(q) = HandleRunStatus(q, route.args)
  BY ZenonT(60) DEF ServeHTTP
<1>3. ASSUME q.method = "GET", q.path = <<"api", "healthz">> PROVE ServeHTTP(q) = HandleHealthz(q)
  <2>1. route = Route("healthz", <<>>)
    BY <1>3, Routes, Zenon
  <2> QED
    BY <1>1, <1>2, <2>1, Zenon
<1>4. ASSUME q.method = "POST", q.path = <<"api", "importtasks">>
      PROVE  ServeHTTP(q) = HandleImporttasks(q)
  <2>1. route = Route("importtasks", <<>>)
    BY <1>4, Routes, Zenon
  <2> QED
    BY <1>1, <1>2, <2>1, Zenon
<1>5. ASSUME q.method = "POST", q.path = <<"api", "importtasks", id, "cancel">>
      PROVE  ServeHTTP(q) = HandleCancel(q, <<id>>)
  <2>1. route = Route("cancel", <<id>>)
    BY <1>5, Routes, Zenon
  <2> QED
    BY <1>1, <1>2, <2>1, Zenon
<1>6. ASSUME q.method = "POST", q.path = <<"api", "importtasks", id, "importruns">>
      PROVE  ServeHTTP(q) = HandleImportruns(q, <<id>>)
  <2>1. route = Route("importruns", <<id>>)
    BY <1>6, Routes, Zenon
  <2> QED
    BY <1>1, <1>2, <2>1, Zenon
<1>7. ASSUME q.method = "GET", q.path = <<"api", "importtasks", id, "status">>
      PROVE  ServeHTTP(q) = HandleStatus(q, <<id>>)
  <2>1. route = Route("status", <<id>>)
    BY <1>7, Routes, Zenon
  <2> QED
    BY <1>1, <1>2, <2>1, Zenon
<1>8. ASSUME q.method = "GET", q.path = <<"api", "importtasks", id, "importruns", run, "status">>
      PROVE  ServeHTTP(q) = HandleRunStatus(q, <<id, run>>)
  <2>1. route = Route("runstatus", <<id, run>>)
    BY <1>8, Routes, Zenon
  <2> QED
    BY <1>1, <1>2, <2>1, Zenon
<1> QED
  BY <1>3, <1>4, <1>5, <1>6, <1>7, <1>8, Zenon

-----------------------------------------------------------------------------
(* A call is handled as it was made.                                        *)

\* A media type is not empty.
LEMMA MediaTypes ==
  /\ JSON # Empty /\ ProblemJSON # Empty /\ Multipart # Empty
  /\ "text/json" # Empty
<1>1. JSON # ""
  BY Zenon DEF JSON
<1>2. ProblemJSON # ""
  BY Zenon DEF ProblemJSON
<1>3. Multipart # ""
  BY Zenon DEF Multipart
<1>4. "text/json" # ""
  BY Zenon
<1> QED
  BY <1>1, <1>2, <1>3, <1>4, Zenon DEF Empty

\* A valid form is read as it was filled in, and no form as none.
LEMMA FormsAreRead ==
  ASSUME NEW request, NEW q, NEW form, NEW valid \in BOOLEAN,
         \/ request = Unset /\ q.contentType = Empty /\ q.body = {}
         \/ /\ request = Request("form", form) /\ valid
            /\ q.contentType = Multipart /\ q.body # {}
  PROVE  DecodeBody(q, Unset, ReadForm(q, form, valid)) = Decoded(0, request)
<1>1. CASE request = Unset /\ q.contentType = Empty /\ q.body = {}
  BY <1>1, Zenon DEF DecodeBody
<1>2. CASE /\ request = Request("form", form) /\ valid
           /\ q.contentType = Multipart /\ q.body # {}
  <2>1. q.contentType # Empty
    BY <1>2, MediaTypes
  <2>2. ReadForm(q, form, valid) = Decoded(0, request)
    BY <1>2, Zenon DEF ReadForm
  <2> QED
    BY <2>1, <2>2, Zenon DEF DecodeBody
<1> QED
  BY <1>1, <1>2

\* The form of a run is sent without its behaviour when that is not set.
LEMMA RunFormsAreRead ==
  ASSUME NEW request, IsForm(request, "importBehaviour", ValidImportBehaviourType), NEW q,
         q.contentType = EncodeImportrunsRequest(request).contentType,
         q.body = EncodeImportrunsRequest(request).body
  PROVE  DecodeImportrunsRequest(q) = Decoded(0, request)
<1> DEFINE keys  == {"importBehaviour", "username", "file"}
           v     == request.fields
           form  == Form(q, keys)
           valid == /\ {"username", "file"} \subseteq DOMAIN form
                    /\ Get(form, "importBehaviour") \subseteq ValidImportBehaviourType
<1>1. DecodeImportrunsRequest(q) = DecodeBody(q, Unset, ReadForm(q, form, valid))
  BY DEF DecodeImportrunsRequest
<1>2. valid \in BOOLEAN
  OBVIOUS
<1>3. CASE request.kind = "unset"
  <2>1. request = Unset /\ q.contentType = Empty /\ q.body = {}
    BY <1>3 DEF IsForm, EncodeImportrunsRequest, NoContent, Content
  <2> HIDE DEF form, valid
  <2> QED
    BY <1>1, <1>2, <2>1, FormsAreRead
<1>4. CASE request.kind = "form"
  <2> DEFINE order == <<"file">> \o <<"importBehaviour", "username">>
  <2>1. q.contentType = Multipart /\ q.body = {Encode(v, order)}
    BY <1>4 DEF EncodeImportrunsRequest, Content, FormParts
  <2>2. /\ Len(order) = 3 /\ order[1] = "file" /\ order[2] = "importBehaviour"
        /\ order[3] = "username"
    OBVIOUS
  <2>3. Distinct(order) /\ Len(order) \in Nat
    BY <2>2 DEF Distinct
  <2>4. /\ IsFields(v) /\ DOMAIN v \subseteq keys /\ {"username", "file"} \subseteq DOMAIN v
        /\ Get(v, "importBehaviour") \subseteq ValidImportBehaviourType
        /\ request = Request("form", v)
    BY <1>4 DEF IsForm
  <2>5. \A k \in DOMAIN v : \E i \in 1..Len(order) : order[i] = k
    BY <2>2, <2>4
  <2> HIDE DEF order, v, keys
  <2>6. Form(q, keys) = v
    BY <2>1, <2>3, <2>4, <2>5, FormIsRead
  <2>7. form = v /\ valid
    BY <2>4, <2>6
  <2> HIDE DEF form, valid
  <2> QED
    BY <1>1, <1>2, <2>1, <2>4, <2>7, FormsAreRead
<1> QED
  BY <1>3, <1>4 DEF IsForm

\* The form of a task is sent whole.
LEMMA TaskFormsAreRead ==
  ASSUME NEW request, IsForm(request, "sipType", ValidSipType), NEW q,
         q.contentType = EncodeImporttasksRequest(request).contentType,
         q.body = EncodeImporttasksRequest(request).body
  PROVE  DecodeImporttasksRequest(q) = Decoded(0, request)
<1> DEFINE keys  == {"sipType", "username", "file"}
           order == <<"file", "sipType", "username">>
           v     == request.fields
           s     == [i \in 1..3 |-> <<order[i], v[order[i]]>>]
           form  == Form(q, keys)
           valid == DOMAIN form = keys /\ Get(form, "sipType") \subseteq ValidSipType
<1>1. DecodeImporttasksRequest(q) = DecodeBody(q, Unset, ReadForm(q, form, valid))
  BY DEF DecodeImporttasksRequest
<1>2. valid \in BOOLEAN
  OBVIOUS
<1>3. CASE request.kind = "unset"
  <2>1. request = Unset /\ q.contentType = Empty /\ q.body = {}
    BY <1>3 DEF IsForm, EncodeImporttasksRequest, NoContent, Content
  <2> HIDE DEF form, valid
  <2> QED
    BY <1>1, <1>2, <2>1, FormsAreRead
<1>4. CASE request.kind = "form"
  <2>1. q.contentType = Multipart /\ q.body = {s}
    BY <1>4 DEF EncodeImporttasksRequest, Content
  <2>2. /\ IsFields(v) /\ DOMAIN v = keys /\ Get(v, "sipType") \subseteq ValidSipType
        /\ request = Request("form", v)
    BY <1>4 DEF IsForm
  <2>3. order[1] = "file" /\ order[2] = "sipType" /\ order[3] = "username"
    OBVIOUS
  <2> HIDE DEF v, order
  <2>4. /\ \A i \in 1..3 : order[i] \in keys
        /\ \A k \in keys : \E i \in 1..3 : order[i] = k
    BY <2>3
  <2>5. DOMAIN s = 1..3 /\ \A i \in 1..3 : s[i][1] = order[i] /\ s[i][2] = v[order[i]]
    OBVIOUS
  <2> HIDE DEF s, keys
  <2>6. /\ \A i \in DOMAIN s : s[i][1] \in DOMAIN v /\ s[i][2] = v[s[i][1]]
        /\ \A k \in DOMAIN v : \E i \in DOMAIN s : s[i][1] = k
    BY <2>2, <2>4, <2>5
  <2>7. Form(q, keys) = v
    BY <2>1, <2>2, <2>6, PartsAreRead
  <2>8. form = v /\ valid
    BY <2>2, <2>7
  <2> HIDE DEF form, valid
  <2> QED
    BY <1>1, <1>2, <2>1, <2>2, <2>8, FormsAreRead
<1> QED
  BY <1>3, <1>4 DEF IsForm

\* What a cancellation is sent as is what it is read as.
LEMMA CancellationsAreRead ==
  ASSUME NEW request, IsCancellation(request), NEW q,
         q.contentType = EncodeCancelRequest(request).contentType,
         q.body = EncodeCancelRequest(request).body
  PROVE  DecodeCancelRequest(q) = IF request.kind = Empty THEN Decoded(400, NoRequest)
                                  ELSE Decoded(0, request)
<1> DEFINE v == request.fields
           other == CASE q.contentType \in SuffixedJson     -> ReadCancelRequest(q, q.contentType)
                      [] q.contentType = JSON              -> ReadCancelRequest(q, "json")
                      [] q.contentType = "text/json"        -> Decoded(0, Request("text", Form(q, {"data"})))
                      [] OTHER                              -> Decoded(415, NoRequest)
<1>1. /\ q.contentType = Empty /\ q.body = {} => DecodeCancelRequest(q) = Decoded(0, Request("empty", <<>>))
      /\ q.contentType = Empty /\ q.body # {} => DecodeCancelRequest(q) = Decoded(400, NoRequest)
      /\ q.contentType # Empty => DecodeCancelRequest(q) = other
  BY Zenon DEF DecodeCancelRequest, DecodeBody
<1>2. IsFields(v) /\ request = Request(request.kind, v)
  BY DEF IsCancellation
<1>3. /\ \A kind \in SuffixedJson \cup {Empty} :
           kind # "empty" /\ kind # "json" /\ kind # "text"
      /\ Empty \notin SuffixedJson /\ JSON \notin SuffixedJson /\ JSON # "text/json"
      /\ "text/json" \notin SuffixedJson
      /\ "empty" # Empty /\ "json" # Empty /\ "text" # Empty
  BY DEF SuffixedJson, JSON, Empty
<1>4. CASE request.kind = "empty"
  <2>1. request = Request("empty", <<>>)
    BY <1>4 DEF IsCancellation
  <2>2. EncodeCancelRequest(request) = NoContent
    BY <1>4, Zenon DEF EncodeCancelRequest
  <2>3. q.contentType = Empty /\ q.body = {}
    BY <2>2 DEF NoContent, Content
  <2> QED
    BY <1>1, <1>3, <1>4, <2>1, <2>3
<1>5. ASSUME request.kind \notin {"empty", "text"}, q.body = {EncodeCancelImportTaskRequest(v)}
      PROVE  ReadCancelRequest(q, request.kind) = Decoded(0, request)
  <2> DEFINE order == <<"reason", "cancelledBy">>
             m     == CancelImportTaskRequest
  <2>1. Len(order) = 2 /\ order[1] = "reason" /\ order[2] = "cancelledBy"
    OBVIOUS
  <2>2. Distinct(order)
    BY <2>1 DEF Distinct
  <2>3. DOMAIN v \subseteq {"reason", "cancelledBy"} /\ \A k \in DOMAIN v : v[k][1] \in OptNilString
    BY <1>5 DEF IsCancellation
  <2>4. \A k \in {"reason", "cancelledBy"} : TypeOf(m, k) = OptNilString
    BY DEF TypeOf, CancelImportTaskRequest, Message
  <2>5. m.required = {}
    BY DEF CancelImportTaskRequest, Message
  <2>6. \A k \in DOMAIN v : \E i \in 1..Len(order) : order[i] = k
    BY <2>1, <2>3
  <2>7. \A k \in DOMAIN v : v[k][1] \in TypeOf(m, k)
    BY <2>3, <2>4
  <2>8. EncodeCancelImportTaskRequest(v) = Encode(v, order)
    BY DEF EncodeCancelImportTaskRequest
  <2> HIDE DEF m, order
  <2>9. Decode(m, Encode(v, order)) = {v}
    BY <1>2, <2>1, <2>2, <2>5, <2>6, <2>7, RoundTrip
  <2>10. UNION {Decode(m, json) : json \in q.body} = {v}
    BY <1>5, <2>8, <2>9
  <2>11. q.body # {} /\ {v} # {} /\ (CHOOSE x \in {v} : TRUE) = v
    BY <1>5
  <2>12. ReadCancelRequest(q, request.kind) = Decoded(0, Request(request.kind, v))
    BY <2>10, <2>11 DEF ReadCancelRequest, m
  <2> QED
    BY <1>2, <2>12
<1>6. CASE request.kind \in SuffixedJson \cup {Empty}
  <2>1. EncodeCancelRequest(request) = Content(request.kind, {EncodeCancelImportTaskRequest(v)})
    BY <1>3, <1>6, Zenon DEF EncodeCancelRequest
  <2>2. q.contentType = request.kind /\ q.body = {EncodeCancelImportTaskRequest(v)}
    BY <2>1 DEF Content
  <2>3. CASE request.kind = Empty
    BY <1>1, <2>2, <2>3
  <2>4. CASE request.kind \in SuffixedJson
    <3>1. other = ReadCancelRequest(q, request.kind)
      BY <1>3, <2>2, <2>4, Zenon
    <3>2. request.kind # Empty
      BY <1>3, <2>4
    <3>3. ReadCancelRequest(q, request.kind) = Decoded(0, request)
      BY <1>3, <1>5, <1>6, <2>2
    <3> QED
      BY <1>1, <2>2, <3>1, <3>2, <3>3
  <2> QED
    BY <1>6, <2>3, <2>4
<1>7. CASE request.kind = "json"
  <2>1. EncodeCancelRequest(request) = Content(JSON, {EncodeCancelImportTaskRequest(v)})
    BY <1>7, Zenon DEF EncodeCancelRequest
  <2>2. q.contentType = JSON /\ q.body = {EncodeCancelImportTaskRequest(v)}
    BY <2>1 DEF Content
  <2>3. other = ReadCancelRequest(q, "json")
    BY <1>3, <2>2, Zenon
  <2> QED
    BY <1>1, <1>3, <1>5, <1>7, <2>2, <2>3, MediaTypes
<1>8. CASE request.kind = "text"
  <2>1. EncodeCancelRequest(request) = Content("text/json", {Encode(v, <<"data">>)})
    BY <1>8, Zenon DEF EncodeCancelRequest
  <2>2. q.contentType = "text/json" /\ q.body = {Encode(v, <<"data">>)}
    BY <2>1 DEF Content
  <2>3. other = Decoded(0, Request("text", Form(q, {"data"})))
    BY <1>3, <2>2, Zenon
  <2>4. DOMAIN v \subseteq {"data"} /\ Len(<<"data">>) = 1 /\ <<"data">>[1] = "data"
    BY <1>8 DEF IsCancellation
  <2>5. Distinct(<<"data">>) /\ \A k \in DOMAIN v : \E i \in 1..Len(<<"data">>) : <<"data">>[i] = k
    BY <2>4 DEF Distinct
  <2>6. Form(q, {"data"}) = v
    BY <1>2, <2>2, <2>4, <2>5, FormIsRead
  <2> QED
    BY <1>1, <1>2, <1>3, <1>8, <2>2, <2>3, <2>6, MediaTypes
<1> QED
  BY <1>4, <1>6, <1>7, <1>8 DEF IsCancellation

\* The parameters are the two IDs of the call; a call without them has empty ones.
LEMMA ParametersAreRead ==
  ASSUME NEW id, id # Empty, NEW run, run # Empty
  PROVE  /\ DecodeCancelParams(<<id>>) = {[id |-> id, runId |-> Empty]}
         /\ DecodeImportrunsParams(<<id>>) = {[id |-> id, runId |-> Empty]}
         /\ DecodeStatusParams(<<id>>) = {[id |-> id, runId |-> Empty]}
         /\ DecodeRunStatusParams(<<id, run>>) = {[id |-> id, runId |-> run]}
<1>1. {id} \ {Empty} = {id} /\ {run} \ {Empty} = {run}
  OBVIOUS
<1>2. <<id>>[1] = id /\ <<id, run>>[1] = id /\ <<id, run>>[2] = run
  OBVIOUS
<1> QED
  BY <1>1, <1>2
  DEF DecodeCancelParams, DecodeImportrunsParams, DecodeStatusParams, DecodeRunStatusParams

\* What the server invokes for a call that a client has sent.
LEMMA CallIsHandled ==
  ASSUME NEW call, IsCall(call), NEW t
  PROVE  ServeHTTP(Send(t, call)) = Handled(call, t)
<1> DEFINE q    == Send(t, call)
           auth == AuthorizationHeader(t)
<1>1. /\ call.op \in Operations /\ (call.id = Empty <=> call.op \in {"healthz", "importtasks"})
      /\ call.runId = Empty <=> call.op # "runstatus"
  BY DEF IsCall
<1>2. /\ call.op = "importtasks" => IsForm(call.request, "sipType", ValidSipType)
      /\ call.op = "importruns" => IsForm(call.request, "importBehaviour", ValidImportBehaviourType)
      /\ call.op = "cancel" => IsCancellation(call.request)
      /\ (call.op = "healthz" \/ call.op = "runstatus" \/ call.op = "status")
           => call.request = NoRequest
  BY Zenon DEF IsCall
<1>3. Handled(call, t)
        = IF t # Token THEN Refused(call.op, 401)
          ELSE IF Untyped(call) THEN Refused(call.op, 400)
          ELSE Invocation(call.op, [id |-> call.id, runId |-> call.runId], call.request, 0)
  BY DEF Handled, Invocation
<1>4. \A code, request : Decoded(code, request).code = code /\ Decoded(code, request).request = request
  BY DEF Decoded
<1>5. /\ call.op = "healthz" => q = SendHealthz(auth)
      /\ call.op = "importtasks" => q = SendImporttasks(auth, call)
      /\ call.op = "cancel" => q = SendCancel(auth, call)
      /\ call.op = "importruns" => q = SendImportruns(auth, call)
      /\ call.op = "runstatus" => q = SendRunStatus(auth, call)
      /\ call.op = "status" => q = SendStatus(auth, call)
  BY Zenon DEF Send
<1> HIDE DEF q, auth
<1>6. ASSUME NEW decoded, q.auth = auth,
             decoded = IF Untyped(call) THEN Decoded(400, NoRequest) ELSE Decoded(0, call.request),
             ServeHTTP(q) = Handle(q, call.op, {[id |-> call.id, runId |-> call.runId]}, decoded)
      PROVE  ServeHTTP(q) = Handled(call, t)
  <2> DEFINE p == [id |-> call.id, runId |-> call.runId]
  <2>1. /\ q.auth = AuthorizationHeader(t)
        /\ Untyped(call) => decoded.code = 400
        /\ ~Untyped(call) => decoded.code = 0 /\ decoded.request = call.request
    BY <1>4, <1>6 DEF auth
  <2> HIDE DEF p
  \* The token is checked, then the parameters are there, and perhaps the body.
  <2>2. /\ t # Token => Handle(q, call.op, {p}, decoded) = Refused(call.op, 401)
        /\ t = Token /\ decoded.code # 0
             => Handle(q, call.op, {p}, decoded) = Refused(call.op, decoded.code)
        /\ t = Token /\ decoded.code = 0
             => Handle(q, call.op, {p}, decoded) = Invocation(call.op, p, decoded.request, 0)
    <3>1. SecuritySmart(q) <=> t = Token
      BY <2>1, TokenIsFound
    <3>2. {p} # {} /\ (CHOOSE x \in {p} : TRUE) = p
      OBVIOUS
    <3> QED
      BY <3>1, <3>2 DEF Handle
  <2> QED
    BY <1>3, <1>6, <2>1, <2>2 DEF p
<1>13. ASSUME call.op # "cancel", q.auth = auth,
              ServeHTTP(q) = Handle(q, call.op, {[id |-> call.id, runId |-> call.runId]},
                                    Decoded(0, call.request))
       PROVE  ServeHTTP(q) = Handled(call, t)
  <2>1. ~Untyped(call)
    BY <1>13 DEF Untyped
  <2> QED
    BY <1>6, <1>13, <2>1
<1>7. CASE call.op = "healthz"
  <2>1. /\ q.method = "GET" /\ q.path = <<"api", "healthz">> /\ q.auth = auth
    BY <1>5, <1>7, RequestFacts DEF SendHealthz
  <2>2. ServeHTTP(q) = HandleHealthz(q)
    BY <2>1, ServeRoutes
  <2>3. call.id = Empty /\ call.runId = Empty /\ call.request = NoRequest
    BY <1>1, <1>2, <1>7
  <2>4. ServeHTTP(q) = Handle(q, "healthz", {[id |-> call.id, runId |-> call.runId]}, Decoded(0, call.request))
    BY <2>2, <2>3 DEF HandleHealthz, NoParams, NoBody
  <2> QED
    BY <1>13, <1>7, <2>1, <2>4 DEF q
<1>8. CASE call.op = "importtasks"
  <2> DEFINE content == EncodeImporttasksRequest(call.request)
  <2>1. /\ q.method = "POST" /\ q.path = <<"api", "importtasks">> /\ q.auth = auth
        /\ q.contentType = content.contentType /\ q.body = content.body
    BY <1>5, <1>8, RequestFacts DEF SendImporttasks
  <2>2. ServeHTTP(q) = HandleImporttasks(q)
    BY <2>1, ServeRoutes
  <2>3. call.id = Empty /\ call.runId = Empty
    BY <1>1, <1>8
  <2>6. DecodeImporttasksRequest(q) = Decoded(0, call.request)
    BY <1>2, <1>8, <2>1, TaskFormsAreRead
  <2>7. ServeHTTP(q) = Handle(q, "importtasks", {[id |-> call.id, runId |-> call.runId]}, Decoded(0, call.request))
    BY <2>2, <2>3, <2>6 DEF HandleImporttasks, NoParams
  <2> QED
    BY <1>13, <1>8, <2>1, <2>7 DEF q
<1>9. CASE call.op = "cancel"
  <2> DEFINE content == EncodeCancelRequest(call.request)
  <2>1. /\ q.method = "POST" /\ q.path = <<"api", "importtasks", call.id, "cancel">> /\ q.auth = auth
        /\ q.contentType = content.contentType /\ q.body = content.body
    BY <1>5, <1>9, RequestFacts DEF SendCancel
  <2>2. ServeHTTP(q) = HandleCancel(q, <<call.id>>)
    BY <2>1, ServeRoutes
  <2>3. call.id # Empty /\ call.runId = Empty
    BY <1>1, <1>9
  <2>4. DecodeCancelParams(<<call.id>>) = {[id |-> call.id, runId |-> call.runId]}
    BY <2>3, ParametersAreRead
  <2> DEFINE decoded == DecodeCancelRequest(q)
  <2>5. decoded = IF Untyped(call) THEN Decoded(400, NoRequest) ELSE Decoded(0, call.request)
    BY <1>2, <1>9, <2>1, CancellationsAreRead DEF Untyped
  <2>6. ServeHTTP(q) = Handle(q, "cancel", {[id |-> call.id, runId |-> call.runId]}, decoded)
    BY <2>2, <2>4 DEF HandleCancel
  <2> HIDE DEF decoded
  <2> QED
    BY <1>6, <1>9, <2>1, <2>5, <2>6 DEF q
<1>10. CASE call.op = "importruns"
  <2> DEFINE content == EncodeImportrunsRequest(call.request)
  <2>1. /\ q.method = "POST" /\ q.path = <<"api", "importtasks", call.id, "importruns">> /\ q.auth = auth
        /\ q.contentType = content.contentType /\ q.body = content.body
    BY <1>5, <1>10, RequestFacts DEF SendImportruns
  <2>2. ServeHTTP(q) = HandleImportruns(q, <<call.id>>)
    BY <2>1, ServeRoutes
  <2>3. call.id # Empty /\ call.runId = Empty
    BY <1>1, <1>10
  <2>6. DecodeImportrunsRequest(q) = Decoded(0, call.request)
    BY <1>2, <1>10, <2>1, RunFormsAreRead
  <2>7. DecodeImportrunsParams(<<call.id>>) = {[id |-> call.id, runId |-> call.runId]}
    BY <2>3, ParametersAreRead
  <2>8. ServeHTTP(q) = Handle(q, "importruns", {[id |-> call.id, runId |-> call.runId]}, Decoded(0, call.request))
    BY <2>2, <2>6, <2>7 DEF HandleImportruns
  <2> QED
    BY <1>13, <1>10, <2>1, <2>8 DEF q
<1>11. CASE call.op = "runstatus"
  <2>1. /\ q.method = "GET" /\ q.auth = auth
        /\ q.path = <<"api", "importtasks", call.id, "importruns", call.runId, "status">>
    BY <1>5, <1>11, RequestFacts DEF SendRunStatus
  <2>2. ServeHTTP(q) = HandleRunStatus(q, <<call.id, call.runId>>)
    BY <2>1, ServeRoutes
  <2>3. call.id # Empty /\ call.runId # Empty /\ call.request = NoRequest
    BY <1>1, <1>2, <1>11
  <2>4. DecodeRunStatusParams(<<call.id, call.runId>>) = {[id |-> call.id, runId |-> call.runId]}
    BY <2>3, ParametersAreRead
  <2>5. ServeHTTP(q) = Handle(q, "runstatus", {[id |-> call.id, runId |-> call.runId]}, Decoded(0, call.request))
    BY <2>2, <2>3, <2>4 DEF HandleRunStatus, NoBody
  <2> QED
    BY <1>13, <1>11, <2>1, <2>5 DEF q
<1>12. CASE call.op = "status"
  <2>1. /\ q.method = "GET" /\ q.path = <<"api", "importtasks", call.id, "status">> /\ q.auth = auth
    BY <1>5, <1>12, RequestFacts DEF SendStatus
  <2>2. ServeHTTP(q) = HandleStatus(q, <<call.id>>)
    BY <2>1, ServeRoutes
  <2>3. call.id # Empty /\ call.runId = Empty /\ call.request = NoRequest
    BY <1>1, <1>2, <1>12
  <2>4. DecodeStatusParams(<<call.id>>) = {[id |-> call.id, runId |-> call.runId]}
    BY <2>3, ParametersAreRead
  <2>5. ServeHTTP(q) = Handle(q, "status", {[id |-> call.id, runId |-> call.runId]}, Decoded(0, call.request))
    BY <2>2, <2>3, <2>4 DEF HandleStatus, NoBody
  <2> QED
    BY <1>13, <1>12, <2>1, <2>5 DEF q
<1> QED
  BY <1>1, <1>7, <1>8, <1>9, <1>10, <1>11, <1>12 DEF Operations

\* An invocation is what it is made of.
LEMMA InvocationFacts ==
  ASSUME NEW op, NEW params, NEW request, NEW refusal
  PROVE  LET inv == Invocation(op, params, request, refusal) IN
           /\ inv.op = op /\ inv.id = params.id /\ inv.runId = params.runId
           /\ inv.request = request /\ inv.refusal = refusal
BY DEF Invocation

\* What the server did for a caller.
LEMMA Invoked ==
  ASSUME ClientInv, NEW s, s.from \in Callers, Answered(s)
  PROVE  LET inv == s.invocation  call == client[s.from].call IN
           /\ call \in Calls /\ IsCall(call) /\ inv.op = call.op
           /\ \/ /\ inv.refusal = 0 /\ inv.id = call.id /\ inv.runId = call.runId
                 /\ inv.request = call.request
              \/ inv.refusal = 401
              \/ inv.refusal = 400 /\ Untyped(call)
<1> DEFINE call == client[s.from].call
<1>1. PICK t : s.invocation = ServeHTTP(Send(t, call))
  BY DEF Answered
<1>2. call \in Calls
  BY DEF Answered, ClientInv
<1>3. IsCall(call)
  BY <1>2, CallsAreOfTheClient
<1> HIDE DEF call
<1>4. s.invocation = Handled(call, t)
  BY <1>1, <1>3, CallIsHandled
<1>5. CASE t = Token /\ ~Untyped(call)
  <2>1. s.invocation = Invocation(call.op, call, call.request, 0)
    BY <1>4, <1>5 DEF Handled
  <2> QED
    BY <1>2, <1>3, <2>1, InvocationFacts DEF call
<1>6. ASSUME NEW code, s.invocation = Refused(call.op, code), code = 401 \/ (code = 400 /\ Untyped(call))
      PROVE  /\ s.invocation.op = call.op
             /\ s.invocation.refusal = 401 \/ (s.invocation.refusal = 400 /\ Untyped(call))
  BY <1>6, InvocationFacts DEF Refused
<1>7. CASE t # Token \/ Untyped(call)
  <2>1. s.invocation = Refused(call.op, 401) \/ (s.invocation = Refused(call.op, 400) /\ Untyped(call))
    BY <1>4, <1>7 DEF Handled
  <2> QED
    BY <1>2, <1>3, <1>6, <2>1 DEF call
<1> QED
  BY <1>5, <1>7

\* HandledAsSent follows from the invariant.
LEMMA HandledFacts ==
  ASSUME WireInv
  PROVE  HandledAsSent
<1> SUFFICES ASSUME NEW s \in served, s.from \in Callers
             PROVE  LET inv == s.invocation IN
                      IF inv.refusal = 0
                      THEN [op |-> inv.op, id |-> inv.id, runId |-> inv.runId, request |-> inv.request]
                             = client[s.from].call
                      ELSE inv.refusal = 401 \/ (inv.refusal = 400 /\ Untyped(client[s.from].call))
  BY DEF HandledAsSent
<1> DEFINE call == client[s.from].call
           inv  == s.invocation
<1>1. /\ IsCall(call) /\ inv.op = call.op
      /\ \/ /\ inv.refusal = 0 /\ inv.id = call.id /\ inv.runId = call.runId
            /\ inv.request = call.request
         \/ inv.refusal = 401
         \/ inv.refusal = 400 /\ Untyped(call)
  BY Invoked DEF WireInv, ServedInv
<1>2. call = [op |-> call.op, id |-> call.id, runId |-> call.runId, request |-> call.request]
  BY <1>1 DEF IsCall
<1> HIDE DEF call
<1> QED
  BY <1>1, <1>2 DEF call

-----------------------------------------------------------------------------
(* The invariants hold.                                                     *)

\* The invariants hold when nobody has called.
LEMMA Initially ==
  ASSUME Init
  PROVE  WireInv /\ ServerInv
<1>1. PICK t \in PriorTasks : /\ tasks = <<t>> /\ nextRun = t.run
        /\ handler = [analysisResult |-> t.analysisResult, importResult |-> t.importResult]
  BY DEF Init
<1>2. /\ client = [c \in Callers |-> Idle]
      /\ requests = {} /\ answers = {} /\ served = {}
  BY DEF Init
<1>3. TaskRecord(t) /\ t \in TaskState
  BY PriorTasksAreTasks DEF TaskRecord
<1>4. ServerInv
  BY <1>1, <1>3, RecordFacts DEF ServerInv, MockTypeOK, Known
<1>5. Idle.stage = "idle" /\ Idle.results = {}
  BY DEF Idle
<1>6. WireInv
  BY <1>2, <1>5 DEF WireInv, ClientInv, RequestsInv, ServedInv, AnswersInv, ResultsInv, Stages
<1> QED
  BY <1>4, <1>6

\* Every step preserves them.
LEMMA EveryStep ==
  ASSUME WireInv, ServerInv, [Next]_vars
  PROVE  WireInv' /\ ServerInv' /\ ServerStep
<1>1. CASE UNCHANGED vars
  <2>1. UNCHANGED mockVars /\ UNCHANGED <<client, requests, answers, served>>
    BY <1>1 DEF vars, mockVars
  <2>2. /\ \A m : Outstanding(m)' <=> Outstanding(m)
        /\ \A s : Answered(s)' <=> Answered(s)
        /\ \A c : Waiting(c)' <=> Waiting(c)
    BY <2>1 DEF Outstanding, Answered, Waiting
  <2>3. WireInv'
    BY <2>1, <2>2 DEF WireInv, ClientInv, RequestsInv, ServedInv, AnswersInv, ResultsInv
  <2> QED
    BY <2>1, <2>3, StutterFacts
<1>2. ASSUME NEW c \in Callers, Call(c) PROVE WireInv' /\ ServerInv' /\ ServerStep
  BY <1>2, CallStep, StutterFacts DEF Call, mockVars
<1>3. ASSUME NEW c \in Callers, GiveUp(c) PROVE WireInv' /\ ServerInv' /\ ServerStep
  BY <1>3, GiveUpStep, StutterFacts DEF GiveUp, mockVars
<1>4. CASE CallByHand
  BY <1>4, CallByHandStep, StutterFacts DEF CallByHand, mockVars
<1>5. ASSUME NEW m \in requests, Serve(m) PROVE WireInv' /\ ServerInv' /\ ServerStep
  <2>1. PICK s : IF s.invocation.refusal = 0 THEN Effect(s.invocation) ELSE UNCHANGED mockVars
    BY <1>5, ServeFacts
  <2> QED
    BY <1>5, <2>1, ServeStep, EffectStep, StutterFacts
<1>6. ASSUME NEW a \in answers, Disturb(a) PROVE WireInv' /\ ServerInv' /\ ServerStep
  BY <1>6, DisturbStep, StutterFacts DEF Disturb, mockVars
<1>7. ASSUME NEW a \in answers, Receive(a) PROVE WireInv' /\ ServerInv' /\ ServerStep
  BY <1>7, ReceiveStep, StutterFacts DEF Receive, mockVars
<1> QED
  BY <1>1, <1>2, <1>3, <1>4, <1>5, <1>6, <1>7 DEF Next

\* They hold always.
LEMMA Invariance == Spec => [](WireInv /\ ServerInv)
<1>1. Init => WireInv /\ ServerInv
  BY Initially
<1>2. WireInv /\ ServerInv /\ [Next]_vars => WireInv' /\ ServerInv'
  BY EveryStep
<1> QED
  BY <1>1, <1>2, PTL DEF Spec

\* What the server invokes for a caller is the call the caller made, with its parameters and
\* every field of its form; it refuses a caller nothing but a bad token, and a cancellation
\* without its content type.
THEOREM CallsAreHandled == Spec => []HandledAsSent
<1>1. WireInv /\ ServerInv => HandledAsSent
  BY HandledFacts
<1> QED
  BY <1>1, Invariance, PTL

-----------------------------------------------------------------------------
(* Tidings: what a caller is told of what it has created.                   *)

\* A response has the status it was made with.
LEMMA StatusFacts ==
  /\ \A status, contentType, body :
       LET http == Response(status, contentType, body) IN
         http.status = status /\ http.contentType = contentType /\ http.body = body
  /\ \A type, value : Typed(type, value).type = type /\ Typed(type, value).value = value
BY DEF Response, Typed

\* A disturbed response is an error, or has one of the varied bodies.
LEMMA DisturbedFacts ==
  ASSUME NEW http, NEW x \in Disturbed(http)
  PROVE  \/ x.status \in {500, 502}
         \/ /\ x.status = http.status /\ x.contentType = http.contentType
            /\ \E b, s : b \in http.body /\ s \in Varied(b) /\ x.body = {s}
<1>1. Response(502, "text/html", {}).status = 502
  BY StatusFacts
<1>2. \A body : Response(500, JSON, body).status = 500
  BY StatusFacts
<1>3. ASSUME NEW s \in UNION {Varied(b) : b \in http.body},
             x = Response(http.status, http.contentType, {s})
      PROVE  /\ x.status = http.status /\ x.contentType = http.contentType
             /\ \E b, t : b \in http.body /\ t \in Varied(b) /\ x.body = {t}
  <2>1. x.status = http.status /\ x.contentType = http.contentType /\ x.body = {s}
    BY <1>3, StatusFacts
  <2>2. \E b : b \in http.body /\ s \in Varied(b)
    OBVIOUS
  <2> QED
    BY <2>1, <2>2
<1> DEFINE proxy  == Response(502, "text/html", {})
           title  == {<<<<"title", Str("InternalServerError")>>>>}
           server == Response(500, JSON, title)
           varied == {Response(http.status, http.contentType, {s}) :
                        s \in UNION {Varied(b) : b \in http.body}}
<1>4. x \in {proxy, server} \cup varied
  BY Zenon DEF Disturbed
<1> HIDE DEF title
<1>5. proxy.status = 502
  BY <1>1
<1>6. server.status = 500
  BY <1>2
<1>7. x \in varied => /\ x.status = http.status /\ x.contentType = http.contentType
                     /\ \E b, t : b \in http.body /\ t \in Varied(b) /\ x.body = {t}
  BY <1>3, Zenon
<1> HIDE DEF proxy, server, varied
<1> QED
  BY <1>4, <1>5, <1>6, <1>7

\* A response that was disturbed has its status, or that of an error of a server.
LEMMA DisturbedStatus ==
  ASSUME NEW http, NEW x \in Disturbed(http)
  PROVE  x.status \in {http.status, 500, 502}
BY DisturbedFacts

\* A creation is answered with 201 when something was created, and else it is not.
TidingsInv ==
  \A s \in served : s.from \in Callers /\ client[s.from].call.op \in Creating =>
    (s.changed <=> s.status = 201)

\* A refused request has another status.
LEMMA RefusalStatus ==
  ASSUME NEW inv, inv.refusal \in {400, 401}
  PROVE  Refusal(inv) = ErrorHandler(inv.refusal) /\ Refusal(inv).status = inv.refusal
<1>2. Refusal(inv) = ErrorHandler(inv.refusal)
  <2>1. inv.refusal # 404 /\ inv.refusal # 405
    OBVIOUS
  <2>2. Refusal(inv) = ErrorHandler(inv.refusal)
    BY <2>1, Zenon DEF Refusal
  <2> QED
    BY <2>2
<1> QED
  BY <1>2, StatusFacts DEF ErrorHandler

\* What the creation of a task does and says.
LEMMA TaskTidings ==
  ASSUME ServerInv, NEW inv, inv.op = "importtasks", Effect(inv)
  PROVE  tasks' # tasks /\ EncodeResponse(inv.op, Reply(inv)).status = 201
<1>1. APIImporttasksPost
  BY Zenon DEF Effect
<1>2. Reply(inv) = ImporttasksReply
  BY Zenon DEF Reply
<1>3. EncodeResponse(inv.op, Reply(inv)) = EncodeImporttasksResponse(ImporttasksReply)
  BY <1>2, Zenon DEF EncodeResponse
<1>4. ImporttasksReply.type = "CreateImportTaskResponse"
  BY StatusFacts DEF ImporttasksReply
<1>5. EncodeImporttasksResponse(ImporttasksReply).status = 201
  BY <1>4, StatusFacts DEF EncodeImporttasksResponse
<1> QED
  BY <1>1, <1>3, <1>5, NewStep

\* Each problem has its status.
LEMMA ProblemFacts ==
  ASSUME NEW type \in DOMAIN ProblemStatus, NEW status, NEW detail
  PROVE  /\ Problem(type, status, detail).type = type
         /\ ProblemStatus[type] \in {400, 401, 404, 409, 415, 500}
BY StatusFacts DEF Problem, ProblemStatus

\* What the creation of a run does and says.
LEMMA RunTidings ==
  ASSUME ServerInv, NEW inv, inv.op = "importruns", Effect(inv)
  PROVE  tasks' # tasks <=> EncodeResponse(inv.op, Reply(inv)).status = 201
<1> DEFINE res == ImportrunsReply(inv.id)
<1>1. Reply(inv) = res
  BY Zenon DEF Reply
<1>2. EncodeResponse(inv.op, Reply(inv)) = EncodeImportrunsResponse(res)
  BY <1>1, Zenon DEF EncodeResponse
<1>3. \/ /\ \E n \in TaskOf(inv.id) : RunAccepted(tasks[n])
         /\ res.type = "CreateImportRunResponse"
      \/ res.type \in {"NotFound", "BadRequest"}
  <2>1. \/ res = TaskNotFound
        \/ /\ \E n \in TaskOf(inv.id) : RunAccepted(tasks[n])
           /\ res = Typed("CreateImportRunResponse", [importRunId |-> Str(RunIDs[nextRun + 1])])
        \/ \E detail : res = BadRequest(detail)
    BY Zenon DEF ImportrunsReply
  <2>2. TaskNotFound.type = "NotFound" /\ \A detail : BadRequest(detail).type = "BadRequest"
    BY StatusFacts DEF TaskNotFound, BadRequest, Problem
  <2> QED
    BY <2>1, <2>2, StatusFacts
<1> HIDE DEF res
<1>4. CASE res.type = "CreateImportRunResponse"
  <2>1. EncodeImportrunsResponse(res).status = 201
    BY <1>4, StatusFacts DEF EncodeImportrunsResponse
  <2>2. \E n \in TaskOf(inv.id) : APIImporttasksIDImportrunsPost(n)
    BY <1>1, <1>4, Zenon DEF Effect
  <2>3. TaskOf(inv.id) \subseteq Known
    BY DEF TaskOf
  <2>4. tasks' # tasks
    BY <2>2, <2>3, RunStep
  <2> QED
    BY <1>2, <2>1, <2>4
<1>5. CASE res.type \in {"NotFound", "BadRequest"}
  <2>1. EncodeImportrunsResponse(res) = EncodeProblem(res, ProblemJSON)
    BY <1>5 DEF EncodeImportrunsResponse
  <2>2. ProblemStatus[res.type] \in {400, 404}
    BY <1>5 DEF ProblemStatus
  <2>3. EncodeImportrunsResponse(res).status # 201
    BY <2>1, <2>2, StatusFacts DEF EncodeProblem
  <2>4. Reply(inv).type # "CreateImportRunResponse"
    BY <1>1, <1>5
  <2>5. UNCHANGED mockVars
    BY <2>4, Zenon DEF Effect
  <2> QED
    BY <1>2, <2>3, <2>5 DEF mockVars
<1> QED
  BY <1>3, <1>4, <1>5

\* Serving a request preserves what its status tells.
LEMMA TidingsOfServe ==
  ASSUME WireInv, ServerInv, TidingsInv, NEW m \in requests, Serve(m)
  PROVE  TidingsInv'
<1>1. PICK s : /\ s.from = m.from /\ s.invocation = ServeHTTP(m.http)
               /\ s.invocation.refusal = 0 => s.reply = {Reply(s.invocation)}
               /\ s.status = Sent(s).status /\ s.changed = (tasks' # tasks)
               /\ IF s.invocation.refusal = 0 THEN Effect(s.invocation) ELSE UNCHANGED mockVars
               /\ served' = served \cup {s} /\ UNCHANGED client
  BY ServeFacts
<1> DEFINE inv == s.invocation
<1>2. SUFFICES ASSUME s.from \in Callers, client[s.from].call.op \in Creating
               PROVE  s.changed <=> s.status = 201
  <2>1. \A r \in served' : r \in served \/ r = s
    BY <1>1
  <2> QED
    BY <1>1, <2>1 DEF TidingsInv
<1>3. Answered(s)
  BY <1>1 DEF WireInv, RequestsInv, Outstanding, Answered
<1>4. inv.op = client[s.from].call.op /\ (inv.refusal = 0 \/ inv.refusal = 401)
  BY <1>2, <1>3, Invoked DEF WireInv, Untyped, Creating
<1>5. inv.op \in {"importtasks", "importruns"}
  BY <1>2, <1>4 DEF Creating
<1>8. (s.changed <=> tasks' # tasks) /\ s.status = Sent(s).status
  <2>1. s.changed = (tasks' # tasks)
    BY <1>1
  <2> QED
    BY <1>1, <2>1, Zenon
<1>6. CASE inv.refusal = 0
  <2>1. Effect(inv) /\ s.reply = {Reply(inv)}
    BY <1>1, <1>6
  <2>2. (CHOOSE res \in {Reply(inv)} : TRUE) = Reply(inv)
    OBVIOUS
  <2>3. Sent(s) = EncodeResponse(inv.op, Reply(inv))
    BY <1>6, <2>1, <2>2 DEF Sent
  <2>4. CASE inv.op = "importtasks"
    BY <1>8, <2>1, <2>3, <2>4, TaskTidings
  <2>5. CASE inv.op = "importruns"
    BY <1>8, <2>1, <2>3, <2>5, RunTidings
  <2> QED
    BY <1>5, <2>4, <2>5
<1>7. CASE inv.refusal = 401
  <2>1. Sent(s).status = 401
    BY <1>7, RefusalStatus DEF Sent
  <2>2. tasks' = tasks
    BY <1>1, <1>7 DEF mockVars
  <2> QED
    BY <1>8, <2>1, <2>2
<1> QED
  BY <1>4, <1>6, <1>7

\* A caller's call stays what it is, and it is only told of the end of it.
LEMMA CallsStay ==
  ASSUME WireInv, [Next]_vars, NEW c \in Callers, client[c].stage # "idle"
  PROVE  client'[c].stage # "idle" /\ client'[c].call = client[c].call
<1>1. \A x : \A d \in Callers : (client' = [client EXCEPT ![d] = x] =>
        client'[d] = x /\ \A e \in Callers \ {d} : client'[e] = client[e])
  BY DEF WireInv, ClientInv
<1>2. CASE UNCHANGED client
  BY <1>2
<1>3. ASSUME NEW d \in Callers, Call(d) PROVE client'[c] = client[c]
  <2>1. PICK x : client' = [client EXCEPT ![d] = x]
    BY <1>3 DEF Call
  <2>2. c # d
    BY <1>3 DEF Call
  <2> QED
    BY <1>1, <2>1, <2>2
<1>4. ASSUME NEW d \in Callers, NEW results, NEW disturbed,
             client' = [client EXCEPT ![d] = Over(client[d].call, results, disturbed)]
      PROVE  client'[c].stage # "idle" /\ client'[c].call = client[c].call
  <2>1. client'[d] = Over(client[d].call, results, disturbed)
    BY <1>1, <1>4
  <2>2. client'[d].stage = "over" /\ client'[d].call = client[d].call
    BY <2>1 DEF Over
  <2> QED
    BY <1>1, <1>4, <2>2
<1>5. ASSUME NEW d \in Callers, GiveUp(d)
      PROVE  client'[c].stage # "idle" /\ client'[c].call = client[c].call
  BY <1>4, <1>5 DEF GiveUp
<1>6. ASSUME NEW a \in answers, Receive(a)
      PROVE  client'[c].stage # "idle" /\ client'[c].call = client[c].call
  <2>1. a.to \in Callers
    BY DEF WireInv, AnswersInv, Waiting
  <2> QED
    BY <1>4, <1>6, <2>1 DEF Receive
<1>7. \/ UNCHANGED client
      \/ \E d \in Callers : Call(d) \/ GiveUp(d)
      \/ \E a \in answers : Receive(a)
  BY DEF Next, vars, CallByHand, Serve, Respond, Disturb
<1> QED
  BY <1>2, <1>3, <1>5, <1>6, <1>7

\* So does every other step.
LEMMA TidingsStep ==
  ASSUME WireInv, ServerInv, TidingsInv, [Next]_vars
  PROVE  TidingsInv'
<1>1. ASSUME NEW m \in requests, Serve(m) PROVE TidingsInv'
  BY <1>1, TidingsOfServe
<1>2. CASE UNCHANGED served
  <2>1. \A s \in served : s.from \in Callers => client'[s.from].call = client[s.from].call
    <3> SUFFICES ASSUME NEW s \in served, s.from \in Callers
                 PROVE  client'[s.from].call = client[s.from].call
      OBVIOUS
    <3>1. client[s.from].stage # "idle"
      BY DEF WireInv, ServedInv, Answered
    <3> QED
      BY <3>1, CallsStay
  <2> QED
    BY <1>2, <2>1 DEF TidingsInv
<1>3. UNCHANGED served \/ \E m \in requests : Serve(m)
  BY DEF Next, vars, Call, GiveUp, CallByHand, Disturb, Receive
<1> QED
  BY <1>1, <1>2, <1>3

-----------------------------------------------------------------------------
(* The refinement.                                                          *)

Made    == {s.from : s \in {r \in served : r.changed /\ r.from \in Callers}}
AllTold == [c \in Callers |-> Told(client[c])]

\* What has been told of a call.
LEMMA ToldFacts ==
  ASSUME NEW end
  PROVE  /\ end.stage # "over" => Told(end) = "nothing"
         /\ end.stage = "over" =>
              \/ Told(end) = "unknown"
              \/ Told(end) = "done" /\ end.call.op \in Creating /\ Verdict(end) = "done"
              \/ /\ Told(end) = "refused" /\ end.call.op \in Creating /\ Verdict(end) = "final"
                 /\ \A res \in end.results : res.type \in DOMAIN ProblemStatus
<1>1. ~(Verdict(end) = "done" /\ Verdict(end) = "final")
  OBVIOUS
<1> DEFINE over    == end.stage = "over"
           creates == end.call.op \in Creating
           done    == Verdict(end) = "done"
           final   == Verdict(end) = "final"
           problem == \A res \in end.results : res.type \in DOMAIN ProblemStatus
<1>2. Told(end) = CASE ~over -> "nothing" [] over /\ creates /\ done -> "done"
                    [] over /\ creates /\ final /\ problem -> "refused" [] OTHER -> "unknown"
  BY DEF Told
<1> HIDE DEF over, creates, done, final, problem
<1>3. ~(done /\ final)
  BY <1>1 DEF done, final
<1>4. CASE ~over
  <2>1. Told(end) = "nothing"
    BY <1>2, <1>4, Zenon
  <2> QED
    BY <1>4, <2>1 DEF over
<1>5. CASE over
  <2>1. \/ Told(end) = "unknown"
        \/ Told(end) = "done" /\ creates /\ done
        \/ Told(end) = "refused" /\ creates /\ final /\ problem
    BY <1>2, <1>3, <1>5, Zenon
  <2> QED
    BY <1>5, <2>1 DEF over, creates, done, final, problem
<1> QED
  BY <1>4, <1>5

\* A call that ended in an error tells nothing.
LEMMA ErrorsTellNothing ==
  ASSUME NEW end, end.results = {}
  PROVE  Told(end) \in {"nothing", "unknown"}
<1>1. TaskVerdict({}) = "retry"
  <2>1. ~(\E res \in {} : res.type = "CreateImportTaskResponse")
        /\ ~(\E res \in {} : res.type = "InternalServerError")
    OBVIOUS
  <2> QED
    BY <2>1, Zenon DEF TaskVerdict
<1>2. RunVerdict({}) = "retry"
  <2>1. ~(\E res \in {} : res.type = "CreateImportRunResponse")
    OBVIOUS
  <2> QED
    BY <2>1, Zenon DEF RunVerdict
<1>3. Verdict(end) = "retry"
  BY <1>1, <1>2 DEF Verdict
<1> QED
  BY <1>3, ToldFacts

\* A caller is told something.
LEMMA TellStep ==
  ASSUME WireInv, NEW c \in Callers, client[c].stage # "over", NEW end,
         client' = [client EXCEPT ![c] = end], UNCHANGED served,
         Told(end) = "unknown" \/ Told(end) = IF c \in Made THEN "done" ELSE "refused"
  PROVE  Exchange!Tell(c)
<1>1. /\ DOMAIN client = Callers /\ client'[c] = end
      /\ \A d \in Callers : d # c => client'[d] = client[d]
  BY DEF WireInv, ClientInv
<1>2. Told(client[c]) = "nothing"
  BY ToldFacts
<1>3. AllTold[c] = "nothing"
  BY <1>2 DEF AllTold
<1>4. AllTold' = [AllTold EXCEPT ![c] = Told(end)]
  BY <1>1 DEF AllTold
<1>5. UNCHANGED Made
  BY DEF Made
<1>6. \E t \in {"unknown", IF c \in Made THEN "done" ELSE "refused"} :
        AllTold' = [AllTold EXCEPT ![c] = t]
  BY <1>4
<1> QED
  BY <1>3, <1>5, <1>6 DEF Exchange!Tell, AllTold, Made

\* Nothing is made and nobody is told.
LEMMA NobodyIsTold ==
  ASSUME UNCHANGED <<client, Made>>
  PROVE  UNCHANGED Exchange!exchangeVars
<1>1. AllTold' = AllTold
  BY DEF AllTold
<1> QED
  BY <1>1 DEF Exchange!exchangeVars, AllTold, Made

\* A request that is served is made, if it changes anything.
LEMMA MakeStep ==
  ASSUME WireInv, NEW m \in requests, Serve(m)
  PROVE  (m.from \in Callers /\ Exchange!Make(m.from)) \/ UNCHANGED Exchange!exchangeVars
<1>1. PICK s : s.from = m.from /\ served' = served \cup {s} /\ UNCHANGED client
  BY ServeFacts
<1>2. \A r \in served : r.from # m.from
  BY DEF WireInv, ServedInv
<1>3. CASE s.changed /\ s.from \in Callers
  <2> DEFINE c == m.from
  <2>1. c \notin Made /\ c \in Callers /\ Made' = Made \cup {c}
    BY <1>1, <1>2, <1>3 DEF Made
  <2>2. client[c].stage # "idle"
    BY <1>1, <1>3 DEF WireInv, RequestsInv, Outstanding
  <2>3. client[c].results = {}
    BY <1>2, <2>1 DEF WireInv, ResultsInv
  <2>4. Told(client[c]) \in {"nothing", "unknown"}
    BY <2>3, ErrorsTellNothing
  <2>5. AllTold' = AllTold /\ AllTold[c] \in {"nothing", "unknown"}
    BY <1>1, <2>1, <2>4 DEF AllTold
  <2> HIDE DEF c
  <2>6. Exchange!Make(c)
    BY <2>1, <2>5 DEF Exchange!Make, Made, AllTold
  <2> QED
    BY <2>1, <2>6 DEF c
<1>4. CASE ~(s.changed /\ s.from \in Callers)
  <2>1. Made' = Made
    BY <1>1, <1>4 DEF Made
  <2> QED
    BY <1>1, <2>1, NobodyIsTold
<1> QED
  BY <1>3, <1>4

\* An answer that is received is told as what it is.
LEMMA ReceiveTells ==
  ASSUME WireInv, TidingsInv, NEW a \in answers, Receive(a)
  PROVE  Exchange!Tell(a.to)
<1> DEFINE c    == a.to
           call == client[c].call
           end  == Over(call, DecodeResponse(call.op, a.http), a.disturbed)
<1>1. /\ client' = [client EXCEPT ![c] = end] /\ UNCHANGED served
      /\ Waiting(c) /\ c \in Callers /\ DOMAIN client = Callers
  BY DEF Receive, WireInv, ClientInv, AnswersInv, Waiting
<1>2. /\ end.stage = "over" /\ end.call = call
      /\ end.results = DecodeResponse(call.op, a.http)
  BY DEF Over
<1>3. PICK s \in served : s.from = c /\ Arrives(s, a.http, a.disturbed)
  BY DEF WireInv, AnswersInv
<1>4. s.status = Sent(s).status /\ \A r \in served : r.from = c => r = s
  BY <1>3 DEF WireInv, ServedInv
<1>5. a.http.status \in {s.status, 500, 502}
  BY <1>3, <1>4, DisturbedStatus DEF Arrives
<1> HIDE DEF end
<1>6. Told(end) = "unknown" \/ Told(end) = IF c \in Made THEN "done" ELSE "refused"
  <2> DEFINE results == DecodeResponse(call.op, a.http)
             problem == \A res \in results : res.type \in DOMAIN ProblemStatus
  <2>1. \/ Told(end) = "unknown"
        \/ Told(end) = "done" /\ call.op \in Creating /\ Verdict(end) = "done"
        \/ Told(end) = "refused" /\ call.op \in Creating /\ Verdict(end) = "final" /\ problem
    BY <1>2, ToldFacts
  <2>2. Verdict(end) = IF call.op = "importtasks" THEN TaskVerdict(results) ELSE RunVerdict(results)
    BY <1>2 DEF Verdict
  <2>3. /\ call.op = "importtasks" => results = DecodeImporttasksResponse(a.http)
        /\ call.op = "importruns" => results = DecodeImportrunsResponse(a.http)
    BY Zenon DEF DecodeResponse
  <2> HIDE DEF results
  <2>4. ASSUME call.op \in Creating
        PROVE  /\ Verdict(end) = "done" => a.http.status = 201
               /\ Verdict(end) = "final" /\ problem => a.http.status \notin {201, 500, 502}
    BY <2>2, <2>3, <2>4, TaskAnswers, RunAnswers DEF Creating
  <2>5. call.op \in Creating => (c \in Made <=> s.status = 201)
    BY <1>1, <1>3, <1>4 DEF Made, TidingsInv
  <2> HIDE DEF problem
  <2> QED
    BY <1>5, <2>1, <2>4, <2>5
<1> HIDE DEF c
<1>7. client[c].stage # "over"
  BY <1>1 DEF Waiting
<1>8. Exchange!Tell(c)
  BY <1>1, <1>6, <1>7, TellStep
<1> QED
  BY <1>8 DEF c

\* A step of the wire is a step of the exchange, or none.
LEMMA ExchangeStep ==
  ASSUME WireInv, TidingsInv, [Next]_vars
  PROVE  [Exchange!Next]_(Exchange!exchangeVars)
<1>1. CASE UNCHANGED <<client, served>>
  BY <1>1, NobodyIsTold DEF Made
<1>2. ASSUME NEW c \in Callers, Call(c) PROVE [Exchange!Next]_(Exchange!exchangeVars)
  <2>1. PICK call \in Calls, tokens \in Smart :
          client' = [client EXCEPT ![c] = IF tokens = {} THEN Over(call, {}, FALSE)
                       ELSE [Idle EXCEPT !.stage = "waiting", !.call = call]]
    BY <1>2, Zenon DEF Call
  <2>2. client[c].stage = "idle" /\ UNCHANGED served
    BY <1>2 DEF Call
  <2>3. CASE tokens = {}
    <3>1. client' = [client EXCEPT ![c] = Over(call, {}, FALSE)]
      BY <2>1, <2>3
    <3>2. Told(Over(call, {}, FALSE)) = "unknown"
      <4>1. Over(call, {}, FALSE).stage = "over" /\ Over(call, {}, FALSE).results = {}
        BY DEF Over
      <4> QED
        BY <4>1, ErrorsTellNothing, ToldFacts
    <3>3. Exchange!Tell(c)
      BY <2>2, <3>1, <3>2, TellStep
    <3> QED
      BY <3>3 DEF Exchange!Next
  <2>4. CASE tokens # {}
    <3> DEFINE waiting == [Idle EXCEPT !.stage = "waiting", !.call = call]
    <3>1. client' = [client EXCEPT ![c] = waiting]
      BY <2>1, <2>4
    <3>2. waiting.stage = "waiting"
      BY DEF Idle
    <3> HIDE DEF waiting
    <3>3. DOMAIN client = Callers
      BY DEF WireInv, ClientInv
    <3>4. Told(waiting) = "nothing" /\ Told(client[c]) = "nothing"
      BY <2>2, <3>2, ToldFacts
    <3>5. client'[c] = waiting /\ \A d \in Callers : d # c => client'[d] = client[d]
      BY <3>1, <3>3
    <3>6. AllTold' = AllTold
      BY <3>4, <3>5 DEF AllTold
    <3> QED
      BY <2>2, <3>6 DEF Exchange!exchangeVars, AllTold
  <2> QED
    BY <2>3, <2>4
<1>3. ASSUME NEW c \in Callers, GiveUp(c) PROVE Exchange!Tell(c)
  <2> DEFINE end == Over(client[c].call, {}, FALSE)
  <2>1. /\ client[c].stage # "over" /\ client' = [client EXCEPT ![c] = end] /\ UNCHANGED served
        /\ end.stage = "over" /\ end.results = {}
    BY <1>3 DEF GiveUp, Waiting, Over
  <2> HIDE DEF end
  <2>2. Told(end) = "unknown"
    BY <2>1, ErrorsTellNothing, ToldFacts
  <2> QED
    BY <2>1, <2>2, TellStep
<1>4. ASSUME NEW m \in requests, Serve(m) PROVE [Exchange!Next]_(Exchange!exchangeVars)
  <2>1. (m.from \in Callers /\ Exchange!Make(m.from)) \/ UNCHANGED Exchange!exchangeVars
    BY <1>4, MakeStep
  <2> QED
    BY <2>1 DEF Exchange!Next
<1>5. ASSUME NEW a \in answers, Receive(a) PROVE Exchange!Next
  <2>1. a.to \in Callers /\ Exchange!Tell(a.to)
    BY <1>5, ReceiveTells DEF WireInv, AnswersInv, Waiting
  <2> QED
    BY <2>1 DEF Exchange!Next
<1>6. ASSUME NEW c \in Callers, GiveUp(c) PROVE Exchange!Next
  BY <1>3, <1>6 DEF Exchange!Next
<1>7. \/ UNCHANGED <<client, served>>
      \/ \E c \in Callers : Call(c) \/ GiveUp(c)
      \/ \E m \in requests : Serve(m)
      \/ \E a \in answers : Receive(a)
  BY DEF Next, vars, CallByHand, Disturb
<1> QED
  BY <1>1, <1>2, <1>4, <1>5, <1>6, <1>7

\* What the statuses tell holds always.
LEMMA TidingsInvariance == Spec => [](WireInv /\ ServerInv /\ TidingsInv)
<1>1. Init => TidingsInv
  BY DEF Init, TidingsInv
<1>2. WireInv /\ ServerInv /\ TidingsInv /\ [Next]_vars => TidingsInv'
  BY TidingsStep
<1> QED
  BY <1>1, <1>2, Invariance, PTL DEF Spec

\* The wire implements ApisExchange: an activity that is not tried again because it was refused
\* has created nothing and never will, and one that succeeds has created something.
THEOREM ExchangeIsKept == Spec => KeepsExchange
<1>1. Init => Exchange!Init
  <2> SUFFICES ASSUME Init PROVE Exchange!Init
    OBVIOUS
  <2>1. Made = {}
    BY DEF Init, Made
  <2>2. \A c \in Callers : Told(client[c]) = "nothing"
    <3>1. \A c \in Callers : client[c].stage = "idle"
      BY DEF Init, Idle
    <3> QED
      BY <3>1, ToldFacts
  <2> QED
    BY <2>1, <2>2 DEF Exchange!Init, Made
<1>2. WireInv /\ TidingsInv /\ [Next]_vars => [Exchange!Next]_(Exchange!exchangeVars)
  BY ExchangeStep
<1> QED
  BY <1>1, <1>2, TidingsInvariance, PTL DEF Spec, KeepsExchange, Exchange!Spec

-----------------------------------------------------------------------------
(* An answer is understood as what it is.                                   *)

\* No encoder writes a key twice.
LEMMA OrdersAreDistinct ==
  /\ Distinct(<<"checks", "status">>) /\ Distinct(<<"importTaskId">>) /\ Distinct(<<"importRunId">>)
  /\ Distinct(<<"status", "progressPercent", "importResult", "processedDocumentCount",
                "totalDocumentCount">>)
  /\ Distinct(<<"status", "analysisResult", "analysisProgressInPercent",
                "analysisErrorMessage", "importResult">>)
  /\ Distinct(<<"type", "title", "status", "detail", "instance">>)
<1>1. Distinct(<<"checks", "status">>)
  BY DEF Distinct
<1>2. Distinct(<<"importTaskId">>) /\ Distinct(<<"importRunId">>)
  BY DEF Distinct
<1>3. Distinct(<<"status", "progressPercent", "importResult", "processedDocumentCount",
                 "totalDocumentCount">>)
  BY DEF Distinct
<1>4. Distinct(<<"status", "analysisResult", "analysisProgressInPercent",
                 "analysisErrorMessage", "importResult">>)
  BY DEF Distinct
<1>5. Distinct(<<"type", "title", "status", "detail", "instance">>)
  BY DEF Distinct
<1> QED
  BY <1>1, <1>2, <1>3, <1>4, <1>5

\* What a problem holds comes back from its encoding.
LEMMA ProblemsComeBack ==
  ASSUME NEW type, NEW status, NEW detail, NEW v, v = Problem(type, status, detail).value
  PROVE  Decode(ProblemDetails, EncodeProblemDetails(v)) = {v}
<1> DEFINE order == <<"type", "title", "status", "detail", "instance">>
<1>1. v = [status |-> Int32Value(status), title |-> Str(type), detail |-> Str(detail)]
  BY StatusFacts DEF Problem
<1>2. IsFields(v) /\ DOMAIN v = {"status", "title", "detail"}
  BY <1>1 DEF IsFields
<1>3. v["status"][1] = "int32" /\ v["title"][1] = "string" /\ v["detail"][1] = "string"
  BY <1>1 DEF Int32Value, Str
<1>4. /\ "int32" \in TypeOf(ProblemDetails, "status")
      /\ "string" \in TypeOf(ProblemDetails, "title") /\ "string" \in TypeOf(ProblemDetails, "detail")
      /\ ProblemDetails.required = {}
  BY DEF TypeOf, ProblemDetails, OptNilString, OptNilInt32, Nil, String, Int32
<1>5. \A k \in DOMAIN v : v[k][1] \in TypeOf(ProblemDetails, k)
  BY <1>2, <1>3, <1>4
<1>6. Len(order) = 5 /\ order[2] = "title" /\ order[3] = "status" /\ order[4] = "detail"
  OBVIOUS
<1> HIDE DEF order
<1>7. \A k \in DOMAIN v : \E i \in 1..Len(order) : order[i] = k
  BY <1>2, <1>6
<1>8. Distinct(order)
  BY OrdersAreDistinct DEF order
<1>9. Decode(ProblemDetails, Encode(v, order)) = {v}
  BY <1>2, <1>4, <1>5, <1>6, <1>7, <1>8, RoundTrip
<1> QED
  BY <1>9 DEF EncodeProblemDetails, order

\* A problem the operation knows is understood, in the media type it is sent in.
LEMMA ProblemIsUnderstood ==
  ASSUME NEW type \in DOMAIN ProblemStatus, NEW status, NEW detail, NEW contentType, NEW problems,
         ProblemStatus[type] \in DOMAIN problems, problems[ProblemStatus[type]] = type
  PROVE  LET res == Problem(type, status, detail) IN
           UnderstandProblem(EncodeProblem(res, contentType), contentType, problems) = {res}
<1> DEFINE res == Problem(type, status, detail)
           a   == EncodeProblem(res, contentType)
<1>1. res.type = type /\ res = Typed(type, res.value)
  BY StatusFacts DEF Problem
<1>2. /\ a.status = ProblemStatus[type] /\ a.contentType = contentType
      /\ a.body = {EncodeProblemDetails(res.value)}
  BY <1>1, StatusFacts DEF EncodeProblem
<1>3. Decode(ProblemDetails, EncodeProblemDetails(res.value)) = {res.value}
  BY ProblemsComeBack
<1> HIDE DEF a, res
<1>4. BodyOf(a, ProblemDetails) = {res.value}
  BY <1>2, <1>3 DEF BodyOf
<1>5. UnderstandProblem(a, contentType, problems) = {Typed(type, res.value)}
  BY <1>2, <1>4 DEF UnderstandProblem, Understand
<1> QED
  BY <1>1, <1>5 DEF a, res

\* An ID comes back.
LEMMA IDsComeBack ==
  ASSUME NEW id
  PROVE  /\ LET v == [importTaskId |-> Str(id)] IN
              Decode(CreateImportTaskResponse, EncodeCreateImportTaskResponse(v)) = {v}
         /\ LET v == [importRunId |-> Str(id)] IN
              Decode(CreateImportRunResponse, EncodeCreateImportRunResponse(v)) = {v}
<1>1. ASSUME NEW key, NEW m,
             \/ m = CreateImportTaskResponse /\ key = "importTaskId"
             \/ m = CreateImportRunResponse /\ key = "importRunId",
             NEW v, v = [k \in {key} |-> Str(id)]
      PROVE  Decode(m, Encode(v, <<key>>)) = {v}
  <2>1. /\ TypeOf(m, key) = String /\ m.required = {key}
    BY <1>1 DEF TypeOf, CreateImportTaskResponse, CreateImportRunResponse, Message
  <2>2. IsFields(v) /\ DOMAIN v = {key} /\ v[key][1] = "string"
    BY <1>1 DEF IsFields, Str
  <2>3. Len(<<key>>) = 1 /\ <<key>>[1] = key /\ Distinct(<<key>>)
    BY DEF Distinct
  <2>4. \A k \in DOMAIN v : \E i \in 1..Len(<<key>>) : <<key>>[i] = k
    BY <2>2, <2>3
  <2>5. \A k \in DOMAIN v : v[k][1] \in TypeOf(m, k)
    BY <2>1, <2>2 DEF String
  <2> QED
    BY <2>1, <2>2, <2>3, <2>4, <2>5, RoundTrip
<1>2. /\ [importTaskId |-> Str(id)] = [k \in {"importTaskId"} |-> Str(id)]
      /\ [importRunId |-> Str(id)] = [k \in {"importRunId"} |-> Str(id)]
  OBVIOUS
<1> QED
  BY <1>1, <1>2 DEF EncodeCreateImportTaskResponse, EncodeCreateImportRunResponse

\* What the status of a task is told as.
StatusValue(t) ==
  LET told == StatusResponse(t) IN [k \in {key \in DOMAIN told : told[key] # "none"} |-> Str(told[k])]

\* The fields a status is told with, and their values.
LEMMA StatusValueFacts ==
  ASSUME NEW t, TaskRecord(t)
  PROVE  LET v == StatusValue(t) IN
           /\ IsFields(v) /\ "status" \in DOMAIN v
           /\ DOMAIN v \subseteq {"status", "analysisResult", "importResult"}
           /\ "analysisResult" \in DOMAIN v <=> t.analysisDone
           /\ "importResult" \in DOMAIN v <=> t.importDone
           /\ v["status"] = Str(t.status)
           /\ t.analysisDone => v["analysisResult"] = Str(t.analysisResult)
           /\ t.importDone => v["importResult"] = Str(t.importResult)
<1> DEFINE told == StatusResponse(t)
           v == StatusValue(t)
<1>1. t \in TaskState
  BY DEF TaskRecord
<1>2. /\ t.status # "none" /\ t.analysisResult # "none" /\ t.importResult # "none"
      /\ t.analysisDone \in BOOLEAN /\ t.importDone \in BOOLEAN
  BY <1>1 DEF TaskState, Statuses, AnalysisResults, ImportResults
<1>3. /\ DOMAIN told = {"status", "analysisResult", "importResult"} /\ told["status"] = t.status
      /\ told["analysisResult"] = IF t.analysisDone THEN t.analysisResult ELSE "none"
      /\ told["importResult"] = IF t.importDone THEN t.importResult ELSE "none"
  BY DEF StatusResponse
<1> HIDE DEF told
<1>4. /\ DOMAIN v = {key \in DOMAIN told : told[key] # "none"}
      /\ \A k \in DOMAIN v : v[k] = Str(told[k])
      /\ IsFields(v)
  BY DEF told, StatusValue, IsFields
<1> HIDE DEF v
<1>5. "status" \in DOMAIN v /\ ("analysisResult" \in DOMAIN v <=> t.analysisDone)
      /\ ("importResult" \in DOMAIN v <=> t.importDone)
  BY <1>2, <1>3, <1>4
<1> QED
  BY <1>3, <1>4, <1>5 DEF v

\* The status of a task comes back, and is valid.
LEMMA StatusComesBack ==
  ASSUME NEW t, TaskRecord(t)
  PROVE  LET v == StatusValue(t) IN
           /\ Decode(ImportTaskStatusResponse, EncodeImportTaskStatusResponse(v)) = {v}
           /\ ValidateImportTaskStatusResponse(v)
<1> DEFINE v == StatusValue(t)
           m == ImportTaskStatusResponse
           order == <<"status", "analysisResult", "analysisProgressInPercent",
                      "analysisErrorMessage", "importResult">>
<1>1. /\ IsFields(v) /\ "status" \in DOMAIN v
      /\ DOMAIN v \subseteq {"status", "analysisResult", "importResult"}
      /\ "analysisResult" \in DOMAIN v <=> t.analysisDone
      /\ "importResult" \in DOMAIN v <=> t.importDone
      /\ v["status"] = Str(t.status)
      /\ t.analysisDone => v["analysisResult"] = Str(t.analysisResult)
      /\ t.importDone => v["importResult"] = Str(t.importResult)
  BY StatusValueFacts
<1>2. /\ t.status \in Statuses /\ t.analysisResult \in AnalysisResults
      /\ t.importResult \in ImportResults
  BY RecordFacts DEF TaskRecord
<1>3. \A s : Str(s)[1] = "string" /\ Str(s)[2] = s
  BY DEF Str
<1>4. /\ TypeOf(m, "status") = ImportTaskStatus
      /\ TypeOf(m, "analysisResult") = OptNilAnalysisResult
      /\ TypeOf(m, "importResult") = OptNilImportResult
      /\ m.required = {"status"}
  BY DEF TypeOf, ImportTaskStatusResponse, Message
<1>5. "string" \in ImportTaskStatus /\ "string" \in OptNilAnalysisResult /\ "string" \in OptNilImportResult
  BY DEF ImportTaskStatus, OptNilAnalysisResult, OptNilImportResult, Nil, String, AnalysisResult, ImportResult
<1>6. Len(order) = 5 /\ order[1] = "status" /\ order[2] = "analysisResult" /\ order[5] = "importResult"
  OBVIOUS
<1>7. Distinct(order)
  BY OrdersAreDistinct
<1> HIDE DEF v, m, order
<1>8. \A k \in DOMAIN v : \E i \in 1..Len(order) : order[i] = k
  BY <1>1, <1>6
<1>9. \A k \in DOMAIN v : v[k][1] \in TypeOf(m, k)
  BY <1>1, <1>3, <1>4, <1>5
<1>10. Decode(m, Encode(v, order)) = {v}
  BY <1>1, <1>4, <1>6, <1>7, <1>8, <1>9, RoundTrip
<1>11. \A k \in DOMAIN v : Get(v, k) \subseteq {v[k][2]}
  BY DEF Get
<1>12. \A k : k \notin DOMAIN v => Get(v, k) = {}
  BY DEF Get
<1>13. Statuses \subseteq ValidImportTaskStatus /\ AnalysisResults \subseteq ValidAnalysisResult
       /\ ImportResults \subseteq ValidImportResult
  BY DEF Statuses, ValidImportTaskStatus, AnalysisResults, ValidAnalysisResult, ImportResults, ValidImportResult
<1>14. /\ Get(v, "status") \subseteq ValidImportTaskStatus
       /\ Get(v, "analysisResult") \subseteq ValidAnalysisResult
       /\ Get(v, "importResult") \subseteq ValidImportResult
  BY <1>1, <1>2, <1>3, <1>11, <1>12, <1>13
<1> QED
  BY <1>10, <1>14 DEF v, m, order, EncodeImportTaskStatusResponse, ValidateImportTaskStatusResponse

\* What the status of a run is told as.
RunValue(t) ==
  IF t.status = "Importiert"
  THEN [status |-> Str(RunStatus(t)), importResult |-> Str(t.importResult)]
  ELSE [status |-> Str(RunStatus(t))]

\* The status of a run comes back, and is valid.
LEMMA RunStatusComesBack ==
  ASSUME NEW t, TaskRecord(t)
  PROVE  LET v == RunValue(t) IN
           /\ Decode(ImportRunStatusResponse, EncodeImportRunStatusResponse(v)) = {v}
           /\ ValidateImportRunStatusResponse(v)
<1> DEFINE v == RunValue(t)
           m == ImportRunStatusResponse
           order == <<"status", "progressPercent", "importResult", "processedDocumentCount",
                      "totalDocumentCount">>
<1>1. \A s : Str(s)[1] = "string" /\ Str(s)[2] = s
  BY DEF Str
<1>2. /\ IsFields(v) /\ "status" \in DOMAIN v /\ DOMAIN v \subseteq {"status", "importResult"}
      /\ v["status"] = Str(RunStatus(t))
      /\ "importResult" \in DOMAIN v => v["importResult"] = Str(t.importResult)
  BY DEF RunValue, IsFields
<1>3. RunStatus(t) \in ValidImportStatus
  <2>1. RunStatus(t) \in {"Canceled", "Started", "Failed", "Completed", "Created"}
    <3>1. \/ RunStatus(t) = "Canceled" \/ RunStatus(t) = "Started" \/ RunStatus(t) = "Failed"
          \/ RunStatus(t) = "Completed" \/ RunStatus(t) = "Created"
      BY Zenon DEF RunStatus
    <3> QED
      BY <3>1
  <2> QED
    BY <2>1 DEF ValidImportStatus
<1>4. t.importResult \in ValidImportResult
  BY RecordFacts DEF TaskRecord, ImportResults, ValidImportResult
<1>5. /\ TypeOf(m, "status") = ImportStatus /\ TypeOf(m, "importResult") = OptNilImportResult
      /\ m.required = {"status"}
  BY DEF TypeOf, ImportRunStatusResponse, Message
<1>6. "string" \in ImportStatus /\ "string" \in OptNilImportResult
  BY DEF ImportStatus, OptNilImportResult, Nil, String, ImportResult
<1>7. Len(order) = 5 /\ order[1] = "status" /\ order[3] = "importResult"
  OBVIOUS
<1>8. Distinct(order)
  BY OrdersAreDistinct
<1> HIDE DEF v, m, order
<1>9. \A k \in DOMAIN v : \E i \in 1..Len(order) : order[i] = k
  BY <1>2, <1>7
<1>10. \A k \in DOMAIN v : v[k][1] \in TypeOf(m, k)
  BY <1>1, <1>2, <1>5, <1>6
<1>11. Decode(m, Encode(v, order)) = {v}
  BY <1>2, <1>5, <1>7, <1>8, <1>9, <1>10, RoundTrip
<1>12. /\ \A k \in DOMAIN v : Get(v, k) \subseteq {v[k][2]}
       /\ \A k : k \notin DOMAIN v => Get(v, k) = {}
  BY DEF Get
<1>13. Get(v, "status") \subseteq ValidImportStatus /\ Get(v, "importResult") \subseteq ValidImportResult
  BY <1>1, <1>2, <1>3, <1>4, <1>12
<1> QED
  BY <1>11, <1>13 DEF v, m, order, EncodeImportRunStatusResponse, ValidateImportRunStatusResponse

\* So does the health of the server.
LEMMA HealthComesBack ==
  ASSUME NEW v, v = HealthzReply.value
  PROVE  DecodeHealthStatusResult(EncodeHealthStatusResult(v)) = {v}
<1> DEFINE m     == HealthStatusResult
           order == <<"checks", "status">>
<1>1. v = [status |-> Str("OK")]
  BY StatusFacts DEF HealthzReply
<1>2. IsFields(v) /\ DOMAIN v = {"status"} /\ v["status"][1] = "string"
  BY <1>1 DEF IsFields, Str
<1>3. TypeOf(m, "status") = String /\ m.required = {"status"} /\ "string" \in String
  BY DEF TypeOf, HealthStatusResult, Message, String
<1>4. Len(order) = 2 /\ order[2] = "status" /\ Distinct(order)
  BY OrdersAreDistinct
<1> HIDE DEF m, order
<1>5. \A k \in DOMAIN v : \E i \in 1..Len(order) : order[i] = k
  BY <1>2, <1>4
<1>6. \A k \in DOMAIN v : v[k][1] \in TypeOf(m, k)
  BY <1>2, <1>3
<1>7. Decode(m, Encode(v, order)) = {v}
  BY <1>2, <1>3, <1>4, <1>5, <1>6, RoundTrip
<1>8. Get(v, "checks") = {}
  BY <1>2 DEF Get
<1> QED
  BY <1>7, <1>8 DEF DecodeHealthStatusResult, EncodeHealthStatusResult, m, order

\* The problems each operation of the mock reports.
ProblemsOf(op) ==
  [healthz |-> {}, importtasks |-> {}, cancel |-> {"NotFound", "Conflict"},
   importruns |-> {"NotFound", "BadRequest"}, runstatus |-> {"NotFound"}, status |-> {"NotFound"}][op]

\* What the server has told goes on to hold.
HoldsProblem(inv, res) ==
  \E type \in ProblemsOf(inv.op) : \E detail :
    /\ res = Problem(type, ProblemStatus[type], detail)
    /\ type = "Conflict" => \E n \in TaskOf(inv.id) : tasks[n].status = "Importiert"
HoldsTask(res) ==
  \E n \in Known : res = Typed("CreateImportTaskResponse", [importTaskId |-> Str(TaskIDs[n])])
HoldsCanceled(inv, res) ==
  res = Typed("NoContent", <<>>) /\ \E n \in TaskOf(inv.id) : tasks[n].status = "Abgebrochen"
HoldsRun(inv, res) ==
  \E n \in TaskOf(inv.id) :
    /\ tasks[n].run # NoRun
    /\ res = Typed("CreateImportRunResponse", [importRunId |-> Str(RunIDs[tasks[n].run])])
HoldsRunStatus(res) ==
  \E t : TaskRecord(t) /\ res = Typed("ImportRunStatusResponse", RunValue(t))
HoldsStatus(inv, res) ==
  \E n \in TaskOf(inv.id) : \E t :
    TaskRecord(t) /\ Follows(t, tasks[n]) /\ res = Typed("ImportTaskStatusResponse", StatusValue(t))

Holds(inv, res) ==
  \/ inv.op \in {"cancel", "importruns", "runstatus", "status"} /\ HoldsProblem(inv, res)
  \/ inv.op = "healthz" /\ res = HealthzReply
  \/ inv.op = "importtasks" /\ HoldsTask(res)
  \/ inv.op = "cancel" /\ HoldsCanceled(inv, res)
  \/ inv.op = "importruns" /\ HoldsRun(inv, res)
  \/ inv.op = "runstatus" /\ HoldsRunStatus(res)
  \/ inv.op = "status" /\ HoldsStatus(inv, res)

\* The encoders and the decoders, by operation.
LEMMA ByOperation ==
  ASSUME NEW op, NEW res, NEW a
  PROVE  /\ op = "healthz" => /\ EncodeResponse(op, res) = EncodeHealthzResponse(res)
                              /\ DecodeResponse(op, a) = DecodeHealthzResponse(a)
         /\ op = "importtasks" => /\ EncodeResponse(op, res) = EncodeImporttasksResponse(res)
                                  /\ DecodeResponse(op, a) = DecodeImporttasksResponse(a)
         /\ op = "cancel" => /\ EncodeResponse(op, res) = EncodeCancelResponse(res)
                             /\ DecodeResponse(op, a) = DecodeCancelResponse(a)
         /\ op = "importruns" => /\ EncodeResponse(op, res) = EncodeImportrunsResponse(res)
                                 /\ DecodeResponse(op, a) = DecodeImportrunsResponse(a)
         /\ op = "runstatus" => /\ EncodeResponse(op, res) = EncodeRunStatusResponse(res)
                                /\ DecodeResponse(op, a) = DecodeRunStatusResponse(a)
         /\ op = "status" => /\ EncodeResponse(op, res) = EncodeStatusResponse(res)
                             /\ DecodeResponse(op, a) = DecodeStatusResponse(a)
<1>1. /\ op = "healthz" => EncodeResponse(op, res) = EncodeHealthzResponse(res)
      /\ op = "importtasks" => EncodeResponse(op, res) = EncodeImporttasksResponse(res)
      /\ op = "cancel" => EncodeResponse(op, res) = EncodeCancelResponse(res)
      /\ op = "importruns" => EncodeResponse(op, res) = EncodeImportrunsResponse(res)
      /\ op = "runstatus" => EncodeResponse(op, res) = EncodeRunStatusResponse(res)
      /\ op = "status" => EncodeResponse(op, res) = EncodeStatusResponse(res)
  BY Zenon DEF EncodeResponse
<1>2. /\ op = "healthz" => DecodeResponse(op, a) = DecodeHealthzResponse(a)
      /\ op = "importtasks" => DecodeResponse(op, a) = DecodeImporttasksResponse(a)
      /\ op = "cancel" => DecodeResponse(op, a) = DecodeCancelResponse(a)
      /\ op = "importruns" => DecodeResponse(op, a) = DecodeImportrunsResponse(a)
      /\ op = "runstatus" => DecodeResponse(op, a) = DecodeRunStatusResponse(a)
      /\ op = "status" => DecodeResponse(op, a) = DecodeStatusResponse(a)
  BY Zenon DEF DecodeResponse
<1> QED
  BY <1>1, <1>2

\* The type each table gives the status of a problem.
LEMMA ProblemTables ==
  /\ \A type \in {"NotFound", "Conflict"} :
       ProblemStatus[type] \in DOMAIN CancelProblems /\ CancelProblems[ProblemStatus[type]] = type
  /\ \A type \in {"NotFound", "BadRequest"} :
       ProblemStatus[type] \in DOMAIN ImportrunsProblems /\ ImportrunsProblems[ProblemStatus[type]] = type
  /\ ProblemStatus["NotFound"] \in DOMAIN RunStatusProblems
  /\ RunStatusProblems[ProblemStatus["NotFound"]] = "NotFound"
  /\ ProblemStatus["NotFound"] \in DOMAIN StatusProblems
  /\ StatusProblems[ProblemStatus["NotFound"]] = "NotFound"
  /\ {"NotFound", "Conflict", "BadRequest"} \subseteq DOMAIN ProblemStatus
<1>1. /\ ProblemStatus["NotFound"] = 404 /\ ProblemStatus["Conflict"] = 409
      /\ ProblemStatus["BadRequest"] = 400
      /\ {"NotFound", "Conflict", "BadRequest"} \subseteq DOMAIN ProblemStatus
  BY DEF ProblemStatus
<1>2. ProblemType(404) = "NotFound" /\ ProblemType(409) = "Conflict" /\ ProblemType(400) = "BadRequest"
  <2>1. ASSUME NEW status
        PROVE  /\ status = 404 => ProblemType(status) = "NotFound"
               /\ status = 409 => ProblemType(status) = "Conflict"
               /\ status = 400 => ProblemType(status) = "BadRequest"
    <3>1. /\ status = 404 => status # 400 /\ status # 401 /\ status # 409 /\ status # 415 /\ status # 500
          /\ status = 409 => status # 400 /\ status # 401 /\ status # 404 /\ status # 415 /\ status # 500
          /\ status = 400 => status # 404 /\ status # 401 /\ status # 409 /\ status # 415 /\ status # 500
      OBVIOUS
    <3> QED
      BY <3>1, ZenonT(60) DEF ProblemType
  <2> QED
    BY <2>1
<1> QED
  BY <1>1, <1>2 DEF CancelProblems, ImportrunsProblems, RunStatusProblems, StatusProblems, Problems

\* A problem of one of the mock's operations is understood.
LEMMA ProblemsAreUnderstood ==
  ASSUME NEW op, op \in {"cancel", "importruns", "runstatus", "status"},
         NEW type \in ProblemsOf(op), NEW detail, NEW res,
         res = Problem(type, ProblemStatus[type], detail)
  PROVE  /\ DecodeResponse(op, EncodeResponse(op, res)) = {res}
         /\ EncodeResponse(op, res).status = ProblemStatus[type]
         /\ EncodeResponse(op, res).body = {EncodeProblemDetails(res.value)}
<1>1. res.type = type
  BY ProblemFacts, StatusFacts DEF Problem
<1>2. \A contentType : /\ EncodeProblem(res, contentType).status = ProblemStatus[type]
                       /\ EncodeProblem(res, contentType).body = {EncodeProblemDetails(res.value)}
  BY <1>1, StatusFacts DEF EncodeProblem
<1>3. ASSUME NEW contentType, NEW problems,
             ProblemStatus[type] \in DOMAIN problems, problems[ProblemStatus[type]] = type,
             type \in DOMAIN ProblemStatus
      PROVE  UnderstandProblem(EncodeProblem(res, contentType), contentType, problems) = {res}
  BY <1>3, ProblemIsUnderstood
<1>4. /\ type \in {"NotFound", "Conflict", "BadRequest"} /\ type \in DOMAIN ProblemStatus
      /\ op = "cancel" => type \in {"NotFound", "Conflict"}
      /\ op = "importruns" => type \in {"NotFound", "BadRequest"}
      /\ op \in {"runstatus", "status"} => type = "NotFound"
  BY ProblemTables DEF ProblemsOf
<1>5. ProblemStatus[type] \in {400, 404, 409}
  BY <1>4 DEF ProblemStatus
<1>6. CASE op = "cancel"
  <2>1. EncodeResponse(op, res) = EncodeProblem(res, JSON)
    BY <1>1, <1>4, <1>6, ByOperation DEF EncodeCancelResponse
  <2>2. \A a : a.status # 204 => DecodeResponse(op, a) = UnderstandProblem(a, JSON, CancelProblems)
    BY <1>6, ByOperation DEF DecodeCancelResponse
  <2>3. UnderstandProblem(EncodeProblem(res, JSON), JSON, CancelProblems) = {res}
    BY <1>3, <1>4, <1>6, ProblemTables
  <2> QED
    BY <1>2, <1>5, <2>1, <2>2, <2>3
<1>7. CASE op = "importruns"
  <2>1. EncodeResponse(op, res) = EncodeProblem(res, ProblemJSON)
    BY <1>1, <1>4, <1>7, ByOperation DEF EncodeImportrunsResponse
  <2>2. \A a : a.status # 201 => DecodeResponse(op, a) = UnderstandProblem(a, ProblemJSON, ImportrunsProblems)
    BY <1>7, ByOperation DEF DecodeImportrunsResponse
  <2>3. UnderstandProblem(EncodeProblem(res, ProblemJSON), ProblemJSON, ImportrunsProblems) = {res}
    BY <1>3, <1>4, <1>7, ProblemTables
  <2> QED
    BY <1>2, <1>5, <2>1, <2>2, <2>3
<1>8. CASE op = "runstatus"
  <2>1. EncodeResponse(op, res) = EncodeProblem(res, JSON)
    BY <1>1, <1>4, <1>8, ByOperation DEF EncodeRunStatusResponse
  <2>2. \A a : a.status # 200 => DecodeResponse(op, a) = UnderstandProblem(a, JSON, RunStatusProblems)
    BY <1>8, ByOperation DEF DecodeRunStatusResponse
  <2>3. UnderstandProblem(EncodeProblem(res, JSON), JSON, RunStatusProblems) = {res}
    BY <1>3, <1>4, <1>8, ProblemTables
  <2> QED
    BY <1>2, <1>5, <2>1, <2>2, <2>3
<1>9. CASE op = "status"
  <2>1. EncodeResponse(op, res) = EncodeProblem(res, JSON)
    BY <1>1, <1>4, <1>9, ByOperation DEF EncodeStatusResponse
  <2>2. \A a : a.status # 200 => DecodeResponse(op, a) = UnderstandProblem(a, JSON, StatusProblems)
    BY <1>9, ByOperation DEF DecodeStatusResponse
  <2>3. UnderstandProblem(EncodeProblem(res, JSON), JSON, StatusProblems) = {res}
    BY <1>3, <1>4, <1>9, ProblemTables
  <2> QED
    BY <1>2, <1>5, <2>1, <2>2, <2>3
<1> QED
  BY <1>6, <1>7, <1>8, <1>9

\* What the server has told is understood as what it is.
LEMMA Understood ==
  ASSUME NEW inv, NEW res, Holds(inv, res)
  PROVE  DecodeResponse(inv.op, EncodeResponse(inv.op, res)) = {res}
<1> DEFINE op == inv.op
           a  == EncodeResponse(op, res)
<1>0. /\ op = "healthz" => a = EncodeHealthzResponse(res)
      /\ op = "importtasks" => a = EncodeImporttasksResponse(res)
      /\ op = "cancel" => a = EncodeCancelResponse(res)
      /\ op = "importruns" => a = EncodeImportrunsResponse(res)
      /\ op = "runstatus" => a = EncodeRunStatusResponse(res)
      /\ op = "status" => a = EncodeStatusResponse(res)
  BY ByOperation
<1>1. CASE op \in {"cancel", "importruns", "runstatus", "status"} /\ HoldsProblem(inv, res)
  BY <1>1, ProblemsAreUnderstood DEF HoldsProblem
<1>2. CASE op = "healthz" /\ res = HealthzReply
  <2>1. res.type = "OK" /\ res = Typed("OK", res.value)
    BY <1>2, StatusFacts DEF HealthzReply
  <2>2. a.status = 200 /\ a.contentType = JSON /\ a.body = {EncodeHealthStatusResult(res.value)}
    BY <1>2, <2>1, <1>0, StatusFacts DEF EncodeHealthzResponse
  <2>3. DecodeHealthStatusResult(EncodeHealthStatusResult(res.value)) = {res.value}
    BY <1>2, HealthComesBack
  <2>4. HealthzResults[200] = "OK" /\ 200 \in DOMAIN HealthzResults
    BY DEF HealthzResults
  <2> HIDE DEF a
  <2>5. DecodeHealthzResponse(a) = {Typed("OK", res.value)}
    BY <2>2, <2>3, <2>4 DEF DecodeHealthzResponse, Understand
  <2> QED
    BY <1>2, <2>1, <2>5, ByOperation DEF a
<1>3. CASE op = "importtasks" /\ HoldsTask(res)
  <2>1. PICK n : res = Typed("CreateImportTaskResponse", [importTaskId |-> Str(TaskIDs[n])])
    BY <1>3 DEF HoldsTask
  <2> DEFINE v == [importTaskId |-> Str(TaskIDs[n])]
  <2>2. res.type = "CreateImportTaskResponse" /\ res.value = v
    BY <2>1, StatusFacts
  <2>3. a.status = 201 /\ a.contentType = JSON /\ a.body = {EncodeCreateImportTaskResponse(v)}
    BY <1>3, <2>2, <1>0, StatusFacts DEF EncodeImporttasksResponse
  <2>4. Decode(CreateImportTaskResponse, EncodeCreateImportTaskResponse(v)) = {v}
    BY IDsComeBack
  <2> HIDE DEF a, v
  <2>5. DecodeImporttasksResponse(a) = {Typed("CreateImportTaskResponse", v)}
    BY <2>3, <2>4 DEF DecodeImporttasksResponse, Understand, BodyOf
  <2> QED
    BY <1>3, <2>1, <2>5, ByOperation DEF a, v
<1>4. CASE op = "cancel" /\ HoldsCanceled(inv, res)
  <2>1. res = Typed("NoContent", <<>>) /\ res.type = "NoContent"
    BY <1>4, StatusFacts DEF HoldsCanceled
  <2>2. a.status = 204
    BY <1>4, <2>1, <1>0, StatusFacts DEF EncodeCancelResponse
  <2> HIDE DEF a
  <2>3. DecodeCancelResponse(a) = {Typed("NoContent", <<>>)}
    BY <2>2 DEF DecodeCancelResponse
  <2> QED
    BY <1>4, <2>1, <2>3, ByOperation DEF a
<1>5. CASE op = "importruns" /\ HoldsRun(inv, res)
  <2>1. PICK id : res = Typed("CreateImportRunResponse", [importRunId |-> Str(id)])
    BY <1>5 DEF HoldsRun
  <2> DEFINE v == [importRunId |-> Str(id)]
  <2>2. res.type = "CreateImportRunResponse" /\ res.value = v
    BY <2>1, StatusFacts
  <2>3. a.status = 201 /\ a.contentType = JSON /\ a.body = {EncodeCreateImportRunResponse(v)}
    BY <1>5, <2>2, <1>0, StatusFacts DEF EncodeImportrunsResponse
  <2>4. Decode(CreateImportRunResponse, EncodeCreateImportRunResponse(v)) = {v}
    BY IDsComeBack
  <2> HIDE DEF a, v
  <2>5. DecodeImportrunsResponse(a) = {Typed("CreateImportRunResponse", v)}
    BY <2>3, <2>4 DEF DecodeImportrunsResponse, Understand, BodyOf
  <2> QED
    BY <1>5, <2>1, <2>5, ByOperation DEF a, v
<1>6. CASE op = "runstatus" /\ HoldsRunStatus(res)
  <2>1. PICK t : TaskRecord(t) /\ res = Typed("ImportRunStatusResponse", RunValue(t))
    BY <1>6 DEF HoldsRunStatus
  <2> DEFINE v == RunValue(t)
  <2>2. res.type = "ImportRunStatusResponse" /\ res.value = v
    BY <2>1, StatusFacts
  <2>3. a.status = 200 /\ a.contentType = JSON /\ a.body = {EncodeImportRunStatusResponse(v)}
    BY <1>6, <2>2, <1>0, StatusFacts DEF EncodeRunStatusResponse
  <2>4. /\ Decode(ImportRunStatusResponse, EncodeImportRunStatusResponse(v)) = {v}
        /\ ValidateImportRunStatusResponse(v)
    BY <2>1, RunStatusComesBack
  <2> HIDE DEF a, v
  <2>5. BodyOf(a, ImportRunStatusResponse) = {v}
    BY <2>3, <2>4 DEF BodyOf
  <2>6. DecodeRunStatusResponse(a) = {Typed("ImportRunStatusResponse", v)}
    BY <2>3, <2>4, <2>5 DEF DecodeRunStatusResponse, Understand
  <2> QED
    BY <1>6, <2>1, <2>6, ByOperation DEF a, v
<1>7. CASE op = "status" /\ HoldsStatus(inv, res)
  <2>1. PICK t : TaskRecord(t) /\ res = Typed("ImportTaskStatusResponse", StatusValue(t))
    BY <1>7 DEF HoldsStatus
  <2> DEFINE v == StatusValue(t)
  <2>2. res.type = "ImportTaskStatusResponse" /\ res.value = v
    BY <2>1, StatusFacts
  <2>3. a.status = 200 /\ a.contentType = JSON /\ a.body = {EncodeImportTaskStatusResponse(v)}
    BY <1>7, <2>2, <1>0, StatusFacts DEF EncodeStatusResponse
  <2>4. /\ Decode(ImportTaskStatusResponse, EncodeImportTaskStatusResponse(v)) = {v}
        /\ ValidateImportTaskStatusResponse(v)
    BY <2>1, StatusComesBack
  <2> HIDE DEF a, v
  <2>5. BodyOf(a, ImportTaskStatusResponse) = {v}
    BY <2>3, <2>4 DEF BodyOf
  <2>6. DecodeStatusResponse(a) = {Typed("ImportTaskStatusResponse", v)}
    BY <2>3, <2>4, <2>5 DEF DecodeStatusResponse, Understand
  <2> QED
    BY <1>7, <2>1, <2>6, ByOperation DEF a, v
<1> QED
  BY <1>1, <1>2, <1>3, <1>4, <1>5, <1>6, <1>7 DEF Holds

\* What the refusal of a token is read as.
LEMMA RefusalIsUnderstood ==
  ASSUME NEW op \in Operations, NEW inv, inv.refusal = 401
  PROVE  LET read == DecodeResponse(op, Refusal(inv)) IN
           /\ op \in {"importruns", "healthz"} => read = {}
           /\ op \notin {"importruns", "healthz"} => \E v : read = {Typed("Unauthorized", v)}
<1> DEFINE a == Refusal(inv)
           json == <<<<"error_message", Str("refused")>>>>
           v == [k \in {"error_message"} |-> Str("refused")]
<1>1. a.status = 401 /\ a.contentType = JSON /\ a.body = {json}
  BY RefusalStatus, StatusFacts DEF ErrorHandler
<1>2. Decode(ProblemDetails, json) = {v}
  <2>1. Len(json) = 1 /\ json[1][1] = "error_message" /\ json[1][2] = Str("refused") /\ Str("refused")[1] = "string"
    BY DEF Str
  <2>2. TypeOf(ProblemDetails, "error_message") = ProblemDetailsAdditional /\ ProblemDetails.required = {}
    BY DEF TypeOf, ProblemDetails
  <2>3. Fits(ProblemDetails, json, 1)
    BY <2>1, <2>2 DEF Fits, ProblemDetailsAdditional
  <2> HIDE DEF json
  <2>4. v = [k \in DOMAIN v |-> v[k]] /\ DOMAIN v = {"error_message"} /\ v["error_message"] = Str("refused")
    OBVIOUS
  <2>5. IsLast(json, 1, "error_message", 1)
    BY <2>1 DEF IsLast
  <2> HIDE DEF v
  <2>6. {json[i][1] : i \in 1..1} = {"error_message"}
    BY <2>1
  <2>7. Says(v, json, 1)
    BY <2>1, <2>4, <2>5, <2>6 DEF Says
  <2> QED
    <3>1. Len(json) \in Nat /\ Fits(ProblemDetails, json, Len(json)) /\ Says(v, json, Len(json))
      BY <2>1, <2>3, <2>7
    <3>2. ProblemDetails.required \subseteq DOMAIN v
      BY <2>2
    <3> QED
      BY <3>1, <3>2, DecodeSays
<1> HIDE DEF a, json, v
<1>3. ASSUME NEW problems, 401 \in DOMAIN problems, problems[401] = "Unauthorized"
      PROVE  UnderstandProblem(a, JSON, problems) = {Typed("Unauthorized", v)}
  <2>1. BodyOf(a, ProblemDetails) = {v}
    BY <1>1, <1>2 DEF BodyOf
  <2> QED
    BY <1>1, <1>3, <2>1 DEF UnderstandProblem, Understand
<1>4. ASSUME NEW problems, NEW statuses, 401 \in statuses, problems = Problems(statuses)
      PROVE  401 \in DOMAIN problems /\ problems[401] = "Unauthorized"
  <2>1. ProblemType(401) = "Unauthorized"
    <3>1. ASSUME NEW status PROVE status = 401 => ProblemType(status) = "Unauthorized"
      <4>1. status = 401 => /\ status # 400 /\ status # 404 /\ status # 409
                            /\ status # 415 /\ status # 500
        OBVIOUS
      <4> QED
        BY <4>1, ZenonT(60) DEF ProblemType
    <3> QED
      BY <3>1
  <2> QED
    BY <1>4, <2>1 DEF Problems
<1>5. CASE op = "healthz"
  <2>1. 401 \notin DOMAIN HealthzResults
    BY DEF HealthzResults
  <2>2. DecodeHealthzResponse(a) = {}
    BY <1>1, <2>1 DEF DecodeHealthzResponse
  <2> QED
    BY <1>5, <2>2, ByOperation DEF a
<1>6. CASE op = "importruns"
  <2>1. JSON # ProblemJSON
    BY DEF JSON, ProblemJSON
  <2>2. DecodeImportrunsResponse(a) = {}
    BY <1>1, <2>1 DEF DecodeImportrunsResponse, UnderstandProblem, Understand
  <2> QED
    BY <1>6, <2>2, ByOperation DEF a
<1>7. CASE op = "importtasks"
  <2>1. DecodeImporttasksResponse(a) = {Typed("Unauthorized", v)}
    BY <1>1, <1>3, <1>4 DEF DecodeImporttasksResponse, ImporttasksProblems
  <2> QED
    BY <1>7, <2>1, ByOperation DEF a
<1>8. CASE op = "cancel"
  <2>1. DecodeCancelResponse(a) = {Typed("Unauthorized", v)}
    BY <1>1, <1>3, <1>4 DEF DecodeCancelResponse, CancelProblems
  <2> QED
    BY <1>8, <2>1, ByOperation DEF a
<1>9. CASE op = "runstatus"
  <2>1. DecodeRunStatusResponse(a) = {Typed("Unauthorized", v)}
    BY <1>1, <1>3, <1>4 DEF DecodeRunStatusResponse, RunStatusProblems
  <2> QED
    BY <1>9, <2>1, ByOperation DEF a
<1>10. CASE op = "status"
  <2>1. DecodeStatusResponse(a) = {Typed("Unauthorized", v)}
    BY <1>1, <1>3, <1>4 DEF DecodeStatusResponse, StatusProblems
  <2> QED
    BY <1>10, <2>1, ByOperation DEF a
<1> QED
  BY <1>5, <1>6, <1>7, <1>8, <1>9, <1>10 DEF Operations, a

\* The interface has no answer for a cancellation that cannot be read.
LEMMA BadCancellation ==
  ASSUME NEW inv, inv.refusal = 400
  PROVE  DecodeResponse("cancel", Refusal(inv)) = {}
<1> DEFINE a == Refusal(inv)
<1>1. a.status = 400
  BY RefusalStatus
<1>2. 400 \notin DOMAIN CancelProblems /\ a.status # 204
  BY <1>1 DEF CancelProblems, Problems
<1>3. DecodeCancelResponse(a) = {}
  BY <1>1, <1>2 DEF DecodeCancelResponse, UnderstandProblem
<1> QED
  BY <1>3, ByOperation

-----------------------------------------------------------------------------
(* What the server tells goes on to hold.                                   *)

\* To go on from is transitive.
LEMMA FollowsFollows ==
  ASSUME NEW t, NEW u, NEW v, Follows(t, u), Follows(u, v)
  PROVE  Follows(t, v)
BY DEF Follows

\* What holds of a reply goes on to hold.
LEMMA HoldsOn ==
  ASSUME ServerStep, NEW inv, NEW res, Holds(inv, res)
  PROVE  Holds(inv, res)'
<1>1. \A n \in TaskOf(inv.id) : n \in TaskOf(inv.id)' /\ Follows(tasks[n], tasks'[n])
  BY DEF TaskOf, ServerStep
<1>2. HoldsProblem(inv, res) => HoldsProblem(inv, res)'
  BY <1>1 DEF HoldsProblem, Follows
<1>3. HoldsTask(res) => HoldsTask(res)'
  BY DEF HoldsTask, ServerStep
<1>4. HoldsCanceled(inv, res) => HoldsCanceled(inv, res)'
  BY <1>1 DEF HoldsCanceled, Follows
<1>5. HoldsRun(inv, res) => HoldsRun(inv, res)'
  BY <1>1 DEF HoldsRun, Follows
<1>6. HoldsRunStatus(res) => HoldsRunStatus(res)'
  BY DEF HoldsRunStatus
<1>7. HoldsStatus(inv, res) => HoldsStatus(inv, res)'
  BY <1>1, FollowsFollows DEF HoldsStatus
<1> QED
  BY <1>2, <1>3, <1>4, <1>5, <1>6, <1>7 DEF Holds

\* Those whose requests have been served.
Froms == {s.from : s \in served}

\* There are no more tasks than requests were served, and the one there was.
CountInv == IsFiniteSet(Froms) /\ Len(tasks) <= Cardinality(Froms) + 1

\* Each task has an ID of its own, and so has the next one.
LEMMA TasksHaveIDs ==
  ASSUME ServerInv, ServedInv, CountInv, NEW m, m.from \in Callers \cup {Curl}, m.from \notin Froms
  PROVE  \A i, j \in 1..(Len(tasks) + 1) : TaskIDs[i] = TaskIDs[j] => i = j
<1> DEFINE all == Callers \cup {Curl}
<1>1. IsFiniteSet(all) /\ Cardinality(all) = Cardinality(Callers) + 1 /\ Cardinality(Callers) \in Nat
  BY IDsSuffice, CurlIsNoCaller, FS_AddElement, FS_CardinalityType
<1>2. IsFiniteSet(Froms \cup {m.from}) /\ Cardinality(Froms \cup {m.from}) = Cardinality(Froms) + 1
      /\ Cardinality(Froms) \in Nat
  BY FS_AddElement, FS_CardinalityType DEF CountInv
<1>3. Froms \cup {m.from} \subseteq all
  BY DEF ServedInv, Froms
<1>4. Cardinality(Froms) + 1 <= Cardinality(Callers) + 1
  <2>1. Cardinality(Froms \cup {m.from}) <= Cardinality(all)
    BY <1>1, <1>3, FS_Subset
  <2> QED
    BY <1>1, <1>2, <2>1
<1>5. Len(tasks) \in Nat
  BY DEF ServerInv, MockTypeOK
<1>6. Len(tasks) + 1 <= Cardinality(Callers) + 2
  BY <1>1, <1>2, <1>4, <1>5 DEF CountInv
<1>7. \A i \in 1..(Len(tasks) + 1) : i \in DOMAIN TaskIDs
  BY <1>1, <1>5, <1>6, IDsSuffice
<1> QED
  BY <1>7, IDsAreDistinct

\* Each task there is has an ID of its own, whoever has been served.
LEMMA KnownIDs ==
  ASSUME ServerInv, ServedInv, CountInv
  PROVE  \A m, n \in Known : TaskIDs[n] # Empty /\ (TaskIDs[m] = TaskIDs[n] => m = n)
<1> DEFINE all == Callers \cup {Curl}
<1>1. IsFiniteSet(all) /\ Cardinality(all) = Cardinality(Callers) + 1 /\ Cardinality(Callers) \in Nat
  BY IDsSuffice, CurlIsNoCaller, FS_AddElement, FS_CardinalityType
<1>2. Froms \subseteq all
  BY DEF ServedInv, Froms
<1>3. Cardinality(Froms) <= Cardinality(Callers) + 1 /\ Cardinality(Froms) \in Nat
  BY <1>1, <1>2, FS_Subset, FS_CardinalityType DEF CountInv
<1>4. Len(tasks) \in Nat /\ Len(tasks) <= Cardinality(Callers) + 2
  BY <1>1, <1>3 DEF CountInv, ServerInv, MockTypeOK
<1>5. Known \subseteq DOMAIN TaskIDs
  BY <1>1, <1>4, IDsSuffice DEF Known
<1> QED
  BY <1>5, IDsAreDistinct

\* An ID is that of one task.
LEMMA OneTask ==
  ASSUME ServerInv, ServedInv, CountInv, NEW id, NEW m \in TaskOf(id), NEW n \in TaskOf(id)
  PROVE  m = n
<1>1. m \in Known /\ n \in Known /\ TaskIDs[m] = TaskIDs[n]
  BY DEF TaskOf
<1> QED
  BY <1>1, KnownIDs

\* What the steps of the operations are.
LEMMA Effects ==
  ASSUME NEW inv, Effect(inv)
  PROVE  /\ inv.op = "importtasks" => APIImporttasksPost
         /\ inv.op = "cancel" => IF CancelReply(inv.id).type = "NoContent"
              THEN \E n \in TaskOf(inv.id) : APIImporttasksIDCancelPost(n) ELSE UNCHANGED mockVars
         /\ inv.op = "importruns" => IF ImportrunsReply(inv.id).type = "CreateImportRunResponse"
              THEN \E n \in TaskOf(inv.id) : APIImporttasksIDImportrunsPost(n) ELSE UNCHANGED mockVars
         /\ inv.op = "status" => IF TaskOf(inv.id) # {}
              THEN \E n \in TaskOf(inv.id) : APIImporttasksIDStatusGet(n) ELSE UNCHANGED mockVars
         /\ inv.op = "healthz" => UNCHANGED mockVars
         /\ inv.op = "runstatus" => UNCHANGED mockVars
<1>1. inv.op = "importtasks" => APIImporttasksPost
  BY Zenon DEF Effect
<1>2. inv.op = "cancel" => Reply(inv) = CancelReply(inv.id)
  BY Zenon DEF Reply
<1>3. inv.op = "importruns" => Reply(inv) = ImportrunsReply(inv.id)
  BY Zenon DEF Reply
<1>4. CASE inv.op = "cancel"
  BY <1>2, <1>4, Zenon DEF Effect
<1>5. CASE inv.op = "importruns"
  BY <1>3, <1>5, Zenon DEF Effect
<1>6. CASE inv.op = "status"
  BY <1>6, Zenon DEF Effect
<1>7. CASE inv.op = "healthz"
  BY <1>7, Zenon DEF Effect
<1>8. CASE inv.op = "runstatus"
  BY <1>8, Zenon DEF Effect
<1> QED
  BY <1>1, <1>4, <1>5, <1>6, <1>7, <1>8

\* What the operations reply.
LEMMA Replies ==
  ASSUME NEW inv
  PROVE  /\ inv.op = "healthz" => Reply(inv) = HealthzReply
         /\ inv.op = "importtasks" => Reply(inv) = ImporttasksReply
         /\ inv.op = "cancel" => Reply(inv) = CancelReply(inv.id)
         /\ inv.op = "importruns" => Reply(inv) = ImportrunsReply(inv.id)
         /\ inv.op = "runstatus" => Reply(inv) = RunStatusReply(inv.id, inv.runId)
         /\ inv.op = "status" => Reply(inv) = StatusReply(inv.id)
<1>1. inv.op = "healthz" => Reply(inv) = HealthzReply
  BY Zenon DEF Reply
<1>2. inv.op = "importtasks" => Reply(inv) = ImporttasksReply
  BY Zenon DEF Reply
<1>3. inv.op = "cancel" => Reply(inv) = CancelReply(inv.id)
  BY Zenon DEF Reply
<1>4. inv.op = "importruns" => Reply(inv) = ImportrunsReply(inv.id)
  BY Zenon DEF Reply
<1>5. inv.op = "runstatus" => Reply(inv) = RunStatusReply(inv.id, inv.runId)
  BY Zenon DEF Reply
<1>6. inv.op = "status" => Reply(inv) = StatusReply(inv.id)
  BY Zenon DEF Reply
<1> QED
  BY <1>1, <1>2, <1>3, <1>4, <1>5, <1>6

\* The problems of the operations: a task or a run that is not there, and the rest.
LEMMA MissingHolds ==
  ASSUME NEW inv, NEW detail, inv.op \in {"cancel", "importruns", "runstatus", "status"}
  PROVE  Holds(inv, Problem("NotFound", 404, detail))'
<1>1. ProblemStatus["NotFound"] = 404
  BY DEF ProblemStatus
<1>2. "NotFound" \in ProblemsOf(inv.op)
  BY DEF ProblemsOf
<1>3. HoldsProblem(inv, Problem("NotFound", 404, detail))'
  BY <1>1, <1>2 DEF HoldsProblem
<1> QED
  BY <1>3 DEF Holds

\* What the creation of a task replies.
LEMMA TaskHolds ==
  ASSUME ServerInv, NEW inv, inv.op = "importtasks", APIImporttasksPost,
         NEW res, res = ImporttasksReply
  PROVE  Holds(inv, res)'
<1>1. PICK n : n = Len(tasks) + 1
  OBVIOUS
<1>2. Len(tasks') = n /\ n \in 1..n
  BY <1>1, NewStep DEF ServerInv, MockTypeOK
<1>3. n \in Known'
  BY <1>2 DEF Known
<1>4. res = Typed("CreateImportTaskResponse", [importTaskId |-> Str(TaskIDs[n])])
  BY <1>1 DEF ImporttasksReply
<1>5. HoldsTask(res)'
  BY <1>3, <1>4 DEF HoldsTask
<1> QED
  BY <1>5 DEF Holds

\* What a cancellation replies.
LEMMA CancelHolds ==
  ASSUME ServerInv, NEW inv, inv.op = "cancel",
         IF CancelReply(inv.id).type = "NoContent"
         THEN \E n \in TaskOf(inv.id) : APIImporttasksIDCancelPost(n) ELSE UNCHANGED mockVars,
         NEW res, res = CancelReply(inv.id)
  PROVE  Holds(inv, res)'
<1>1. \/ TaskOf(inv.id) = {} /\ res = TaskNotFound
      \/ /\ \E n \in TaskOf(inv.id) : ~CancelAccepted(tasks[n])
         /\ res = Problem("Conflict", 409, "AlreadyImported")
      \/ res = Typed("NoContent", <<>>)
  BY ZenonT(60) DEF CancelReply
<1>2. CASE res = TaskNotFound
  BY <1>2, MissingHolds DEF TaskNotFound
<1>3. CASE /\ \E n \in TaskOf(inv.id) : ~CancelAccepted(tasks[n])
           /\ res = Problem("Conflict", 409, "AlreadyImported")
  <2>1. res.type # "NoContent"
    BY <1>3, StatusFacts DEF Problem
  <2>2. UNCHANGED <<handler, tasks, nextRun>>
    BY <2>1 DEF mockVars
  <2>3. \E n \in TaskOf(inv.id) : tasks[n].status = "Importiert"
    BY <1>3 DEF CancelAccepted
  <2>4. \E n \in TaskOf(inv.id)' : tasks'[n].status = "Importiert"
    BY <2>2, <2>3 DEF TaskOf, Known
  <2>5. "Conflict" \in ProblemsOf(inv.op) /\ ProblemStatus["Conflict"] = 409
    BY DEF ProblemsOf, ProblemStatus
  <2>6. HoldsProblem(inv, res)'
    BY <1>3, <2>4, <2>5 DEF HoldsProblem
  <2> QED
    BY <2>6 DEF Holds
<1>4. CASE res = Typed("NoContent", <<>>)
  <2>1. res.type = "NoContent"
    BY <1>4, StatusFacts
  <2>2. PICK n \in TaskOf(inv.id) : APIImporttasksIDCancelPost(n)
    BY <2>1
  <2>3. n \in Known /\ TaskIDs[n] = inv.id
    BY DEF TaskOf
  <2>4. Len(tasks') = Len(tasks) /\ tasks'[n].status = "Abgebrochen"
    BY <2>2, <2>3, CancelStep
  <2>5. n \in TaskOf(inv.id)'
    BY <2>3, <2>4 DEF TaskOf, Known
  <2>6. HoldsCanceled(inv, res)'
    BY <1>4, <2>4, <2>5 DEF HoldsCanceled
  <2> QED
    BY <2>6 DEF Holds
<1> QED
  BY <1>1, <1>2, <1>3, <1>4

\* What the creation of a run replies.
LEMMA RunHolds ==
  ASSUME ServerInv, NEW inv, inv.op = "importruns",
         IF ImportrunsReply(inv.id).type = "CreateImportRunResponse"
         THEN \E n \in TaskOf(inv.id) : APIImporttasksIDImportrunsPost(n) ELSE UNCHANGED mockVars,
         NEW res, res = ImportrunsReply(inv.id)
  PROVE  Holds(inv, res)'
<1>1. \/ res = TaskNotFound
      \/ res = Typed("CreateImportRunResponse", [importRunId |-> Str(RunIDs[nextRun + 1])])
      \/ \E detail : res = BadRequest(detail)
  BY Zenon DEF ImportrunsReply
<1>2. CASE res = TaskNotFound
  BY <1>2, MissingHolds DEF TaskNotFound
<1>3. CASE \E detail : res = BadRequest(detail)
  <2>1. PICK detail : res = Problem("BadRequest", 400, detail)
    BY <1>3 DEF BadRequest
  <2>2. "BadRequest" \in ProblemsOf(inv.op) /\ ProblemStatus["BadRequest"] = 400
    BY DEF ProblemsOf, ProblemStatus
  <2>3. HoldsProblem(inv, res)'
    BY <2>1, <2>2 DEF HoldsProblem
  <2> QED
    BY <2>3 DEF Holds
<1>4. CASE res = Typed("CreateImportRunResponse", [importRunId |-> Str(RunIDs[nextRun + 1])])
  <2>1. res.type = "CreateImportRunResponse"
    BY <1>4, StatusFacts
  <2>2. PICK n \in TaskOf(inv.id) : APIImporttasksIDImportrunsPost(n)
    BY <2>1
  <2>3. n \in Known /\ TaskIDs[n] = inv.id
    BY DEF TaskOf
  <2>4. Len(tasks') = Len(tasks) /\ tasks'[n].run = nextRun + 1 /\ nextRun + 1 # NoRun
    BY <2>2, <2>3, RunStep
  <2>5. n \in TaskOf(inv.id)'
    BY <2>3, <2>4 DEF TaskOf, Known
  <2>6. HoldsRun(inv, res)'
    BY <1>4, <2>4, <2>5 DEF HoldsRun
  <2> QED
    BY <2>6 DEF Holds
<1> QED
  BY <1>1, <1>2, <1>3, <1>4

\* What the status of a run is replied.
LEMMA RunStatusHolds ==
  ASSUME ServerInv, NEW inv, inv.op = "runstatus", NEW res, res = RunStatusReply(inv.id, inv.runId)
  PROVE  Holds(inv, res)'
<1>1. \/ res = TaskNotFound
      \/ res = Problem("NotFound", 404, "NoImportRun")
      \/ /\ TaskOf(inv.id) # {}
         /\ LET t == tasks[CHOOSE n \in TaskOf(inv.id) : TRUE] IN
              res = Typed("ImportRunStatusResponse", RunValue(t))
  BY Zenon DEF RunStatusReply, RunValue
<1>2. CASE res = TaskNotFound \/ res = Problem("NotFound", 404, "NoImportRun")
  BY <1>2, MissingHolds DEF TaskNotFound
<1>3. CASE /\ TaskOf(inv.id) # {}
           /\ LET t == tasks[CHOOSE n \in TaskOf(inv.id) : TRUE] IN
                res = Typed("ImportRunStatusResponse", RunValue(t))
  <2>1. PICK n \in TaskOf(inv.id) : n = CHOOSE k \in TaskOf(inv.id) : TRUE
    BY <1>3
  <2>2. PICK t : t = tasks[n] /\ res = Typed("ImportRunStatusResponse", RunValue(t))
    BY <1>3, <2>1
  <2>3. TaskRecord(t)
    BY <2>2 DEF ServerInv, TaskOf
  <2>4. HoldsRunStatus(res)'
    BY <2>2, <2>3 DEF HoldsRunStatus
  <2> QED
    BY <2>4 DEF Holds
<1> QED
  BY <1>1, <1>2, <1>3

\* What the status of a task is replied.
LEMMA StatusHolds ==
  ASSUME ServerInv, ServedInv, CountInv, NEW inv, inv.op = "status",
         IF TaskOf(inv.id) # {}
         THEN \E n \in TaskOf(inv.id) : APIImporttasksIDStatusGet(n) ELSE UNCHANGED mockVars,
         NEW res, res = StatusReply(inv.id)
  PROVE  Holds(inv, res)'
<1>1. CASE TaskOf(inv.id) = {}
  <2>1. res = TaskNotFound
    BY <1>1 DEF StatusReply
  <2> QED
    BY <2>1, MissingHolds DEF TaskNotFound
<1>2. CASE TaskOf(inv.id) # {}
  <2>1. PICK n \in TaskOf(inv.id) : APIImporttasksIDStatusGet(n)
    BY <1>2
  <2>2. n \in Known /\ TaskIDs[n] = inv.id
    BY DEF TaskOf
  <2>3. (CHOOSE k \in TaskOf(inv.id) : TRUE) \in TaskOf(inv.id)
    BY <1>2
  <2>4. (CHOOSE k \in TaskOf(inv.id) : TRUE) = n
    BY <2>1, <2>3, OneTask
  <2>5. PICK t : t = AdvanceTask(tasks[n])
    OBVIOUS
  <2>6. res = Typed("ImportTaskStatusResponse", StatusValue(t))
    BY <1>2, <2>4, <2>5, Zenon DEF StatusReply, StatusValue
  <2>7. TaskRecord(t)
    BY <2>2, <2>5, AdvanceFacts DEF ServerInv
  <2>8. Len(tasks') = Len(tasks) /\ tasks'[n] = t
    BY <2>1, <2>2, <2>5, StatusStep
  <2>9. n \in TaskOf(inv.id)'
    BY <2>2, <2>8 DEF TaskOf, Known
  <2>10. HoldsStatus(inv, res)'
    BY <2>6, <2>7, <2>8, <2>9, FollowsItself DEF HoldsStatus
  <2> QED
    BY <2>10 DEF Holds
<1> QED
  BY <1>1, <1>2

\* What a step of the server replies holds after it.
LEMMA EffectHolds ==
  ASSUME ServerInv, ServedInv, CountInv, NEW inv, inv.op \in Operations, Effect(inv),
         NEW res, res = Reply(inv)
  PROVE  Holds(inv, res)'
<1>1. /\ inv.op = "healthz" => res = HealthzReply
      /\ inv.op = "importtasks" => res = ImporttasksReply
      /\ inv.op = "cancel" => res = CancelReply(inv.id)
      /\ inv.op = "importruns" => res = ImportrunsReply(inv.id)
      /\ inv.op = "runstatus" => res = RunStatusReply(inv.id, inv.runId)
      /\ inv.op = "status" => res = StatusReply(inv.id)
  BY Replies
<1>2. CASE inv.op = "healthz"
  BY <1>1, <1>2 DEF Holds
<1>3. CASE inv.op = "importtasks"
  BY <1>1, <1>3, Effects, TaskHolds
<1>4. CASE inv.op = "cancel"
  BY <1>1, <1>4, Effects, CancelHolds
<1>5. CASE inv.op = "importruns"
  BY <1>1, <1>5, Effects, RunHolds
<1>6. CASE inv.op = "runstatus"
  BY <1>1, <1>6, RunStatusHolds
<1>7. CASE inv.op = "status"
  BY <1>1, <1>7, Effects, StatusHolds
<1> QED
  BY <1>2, <1>3, <1>4, <1>5, <1>6, <1>7 DEF Operations

\* What callers were replied holds, and no task was created for two of them.
Replied(s) == s.from \in Callers /\ s.invocation.refusal = 0

RepliesInv ==
  \A s \in served : Replied(s) => \E res : s.reply = {res} /\ Holds(s.invocation, res)

CreatedInv ==
  \A r, s \in served :
    /\ Replied(r) /\ r.invocation.op = "importtasks"
    /\ Replied(s) /\ s.invocation.op = "importtasks"
    /\ r.reply = s.reply
    => r = s

TruthInv == CountInv /\ RepliesInv /\ CreatedInv

\* The task a creation replies is none there was.
LEMMA NewTaskIsNew ==
  ASSUME ServerInv, ServedInv, CountInv, NEW m, m.from \in Callers \cup {Curl}, m.from \notin Froms
  PROVE  ~HoldsTask(ImporttasksReply)
<1> SUFFICES ASSUME NEW n \in Known,
                    ImporttasksReply = Typed("CreateImportTaskResponse",
                                             [importTaskId |-> Str(TaskIDs[n])])
             PROVE  FALSE
  BY DEF HoldsTask
<1>1. PICK k : k = Len(tasks) + 1
  OBVIOUS
<1>2. ImporttasksReply = Typed("CreateImportTaskResponse", [importTaskId |-> Str(TaskIDs[k])])
  BY <1>1 DEF ImporttasksReply
<1>3. [importTaskId |-> Str(TaskIDs[k])] = [importTaskId |-> Str(TaskIDs[n])]
  BY <1>2, StatusFacts
<1>4. Str(TaskIDs[k]) = Str(TaskIDs[n])
  BY <1>3
<1>5. TaskIDs[k] = TaskIDs[n]
  BY <1>4 DEF Str
<1>6. Len(tasks) \in Nat
  BY DEF ServerInv, MockTypeOK
<1>7. n \in 1..k /\ k \in 1..k /\ n # k
  BY <1>1, <1>6 DEF Known
<1> QED
  BY <1>1, <1>5, <1>7, TasksHaveIDs

\* A request that is served is counted.
LEMMA CountOfServe ==
  ASSUME CountInv, ServerStep, NEW s, s.from \notin Froms, served' = served \cup {s}
  PROVE  CountInv'
<1>1. Froms' = Froms \cup {s.from}
  BY DEF Froms
<1>2. IsFiniteSet(Froms) /\ Cardinality(Froms) \in Nat /\ Len(tasks) \in Nat
  BY FS_CardinalityType DEF CountInv, ServerStep
<1>3. IsFiniteSet(Froms \cup {s.from}) /\ Cardinality(Froms \cup {s.from}) = Cardinality(Froms) + 1
  BY <1>2, FS_AddElement
<1>4. Len(tasks') <= Len(tasks) + 1
  BY <1>2 DEF ServerStep
<1>5. Len(tasks') \in Nat
  BY <1>2 DEF ServerStep
<1> QED
  BY <1>1, <1>2, <1>3, <1>4, <1>5 DEF CountInv

\* A reply that held holds on.
LEMMA RepliesStay ==
  ASSUME RepliesInv, ServerStep, NEW s \in served, Replied(s)
  PROVE  \E res : s.reply = {res} /\ Holds(s.invocation, res)'
<1>1. PICK res : s.reply = {res} /\ Holds(s.invocation, res)
  BY DEF RepliesInv
<1>2. Holds(s.invocation, res)'
  BY <1>1, HoldsOn
<1> QED
  BY <1>1, <1>2

\* Serving a request preserves the truth of the replies, and the count of the tasks.
LEMMA TruthOfServe ==
  ASSUME WireInv, ServerInv, TruthInv, ServerStep, NEW m \in requests, Serve(m)
  PROVE  TruthInv'
<1>1. PICK s : /\ s.from = m.from /\ s.invocation = ServeHTTP(m.http)
               /\ s.invocation.refusal = 0 => s.reply = {Reply(s.invocation)}
               /\ IF s.invocation.refusal = 0 THEN Effect(s.invocation) ELSE UNCHANGED mockVars
               /\ served' = served \cup {s} /\ UNCHANGED client
  BY ServeFacts
<1> DEFINE inv == s.invocation
<1>2. s.from \in Callers \cup {Curl} /\ \A r \in served : r.from # s.from
  BY <1>1 DEF WireInv, RequestsInv, ServedInv
<1>3. s.from \notin Froms
  BY <1>2 DEF Froms
<1>4. CountInv'
  BY <1>1, <1>3, CountOfServe DEF TruthInv
<1>5. ASSUME Replied(s)
      PROVE  \E res : res = Reply(inv) /\ s.reply = {res} /\ Holds(inv, res)'
  <2>1. Answered(s)
    BY <1>1 DEF WireInv, RequestsInv, Outstanding, Answered
  <2>2. inv.op = client[s.from].call.op /\ IsCall(client[s.from].call)
    BY <1>5, <2>1, Invoked DEF WireInv, Replied
  <2>3. inv.op \in Operations
    BY <2>2 DEF IsCall
  <2>4. PICK res : res = Reply(inv)
    OBVIOUS
  <2>5. Effect(inv) /\ s.reply = {res}
    BY <1>1, <1>5, <2>4 DEF Replied
  <2>6. Holds(inv, res)'
    BY <2>3, <2>4, <2>5, EffectHolds DEF WireInv, TruthInv
  <2> QED
    BY <2>4, <2>5, <2>6
<1>6. \A r : Replied(r)' <=> Replied(r)
  BY DEF Replied
<1>7. RepliesInv'
  <2> SUFFICES ASSUME NEW r \in served', Replied(r)
               PROVE  \E res : r.reply = {res} /\ Holds(r.invocation, res)'
    BY <1>6 DEF RepliesInv
  <2>1. r \in served \/ r = s
    BY <1>1
  <2> QED
    BY <1>5, <2>1, RepliesStay DEF TruthInv
<1>8. ASSUME NEW r \in served, Replied(r), r.invocation.op = "importtasks",
             Replied(s), s.invocation.op = "importtasks", r.reply = s.reply
      PROVE  FALSE
  <2>1. s.reply = {ImporttasksReply}
    BY <1>5, <1>8, Replies
  <2>2. PICK res : r.reply = {res} /\ Holds(r.invocation, res)
    BY <1>8 DEF TruthInv, RepliesInv
  <2>3. HoldsTask(res)
    BY <1>8, <2>2 DEF Holds
  <2>4. res = ImporttasksReply
    BY <1>8, <2>1, <2>2
  <2> QED
    BY <1>2, <1>3, <2>3, <2>4, NewTaskIsNew DEF WireInv, TruthInv
<1>9. CreatedInv'
  <2> SUFFICES ASSUME NEW q \in served', NEW r \in served',
                      Replied(q), q.invocation.op = "importtasks",
                      Replied(r), r.invocation.op = "importtasks", q.reply = r.reply
               PROVE  q = r
    BY <1>6 DEF CreatedInv
  <2>1. (q \in served \/ q = s) /\ (r \in served \/ r = s)
    BY <1>1
  <2> QED
    BY <1>8, <2>1 DEF TruthInv, CreatedInv
<1> QED
  BY <1>4, <1>7, <1>9 DEF TruthInv

\* So does every other step.
LEMMA TruthStep ==
  ASSUME WireInv, ServerInv, TruthInv, [Next]_vars
  PROVE  TruthInv'
<1>1. ServerStep
  BY EveryStep
<1>2. ASSUME NEW m \in requests, Serve(m) PROVE TruthInv'
  BY <1>1, <1>2, TruthOfServe
<1>3. CASE UNCHANGED <<tasks, served>>
  <2>1. CountInv'
    BY <1>3 DEF TruthInv, CountInv, Froms
  <2>2. RepliesInv'
    BY <1>1, <1>3, RepliesStay DEF TruthInv, RepliesInv, Replied
  <2>3. CreatedInv'
    BY <1>3 DEF TruthInv, CreatedInv, Replied
  <2> QED
    BY <2>1, <2>2, <2>3 DEF TruthInv
<1>4. UNCHANGED <<tasks, served>> \/ \E m \in requests : Serve(m)
  BY DEF Next, vars, Call, GiveUp, CallByHand, Disturb, Receive
<1> QED
  BY <1>2, <1>3, <1>4

\* There is nothing to be true of when nobody has called.
LEMMA TruthInitially ==
  ASSUME Init
  PROVE  TruthInv
<1>1. served = {} /\ \E t : tasks = <<t>>
  BY DEF Init
<1>2. Froms = {} /\ Len(tasks) = 1
  BY <1>1 DEF Froms
<1>3. CountInv
  BY <1>2, FS_EmptySet DEF CountInv
<1> QED
  BY <1>1, <1>3 DEF TruthInv, RepliesInv, CreatedInv

\* The replies are true always.
LEMMA TruthInvariance == Spec => [](WireInv /\ ServerInv /\ TruthInv)
<1>1. Init => TruthInv
  BY TruthInitially
<1>2. WireInv /\ ServerInv /\ TruthInv /\ [Next]_vars => TruthInv'
  BY TruthStep
<1> QED
  BY <1>1, <1>2, Invariance, PTL DEF Spec

-----------------------------------------------------------------------------
(* What callers read.                                                       *)

\* What was sent to a caller: a reply that holds, or the refusal of its token.
LEMMA SentFacts ==
  ASSUME WireInv, TruthInv, NEW s \in served, s.from \in Callers
  PROVE  LET inv == s.invocation IN
           /\ inv.op = client[s.from].call.op /\ inv.op \in Operations
           /\ \/ /\ inv.refusal = 0 /\ inv.id = client[s.from].call.id
                 /\ inv.runId = client[s.from].call.runId
                 /\ \E res : /\ s.reply = {res} /\ Holds(inv, res)
                             /\ Sent(s) = EncodeResponse(inv.op, res)
              \/ /\ Sent(s) = Refusal(inv)
                 /\ inv.refusal = 401 \/ (inv.refusal = 400 /\ inv.op = "cancel")
<1> DEFINE inv == s.invocation
<1>1. Answered(s)
  BY DEF WireInv, ServedInv
<1>2. /\ inv.op = client[s.from].call.op /\ IsCall(client[s.from].call)
      /\ \/ inv.refusal = 0 /\ inv.id = client[s.from].call.id /\ inv.runId = client[s.from].call.runId
         \/ inv.refusal = 401
         \/ inv.refusal = 400 /\ inv.op = "cancel"
  BY <1>1, Invoked DEF WireInv, Untyped
<1>3. inv.op \in Operations
  BY <1>2 DEF IsCall
<1>4. CASE inv.refusal = 0
  <2>1. PICK res : s.reply = {res} /\ Holds(inv, res)
    BY <1>4 DEF TruthInv, RepliesInv, Replied
  <2>2. (CHOOSE r \in s.reply : TRUE) = res
    BY <2>1
  <2>3. Sent(s) = EncodeResponse(inv.op, res)
    BY <1>4, <2>2 DEF Sent
  <2>4. inv.refusal # 401 /\ inv.refusal # 400
    BY <1>4
  <2> QED
    BY <1>2, <1>3, <1>4, <2>1, <2>3, <2>4
<1>5. CASE inv.refusal = 401 \/ (inv.refusal = 400 /\ inv.op = "cancel")
  BY <1>2, <1>3, <1>5 DEF Sent
<1> QED
  BY <1>2, <1>4, <1>5

\* What a caller reads of what was sent to it.
LEMMA ReadFacts ==
  ASSUME WireInv, TruthInv, NEW s \in served, s.from \in Callers
  PROVE  LET inv  == s.invocation
             read == DecodeResponse(inv.op, Sent(s)) IN
           /\ inv.refusal \in {0, 400, 401}
           /\ inv.refusal = 0 => read = s.reply
           /\ inv.refusal = 400 => read = {}
           /\ inv.refusal = 401 /\ inv.op \in {"importruns", "healthz"} => read = {}
           /\ inv.refusal = 401 /\ inv.op \notin {"importruns", "healthz"} =>
                \E v : read = {Typed("Unauthorized", v)}
<1>1. CASE s.invocation.refusal = 0
  <2>1. PICK res : /\ s.reply = {res} /\ Holds(s.invocation, res)
                   /\ Sent(s) = EncodeResponse(s.invocation.op, res)
    BY <1>1, SentFacts
  <2>2. DecodeResponse(s.invocation.op, Sent(s)) = {res}
    BY <2>1, Understood
  <2> QED
    BY <1>1, <2>1, <2>2
<1>2. CASE s.invocation.refusal = 401
  <2>1. Sent(s) = Refusal(s.invocation) /\ s.invocation.op \in Operations
    BY <1>2, SentFacts
  <2> QED
    BY <1>2, <2>1, RefusalIsUnderstood
<1>3. CASE s.invocation.refusal = 400
  <2>1. Sent(s) = Refusal(s.invocation) /\ s.invocation.op = "cancel"
    BY <1>3, SentFacts
  <2> QED
    BY <1>3, <2>1, BadCancellation
<1> QED
  BY <1>1, <1>2, <1>3, SentFacts

\* An answer that nobody disturbed is read as exactly the typed result the endpoint returned,
\* and the refusal of a token as Unauthorized or, where the interface has no such answer, as an
\* error.
LEMMA UnderstoodFacts ==
  ASSUME WireInv, TruthInv
  PROVE  AnswersAreUnderstood
<1> SUFFICES ASSUME NEW a \in answers, ~a.disturbed
             PROVE  \E s \in served :
                      /\ s.from = a.to
                      /\ LET read == DecodeResponse(s.invocation.op, a.http) IN
                           CASE s.invocation.refusal = 0 -> read = s.reply
                             [] s.invocation.refusal = 400 -> read = {}
                             [] s.invocation.refusal = 401 /\ s.invocation.op \in {"importruns", "healthz"} ->
                                  read = {}
                             [] OTHER -> \E res \in read : res.type = "Unauthorized"
  BY Zenon DEF AnswersAreUnderstood
<1>1. PICK s \in served : s.from = a.to /\ Arrives(s, a.http, a.disturbed)
  BY DEF WireInv, AnswersInv
<1>2. a.http = Sent(s) /\ s.from \in Callers
  BY <1>1 DEF Arrives, WireInv, AnswersInv, Waiting
<1> DEFINE read == DecodeResponse(s.invocation.op, a.http)
<1>3. /\ s.invocation.refusal \in {0, 400, 401}
      /\ s.invocation.refusal = 0 => read = s.reply
      /\ s.invocation.refusal = 400 => read = {}
      /\ s.invocation.refusal = 401 /\ s.invocation.op \in {"importruns", "healthz"} => read = {}
      /\ s.invocation.refusal = 401 /\ s.invocation.op \notin {"importruns", "healthz"} =>
           \E v : read = {Typed("Unauthorized", v)}
  BY <1>2, ReadFacts
<1> HIDE DEF read
<1>4. ASSUME NEW v, read = {Typed("Unauthorized", v)}
      PROVE  \E res \in read : res.type = "Unauthorized"
  BY <1>4, StatusFacts
<1>5. /\ ~(s.invocation.refusal = 0 /\ s.invocation.refusal = 400)
      /\ ~(s.invocation.refusal = 0 /\ s.invocation.refusal = 401)
      /\ ~(s.invocation.refusal = 400 /\ s.invocation.refusal = 401)
      /\ \/ s.invocation.refusal = 0 \/ s.invocation.refusal = 400
         \/ s.invocation.refusal = 401
  BY <1>3
<1>6. s.invocation.refusal = 401 /\ s.invocation.op \notin {"importruns", "healthz"} =>
        \E res \in read : res.type = "Unauthorized"
  BY <1>3, <1>4
<1>7. (CASE s.invocation.refusal = 0 -> read = s.reply
         [] s.invocation.refusal = 400 -> read = {}
         [] s.invocation.refusal = 401 /\ s.invocation.op \in {"importruns", "healthz"} ->
              read = {}
         [] OTHER -> \E res \in read : res.type = "Unauthorized")
  BY <1>3, <1>5, <1>6, ZenonT(60)
<1> QED
  BY <1>1, <1>7, Zenon DEF read

\* What the endpoint returned is what an undisturbed answer is read as, in spite of two sides
\* that were generated apart.
THEOREM RepliesAreUnderstood == Spec => []AnswersAreUnderstood
<1>1. WireInv /\ ServerInv /\ TruthInv => AnswersAreUnderstood
  BY UnderstoodFacts
<1> QED
  BY <1>1, TruthInvariance, PTL

-----------------------------------------------------------------------------
(* What others may make of an answer.                                       *)

IsSeq(s)  == \E S : s \in Seq(S)
IsJson(s) == IsSeq(s) /\ Len(s) \in Nat /\ Len(s) >= 1

\* A field of s, or one that somebody put into it.
Varies(s, field) ==
  \/ field = <<"traceId", Str("0af7")>>
  \/ \E j \in 1..Len(s) :
       \/ field = s[j]
       \/ field = <<s[j][1], Str(Empty)>>
       \/ field = <<s[j][1], Null>>
       \/ s[j][1] \in Enums /\ field = <<s[j][1], Str("Zurueckgestellt")>>

\* The fields of a body that was varied.
LEMMA VariedFields ==
  ASSUME NEW s, IsJson(s), NEW x \in Varied(s)
  PROVE  IsSeq(x) /\ Len(x) \in Nat /\ \A i \in 1..Len(x) : Varies(s, x[i])
<1> DEFINE U == {s[i] : i \in 1..Len(s)} \cup {<<"traceId", Str("0af7")>>}
                \cup {<<s[i][1], Str(Empty)>> : i \in 1..Len(s)}
                \cup {<<s[i][1], Null>> : i \in 1..Len(s)}
                \cup {<<s[i][1], Str("Zurueckgestellt")>> : i \in 1..Len(s)}
           T == {field \in U : Varies(s, field)}
<1>1. /\ <<"traceId", Str("0af7")>> \in T
      /\ \A i \in 1..Len(s) :
           /\ s[i] \in T /\ <<s[i][1], Str(Empty)>> \in T /\ <<s[i][1], Null>> \in T
           /\ s[i][1] \in Enums => <<s[i][1], Str("Zurueckgestellt")>> \in T
  BY Zenon DEF Varies
<1>2. \A field \in T : Varies(s, field)
  OBVIOUS
<1> HIDE DEF T
<1>3. s \in Seq(T) /\ Len(s) \in Nat /\ DOMAIN s = 1..Len(s)
  <2>1. PICK S : s \in Seq(S)
    BY DEF IsJson, IsSeq
  <2>2. Len(s) \in Nat /\ s = [i \in 1..Len(s) |-> s[i]] /\ DOMAIN s = 1..Len(s)
    BY <2>1
  <2>3. \A i \in 1..Len(s) : s[i] \in T
    BY <1>1
  <2> QED
    BY <2>2, <2>3, SeqDef
<1>4. SUFFICES x \in Seq(T)
  <2>1. ASSUME x \in Seq(T) PROVE Len(x) \in Nat /\ \A i \in 1..Len(x) : x[i] \in T
    BY <2>1
  <2> QED
    BY <1>2, <2>1 DEF IsSeq
<1>5. CASE x = Append(s, <<"traceId", Str("0af7")>>)
  BY <1>1, <1>3, <1>5
<1>6. CASE x = Reverse(s)
  <2>1. x = [i \in 1..Len(s) |-> s[(Len(s) - i) + 1]]
    BY <1>6 DEF Reverse
  <2>2. \A i \in 1..Len(s) : (Len(s) - i) + 1 \in 1..Len(s)
    BY <1>3
  <2>3. \A i \in 1..Len(s) : s[(Len(s) - i) + 1] \in T
    BY <1>1, <2>2
  <2> QED
    BY <1>3, <2>1, <2>3, SeqDef
<1>7. ASSUME NEW i \in 1..Len(s), x = RemoveAt(s, i)
      PROVE  x \in Seq(T)
  <2>1. SubSeq(s, 1, i - 1) \in Seq(T) /\ SubSeq(s, i + 1, Len(s)) \in Seq(T)
    BY <1>3
  <2> QED
    BY <1>7, <2>1 DEF RemoveAt
<1>8. ASSUME NEW i \in 1..Len(s), x = <<<<s[i][1], Str(Empty)>>>> \o s
      PROVE  x \in Seq(T)
  <2>1. PICK e \in T : e = <<s[i][1], Str(Empty)>>
    BY <1>1
  <2> QED
    BY <1>3, <1>8, <2>1
<1>9. ASSUME NEW i \in 1..Len(s), NEW value, <<s[i][1], value>> \in T, x = Holding(s, i, value)
      PROVE  x \in Seq(T)
  <2>1. PICK e \in T : e = <<s[i][1], value>>
    BY <1>9
  <2> QED
    BY <1>3, <1>9, <2>1 DEF Holding, ReplaceAt
<1>10. \/ x = Append(s, <<"traceId", Str("0af7")>>) \/ x = Reverse(s)
       \/ \E i \in 1..Len(s) :
            \/ x = RemoveAt(s, i)
            \/ x = <<<<s[i][1], Str(Empty)>>>> \o s
            \/ x = Holding(s, i, Null) \/ x = Holding(s, i, Str(Empty))
            \/ s[i][1] \in Enums /\ x = Holding(s, i, Str("Zurueckgestellt"))
  BY <1>3, Zenon DEF Varied
<1> QED
  BY <1>1, <1>5, <1>6, <1>7, <1>8, <1>9, <1>10

\* An encoded message is a sequence of fields, and not the empty one.
LEMMA EncodeIsJson ==
  ASSUME NEW v, NEW order, Len(order) \in Nat, Distinct(order), NEW i \in 1..Len(order),
         order[i] \in DOMAIN v
  PROVE  IsJson(Encode(v, order))
<1> DEFINE s == Encode(v, order)
<1> HIDE DEF s
<1>1. Wrote(s, v, order, Len(order))
  BY EncodeWrites DEF s
<1>2. s \in Seq(FieldsOf(v)) /\ Len(s) \in Nat
  BY <1>1 DEF Wrote
<1>3. \E j \in 1..Len(s) : s[j] = <<order[i], v[order[i]]>>
  BY <1>1 DEF Wrote
<1>4. Len(s) >= 1
  BY <1>2, <1>3
<1> QED
  BY <1>2, <1>4 DEF s, IsJson, IsSeq

\* So are the messages the server sends.
LEMMA MessagesAreJson ==
  /\ \A type, status, detail : IsJson(EncodeProblemDetails(Problem(type, status, detail).value))
  /\ IsJson(EncodeHealthStatusResult(HealthzReply.value))
  /\ \A id : /\ IsJson(EncodeCreateImportTaskResponse([importTaskId |-> Str(id)]))
             /\ IsJson(EncodeCreateImportRunResponse([importRunId |-> Str(id)]))
  /\ \A t : /\ IsJson(EncodeImportRunStatusResponse(RunValue(t)))
            /\ TaskRecord(t) => IsJson(EncodeImportTaskStatusResponse(StatusValue(t)))
<1>1. ASSUME NEW type, NEW status, NEW detail
      PROVE  IsJson(EncodeProblemDetails(Problem(type, status, detail).value))
  <2> DEFINE v     == Problem(type, status, detail).value
             order == <<"type", "title", "status", "detail", "instance">>
  <2>1. v = [status |-> Int32Value(status), title |-> Str(type), detail |-> Str(detail)]
    BY StatusFacts DEF Problem
  <2>2. "title" \in DOMAIN v
    BY <2>1
  <2>3. Len(order) = 5 /\ 2 \in 1..Len(order) /\ order[2] = "title" /\ Distinct(order)
    BY OrdersAreDistinct
  <2> HIDE DEF v, order
  <2>4. IsJson(Encode(v, order))
    BY <2>2, <2>3, EncodeIsJson
  <2> QED
    BY <2>4 DEF v, order, EncodeProblemDetails
<1>2. IsJson(EncodeHealthStatusResult(HealthzReply.value))
  <2> DEFINE v     == HealthzReply.value
             order == <<"checks", "status">>
  <2>1. v = [status |-> Str("OK")]
    BY StatusFacts DEF HealthzReply
  <2>2. "status" \in DOMAIN v
    BY <2>1
  <2>3. Len(order) = 2 /\ 2 \in 1..Len(order) /\ order[2] = "status" /\ Distinct(order)
    BY OrdersAreDistinct
  <2> HIDE DEF v, order
  <2>4. IsJson(Encode(v, order))
    BY <2>2, <2>3, EncodeIsJson
  <2> QED
    BY <2>4 DEF v, order, EncodeHealthStatusResult
<1>3. ASSUME NEW v, NEW key, key \in DOMAIN v
      PROVE  IsJson(Encode(v, <<key>>))
  <2>1. Len(<<key>>) = 1 /\ 1 \in 1..Len(<<key>>) /\ <<key>>[1] = key /\ Distinct(<<key>>)
    BY DEF Distinct
  <2> QED
    BY <1>3, <2>1, EncodeIsJson
<1>4. ASSUME NEW id
      PROVE  /\ IsJson(EncodeCreateImportTaskResponse([importTaskId |-> Str(id)]))
             /\ IsJson(EncodeCreateImportRunResponse([importRunId |-> Str(id)]))
  BY <1>3 DEF EncodeCreateImportTaskResponse, EncodeCreateImportRunResponse
<1>5. ASSUME NEW t PROVE IsJson(EncodeImportRunStatusResponse(RunValue(t)))
  <2> DEFINE v     == RunValue(t)
             order == <<"status", "progressPercent", "importResult", "processedDocumentCount",
                        "totalDocumentCount">>
  <2>1. "status" \in DOMAIN v
    BY DEF RunValue
  <2>2. Len(order) = 5 /\ 1 \in 1..Len(order) /\ order[1] = "status" /\ Distinct(order)
    BY OrdersAreDistinct
  <2> HIDE DEF v, order
  <2>3. IsJson(Encode(v, order))
    BY <2>1, <2>2, EncodeIsJson, SMTT(60)
  <2> QED
    BY <2>3 DEF v, order, EncodeImportRunStatusResponse
<1>6. ASSUME NEW t, TaskRecord(t) PROVE IsJson(EncodeImportTaskStatusResponse(StatusValue(t)))
  <2> DEFINE v     == StatusValue(t)
             order == <<"status", "analysisResult", "analysisProgressInPercent",
                        "analysisErrorMessage", "importResult">>
  <2>1. "status" \in DOMAIN v
    BY <1>6, StatusValueFacts
  <2>2. Len(order) = 5 /\ 1 \in 1..Len(order) /\ order[1] = "status" /\ Distinct(order)
    BY OrdersAreDistinct
  <2> HIDE DEF v, order
  <2>3. IsJson(Encode(v, order))
    BY <2>1, <2>2, EncodeIsJson, SMTT(60)
  <2> QED
    BY <2>3 DEF v, order, EncodeImportTaskStatusResponse
<1> QED
  BY <1>1, <1>2, <1>4, <1>5, <1>6

IsBody(body) == body = {} \/ \E json : IsJson(json) /\ body = {json}

\* The body of a reply is such a sequence, or none.
LEMMA RepliesAreJson ==
  ASSUME NEW inv, NEW res, Holds(inv, res)
  PROVE  IsBody(EncodeResponse(inv.op, res).body)
<1> DEFINE op == inv.op
           a  == EncodeResponse(op, res)
<1>0. /\ op = "healthz" => a = EncodeHealthzResponse(res)
      /\ op = "importtasks" => a = EncodeImporttasksResponse(res)
      /\ op = "cancel" => a = EncodeCancelResponse(res)
      /\ op = "importruns" => a = EncodeImportrunsResponse(res)
      /\ op = "runstatus" => a = EncodeRunStatusResponse(res)
      /\ op = "status" => a = EncodeStatusResponse(res)
  BY ByOperation
<1>1. CASE op \in {"cancel", "importruns", "runstatus", "status"} /\ HoldsProblem(inv, res)
  <2>1. PICK type, detail : type \in ProblemsOf(op) /\ res = Problem(type, ProblemStatus[type], detail)
    BY <1>1 DEF HoldsProblem
  <2>2. type \in {"NotFound", "Conflict", "BadRequest"}
    BY <1>1, <2>1 DEF ProblemsOf
  <2>3. res.type = type
    BY <2>1, StatusFacts DEF Problem
  <2>4. a = EncodeProblem(res, JSON) \/ a = EncodeProblem(res, ProblemJSON)
    BY <1>0, <1>1, <2>2, <2>3
       DEF EncodeCancelResponse, EncodeImportrunsResponse, EncodeRunStatusResponse, EncodeStatusResponse
  <2>5. a.body = {EncodeProblemDetails(res.value)}
    BY <2>4, StatusFacts DEF EncodeProblem
  <2>6. IsJson(EncodeProblemDetails(res.value))
    BY <2>1, MessagesAreJson
  <2> QED
    BY <2>5, <2>6 DEF IsBody
<1>2. CASE op = "healthz" /\ res = HealthzReply
  <2>1. a.body = {EncodeHealthStatusResult(res.value)}
    BY <1>2, <1>0, StatusFacts DEF EncodeHealthzResponse
  <2> QED
    BY <1>2, <2>1, MessagesAreJson DEF IsBody
<1>3. CASE op = "importtasks" /\ HoldsTask(res)
  <2>1. PICK id : res = Typed("CreateImportTaskResponse", [importTaskId |-> Str(id)])
    BY <1>3 DEF HoldsTask
  <2>2. a.body = {EncodeCreateImportTaskResponse([importTaskId |-> Str(id)])}
    BY <1>3, <2>1, <1>0, StatusFacts DEF EncodeImporttasksResponse
  <2> QED
    BY <2>2, MessagesAreJson DEF IsBody
<1>4. CASE op = "cancel" /\ HoldsCanceled(inv, res)
  <2>1. res.type = "NoContent"
    BY <1>4, StatusFacts DEF HoldsCanceled
  <2>2. a.body = {}
    BY <1>4, <2>1, <1>0, StatusFacts DEF EncodeCancelResponse
  <2> QED
    BY <2>2 DEF IsBody
<1>5. CASE op = "importruns" /\ HoldsRun(inv, res)
  <2>1. PICK id : res = Typed("CreateImportRunResponse", [importRunId |-> Str(id)])
    BY <1>5 DEF HoldsRun
  <2>2. a.body = {EncodeCreateImportRunResponse([importRunId |-> Str(id)])}
    BY <1>5, <2>1, <1>0, StatusFacts DEF EncodeImportrunsResponse
  <2> QED
    BY <2>2, MessagesAreJson DEF IsBody
<1>6. CASE op = "runstatus" /\ HoldsRunStatus(res)
  <2>1. PICK t : res = Typed("ImportRunStatusResponse", RunValue(t))
    BY <1>6 DEF HoldsRunStatus
  <2>2. a.body = {EncodeImportRunStatusResponse(RunValue(t))}
    BY <1>6, <2>1, <1>0, StatusFacts DEF EncodeRunStatusResponse
  <2> QED
    BY <2>2, MessagesAreJson DEF IsBody
<1>7. CASE op = "status" /\ HoldsStatus(inv, res)
  <2>1. PICK t : TaskRecord(t) /\ res = Typed("ImportTaskStatusResponse", StatusValue(t))
    BY <1>7 DEF HoldsStatus
  <2>2. a.body = {EncodeImportTaskStatusResponse(StatusValue(t))}
    BY <1>7, <2>1, <1>0, StatusFacts DEF EncodeStatusResponse
  <2> QED
    BY <2>1, <2>2, MessagesAreJson DEF IsBody
<1> QED
  BY <1>1, <1>2, <1>3, <1>4, <1>5, <1>6, <1>7 DEF Holds

\* A body somebody else wrote may be an empty sequence.
IsRead(body) == body = {} \/ \E json : IsSeq(json) /\ Len(json) \in Nat /\ body = {json}

\* What arrives at a caller.
LEMMA BodiesAreRead ==
  ASSUME WireInv, TruthInv, NEW s \in served, s.from \in Callers, NEW http, NEW disturbed,
         Arrives(s, http, disturbed)
  PROVE  IsBody(Sent(s).body) /\ IsRead(http.body)
<1>1. IsBody(Sent(s).body)
  <2>1. CASE \E res : Holds(s.invocation, res) /\ Sent(s) = EncodeResponse(s.invocation.op, res)
    BY <2>1, RepliesAreJson
  <2>2. CASE s.invocation.refusal \in {400, 401} /\ Sent(s) = Refusal(s.invocation)
    <3>1. Sent(s) = ErrorHandler(s.invocation.refusal)
      BY <2>2, RefusalStatus
    <3>2. Sent(s).body = {<<<<"error_message", Str("refused")>>>>}
      BY <3>1, StatusFacts DEF ErrorHandler
    <3>3. PICK e : e = <<"error_message", Str("refused")>>
      OBVIOUS
    <3>4. IsJson(<<e>>)
      <4>1. PICK x : x = <<e>>
        OBVIOUS
      <4>2. x \in Seq({e}) /\ Len(x) \in Nat /\ Len(x) >= 1
        BY <4>1
      <4>3. IsJson(x)
        BY <4>2, Zenon DEF IsJson, IsSeq
      <4> QED
        BY <4>1, <4>3
    <3> QED
      BY <3>2, <3>3, <3>4 DEF IsBody
  <2> QED
    BY <2>1, <2>2, SentFacts
<1>2. IsRead(Sent(s).body)
  BY <1>1 DEF IsBody, IsJson, IsRead
<1>3. ASSUME http \in Disturbed(Sent(s)) PROVE IsRead(http.body)
  <2>1. CASE http = Response(502, "text/html", {})
    BY <2>1, StatusFacts DEF IsRead
  <2>2. CASE http = Response(500, JSON, {<<<<"title", Str("InternalServerError")>>>>})
    <3>1. PICK e : e = <<"title", Str("InternalServerError")>>
      OBVIOUS
    <3>2. http.body = {<<e>>} /\ <<e>> \in Seq({e}) /\ Len(<<e>>) = 1
      BY <2>2, <3>1, StatusFacts
    <3> QED
      BY <3>2 DEF IsRead, IsSeq
  <2>3. CASE \E x \in UNION {Varied(b) : b \in Sent(s).body} :
               http = Response(Sent(s).status, Sent(s).contentType, {x})
    <3>1. PICK b, x : /\ b \in Sent(s).body /\ x \in Varied(b)
                      /\ http = Response(Sent(s).status, Sent(s).contentType, {x})
      BY <2>3
    <3>2. IsJson(b)
      BY <1>1, <3>1 DEF IsBody
    <3>3. IsSeq(x) /\ Len(x) \in Nat
      BY <3>1, <3>2, VariedFields
    <3>4. http.body = {x}
      BY <3>1, StatusFacts
    <3> QED
      BY <3>3, <3>4 DEF IsRead
  <2> QED
    BY <1>3, <2>1, <2>2, <2>3 DEF Disturbed
<1> QED
  BY <1>1, <1>2, <1>3 DEF Arrives

AtMostOne(S) == \A u, v \in S : u = v

\* A response is read as one result at most.
LEMMA ReadOnce ==
  ASSUME NEW op \in Operations, NEW a, IsRead(a.body)
  PROVE  AtMostOne(DecodeResponse(op, a))
<1>1. ASSUME NEW m PROVE AtMostOne(BodyOf(a, m))
  <2>1. CASE a.body = {}
    BY <2>1 DEF AtMostOne, BodyOf
  <2>2. CASE \E json : Len(json) \in Nat /\ a.body = {json}
    <3>1. PICK json : Len(json) \in Nat /\ a.body = {json}
      BY <2>2
    <3>2. BodyOf(a, m) = Decode(m, json)
      BY <3>1 DEF BodyOf
    <3> QED
      BY <3>1, <3>2, DecodeOnce DEF AtMostOne
  <2> QED
    BY <2>1, <2>2 DEF IsRead
<1>2. ASSUME NEW read, AtMostOne(read), NEW contentType, NEW type
      PROVE  AtMostOne(Understand(a, contentType, type, read))
  BY <1>2 DEF AtMostOne, Understand
<1>3. ASSUME NEW contentType, NEW problems
      PROVE  AtMostOne(UnderstandProblem(a, contentType, problems))
  <2>1. AtMostOne(Understand(a, contentType, problems[a.status], BodyOf(a, ProblemDetails)))
    BY <1>1, <1>2
  <2> QED
    BY <2>1 DEF UnderstandProblem, AtMostOne
<1>4. AtMostOne(DecodeHealthzResponse(a))
  <2>1. UNION {DecodeHealthStatusResult(json) : json \in a.body} \subseteq BodyOf(a, HealthStatusResult)
    BY DEF DecodeHealthStatusResult, BodyOf
  <2>2. AtMostOne(UNION {DecodeHealthStatusResult(json) : json \in a.body})
    BY <1>1, <2>1 DEF AtMostOne
  <2>3. \A type : AtMostOne(Understand(a, JSON, type,
                              UNION {DecodeHealthStatusResult(json) : json \in a.body}))
    BY <1>2, <2>2
  <2> QED
    BY <2>3 DEF DecodeHealthzResponse, AtMostOne
<1>5. AtMostOne(DecodeImporttasksResponse(a))
  BY <1>1, <1>2, <1>3 DEF DecodeImporttasksResponse
<1>6. AtMostOne(DecodeCancelResponse(a))
  <2>1. AtMostOne({Typed("NoContent", <<>>)})
    BY DEF AtMostOne
  <2> QED
    BY <1>3, <2>1 DEF DecodeCancelResponse
<1>7. AtMostOne(DecodeImportrunsResponse(a))
  BY <1>1, <1>2, <1>3 DEF DecodeImportrunsResponse
<1>8. AtMostOne(DecodeRunStatusResponse(a))
  <2>1. AtMostOne({v \in BodyOf(a, ImportRunStatusResponse) : ValidateImportRunStatusResponse(v)})
    BY <1>1 DEF AtMostOne
  <2> QED
    BY <1>2, <1>3, <2>1 DEF DecodeRunStatusResponse
<1>9. AtMostOne(DecodeStatusResponse(a))
  <2>1. AtMostOne({v \in BodyOf(a, ImportTaskStatusResponse) : ValidateImportTaskStatusResponse(v)})
    BY <1>1 DEF AtMostOne
  <2> QED
    BY <1>2, <1>3, <2>1 DEF DecodeStatusResponse
<1> QED
  BY <1>4, <1>5, <1>6, <1>7, <1>8, <1>9, ByOperation DEF Operations

\* A set of one element at most has that cardinality.
LEMMA OneAtMost ==
  ASSUME NEW S, AtMostOne(S)
  PROVE  Cardinality(S) <= 1
<1>1. CASE S = {}
  BY <1>1, FS_EmptySet
<1>2. CASE \E x : S = {x}
  <2>1. PICK x : S = {x}
    BY <1>2
  <2>2. Cardinality({x}) = 1
    BY FS_Singleton
  <2> QED
    BY <2>1, <2>2
<1> QED
  BY <1>1, <1>2 DEF AtMostOne

\* A caller has at most one result and is owed at most one answer, and no request is handled
\* twice.
LEMMA TypeFacts ==
  ASSUME WireInv, ServerInv, TruthInv
  PROVE  TypeOK
<1>1. ASSUME NEW c \in Callers
      PROVE  /\ client[c].stage \in Stages
             /\ client[c].call \in Calls \cup {NoCall}
             /\ Cardinality(client[c].results) <= 1
             /\ Cardinality({a \in answers : a.to = c} \cup {m \in requests : m.from = c}) <= 1
             /\ \A s, t \in served : s.from = t.from => s = t
  <2>1. client[c].stage \in Stages /\ client[c].call \in Calls \cup {NoCall}
    <3>1. Idle.call = NoCall
      BY DEF Idle
    <3> QED
      BY <3>1 DEF WireInv, ClientInv
  <2>2. AtMostOne(client[c].results)
    <3>1. CASE client[c].results = {}
      BY <3>1 DEF AtMostOne
    <3>2. CASE client[c].results # {}
      <4>1. PICK s, http : /\ s \in served /\ s.from = c /\ Arrives(s, http, client[c].disturbed)
                           /\ client[c].results = DecodeResponse(client[c].call.op, http)
        BY <3>2 DEF WireInv, ResultsInv
      <4>2. IsRead(http.body)
        BY <4>1, BodiesAreRead
      <4>3. client[c].call.op \in Operations
        BY <4>1, SentFacts
      <4> QED
        BY <4>1, <4>2, <4>3, ReadOnce
    <3> QED
      BY <3>1, <3>2
  <2>3. AtMostOne({a \in answers : a.to = c} \cup {m \in requests : m.from = c})
    <3>1. \A a \in answers, m \in requests : a.to = c => m.from # c
      BY DEF WireInv, AnswersInv, ServedInv
    <3> QED
      BY <3>1 DEF AtMostOne, WireInv, AnswersInv, RequestsInv
  <2> QED
    BY <2>1, <2>2, <2>3, OneAtMost DEF WireInv, ServedInv
<1> QED
  BY <1>1 DEF TypeOK, ServerInv, WireInv, AnswersInv

\* The state is well formed: one result, one answer on its way, one handling of each request.
THEOREM TypeCorrect == Spec => []TypeOK
<1>1. WireInv /\ ServerInv /\ TruthInv => TypeOK
  BY TypeFacts
<1> QED
  BY <1>1, TruthInvariance, PTL

-----------------------------------------------------------------------------
(* Decoding gives what the fields say.                                      *)

\* The last value that comes with a key.
LastOf(json, k) ==
  json[CHOOSE i \in DOMAIN json :
         json[i][1] = k /\ \A j \in DOMAIN json : json[j][1] = k => j <= i][2]

KeysOf(json) == {json[i][1] : i \in DOMAIN json}

\* Decode, a pass over the fields one after the other, gives what LastOneWins says of them
\* all: for a message of any types and required fields, open or closed, and for bodies of any
\* length, with their keys in any order and any number of times.
THEOREM AnyBodyIsRead ==
  ASSUME NEW m, NEW S, NEW json \in Seq(S)
  PROVE  Decode(m, json) = LastOneWins(m, json)
<1> DEFINE n == Len(json)
<1>1. DOMAIN json = 1..n /\ n \in 0..n /\ IsSeq(json) /\ Len(json) \in Nat
  BY DEF IsSeq
<1>2. /\ \A v \in Decode(m, json) : /\ Fits(m, json, n) /\ Says(v, json, n)
                                    /\ m.required \subseteq DOMAIN v
      /\ \A v : Fits(m, json, n) /\ Says(v, json, n) /\ m.required \subseteq DOMAIN v
                  => Decode(m, json) = {v}
  BY <1>1, DecodeSays
<1>3. Fits(m, json, n) => \E v : Says(v, json, n)
  BY <1>1, ReadingSays
<1> HIDE DEF n
<1>4. Fits(m, json, n) <=> \A i \in DOMAIN json : json[i][2][1] \in TypeOf(m, json[i][1])
  BY <1>1 DEF Fits
<1>5. ASSUME NEW v, Says(v, json, n)
      PROVE  DOMAIN v = KeysOf(json) /\ v = [k \in KeysOf(json) |-> LastOf(json, k)]
  <2>1. DOMAIN v = KeysOf(json) /\ v = [k \in DOMAIN v |-> v[k]]
    BY <1>1, <1>5 DEF Says, KeysOf
  <2>2. ASSUME NEW k \in DOMAIN v PROVE v[k] = LastOf(json, k)
    <3>1. PICK j \in 1..n : IsLast(json, n, k, j) /\ v[k] = json[j][2]
      BY <1>5 DEF Says
    <3> DEFINE Q(i) == json[i][1] = k /\ \A l \in DOMAIN json : json[l][1] = k => l <= i
    <3>2. j \in DOMAIN json /\ Q(j)
      BY <1>1, <3>1 DEF IsLast
    <3>3. \A i \in DOMAIN json : Q(i) => i = j
      <4> SUFFICES ASSUME NEW i \in 1..n, Q(i) PROVE i = j
        BY <1>1
      <4>1. i <= j /\ j <= i
        BY <1>1, <3>1, <3>2 DEF IsLast
      <4>2. i \in Int /\ j \in Int
        OBVIOUS
      <4> QED
        BY <4>1, <4>2
    <3>4. (CHOOSE i \in DOMAIN json : Q(i)) = j
      <4> HIDE DEF Q
      <4> QED
        BY <3>2, <3>3
    <3> QED
      BY <3>1, <3>4 DEF LastOf
  <2> QED
    BY <2>1, <2>2
<1>6. LastOneWins(m, json)
        = IF /\ \A i \in DOMAIN json : json[i][2][1] \in TypeOf(m, json[i][1])
             /\ m.required \subseteq KeysOf(json)
          THEN {[k \in KeysOf(json) |-> LastOf(json, k)]} ELSE {}
  BY Zenon DEF LastOneWins, KeysOf, LastOf
<1>7. CASE Fits(m, json, n) /\ m.required \subseteq KeysOf(json)
  <2>1. PICK v : Says(v, json, n)
    BY <1>3, <1>7
  <2>2. DOMAIN v = KeysOf(json) /\ v = [k \in KeysOf(json) |-> LastOf(json, k)]
    BY <1>5, <2>1
  <2>3. Decode(m, json) = {v}
    BY <1>2, <1>7, <2>1, <2>2
  <2> QED
    BY <1>4, <1>7, <1>6, <2>2, <2>3
<1>8. CASE ~(Fits(m, json, n) /\ m.required \subseteq KeysOf(json))
  <2>1. Decode(m, json) = {}
    BY <1>2, <1>5, <1>8
  <2> QED
    BY <1>4, <1>8, <1>6, <2>1
<1> QED
  BY <1>7, <1>8

\* That holds for every answer a caller may get, whatever somebody put into it.
LEMMA DecodingFacts ==
  ASSUME WireInv, TruthInv
  PROVE  DecodingIsLastOneWins
<1>1. ASSUME NEW a \in answers, NEW json \in a.http.body
      PROVE  IsSeq(json) /\ Len(json) \in Nat
  <2>1. PICK s \in served : s.from = a.to /\ Arrives(s, a.http, a.disturbed)
    BY DEF WireInv, AnswersInv
  <2>2. s.from \in Callers
    BY <2>1 DEF WireInv, AnswersInv, Waiting
  <2>3. IsRead(a.http.body)
    BY <2>1, <2>2, BodiesAreRead
  <2> QED
    BY <2>3 DEF IsRead
<1>2. ASSUME NEW a \in answers, NEW json \in a.http.body, NEW m
      PROVE  Decode(m, json) = LastOneWins(m, json)
  <2>1. PICK S : json \in Seq(S)
    BY <1>1 DEF IsSeq
  <2> QED
    BY <2>1, AnyBodyIsRead
<1> QED
  BY <1>2, Zenon DEF DecodingIsLastOneWins

\* So it is for every answer on its way to a caller, disturbed or not.
THEOREM AnswersAreDecoded == Spec => []DecodingIsLastOneWins
<1>1. WireInv /\ ServerInv /\ TruthInv => DecodingIsLastOneWins
  BY DecodingFacts
<1> QED
  BY <1>1, TruthInvariance, PTL

-----------------------------------------------------------------------------
(* What callers have read goes on to hold.                                  *)

\* What holds of a result of some type.
LEMMA HoldsByType ==
  ASSUME NEW inv, NEW res, Holds(inv, res)
  PROVE  /\ res.type = "NoContent" => HoldsCanceled(inv, res)
         /\ res.type = "Conflict" => \E n \in TaskOf(inv.id) : tasks[n].status = "Importiert"
         /\ res.type = "CreateImportTaskResponse" => inv.op = "importtasks" /\ HoldsTask(res)
         /\ res.type = "CreateImportRunResponse" => HoldsRun(inv, res)
<1>1. HoldsProblem(inv, res) /\ inv.op \in {"cancel", "importruns", "runstatus", "status"} =>
        /\ res.type \in {"NotFound", "Conflict", "BadRequest"}
        /\ res.type = "Conflict" => \E n \in TaskOf(inv.id) : tasks[n].status = "Importiert"
  <2> SUFFICES ASSUME HoldsProblem(inv, res), inv.op \in {"cancel", "importruns", "runstatus", "status"}
               PROVE  /\ res.type \in {"NotFound", "Conflict", "BadRequest"}
                      /\ res.type = "Conflict" => \E n \in TaskOf(inv.id) : tasks[n].status = "Importiert"
    OBVIOUS
  <2>1. PICK type, detail :
          /\ type \in ProblemsOf(inv.op)
          /\ res = Problem(type, ProblemStatus[type], detail)
          /\ type = "Conflict" => \E n \in TaskOf(inv.id) : tasks[n].status = "Importiert"
    BY DEF HoldsProblem
  <2>2. res.type = type
    BY <2>1, StatusFacts DEF Problem
  <2>3. type \in {"NotFound", "Conflict", "BadRequest"}
    BY <2>1 DEF ProblemsOf
  <2> QED
    BY <2>1, <2>2, <2>3
<1>2. res = HealthzReply => res.type = "OK"
  BY StatusFacts DEF HealthzReply
<1>3. HoldsTask(res) => res.type = "CreateImportTaskResponse"
  BY StatusFacts DEF HoldsTask
<1>4. HoldsCanceled(inv, res) => res.type = "NoContent"
  BY StatusFacts DEF HoldsCanceled
<1>5. HoldsRun(inv, res) => res.type = "CreateImportRunResponse"
  BY StatusFacts DEF HoldsRun
<1>6. HoldsRunStatus(res) => res.type = "ImportRunStatusResponse"
  BY StatusFacts DEF HoldsRunStatus
<1>7. HoldsStatus(inv, res) => res.type = "ImportTaskStatusResponse"
  BY StatusFacts DEF HoldsStatus
<1> QED
  BY <1>1, <1>2, <1>3, <1>4, <1>5, <1>6, <1>7 DEF Holds

\* Where a field that was decoded comes from.
LEMMA FieldsDecoded ==
  ASSUME NEW m, NEW json, Len(json) \in Nat, NEW v \in Decode(m, json), NEW k \in DOMAIN v
  PROVE  v[k][1] \in TypeOf(m, k) /\ \E i \in 1..Len(json) : json[i][1] = k /\ json[i][2] = v[k]
<1>1. Fits(m, json, Len(json)) /\ Says(v, json, Len(json))
  BY DecodeSays
<1>2. PICK j \in 1..Len(json) : IsLast(json, Len(json), k, j) /\ v[k] = json[j][2]
  BY <1>1 DEF Says
<1> QED
  BY <1>1, <1>2 DEF IsLast, Fits

\* The only field of an ID.
LEMMA IDFields ==
  ASSUME NEW id
  PROVE  LET json == EncodeCreateImportTaskResponse([importTaskId |-> Str(id)]) IN
           /\ IsJson(json) /\ \A i \in 1..Len(json) : json[i] = <<"importTaskId", Str(id)>>
<1> DEFINE v    == [importTaskId |-> Str(id)]
           json == EncodeCreateImportTaskResponse(v)
<1>1. Wrote(json, v, <<"importTaskId">>, 1)
  <2>1. Len(<<"importTaskId">>) = 1 /\ Distinct(<<"importTaskId">>)
    BY OrdersAreDistinct
  <2> QED
    BY <2>1, EncodeWrites DEF EncodeCreateImportTaskResponse
<1>2. DOMAIN v = {"importTaskId"} /\ v["importTaskId"] = Str(id)
  OBVIOUS
<1>3. IsJson(json)
  BY MessagesAreJson
<1> HIDE DEF v, json
<1>4. json \in Seq(FieldsOf(v))
  BY <1>1 DEF Wrote
<1>5. \A i \in 1..Len(json) : json[i] = <<"importTaskId", Str(id)>>
  BY <1>2, <1>4 DEF FieldsOf
<1> QED
  BY <1>3, <1>5 DEF v, json

\* The ID a caller may read in an answer to the creation of a task: that of its task, or none.
LEMMA IDsRead ==
  ASSUME NEW id, NEW json, json = EncodeCreateImportTaskResponse([importTaskId |-> Str(id)]),
         NEW x, x = json \/ x \in Varied(json), NEW v \in Decode(CreateImportTaskResponse, x)
  PROVE  v["importTaskId"] \in {Str(id), Str(Empty)}
<1> DEFINE m == CreateImportTaskResponse
<1>1. IsJson(json) /\ \A i \in 1..Len(json) : json[i] = <<"importTaskId", Str(id)>>
  BY IDFields
<1>2. Len(json) \in Nat /\ Len(json) >= 1 /\ json[1] = <<"importTaskId", Str(id)>>
  BY <1>1 DEF IsJson
<1>3. Len(x) \in Nat /\ \A i \in 1..Len(x) : Varies(json, x[i])
  <2>1. CASE x = json
    BY <1>2, <2>1 DEF Varies
  <2>2. CASE x \in Varied(json)
    BY <1>1, <2>2, VariedFields
  <2> QED
    BY <2>1, <2>2
<1>4. TypeOf(m, "importTaskId") = {"string"} /\ m.required = {"importTaskId"}
  BY DEF TypeOf, CreateImportTaskResponse, Message, String
<1>5. "importTaskId" \in DOMAIN v
  BY <1>3, <1>4, DecodeSays
<1>6. PICK i \in 1..Len(x) : x[i][1] = "importTaskId" /\ x[i][2] = v["importTaskId"]
  BY <1>3, <1>5, FieldsDecoded
<1>7. v["importTaskId"][1] = "string"
  BY <1>3, <1>4, <1>5, FieldsDecoded
<1>8. Varies(json, x[i])
  BY <1>3
<1>9. v["importTaskId"] \in {Str(id), Str(Empty), Null}
  <2>1. x[i][1] # "traceId" /\ "importTaskId" \notin Enums
    BY <1>6 DEF Enums
  <2> QED
    BY <1>1, <1>6, <1>8, <2>1 DEF Varies
<1>10. Null[1] # "string"
  BY DEF Null
<1> QED
  BY <1>7, <1>9, <1>10

ProblemCodes == {400, 401, 404, 409, 415, 500}

\* A problem is read by its status.
LEMMA ProblemRead ==
  ASSUME NEW a, NEW contentType, NEW statuses, statuses \subseteq ProblemCodes,
         NEW res \in UnderstandProblem(a, contentType, Problems(statuses))
  PROVE  /\ a.status \in statuses /\ res.type \in DOMAIN ProblemStatus
         /\ a.status = 500 => res.type = "InternalServerError"
<1>1. a.status \in statuses /\ res.type = Problems(statuses)[a.status]
  BY StatusFacts DEF UnderstandProblem, Understand, Problems
<1>2. res.type = ProblemType(a.status) /\ a.status \in {400, 401, 404, 409, 415, 500}
  <2>1. \A status \in statuses : Problems(statuses)[status] = ProblemType(status)
    BY Zenon DEF Problems
  <2>2. res.type = ProblemType(a.status)
    BY <1>1, <2>1
  <2>3. a.status \in ProblemCodes
    BY <1>1
  <2> QED
    BY <2>2, <2>3 DEF ProblemCodes
<1>3. DOMAIN ProblemStatus = {"BadRequest", "Unauthorized", "NotFound", "Conflict",
                              "UnsupportedMediaType", "InternalServerError"}
  BY DEF ProblemStatus
<1>4. ASSUME NEW status PROVE status = 500 => ProblemType(status) = "InternalServerError"
  <2>1. status = 500 => status # 400 /\ status # 401 /\ status # 404 /\ status # 409 /\ status # 415
    OBVIOUS
  <2> QED
    BY <2>1, Zenon DEF ProblemType
<1>5. ASSUME NEW status \in {400, 401, 404, 409, 415, 500}
      PROVE  ProblemType(status) \in DOMAIN ProblemStatus
  <2>1. CASE status \in {400, 401, 404}
    BY <1>3, <2>1 DEF ProblemType
  <2>2. CASE status \in {409, 415, 500}
    BY <1>3, <2>2 DEF ProblemType
  <2> QED
    BY <2>1, <2>2
<1> QED
  BY <1>1, <1>2, <1>4, <1>5

\* Who reads that a task was created for it has been served, and the ID is the task's or none.
LEMMA CreatedFacts ==
  ASSUME WireInv, TruthInv, NEW s \in served, s.from \in Callers, NEW http, NEW disturbed,
         Arrives(s, http, disturbed), NEW res \in DecodeResponse(s.invocation.op, http),
         s.invocation.op = "importtasks", res.type = "CreateImportTaskResponse"
  PROVE  /\ s.invocation.refusal = 0
         /\ \E n \in Known :
              /\ s.reply = {Typed("CreateImportTaskResponse", [importTaskId |-> Str(TaskIDs[n])])}
              /\ ID(res, "importTaskId") \in {TaskIDs[n], Empty}
<1>1. res \in DecodeImporttasksResponse(http)
  BY ByOperation
<1>2. http.status = 201
  <2>1. SUFFICES ASSUME http.status # 201 PROVE FALSE
    OBVIOUS
  <2>2. res \in UnderstandProblem(http, JSON, Problems({400, 401, 415, 500}))
    BY <1>1, <2>1 DEF DecodeImporttasksResponse, ImporttasksProblems
  <2>3. {400, 401, 415, 500} \subseteq ProblemCodes
    BY DEF ProblemCodes
  <2>4. res.type \in DOMAIN ProblemStatus
    BY <2>2, <2>3, ProblemRead
  <2> QED
    BY <2>4 DEF ProblemStatus
<1>3. PICK v : v \in BodyOf(http, CreateImportTaskResponse) /\ res.value = v
  BY <1>1, <1>2, StatusFacts DEF DecodeImporttasksResponse, Understand
<1>4. /\ Sent(s).status = 201
      /\ \/ http = Sent(s)
         \/ \E b, x : b \in Sent(s).body /\ x \in Varied(b) /\ http.body = {x}
  BY <1>2, DisturbedFacts DEF Arrives
<1>5. s.invocation.refusal = 0
  <2>1. s.invocation.refusal \in {400, 401} => Sent(s).status = s.invocation.refusal
    BY SentFacts, RefusalStatus
  <2> QED
    BY <1>4, <2>1, SentFacts
<1>6. PICK r : s.reply = {r} /\ Holds(s.invocation, r) /\ Sent(s) = EncodeResponse(s.invocation.op, r)
  BY <1>5, SentFacts
<1>7. PICK n \in Known : r = Typed("CreateImportTaskResponse", [importTaskId |-> Str(TaskIDs[n])])
  BY <1>6 DEF Holds, HoldsTask
<1> DEFINE id   == TaskIDs[n]
           json == EncodeCreateImportTaskResponse([importTaskId |-> Str(id)])
<1>8. Sent(s).body = {json}
  <2>1. Sent(s) = EncodeImporttasksResponse(r)
    BY <1>6, ByOperation
  <2>2. r.type = "CreateImportTaskResponse" /\ r.value = [importTaskId |-> Str(id)]
    BY <1>7, StatusFacts
  <2> HIDE DEF id
  <2> QED
    BY <2>1, <2>2, StatusFacts DEF EncodeImporttasksResponse
<1>9. \E x : (x = json \/ x \in Varied(json)) /\ v \in Decode(CreateImportTaskResponse, x)
  <2> HIDE DEF json
  <2>1. PICK x : (x = json \/ x \in Varied(json)) /\ http.body = {x}
    BY <1>4, <1>8
  <2>2. v \in Decode(CreateImportTaskResponse, x)
    BY <1>3, <2>1 DEF BodyOf
  <2> QED
    BY <2>1, <2>2
<1>10. v["importTaskId"] \in {Str(id), Str(Empty)}
  <2>1. PICK x : (x = json \/ x \in Varied(json)) /\ v \in Decode(CreateImportTaskResponse, x)
    BY <1>9
  <2> HIDE DEF id
  <2> QED
    BY <2>1, IDsRead
<1>11. ID(res, "importTaskId") \in {id, Empty}
  <2>1. \A i : Str(i)[2] = i
    BY DEF Str
  <2>2. ID(res, "importTaskId") = v["importTaskId"][2]
    BY <1>3 DEF ID
  <2> HIDE DEF id
  <2> QED
    BY <1>10, <2>1, <2>2
<1> QED
  BY <1>5, <1>6, <1>7, <1>11

\* Only who asked for a task reads that one was created.
LEMMA TasksAreAskedFor ==
  ASSUME NEW op \in Operations, NEW a, NEW res \in DecodeResponse(op, a),
         res.type = "CreateImportTaskResponse"
  PROVE  op = "importtasks"
<1>1. ASSUME NEW contentType, NEW statuses, statuses \subseteq ProblemCodes,
             res \in UnderstandProblem(a, contentType, Problems(statuses))
      PROVE  FALSE
  <2>1. res.type \in DOMAIN ProblemStatus
    BY <1>1, ProblemRead
  <2> QED
    BY <2>1 DEF ProblemStatus
<1>0. /\ {401, 404, 409, 500} \subseteq ProblemCodes /\ {400, 401, 404, 415} \subseteq ProblemCodes
      /\ {401, 404, 500} \subseteq ProblemCodes
  BY DEF ProblemCodes
<1>2. ASSUME op = "healthz" PROVE FALSE
  <2>1. res \in DecodeHealthzResponse(a)
    BY <1>2, ByOperation
  <2>2. a.status \in DOMAIN HealthzResults /\ \E v : res = Typed(HealthzResults[a.status], v)
    BY <2>1 DEF DecodeHealthzResponse, Understand
  <2>3. HealthzResults[a.status] \in {"OK", "ServiceUnavailable"}
    BY <2>2 DEF HealthzResults
  <2> QED
    BY <2>2, <2>3, StatusFacts
<1>3. ASSUME op = "cancel" PROVE FALSE
  <2>1. res \in DecodeCancelResponse(a)
    BY <1>3, ByOperation
  <2>2. res = Typed("NoContent", <<>>) \/ res \in UnderstandProblem(a, JSON, Problems({401, 404, 409, 500}))
    BY <2>1 DEF DecodeCancelResponse, CancelProblems
  <2> QED
    BY <1>0, <1>1, <2>2, StatusFacts
<1>4. ASSUME op = "importruns" PROVE FALSE
  <2>1. res \in DecodeImportrunsResponse(a)
    BY <1>4, ByOperation
  <2>2. \/ res \in Understand(a, JSON, "CreateImportRunResponse", BodyOf(a, CreateImportRunResponse))
        \/ res \in UnderstandProblem(a, ProblemJSON, Problems({400, 401, 404, 415}))
    BY <2>1 DEF DecodeImportrunsResponse, ImportrunsProblems
  <2> QED
    BY <1>0, <1>1, <2>2, StatusFacts DEF Understand
<1>5. ASSUME op = "runstatus" PROVE FALSE
  <2>1. res \in DecodeRunStatusResponse(a)
    BY <1>5, ByOperation
  <2>2. \/ \E v : res = Typed("ImportRunStatusResponse", v)
        \/ res \in UnderstandProblem(a, JSON, Problems({401, 404, 500}))
    BY <2>1 DEF DecodeRunStatusResponse, Understand, RunStatusProblems
  <2> QED
    BY <1>0, <1>1, <2>2, StatusFacts
<1>6. ASSUME op = "status" PROVE FALSE
  <2>1. res \in DecodeStatusResponse(a)
    BY <1>6, ByOperation
  <2>2. \/ \E v : res = Typed("ImportTaskStatusResponse", v)
        \/ res \in UnderstandProblem(a, JSON, Problems({401, 404, 500}))
    BY <2>1 DEF DecodeStatusResponse, Understand, StatusProblems
  <2> QED
    BY <1>0, <1>1, <2>2, StatusFacts
<1> QED
  BY <1>2, <1>3, <1>4, <1>5, <1>6 DEF Operations

\* What a caller has read was sent to it.
LEMMA ReadFromSent ==
  ASSUME WireInv, TruthInv, NEW c \in Callers, NEW res \in client[c].results
  PROVE  \E s \in served : \E http :
           /\ s.from = c /\ s.invocation.op = client[c].call.op /\ s.invocation.op \in Operations
           /\ Arrives(s, http, client[c].disturbed)
           /\ client[c].results = DecodeResponse(s.invocation.op, http)
<1>1. PICK s, http : /\ s \in served /\ s.from = c /\ Arrives(s, http, client[c].disturbed)
                     /\ client[c].results = DecodeResponse(client[c].call.op, http)
  BY DEF WireInv, ResultsInv
<1> QED
  BY <1>1, SentFacts

\* What was read undisturbed is the reply, and holds.
LEMMA ReadHolds ==
  ASSUME WireInv, TruthInv, NEW c \in Callers, NEW res \in client[c].results, ~client[c].disturbed
  PROVE  \/ res.type = "Unauthorized"
         \/ \E s \in served : /\ s.from = c /\ Replied(s) /\ s.reply = {res}
                              /\ s.invocation.id = client[c].call.id
                              /\ Holds(s.invocation, res)
<1>1. PICK s, http :
        /\ s \in served
        /\ s.from = c /\ s.invocation.op = client[c].call.op
        /\ Arrives(s, http, client[c].disturbed)
        /\ client[c].results = DecodeResponse(s.invocation.op, http)
  BY ReadFromSent
<1>2. client[c].results = DecodeResponse(s.invocation.op, Sent(s))
  BY <1>1 DEF Arrives
<1>3. CASE s.invocation.refusal # 0
  BY <1>1, <1>2, <1>3, ReadFacts, StatusFacts
<1>4. CASE s.invocation.refusal = 0
  <2>1. PICK r : s.reply = {r} /\ Holds(s.invocation, r) /\ s.invocation.id = client[c].call.id
    BY <1>1, <1>4, SentFacts
  <2>2. client[c].results = {r}
    BY <1>1, <1>2, <1>4, <2>1, ReadFacts
  <2> QED
    BY <1>1, <1>4, <2>1, <2>2 DEF Replied
<1> QED
  BY <1>3, <1>4

\* The ID of a task was told to nobody else.
LEMMA NobodyElsesID ==
  ASSUME WireInv, ServerInv, TruthInv, NEW c \in Callers, NEW d \in Callers, d # c,
         NEW s \in served, s.from = c, Replied(s), s.invocation.op = "importtasks",
         NEW n \in Known, NEW res,
         res = Typed("CreateImportTaskResponse", [importTaskId |-> Str(TaskIDs[n])]),
         s.reply = {res}
  PROVE  res \notin client[d].results
<1> SUFFICES ASSUME res \in client[d].results PROVE FALSE
  OBVIOUS
<1>1. PICK r, http :
        /\ r \in served
        /\ r.from = d /\ r.invocation.op = client[d].call.op /\ r.invocation.op \in Operations
        /\ Arrives(r, http, client[d].disturbed)
        /\ client[d].results = DecodeResponse(r.invocation.op, http)
  BY ReadFromSent
<1>2. res.type = "CreateImportTaskResponse"
  BY StatusFacts
<1>3. r.invocation.op = "importtasks"
  BY <1>1, <1>2, TasksAreAskedFor
<1>4. r.invocation.refusal = 0
  BY <1>1, <1>2, <1>3, CreatedFacts
<1>5. PICK m \in Known :
        /\ r.reply = {Typed("CreateImportTaskResponse", [importTaskId |-> Str(TaskIDs[m])])}
        /\ ID(res, "importTaskId") \in {TaskIDs[m], Empty}
  BY <1>1, <1>2, <1>3, CreatedFacts
<1>6. ID(res, "importTaskId") = TaskIDs[n]
  BY StatusFacts DEF ID, Str
<1>7. TaskIDs[n] = TaskIDs[m]
  BY <1>5, <1>6, KnownIDs DEF WireInv, TruthInv
<1>8. r.reply = s.reply
  BY <1>5, <1>7
<1>9. r = s
  BY <1>1, <1>3, <1>4, <1>8 DEF TruthInv, CreatedInv, Replied
<1> QED
  BY <1>1, <1>9

\* What an undisturbed answer says goes on being true.
LEMMA StayFacts ==
  ASSUME WireInv, ServerInv, TruthInv
  PROVE  AnswersStayTrue
<1> SUFFICES ASSUME NEW c \in Callers, NEW res \in client[c].results, ~client[c].disturbed
             PROVE  LET of == TaskOf(client[c].call.id) IN
                      CASE res.type = "NoContent" -> \A n \in of : tasks[n].status = "Abgebrochen"
                        [] res.type = "Conflict"  -> \A n \in of : tasks[n].status = "Importiert"
                        [] res.type = "CreateImportTaskResponse" ->
                             /\ TaskOf(ID(res, "importTaskId")) # {}
                             /\ \A d \in Callers \ {c} : res \notin client[d].results
                        [] res.type = "CreateImportRunResponse"  -> \A n \in of :
                             tasks[n].run # NoRun /\ RunIDs[tasks[n].run] = ID(res, "importRunId")
                        [] OTHER -> TRUE
  BY Zenon DEF AnswersStayTrue
<1> DEFINE of == TaskOf(client[c].call.id)
<1>1. \A m, n \in of : m = n
  BY OneTask DEF WireInv, TruthInv
<1>2. /\ res.type = "NoContent" => \A n \in of : tasks[n].status = "Abgebrochen"
      /\ res.type = "Conflict" => \A n \in of : tasks[n].status = "Importiert"
      /\ res.type = "CreateImportTaskResponse" =>
           /\ TaskOf(ID(res, "importTaskId")) # {}
           /\ \A d \in Callers \ {c} : res \notin client[d].results
      /\ res.type = "CreateImportRunResponse" => \A n \in of :
           tasks[n].run # NoRun /\ RunIDs[tasks[n].run] = ID(res, "importRunId")
  <2>1. CASE res.type = "Unauthorized"
    BY <2>1
  <2>2. CASE \E s \in served : /\ s.from = c /\ Replied(s) /\ s.reply = {res}
                               /\ s.invocation.id = client[c].call.id
                               /\ Holds(s.invocation, res)
    <3>1. PICK s \in served : /\ s.from = c /\ Replied(s) /\ s.reply = {res}
                              /\ s.invocation.id = client[c].call.id
                              /\ Holds(s.invocation, res)
      BY <2>2
    <3>2. /\ res.type = "NoContent" => HoldsCanceled(s.invocation, res)
          /\ res.type = "Conflict" => \E n \in TaskOf(s.invocation.id) : tasks[n].status = "Importiert"
          /\ res.type = "CreateImportTaskResponse" =>
               s.invocation.op = "importtasks" /\ HoldsTask(res)
          /\ res.type = "CreateImportRunResponse" => HoldsRun(s.invocation, res)
      BY <3>1, HoldsByType
    <3>3. res.type = "NoContent" => \A n \in of : tasks[n].status = "Abgebrochen"
      BY <1>1, <3>1, <3>2 DEF HoldsCanceled
    <3>4. res.type = "Conflict" => \A n \in of : tasks[n].status = "Importiert"
      BY <1>1, <3>1, <3>2
    <3>5. res.type = "CreateImportTaskResponse" =>
            /\ TaskOf(ID(res, "importTaskId")) # {}
            /\ \A d \in Callers \ {c} : res \notin client[d].results
      <4> SUFFICES ASSUME res.type = "CreateImportTaskResponse"
                   PROVE  /\ TaskOf(ID(res, "importTaskId")) # {}
                          /\ \A d \in Callers \ {c} : res \notin client[d].results
        OBVIOUS
      <4>1. PICK n \in Known :
              res = Typed("CreateImportTaskResponse", [importTaskId |-> Str(TaskIDs[n])])
        BY <3>2 DEF HoldsTask
      <4>2. ID(res, "importTaskId") = TaskIDs[n]
        BY <4>1, StatusFacts DEF ID, Str
      <4>3. n \in TaskOf(ID(res, "importTaskId"))
        BY <4>2 DEF TaskOf
      <4>4. \A d \in Callers \ {c} : res \notin client[d].results
        BY <3>1, <3>2, <4>1, NobodyElsesID
      <4> QED
        BY <4>3, <4>4
    <3>6. res.type = "CreateImportRunResponse" => \A n \in of :
            tasks[n].run # NoRun /\ RunIDs[tasks[n].run] = ID(res, "importRunId")
      <4> SUFFICES ASSUME res.type = "CreateImportRunResponse", NEW n \in of
                   PROVE  tasks[n].run # NoRun /\ RunIDs[tasks[n].run] = ID(res, "importRunId")
        OBVIOUS
      <4>1. /\ tasks[n].run # NoRun
            /\ res = Typed("CreateImportRunResponse", [importRunId |-> Str(RunIDs[tasks[n].run])])
        BY <1>1, <3>1, <3>2 DEF HoldsRun
      <4>2. ID(res, "importRunId") = RunIDs[tasks[n].run]
        BY <4>1, StatusFacts DEF ID, Str
      <4> QED
        BY <4>1, <4>2
    <3> QED
      BY <3>3, <3>4, <3>5, <3>6
  <2> QED
    BY <2>1, <2>2, ReadHolds
<1> HIDE DEF of
<1>3. /\ ~(res.type = "NoContent" /\ res.type = "Conflict")
      /\ ~(res.type = "NoContent" /\ res.type = "CreateImportTaskResponse")
      /\ ~(res.type = "NoContent" /\ res.type = "CreateImportRunResponse")
      /\ ~(res.type = "Conflict" /\ res.type = "CreateImportTaskResponse")
      /\ ~(res.type = "Conflict" /\ res.type = "CreateImportRunResponse")
      /\ ~(res.type = "CreateImportTaskResponse" /\ res.type = "CreateImportRunResponse")
  OBVIOUS
<1>4. (CASE res.type = "NoContent" -> \A n \in of : tasks[n].status = "Abgebrochen"
         [] res.type = "Conflict"  -> \A n \in of : tasks[n].status = "Importiert"
         [] res.type = "CreateImportTaskResponse" ->
              /\ TaskOf(ID(res, "importTaskId")) # {}
              /\ \A d \in Callers \ {c} : res \notin client[d].results
         [] res.type = "CreateImportRunResponse"  -> \A n \in of :
              tasks[n].run # NoRun /\ RunIDs[tasks[n].run] = ID(res, "importRunId")
         [] OTHER -> TRUE)
  BY <1>2, <1>3, Zenon
<1> QED
  BY <1>4, Zenon DEF of

\* What an undisturbed answer says goes on being true: that a task was canceled or imported,
\* that it exists, which run it has, and that its ID is nobody else's.
THEOREM TruthStays == Spec => []AnswersStayTrue
<1>1. WireInv /\ ServerInv /\ TruthInv => AnswersStayTrue
  BY StayFacts
<1> QED
  BY <1>1, TruthInvariance, PTL

-----------------------------------------------------------------------------
(* What a poll concludes.                                                   *)

\* What a poll reads of a task as t had it: its status, its results unless somebody took them
\* out, and all of it when nobody disturbed the answer.
ReadOf(t, v, disturbed) ==
  /\ "status" \in DOMAIN v /\ v["status"] = Str(t.status)
  /\ Get(v, "analysisResult") \subseteq Get(StatusValue(t), "analysisResult")
  /\ Get(v, "importResult") \subseteq Get(StatusValue(t), "importResult")
  /\ ~disturbed => v = StatusValue(t)

\* The fields of a status are those of its record.
LEMMA StatusFields ==
  ASSUME NEW t, NEW json, json = EncodeImportTaskStatusResponse(StatusValue(t)),
         NEW i \in 1..Len(json)
  PROVE  json[i][1] \in DOMAIN StatusValue(t) /\ json[i][2] = StatusValue(t)[json[i][1]]
<1> DEFINE v     == StatusValue(t)
           order == <<"status", "analysisResult", "analysisProgressInPercent",
                      "analysisErrorMessage", "importResult">>
<1>1. Len(order) \in Nat /\ Distinct(order)
  <2>1. Len(order) = 5
    OBVIOUS
  <2> QED
    BY <2>1, OrdersAreDistinct
<1>2. json = Encode(v, order)
  BY DEF EncodeImportTaskStatusResponse
<1> HIDE DEF v, order
<1>3. Wrote(json, v, order, Len(order))
  BY <1>1, <1>2, EncodeWrites
<1>4. json \in Seq(FieldsOf(v))
  BY <1>3 DEF Wrote
<1>5. json[i] \in FieldsOf(v)
  BY <1>4
<1> QED
  BY <1>5 DEF FieldsOf, v

\* A value of an enum that was written or varied and that the validator lets through is the
\* one that was written.
LEMMA EnumsRead ==
  ASSUME NEW t, NEW json, json = EncodeImportTaskStatusResponse(StatusValue(t)),
         NEW x, Len(x) \in Nat, \A i \in 1..Len(x) : Varies(json, x[i]),
         NEW v \in Decode(ImportTaskStatusResponse, x), NEW k \in Enums, k \in DOMAIN v,
         Get(v, k) \cap {Empty, "Zurueckgestellt"} = {}
  PROVE  v[k] = Null \/ (k \in DOMAIN StatusValue(t) /\ v[k] = StatusValue(t)[k])
<1>1. PICK i \in 1..Len(x) : x[i][1] = k /\ x[i][2] = v[k]
  BY FieldsDecoded
<1>2. k # "traceId"
  BY DEF Enums
<1>3. PICK j \in 1..Len(json) :
        \/ x[i] = json[j]
        \/ x[i] = <<json[j][1], Str(Empty)>>
        \/ x[i] = <<json[j][1], Null>>
        \/ x[i] = <<json[j][1], Str("Zurueckgestellt")>>
  BY <1>1, <1>2 DEF Varies
<1>4. ASSUME NEW s, v[k] = Str(s) PROVE s \in Get(v, k)
  <2>1. v[k][2] = s /\ v[k][1] = "string" /\ Null[1] = "null"
    BY <1>4 DEF Str, Null
  <2>2. v[k] # Null
    BY <2>1
  <2> QED
    BY <2>1, <2>2 DEF Get
<1>5. v[k] # Str(Empty) /\ v[k] # Str("Zurueckgestellt")
  BY <1>4
<1> QED
  BY <1>1, <1>3, <1>5, StatusFields

\* However a status was varied, what is read and valid is the status of the task, with its
\* results or without them.
LEMMA StatusRead ==
  ASSUME NEW t, TaskRecord(t), NEW json, json = EncodeImportTaskStatusResponse(StatusValue(t)),
         NEW x, NEW disturbed, x = json \/ (disturbed /\ x \in Varied(json)),
         NEW v \in Decode(ImportTaskStatusResponse, x), ValidateImportTaskStatusResponse(v)
  PROVE  ReadOf(t, v, disturbed)
<1> DEFINE m == ImportTaskStatusResponse
<1>1. IsJson(json) /\ Len(json) \in Nat
  BY MessagesAreJson DEF IsJson
<1>2. Len(x) \in Nat /\ \A i \in 1..Len(x) : Varies(json, x[i])
  <2>1. CASE x = json
    BY <1>1, <2>1 DEF Varies
  <2>2. CASE x \in Varied(json)
    BY <1>1, <2>2, VariedFields
  <2> QED
    BY <2>1, <2>2
<1>3. /\ Get(v, "status") \cap {Empty, "Zurueckgestellt"} = {}
      /\ Get(v, "analysisResult") \cap {Empty, "Zurueckgestellt"} = {}
      /\ Get(v, "importResult") \cap {Empty, "Zurueckgestellt"} = {}
  BY DEF ValidateImportTaskStatusResponse, ValidImportTaskStatus, ValidAnalysisResult,
         ValidImportResult, Empty
<1>4. ASSUME NEW k \in Enums, k \in DOMAIN v
      PROVE  v[k] = Null \/ (k \in DOMAIN StatusValue(t) /\ v[k] = StatusValue(t)[k])
  <2>1. Get(v, k) \cap {Empty, "Zurueckgestellt"} = {}
    BY <1>3, <1>4 DEF Enums
  <2> QED
    BY <1>2, <1>4, <2>1, EnumsRead
<1>5. "status" \in DOMAIN v /\ v["status"] = Str(t.status)
  <2>1. m.required = {"status"} /\ TypeOf(m, "status") = {"string"}
    BY DEF TypeOf, ImportTaskStatusResponse, Message, ImportTaskStatus, String
  <2>2. "status" \in DOMAIN v
    BY <1>2, <2>1, DecodeSays
  <2>3. v["status"][1] = "string"
    BY <1>2, <2>1, <2>2, FieldsDecoded
  <2>4. v["status"] # Null
    BY <2>3 DEF Null
  <2>5. v["status"] = StatusValue(t)["status"]
    BY <1>4, <2>2, <2>4 DEF Enums
  <2> QED
    BY <2>2, <2>5, StatusValueFacts
<1>6. ASSUME NEW k \in Enums PROVE Get(v, k) \subseteq Get(StatusValue(t), k)
  BY <1>4, <1>6 DEF Get
<1>7. ~disturbed => v = StatusValue(t)
  <2>1. Decode(m, json) = {StatusValue(t)}
    BY StatusComesBack
  <2> QED
    BY <2>1
<1> QED
  BY <1>5, <1>6, <1>7 DEF ReadOf, Enums

\* What a poll reads: a status the task had and goes on from, the error of a server, or the
\* refusal the server sent.
LEMMA StatusIsOfTheTask ==
  ASSUME WireInv, TruthInv, NEW s \in served, s.from \in Callers, NEW http, NEW disturbed,
         Arrives(s, http, disturbed), s.invocation.op = "status",
         NEW res \in DecodeResponse(s.invocation.op, http)
  PROVE  \/ \E n \in TaskOf(client[s.from].call.id) : \E t, v :
              /\ TaskRecord(t) /\ Follows(t, tasks[n]) /\ ReadOf(t, v, disturbed)
              /\ res = Typed("ImportTaskStatusResponse", v)
         \/ res.type = "InternalServerError"
         \/ res.type \in DOMAIN ProblemStatus /\ s.status \in {401, 404}
<1>1. res \in DecodeStatusResponse(http)
  BY ByOperation
<1>2. /\ s.status = Sent(s).status
      /\ \/ http = Sent(s)
         \/ http.status \in {500, 502}
         \/ /\ http.status = Sent(s).status /\ disturbed
            /\ \E b, x : b \in Sent(s).body /\ x \in Varied(b) /\ http.body = {x}
  <2>1. s.status = Sent(s).status
    BY DEF WireInv, ServedInv
  <2> QED
    BY <2>1, DisturbedFacts DEF Arrives
<1>3. CASE http.status # 200
  <2>1. res \in UnderstandProblem(http, JSON, Problems({401, 404, 500}))
    BY <1>1, <1>3 DEF DecodeStatusResponse, StatusProblems
  <2>2. {401, 404, 500} \subseteq ProblemCodes
    BY DEF ProblemCodes
  <2>3. /\ http.status \in {401, 404, 500} /\ res.type \in DOMAIN ProblemStatus
        /\ http.status = 500 => res.type = "InternalServerError"
    BY <2>1, <2>2, ProblemRead
  <2> QED
    BY <1>2, <2>3
<1>4. CASE http.status = 200
  <2>1. /\ Sent(s).status = 200
        /\ \/ http = Sent(s)
           \/ disturbed /\ \E b, x : b \in Sent(s).body /\ x \in Varied(b) /\ http.body = {x}
    BY <1>2, <1>4
  <2>2. s.invocation.refusal = 0
    <3>1. s.invocation.refusal \in {400, 401} => Sent(s).status = s.invocation.refusal
      BY SentFacts, RefusalStatus
    <3> QED
      BY <2>1, <3>1, SentFacts
  <2>3. PICK r : Holds(s.invocation, r) /\ Sent(s) = EncodeResponse(s.invocation.op, r)
    BY <2>2, SentFacts
  <2>4. s.invocation.id = client[s.from].call.id
    BY <2>2, SentFacts
  <2>5. ~HoldsProblem(s.invocation, r)
    <3>1. SUFFICES ASSUME NEW type \in ProblemsOf(s.invocation.op), NEW detail,
                          r = Problem(type, ProblemStatus[type], detail)
                   PROVE  FALSE
      BY DEF HoldsProblem
    <3>2. Sent(s).status = ProblemStatus[type]
      BY <2>3, <3>1, ProblemsAreUnderstood
    <3>3. type = "NotFound"
      BY ProblemTables DEF ProblemsOf
    <3> QED
      BY <2>1, <3>2, <3>3 DEF ProblemStatus
  <2>6. PICK n, t :
          /\ n \in TaskOf(s.invocation.id)
          /\ TaskRecord(t) /\ Follows(t, tasks[n]) /\ r = Typed("ImportTaskStatusResponse", StatusValue(t))
    BY <2>3, <2>5 DEF Holds, HoldsStatus
  <2>7. PICK json : json = EncodeImportTaskStatusResponse(StatusValue(t))
    OBVIOUS
  <2>8. Sent(s).body = {json}
    <3>1. Sent(s) = EncodeStatusResponse(r)
      BY <2>3, ByOperation
    <3>2. r.type = "ImportTaskStatusResponse" /\ r.value = StatusValue(t)
      BY <2>6, StatusFacts
    <3> QED
      BY <2>7, <3>1, <3>2, StatusFacts DEF EncodeStatusResponse
  <2>9. PICK x : (x = json \/ (disturbed /\ x \in Varied(json))) /\ http.body = {x}
    BY <2>1, <2>8
  <2>10. PICK v : /\ v \in BodyOf(http, ImportTaskStatusResponse) /\ ValidateImportTaskStatusResponse(v)
                  /\ res = Typed("ImportTaskStatusResponse", v)
    BY <1>1, <1>4 DEF DecodeStatusResponse, Understand
  <2>11. v \in Decode(ImportTaskStatusResponse, x)
    BY <2>9, <2>10 DEF BodyOf
  <2>12. ReadOf(t, v, disturbed)
    BY <2>6, <2>7, <2>9, <2>10, <2>11, StatusRead
  <2> QED
    BY <2>4, <2>6, <2>10, <2>12
<1> QED
  BY <1>3, <1>4

\* What the polls conclude from one result.
LEMMA VerdictFacts ==
  /\ AnalysisVerdict({}) = "retry" /\ ImportVerdict({}) = "retry"
  /\ \A res :
       /\ res.type = "InternalServerError" =>
            AnalysisVerdict({res}) = "retry" /\ ImportVerdict({res}) = "retry"
       /\ res.type # "ImportTaskStatusResponse" =>
            AnalysisVerdict({res}) # "done" /\ ImportVerdict({res}) # "done"
       /\ res.type = "ImportTaskStatusResponse" =>
            /\ AnalysisVerdict({res}) \in {"done", "final"} =>
                 ~(Status(res, "status") \subseteq {"Neu", "InAnalyse"})
            /\ AnalysisVerdict({res}) = "done" => /\ Status(res, "status") = {"Analysiert"}
                                                  /\ Status(res, "analysisResult") # {}
            /\ AnalysisVerdict({res}) = "final" => \/ Status(res, "status") # {"Analysiert"}
                                                   \/ Status(res, "analysisResult") = {}
            /\ ImportVerdict({res}) = "done" => /\ Status(res, "status") = {"Importiert"}
                                                /\ Status(res, "importResult") # {}
<1>1. AnalysisVerdict({}) = "retry" /\ ImportVerdict({}) = "retry"
  <2>1. ~(\E res \in {} : res.type = "ImportTaskStatusResponse") /\ ~(\E res \in {} : res.type = "InternalServerError")
    OBVIOUS
  <2> QED
    BY <2>1, Zenon DEF AnalysisVerdict, ImportVerdict
<1>2. ASSUME NEW res, res.type = "ImportTaskStatusResponse"
      PROVE  /\ AnalysisVerdict({res}) =
                  (CASE Status(res, "status") \subseteq {"Neu", "InAnalyse"} -> "wait"
                     [] Status(res, "status") = {"Analysiert"} ->
                          IF Status(res, "analysisResult") = {} THEN "final" ELSE "done"
                     [] OTHER -> "final")
             /\ ImportVerdict({res}) =
                  (CASE Status(res, "status") \subseteq {"Analysiert", "WirdImportiert"} -> "wait"
                     [] Status(res, "status") = {"Importiert"} ->
                          IF Status(res, "importResult") = {} THEN "final" ELSE "done"
                     [] OTHER -> "final")
  <2>1. /\ {res} # {} /\ \E r \in {res} : r.type = "ImportTaskStatusResponse"
        /\ ~(\E r \in {res} : r.type = "InternalServerError") /\ (CHOOSE r \in {res} : TRUE) = res
    BY <1>2
  <2> QED
    BY <2>1, Zenon DEF AnalysisVerdict, ImportVerdict
<1>3. ASSUME NEW res, res.type # "ImportTaskStatusResponse"
      PROVE  /\ AnalysisVerdict({res}) # "done" /\ ImportVerdict({res}) # "done"
             /\ res.type = "InternalServerError" =>
                  AnalysisVerdict({res}) = "retry" /\ ImportVerdict({res}) = "retry"
  <2>1. {res} # {} /\ ~(\E r \in {res} : r.type = "ImportTaskStatusResponse")
    BY <1>3
  <2>2. CASE res.type = "InternalServerError"
    <3>1. \E r \in {res} : r.type = "InternalServerError"
      BY <2>2
    <3>2. AnalysisVerdict({res}) = "retry" /\ ImportVerdict({res}) = "retry"
      BY <2>1, <3>1, Zenon DEF AnalysisVerdict, ImportVerdict
    <3> QED
      BY <3>2
  <2>3. CASE res.type # "InternalServerError"
    <3>1. ~(\E r \in {res} : r.type = "InternalServerError")
      BY <2>3
    <3>2. AnalysisVerdict({res}) = "final" /\ ImportVerdict({res}) = "final"
      BY <2>1, <3>1, Zenon DEF AnalysisVerdict, ImportVerdict
    <3> QED
      BY <2>3, <3>2
  <2> QED
    BY <2>2, <2>3
<1>4. ASSUME NEW res, res.type = "ImportTaskStatusResponse"
      PROVE  /\ AnalysisVerdict({res}) \in {"done", "final"} =>
                  ~(Status(res, "status") \subseteq {"Neu", "InAnalyse"})
             /\ AnalysisVerdict({res}) = "done" => /\ Status(res, "status") = {"Analysiert"}
                                                   /\ Status(res, "analysisResult") # {}
             /\ AnalysisVerdict({res}) = "final" => \/ Status(res, "status") # {"Analysiert"}
                                                    \/ Status(res, "analysisResult") = {}
             /\ ImportVerdict({res}) = "done" => /\ Status(res, "status") = {"Importiert"}
                                                 /\ Status(res, "importResult") # {}
  <2> DEFINE S == Status(res, "status")
             waits == S \subseteq {"Neu", "InAnalyse"}
             over  == S = {"Analysiert"}
             none  == Status(res, "analysisResult") = {}
             left  == S \subseteq {"Analysiert", "WirdImportiert"}
             there == S = {"Importiert"}
             blank == Status(res, "importResult") = {}
  <2> HIDE DEF S
  <2>1. ~(waits /\ over) /\ ~(left /\ there)
    OBVIOUS
  <2>2. waits => AnalysisVerdict({res}) = "wait"
    BY <1>2, <1>4, <2>1, Zenon DEF S
  <2>3. over => AnalysisVerdict({res}) = IF none THEN "final" ELSE "done"
    BY <1>2, <1>4, <2>1, Zenon DEF S
  <2>4. ~waits /\ ~over => AnalysisVerdict({res}) = "final"
    BY <1>2, <1>4, <2>1, Zenon DEF S
  <2>5. left => ImportVerdict({res}) = "wait"
    BY <1>2, <1>4, <2>1, Zenon DEF S
  <2>6. ~left /\ ~there => ImportVerdict({res}) = "final"
    BY <1>2, <1>4, <2>1, Zenon DEF S
  <2>7. there => ImportVerdict({res}) = IF blank THEN "final" ELSE "done"
    BY <1>2, <1>4, <2>1, Zenon DEF S
  <2>8. S = Status(res, "status")
    BY DEF S
  <2> QED
    BY <2>1, <2>2, <2>3, <2>4, <2>5, <2>6, <2>7, <2>8
<1> QED
  BY <1>1, <1>3, <1>4

\* What a status read tells of the task it goes on from.
LEMMA StatusTold ==
  ASSUME NEW t, TaskRecord(t), NEW u, Follows(t, u), NEW v, NEW disturbed,
         ReadOf(t, v, disturbed), NEW res, res = Typed("ImportTaskStatusResponse", v)
  PROVE  /\ Status(res, "status") = {t.status}
         /\ t.status = "Analysiert" =>
              /\ u.analysisDone
              /\ Status(res, "analysisResult") \subseteq {u.analysisResult}
              /\ ~disturbed => Status(res, "analysisResult") # {}
         /\ t.status = "Importiert" => /\ u.importDone
                                       /\ Status(res, "importResult") \subseteq {u.importResult}
         /\ ~({t.status} \subseteq {"Neu", "InAnalyse"}) /\ t.status # "Analysiert" =>
              u.status \in {"WirdImportiert", "Importiert", "Abgebrochen"}
<1>1. PICK w : w = StatusValue(t)
  OBVIOUS
<1>2. \A s : Str(s)[2] = s /\ Str(s) # Null
  <2>1. ASSUME NEW s PROVE Str(s)[1] = "string" /\ Str(s)[2] = s
    BY DEF Str
  <2>2. Null[1] = "null"
    BY DEF Null
  <2> QED
    BY <2>1, <2>2
<1>3. /\ "analysisResult" \in DOMAIN w <=> t.analysisDone
      /\ "importResult" \in DOMAIN w <=> t.importDone
      /\ t.analysisDone => w["analysisResult"] = Str(t.analysisResult)
      /\ t.importDone => w["importResult"] = Str(t.importResult)
  BY <1>1, StatusValueFacts
<1>4. /\ t.analysisDone => Get(w, "analysisResult") = {t.analysisResult}
      /\ t.importDone => Get(w, "importResult") = {t.importResult}
  BY <1>2, <1>3 DEF Get
<1>5. /\ Get(v, "status") = {t.status}
      /\ Get(v, "analysisResult") \subseteq Get(w, "analysisResult")
      /\ Get(v, "importResult") \subseteq Get(w, "importResult")
      /\ ~disturbed => Get(v, "analysisResult") = Get(w, "analysisResult")
  BY <1>1, <1>2 DEF ReadOf, Get
<1>6. \A k : Status(res, k) = Get(v, k)
  BY StatusFacts DEF Status
<1>7. t.status \in Statuses /\ (t.status = "Analysiert" => t.analysisDone)
      /\ (t.status = "Importiert" => t.importDone)
  BY RecordFacts DEF TaskRecord
<1>8. t.status = "Analysiert" => u.analysisDone /\ u.analysisResult = t.analysisResult
  BY <1>7 DEF Follows
<1>9. t.status = "Importiert" => u.importDone /\ u.importResult = t.importResult
  BY <1>7 DEF Follows
<1>10. ~({t.status} \subseteq {"Neu", "InAnalyse"}) /\ t.status # "Analysiert" =>
         u.status \in {"WirdImportiert", "Importiert", "Abgebrochen"}
  BY <1>7 DEF Follows, Statuses
<1> QED
  BY <1>4, <1>5, <1>6, <1>7, <1>8, <1>9, <1>10

\* The three conclusions of a caller who polls.
LEMMA PollFacts ==
  ASSUME WireInv, TruthInv
  PROVE  PollsConcludeRightly
<1> SUFFICES ASSUME NEW c \in Callers, client[c].stage = "over", client[c].call.op = "status",
                    NEW results, results = client[c].results
             PROVE  LET told(key) == UNION {Status(res, key) : res \in results}
                        of == TaskOf(client[c].call.id)
                    IN /\ AnalysisVerdict(results) = "done" => \E n \in of :
                            tasks[n].analysisDone /\ told("analysisResult") = {tasks[n].analysisResult}
                       /\ ImportVerdict(results) = "done" => \E n \in of :
                            tasks[n].importDone /\ told("importResult") = {tasks[n].importResult}
                       /\ AnalysisVerdict(results) = "final" =>
                            \/ \E n \in of : tasks[n].status \in {"WirdImportiert", "Importiert", "Abgebrochen"}
                            \/ \E s \in served : s.from = c /\ s.status \in {401, 404}
                            \/ /\ client[c].disturbed
                               /\ told("status") = {"Analysiert"} /\ told("analysisResult") = {}
                               /\ \E n \in of : tasks[n].analysisDone
  BY DEF PollsConcludeRightly
<1>1. CASE results = {}
  BY <1>1, VerdictFacts
<1>2. CASE results # {}
  <2>1. PICK res : res \in client[c].results
    BY <1>2
  <2>2. PICK s, http :
          /\ s \in served
          /\ s.from = c /\ s.invocation.op = "status" /\ s.invocation.op \in Operations
          /\ Arrives(s, http, client[c].disturbed)
          /\ client[c].results = DecodeResponse(s.invocation.op, http)
    BY <2>1, ReadFromSent
  <2>3. AtMostOne(DecodeResponse(s.invocation.op, http))
    BY <2>2, BodiesAreRead, ReadOnce
  <2>4. results = {res}
    BY <2>1, <2>2, <2>3 DEF AtMostOne
  <2>5. \A key : UNION {Status(r, key) : r \in results} = Status(res, key)
    BY <2>4
  <2>6. \/ \E n \in TaskOf(client[c].call.id) : \E t, v :
             /\ TaskRecord(t) /\ Follows(t, tasks[n]) /\ ReadOf(t, v, client[c].disturbed)
             /\ res = Typed("ImportTaskStatusResponse", v)
        \/ res.type = "InternalServerError"
        \/ res.type \in DOMAIN ProblemStatus /\ s.status \in {401, 404}
    BY <2>1, <2>2, StatusIsOfTheTask
  <2>7. CASE res.type = "InternalServerError"
    BY <2>4, <2>7, VerdictFacts
  <2>8. CASE res.type \in DOMAIN ProblemStatus /\ s.status \in {401, 404}
    <3>1. res.type # "ImportTaskStatusResponse"
      BY <2>8 DEF ProblemStatus
    <3>2. AnalysisVerdict(results) # "done" /\ ImportVerdict(results) # "done"
      BY <2>4, <3>1, VerdictFacts
    <3> QED
      BY <2>2, <2>8, <3>2
  <2>9. CASE \E n \in TaskOf(client[c].call.id) : \E t, v :
               /\ TaskRecord(t) /\ Follows(t, tasks[n]) /\ ReadOf(t, v, client[c].disturbed)
               /\ res = Typed("ImportTaskStatusResponse", v)
    <3>1. PICK n, t, v :
            /\ n \in TaskOf(client[c].call.id)
            /\ TaskRecord(t) /\ Follows(t, tasks[n]) /\ ReadOf(t, v, client[c].disturbed)
            /\ res = Typed("ImportTaskStatusResponse", v)
      BY <2>9
    <3>2. res.type = "ImportTaskStatusResponse"
      BY <3>1, StatusFacts
    <3>3. PICK u : u = tasks[n]
      OBVIOUS
    <3>4. /\ Status(res, "status") = {t.status}
          /\ t.status = "Analysiert" =>
               /\ u.analysisDone
               /\ Status(res, "analysisResult") \subseteq {u.analysisResult}
               /\ ~client[c].disturbed => Status(res, "analysisResult") # {}
          /\ t.status = "Importiert" => /\ u.importDone
                                        /\ Status(res, "importResult") \subseteq {u.importResult}
          /\ ~({t.status} \subseteq {"Neu", "InAnalyse"}) /\ t.status # "Analysiert" =>
               u.status \in {"WirdImportiert", "Importiert", "Abgebrochen"}
      BY <3>1, <3>3, StatusTold
    <3>5. AnalysisVerdict(results) = "done" =>
            u.analysisDone /\ Status(res, "analysisResult") = {u.analysisResult}
      BY <2>4, <3>2, <3>4, VerdictFacts
    <3>6. ImportVerdict(results) = "done" =>
            u.importDone /\ Status(res, "importResult") = {u.importResult}
      BY <2>4, <3>2, <3>4, VerdictFacts
    <3>7. AnalysisVerdict(results) = "final" =>
            \/ u.status \in {"WirdImportiert", "Importiert", "Abgebrochen"}
            \/ /\ client[c].disturbed /\ u.analysisDone
               /\ Status(res, "status") = {"Analysiert"} /\ Status(res, "analysisResult") = {}
      BY <2>4, <3>2, <3>4, VerdictFacts
    <3> QED
      BY <2>5, <3>1, <3>3, <3>5, <3>6, <3>7, ZenonT(60)
  <2> QED
    BY <2>6, <2>7, <2>8, <2>9
<1> QED
  BY <1>1, <1>2

\* PollImportTaskStatusActivity and PollImportRunStatusActivity conclude only what is true of
\* their task, however many tasks and callers there are: "done" with the task's own result,
\* with any field of the status left out, repeated, null, unknown or in another place; and the
\* poll of the analysis is over for good only past the analysis, when the server refused the
\* question, or when the analysis is over and its result was taken from the answer.
THEOREM PollsAreRight == Spec => []PollsConcludeRightly
<1>1. WireInv /\ ServerInv /\ TruthInv => PollsConcludeRightly
  BY PollFacts
<1> QED
  BY <1>1, TruthInvariance, PTL

=============================================================================
