-------------------------- MODULE PoststorageProofs --------------------------
(***************************************************************************)
(* Proofs about Poststorage, for any number of runs, workers, slots and    *)
(* sessions.                                                               *)
(*                                                                         *)
(* The three safety properties speak of runs that are over, and of sets    *)
(* that all sessions of a run add to.  The invariant says how far each of  *)
(* them may have come at each step of a session.  It does not speak of     *)
(* lost and canceled: what dies, and when, makes no difference to it.      *)
(***************************************************************************)
EXTENDS Poststorage, FiniteSetTheorems, SequenceTheorems, TLAPS

Succ(name) == [name |-> name, outcome |-> "success"]

Fresh(p) == trail[p] = <<>> /\ import[p] = "none"
Done(p)  == /\ trail[p] = <<Succ("download"), Succ("submit"), Succ("wait")>>
            /\ import[p] = "Erfolgreich"

InSession == {"path", "fetch", "submit", "wait", "clean"}

\* The session that can be followed by another is not the last one.
SessionsBounded(p) ==
  /\ pc[p] = "sleep" => session[p] < MaxSessions
  /\ pc[p] \in InSession => worker[p] \in Workers
  /\ ended[p] = "running" <=> pc[p] # "over"

\* What a run without a failure has done at each step.  The first session does the
\* three tasks; one that comes after it finds them done, and APIS refuses to do the
\* second of them again.
SuccessSoFar(p) == outcome[p] = "success" =>
  /\ pc[p] = "start" => Fresh(p)
  /\ pc[p] \in {"session", "path", "fetch"} => Fresh(p) \/ Done(p)
  /\ pc[p] = "submit" /\ import[p] = "none" => trail[p] = <<Succ("download")>>
  /\ pc[p] = "wait" => trail[p] = <<Succ("download"), Succ("submit")>> /\ import[p] # "none"
  /\ pc[p] \in {"clean", "sleep"} => Done(p)
  /\ ended[p] = "result" => Fresh(p) \/ Done(p)

\* A session adds at most one failure, with its last activity.
FailuresSoFar(p) ==
  /\ Cardinality(Failures(p)) <=
       IF pc[p] \in {"clean", "sleep", "over"} THEN session[p] ELSE session[p] - 1
  /\ outcome[p] = "system error" <=> Failures(p) # {}

TasksSoFar(p) ==
  /\ Succeeded(p, "submit") => import[p] # "none"
  /\ Succeeded(p, "wait") => Succeeded(p, "submit") /\ import[p] = "Erfolgreich"
  /\ pc[p] = "wait" => Succeeded(p, "submit")

\* The directories the open session does not answer for: at most one of each session
\* before it.
Abandoned(p) == Left(p) \ (IF removing[p] THEN {worker[p]} ELSE {})

DownloadsSoFar(p) ==
  /\ IsFiniteSet(Left(p))
  /\ removing[p] => pc[p] \in {"fetch", "submit", "wait", "clean"}
  /\ pc[p] \in {"fetch", "submit", "wait"} => removing[p]
  /\ pc[p] \notin {"sleep", "over"} => Cardinality(Abandoned(p)) <= session[p] - 1
  /\ Cardinality(Left(p)) <= IF ended[p] = "result" THEN session[p] - 1 ELSE session[p]

RunInv(p) ==
  /\ SessionsBounded(p) /\ SuccessSoFar(p) /\ FailuresSoFar(p)
  /\ TasksSoFar(p) /\ DownloadsSoFar(p)

Inv == TypeOK /\ \A p \in Runs : RunInv(p)

-----------------------------------------------------------------------------
(* Lemmas.                                                                  *)

\* The positions of a sequence that is one longer.
LEMMA NextInterval ==
  ASSUME NEW n \in Nat
  PROVE  1..(n + 1) = 1..n \cup {n + 1} /\ n + 1 \notin 1..n
OBVIOUS

\* What Append does, position by position.
LEMMA AppendOne ==
  ASSUME NEW S, NEW seq \in Seq(S), NEW x \in S, NEW longer, longer = Append(seq, x)
  PROVE  /\ Len(seq) \in Nat
         /\ Len(longer) = Len(seq) + 1
         /\ \A i \in 1..Len(seq) : longer[i] = seq[i]
         /\ longer[Len(seq) + 1] = x
<1>1. Len(seq) \in Nat
  OBVIOUS
<1> QED
  BY <1>1, AppendProperties

\* The failures are positions of the trail, so there are finitely many.
LEMMA FailuresFinite ==
  ASSUME TypeOK, NEW p \in Runs
  PROVE  /\ Failures(p) \subseteq 1..Len(trail[p])
         /\ IsFiniteSet(Failures(p)) /\ Cardinality(Failures(p)) \in Nat
         /\ Len(trail[p]) \in Nat
<1>0. trail[p] \in Seq(Tasks)
  BY DEF TypeOK
<1>1. Len(trail[p]) \in Nat
  BY <1>0
<1>2. Failures(p) \subseteq 1..Len(trail[p])
  BY DEF Failures
<1>3. IsFiniteSet(1..Len(trail[p]))
  BY <1>1, FS_Interval
<1>4. IsFiniteSet(Failures(p))
  BY <1>2, <1>3, FS_Subset
<1> QED
  BY <1>1, <1>2, <1>4, FS_CardinalityType

\* A recorded task is a new position at the end of the trail, and a failure only if
\* it is recorded as one; the other runs' trails stay.
LEMMA RecordAppends ==
  ASSUME TypeOK, NEW p \in Runs, NEW name \in TaskNames,
         NEW o \in {"success", "system failure"}, Record(p, name, o)
  PROVE  /\ trail' \in [Runs -> Seq(Tasks)]
         /\ trail'[p] = Append(trail[p], [name |-> name, outcome |-> o])
         /\ \A q \in Runs \ {p} : trail'[q] = trail[q]
         /\ Failures(p)' = IF o = "success" THEN Failures(p)
                           ELSE Failures(p) \cup {Len(trail[p]) + 1}
         /\ \A n \in TaskNames : Succeeded(p, n)' <=> Succeeded(p, n) \/ (n = name /\ o = "success")
         /\ Submissions(p)' = IF name = "submit" /\ o = "success"
                              THEN Submissions(p) \cup {Len(trail[p]) + 1} ELSE Submissions(p)
<1> DEFINE t == [name |-> name, outcome |-> o]
<1>1. t \in Tasks /\ t.name = name /\ t.outcome = o
  BY DEF Tasks
<1>2. trail \in [Runs -> Seq(Tasks)] /\ trail[p] \in Seq(Tasks)
  BY DEF TypeOK
<1>3. trail' = [trail EXCEPT ![p] = Append(trail[p], t)]
  BY DEF Record, t
<1> HIDE DEF t
<1>4. Append(trail[p], t) \in Seq(Tasks)
  BY <1>1, <1>2, AppendProperties
<1>5. trail' \in [Runs -> Seq(Tasks)] /\ trail'[p] = Append(trail[p], t)
  BY <1>2, <1>3, <1>4
<1>6. \A q \in Runs \ {p} : trail'[q] = trail[q]
  BY <1>2, <1>3
<1>7. /\ Len(trail[p]) \in Nat
      /\ Len(trail'[p]) = Len(trail[p]) + 1
      /\ \A i \in 1..Len(trail[p]) : trail'[p][i] = trail[p][i]
      /\ trail'[p][Len(trail[p]) + 1] = t
  <2>1. trail[p] \in Seq(Tasks) /\ t \in Tasks /\ trail'[p] = Append(trail[p], t)
    BY <1>1, <1>2, <1>5
  <2> QED
    BY <2>1, AppendOne, ZenonT(60)
<1>8. 1..Len(trail'[p]) = 1..Len(trail[p]) \cup {Len(trail[p]) + 1}
  BY <1>7, NextInterval
<1>9. Failures(p)' = IF o = "success" THEN Failures(p) ELSE Failures(p) \cup {Len(trail[p]) + 1}
  BY <1>1, <1>7, <1>8 DEF Failures
<1>10. ASSUME NEW n \in TaskNames
       PROVE  Succeeded(p, n)' <=> Succeeded(p, n) \/ (n = name /\ o = "success")
  <2>1. Succeeded(p, n)' <=> \E i \in 1..Len(trail'[p]) : trail'[p][i] = Succ(n)
    BY DEF Succeeded, Succ
  <2>2. Succeeded(p, n) <=> \E i \in 1..Len(trail[p]) : trail[p][i] = Succ(n)
    BY DEF Succeeded, Succ
  <2>3. t = Succ(n) <=> n = name /\ o = "success"
    BY <1>1 DEF Succ, t
  <2> QED
    BY <2>1, <2>2, <2>3, <1>7, <1>8
<1>11. Submissions(p)' = IF name = "submit" /\ o = "success"
                        THEN Submissions(p) \cup {Len(trail[p]) + 1} ELSE Submissions(p)
  <2>1. t = Succ("submit") <=> name = "submit" /\ o = "success"
    BY <1>1 DEF Succ, t
  <2>2. Submissions(p)' = {i \in 1..Len(trail'[p]) : trail'[p][i] = Succ("submit")}
    BY DEF Submissions, Succ
  <2>3. Submissions(p) = {i \in 1..Len(trail[p]) : trail[p][i] = Succ("submit")}
    BY DEF Submissions, Succ
  <2> QED
    BY <1>7, <1>8, <2>1, <2>2, <2>3
<1> QED
  BY <1>5, <1>6, <1>9, <1>10, <1>11 DEF t

\* A new failure is one more.
LEMMA OneFailureMore ==
  ASSUME TypeOK, NEW p \in Runs, NEW name \in TaskNames, Record(p, name, "system failure")
  PROVE  /\ Cardinality(Failures(p)') = Cardinality(Failures(p)) + 1
         /\ Failures(p)' # {}
<1>1. Failures(p)' = Failures(p) \cup {Len(trail[p]) + 1}
  BY RecordAppends
<1>2. Len(trail[p]) + 1 \notin Failures(p)
  <2>1. Len(trail[p]) \in Nat /\ Failures(p) \subseteq 1..Len(trail[p])
    BY FailuresFinite
  <2> QED
    BY <2>1, NextInterval
<1> QED
  BY <1>1, <1>2, FailuresFinite, FS_AddElement

\* Smaller sets have no more elements.
LEMMA SubsetBound ==
  ASSUME NEW S, NEW T, IsFiniteSet(S), T \subseteq S
  PROVE  /\ IsFiniteSet(T) /\ Cardinality(T) \in Nat /\ Cardinality(S) \in Nat
         /\ Cardinality(T) <= Cardinality(S)
BY FS_Subset, FS_CardinalityType

\* Bounds.
LEMMA OneLess ==
  ASSUME NEW c \in Nat, NEW s \in Int, c <= s - 1
  PROVE  c <= s /\ c + 1 <= s /\ c <= s + 1
OBVIOUS

\* What the trail of a run without failures comes to.
LEMMA Trails ==
  ASSUME NEW a, NEW b, NEW c
  PROVE  /\ Append(<<>>, a) = <<a>>
         /\ Append(<<a>>, b) = <<a, b>>
         /\ Append(<<a, b>>, c) = <<a, b, c>>
<1> DEFINE S == {a, b, c}
<1>1. /\ <<>> \in Seq(S) /\ <<a>> \in Seq(S) /\ <<a, b>> \in Seq(S) /\ <<a, b, c>> \in Seq(S)
  OBVIOUS
<1>2. Append(<<>>, a) = <<a>>
  OBVIOUS
<1>3. Append(<<a>>, b) = <<a, b>>
  <2>1. /\ Append(<<a>>, b) \in Seq(S) /\ Len(Append(<<a>>, b)) = 2
        /\ Append(<<a>>, b)[1] = a /\ Append(<<a>>, b)[2] = b
    BY <1>1, AppendProperties
  <2>2. \A i \in 1..2 : Append(<<a>>, b)[i] = <<a, b>>[i]
    <3>1. \A i \in 1..2 : i = 1 \/ i = 2
      OBVIOUS
    <3> QED
      BY <2>1, <3>1
  <2> QED
    BY <1>1, <2>1, <2>2, SeqEqual
<1>4. Append(<<a, b>>, c) = <<a, b, c>>
  <2>1. /\ Append(<<a, b>>, c) \in Seq(S) /\ Len(Append(<<a, b>>, c)) = 3
        /\ Append(<<a, b>>, c)[1] = a /\ Append(<<a, b>>, c)[2] = b
        /\ Append(<<a, b>>, c)[3] = c
    BY <1>1, AppendProperties
  <2>2. \A i \in 1..3 : Append(<<a, b>>, c)[i] = <<a, b, c>>[i]
    <3>1. \A i \in 1..3 : i = 1 \/ i = 2 \/ i = 3
      OBVIOUS
    <3> QED
      BY <2>1, <3>1
  <2> QED
    BY <1>1, <2>1, <2>2, SeqEqual
<1> QED
  BY <1>2, <1>3, <1>4

\* A set has one element more than it has without one of them.
LEMMA OneElementMore ==
  ASSUME NEW S, NEW x, NEW r \in BOOLEAN, IsFiniteSet(S), NEW n \in Nat,
         Cardinality(S \ (IF r THEN {x} ELSE {})) <= n - 1
  PROVE  Cardinality(S) <= n
<1>0. Cardinality(S) \in Nat
  BY FS_CardinalityType
<1>1. CASE r
  <2>1. Cardinality(S \ {x}) <= n - 1
    BY <1>1
  <2>2. Cardinality(S \ {x}) = IF x \in S THEN Cardinality(S) - 1 ELSE Cardinality(S)
    BY FS_RemoveElement
  <2> QED
    BY <1>0, <2>1, <2>2
<1>2. CASE ~r
  <2>1. S \ (IF r THEN {x} ELSE {}) = S
    BY <1>2
  <2> QED
    BY <1>0, <2>1
<1> QED
  BY <1>1, <1>2

-----------------------------------------------------------------------------
(* Runs that do not move.                                                   *)

\* Nobody touches run p, but for directories of it that are gone.
Kept(p) ==
  /\ pc'[p] = pc[p] /\ session'[p] = session[p] /\ worker'[p] = worker[p]
  /\ outcome'[p] = outcome[p] /\ trail'[p] = trail[p] /\ removing'[p] = removing[p]
  /\ ended'[p] = ended[p] /\ import'[p] = import[p]
  /\ canceled[p] => canceled'[p]
  /\ \A w \in Workers : disk'[w][p] \in {disk[w][p], "none"}

\* A run that is kept goes on fulfilling the invariant.
LEMMA Frame ==
  ASSUME TypeOK, NEW p \in Runs, RunInv(p), Kept(p)
  PROVE  RunInv(p)'
<1> USE DEF Kept
<1>1. SessionsBounded(p)' /\ SuccessSoFar(p)'
  BY DEF RunInv, SessionsBounded, SuccessSoFar, Fresh, Done
<1>2. Failures(p)' = Failures(p)
  BY DEF Failures
<1>3. FailuresSoFar(p)'
  BY <1>2 DEF RunInv, FailuresSoFar
<1>4. \A n \in TaskNames : Succeeded(p, n)' <=> Succeeded(p, n)
  BY DEF Succeeded
<1>5. TasksSoFar(p)'
  BY <1>4 DEF RunInv, TasksSoFar, TaskNames
<1>6. session[p] \in 1..MaxSessions
  BY DEF TypeOK
<1>7. Left(p)' \subseteq Left(p)
  BY DEF Left
<1>8. IsFiniteSet(Left(p)) /\ Abandoned(p) \subseteq Left(p) /\ Abandoned(p)' \subseteq Abandoned(p)
  BY <1>7 DEF RunInv, DownloadsSoFar, Abandoned
<1>9. IsFiniteSet(Abandoned(p))
  BY <1>8, SubsetBound
<1>10. /\ IsFiniteSet(Left(p)') /\ Cardinality(Left(p)') <= Cardinality(Left(p))
       /\ Cardinality(Abandoned(p)') <= Cardinality(Abandoned(p))
       /\ Cardinality(Left(p)') \in Nat /\ Cardinality(Left(p)) \in Nat
       /\ Cardinality(Abandoned(p)') \in Nat /\ Cardinality(Abandoned(p)) \in Nat
  BY <1>7, <1>8, <1>9, SubsetBound
<1>11. DownloadsSoFar(p)'
  BY <1>6, <1>10 DEF RunInv, DownloadsSoFar
<1> QED
  BY <1>1, <1>3, <1>5, <1>11 DEF RunInv

\* A run writes to the directory of its own on its worker.
LEMMA OnDiskFacts ==
  ASSUME TypeOK, NEW q \in Runs, worker[q] \in Workers,
         NEW what \in {"none", "partial", "mets"}, OnDisk(q, what)
  PROVE  /\ disk' \in [Workers -> [Runs -> {"none", "partial", "mets"}]]
         /\ \A w \in Workers, p \in Runs \ {q} : disk'[w][p] = disk[w][p]
         /\ Left(q)' = IF what = "none" THEN Left(q) \ {worker[q]} ELSE Left(q) \cup {worker[q]}
<1>1. disk \in [Workers -> [Runs -> {"none", "partial", "mets"}]]
  BY DEF TypeOK
<1>2. disk' = [disk EXCEPT ![worker[q]] = [disk[worker[q]] EXCEPT ![q] = what]]
  BY DEF OnDisk
<1>3. disk' \in [Workers -> [Runs -> {"none", "partial", "mets"}]]
  BY <1>1, <1>2
<1>4. \A w \in Workers, p \in Runs :
        disk'[w][p] = IF w = worker[q] /\ p = q THEN what ELSE disk[w][p]
  BY <1>1, <1>2
<1> QED
  BY <1>3, <1>4 DEF Left

\* A step of one run keeps every other.
LEMMA OthersKept ==
  ASSUME TypeOK, NEW q \in Runs, RunInv(q), RunStep(q), NEW p \in Runs, p # q
  PROVE  Kept(p)
<1>d. ASSUME pc[q] \in InSession, NEW what \in {"none", "partial", "mets"}, OnDisk(q, what)
      PROVE  \A w \in Workers : disk'[w][p] = disk[w][p]
  BY <1>d, OnDiskFacts DEF RunInv, SessionsBounded
<1> USE DEF TypeOK, Kept, Go, End, Record, InSession
<1>1. CASE Start(q)
  BY <1>1 DEF Start
<1>2. CASE CreateSession(q)
  BY <1>2 DEF CreateSession
<1>3. CASE GetAIPPath(q)
  BY <1>3 DEF GetAIPPath, SystemError
<1>4. CASE FetchMETS(q)
  <2>1. \A w \in Workers : disk'[w][p] = disk[w][p]
    BY <1>4, <1>d DEF FetchMETS
  <2> QED
    BY <1>4, <2>1 DEF FetchMETS, SystemError
<1>5. CASE CreateImportRun(q)
  BY <1>5, ZenonT(60) DEF CreateImportRun, SystemError
<1>6. CASE PollImportRunStatus(q)
  BY <1>6 DEF PollImportRunStatus, SystemError
<1>7. CASE CleanUp(q)
  <2>1. \A w \in Workers : disk'[w][p] = disk[w][p]
    BY <1>7, <1>d DEF CleanUp
  <2> QED
    BY <1>7, <2>1, ZenonT(60) DEF CleanUp, AfterRemovalError
<1>8. CASE RetrySession(q)
  BY <1>8 DEF RetrySession
<1>9. CASE CreateSessionFails(q)
  BY <1>9 DEF CreateSessionFails
<1> QED
  BY <1>1, <1>2, <1>3, <1>4, <1>5, <1>6, <1>7, <1>8, <1>9 DEF RunStep, Progress

-----------------------------------------------------------------------------
(* Types.                                                                   *)

\* The invariant holds at the start.
LEMMA InitInv == Init => Inv
<1> SUFFICES ASSUME Init PROVE Inv
  OBVIOUS
<1>1. TypeOK
  BY ConstantsFit DEF Init, TypeOK, Steps
<1>2. ASSUME NEW p \in Runs PROVE RunInv(p)
  <2> USE DEF Init
  <2>1. Failures(p) = {} /\ \A n \in TaskNames : ~Succeeded(p, n)
    BY DEF Failures, Succeeded
  <2>2. Left(p) = {} /\ Abandoned(p) = {}
    BY DEF Left, Abandoned
  <2>3. IsFiniteSet({}) /\ Cardinality({}) = 0
    BY FS_EmptySet
  <2>4. FailuresSoFar(p) /\ DownloadsSoFar(p)
    BY <2>1, <2>2, <2>3 DEF FailuresSoFar, DownloadsSoFar
  <2>5. SessionsBounded(p) /\ SuccessSoFar(p) /\ TasksSoFar(p)
    BY <2>1 DEF SessionsBounded, SuccessSoFar, TasksSoFar, Fresh, InSession, TaskNames
  <2> QED
    BY <2>4, <2>5 DEF RunInv
<1> QED
  BY <1>1, <1>2 DEF Inv

\* Every step keeps the types; the next session is one of those allowed.
LEMMA NextTypeOK == Inv /\ [Next]_vars => TypeOK'
<1> SUFFICES ASSUME Inv, [Next]_vars PROVE TypeOK'
  OBVIOUS
<1>t. TypeOK
  BY DEF Inv
<1>s. MaxSessions \in Nat \ {0}
  BY ConstantsFit
<1>r. \A q \in Runs : SessionsBounded(q)
  BY DEF Inv, RunInv
<1>g. ASSUME NEW q \in Runs, NEW step \in Steps, Go(q, step) PROVE pc' \in [Runs -> Steps]
  BY <1>t, <1>g DEF TypeOK, Go
<1>e. ASSUME NEW q \in Runs, NEW name \in TaskNames, SystemError(q, name)
      PROVE  /\ trail' \in [Runs -> Seq(Tasks)]
             /\ outcome' \in [Runs -> {"success", "system error"}]
             /\ pc' \in [Runs -> Steps]
  <2>1. Record(q, name, "system failure")
    BY <1>e DEF SystemError
  <2> QED
    BY <1>t, <1>e, <1>g, <2>1, RecordAppends DEF SystemError, TypeOK, Steps
<1>c. ASSUME NEW q \in Runs, NEW name \in TaskNames, Record(q, name, "success")
      PROVE  trail' \in [Runs -> Seq(Tasks)]
  BY <1>t, <1>c, RecordAppends
<1>d. ASSUME NEW q \in Runs, pc[q] \in InSession, NEW what \in {"none", "partial", "mets"},
             OnDisk(q, what)
      PROVE  disk' \in [Workers -> [Runs -> {"none", "partial", "mets"}]]
  BY <1>t, <1>r, <1>d, OnDiskFacts DEF SessionsBounded
<1>1. ASSUME NEW q \in Runs, Start(q) PROVE TypeOK'
  <2>1. pc' \in [Runs -> Steps] /\ ended' \in [Runs -> {"running", "result", "nil", "error"}]
    BY <1>t, <1>1, <1>g, ZenonT(60) DEF Start, TypeOK, End, Steps
  <2> QED
    BY <1>t, <1>1, <2>1 DEF Start, TypeOK
<1>2. ASSUME NEW q \in Runs, CreateSession(q) PROVE TypeOK'
  BY <1>t, <1>2, ZenonT(60) DEF CreateSession, TypeOK, Go, End, Steps
<1>3. ASSUME NEW q \in Runs, GetAIPPath(q) PROVE TypeOK'
  <2>1. CASE SystemError(q, "download") /\ UNCHANGED removing
    BY <1>t, <1>3, <1>e, <2>1 DEF GetAIPPath, TypeOK, TaskNames
  <2>2. CASE ~(SystemError(q, "download") /\ UNCHANGED removing)
    <3>1. removing' \in [Runs -> BOOLEAN] /\ pc' \in [Runs -> Steps] /\ UNCHANGED <<trail, outcome>>
      BY <1>t, <1>3, <1>g, <2>2, ZenonT(60) DEF GetAIPPath, TypeOK, Steps
    <3> QED
      BY <1>t, <1>3, <3>1 DEF GetAIPPath, TypeOK
  <2> QED
    BY <2>1, <2>2
<1>4. ASSUME NEW q \in Runs, FetchMETS(q) PROVE TypeOK'
  <2>0. disk' \in [Workers -> [Runs -> {"none", "partial", "mets"}]]
    <3>1. pc[q] \in InSession
      BY <1>4 DEF FetchMETS, InSession
    <3>2. UNCHANGED disk \/ \E what \in {"none", "partial", "mets"} : OnDisk(q, what)
      BY <1>4 DEF FetchMETS
    <3> QED
      BY <1>t, <1>d, <3>1, <3>2 DEF TypeOK
  <2>1. CASE SystemError(q, "download")
    BY <1>t, <1>4, <1>e, <2>0, <2>1 DEF FetchMETS, TypeOK, TaskNames
  <2>2. CASE Record(q, "download", "success") /\ Go(q, "submit") /\ UNCHANGED outcome
    BY <1>t, <1>4, <1>c, <1>g, <2>0, <2>2 DEF FetchMETS, TypeOK, TaskNames, Steps
  <2> QED
    BY <1>4, <2>1, <2>2 DEF FetchMETS
<1>5. ASSUME NEW q \in Runs, CreateImportRun(q) PROVE TypeOK'
  <2>0. import' \in [Runs -> {"none", "running", "Erfolgreich", "Fehler"}]
    BY <1>t, <1>5 DEF CreateImportRun, TypeOK
  <2>1. CASE SystemError(q, "submit")
    BY <1>t, <1>5, <1>e, <2>0, <2>1 DEF CreateImportRun, TypeOK, TaskNames
  <2>2. CASE Record(q, "submit", "success") /\ Go(q, "wait") /\ UNCHANGED outcome
    BY <1>t, <1>5, <1>c, <1>g, <2>0, <2>2 DEF CreateImportRun, TypeOK, TaskNames, Steps
  <2> QED
    BY <1>5, <2>1, <2>2 DEF CreateImportRun
<1>6. ASSUME NEW q \in Runs, PollImportRunStatus(q) PROVE TypeOK'
  <2>1. CASE SystemError(q, "wait")
    BY <1>t, <1>6, <1>e, <2>1 DEF PollImportRunStatus, TypeOK, TaskNames
  <2>2. CASE Record(q, "wait", "success") /\ Go(q, "clean") /\ UNCHANGED outcome
    BY <1>t, <1>6, <1>c, <1>g, <2>2 DEF PollImportRunStatus, TypeOK, TaskNames, Steps
  <2> QED
    BY <1>6, <2>1, <2>2 DEF PollImportRunStatus
<1>7. ASSUME NEW q \in Runs, CleanUp(q) PROVE TypeOK'
  <2>0. disk' \in [Workers -> [Runs -> {"none", "partial", "mets"}]]
    <3>1. pc[q] \in InSession
      BY <1>7 DEF CleanUp, InSession
    <3>2. UNCHANGED disk \/ OnDisk(q, "none")
      BY <1>7 DEF CleanUp
    <3> QED
      BY <1>t, <1>d, <3>1, <3>2 DEF TypeOK
  <2>1. pc' \in [Runs -> Steps] /\ ended' \in [Runs -> {"running", "result", "nil", "error"}]
    BY <1>t, <1>7 DEF CleanUp, AfterRemovalError, TypeOK, Go, End, Steps
  <2> QED
    BY <1>t, <1>7, <2>0, <2>1 DEF CleanUp, TypeOK
<1>8. ASSUME NEW q \in Runs, RetrySession(q) PROVE TypeOK'
  <2>1. session[q] \in 1..MaxSessions /\ session[q] < MaxSessions
    BY <1>t, <1>r, <1>8 DEF RetrySession, SessionsBounded, TypeOK
  <2>2. session[q] + 1 \in 1..MaxSessions
    BY <1>s, <2>1
  <2>3. session' \in [Runs -> 1..MaxSessions]
    BY <1>t, <1>8, <2>2 DEF RetrySession, TypeOK
  <2> QED
    BY <1>t, <1>8, <1>g, <2>3 DEF RetrySession, TypeOK, Steps
<1>9. ASSUME NEW q \in Runs, Cancel(q) PROVE TypeOK'
  BY <1>t, <1>9 DEF Cancel, TypeOK
<1>10. ASSUME NEW q \in Runs, ApisFinishes(q) PROVE TypeOK'
  BY <1>t, <1>10, ZenonT(60) DEF ApisFinishes, TypeOK
<1>11. ASSUME NEW w \in Workers, WorkerDies(w) PROVE TypeOK'
  <2>1. disk' \in [Workers -> [Runs -> {"none", "partial", "mets"}]]
    <3>1. disk \in [Workers -> [Runs -> {"none", "partial", "mets"}]]
      BY <1>t DEF TypeOK
    <3>2. [p \in Runs |-> "none"] \in [Runs -> {"none", "partial", "mets"}]
      OBVIOUS
    <3>3. UNCHANGED disk \/ disk' = [disk EXCEPT ![w] = [p \in Runs |-> "none"]]
      BY <1>11 DEF WorkerDies
    <3> QED
      BY <3>1, <3>2, <3>3
  <2>2. lost' \in [Runs -> BOOLEAN]
    BY <1>t, <1>11, Zenon DEF WorkerDies, TypeOK
  <2> QED
    BY <1>t, <1>11, <2>1, <2>2 DEF WorkerDies, TypeOK
<1>12. CASE UNCHANGED vars
  BY <1>t, <1>12 DEF vars, TypeOK
<1>13. ASSUME NEW q \in Runs, CreateSessionFails(q) PROVE TypeOK'
  BY <1>t, <1>13 DEF CreateSessionFails, TypeOK, Go, End, Steps
<1> QED
  BY <1>1, <1>2, <1>3, <1>4, <1>5, <1>6, <1>7, <1>8, <1>9, <1>10, <1>11, <1>12, <1>13
  DEF Next, RunStep, Progress

-----------------------------------------------------------------------------
(* The steps of a run.                                                      *)

\* An activity that failed: the result holds one failure more, and a run that has
\* failed has no success to account for.
LEMMA FailedStep ==
  ASSUME Inv, NEW q \in Runs, pc[q] \in {"path", "fetch", "submit", "wait"},
         NEW name \in TaskNames, SystemError(q, name),
         UNCHANGED <<session, worker, ended>>,
         \/ import'[q] = import[q]
         \/ import[q] = "none" /\ import'[q] = "running"
  PROVE  /\ SessionsBounded(q)' /\ SuccessSoFar(q)' /\ FailuresSoFar(q)' /\ TasksSoFar(q)'
         /\ pc'[q] = "clean"
<1>t. TypeOK /\ RunInv(q)
  BY DEF Inv
<1>1. /\ pc'[q] = "clean" /\ outcome'[q] = "system error" /\ Record(q, name, "system failure")
  BY <1>t DEF SystemError, Go, TypeOK
<1>2. SessionsBounded(q)' /\ SuccessSoFar(q)'
  BY <1>t, <1>1 DEF RunInv, SessionsBounded, SuccessSoFar, InSession
<1>3. session[q] \in Int /\ session'[q] = session[q]
  <2>1. session[q] \in 1..MaxSessions
    BY <1>t DEF TypeOK
  <2> QED
    BY <2>1
<1>4. /\ Cardinality(Failures(q)') = Cardinality(Failures(q)) + 1 /\ Failures(q)' # {}
      /\ Cardinality(Failures(q)) \in Nat
  BY <1>t, <1>1, OneFailureMore, FailuresFinite
<1>5. FailuresSoFar(q)'
  <2>1. Cardinality(Failures(q)) <= session[q] - 1
    BY <1>t DEF RunInv, FailuresSoFar
  <2>2. Cardinality(Failures(q)') <= session'[q]
    BY <1>3, <1>4, <2>1
  <2> QED
    BY <1>1, <1>4, <2>2 DEF FailuresSoFar
<1>6. \A n \in TaskNames : Succeeded(q, n)' <=> Succeeded(q, n)
  BY <1>t, <1>1, RecordAppends
<1>7. TasksSoFar(q)'
  BY <1>t, <1>1, <1>6 DEF RunInv, TasksSoFar, TaskNames
<1> QED
  BY <1>1, <1>2, <1>5, <1>7

\* An activity that succeeded: no failure more.
LEMMA SuccessfulStep ==
  ASSUME Inv, NEW q \in Runs, pc[q] \in {"fetch", "submit", "wait"},
         NEW name \in TaskNames, Record(q, name, "success"), UNCHANGED <<session, outcome>>
  PROVE  /\ FailuresSoFar(q)'
         /\ trail'[q] = Append(trail[q], Succ(name))
         /\ \A n \in TaskNames : Succeeded(q, n)' <=> Succeeded(q, n) \/ n = name
<1>t. TypeOK /\ RunInv(q)
  BY DEF Inv
<1>1. /\ Failures(q)' = Failures(q)
      /\ \A n \in TaskNames : Succeeded(q, n)' <=> Succeeded(q, n) \/ n = name
      /\ trail'[q] = Append(trail[q], Succ(name))
  BY <1>t, RecordAppends DEF Succ
<1>2. session[q] \in 1..MaxSessions /\ Cardinality(Failures(q)) \in Nat
  BY <1>t, FailuresFinite DEF TypeOK
<1>3. FailuresSoFar(q)'
  <2>1. /\ Cardinality(Failures(q)) <= session[q] - 1
        /\ outcome[q] = "system error" <=> Failures(q) # {}
    BY <1>t DEF RunInv, FailuresSoFar
  <2>2. session'[q] = session[q] /\ outcome'[q] = outcome[q]
    OBVIOUS
  <2>3. Cardinality(Failures(q)') <= session'[q] - 1
    BY <1>1, <2>1, <2>2
  <2>4. Cardinality(Failures(q)') <= session'[q]
    <3>1. session[q] \in Int
      BY <1>2
    <3>2. Cardinality(Failures(q)) <= session[q]
      BY <1>2, <2>1, <3>1, OneLess
    <3> QED
      BY <1>1, <2>2, <3>2
  <2> QED
    BY <1>1, <2>1, <2>2, <2>3, <2>4 DEF FailuresSoFar
<1> QED
  BY <1>1, <1>3

\* Within a session a run can only have left its own directory in addition.
LEMMA SessionDownloads ==
  ASSUME Inv, NEW q \in Runs, pc[q] \in InSession, pc'[q] \in InSession,
         session'[q] = session[q], worker'[q] = worker[q], ended'[q] = ended[q],
         removing[q] => removing'[q],
         removing'[q] \in BOOLEAN,
         removing'[q] => pc'[q] \in {"fetch", "submit", "wait", "clean"},
         pc'[q] \in {"fetch", "submit", "wait"} => removing'[q],
         Left(q)' \subseteq Left(q) \cup (IF removing'[q] THEN {worker[q]} ELSE {})
  PROVE  DownloadsSoFar(q)'
<1>t. TypeOK /\ RunInv(q)
  BY DEF Inv
<1>1. session[q] \in Nat /\ ended[q] = "running"
  <2>1. session[q] \in 1..MaxSessions
    BY <1>t DEF TypeOK
  <2> QED
    BY <1>t, <2>1 DEF RunInv, SessionsBounded, InSession
<1>2. IsFiniteSet(Left(q)) /\ Cardinality(Abandoned(q)) <= session[q] - 1
  BY <1>t DEF RunInv, DownloadsSoFar, InSession
<1>3. IsFiniteSet(Left(q) \cup {worker[q]})
  BY <1>2, FS_AddElement
<1>4. IsFiniteSet(Left(q)') /\ IsFiniteSet(Abandoned(q))
  BY <1>2, <1>3, SubsetBound DEF Abandoned
<1>5. Abandoned(q)' \subseteq Abandoned(q)
  BY DEF Abandoned
<1>6. Cardinality(Abandoned(q)') <= session[q] - 1
  BY <1>1, <1>2, <1>4, <1>5, SubsetBound
<1>7. Cardinality(Left(q)') <= session[q]
  BY <1>1, <1>4, <1>6, OneElementMore DEF Abandoned
<1> QED
  BY <1>1, <1>4, <1>6, <1>7 DEF DownloadsSoFar, InSession

\* Each step of a run keeps the invariant of that run.
LEMMA StepRunInv ==
  ASSUME Inv, TypeOK', NEW q \in Runs, RunStep(q)
  PROVE  RunInv(q)'
<1>t. TypeOK /\ RunInv(q)
  BY DEF Inv
<1>s. session[q] \in Nat \ {0}
  <2>1. session[q] \in 1..MaxSessions
    BY <1>t DEF TypeOK
  <2> QED
    BY <2>1
<1>c. Cardinality(Failures(q)) \in Nat
  BY <1>t, FailuresFinite
\* Steps that record nothing: the result stays as it is.
<1>q. ASSUME trail' = trail, outcome' = outcome, import' = import,
             pc'[q] # "wait",
             \/ session'[q] = session[q]
             \/ pc[q] = "sleep" /\ session'[q] = session[q] + 1,
             pc[q] \in {"clean", "sleep", "over"} /\ session'[q] = session[q] =>
               pc'[q] \in {"clean", "sleep", "over"}
      PROVE  FailuresSoFar(q)' /\ TasksSoFar(q)'
  <2>1. Failures(q)' = Failures(q) /\ \A n \in TaskNames : Succeeded(q, n)' <=> Succeeded(q, n)
    BY <1>q DEF Failures, Succeeded
  <2>2. FailuresSoFar(q)'
    <3> DEFINE c == Cardinality(Failures(q))
    <3>1. /\ c <= IF pc[q] \in {"clean", "sleep", "over"} THEN session[q] ELSE session[q] - 1
          /\ outcome[q] = "system error" <=> Failures(q) # {}
      BY <1>t DEF RunInv, FailuresSoFar
    <3>2. c \in Nat /\ c = Cardinality(Failures(q)')
      BY <1>c, <2>1
    <3>3. (outcome[q] = "system error" <=> Failures(q) # {})'
      BY <1>q, <2>1, <3>1
    <3> HIDE DEF c
    <3>4. c <= session[q]
      <4>1. c <= session[q] \/ c <= session[q] - 1
        BY <3>1
      <4>2. session[q] \in Int
        BY <1>s
      <4> QED
        BY <3>2, <4>1, <4>2, OneLess
    <3>5. c <= IF pc'[q] \in {"clean", "sleep", "over"} THEN session'[q] ELSE session'[q] - 1
      <4>1. CASE session'[q] = session[q]
        BY <1>q, <3>1, <3>4, <4>1
      <4>2. CASE pc[q] = "sleep" /\ session'[q] = session[q] + 1
        <5>1. session'[q] \in Int /\ session'[q] - 1 = session[q]
          BY <1>s, <4>2
        <5> QED
          BY <3>2, <3>4, <5>1, OneLess
      <4> QED
        BY <1>q, <4>1, <4>2
    <3> QED
      BY <3>2, <3>3, <3>5 DEF FailuresSoFar
  <2>3. TasksSoFar(q)'
    BY <1>t, <1>q, <2>1 DEF RunInv, TasksSoFar, TaskNames
  <2> QED
    BY <2>2, <2>3
\* Steps that touch no directory and end or begin a session.
<1>d. ASSUME disk' = disk, ~removing[q], ~removing'[q], pc'[q] \notin {"fetch", "submit", "wait"},
             \/ pc[q] \notin {"sleep", "over"} /\ session'[q] = session[q]
             \/ pc[q] = "sleep" /\ session'[q] = session[q] + 1 /\ ended'[q] = "running",
             ended[q] = "running"
      PROVE  DownloadsSoFar(q)'
  <2>1. Left(q)' = Left(q) /\ Abandoned(q) = Left(q) /\ Abandoned(q)' = Left(q)
    BY <1>d DEF Left, Abandoned
  <2>2. IsFiniteSet(Left(q)) /\ Cardinality(Left(q)) \in Nat
    BY <1>t, FS_CardinalityType DEF RunInv, DownloadsSoFar
  <2>3. Cardinality(Left(q)) <= session'[q] - 1 /\ session'[q] \in Nat
    BY <1>t, <1>s, <1>d, <2>1, <2>2 DEF RunInv, DownloadsSoFar
  <2> QED
    BY <1>d, <2>1, <2>2, <2>3 DEF DownloadsSoFar
<1>1. CASE Start(q)
  <2>1. /\ pc[q] = "start" /\ pc'[q] \in {"session", "over"} /\ ended[q] = "running"
        /\ ended'[q] = "running" <=> pc'[q] # "over"
        /\ ~removing[q] /\ ~removing'[q]
    BY <1>t, <1>1, ZenonT(60) DEF Start, Go, End, TypeOK, RunInv, SessionsBounded, DownloadsSoFar
  <2>2. UNCHANGED <<session, worker, outcome, trail, removing, disk, import>>
    BY <1>1 DEF Start
  <2>3. SessionsBounded(q)' /\ SuccessSoFar(q)'
    BY <1>t, <2>1, <2>2 DEF RunInv, SessionsBounded, SuccessSoFar, Fresh, Done, InSession
  <2> QED
    BY <1>q, <1>d, <2>1, <2>2, <2>3 DEF RunInv
<1>2. CASE CreateSession(q)
  <2>1. /\ pc[q] = "session" /\ pc'[q] \in {"path", "over"} /\ ended[q] = "running"
        /\ ended'[q] \in {"running", "error"}
        /\ ended'[q] = "running" <=> pc'[q] # "over"
        /\ pc'[q] = "path" => worker'[q] \in Workers
        /\ ~removing[q] /\ ~removing'[q]
    BY <1>t, <1>2, ZenonT(60) DEF CreateSession, Go, End, TypeOK, RunInv, SessionsBounded, DownloadsSoFar
  <2>2. UNCHANGED <<session, outcome, trail, removing, disk, import>>
    BY <1>2 DEF CreateSession
  <2>3. SessionsBounded(q)' /\ SuccessSoFar(q)'
    BY <1>t, <2>1, <2>2 DEF RunInv, SessionsBounded, SuccessSoFar, Fresh, Done, InSession
  <2> QED
    BY <1>q, <1>d, <2>1, <2>2, <2>3 DEF RunInv
<1>3. CASE GetAIPPath(q)
  <2>1. /\ pc[q] = "path" /\ UNCHANGED <<session, worker, ended, disk, import>> /\ Left(q)' = Left(q)
        /\ ~removing[q]
    BY <1>t, <1>3 DEF GetAIPPath, Left, RunInv, DownloadsSoFar
  <2>2. CASE SystemError(q, "download") /\ UNCHANGED removing
    <3>1. SessionsBounded(q)' /\ SuccessSoFar(q)' /\ FailuresSoFar(q)' /\ TasksSoFar(q)'
      BY <2>1, <2>2, FailedStep DEF TaskNames
    <3>2. pc'[q] = "clean"
      BY <2>1, <2>2, FailedStep DEF TaskNames
    <3>3. DownloadsSoFar(q)'
      <4>1. /\ session'[q] = session[q] /\ worker'[q] = worker[q] /\ ended'[q] = ended[q]
            /\ removing'[q] = removing[q] /\ pc[q] \in InSession /\ pc'[q] \in InSession
        BY <2>1, <2>2, <3>2 DEF InSession
      <4>2. removing[q] \in BOOLEAN
        BY <1>t DEF TypeOK
      <4> QED
        BY <2>1, <3>2, <4>1, <4>2, SessionDownloads
    <3> QED
      BY <3>1, <3>3 DEF RunInv
  <2>3. CASE ~(SystemError(q, "download") /\ UNCHANGED removing)
    <3>1. pc'[q] = "fetch" /\ removing'[q] = TRUE /\ UNCHANGED <<trail, outcome>>
      BY <1>t, <1>3, <2>3, ZenonT(60) DEF GetAIPPath, Go, TypeOK
    <3>2. SessionsBounded(q)' /\ SuccessSoFar(q)'
      BY <1>t, <2>1, <3>1 DEF RunInv, SessionsBounded, SuccessSoFar, Fresh, Done, InSession
    <3>3. FailuresSoFar(q)' /\ TasksSoFar(q)'
      BY <1>q, <2>1, <3>1
    <3>4. DownloadsSoFar(q)'
      BY <2>1, <3>1, SessionDownloads DEF InSession
    <3> QED
      BY <3>2, <3>3, <3>4 DEF RunInv
  <2> QED
    BY <2>2, <2>3
<1>4. CASE FetchMETS(q)
  <2>1. /\ pc[q] = "fetch" /\ UNCHANGED <<session, worker, removing, ended, import>>
        /\ removing[q] /\ worker[q] \in Workers /\ ended[q] = "running"
    BY <1>t, <1>4 DEF FetchMETS, RunInv, DownloadsSoFar, SessionsBounded, InSession
  <2>2. Left(q)' \subseteq Left(q) \cup {worker[q]}
    <3>1. UNCHANGED disk \/ \E what \in {"none", "partial", "mets"} : OnDisk(q, what)
      BY <1>4 DEF FetchMETS
    <3>2. CASE UNCHANGED disk
      BY <3>2 DEF Left
    <3>3. ASSUME NEW what \in {"none", "partial", "mets"}, OnDisk(q, what)
          PROVE  Left(q)' \subseteq Left(q) \cup {worker[q]}
      BY <1>t, <2>1, <3>3, OnDiskFacts
    <3> QED
      BY <3>1, <3>2, <3>3
  <2>3. pc'[q] \in {"clean", "submit"} => DownloadsSoFar(q)'
    BY <1>t, <2>1, <2>2, SessionDownloads DEF InSession, TypeOK
  <2>4. CASE SystemError(q, "download")
    <3>1. /\ SessionsBounded(q)' /\ SuccessSoFar(q)' /\ FailuresSoFar(q)' /\ TasksSoFar(q)'
          /\ pc'[q] = "clean"
      BY <2>1, <2>4, FailedStep DEF TaskNames
    <3> QED
      BY <2>3, <3>1 DEF RunInv
  <2>5. CASE Record(q, "download", "success") /\ Go(q, "submit") /\ UNCHANGED outcome
    <3>1. pc'[q] = "submit"
      BY <1>t, <2>5 DEF Go, TypeOK
    <3>2. /\ FailuresSoFar(q)' /\ trail'[q] = Append(trail[q], Succ("download"))
          /\ \A n \in TaskNames : Succeeded(q, n)' <=> Succeeded(q, n) \/ n = "download"
      BY <2>1, <2>5, SuccessfulStep DEF TaskNames
    <3>3. TasksSoFar(q)'
      BY <1>t, <2>1, <3>1, <3>2 DEF RunInv, TasksSoFar, TaskNames
    <3>4. SessionsBounded(q)'
      BY <2>1, <3>1 DEF SessionsBounded, InSession
    <3>5. Append(<<>>, Succ("download")) = <<Succ("download")>>
      OBVIOUS
    <3>6. SuccessSoFar(q)'
      BY <1>t, <2>1, <2>5, <3>1, <3>2, <3>5 DEF RunInv, SuccessSoFar, Fresh, Done
    <3> QED
      BY <2>3, <3>1, <3>2, <3>3, <3>4, <3>6 DEF RunInv
  <2> QED
    BY <1>4, <2>4, <2>5 DEF FetchMETS
<1>5. CASE CreateImportRun(q)
  <2>1. /\ pc[q] = "submit" /\ UNCHANGED <<session, worker, removing, ended, disk>>
        /\ removing[q] /\ worker[q] \in Workers /\ ended[q] = "running"
        /\ Left(q)' = Left(q)
    BY <1>t, <1>5 DEF CreateImportRun, RunInv, DownloadsSoFar, SessionsBounded, InSession, Left
  <2>2. pc'[q] \in {"clean", "wait"} => DownloadsSoFar(q)'
    BY <1>t, <2>1, SessionDownloads DEF InSession, TypeOK
  <2>3. CASE SystemError(q, "submit")
    <3>1. import'[q] = import[q] \/ (import[q] = "none" /\ import'[q] = "running")
      BY <1>t, <1>5 DEF CreateImportRun, TypeOK
    <3>2. /\ SessionsBounded(q)' /\ SuccessSoFar(q)' /\ FailuresSoFar(q)' /\ TasksSoFar(q)'
          /\ pc'[q] = "clean"
      BY <2>1, <2>3, <3>1, FailedStep DEF TaskNames
    <3> QED
      BY <2>2, <3>2 DEF RunInv
  <2>4. CASE ~SystemError(q, "submit")
    <3>0. /\ import[q] = "none" /\ import'[q] = "running" /\ pc'[q] = "wait"
          /\ Record(q, "submit", "success") /\ UNCHANGED outcome
      BY <1>t, <1>5, <2>4, ZenonT(60) DEF CreateImportRun, Go, TypeOK
    <3>1. /\ FailuresSoFar(q)' /\ trail'[q] = Append(trail[q], Succ("submit"))
          /\ \A n \in TaskNames : Succeeded(q, n)' <=> Succeeded(q, n) \/ n = "submit"
      BY <2>1, <3>0, SuccessfulStep DEF TaskNames
    <3>2. TasksSoFar(q)'
      BY <1>t, <3>0, <3>1 DEF RunInv, TasksSoFar, TaskNames
    <3>3. SessionsBounded(q)'
      BY <2>1, <3>0 DEF SessionsBounded, InSession
    <3>4. Append(<<Succ("download")>>, Succ("submit")) = <<Succ("download"), Succ("submit")>>
      BY Trails
    <3>5. SuccessSoFar(q)'
      BY <1>t, <2>1, <3>0, <3>1, <3>4 DEF RunInv, SuccessSoFar, Fresh, Done
    <3> QED
      BY <2>2, <3>0, <3>1, <3>2, <3>3, <3>5 DEF RunInv
  <2> QED
    BY <2>3, <2>4
<1>6. CASE PollImportRunStatus(q)
  <2>1. /\ pc[q] = "wait" /\ UNCHANGED <<session, worker, removing, ended, disk, import>>
        /\ removing[q] /\ worker[q] \in Workers /\ ended[q] = "running"
        /\ Left(q)' = Left(q)
    BY <1>t, <1>6 DEF PollImportRunStatus, RunInv, DownloadsSoFar, SessionsBounded, InSession, Left
  <2>2. pc'[q] = "clean" => DownloadsSoFar(q)'
    BY <1>t, <2>1, SessionDownloads DEF InSession, TypeOK
  <2>3. CASE SystemError(q, "wait")
    <3>1. /\ SessionsBounded(q)' /\ SuccessSoFar(q)' /\ FailuresSoFar(q)' /\ TasksSoFar(q)'
          /\ pc'[q] = "clean"
      BY <2>1, <2>3, FailedStep DEF TaskNames
    <3> QED
      BY <2>2, <3>1 DEF RunInv
  <2>4. CASE ~SystemError(q, "wait")
    <3>0. /\ import[q] = "Erfolgreich" /\ pc'[q] = "clean"
          /\ Record(q, "wait", "success") /\ UNCHANGED outcome
      BY <1>t, <1>6, <2>4 DEF PollImportRunStatus, Go, TypeOK
    <3>1. /\ FailuresSoFar(q)' /\ trail'[q] = Append(trail[q], Succ("wait"))
          /\ \A n \in TaskNames : Succeeded(q, n)' <=> Succeeded(q, n) \/ n = "wait"
      BY <2>1, <3>0, SuccessfulStep DEF TaskNames
    <3>2. TasksSoFar(q)'
      BY <1>t, <2>1, <3>0, <3>1 DEF RunInv, TasksSoFar, TaskNames
    <3>3. SessionsBounded(q)'
      BY <2>1, <3>0 DEF SessionsBounded, InSession
    <3>4. Append(<<Succ("download"), Succ("submit")>>, Succ("wait"))
            = <<Succ("download"), Succ("submit"), Succ("wait")>>
      BY Trails
    <3>5. SuccessSoFar(q)'
      BY <1>t, <2>1, <3>0, <3>1, <3>4 DEF RunInv, SuccessSoFar, Fresh, Done
    <3> QED
      BY <2>2, <3>0, <3>1, <3>2, <3>3, <3>5 DEF RunInv
  <2> QED
    BY <2>3, <2>4
<1>7. CASE CleanUp(q)
  <2>1. /\ pc[q] = "clean" /\ UNCHANGED <<session, outcome, trail, import>> /\ ~removing'[q]
        /\ worker[q] \in Workers /\ ended[q] = "running"
    BY <1>t, <1>7 DEF CleanUp, TypeOK, RunInv, SessionsBounded, InSession
  <2>2. \/ pc'[q] = "over" /\ ended'[q] \in {"result", "nil", "error"}
        \/ pc'[q] = "sleep" /\ ended'[q] = "running" /\ session[q] < MaxSessions
    <3>1. \/ End(q, "result") \/ End(q, "nil") \/ End(q, "error")
          \/ Go(q, "sleep") /\ UNCHANGED ended /\ session[q] < MaxSessions
      BY <1>7 DEF CleanUp, AfterRemovalError
    <3>2. pc \in [Runs -> Steps] /\ ended \in [Runs -> {"running", "result", "nil", "error"}]
      BY <1>t DEF TypeOK
    <3> QED
      BY <2>1, <3>1, <3>2 DEF Go, End
  <2>3. /\ Left(q)' \subseteq Left(q)
        /\ ended'[q] = "result" => Left(q)' = Abandoned(q)
    <3>1. CASE UNCHANGED disk
      <4>1. Left(q)' = Left(q)
        BY <3>1 DEF Left
      <4>2. CASE removing[q] /\ ended'[q] = "result"
        <5>1. OnDisk(q, "none")
          BY <1>t, <1>7, <2>1, <4>2, ZenonT(60) DEF CleanUp, AfterRemovalError, End, Go, TypeOK
        <5> QED
          BY <1>t, <2>1, <4>1, <5>1, OnDiskFacts DEF Abandoned
      <4>3. CASE ~(removing[q] /\ ended'[q] = "result")
        BY <4>1, <4>3 DEF Abandoned
      <4> QED
        BY <4>2, <4>3
    <3>2. CASE removing[q] /\ OnDisk(q, "none")
      BY <1>t, <2>1, <3>2, OnDiskFacts DEF Abandoned
    <3> QED
      BY <1>7, <3>1, <3>2 DEF CleanUp
  <2>4. SessionsBounded(q)' /\ SuccessSoFar(q)'
    BY <1>t, <2>1, <2>2 DEF RunInv, SessionsBounded, SuccessSoFar, Fresh, Done, InSession
  <2>5. FailuresSoFar(q)' /\ TasksSoFar(q)'
    BY <1>q, <2>1, <2>2
  <2>6. /\ IsFiniteSet(Left(q)) /\ Cardinality(Left(q)) <= session[q]
        /\ Cardinality(Abandoned(q)) <= session[q] - 1
    BY <1>t, <2>1 DEF RunInv, DownloadsSoFar
  <2>7. IsFiniteSet(Left(q)') /\ Cardinality(Left(q)') <= session[q]
    BY <1>s, <2>3, <2>6, SubsetBound
  <2>8. ended'[q] = "result" => Cardinality(Left(q)') <= session[q] - 1
    BY <2>3, <2>6
  <2>9. DownloadsSoFar(q)'
    BY <2>1, <2>2, <2>7, <2>8 DEF DownloadsSoFar
  <2> QED
    BY <2>4, <2>5, <2>9 DEF RunInv
<1>8. CASE RetrySession(q)
  <2>1. /\ pc[q] = "sleep" /\ pc'[q] = "session" /\ session'[q] = session[q] + 1
        /\ ended[q] = "running" /\ ~removing[q]
    BY <1>t, <1>8 DEF RetrySession, Go, TypeOK, RunInv, SessionsBounded, DownloadsSoFar
  <2>2. UNCHANGED <<worker, outcome, trail, removing, ended, disk, import>>
    BY <1>8 DEF RetrySession
  <2>3. SessionsBounded(q)' /\ SuccessSoFar(q)'
    BY <1>t, <2>1, <2>2 DEF RunInv, SessionsBounded, SuccessSoFar, Fresh, Done, InSession
  <2>4. FailuresSoFar(q)' /\ TasksSoFar(q)'
    BY <1>s, <1>q, <2>1, <2>2
  <2>5. DownloadsSoFar(q)'
    BY <1>d, <2>1, <2>2
  <2> QED
    BY <2>3, <2>4, <2>5 DEF RunInv
<1>9. CASE CreateSessionFails(q)
  <2>1. /\ pc[q] = "session" /\ pc'[q] = "over" /\ ended[q] = "running" /\ ended'[q] = "error"
        /\ ~removing[q] /\ ~removing'[q]
    BY <1>t, <1>9, ZenonT(60)
    DEF CreateSessionFails, Go, End, TypeOK, RunInv, SessionsBounded, DownloadsSoFar
  <2>2. UNCHANGED <<session, worker, outcome, trail, removing, disk, import>>
    BY <1>9 DEF CreateSessionFails
  <2>3. SessionsBounded(q)' /\ SuccessSoFar(q)'
    BY <1>t, <2>1, <2>2 DEF RunInv, SessionsBounded, SuccessSoFar, Fresh, Done, InSession
  <2> QED
    BY <1>q, <1>d, <2>1, <2>2, <2>3 DEF RunInv
<1> QED
  BY <1>1, <1>2, <1>3, <1>4, <1>5, <1>6, <1>7, <1>8, <1>9 DEF RunStep, Progress

\* APIS ends only imports that are running: none of those a run has seen the end of.
LEMMA ApisRunInv ==
  ASSUME Inv, NEW q \in Runs, ApisFinishes(q)
  PROVE  RunInv(q)'
<1>t. TypeOK /\ RunInv(q)
  BY DEF Inv
<1>1. /\ import[q] = "running" /\ import'[q] \in {"Erfolgreich", "Fehler"}
      /\ UNCHANGED <<pc, session, worker, outcome, trail, removing, ended, disk>>
  BY <1>t, ZenonT(60) DEF ApisFinishes, TypeOK
<1>2. /\ Failures(q)' = Failures(q) /\ Left(q)' = Left(q) /\ Abandoned(q)' = Abandoned(q)
      /\ \A n \in TaskNames : Succeeded(q, n)' <=> Succeeded(q, n)
  BY <1>1 DEF Failures, Left, Abandoned, Succeeded
<1>3. SessionsBounded(q)' /\ SuccessSoFar(q)'
  BY <1>t, <1>1 DEF RunInv, SessionsBounded, SuccessSoFar, Fresh, Done
<1>4. FailuresSoFar(q)' /\ TasksSoFar(q)'
  BY <1>t, <1>1, <1>2 DEF RunInv, FailuresSoFar, TasksSoFar, TaskNames
<1>5. DownloadsSoFar(q)'
  BY <1>t, <1>1, <1>2 DEF RunInv, DownloadsSoFar
<1> QED
  BY <1>3, <1>4, <1>5 DEF RunInv

\* The inductive step.
LEMMA NextInv == Inv /\ [Next]_vars => Inv'
<1> SUFFICES ASSUME Inv, [Next]_vars PROVE Inv'
  OBVIOUS
<1>t. TypeOK /\ TypeOK' /\ \A p \in Runs : RunInv(p)
  BY NextTypeOK DEF Inv
<1>k. ASSUME NEW p \in Runs, Kept(p) PROVE RunInv(p)'
  BY <1>t, <1>k, Frame
<1>1. ASSUME NEW q \in Runs, RunStep(q) PROVE \A p \in Runs : RunInv(p)'
  <2>1. RunInv(q)'
    BY <1>t, <1>1, StepRunInv
  <2>2. ASSUME NEW p \in Runs, p # q PROVE RunInv(p)'
    BY <1>t, <1>1, <1>k, <2>2, OthersKept
  <2> QED
    BY <2>1, <2>2
<1>2. ASSUME NEW q \in Runs, Cancel(q) PROVE \A p \in Runs : RunInv(p)'
  BY <1>2, <1>k DEF Cancel, Kept
<1>3. ASSUME NEW q \in Runs, ApisFinishes(q) PROVE \A p \in Runs : RunInv(p)'
  <2>1. RunInv(q)'
    BY <1>3, ApisRunInv
  <2>2. ASSUME NEW p \in Runs, p # q PROVE Kept(p)
    BY <1>t, <1>3, <2>2 DEF ApisFinishes, Kept, TypeOK
  <2> QED
    BY <1>k, <2>1, <2>2
<1>4. ASSUME NEW w \in Workers, WorkerDies(w) PROVE \A p \in Runs : RunInv(p)'
  <2>1. ASSUME NEW p \in Runs PROVE Kept(p)
    <3>1. \A v \in Workers : disk'[v][p] \in {disk[v][p], "none"}
      BY <1>t, <1>4, ZenonT(60) DEF WorkerDies, TypeOK
    <3> QED
      BY <1>4, <3>1 DEF WorkerDies, Kept
  <2> QED
    BY <1>k, <2>1
<1>5. ASSUME UNCHANGED vars PROVE \A p \in Runs : RunInv(p)'
  BY <1>5, <1>k DEF vars, Kept
<1>6. \A p \in Runs : RunInv(p)'
  BY <1>1, <1>2, <1>3, <1>4, <1>5 DEF Next
<1> QED
  BY <1>t, <1>6 DEF Inv

\* The invariant holds throughout.
LEMMA Invariance == Spec => []Inv
BY InitInv, NextInv, PTL DEF Spec

-----------------------------------------------------------------------------
(* What a result rests on.  This is inductive together with Inv.            *)

\* Only with APIS enabled is there a session; what is returned rests on what was done,
\* and nothing is submitted successfully a second time.
EarnedSoFar(p) ==
  /\ pc[p] \notin {"start", "over"} => apisEnabled
  /\ ended[p] = "result" /\ outcome[p] = "success" => IF apisEnabled THEN Done(p) ELSE Fresh(p)
  /\ ended[p] = "nil" => canceled[p]
  /\ \E i : Submissions(p) \subseteq {i}

EarnedInv == \A p \in Runs : EarnedSoFar(p)

\* Without a submission there is no position of one.
LEMMA NoSubmission ==
  ASSUME NEW p \in Runs, ~Succeeded(p, "submit")
  PROVE  Submissions(p) = {}
BY DEF Succeeded, Submissions

\* A run that does not move has earned what it had earned.
LEMMA EarnedFrame ==
  ASSUME NEW p \in Runs, EarnedSoFar(p), Kept(p), apisEnabled' = apisEnabled
  PROVE  EarnedSoFar(p)'
<1>1. Submissions(p)' = Submissions(p)
  BY DEF Kept, Submissions
<1> QED
  BY <1>1 DEF Kept, EarnedSoFar, Done, Fresh

\* Each step of a run keeps it for that run.
LEMMA EarnedStep ==
  ASSUME Inv, Inv', NEW q \in Runs, EarnedSoFar(q), RunStep(q)
  PROVE  EarnedSoFar(q)'
<1>t. TypeOK /\ RunInv(q) /\ (ended[q] = "running" <=> pc[q] # "over")
  BY DEF Inv, RunInv, SessionsBounded
<1>g. \A step : Go(q, step) => pc'[q] = step
  BY <1>t DEF Go, TypeOK
<1>h. \A how : End(q, how) => pc'[q] = "over" /\ ended'[q] = how
  BY <1>t, <1>g DEF End, TypeOK
\* Steps that record nothing leave the submissions alone.
<1>q. trail' = trail => \E i : Submissions(q)' \subseteq {i}
  <2>1. trail' = trail => Submissions(q)' = Submissions(q)
    BY DEF Submissions
  <2> QED
    BY <2>1 DEF EarnedSoFar
\* So does an activity that fails, or another than the submission.
<1>r. ASSUME NEW name \in TaskNames, NEW o \in {"success", "system failure"}, Record(q, name, o),
             name # "submit" \/ o # "success"
      PROVE  \E i : Submissions(q)' \subseteq {i}
  <2>1. Submissions(q)' = IF name = "submit" /\ o = "success"
                         THEN Submissions(q) \cup {Len(trail[q]) + 1} ELSE Submissions(q)
    <3>1. TypeOK /\ Record(q, name, o)
      BY <1>t, <1>r
    <3> QED
      BY <3>1, RecordAppends, ZenonT(60)
  <2>2. Submissions(q)' = Submissions(q)
    BY <1>r, <2>1
  <2> QED
    BY <2>2 DEF EarnedSoFar
<1>m. ASSUME ended' = ended, pc[q] \notin {"start", "over"}, apisEnabled' = apisEnabled,
             \E i : Submissions(q)' \subseteq {i}
      PROVE  EarnedSoFar(q)'
  BY <1>t, <1>m DEF EarnedSoFar
<1>1. CASE Start(q)
  <2>1. /\ pc[q] = "start" /\ UNCHANGED <<apisEnabled, outcome, trail, import, canceled>>
        /\ \/ ~apisEnabled /\ pc'[q] = "over" /\ ended'[q] = "result"
           \/ apisEnabled /\ pc'[q] = "over" /\ ended'[q] = "error"
           \/ apisEnabled /\ pc'[q] = "session" /\ ended'[q] = "running"
    BY <1>t, <1>g, <1>h, <1>1 DEF Start
  <2>2. outcome[q] = "success" => Fresh(q)
    BY <1>t, <2>1 DEF RunInv, SuccessSoFar
  <2>3. \E i : Submissions(q)' \subseteq {i}
    BY <1>q, <2>1
  <2> QED
    BY <2>1, <2>2, <2>3 DEF EarnedSoFar, Fresh
<1>2. CASE CreateSession(q) \/ CreateSessionFails(q)
  <2>1. /\ pc[q] = "session" /\ UNCHANGED <<apisEnabled, trail>>
        /\ \/ pc'[q] = "over" /\ ended'[q] = "error"
           \/ pc'[q] = "path" /\ ended'[q] = "running"
    BY <1>t, <1>g, <1>h, <1>2 DEF CreateSession, CreateSessionFails
  <2>2. \E i : Submissions(q)' \subseteq {i}
    BY <1>q, <2>1
  <2> QED
    BY <2>1, <2>2 DEF EarnedSoFar
<1>3. CASE GetAIPPath(q)
  <2>1. pc[q] = "path" /\ UNCHANGED <<apisEnabled, ended>>
    BY <1>3 DEF GetAIPPath
  <2>2. trail' = trail \/ Record(q, "download", "system failure")
    BY <1>3 DEF GetAIPPath, SystemError
  <2> QED
    BY <1>m, <1>q, <1>r, <2>1, <2>2 DEF TaskNames
<1>4. CASE FetchMETS(q)
  <2>1. pc[q] = "fetch" /\ UNCHANGED <<apisEnabled, ended>>
    BY <1>4 DEF FetchMETS
  <2>2. \E o \in {"success", "system failure"} : Record(q, "download", o)
    BY <1>4 DEF FetchMETS, SystemError
  <2> QED
    BY <1>m, <1>r, <2>1, <2>2 DEF TaskNames
<1>5. CASE CreateImportRun(q)
  <2>1. pc[q] = "submit" /\ UNCHANGED <<apisEnabled, ended>>
    BY <1>5 DEF CreateImportRun
  <2>2. CASE Record(q, "submit", "system failure")
    BY <1>m, <1>r, <2>1, <2>2 DEF TaskNames
  <2>3. CASE import[q] = "none" /\ Record(q, "submit", "success")
    <3>1. Submissions(q) = {}
      BY <1>t, <2>3, NoSubmission DEF RunInv, TasksSoFar
    <3>2. Submissions(q)' = Submissions(q) \cup {Len(trail[q]) + 1}
      BY <1>t, <2>3, RecordAppends DEF TaskNames
    <3> QED
      BY <1>m, <2>1, <3>1, <3>2
  <2> QED
    BY <1>5, <2>2, <2>3 DEF CreateImportRun, SystemError
<1>6. CASE PollImportRunStatus(q)
  <2>1. pc[q] = "wait" /\ UNCHANGED <<apisEnabled, ended>>
    BY <1>6 DEF PollImportRunStatus
  <2>2. \E o \in {"success", "system failure"} : Record(q, "wait", o)
    BY <1>6 DEF PollImportRunStatus, SystemError
  <2> QED
    BY <1>m, <1>r, <2>1, <2>2 DEF TaskNames
<1>7. CASE CleanUp(q)
  <2>1. pc[q] = "clean" /\ UNCHANGED <<apisEnabled, outcome, trail, import, canceled>>
    BY <1>7 DEF CleanUp
  <2>2. \/ pc'[q] = "over" /\ ended'[q] \in {"result", "error"}
        \/ pc'[q] = "over" /\ ended'[q] = "nil" /\ canceled[q]
        \/ pc'[q] = "sleep" /\ ended'[q] = "running"
    <3>1. \/ End(q, "result")
          \/ End(q, "error")
          \/ canceled[q] /\ End(q, "nil")
          \/ Go(q, "sleep") /\ UNCHANGED ended
      BY <1>7 DEF CleanUp, AfterRemovalError
    <3> QED
      BY <1>t, <1>g, <1>h, <2>1, <3>1
  <2>3. outcome[q] = "success" => Done(q)
    BY <1>t, <2>1 DEF RunInv, SuccessSoFar
  <2>4. \E i : Submissions(q)' \subseteq {i}
    BY <1>q, <2>1
  <2>5. apisEnabled
    BY <2>1 DEF EarnedSoFar
  <2> QED
    BY <2>1, <2>2, <2>3, <2>4, <2>5 DEF EarnedSoFar, Done
<1>8. CASE RetrySession(q)
  <2>1. pc[q] = "sleep" /\ UNCHANGED <<apisEnabled, ended, trail>>
    BY <1>8 DEF RetrySession
  <2> QED
    BY <1>m, <1>q, <2>1
<1> QED
  BY <1>1, <1>2, <1>3, <1>4, <1>5, <1>6, <1>7, <1>8 DEF RunStep, Progress

\* All results are earned, throughout.
LEMMA EarnedInvariance == Spec => []EarnedInv
<1>1. Init => EarnedInv
  <2> SUFFICES ASSUME Init, NEW p \in Runs PROVE EarnedSoFar(p)
    BY DEF EarnedInv
  <2>1. trail[p] = <<>>
    BY DEF Init
  <2>2. Submissions(p) = {}
    BY <2>1 DEF Submissions
  <2> QED
    BY <2>2 DEF Init, EarnedSoFar
<1>2. ASSUME Inv, Inv', EarnedInv, [Next]_vars PROVE EarnedInv'
  <2>t. TypeOK
    BY <1>2 DEF Inv
  <2>k. ASSUME NEW p \in Runs, Kept(p), apisEnabled' = apisEnabled PROVE EarnedSoFar(p)'
    BY <1>2, <2>k, EarnedFrame DEF EarnedInv
  <2>1. ASSUME NEW q \in Runs, RunStep(q), NEW p \in Runs PROVE EarnedSoFar(p)'
    <3>1. RunInv(q) /\ EarnedSoFar(q)
      BY <1>2 DEF Inv, EarnedInv
    <3>2. apisEnabled' = apisEnabled
      BY <2>1 DEF RunStep, Progress, Start, CreateSession, CreateSessionFails, GetAIPPath,
                  FetchMETS, CreateImportRun, PollImportRunStatus, CleanUp, RetrySession
    <3> QED
      BY <1>2, <2>t, <2>k, <2>1, <3>1, <3>2, OthersKept, EarnedStep
  <2>2. ASSUME NEW q \in Runs, Cancel(q), NEW p \in Runs PROVE EarnedSoFar(p)'
    BY <2>t, <2>2, <2>k DEF Cancel, Kept, TypeOK
  <2>3. ASSUME NEW q \in Runs, ApisFinishes(q), NEW p \in Runs PROVE EarnedSoFar(p)'
    <3>1. CASE p # q
      BY <2>t, <2>3, <2>k, <3>1 DEF ApisFinishes, Kept, TypeOK
    <3>2. CASE p = q
      <4>1. import[q] = "running" /\ UNCHANGED <<apisEnabled, pc, outcome, trail, ended, canceled>>
        BY <2>3 DEF ApisFinishes
      <4>2. ~Done(q) /\ ~Fresh(q) /\ Submissions(q)' = Submissions(q) /\ EarnedSoFar(q)
        BY <1>2, <4>1 DEF Done, Fresh, Submissions, EarnedInv
      <4> QED
        BY <3>2, <4>1, <4>2 DEF EarnedSoFar
    <3> QED
      BY <3>1, <3>2
  <2>4. ASSUME NEW w \in Workers, WorkerDies(w), NEW p \in Runs PROVE EarnedSoFar(p)'
    <3>1. \A v \in Workers : disk'[v][p] \in {disk[v][p], "none"}
      BY <2>t, <2>4, ZenonT(60) DEF WorkerDies, TypeOK
    <3> QED
      BY <2>4, <2>k, <3>1 DEF WorkerDies, Kept
  <2>5. ASSUME UNCHANGED vars, NEW p \in Runs PROVE EarnedSoFar(p)'
    BY <2>5, <2>k DEF vars, Kept
  <2> QED
    BY <1>2, <2>1, <2>2, <2>3, <2>4, <2>5 DEF EarnedInv, Next
<1> QED
  BY Invariance, <1>1, <1>2, PTL DEF Spec

-----------------------------------------------------------------------------
(* Theorems.                                                                *)

\* The state is well formed: in particular no run has more than MaxSessions sessions.
THEOREM TypeCorrect == Spec => []TypeOK
<1>1. Inv => TypeOK
  BY DEF Inv
<1> QED
  BY Invariance, <1>1, PTL

\* With APIS enabled, a result is successful only for an AIP that APIS has imported, after
\* each of the three tasks was done once, in one session; a run that returns nothing at all
\* has been canceled.
THEOREM SuccessIsAlwaysEarned == Spec => []SuccessIsEarned
<1>1. ASSUME EarnedInv PROVE SuccessIsEarned
  <2>1. ASSUME NEW p \in Runs, Done(p)
        PROVE  /\ import[p] = "Erfolgreich"
               /\ [i \in 1..Len(trail[p]) |-> trail[p][i].name]
                    = <<"download", "submit", "wait">>
               /\ Failures(p) = {}
    <3> DEFINE seq == <<Succ("download"), Succ("submit"), Succ("wait")>>
    <3>1. trail[p] = seq /\ import[p] = "Erfolgreich"
      BY <2>1 DEF Done
    <3>2. Len(seq) = 3 /\ seq[1].name = "download" /\ seq[2].name = "submit" /\ seq[3].name = "wait"
          /\ \A i \in 1..3 : seq[i].outcome = "success"
      BY DEF Succ
    <3> HIDE DEF seq
    <3>3. [i \in 1..3 |-> seq[i].name] = <<"download", "submit", "wait">>
      BY <3>2
    <3>4. Failures(p) = {}
      BY <3>1, <3>2 DEF Failures
    <3> QED
      BY <3>1, <3>2, <3>3, <3>4
  <2>2. \A p \in Runs : EarnedSoFar(p)
    BY <1>1 DEF EarnedInv
  <2> QED
    BY <2>1, <2>2 DEF SuccessIsEarned, EarnedSoFar, Fresh
<1> QED
  BY EarnedInvariance, <1>1, PTL

\* A result tells the truth about all sessions of its run: at most one failure each, a
\* failed outcome exactly when there is one, one successful submission at most, and tasks
\* done only as far as APIS went.
THEOREM ResultsSpanSessions == Spec => []ResultSpansSessions
<1>1. ASSUME Inv, EarnedInv PROVE ResultSpansSessions
  <2> SUFFICES ASSUME NEW p \in Runs
               PROVE  /\ Cardinality(Failures(p)) <= session[p]
                      /\ outcome[p] = "system error" <=> Failures(p) # {}
                      /\ Cardinality(Submissions(p)) <= 1
                      /\ Succeeded(p, "submit") => import[p] # "none"
                      /\ Succeeded(p, "wait") => Succeeded(p, "submit") /\ import[p] = "Erfolgreich"
    BY DEF ResultSpansSessions
  <2>1. TypeOK /\ FailuresSoFar(p) /\ TasksSoFar(p)
    BY <1>1 DEF Inv, RunInv
  <2>2. session[p] \in 1..MaxSessions /\ Cardinality(Failures(p)) \in Nat
    BY <2>1, FailuresFinite DEF TypeOK
  <2>3. session[p] \in Int
    BY <2>2
  <2>4. Cardinality(Failures(p)) <= session[p]
    <3>1. \/ Cardinality(Failures(p)) <= session[p]
          \/ Cardinality(Failures(p)) <= session[p] - 1
      BY <2>1 DEF FailuresSoFar
    <3> QED
      BY <2>2, <2>3, <3>1, OneLess
  <2>5. Cardinality(Submissions(p)) <= 1
    <3>1. PICK i : Submissions(p) \subseteq {i}
      BY <1>1 DEF EarnedInv, EarnedSoFar
    <3>2. IsFiniteSet({i}) /\ Cardinality({i}) = 1
      BY FS_Singleton
    <3>3. Cardinality(Submissions(p)) <= Cardinality({i})
      BY <3>1, <3>2, FS_Subset
    <3> QED
      BY <3>2, <3>3
  <2> QED
    BY <2>1, <2>4, <2>5 DEF FailuresSoFar, TasksSoFar
<1> QED
  BY Invariance, EarnedInvariance, <1>1, PTL

\* However many workers die, a run leaves at most one download directory behind for each
\* of its sessions, and one less when it returned a result.
THEOREM DownloadsAreAlwaysRemoved == Spec => []DownloadsAreRemoved
<1>1. Inv => DownloadsAreRemoved
  BY DEF Inv, RunInv, DownloadsSoFar, DownloadsAreRemoved
<1> QED
  BY Invariance, <1>1, PTL
-----------------------------------------------------------------------------
(* Progress.                                                                *)

\* What follows what in a session.
LEMMA Follows ==
  /\ Ahead(Course, "start", "session") /\ Ahead(Course, "start", "over")
  /\ Ahead(Course, "session", "path") /\ Ahead(Course, "session", "over")
  /\ Ahead(Course, "path", "fetch") /\ Ahead(Course, "path", "clean")
  /\ Ahead(Course, "fetch", "submit") /\ Ahead(Course, "fetch", "clean")
  /\ Ahead(Course, "submit", "wait") /\ Ahead(Course, "submit", "clean")
  /\ Ahead(Course, "wait", "clean")
  /\ Ahead(Course, "clean", "sleep") /\ Ahead(Course, "clean", "over")
<1>1. /\ DOMAIN Course = 1..9
      /\ Course[1] = "start" /\ Course[2] = "session" /\ Course[3] = "path"
      /\ Course[4] = "fetch" /\ Course[5] = "submit" /\ Course[6] = "wait"
      /\ Course[7] = "clean" /\ Course[8] = "sleep" /\ Course[9] = "over"
  BY DEF Course
<1>2. \A i, j \in 1..9 : i < j => Ahead(Course, Course[i], Course[j])
  BY <1>1 DEF Ahead
<1> HIDE DEF Course
<1>3. /\ \A j \in {2, 9} : Ahead(Course, Course[1], Course[j])
      /\ \A j \in {3, 9} : Ahead(Course, Course[2], Course[j])
      /\ \A j \in {4, 7} : Ahead(Course, Course[3], Course[j])
      /\ \A j \in {5, 7} : Ahead(Course, Course[4], Course[j])
      /\ \A j \in {6, 7} : Ahead(Course, Course[5], Course[j])
      /\ \A j \in {7} : Ahead(Course, Course[6], Course[j])
      /\ \A j \in {8, 9} : Ahead(Course, Course[7], Course[j])
  BY <1>2
<1> QED
  BY <1>1, <1>3

\* Every step of a run but the last of a session leads to a later step of the session.
LEMMA StepMovesOn ==
  ASSUME Inv, NEW p \in Runs, RunStep(p)
  PROVE  \/ session'[p] = session[p] /\ Ahead(Course, pc[p], pc'[p])
         \/ session'[p] = session[p] + 1 /\ session'[p] <= MaxSessions /\ pc[p] = "sleep"
<1>1. /\ pc \in [Runs -> Steps] /\ session \in [Runs -> 1..MaxSessions]
      /\ pc[p] = "sleep" => session[p] < MaxSessions
  BY DEF Inv, TypeOK, RunInv, SessionsBounded
<1>2. \A step : Go(p, step) => pc'[p] = step
  BY <1>1 DEF Go
<1>3. \A how : End(p, how) => pc'[p] = "over"
  BY <1>2 DEF End
<1>4. \A name : SystemError(p, name) => pc'[p] = "clean"
  BY <1>2 DEF SystemError
<1>5. CASE Start(p)
  BY <1>2, <1>3, <1>5, Follows DEF Start
<1>6. CASE CreateSession(p)
  BY <1>2, <1>3, <1>6, Follows DEF CreateSession
<1>7. CASE GetAIPPath(p)
  BY <1>2, <1>4, <1>7, Follows DEF GetAIPPath
<1>8. CASE FetchMETS(p)
  BY <1>2, <1>4, <1>8, Follows DEF FetchMETS
<1>9. CASE CreateImportRun(p)
  BY <1>2, <1>4, <1>9, Follows DEF CreateImportRun
<1>10. CASE PollImportRunStatus(p)
  BY <1>2, <1>4, <1>10, Follows DEF PollImportRunStatus
<1>11. CASE CleanUp(p)
  <2>1. pc'[p] \in {"sleep", "over"}
    BY <1>2, <1>3, <1>11 DEF CleanUp, AfterRemovalError
  <2> QED
    BY <2>1, <1>11, Follows DEF CleanUp
<1>12. CASE RetrySession(p)
  <2>1. session[p] \in 1..MaxSessions /\ session[p] < MaxSessions
    BY <1>1, <1>12 DEF RetrySession
  <2>2. session'[p] = session[p] + 1
    BY <1>1, <1>12 DEF RetrySession
  <2> QED
    BY <2>1, <2>2, <1>12, ConstantsFit DEF RetrySession
<1>13. CASE CreateSessionFails(p)
  BY <1>3, <1>13, Follows DEF CreateSessionFails
<1> QED
  BY <1>5, <1>6, <1>7, <1>8, <1>9, <1>10, <1>11, <1>12, <1>13 DEF RunStep, Progress

\* No run takes a step twice in a session, or goes back to a session it has left: the
\* number of its steps is bounded by the number of its sessions, whatever dies around it.
THEOREM RunsAlwaysMoveOn == Spec => RunsMoveOn
<1>1. ASSUME Inv
      PROVE  \A p \in Runs : RunStep(p) =>
               \/ session'[p] = session[p] /\ Ahead(Course, pc[p], pc'[p])
               \/ session'[p] = session[p] + 1 /\ session'[p] <= MaxSessions /\ pc[p] = "sleep"
  BY <1>1, StepMovesOn
<1> QED
  BY Invariance, <1>1, PTL DEF RunsMoveOn
=============================================================================
