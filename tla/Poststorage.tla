----------------------------- MODULE Poststorage -----------------------------
(***************************************************************************)
(* The poststorage child workflow (internal/workflows/poststorage.go):     *)
(* Execute with its session loop, and SessionHandler with its deferred     *)
(* cleanup, for several runs that share the worker processes.              *)
(*                                                                         *)
(* A session pins a run's activities to one worker, which downloads the    *)
(* AIP METS to its own disk.  A worker that dies loses its sessions: from  *)
(* then on every activity of those runs, the cleanup included, ends in an  *)
(* error.  A canceled run is in the same position.                         *)
(***************************************************************************)
EXTENDS Naturals, Sequences, FiniteSets

CONSTANTS
  Runs,         \* poststorage workflow runs, each for its own AIP
  Workers,      \* worker processes
  Slots,        \* maxConcurrentSessions of a worker
  MaxSessions,  \* maxAttempts of the session loop: 5
  NoWorker      \* not a worker

ASSUME ConstantsFit ==
  Slots \in Nat \ {0} /\ MaxSessions \in Nat \ {0} /\ NoWorker \notin Workers

VARIABLES
  apisEnabled,  \* the configuration of the workers, which never changes
  pc,           \* [Runs -> step]
  session,      \* [Runs -> attempt of the session loop]
  worker,       \* [Runs -> the worker of the open session, dead or not]
  lost,         \* [Runs -> the session's worker has died]
  canceled,     \* [Runs -> the workflow context is canceled]
  outcome,      \* [Runs -> PostStorageResult.Outcome]
  trail,        \* [Runs -> the result's tasks, in order]
  removing,     \* [Runs -> removePaths holds the download directory]
  ended,        \* [Runs -> what Execute returned]
  disk,         \* [Workers -> [Runs -> the download directory]]
  import        \* [Runs -> the APIS import run for the AIP's task]

vars == <<apisEnabled, pc, session, worker, lost, canceled, outcome, trail, removing,
          ended, disk, import>>

Steps == {"start", "session", "path", "fetch", "submit", "wait", "clean", "sleep", "over"}
TaskNames == {"download", "submit", "wait"}
Tasks == [name: TaskNames, outcome: {"success", "system failure"}]

TypeOK ==
  /\ apisEnabled \in BOOLEAN
  /\ pc \in [Runs -> Steps]
  /\ session \in [Runs -> 1..MaxSessions]
  /\ worker \in [Runs -> Workers \cup {NoWorker}]
  /\ lost \in [Runs -> BOOLEAN]
  /\ canceled \in [Runs -> BOOLEAN]
  /\ outcome \in [Runs -> {"success", "system error"}]
  /\ trail \in [Runs -> Seq(Tasks)]
  /\ removing \in [Runs -> BOOLEAN]
  /\ ended \in [Runs -> {"running", "result", "nil", "error"}]
  /\ disk \in [Workers -> [Runs -> {"none", "partial", "mets"}]]
  /\ import \in [Runs -> {"none", "running", "Erfolgreich", "Fehler"}]

Init ==
  /\ apisEnabled \in BOOLEAN
  /\ pc = [p \in Runs |-> "start"]
  /\ session = [p \in Runs |-> 1]
  /\ worker = [p \in Runs |-> NoWorker]
  /\ lost = [p \in Runs |-> FALSE]
  /\ canceled = [p \in Runs |-> FALSE]
  /\ outcome = [p \in Runs |-> "success"]
  /\ trail = [p \in Runs |-> <<>>]
  /\ removing = [p \in Runs |-> FALSE]
  /\ ended = [p \in Runs |-> "running"]
  /\ disk = [w \in Workers |-> [p \in Runs |-> "none"]]
  /\ import = [p \in Runs |-> "none"]

\* Activities of p's session can still succeed.
Healthy(p) == ~lost[p] /\ ~canceled[p]

Go(p, step) == pc' = [pc EXCEPT ![p] = step]

Record(p, name, o) ==
  trail' = [trail EXCEPT ![p] = Append(@, [name |-> name, outcome |-> o])]

\* Mutant: the outcome of the result stays.
SystemErrorKeepsOutcome(p, name) ==
  /\ Record(p, name, "system failure")
  /\ UNCHANGED outcome
  /\ Go(p, "clean")

\* result.SystemError, followed by "return nil" and the deferred cleanup.
SystemError(p, name) ==
  /\ Record(p, name, "system failure")
  /\ outcome' = [outcome EXCEPT ![p] = "system error"]
  /\ Go(p, "clean")

End(p, how) == ended' = [ended EXCEPT ![p] = how] /\ Go(p, "over")

-----------------------------------------------------------------------------
(* Execute, up to the session loop.                                         *)

\* Without APIS there is nothing to do; a bad UUID and missing or unreadable
\* custom metadata fail the workflow.
Start(p) ==
  /\ pc[p] = "start"
  /\ \/ ~apisEnabled /\ End(p, "result")
     \/ apisEnabled /\ End(p, "error")
     \/ apisEnabled /\ Go(p, "session") /\ UNCHANGED ended
  /\ UNCHANGED <<apisEnabled, session, worker, lost, canceled, outcome, trail, removing,
                 disk, import>>

\* CreateSession waits for a free slot, for ever if need be.
CreateSession(p) ==
  /\ pc[p] = "session"
  /\ \/ /\ canceled[p]
        /\ End(p, "error")
        /\ UNCHANGED worker
     \/ /\ ~canceled[p]
        /\ \E w \in Workers :
             /\ Cardinality({q \in Runs : worker[q] = w /\ ~lost[q]}) < Slots
             /\ worker' = [worker EXCEPT ![p] = w]
        /\ Go(p, "path")
        /\ UNCHANGED ended
  /\ UNCHANGED <<apisEnabled, session, lost, canceled, outcome, trail, removing, disk,
                 import>>

\* It may fail in a run that is not canceled as well: no session is opened, and the loop
\* does not try again.
CreateSessionFails(p) ==
  /\ pc[p] = "session"
  /\ End(p, "error")
  /\ UNCHANGED <<apisEnabled, session, worker, lost, canceled, outcome, trail, removing,
                 disk, import>>

-----------------------------------------------------------------------------
(* SessionHandler.                                                          *)

\* The download directory is to be removed from here on.
GetAIPPath(p) ==
  /\ pc[p] = "path"
  /\ \/ SystemError(p, "download") /\ UNCHANGED removing
     \/ /\ Healthy(p)
        /\ removing' = [removing EXCEPT ![p] = TRUE]
        /\ Go(p, "fetch")
        /\ UNCHANGED <<trail, outcome>>
  /\ UNCHANGED <<apisEnabled, session, worker, lost, canceled, ended, disk, import>>

OnDisk(p, what) == disk' = [disk EXCEPT ![worker[p]][p] = what]

\* Mutant: the directory is forgotten when the fetch has failed.
FetchMETSForgets(p) ==
  /\ pc[p] = "fetch"
  /\ \/ /\ SystemError(p, "download")
        /\ OnDisk(p, "partial")
        /\ removing' = [removing EXCEPT ![p] = FALSE]
     \/ /\ Healthy(p)
        /\ Record(p, "download", "success")
        /\ OnDisk(p, "mets")
        /\ Go(p, "submit")
        /\ UNCHANGED <<outcome, removing>>
  /\ UNCHANGED <<apisEnabled, session, worker, lost, canceled, ended, import>>

\* A failed fetch leaves nothing, or part of the file, or (the answer was lost,
\* or nobody waited for it) all of it.
FetchMETS(p) ==
  /\ pc[p] = "fetch"
  /\ \/ /\ SystemError(p, "download")
        /\ \/ \E left \in {"partial", "mets"} : OnDisk(p, left)
           \/ UNCHANGED disk
     \/ /\ Healthy(p)
        /\ Record(p, "download", "success")
        /\ OnDisk(p, "mets")
        /\ Go(p, "submit")
        /\ UNCHANGED outcome
  /\ UNCHANGED <<apisEnabled, session, worker, lost, canceled, removing, ended, import>>

\* APIS refuses a second run for a task; an attempt that failed here may have
\* created the run all the same.
CreateImportRun(p) ==
  /\ pc[p] = "submit"
  /\ \/ /\ SystemError(p, "submit")
        /\ \/ import[p] = "none" /\ import' = [import EXCEPT ![p] = "running"]
           \/ UNCHANGED import
     \/ /\ Healthy(p) /\ import[p] = "none"
        /\ Record(p, "submit", "success")
        /\ import' = [import EXCEPT ![p] = "running"]
        /\ Go(p, "wait")
        /\ UNCHANGED outcome
  /\ UNCHANGED <<apisEnabled, session, worker, lost, canceled, removing, ended, disk>>

\* Mutant: a failed import is not told from a successful one.
PollImportRunStatusBlind(p) ==
  /\ pc[p] = "wait"
  /\ Healthy(p) /\ import[p] \in {"Erfolgreich", "Fehler"}
  /\ Record(p, "wait", "success")
  /\ Go(p, "clean")
  /\ UNCHANGED <<apisEnabled, outcome, session, worker, lost, canceled, removing, ended,
                 disk, import>>

PollImportRunStatus(p) ==
  /\ pc[p] = "wait"
  /\ \/ SystemError(p, "wait")          \* an error, Fehler, or an unknown result
     \/ /\ Healthy(p) /\ import[p] = "Erfolgreich"
        /\ Record(p, "wait", "success")
        /\ Go(p, "clean")
        /\ UNCHANGED outcome
  /\ UNCHANGED <<apisEnabled, session, worker, lost, canceled, removing, ended, disk,
                 import>>

\* Mutant: one attempt too many.
AfterRemovalErrorOnceMore(p) ==
  \/ canceled[p] /\ End(p, "nil")
  \/ /\ ~canceled[p] /\ lost[p]
     /\ IF session[p] <= MaxSessions THEN Go(p, "sleep") /\ UNCHANGED ended
        ELSE End(p, "error")
  \/ ~canceled[p] /\ ~lost[p] /\ End(p, "error")

\* What Execute makes of the error of the removal.
AfterRemovalError(p) ==
  \/ canceled[p] /\ End(p, "nil")
  \/ /\ ~canceled[p] /\ lost[p]
     /\ IF session[p] < MaxSessions THEN Go(p, "sleep") /\ UNCHANGED ended
        ELSE End(p, "error")
  \/ ~canceled[p] /\ ~lost[p] /\ End(p, "error")

\* Mutant: the slot is kept.
CleanUpKeepsSlot(p) ==
  /\ pc[p] = "clean"
  /\ \/ Healthy(p) /\ End(p, "result")
     \/ AfterRemovalError(p)
  /\ UNCHANGED <<apisEnabled, session, worker, lost, canceled, outcome, trail, removing,
                 disk, import>>

\* The deferred function, and Execute's reaction to what it returns.  The
\* removal runs in the session and under its context; CompleteSession frees the
\* slot whatever happened, and the session and its removePaths are gone.
CleanUp(p) ==
  /\ pc[p] = "clean"
  /\ \/ /\ Healthy(p)
        /\ IF removing[p] THEN OnDisk(p, "none") ELSE UNCHANGED disk
        /\ End(p, "result")
     \/ /\ AfterRemovalError(p)
        /\ (UNCHANGED disk \/ (removing[p] /\ OnDisk(p, "none")))
  /\ worker' = [worker EXCEPT ![p] = NoWorker]
  /\ lost' = [lost EXCEPT ![p] = FALSE]
  /\ removing' = [removing EXCEPT ![p] = FALSE]
  /\ UNCHANGED <<apisEnabled, session, canceled, outcome, trail, import>>

\* The sleep before the next attempt: its error is ignored.
RetrySession(p) ==
  /\ pc[p] = "sleep"
  /\ session' = [session EXCEPT ![p] = @ + 1]
  /\ Go(p, "session")
  /\ UNCHANGED <<apisEnabled, worker, lost, canceled, outcome, trail, removing, ended,
                 disk, import>>

-----------------------------------------------------------------------------
(* The rest of the world.                                                   *)

\* A worker process dies and is started again, with its disk or a fresh one.
WorkerDies(w) ==
  /\ \E p \in Runs : worker[p] = w /\ ~lost[p]
  /\ lost' = [p \in Runs |-> lost[p] \/ worker[p] = w]
  /\ \/ UNCHANGED disk
     \/ disk' = [disk EXCEPT ![w] = [p \in Runs |-> "none"]]
  /\ UNCHANGED <<apisEnabled, pc, session, worker, canceled, outcome, trail, removing,
                 ended, import>>

Cancel(p) ==
  /\ ~canceled[p] /\ ended[p] = "running"
  /\ canceled' = [canceled EXCEPT ![p] = TRUE]
  /\ UNCHANGED <<apisEnabled, pc, session, worker, lost, outcome, trail, removing, ended,
                 disk, import>>

ApisFinishes(p) ==
  /\ import[p] = "running"
  /\ \E r \in {"Erfolgreich", "Fehler"} : import' = [import EXCEPT ![p] = r]
  /\ UNCHANGED <<apisEnabled, pc, session, worker, lost, canceled, outcome, trail,
                 removing, ended, disk>>

-----------------------------------------------------------------------------
\* The steps that come of themselves.
Progress(p) ==
  \/ Start(p) \/ CreateSession(p) \/ GetAIPPath(p) \/ FetchMETS(p)
  \/ CreateImportRun(p) \/ PollImportRunStatus(p) \/ CleanUp(p) \/ RetrySession(p)

RunStep(p) == Progress(p) \/ CreateSessionFails(p)

Next ==
  \/ \E p \in Runs : RunStep(p) \/ Cancel(p) \/ ApisFinishes(p)
  \/ \E w \in Workers : WorkerDies(w)

Spec == Init /\ [][Next]_vars

\* Every activity has a timeout and a bounded retry policy, so a run that is not
\* waiting for a slot always moves on.  Nothing promises that CreateSession fails.
FairSpec == Spec /\ \A p \in Runs : WF_vars(Progress(p))

-----------------------------------------------------------------------------
(* Safety.                                                                  *)

Left(p) == {w \in Workers : disk[w][p] # "none"}
Failures(p) == {i \in 1..Len(trail[p]) : trail[p][i].outcome = "system failure"}
Submissions(p) ==
  {i \in 1..Len(trail[p]) : trail[p][i] = [name |-> "submit", outcome |-> "success"]}
Succeeded(p, name) == [name |-> name, outcome |-> "success"] \in
                        {trail[p][i] : i \in 1..Len(trail[p])}

\* The METS files do not pile up on the workers: a run that returned a result
\* has removed its download, but for one directory per session it lost with its
\* worker; any other run leaves at most one per session (SessionHandler's
\* deferred removal, which runs in the session it cleans up after).
DownloadsAreRemoved ==
  \A p \in Runs :
    Cardinality(Left(p)) <= IF ended[p] = "result" THEN session[p] - 1 ELSE session[p]

\* With APIS enabled a result is successful only for an AIP that APIS has imported, after
\* each of the three tasks was done once, in one session; without it, for a run that did
\* nothing.  A run that returns neither a result nor an error, which whoever reads it takes
\* for a success since that is the outcome's zero value, has been canceled
\* (poststorage.go:87): a lost worker or a failed removal alone does not end like this.
SuccessIsEarned ==
  \A p \in Runs :
    /\ ended[p] = "result" /\ outcome[p] = "success" =>
         IF apisEnabled
         THEN /\ import[p] = "Erfolgreich"
              /\ [i \in 1..Len(trail[p]) |-> trail[p][i].name]
                   = <<"download", "submit", "wait">>
              /\ Failures(p) = {}
         ELSE trail[p] = <<>> /\ import[p] = "none"
    /\ ended[p] = "nil" => canceled[p]

\* Execute uses one result for all its sessions: it holds at most one failure
\* per session, its outcome tells whether it holds any, the AIP was submitted
\* successfully in at most one of them, and what it says was done APIS has done.
ResultSpansSessions ==
  \A p \in Runs :
    /\ Cardinality(Failures(p)) <= session[p]
    /\ outcome[p] = "system error" <=> Failures(p) # {}
    /\ Cardinality(Submissions(p)) <= 1
    /\ Succeeded(p, "submit") => import[p] # "none"
    /\ Succeeded(p, "wait") => Succeeded(p, "submit") /\ import[p] = "Erfolgreich"

\* What the retry of the session is for: "We want to retry the session if it
\* has been canceled as a result of losing the worker" (poststorage.go:79).  A
\* run whose last session did everything it had to is a success.
RetriedSessionSucceeds ==
  \A p \in Runs :
    ended[p] = "result" /\ Len(trail[p]) >= 3
      /\ SubSeq(trail[p], Len(trail[p]) - 2, Len(trail[p])) =
           [i \in 1..3 |-> [name |-> <<"download", "submit", "wait">>[i],
                           outcome |-> "success"]]
      => outcome[p] = "success"

-----------------------------------------------------------------------------
(* Action and liveness properties.                                          *)

\* The order in which a session goes through its steps.
Course == <<"start", "session", "path", "fetch", "submit", "wait", "clean", "sleep", "over">>

\* Order has A before B.
Ahead(order, a, b) == \E i, j \in DOMAIN order : i < j /\ order[i] = a /\ order[j] = b

\* What ends a run whatever its workers do: it never takes a step of a session
\* twice, nor comes back to a session it has left.  With MaxSessions of them no
\* run takes more than 9 * MaxSessions steps (the loop at poststorage.go:64).
RunsMoveOn ==
  [][\A p \in Runs : RunStep(p) =>
       \/ session'[p] = session[p] /\ Ahead(Course, pc[p], pc'[p])
       \/ session'[p] = session[p] + 1 /\ session'[p] <= MaxSessions /\ pc[p] = "sleep"]_vars

\* Every run ends, however many workers die and however long it waited for a
\* slot of a session: no session is left open and none is retried for ever.
EveryRunEnds == \A p \in Runs : <>(pc[p] = "over")
=============================================================================
