--------------------------- MODULE DuplicateCheck ---------------------------
(***************************************************************************)
(* The duplicate check of the preprocessing workflow, for several          *)
(* submissions at once: internal/localact/check_duplicate.go over          *)
(* persistence's CreateSIP, whose only test is the unique checksum column  *)
(* of the sip table.  The row is inserted when the check is made; the rest *)
(* of the ingest follows, and may fail.                                    *)
(*                                                                         *)
(* The check is a local activity: an attempt that times out, loses its     *)
(* connection or dies with its worker is made again, and the INSERT of the *)
(* one before may have been committed, or be committed later.  One that is *)
(* never executed, and a reply nobody reads, is lost.                      *)
(***************************************************************************)
EXTENDS Naturals, FiniteSets

CONSTANTS
  Sips,         \* submissions, a resubmission being another one
  Checksums,    \* SHA-256 digests
  MaxAttempts,  \* of a local activity: 3 (policies.go:27)
  MaxCrashes,   \* bound on the workers lost in the middle of a check
  Nobody        \* not a submission

ASSUME BoundsPositive ==
  MaxAttempts \in Nat \ {0} /\ MaxCrashes \in Nat /\ Nobody \notin Sips

VARIABLES
  checksum,     \* [Sips -> Checksums]: what the submitted file hashes to
  registry,     \* the sip table: [Checksums -> the submission whose row it is]
  step,         \* [Sips -> where the workflow is]
  attempt,      \* [Sips -> attempt of the local activity]
  crashes,      \* [Sips -> how often its worker died during the check]
  inserts,      \* INSERTs on their way to the database
  replies       \* the database's answers to the attempts in progress

vars == <<checksum, registry, step, attempt, crashes, inserts, replies>>

\* An INSERT is told from the others of its submission by the attempt it is of.
Insert == [sip: Sips, attempt: 1..MaxAttempts, crash: 0..MaxCrashes]

\* "process" is the rest of the ingest, entered when the check was passed.
Steps == {"submitted", "check", "process", "ingested", "failed", "duplicate",
          "system error"}

TypeOK ==
  /\ checksum \in [Sips -> Checksums]
  /\ registry \in [Checksums -> Sips \cup {Nobody}]
  /\ step \in [Sips -> Steps]
  /\ attempt \in [Sips -> 1..MaxAttempts]
  /\ crashes \in [Sips -> 0..MaxCrashes]
  /\ inserts \subseteq Insert
  /\ replies \subseteq [to: Insert, body: {"created", "constraint error"}]

Init ==
  /\ checksum \in [Sips -> Checksums]
  /\ registry = [c \in Checksums |-> Nobody]
  /\ step = [s \in Sips |-> "submitted"]
  /\ attempt = [s \in Sips |-> 1]
  /\ crashes = [s \in Sips |-> 0]
  /\ inserts = {}
  /\ replies = {}

InsertOf(s, a, k) == [sip |-> s, attempt |-> a, crash |-> k]

\* The INSERT of the attempt submission s waits for.
Current(s) == InsertOf(s, attempt[s], crashes[s])

Go(s, to) == step' = [step EXCEPT ![s] = to]

\* A reply to an attempt that was given up finds nobody.
Forget(s) == replies' = {r \in replies : r.to.sip # s}

-----------------------------------------------------------------------------
(* The workflow.                                                            *)

\* ChecksumSIP, and the first attempt of the check.
ChecksumSIP(s) ==
  /\ step[s] = "submitted"
  /\ \/ Go(s, "check") /\ inserts' = inserts \cup {Current(s)}
     \/ Go(s, "system error") /\ UNCHANGED inserts
  /\ UNCHANGED <<checksum, registry, attempt, crashes, replies>>

\* Mutant: the constraint error is an error like any other.
VerdictIgnoresConstraint(body) == "process"

\* Mutant: the result is inverted.
VerdictInverted(body) == IF body = "constraint error" THEN "process" ELSE "duplicate"

\* What Execute makes of CheckDuplicateResult.
Verdict(body) == IF body = "constraint error" THEN "duplicate" ELSE "process"

CheckDuplicate(s) ==
  /\ step[s] = "check"
  /\ \E r \in replies :
       /\ r.to = Current(s)
       /\ Go(s, Verdict(r.body))
       /\ replies' = replies \ {r}
  /\ UNCHANGED <<checksum, registry, attempt, crashes, inserts>>

\* Mutant: the attempts are not counted.
RetryCheckUncounted(s) ==
  /\ step[s] = "check"
  /\ inserts' = inserts \cup {Current(s)}
  /\ Forget(s)
  /\ UNCHANGED <<checksum, registry, step, attempt, crashes>>

\* The attempt failed or timed out.
RetryCheck(s) ==
  /\ step[s] = "check"
  /\ IF attempt[s] < MaxAttempts
     THEN /\ attempt' = [attempt EXCEPT ![s] = @ + 1]
          /\ inserts' = inserts \cup {InsertOf(s, attempt[s] + 1, crashes[s])}
          /\ UNCHANGED step
     ELSE Go(s, "system error") /\ UNCHANGED <<attempt, inserts>>
  /\ Forget(s)
  /\ UNCHANGED <<checksum, registry, crashes>>

\* A worker that dies has not recorded the local activity: the workflow task is
\* done again elsewhere, and with it the activity from its first attempt.
CrashWorker(s) ==
  /\ step[s] = "check" /\ crashes[s] < MaxCrashes
  /\ crashes' = [crashes EXCEPT ![s] = @ + 1]
  /\ attempt' = [attempt EXCEPT ![s] = 1]
  /\ inserts' = inserts \cup {InsertOf(s, 1, crashes[s] + 1)}
  /\ Forget(s)
  /\ UNCHANGED <<checksum, registry, step>>

\* The rest of the workflow never looks at the table again, nor cleans it up.
Process(s) ==
  /\ step[s] = "process"
  /\ \E to \in {"ingested", "failed"} : Go(s, to)
  /\ UNCHANGED <<checksum, registry, attempt, crashes, inserts, replies>>

-----------------------------------------------------------------------------
(* The database.                                                            *)

Reply(m, body) ==
  replies' = IF step[m.sip] = "check" /\ m = Current(m.sip)
             THEN replies \cup {[to |-> m, body |-> body]} ELSE replies

\* Mutant: the column is not unique, the last row wins.
CreateSIPNotUnique(m) ==
  /\ m \in inserts
  /\ inserts' = inserts \ {m}
  /\ registry' = [registry EXCEPT ![checksum[m.sip]] = m.sip]
  /\ Reply(m, "created")
  /\ UNCHANGED <<checksum, step, attempt, crashes>>

\* CreateSIP.
CreateSIP(m) ==
  /\ m \in inserts
  /\ inserts' = inserts \ {m}
  /\ IF registry[checksum[m.sip]] = Nobody
     THEN registry' = [registry EXCEPT ![checksum[m.sip]] = m.sip] /\ Reply(m, "created")
     ELSE UNCHANGED registry /\ Reply(m, "constraint error")
  /\ UNCHANGED <<checksum, step, attempt, crashes>>

-----------------------------------------------------------------------------
WorkflowStep(s) ==
  ChecksumSIP(s) \/ CheckDuplicate(s) \/ RetryCheck(s) \/ Process(s)

Next ==
  \/ \E s \in Sips : WorkflowStep(s) \/ CrashWorker(s)
  \/ \E m \in inserts : CreateSIP(m)

Spec == Init /\ [][Next]_vars

\* Temporal runs every workflow on and counts its attempts.
FairSpec == Spec /\ \A s \in Sips : WF_vars(WorkflowStep(s))

-----------------------------------------------------------------------------
(* Properties.                                                              *)

Accepted(s) == step[s] \in {"process", "ingested", "failed"}
Over(s)     == step[s] \notin {"submitted", "check", "process"}

\* Of all submissions of the same content, checked at the same time or years
\* apart, the check lets at most one through, and that is the one whose row is
\* in the table, whichever of its attempts inserted it.
AcceptedOnce ==
  \A s, t \in Sips :
    Accepted(s) =>
      /\ registry[checksum[s]] = s
      /\ Accepted(t) /\ checksum[t] = checksum[s] => t = s

\* What a refusal really says: the row was there before.  Either it is another
\* submission's, or the refused one inserted it itself in an attempt whose
\* answer was lost.
RefusedForARow ==
  \A s \in Sips : step[s] = "duplicate" =>
    /\ registry[checksum[s]] # Nobody
    /\ registry[checksum[s]] = s => attempt[s] > 1 \/ crashes[s] > 0

\* A checksum stays with the submission that registered it, even when that one
\* was refused or has failed: no other of the same content ever gets through.
ChecksumIsTaken ==
  [][\A s, t \in Sips :
       registry[checksum[t]] = t /\ s # t /\ checksum[s] = checksum[t] =>
         registry'[checksum[t]] = t /\ (Accepted(s)' => Accepted(s))]_vars

\* The order in which a submission goes through its steps.
Course ==
  <<"submitted", "check", "process", "ingested", "failed", "duplicate", "system error">>

\* Order has A before B.
Ahead(order, a, b) == \E i, j \in DOMAIN order : i < j /\ order[i] = a /\ order[j] = b

\* What ends a check whatever is lost: a worker makes at most MaxAttempts INSERTs
\* for a submission, each for another attempt, and never checks it again after
\* the verdict; only the loss of the worker starts the count anew.
ChecksMoveOn ==
  [][\A s \in Sips : WorkflowStep(s) \/ CrashWorker(s) =>
       \/ crashes'[s] = crashes[s] /\ Ahead(Course, step[s], step'[s])
       \/ /\ crashes'[s] = crashes[s] /\ step'[s] = step[s]
          /\ attempt'[s] > attempt[s] /\ attempt'[s] <= MaxAttempts
       \/ crashes'[s] > crashes[s] /\ step[s] = "check" /\ step'[s] = "check"]_vars

\* Every submission gets its verdict.
EveryCheckEnds == \A s \in Sips : <>Over(s)

\* What the check is for: "A previously submitted SIP has the same checksum"
\* (preprocessing.go:124), "Determines if an identical SIP has previously been
\* ingested" (README.md:212): a refusal is about another submission.
RefusedForAnother ==
  \A s \in Sips : step[s] = "duplicate" =>
    \E t \in Sips \ {s} : checksum[t] = checksum[s] /\ step[t] # "submitted"
=============================================================================
