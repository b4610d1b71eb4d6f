------------------------ MODULE DuplicateCheckProofs ------------------------
(***************************************************************************)
(* Proofs about DuplicateCheck, for any number of submissions, digests,    *)
(* attempts and crashes.                                                   *)
(*                                                                         *)
(* AcceptedOnce alone is not inductive: a submission is accepted when it   *)
(* reads a reply, long after the INSERT was executed.  The invariant says  *)
(* what a reply on its way is evidence of: "created", that the row is the  *)
(* submission's; "constraint error", that there is a row, and one the      *)
(* submission inserted itself only if this was not its first INSERT.       *)
(***************************************************************************)
EXTENDS DuplicateCheck, TLAPS

\* Submission s has sent no more than its first INSERT.
FirstTry(s) == attempt[s] = 1 /\ crashes[s] = 0

CreatedMeansOwned ==
  \A r \in replies : r.body = "created" => registry[checksum[r.to.sip]] = r.to.sip

AcceptedOwns == \A s \in Sips : Accepted(s) => registry[checksum[s]] = s

Inv == TypeOK /\ CreatedMeansOwned /\ AcceptedOwns

-----------------------------------------------------------------------------
\* The invariant holds at the start, when nothing is accepted and the table is empty.
LEMMA InitInv == Init => Inv
BY BoundsPositive DEF Init, Inv, TypeOK, Steps, CreatedMeansOwned, AcceptedOwns, Accepted

\* Every step keeps the types, whichever of the two verdicts a reply brings.
LEMMA NextTypeOK == TypeOK /\ [Next]_vars => TypeOK'
<1> SUFFICES ASSUME TypeOK, [Next]_vars PROVE TypeOK'
  OBVIOUS
<1>n. MaxAttempts \in Nat /\ MaxCrashes \in Nat /\ 1 \in 1..MaxAttempts
  BY BoundsPositive
<1> USE DEF TypeOK
<1>a. \A s \in Sips, a \in 1..MaxAttempts, k \in 0..MaxCrashes : InsertOf(s, a, k) \in Insert
  BY DEF Insert, InsertOf
<1>b. \A s \in Sips : Current(s) \in Insert
  BY <1>a DEF Current
<1>c. \A s \in Sips, to \in Steps : Go(s, to) => step' \in [Sips -> Steps]
  BY DEF Go
<1>1. ASSUME NEW s \in Sips, ChecksumSIP(s) PROVE TypeOK'
  BY <1>1, <1>b, <1>c DEF ChecksumSIP, Steps
<1>2. ASSUME NEW s \in Sips, CheckDuplicate(s) PROVE TypeOK'
  <2>1. step' \in [Sips -> Steps]
    BY <1>2, <1>c DEF CheckDuplicate, Verdict, Steps
  <2> QED
    BY <1>2, <2>1 DEF CheckDuplicate
<1>3. ASSUME NEW s \in Sips, RetryCheck(s) PROVE TypeOK'
  <2>1. CASE attempt[s] < MaxAttempts
    <3>0. attempt[s] \in 1..MaxAttempts
      OBVIOUS
    <3>1. attempt[s] + 1 \in 1..MaxAttempts
      <4> HIDE DEF TypeOK
      <4> QED
        BY <1>n, <2>1, <3>0
    <3>2. InsertOf(s, attempt[s] + 1, crashes[s]) \in Insert
      BY <3>1, <1>a
    <3> QED
      BY <1>3, <2>1, <3>1, <3>2 DEF RetryCheck, Forget
  <2>2. CASE ~(attempt[s] < MaxAttempts)
    BY <1>3, <2>2, <1>c DEF RetryCheck, Forget, Steps
  <2> QED
    BY <2>1, <2>2
<1>4. ASSUME NEW s \in Sips, Process(s) PROVE TypeOK'
  BY <1>4, <1>c DEF Process, Steps
<1>5. ASSUME NEW s \in Sips, CrashWorker(s) PROVE TypeOK'
  <2>0. crashes[s] \in 0..MaxCrashes /\ crashes[s] < MaxCrashes
    BY <1>5 DEF CrashWorker
  <2>1. crashes[s] + 1 \in 0..MaxCrashes /\ 1 \in 1..MaxAttempts
    <3> HIDE DEF TypeOK
    <3> QED
      BY <1>n, <2>0
  <2>2. InsertOf(s, 1, crashes[s] + 1) \in Insert
    BY <2>1, <1>a
  <2> QED
    BY <1>5, <2>1, <2>2 DEF CrashWorker, Forget
<1>6. ASSUME NEW m \in inserts, CreateSIP(m) PROVE TypeOK'
  <2>1. m \in Insert /\ m.sip \in Sips /\ checksum[m.sip] \in Checksums
    BY DEF Insert
  <2>2. registry' \in [Checksums -> Sips \cup {Nobody}]
    BY <1>6, <2>1 DEF CreateSIP
  <2>3. ASSUME NEW body \in {"created", "constraint error"}, Reply(m, body)
        PROVE  replies' \subseteq [to: Insert, body: {"created", "constraint error"}]
    <3>1. replies' \subseteq replies \cup {[to |-> m, body |-> body]}
      BY <2>3, Zenon DEF Reply
    <3>2. [to |-> m, body |-> body] \in [to: Insert, body: {"created", "constraint error"}]
      BY <2>1
    <3> QED
      BY <3>1, <3>2
  <2>4. replies' \subseteq [to: Insert, body: {"created", "constraint error"}]
    <3>1. Reply(m, "created") \/ Reply(m, "constraint error")
      BY <1>6 DEF CreateSIP
    <3> QED
      BY <2>3, <3>1
  <2> QED
    BY <1>6, <2>2, <2>4 DEF CreateSIP
<1>7. CASE UNCHANGED vars
  BY <1>7 DEF vars
<1> QED
  BY <1>1, <1>2, <1>3, <1>4, <1>5, <1>6, <1>7 DEF Next, WorkflowStep

\* The step of the invariant, one action at a time.
LEMMA NextOwned ==
  Inv /\ [Next]_vars => CreatedMeansOwned' /\ AcceptedOwns'
<1> SUFFICES ASSUME Inv, [Next]_vars PROVE CreatedMeansOwned' /\ AcceptedOwns'
  OBVIOUS
<1> USE DEF Inv
<1>t. /\ \A r \in replies : r.to.sip \in Sips /\ r.to \in Insert
      /\ \A m \in inserts : m.sip \in Sips
      /\ step \in [Sips -> Steps]
  BY DEF TypeOK, Insert
\* Steps that accept nobody, touch no row and bring no reply.
<1>q. ASSUME registry' = registry, checksum' = checksum, replies' \subseteq replies,
             \A s \in Sips : Accepted(s)' => Accepted(s)
      PROVE  CreatedMeansOwned' /\ AcceptedOwns'
  BY <1>q DEF CreatedMeansOwned, AcceptedOwns
<1>1. ASSUME NEW s \in Sips, ChecksumSIP(s) PROVE CreatedMeansOwned' /\ AcceptedOwns'
  BY <1>1, <1>q, <1>t DEF ChecksumSIP, Go, Accepted
<1>2. ASSUME NEW s \in Sips, CheckDuplicate(s) PROVE CreatedMeansOwned' /\ AcceptedOwns'
  <2> PICK r \in replies : r.to = Current(s) /\ Go(s, Verdict(r.body))
                            /\ replies' = replies \ {r}
    BY <1>2 DEF CheckDuplicate
  <2>1. r.to.sip = s
    BY DEF Current, InsertOf
  <2>2. r.body \in {"created", "constraint error"}
    BY DEF TypeOK
  <2>3. CASE r.body = "created"
    <3>1. registry[checksum[s]] = s
      BY <2>1, <2>3 DEF CreatedMeansOwned
    <3>2. \A t \in Sips \ {s} : step'[t] = step[t]
      BY <1>t DEF Go
    <3> QED
      BY <1>2, <3>1, <3>2 DEF CheckDuplicate, CreatedMeansOwned, AcceptedOwns, Accepted
  <2>4. CASE r.body = "constraint error"
    BY <1>2, <2>4, <1>t, <1>q DEF CheckDuplicate, Go, Verdict, Accepted
  <2> QED
    BY <2>2, <2>3, <2>4
<1>3. ASSUME NEW s \in Sips, RetryCheck(s) PROVE CreatedMeansOwned' /\ AcceptedOwns'
  BY <1>3, <1>q, <1>t DEF RetryCheck, Go, Forget, Accepted
<1>4. ASSUME NEW s \in Sips, Process(s) PROVE CreatedMeansOwned' /\ AcceptedOwns'
  BY <1>4, <1>q, <1>t DEF Process, Go, Accepted
<1>5. ASSUME NEW s \in Sips, CrashWorker(s) PROVE CreatedMeansOwned' /\ AcceptedOwns'
  BY <1>5, <1>q, <1>t DEF CrashWorker, Forget, Accepted
<1>6. ASSUME NEW m \in inserts, CreateSIP(m) PROVE CreatedMeansOwned' /\ AcceptedOwns'
  <2> DEFINE c == checksum[m.sip]
  <2>1. c \in Checksums /\ m.sip \in Sips /\ Nobody \notin Sips
    BY <1>t, BoundsPositive DEF TypeOK
  <2>2. CASE registry[c] = Nobody
    <3>1. registry' = [registry EXCEPT ![c] = m.sip] /\ Reply(m, "created")
      BY <1>6, <2>2 DEF CreateSIP
    <3>2. registry'[c] = m.sip /\ \A d \in Checksums \ {c} : registry'[d] = registry[d]
      BY <2>1, <3>1 DEF TypeOK
    <3>3. \A s \in Sips : checksum[s] = c => ~Accepted(s)
      BY <2>1, <2>2 DEF AcceptedOwns
    <3>4. \A r \in replies : checksum[r.to.sip] = c => r.body # "created"
      BY <1>t, <2>1, <2>2 DEF CreatedMeansOwned
    <3>5. AcceptedOwns'
      BY <1>6, <3>2, <3>3 DEF CreateSIP, AcceptedOwns, Accepted, TypeOK
    <3>6. \A r \in replies' : r \in replies \/ r.to = m
      BY <3>1 DEF Reply
    <3>7. checksum' = checksum
      BY <1>6 DEF CreateSIP
    <3>8. CreatedMeansOwned'
      <4> SUFFICES ASSUME NEW r \in replies', r.body = "created"
                   PROVE  registry'[checksum[r.to.sip]] = r.to.sip
        BY <3>7 DEF CreatedMeansOwned
      <4>1. CASE r.to = m
        BY <4>1, <3>2
      <4>2. CASE r \in replies
        <5>1. checksum[r.to.sip] # c /\ checksum[r.to.sip] \in Checksums
          BY <4>2, <3>4, <1>t DEF TypeOK
        <5> QED
          BY <4>2, <5>1, <3>2 DEF CreatedMeansOwned
      <4> QED
        BY <3>6, <4>1, <4>2
    <3> QED
      BY <3>5, <3>8
  <2>3. CASE registry[c] # Nobody
    <3>1. registry' = registry /\ checksum' = checksum /\ step' = step
          /\ Reply(m, "constraint error")
      BY <1>6, <2>3 DEF CreateSIP
    <3>2. \A r \in replies' : r \in replies \/ r.body = "constraint error"
      <4>1. replies' \subseteq replies \cup {[to |-> m, body |-> "constraint error"]}
        BY <3>1, Zenon DEF Reply
      <4>2. [to |-> m, body |-> "constraint error"].body = "constraint error"
        OBVIOUS
      <4> QED
        BY <4>1, <4>2, Zenon
    <3> QED
      BY <3>1, <3>2 DEF CreatedMeansOwned, AcceptedOwns, Accepted
  <2> QED
    BY <2>2, <2>3
<1>7. CASE UNCHANGED vars
  BY <1>7, <1>q DEF vars, Accepted
<1> QED
  BY <1>1, <1>2, <1>3, <1>4, <1>5, <1>6, <1>7 DEF Next, WorkflowStep

\* The invariant holds in every run.
LEMMA Invariance == Spec => []Inv
<1>1. Inv /\ [Next]_vars => Inv'
  BY NextTypeOK, NextOwned DEF Inv
<1> QED
  BY InitInv, <1>1, PTL DEF Spec

-----------------------------------------------------------------------------
(* Why a submission is refused.                                             *)

\* There is a row, and one of the submission's own only after its first INSERT.
Reason(s) ==
  registry[checksum[s]] # Nobody /\ (registry[checksum[s]] = s => ~FirstTry(s))

\* The first INSERT of a submission is sent once, and is gone when it made the row.
FirstInsert(s) ==
  /\ step[s] = "submitted" =>
       FirstTry(s) /\ registry[checksum[s]] # s /\ \A m \in inserts : m.sip # s
  /\ FirstTry(s) =>
       /\ \A m \in inserts : m.sip = s => m = InsertOf(s, 1, 0)
       /\ registry[checksum[s]] = s => InsertOf(s, 1, 0) \notin inserts

RefusalsHaveReasons ==
  /\ \A r \in replies : r.body = "constraint error" => Reason(r.to.sip)
  /\ \A s \in Sips : step[s] = "duplicate" => Reason(s)

RefusalInv == RefusalsHaveReasons /\ \A s \in Sips : FirstInsert(s)

\* Attempts are counted from one, crashes from none.
LEMMA Counting ==
  ASSUME TypeOK, NEW s \in Sips
  PROVE  /\ attempt[s] + 1 # 1 /\ (attempt[s] = 1 \/ attempt[s] > 1)
         /\ crashes[s] + 1 # 0 /\ (crashes[s] = 0 \/ crashes[s] > 0)
<1>1. attempt[s] \in 1..MaxAttempts /\ crashes[s] \in 0..MaxCrashes
  BY DEF TypeOK
<1>2. \A n \in 1..MaxAttempts : n + 1 # 1 /\ (n = 1 \/ n > 1)
  BY BoundsPositive
<1>3. \A n \in 0..MaxCrashes : n + 1 # 0 /\ (n = 0 \/ n > 0)
  BY BoundsPositive
<1> QED
  BY <1>1, <1>2, <1>3

\* Nothing is refused at the start, and no INSERT is on its way.
LEMMA InitRefusal == Init => RefusalInv
BY BoundsPositive
DEF Init, RefusalInv, RefusalsHaveReasons, FirstInsert, FirstTry, Reason

\* A reason stays one: rows are never taken back, and attempts are not undone.
LEMMA NextRefusal == Inv /\ RefusalInv /\ [Next]_vars => RefusalInv'
<1> SUFFICES ASSUME Inv, RefusalInv, [Next]_vars PROVE RefusalInv'
  OBVIOUS
<1>t. TypeOK
  BY DEF Inv
<1>f. /\ \A r \in replies : r.to.sip \in Sips /\ r.body \in {"created", "constraint error"}
      /\ \A m \in inserts : m.sip \in Sips
      /\ step \in [Sips -> Steps]
  BY <1>t DEF TypeOK, Insert
\* Steps that insert no row, undo no attempt, and refuse nobody without a reason.
<1>q. ASSUME registry' = registry, checksum' = checksum,
             \A s \in Sips : FirstTry(s)' => FirstTry(s),
             \A r \in replies' : r \in replies,
             \A s \in Sips : step'[s] = "duplicate" => step[s] = "duplicate" \/ Reason(s)
      PROVE  RefusalsHaveReasons'
  BY <1>f, <1>q DEF RefusalInv, RefusalsHaveReasons, Reason
<1>1. ASSUME NEW s \in Sips, ChecksumSIP(s) PROVE RefusalInv'
  <2>1. RefusalsHaveReasons'
    BY <1>1, <1>f, <1>q DEF ChecksumSIP, Go, FirstTry
  <2>2. FirstTry(s) /\ registry[checksum[s]] # s /\ \A m \in inserts : m.sip # s
    BY <1>1 DEF ChecksumSIP, RefusalInv, FirstInsert
  <2>3. /\ step'[s] # "submitted" /\ \A t \in Sips \ {s} : step'[t] = step[t]
        /\ inserts' \subseteq inserts \cup {InsertOf(s, 1, 0)} /\ InsertOf(s, 1, 0).sip = s
        /\ UNCHANGED <<checksum, registry, attempt, crashes>>
    BY <1>1, <1>f, <2>2 DEF ChecksumSIP, Go, Current, FirstTry, InsertOf
  <2>4. FirstInsert(s)'
    BY <2>2, <2>3 DEF FirstInsert, FirstTry
  <2>5. ASSUME NEW t \in Sips \ {s} PROVE FirstInsert(t)'
    BY <2>3 DEF RefusalInv, FirstInsert, FirstTry, InsertOf
  <2> QED
    BY <2>1, <2>4, <2>5 DEF RefusalInv
\* Steps that send nothing leave the first INSERTs alone.
<1>i. ASSUME UNCHANGED <<checksum, registry, attempt, crashes, inserts>>,
             \A s \in Sips : step'[s] = "submitted" => step[s] = "submitted"
      PROVE  \A s \in Sips : FirstInsert(s)'
  BY <1>i DEF RefusalInv, FirstInsert, FirstTry
<1>2. ASSUME NEW s \in Sips, CheckDuplicate(s) PROVE RefusalInv'
  <2> PICK r \in replies : r.to = Current(s) /\ Go(s, Verdict(r.body))
                            /\ replies' = replies \ {r}
    BY <1>2 DEF CheckDuplicate
  <2>1. r.to.sip = s
    BY DEF Current, InsertOf
  <2>2. step'[s] = "duplicate" => Reason(s)
    BY <1>f, <2>1 DEF Go, Verdict, RefusalInv, RefusalsHaveReasons
  <2>3. step'[s] # "submitted" /\ \A t \in Sips \ {s} : step'[t] = step[t]
    BY <1>f DEF Go, Verdict
  <2>4. RefusalsHaveReasons'
    BY <1>2, <1>q, <2>2, <2>3 DEF CheckDuplicate, FirstTry
  <2> QED
    BY <1>2, <1>i, <2>3, <2>4 DEF CheckDuplicate, RefusalInv
\* Steps that send a further INSERT: the submission is past its first try.
<1>m. ASSUME NEW s \in Sips, step[s] = "check", UNCHANGED <<checksum, registry>>,
             ~FirstTry(s)', \A t \in Sips \ {s} : FirstTry(t)' <=> FirstTry(t),
             \A t \in Sips : step'[t] = "submitted" => t # s /\ step[t] = "submitted",
             \A m \in inserts' : m \in inserts \/ m.sip = s
      PROVE  \A t \in Sips : FirstInsert(t)'
  <2>1. FirstInsert(s)'
    BY <1>m DEF FirstInsert
  <2>2. ASSUME NEW t \in Sips \ {s} PROVE FirstInsert(t)'
    BY <1>m DEF RefusalInv, FirstInsert, InsertOf
  <2> QED
    BY <2>1, <2>2
<1>3. ASSUME NEW s \in Sips, RetryCheck(s) PROVE RefusalInv'
  <2>0. step[s] = "check" /\ UNCHANGED <<checksum, registry, crashes>>
        /\ \A r \in replies' : r \in replies
    BY <1>3 DEF RetryCheck, Forget
  <2>1. CASE attempt[s] < MaxAttempts
    <3>1. /\ attempt' = [attempt EXCEPT ![s] = attempt[s] + 1] /\ UNCHANGED step
          /\ \A m \in inserts' : m \in inserts \/ m.sip = s
      BY <1>3, <2>1 DEF RetryCheck, InsertOf
    <3>2. attempt'[s] = attempt[s] + 1 /\ \A t \in Sips \ {s} : attempt'[t] = attempt[t]
      BY <1>t, <3>1 DEF TypeOK
    <3>3. ~FirstTry(s)' /\ \A t \in Sips \ {s} : FirstTry(t)' <=> FirstTry(t)
      BY <1>t, <2>0, <3>2, Counting DEF FirstTry
    <3> QED
      BY <1>q, <1>m, <2>0, <3>1, <3>3 DEF RefusalInv
  <2>2. CASE ~(attempt[s] < MaxAttempts)
    <3>1. UNCHANGED <<attempt, inserts>> /\ Go(s, "system error")
      BY <1>3, <2>2 DEF RetryCheck
    <3>2. step'[s] = "system error" /\ \A t \in Sips \ {s} : step'[t] = step[t]
      BY <1>f, <3>1 DEF Go
    <3> QED
      BY <1>q, <1>i, <2>0, <3>1, <3>2 DEF RefusalInv, FirstTry
  <2> QED
    BY <2>1, <2>2
<1>4. ASSUME NEW s \in Sips, Process(s) PROVE RefusalInv'
  <2>1. \A t \in Sips : step'[t] = step[t] \/ step'[t] \in {"ingested", "failed"}
    BY <1>4, <1>f DEF Process, Go
  <2> QED
    BY <1>4, <1>q, <1>i, <2>1 DEF Process, RefusalInv, FirstTry
<1>5. ASSUME NEW s \in Sips, CrashWorker(s) PROVE RefusalInv'
  <2>0. /\ step[s] = "check" /\ UNCHANGED <<checksum, registry, step>>
        /\ crashes' = [crashes EXCEPT ![s] = crashes[s] + 1]
        /\ attempt' = [attempt EXCEPT ![s] = 1]
        /\ \A r \in replies' : r \in replies
        /\ \A m \in inserts' : m \in inserts \/ m.sip = s
    BY <1>5 DEF CrashWorker, Forget, InsertOf
  <2>1. /\ crashes'[s] = crashes[s] + 1
        /\ \A t \in Sips \ {s} : crashes'[t] = crashes[t] /\ attempt'[t] = attempt[t]
    BY <1>t, <2>0 DEF TypeOK
  <2>2. ~FirstTry(s)' /\ \A t \in Sips \ {s} : FirstTry(t)' <=> FirstTry(t)
    BY <1>t, <2>1, Counting DEF FirstTry
  <2> QED
    BY <1>q, <1>m, <2>0, <2>2 DEF RefusalInv
<1>6. ASSUME NEW m \in inserts, CreateSIP(m) PROVE RefusalInv'
  <2> DEFINE c == checksum[m.sip]
  <2>0. /\ inserts' = inserts \ {m} /\ UNCHANGED <<checksum, step, attempt, crashes>>
        /\ m.sip \in Sips /\ c \in Checksums /\ Nobody \notin Sips
    BY <1>6, <1>t, <1>f, BoundsPositive DEF CreateSIP, TypeOK
  <2>1. \A s \in Sips : FirstTry(s)' <=> FirstTry(s)
    BY <2>0 DEF FirstTry
  <2>2. CASE registry[c] = Nobody
    <3>1. registry' = [registry EXCEPT ![c] = m.sip] /\ Reply(m, "created")
      BY <1>6, <2>2 DEF CreateSIP
    <3>2. registry'[c] = m.sip /\ \A d \in Checksums \ {c} : registry'[d] = registry[d]
      BY <1>t, <2>0, <3>1 DEF TypeOK
    <3>3. \A s \in Sips : Reason(s) => Reason(s)'
      <4> SUFFICES ASSUME NEW s \in Sips, Reason(s) PROVE Reason(s)'
        OBVIOUS
      <4>1. checksum[s] # c /\ checksum[s] \in Checksums
        BY <1>t, <2>2 DEF Reason, TypeOK
      <4> QED
        BY <2>0, <2>1, <3>2, <4>1 DEF Reason
    <3>4. \A r \in replies' : r \in replies \/ r.body # "constraint error"
      <4>1. replies' \subseteq replies \cup {[to |-> m, body |-> "created"]}
        BY <3>1, Zenon DEF Reply
      <4>2. [to |-> m, body |-> "created"].body # "constraint error"
        OBVIOUS
      <4> QED
        BY <4>1, <4>2, Zenon
    <3>5. RefusalsHaveReasons'
      BY <1>f, <2>0, <3>3, <3>4 DEF RefusalInv, RefusalsHaveReasons
    <3>6. ASSUME NEW s \in Sips PROVE FirstInsert(s)'
      <4>1. CASE s = m.sip
        <5>1. step[s] # "submitted"
          BY <4>1 DEF RefusalInv, FirstInsert
        <5>2. FirstTry(s) => m = InsertOf(s, 1, 0) /\ \A n \in inserts : n.sip = s => n = m
          BY <4>1 DEF RefusalInv, FirstInsert
        <5> QED
          BY <2>0, <2>1, <5>1, <5>2 DEF RefusalInv, FirstInsert
      <4>2. CASE s # m.sip
        <5>1. registry'[checksum[s]] = s => registry[checksum[s]] = s
          BY <1>t, <2>0, <3>2, <4>2 DEF TypeOK
        <5> QED
          BY <2>0, <2>1, <5>1 DEF RefusalInv, FirstInsert
      <4> QED
        BY <4>1, <4>2
    <3> QED
      BY <3>5, <3>6 DEF RefusalInv
  <2>3. CASE registry[c] # Nobody
    <3>1. registry' = registry /\ Reply(m, "constraint error")
      BY <1>6, <2>3 DEF CreateSIP
    <3>2. \A s \in Sips : Reason(s)' <=> Reason(s)
      BY <2>0, <2>1, <3>1 DEF Reason
    <3>3. Reason(m.sip)
      <4>1. FirstTry(m.sip) => registry[c] # m.sip
        BY <2>0 DEF RefusalInv, FirstInsert
      <4> QED
        BY <2>3, <4>1 DEF Reason
    <3>4. \A r \in replies' : r \in replies \/ r.to.sip = m.sip
      <4>1. replies' \subseteq replies \cup {[to |-> m, body |-> "constraint error"]}
        BY <3>1, Zenon DEF Reply
      <4>2. [to |-> m, body |-> "constraint error"].to = m
        OBVIOUS
      <4> QED
        BY <4>1, <4>2, Zenon
    <3>5. RefusalsHaveReasons'
      BY <1>f, <2>0, <3>2, <3>3, <3>4 DEF RefusalInv, RefusalsHaveReasons
    <3>6. ASSUME NEW s \in Sips PROVE FirstInsert(s)'
      BY <2>0, <2>1, <3>1 DEF RefusalInv, FirstInsert
    <3> QED
      BY <3>5, <3>6 DEF RefusalInv
  <2> QED
    BY <2>2, <2>3
<1>7. CASE UNCHANGED vars
  BY <1>7, <1>q, <1>i DEF vars, RefusalInv, FirstTry
<1> QED
  BY <1>1, <1>2, <1>3, <1>4, <1>5, <1>6, <1>7 DEF Next, WorkflowStep

-----------------------------------------------------------------------------
\* The types of DuplicateCheck hold in every run, with any number of attempts.
THEOREM TypeCorrect == Spec => []TypeOK
BY Invariance, PTL DEF Inv

\* Of all submissions of one content the check lets at most one through: the
\* one whose row is in the sip table.
THEOREM AtMostOneAccepted == Spec => []AcceptedOnce
<1>1. Inv => AcceptedOnce
  BY DEF Inv, AcceptedOwns, AcceptedOnce
<1> QED
  BY Invariance, <1>1, PTL

\* A submission is refused only because of a row, and because of its own only when
\* the answer to an INSERT of it was lost.
THEOREM RefusalsAreExplained == Spec => []RefusedForARow
<1>1. Spec => []RefusalInv
  <2>1. Inv /\ RefusalInv /\ [Next]_vars => RefusalInv'
    BY NextRefusal
  <2> QED
    BY <2>1, Invariance, InitRefusal, PTL DEF Spec
<1>2. ASSUME Inv, RefusalInv PROVE RefusedForARow
  <2>1. \A s \in Sips : ~FirstTry(s) => attempt[s] > 1 \/ crashes[s] > 0
    BY <1>2, Counting DEF Inv, FirstTry
  <2> QED
    BY <1>2, <2>1 DEF RefusalInv, RefusalsHaveReasons, Reason, RefusedForARow
<1> QED
  BY <1>1, <1>2, Invariance, PTL

\* A registered checksum is never registered anew, and nobody but its owner is
\* let through: the row of a failed ingest refuses its content for ever.
THEOREM ChecksumStaysTaken == Spec => ChecksumIsTaken
<1>1. Inv /\ Inv' /\ [Next]_vars =>
        [\A s, t \in Sips :
           registry[checksum[t]] = t /\ s # t /\ checksum[s] = checksum[t] =>
             registry'[checksum[t]] = t /\ (Accepted(s)' => Accepted(s))]_vars
  <2> SUFFICES ASSUME Inv, Inv', [Next]_vars, NEW s \in Sips, NEW t \in Sips,
                      registry[checksum[t]] = t, s # t, checksum[s] = checksum[t]
               PROVE  registry'[checksum[t]] = t /\ (Accepted(s)' => Accepted(s))
    OBVIOUS
  <2>1. checksum' = checksum
    BY DEF Next, WorkflowStep, ChecksumSIP, CheckDuplicate, RetryCheck, Process,
           CrashWorker, CreateSIP, vars
  <2>2. registry'[checksum[t]] = t
    <3>1. CASE registry' = registry
      BY <3>1
    <3>2. ASSUME NEW m \in inserts, CreateSIP(m) PROVE registry'[checksum[t]] = t
      BY <3>2, BoundsPositive DEF CreateSIP, Inv, TypeOK
    <3> QED
      BY <3>1, <3>2
      DEF Next, WorkflowStep, ChecksumSIP, CheckDuplicate, RetryCheck, Process,
          CrashWorker, vars
  <2>3. ~Accepted(s)'
    BY <2>1, <2>2 DEF Inv, AcceptedOwns
  <2> QED
    BY <2>2, <2>3
<1> QED
  BY Invariance, <1>1, PTL DEF Spec, ChecksumIsTaken

-----------------------------------------------------------------------------
(* Progress.                                                                *)

\* What follows what in a submission.
LEMMA Follows ==
  /\ Ahead(Course, "submitted", "check") /\ Ahead(Course, "submitted", "system error")
  /\ Ahead(Course, "check", "process") /\ Ahead(Course, "check", "duplicate")
  /\ Ahead(Course, "check", "system error")
  /\ Ahead(Course, "process", "ingested") /\ Ahead(Course, "process", "failed")
<1>1. /\ DOMAIN Course = 1..7
      /\ Course[1] = "submitted" /\ Course[2] = "check" /\ Course[3] = "process"
      /\ Course[4] = "ingested" /\ Course[5] = "failed" /\ Course[6] = "duplicate"
      /\ Course[7] = "system error"
  BY DEF Course
<1>2. \A i, j \in 1..7 : i < j => Ahead(Course, Course[i], Course[j])
  BY <1>1 DEF Ahead
<1> HIDE DEF Course
<1>3. /\ \A j \in {2, 7} : Ahead(Course, Course[1], Course[j])
      /\ \A j \in {3, 6, 7} : Ahead(Course, Course[2], Course[j])
      /\ \A j \in {4, 5} : Ahead(Course, Course[3], Course[j])
  BY <1>2
<1> QED
  BY <1>1, <1>3

\* Another attempt, another worker's attempt, or another step.
Moved(s) ==
  \/ crashes'[s] = crashes[s] /\ Ahead(Course, step[s], step'[s])
  \/ /\ crashes'[s] = crashes[s] /\ step'[s] = step[s]
     /\ attempt'[s] > attempt[s] /\ attempt'[s] <= MaxAttempts
  \/ crashes'[s] > crashes[s] /\ step[s] = "check" /\ step'[s] = "check"

\* A submission never stands still, nor goes back but with its worker.
LEMMA StepMovesOn ==
  ASSUME TypeOK, NEW s \in Sips, WorkflowStep(s) \/ CrashWorker(s)
  PROVE  Moved(s)
<1>1. /\ step \in [Sips -> Steps] /\ MaxAttempts \in Nat
      /\ attempt \in [Sips -> 1..MaxAttempts] /\ attempt[s] \in Nat
      /\ crashes \in [Sips -> 0..MaxCrashes] /\ crashes[s] \in Nat
  <2>1. /\ MaxAttempts \in Nat /\ MaxCrashes \in Nat
        /\ attempt[s] \in 1..MaxAttempts /\ crashes[s] \in 0..MaxCrashes
    BY BoundsPositive DEF TypeOK
  <2>2. attempt[s] \in Nat /\ crashes[s] \in Nat
    BY <2>1
  <2> QED
    BY <2>1, <2>2 DEF TypeOK
<1>2. \A to : Go(s, to) => step'[s] = to
  BY <1>1 DEF Go
<1>3. CASE ChecksumSIP(s)
  BY <1>2, <1>3, Follows DEF ChecksumSIP, Moved
<1>4. CASE CheckDuplicate(s)
  BY <1>2, <1>4, Follows DEF CheckDuplicate, Verdict, Moved
<1>5. CASE RetryCheck(s)
  <2>1. CASE attempt[s] < MaxAttempts
    <3>1. attempt'[s] = attempt[s] + 1 /\ step' = step /\ crashes' = crashes
      BY <1>1, <1>5, <2>1 DEF RetryCheck
    <3> QED
      BY <1>1, <2>1, <3>1 DEF Moved
  <2>2. CASE ~(attempt[s] < MaxAttempts)
    BY <1>2, <1>5, <2>2, Follows DEF RetryCheck, Moved
  <2> QED
    BY <2>1, <2>2
<1>6. CASE Process(s)
  BY <1>2, <1>6, Follows DEF Process, Moved
<1>7. CASE CrashWorker(s)
  <2>1. crashes'[s] = crashes[s] + 1 /\ step' = step /\ step[s] = "check"
    BY <1>1, <1>7 DEF CrashWorker
  <2> QED
    BY <1>1, <2>1 DEF Moved
<1> QED
  BY <1>3, <1>4, <1>5, <1>6, <1>7 DEF WorkflowStep

\* The attempts of a check are counted, and only a crash of the worker resets the
\* count: no submission is checked for ever.
THEOREM ChecksAlwaysMoveOn == Spec => ChecksMoveOn
<1>1. ASSUME Inv PROVE \A s \in Sips : WorkflowStep(s) \/ CrashWorker(s) => Moved(s)
  BY <1>1, StepMovesOn DEF Inv
<1> QED
  BY Invariance, <1>1, PTL DEF ChecksMoveOn, Moved
=============================================================================
