---------------------- MODULE PreprocessingOutcomeProofs ----------------------
(***************************************************************************)
(* Proofs about what Preprocessing hands over at its end, for any sets of  *)
(* SIP and AIP types: the result agrees with its tasks, the metadata with  *)
(* the decision, a success is complete, and the run keeps the contract of  *)
(* PreprocessingContract.                                                  *)
(*                                                                         *)
(* The invariant of PreprocessingProofs tells what stands behind the       *)
(* current step.  Here it is joined by its mirror image, that no task      *)
(* ahead has been answered yet: only so can no later success cover up the  *)
(* failure a content error is about.                                       *)
(***************************************************************************)
EXTENDS PreprocessingProofs

\* The result tells what the tasks tell, at every step.
ReportInv ==
  /\ OutcomeAgreesWithTasks
  /\ Working =>
       /\ \A t \in TaskNames : task[t] # "system failure"
       /\ \A t \in TaskNames : task[t] = "open" =>
            t = "analysis" /\ pc \in {"request decision", "decision"}
       /\ result.outcome = "content error" =>
            \E t \in TaskNames : task[t] = "validation failure"
       /\ result.outcome = "success" =>
            \A t \in TaskNames : task[t] # "validation failure"
       /\ \A t \in GateTasks \ Seen : task[t] = "none"

AskSteps   == {"submit metadata", "analysis", "request decision", "decision"}
BuildSteps == {"premis", "restructure", "identifiers", "bag"}

\* The metadata is what APIS and the operator said.
Told ==
  \/ apis \in {"AlleNeu", "AlleGleich"} /\ result.metadata = NoDecision
  \/ apis = "Konflikte" /\ inbox \in {"overwrite", "append"} /\ result.metadata = inbox

\* Who has said what so far.
DecisionInv ==
  /\ result.metadata # "unset" => pc \in BuildSteps \cup {"returned"} /\ Told
  /\ pc \in AskSteps => cfg.apis
  /\ pc = "submit metadata" => apis = "none"
  /\ pc \in {"analysis", "request decision", "decision"} => apis # "none"
  /\ pc \in {"request decision", "decision"} => apis = "Konflikte"
  /\ pc \in BuildSteps => (cfg.apis <=> result.metadata # "unset")
  /\ inbox # "none" => pc \in BuildSteps \cup {"decision", "returned"}
  /\ inbox \in {"cancel", "unsupported"} =>
       pc \in {"decision", "returned"} /\ result.metadata = "unset" /\ premis = <<>>

\* Where the package is, and which of the last tasks are behind.
ExtractedSteps == Steps \ {"start", "checksum", "duplicate", "extract", "returned", "error"}
PackageInv ==
  /\ pc \in ExtractedSteps =>
       localPath = "extracted" /\ (result.outcome = "success" => result.path = "extracted")
  /\ layout = "bag" => pc = "returned" /\ inbox \notin {"cancel", "unsupported"}
  /\ pc \in {"restructure", "identifiers", "bag"} => task["premis"] = "success"
  /\ pc \in {"identifiers", "bag"} => task["restructure"] = "success"
  /\ pc = "bag" => task["identifiers"] = "success"
  /\ SuccessIsComplete

-----------------------------------------------------------------------------
(* The result and its tasks.                                                *)

\* A system error ends the run, and leaves no task open.
LEMMA SystemEnd ==
  ASSUME Inv, ReportInv, Working, NEW T \in SUBSET TaskNames, T # {},
         task' = Mark(T, "system failure"), result'.outcome = "system error",
         pc' = "returned", pc \in {"request decision", "decision"} => "analysis" \in T
  PROVE  ReportInv'
<1>1. /\ task \in [TaskNames -> TaskOutcomes] /\ "system failure" \in TaskOutcomes
  BY DEF Inv, TypeOK, TaskOutcomes
<1>m. /\ \A t \in T : Mark(T, "system failure")[t] = "system failure"
      /\ \A t \in TaskNames \ T : Mark(T, "system failure")[t] = task[t]
  BY <1>1, MarkFacts, ZenonT(60)
<1>2. /\ \A t \in T : task'[t] = "system failure"
      /\ \A t \in TaskNames \ T : task'[t] = task[t]
  BY <1>m
<1>3. \A t \in TaskNames : task'[t] # "open"
  <2>1. \A t \in TaskNames : task[t] = "open" =>
          t = "analysis" /\ pc \in {"request decision", "decision"}
    BY DEF ReportInv
  <2> QED
    BY <1>2, <2>1
<1>4. ~Working'
  BY DEF Working
<1>5. \E t \in TaskNames : task'[t] = "system failure"
  BY <1>2
<1>6. OutcomeAgreesWithTasks'
  BY <1>3, <1>5 DEF OutcomeAgreesWithTasks
<1> QED
  BY <1>4, <1>6 DEF ReportInv

\* Up to the gate a step answers tasks that are ahead, and puts them behind it.
LEMMA GateAnswer ==
  ASSUME Inv, ReportInv, Working, pc \notin LateSteps,
         NEW T \in SUBSET (GateTasks \ Seen), NEW bad \in SUBSET T,
         \A t \in T : task'[t] = IF t \in bad THEN "validation failure" ELSE "success",
         \A t \in TaskNames \ T : task'[t] = task[t],
         result'.outcome = IF bad = {} THEN result.outcome ELSE "content error",
         \/ Working' /\ Seen \cup T \subseteq Seen'
         \/ pc' = "returned" /\ result'.outcome = "content error"
         \/ pc' = "error"
  PROVE  ReportInv'
<1>1. /\ result.outcome \in {"success", "content error"}
      /\ \A t \in TaskNames : task[t] \notin {"system failure", "open"}
      /\ result.outcome = "content error" =>
            \E t \in TaskNames : task[t] = "validation failure"
      /\ result.outcome = "success" => \A t \in TaskNames : task[t] # "validation failure"
      /\ \A t \in GateTasks \ Seen : task[t] = "none"
  BY DEF Inv, FailuresAreInOutcome, ReportInv, LateSteps
<1>2. T \subseteq TaskNames
  BY ApplicableFacts
<1>3. \A t \in TaskNames : task'[t] \notin {"system failure", "open"}
  BY <1>1
<1>4. result'.outcome = "content error" => \E t \in TaskNames : task'[t] = "validation failure"
  <2>1. CASE bad # {}
    BY <1>2, <2>1
  <2>2. ASSUME bad = {}, result.outcome = "content error"
        PROVE  \E t \in TaskNames : task'[t] = "validation failure"
    <3>1. PICK t \in TaskNames : task[t] = "validation failure"
      BY <1>1, <2>2
    <3>2. t \notin T
      BY <1>1, <3>1
    <3> QED
      BY <3>1, <3>2
  <2> QED
    BY <2>1, <2>2
<1>5. result'.outcome = "success" =>
        /\ bad = {} /\ result.outcome = "success"
        /\ \A t \in TaskNames : task'[t] # "validation failure"
  BY <1>1
<1>6. CASE Working'
  <2>1. pc' # "returned" /\ Seen \cup T \subseteq Seen'
    BY <1>6 DEF Working
  <2>2. \A t \in GateTasks \ Seen' : task'[t] = "none"
    BY <1>1, <2>1, ApplicableFacts
  <2> QED
    BY <1>3, <1>4, <1>5, <2>1, <2>2 DEF ReportInv, OutcomeAgreesWithTasks
<1>7. CASE pc' = "returned" /\ result'.outcome = "content error"
  BY <1>3, <1>4, <1>7 DEF ReportInv, OutcomeAgreesWithTasks, Working
<1>8. CASE pc' = "error"
  BY <1>8 DEF ReportInv, OutcomeAgreesWithTasks, Working
<1> QED
  BY <1>6, <1>7, <1>8

\* After the gate nothing fails and goes on.
LEMMA LateAnswer ==
  ASSUME Inv, ReportInv, pc \in LateSteps, pc' \in LateSteps \cup {"returned"},
         result'.outcome = "success",
         \A t \in TaskNames : task'[t] = task[t] \/ task'[t] \in {"success", "open"},
         \A t \in TaskNames : task'[t] = "open" =>
            t = "analysis" /\ pc' \in {"request decision", "decision"}
  PROVE  ReportInv'
<1>1. \A t \in TaskNames : task'[t] \in {"none", "success", "open"}
  <2>1. \A t \in TaskNames : task[t] \in {"none", "success", "open"}
    BY DEF Inv, TypeOK, TaskOutcomes, GatePassed, ReportInv, Working, LateSteps
  <2> QED
    BY <2>1
<1>2. pc' \in LateSteps => Seen' = GateTasks
  BY DEF Seen, LateSteps
<1>3. Working' => pc' \in LateSteps
  BY DEF Working
<1> QED
  BY <1>1, <1>2, <1>3 DEF ReportInv, OutcomeAgreesWithTasks, LateSteps

\* The tasks of the gate that are not behind a step include the one it answers.
LEMMA AheadFacts ==
  /\ pc = "checksum" => "checksum" \in GateTasks \ Seen
  /\ pc = "duplicate" => "duplicate" \in GateTasks \ Seen
  /\ pc = "extract" => "extract" \in GateTasks \ Seen
  /\ pc = "validate bag" => "validate bag" \in GateTasks \ Seen
  /\ pc = "unbag" => "unbag" \in GateTasks \ Seen
  /\ pc = "identify" => "identify" \in GateTasks \ Seen
  /\ pc = "structure" => "structure" \in GateTasks \ Seen
  /\ pc = "name" => "name" \in GateTasks \ Seen
  /\ pc = "manifest" => {"manifest", "checksums"} \subseteq GateTasks \ Seen
  /\ pc = "formats" => "formats" \in GateTasks \ Seen
  /\ pc = "files" => "files" \in GateTasks \ Seen
  /\ pc = "metadata" => "metadata" \in GateTasks \ Seen
  /\ pc = "logical metadata" => "logical metadata" \in GateTasks \ Seen
BY DEF Seen, GateTasks, Bagged, Manifested, CheckTasks, IntakeTasks, BagTasks, SIPTasks,
       AIPTasks

\* One task of the gate is answered, or the run is over.
LEMMA OneAnswer ==
  ASSUME Inv, ReportInv, Working, pc \notin LateSteps,
         NEW n \in GateTasks \ Seen,
         \/ Succeed({n}) /\ Working' /\ Seen \cup {n} \subseteq Seen'
         \/ ValidationError({n}) /\ Working' /\ Seen \cup {n} \subseteq Seen'
         \/ ValidationError({n}) /\ pc' = "returned"
         \/ SystemErrorAndReturn({n})
  PROVE  ReportInv'
<1>0. /\ {n} \in SUBSET TaskNames /\ task \in [TaskNames -> TaskOutcomes]
      /\ "success" \in TaskOutcomes /\ "validation failure" \in TaskOutcomes
      /\ result \in Results
      /\ pc \notin {"request decision", "decision"}
  BY ApplicableFacts DEF Inv, TypeOK, TaskOutcomes, LateSteps
<1>1. CASE SystemErrorAndReturn({n})
  <2>1. /\ task' = Mark({n}, "system failure") /\ result'.outcome = "system error"
        /\ pc' = "returned"
    BY <1>0, <1>1 DEF SystemErrorAndReturn, Results
  <2> QED
    BY <1>0, <2>1, SystemEnd
<1>2. CASE Succeed({n}) /\ Working' /\ Seen \cup {n} \subseteq Seen'
  <2> DEFINE T == {n}
             bad == {}
  <2>1. task' = Mark({n}, "success") /\ result' = result
    BY <1>2 DEF Succeed
  <2>2. /\ \A t \in {n} : Mark({n}, "success")[t] = "success"
        /\ \A t \in TaskNames \ {n} : Mark({n}, "success")[t] = task[t]
    BY <1>0, MarkFacts
  <2>3. /\ T \in SUBSET (GateTasks \ Seen) /\ bad \in SUBSET T
        /\ \A t \in T : task'[t] = IF t \in bad THEN "validation failure" ELSE "success"
        /\ \A t \in TaskNames \ T : task'[t] = task[t]
        /\ result'.outcome = IF bad = {} THEN result.outcome ELSE "content error"
        /\ Seen \cup T \subseteq Seen'
    BY <1>2, <2>1, <2>2
  <2> HIDE DEF T, bad
  <2> QED
    BY <1>2, <2>3, GateAnswer
<1>3. CASE /\ ValidationError({n})
           /\ \/ Working' /\ Seen \cup {n} \subseteq Seen'
              \/ pc' = "returned"
  <2> DEFINE T == {n}
             bad == {n}
  <2>1. task' = Mark({n}, "validation failure") /\ result'.outcome = "content error"
    BY <1>0, <1>3 DEF ValidationError, Results
  <2>2. /\ \A t \in {n} : Mark({n}, "validation failure")[t] = "validation failure"
        /\ \A t \in TaskNames \ {n} : Mark({n}, "validation failure")[t] = task[t]
    BY <1>0, MarkFacts
  <2>3. /\ T \in SUBSET (GateTasks \ Seen) /\ bad \in SUBSET T
        /\ \A t \in T : task'[t] = IF t \in bad THEN "validation failure" ELSE "success"
        /\ \A t \in TaskNames \ T : task'[t] = task[t]
        /\ result'.outcome = IF bad = {} THEN result.outcome ELSE "content error"
        /\ \/ Working' /\ Seen \cup T \subseteq Seen'
           \/ pc' = "returned" /\ result'.outcome = "content error"
    BY <1>3, <2>1, <2>2
  <2> HIDE DEF T, bad
  <2> QED
    BY <2>3, GateAnswer
<1> QED
  BY <1>1, <1>2, <1>3

\* A step that answers nothing.
LEMMA NoAnswer ==
  ASSUME Inv, ReportInv, Working, pc \notin LateSteps,
         task' = task, result'.outcome = result.outcome,
         \/ Working' /\ Seen \subseteq Seen'
         \/ pc' = "returned" /\ result'.outcome = "content error"
         \/ pc' = "error"
  PROVE  ReportInv'
<1> DEFINE T == {}
           bad == {}
<1>1. /\ T \in SUBSET (GateTasks \ Seen) /\ bad \in SUBSET T
      /\ \A t \in T : task'[t] = IF t \in bad THEN "validation failure" ELSE "success"
      /\ \A t \in TaskNames \ T : task'[t] = task[t]
      /\ result'.outcome = IF bad = {} THEN result.outcome ELSE "content error"
      /\ \/ Working' /\ Seen \cup T \subseteq Seen'
         \/ pc' = "returned" /\ result'.outcome = "content error"
         \/ pc' = "error"
  OBVIOUS
<1> HIDE DEF T, bad
<1> QED
  BY <1>1, GateAnswer

-----------------------------------------------------------------------------
(* Each step keeps the result and its tasks in agreement.                   *)

\* They agree at the start: no task has been opened.
LEMMA InitReport == Init => ReportInv
<1> SUFFICES ASSUME Init PROVE ReportInv
  OBVIOUS
<1>1. \A t \in TaskNames : task[t] = "none"
  BY DEF Init
<1>2. pc = "start" /\ result.outcome = "success"
  BY DEF Init
<1> QED
  BY <1>1, <1>2, ApplicableFacts DEF ReportInv, OutcomeAgreesWithTasks

\* The steps that open the run and take the package in.
LEMMA IntakeReport ==
  ASSUME Inv, ReportInv,
         Start \/ ChecksumSIP \/ CheckDuplicate \/ ExtractSIP \/ CheckIsBag \/ ValidateBag
           \/ UnbagSIP \/ IdentifySIP
  PROVE  ReportInv'
<1>t. result \in Results /\ task \in [TaskNames -> TaskOutcomes] /\ "success" \in TaskOutcomes
  BY DEF Inv, TypeOK, TaskOutcomes
<1> USE Names
<1>1. CASE Start
  <2>1. /\ Working /\ pc \notin LateSteps /\ task' = task /\ Seen = {}
        /\ pc' = "error" \/ Working'
    BY <1>1 DEF Start, Working, LateSteps, Seen
  <2>2. result'.outcome = result.outcome
    BY <1>1, <1>t DEF Start, Results
  <2> QED
    BY <2>1, <2>2, NoAnswer
<1>2. CASE ChecksumSIP
  <2>1. /\ pc = "checksum" /\ Working /\ pc \notin LateSteps
        /\ pc' = "duplicate" => Working' /\ Seen \cup {"checksum"} \subseteq Seen'
    BY <1>2 DEF ChecksumSIP, Working, LateSteps, Seen
  <2> QED
    BY <1>2, <2>1, AheadFacts, OneAnswer DEF ChecksumSIP
<1>3. CASE CheckDuplicate
  <2>1. /\ pc = "duplicate" /\ Working /\ pc \notin LateSteps
        /\ pc' = "extract" => Working' /\ Seen \cup {"duplicate"} \subseteq Seen'
    BY <1>3 DEF CheckDuplicate, Working, LateSteps, Seen, IntakeTasks
  <2> QED
    BY <1>3, <2>1, AheadFacts, OneAnswer DEF CheckDuplicate
<1>4. CASE ExtractSIP
  <2>1. /\ pc = "extract" /\ Working /\ pc \notin LateSteps
        /\ pc' = "is bag" => Working' /\ Seen \cup {"extract"} \subseteq Seen'
    BY <1>4 DEF ExtractSIP, Working, LateSteps, Seen
  <2>2. CASE FailPath("extract")
    <3>1. /\ task' = Mark({"extract"}, "system failure") /\ pc' = "returned"
          /\ result'.outcome = "system error"
      BY <1>t, <2>2 DEF FailPath, Results
    <3> QED
      BY <2>1, <3>1, SystemEnd
  <2>3. CASE ValidationError({"extract"}) /\ pc' = "is bag"
    BY <2>1, <2>3, AheadFacts, OneAnswer
  <2>4. CASE /\ task' = Mark({"extract"}, "success") /\ pc' = "is bag"
             /\ result' = [result EXCEPT !.path = "extracted"]
    <3> DEFINE T == {"extract"}
               bad == {}
    <3>1. result'.outcome = result.outcome
      BY <1>t, <2>4 DEF Results
    <3>2. /\ Mark({"extract"}, "success")["extract"] = "success"
          /\ \A t \in TaskNames \ {"extract"} : Mark({"extract"}, "success")[t] = task[t]
      BY MarkOne DEF Inv
    <3>3. /\ T \in SUBSET (GateTasks \ Seen) /\ bad \in SUBSET T
          /\ \A t \in T : task'[t] = IF t \in bad THEN "validation failure" ELSE "success"
          /\ \A t \in TaskNames \ T : task'[t] = task[t]
          /\ result'.outcome = IF bad = {} THEN result.outcome ELSE "content error"
          /\ Working' /\ Seen \cup T \subseteq Seen'
      BY <2>1, <2>4, <3>1, <3>2, AheadFacts
    <3> HIDE DEF T, bad
    <3> QED
      BY <2>1, <3>3, GateAnswer
  <2> QED
    BY <1>4, <2>2, <2>3, <2>4 DEF ExtractSIP
<1>5. CASE CheckIsBag
  <2>1. /\ Working /\ pc \notin LateSteps /\ task' = task /\ result' = result
        /\ pc' # "error" => Working' /\ Seen \subseteq Seen'
        /\ pc' = "error" \/ Working'
    BY <1>5 DEF CheckIsBag, Working, LateSteps, Seen, Bagged
  <2> QED
    BY <2>1, NoAnswer
<1>6. CASE ValidateBag
  <2>1. /\ pc = "validate bag" /\ Working /\ pc \notin LateSteps
        /\ pc' = "unbag" => Working' /\ Seen \cup {"validate bag"} \subseteq Seen'
    BY <1>6 DEF ValidateBag, Working, LateSteps, Seen
  <2> QED
    BY <1>6, <2>1, AheadFacts, OneAnswer DEF ValidateBag
<1>7. CASE UnbagSIP
  <2>1. /\ pc = "unbag" /\ Working /\ pc \notin LateSteps
        /\ pc' = "identify" => Working' /\ Seen \cup {"unbag"} \subseteq Seen'
    BY <1>7 DEF UnbagSIP, Working, LateSteps, Seen, Bagged, BagTasks
  <2>2. CASE FailPath("unbag")
    <3>1. /\ task' = Mark({"unbag"}, "system failure") /\ pc' = "returned"
          /\ result'.outcome = "system error"
      BY <1>t, <2>2 DEF FailPath, Results
    <3> QED
      BY <2>1, <3>1, SystemEnd
  <2>3. CASE /\ task' = Mark({"unbag"}, "success") /\ pc' = "identify"
             /\ result' = [result EXCEPT !.path = localPath]
    <3> DEFINE T == {"unbag"}
               bad == {}
    <3>1. result'.outcome = result.outcome
      BY <1>t, <2>3 DEF Results
    <3>2. /\ Mark({"unbag"}, "success")["unbag"] = "success"
          /\ \A t \in TaskNames \ {"unbag"} : Mark({"unbag"}, "success")[t] = task[t]
      BY MarkOne DEF Inv
    <3>3. /\ T \in SUBSET (GateTasks \ Seen) /\ bad \in SUBSET T
          /\ \A t \in T : task'[t] = IF t \in bad THEN "validation failure" ELSE "success"
          /\ \A t \in TaskNames \ T : task'[t] = task[t]
          /\ result'.outcome = IF bad = {} THEN result.outcome ELSE "content error"
          /\ Working' /\ Seen \cup T \subseteq Seen'
      BY <2>1, <2>3, <3>1, <3>2, AheadFacts
    <3> HIDE DEF T, bad
    <3> QED
      BY <2>1, <3>3, GateAnswer
  <2> QED
    BY <1>7, <2>2, <2>3 DEF UnbagSIP
<1>8. CASE IdentifySIP
  <2>1. /\ pc = "identify" /\ Working /\ pc \notin LateSteps
        /\ pc' = "structure" => Working' /\ Seen \cup {"identify"} \subseteq Seen'
    BY <1>8 DEF IdentifySIP, Working, LateSteps, Seen
  <2> QED
    BY <1>8, <2>1, AheadFacts, OneAnswer DEF IdentifySIP
<1> QED
  BY <1>1, <1>2, <1>3, <1>4, <1>5, <1>6, <1>7, <1>8

\* The checks of the list, and the gate.
LEMMA ChecksReport ==
  ASSUME Inv, ReportInv,
         ValidateStructure \/ ValidateSIPName \/ VerifyManifest \/ CheckFormats
           \/ ValidateFiles \/ ValidateMetadata \/ ValidateLogicalMetadata \/ StopIfInvalid
  PROVE  ReportInv'
<1>t. result \in Results /\ task \in [TaskNames -> TaskOutcomes]
  BY DEF Inv, TypeOK
<1>c. ASSUME NEW here \in GateTasks \ Seen, NEW next, Check(here, next), Working,
             pc \notin LateSteps, pc' = next => Working' /\ Seen \cup {here} \subseteq Seen'
      PROVE  ReportInv'
  BY <1>c, OneAnswer DEF Check
<1>1. CASE ValidateStructure
  <2>1. /\ pc = "structure" /\ Working /\ pc \notin LateSteps
        /\ pc' = "name" => Working' /\ Seen \cup {"structure"} \subseteq Seen'
    BY <1>1 DEF ValidateStructure, Check, Working, LateSteps, Seen
  <2> QED
    BY <1>1, <1>c, <2>1, AheadFacts DEF ValidateStructure
<1>2. CASE ValidateSIPName
  <2>1. /\ pc = "name" /\ Working /\ pc \notin LateSteps
        /\ pc' = "manifest" => Working' /\ Seen \cup {"name"} \subseteq Seen'
    BY <1>2 DEF ValidateSIPName, Check, Working, LateSteps, Seen
  <2> QED
    BY <1>2, <1>c, <2>1, AheadFacts DEF ValidateSIPName
<1>3. CASE CheckFormats
  <2>1. /\ pc = "formats" /\ Working /\ pc \notin LateSteps
        /\ pc' = "files" => Working' /\ Seen \cup {"formats"} \subseteq Seen'
    BY <1>3 DEF CheckFormats, Check, Working, LateSteps, Seen, SIPTasks
  <2> QED
    BY <1>3, <1>c, <2>1, AheadFacts DEF CheckFormats
<1>4. CASE ValidateFiles
  <2>1. /\ pc = "files" /\ Working /\ pc \notin LateSteps
        /\ pc' = "metadata" => Working' /\ Seen \cup {"files"} \subseteq Seen'
    BY <1>4 DEF ValidateFiles, Check, Working, LateSteps, Seen
  <2> QED
    BY <1>4, <1>c, <2>1, AheadFacts DEF ValidateFiles
<1>5. CASE ValidateMetadata
  <2> DEFINE next == IF IsAIP THEN "logical metadata" ELSE "gate"
  <2>1. /\ pc = "metadata" /\ Working /\ pc \notin LateSteps
        /\ next \in {"logical metadata", "gate"} /\ Check("metadata", next)
    BY <1>5 DEF ValidateMetadata, Check, Working, LateSteps
  <2>2. pc' = next => Working' /\ Seen \cup {"metadata"} \subseteq Seen'
    <3>1. CASE pc' = "logical metadata"
      BY <2>1, <3>1 DEF Working, Seen
    <3>2. CASE pc' = "gate"
      BY <2>1, <3>2 DEF Working, Seen, GateTasks, Manifested, Bagged, CheckTasks
    <3> QED
      BY <2>1, <3>1, <3>2
  <2> HIDE DEF next
  <2> QED
    BY <1>c, <2>1, <2>2, AheadFacts
<1>6. CASE ValidateLogicalMetadata
  <2>1. /\ pc = "logical metadata" /\ Working /\ pc \notin LateSteps
        /\ pc' = "gate" => Working' /\ Seen \cup {"logical metadata"} \subseteq Seen'
    BY <1>6 DEF ValidateLogicalMetadata, Check, Working, LateSteps, Seen, GateTasks,
                Manifested, Bagged, CheckTasks, AIPTasks
  <2> QED
    BY <1>6, <1>c, <2>1, AheadFacts DEF ValidateLogicalMetadata
<1>7. CASE StopIfInvalid
  <2>1. /\ Working /\ pc \notin LateSteps /\ task' = task /\ result' = result
        /\ \/ pc' = "returned" /\ result.outcome = "content error"
           \/ Working' /\ Seen' = GateTasks /\ Seen = GateTasks
    BY <1>7 DEF StopIfInvalid, Working, LateSteps, Seen
  <2> QED
    BY <2>1, NoAnswer
<1>8. CASE VerifyManifest
  <2>1. /\ pc = "manifest" /\ Working /\ pc \notin LateSteps
        /\ pc' \in {"formats", "files"} =>
             Working' /\ Seen \cup {"manifest", "checksums"} \subseteq Seen'
    BY <1>8 DEF VerifyManifest, Working, LateSteps, Seen, Manifested
  <2>2. CASE SystemErrorAndReturn({"manifest", "checksums"})
    <3>1. /\ task' = Mark({"manifest", "checksums"}, "system failure") /\ pc' = "returned"
          /\ result'.outcome = "system error"
      BY <1>t, <2>2 DEF SystemErrorAndReturn, Results
    <3> QED
      BY <2>1, <3>1, SystemEnd, Names
  <2>3. ASSUME NEW bad \in SUBSET {"manifest", "checksums"},
               task' = [t \in TaskNames |->
                          IF t \in bad THEN "validation failure"
                          ELSE IF t \in {"manifest", "checksums"} THEN "success"
                          ELSE task[t]],
               result' = IF bad = {} THEN result
                         ELSE [result EXCEPT !.outcome = "content error"],
               pc' \in {"formats", "files"}
        PROVE  ReportInv'
    <3> DEFINE T == {"manifest", "checksums"}
    <3>1. result'.outcome = IF bad = {} THEN result.outcome ELSE "content error"
      BY <1>t, <2>3 DEF Results
    <3>2. /\ T \in SUBSET (GateTasks \ Seen) /\ bad \in SUBSET T
          /\ Working' /\ Seen \cup T \subseteq Seen'
      BY <2>1, <2>3, AheadFacts
    <3>3. /\ \A t \in T : task'[t] = IF t \in bad THEN "validation failure" ELSE "success"
          /\ \A t \in TaskNames \ T : task'[t] = task[t]
      BY <2>3, Names
    <3> HIDE DEF T
    <3> QED
      BY <2>1, <3>1, <3>2, <3>3, GateAnswer
  <2> QED
    BY <1>8, <2>2, <2>3 DEF VerifyManifest
<1> QED
  BY <1>1, <1>2, <1>3, <1>4, <1>5, <1>6, <1>7, <1>8

\* What comes after the gate: APIS, the decision, and the building of the PIP.
LEMMA LateReport ==
  ASSUME Inv, ReportInv,
         CreateImportTask \/ PollAnalysis \/ RequestDecision \/ ReceiveDecision
           \/ WritePREMIS \/ TransformSIP \/ WriteIdentifiers \/ BagSIP
  PROVE  ReportInv'
<1> USE Names
<1>t. /\ result \in Results /\ task \in [TaskNames -> TaskOutcomes]
      /\ {"success", "open", "system failure", "validation failure"} \subseteq TaskOutcomes
  BY DEF Inv, TypeOK, TaskOutcomes
<1>l. /\ pc \in LateSteps /\ Working
  BY DEF CreateImportTask, PollAnalysis, RequestDecision, ReceiveDecision, WritePREMIS,
         TransformSIP, WriteIdentifiers, BagSIP, Build, LateSteps, Working
<1>g. result.outcome = "success"
  BY <1>l DEF Inv, GatePassed
\* The ways a step can end here.
<1>s. ASSUME NEW n \in TaskNames, SystemErrorAndReturn({n}),
             pc \in {"request decision", "decision"} => n = "analysis"
      PROVE  ReportInv'
  <2>1. /\ task' = Mark({n}, "system failure") /\ result'.outcome = "system error"
        /\ pc' = "returned" /\ {n} \in SUBSET TaskNames
    BY <1>s, <1>t DEF SystemErrorAndReturn, Results
  <2> QED
    BY <1>l, <1>s, <2>1, SystemEnd
<1>o. ASSUME NEW n \in TaskNames, NEW o \in {"success", "open"}, task' = Mark({n}, o),
             pc' \in LateSteps \cup {"returned"}, result'.outcome = "success",
             o = "open" => n = "analysis" /\ pc' = "request decision",
             pc \in {"request decision", "decision"} => n = "analysis"
      PROVE  ReportInv'
  <2>1. /\ {n} \in SUBSET TaskNames /\ o \in TaskOutcomes
    BY <1>o, <1>t
  <2>2. /\ Mark({n}, o)[n] = o /\ \A t \in TaskNames \ {n} : Mark({n}, o)[t] = task[t]
    BY <1>t, <2>1, MarkFacts
  <2>3. \A t \in TaskNames : task'[t] = task[t] \/ task'[t] \in {"success", "open"}
    BY <1>o, <2>2
  <2>4. \A t \in TaskNames : task[t] = "open" =>
          t = "analysis" /\ pc \in {"request decision", "decision"}
    BY <1>l DEF ReportInv
  <2>5. \A t \in TaskNames : task'[t] = "open" =>
          t = "analysis" /\ pc' \in {"request decision", "decision"}
    BY <1>o, <2>2, <2>4
  <2> QED
    BY <1>l, <1>o, <2>3, <2>5, LateAnswer
<1>u. ASSUME task' = task, result' = result, pc' \in LateSteps,
             pc \in {"request decision", "decision"} =>
               pc' \in {"request decision", "decision"}
      PROVE  ReportInv'
  BY <1>g, <1>l, <1>u, LateAnswer DEF ReportInv
<1>1. CASE CreateImportTask
  BY <1>1, <1>g, <1>o, <1>s DEF CreateImportTask, Succeed, LateSteps
<1>2. CASE PollAnalysis
  <2>1. CASE SystemErrorAndReturn({"analysis"})
    BY <1>s, <2>1
  <2>2. CASE RecordMetadata(NoDecision)
    <3>1. /\ task' = Mark({"analysis"}, "success") /\ pc' \in LateSteps
          /\ result'.outcome = "success"
      BY <1>g, <1>t, <2>2 DEF RecordMetadata, Results, LateSteps
    <3> QED
      BY <1>2, <1>o, <3>1
  <2>3. CASE /\ task' = Mark({"analysis"}, "open") /\ pc' = "request decision"
             /\ UNCHANGED result
    BY <1>2, <1>g, <1>o, <2>3 DEF LateSteps
  <2> QED
    BY <1>2, <2>1, <2>2, <2>3 DEF PollAnalysis
<1>3. CASE RequestDecision
  BY <1>3, <1>s, <1>u DEF RequestDecision, LateSteps
<1>4. CASE ReceiveDecision
  <2>1. CASE SystemErrorAndReturn({"analysis"})
    BY <1>s, <2>1
  <2>2. CASE RecordMetadata(inbox)
    <3>1. /\ task' = Mark({"analysis"}, "success") /\ pc' \in LateSteps
          /\ result'.outcome = "success"
      BY <1>g, <1>t, <2>2 DEF RecordMetadata, Results, LateSteps
    <3> QED
      BY <1>o, <3>1
  <2>3. CASE ValidationError({"analysis"}) /\ pc' = "returned"
    <3>1. task' = Mark({"analysis"}, "validation failure") /\ result'.outcome = "content error"
      BY <1>t, <2>3 DEF ValidationError, Results
    <3>2. /\ Mark({"analysis"}, "validation failure")["analysis"] = "validation failure"
          /\ \A t \in TaskNames \ {"analysis"} :
               Mark({"analysis"}, "validation failure")[t] = task[t]
      <4>1. {"analysis"} \in SUBSET TaskNames /\ "validation failure" \in TaskOutcomes
        BY <1>t
      <4> QED
        BY <1>t, <4>1, MarkFacts
    <3>3. /\ task'["analysis"] = "validation failure"
          /\ \A t \in TaskNames \ {"analysis"} : task'[t] = task[t]
      BY <3>1, <3>2
    <3>4. \A t \in TaskNames : task'[t] \notin {"open", "system failure"}
      BY <1>l, <3>3 DEF ReportInv
    <3> QED
      BY <2>3, <3>1, <3>3, <3>4 DEF ReportInv, OutcomeAgreesWithTasks, Working
  <2> QED
    BY <1>4, <2>1, <2>2, <2>3 DEF ReceiveDecision
<1>5. CASE WritePREMIS
  <2>1. pc = "premis"
    BY <1>5 DEF WritePREMIS
  <2>2. CASE SystemErrorAndReturn({"premis"})
    BY <1>s, <2>1, <2>2
  <2>3. CASE Succeed({"premis"}) /\ pc' = "restructure"
    BY <1>g, <1>o, <2>1, <2>3 DEF Succeed, LateSteps
  <2>4. CASE UNCHANGED <<task, result, pc>>
    BY <1>l, <1>u, <2>1, <2>4
  <2> QED
    BY <1>5, <2>2, <2>3, <2>4 DEF WritePREMIS
<1>6. CASE TransformSIP
  BY <1>6, <1>g, <1>o, <1>s DEF TransformSIP, Build, Succeed, LateSteps
<1>7. CASE WriteIdentifiers
  BY <1>7, <1>g, <1>o, <1>s DEF WriteIdentifiers, Build, Succeed, LateSteps
<1>8. CASE BagSIP
  BY <1>8, <1>g, <1>o, <1>s DEF BagSIP, Build, Succeed, LateSteps
<1> QED
  BY <1>1, <1>2, <1>3, <1>4, <1>5, <1>6, <1>7, <1>8

\* The parent's steps leave all of it alone.
LEMMA ParentReport ==
  ASSUME Inv, ReportInv, CancelWorkflow \/ AnswerDecision \/ UNCHANGED vars
  PROVE  ReportInv'
<1>1. UNCHANGED <<cfg, pc, result, task>>
  BY DEF CancelWorkflow, AnswerDecision, vars
<1>2. Seen' = Seen /\ (Working' <=> Working)
  BY <1>1 DEF Seen, Working
<1> QED
  BY <1>1, <1>2 DEF ReportInv, OutcomeAgreesWithTasks

\* So every step keeps them in agreement.
LEMMA NextReport == Inv /\ ReportInv /\ [Next]_vars => ReportInv'
BY IntakeReport, ChecksReport, LateReport, ParentReport DEF Next, WorkflowStep

-----------------------------------------------------------------------------
(* Who has said what, and where the package is.                             *)

\* At the start nobody has said anything and nothing is built.
LEMMA InitRest == Init => DecisionInv /\ PackageInv
<1> SUFFICES ASSUME Init PROVE DecisionInv /\ PackageInv
  OBVIOUS
<1>1. /\ pc = "start" /\ layout = "submitted" /\ inbox = "none"
      /\ result.metadata = "unset"
  BY DEF Init
<1> QED
  BY <1>1 DEF DecisionInv, PackageInv, AskSteps, BuildSteps, ExtractedSteps, SuccessIsComplete

\* Before the gate nobody has said anything, and nobody does.
LEMMA EarlyRest ==
  ASSUME Inv, DecisionInv, PackageInv, Working, pc \notin LateSteps \cup {"returned", "error"},
         UNCHANGED <<cfg, apis, inbox, premis>>, result'.metadata = result.metadata,
         pc' \notin LateSteps \ {"submit metadata", "premis"},
         pc' = "submit metadata" => cfg.apis,
         pc' = "premis" => ~cfg.apis,
         layout' # "bag",
         pc' \in ExtractedSteps =>
           localPath' = "extracted" /\ (result'.outcome = "success" => result'.path = "extracted"),
         pc' = "returned" => result'.outcome # "success"
  PROVE  DecisionInv' /\ PackageInv'
<1>1. pc \notin AskSteps \cup BuildSteps \cup {"returned", "decision"}
  BY DEF LateSteps, AskSteps, BuildSteps
<1>2. result.metadata = "unset" /\ inbox = "none" /\ result'.metadata = "unset" /\ inbox' = "none"
  BY <1>1 DEF DecisionInv
<1>3. pc' \notin {"analysis", "request decision", "decision", "restructure", "identifiers", "bag"}
  BY DEF LateSteps
<1>4. DecisionInv'
  <2>1. apis' = "none"
    BY DEF Inv, EffectsAfterGate, Effects
  <2> QED
    BY <1>2, <1>3, <2>1 DEF DecisionInv, AskSteps, BuildSteps
<1>5. PackageInv'
  BY <1>3 DEF PackageInv, SuccessIsComplete
<1> QED
  BY <1>4, <1>5

\* A report to the result leaves its path and its metadata as they are.
LEMMA ReportedResult ==
  ASSUME result \in Results, NEW T, Reported(T)
  PROVE  /\ result'.path = result.path /\ result'.metadata = result.metadata
         /\ result'.outcome \in {result.outcome, "content error", "system error"}
BY DEF Reported, Succeed, ValidationError, SystemErrorAndReturn, Results

\* The steps up to the gate take the package to where it is to be built.
LEMMA IntakeRest ==
  ASSUME Inv, DecisionInv, PackageInv,
         Start \/ ChecksumSIP \/ CheckDuplicate \/ ExtractSIP \/ CheckIsBag \/ ValidateBag
           \/ UnbagSIP \/ IdentifySIP
  PROVE  DecisionInv' /\ PackageInv'
<1>t. result \in Results
  BY DEF Inv, TypeOK
<1>e. pc \notin LateSteps \cup {"returned", "error"} => layout # "bag"
  BY DEF PackageInv
<1>1. CASE Start
  <2>1. /\ Working /\ pc \notin LateSteps \cup {"returned", "error"}
        /\ UNCHANGED <<cfg, apis, inbox, premis, layout>>
        /\ pc' \notin LateSteps \cup {"returned"} \cup ExtractedSteps
    BY <1>1 DEF Start, Working, LateSteps, ExtractedSteps
  <2>2. result'.metadata = result.metadata
    BY <1>1, <1>t DEF Start, Results
  <2> QED
    BY <1>e, <2>1, <2>2, EarlyRest DEF LateSteps
<1>2. CASE ChecksumSIP \/ CheckDuplicate
  <2>1. /\ Working /\ pc \notin LateSteps \cup {"returned", "error"}
        /\ UNCHANGED <<cfg, apis, inbox, premis, layout>>
        /\ pc' \notin LateSteps \cup ExtractedSteps
    BY <1>2 DEF ChecksumSIP, CheckDuplicate, Working, LateSteps, ExtractedSteps,
                SystemErrorAndReturn
  <2>2. result'.metadata = result.metadata /\ (pc' = "returned" => result'.outcome # "success")
    BY <1>2, <1>t DEF ChecksumSIP, CheckDuplicate, Succeed, ValidationError,
                      SystemErrorAndReturn, Results
  <2> QED
    BY <1>e, <2>1, <2>2, EarlyRest DEF LateSteps
<1>3. CASE ExtractSIP
  <2>1. /\ Working /\ pc \notin LateSteps \cup {"returned", "error"}
        /\ UNCHANGED <<cfg, apis, inbox, premis>>
        /\ pc' \in {"returned", "is bag"} /\ pc' \notin LateSteps /\ "returned" \notin ExtractedSteps
        /\ pc' = "is bag" => localPath' = "extracted"
    BY <1>3 DEF ExtractSIP, FailPath, Working, LateSteps, ExtractedSteps
  <2>2. layout' # "bag"
    BY <1>3, <1>e, <2>1 DEF ExtractSIP
  <2>3. /\ result'.metadata = result.metadata
        /\ pc' = "returned" => result'.outcome # "success"
        /\ pc' = "is bag" /\ result'.outcome = "success" => result'.path = "extracted"
    <3>1. CASE FailPath("extract")
      BY <1>t, <3>1 DEF FailPath, Results
    <3>2. CASE ValidationError({"extract"}) /\ pc' = "is bag"
      BY <1>t, <3>2 DEF ValidationError, Results
    <3>3. CASE result' = [result EXCEPT !.path = "extracted"] /\ pc' = "is bag"
      BY <1>t, <3>3 DEF Results
    <3> QED
      BY <1>3, <3>1, <3>2, <3>3 DEF ExtractSIP
  <2> QED
    BY <2>1, <2>2, <2>3, EarlyRest DEF LateSteps
<1>4. CASE CheckIsBag \/ ValidateBag \/ IdentifySIP
  <2>1. /\ Working /\ pc \notin LateSteps \cup {"returned", "error"} /\ pc \in ExtractedSteps
        /\ UNCHANGED <<cfg, apis, inbox, premis, layout, localPath>>
        /\ pc' \notin LateSteps
    BY <1>4 DEF CheckIsBag, ValidateBag, IdentifySIP, Working, LateSteps, ExtractedSteps,
                Steps, SystemErrorAndReturn
  <2>2. /\ result'.metadata = result.metadata /\ (pc' = "returned" => result'.outcome # "success")
        /\ result'.path = result.path
        /\ pc' # "returned" /\ result'.outcome = "success" => result.outcome = "success"
    BY <1>4, <1>t DEF CheckIsBag, ValidateBag, IdentifySIP, Succeed, ValidationError,
                      SystemErrorAndReturn, Results
  <2>3. localPath = "extracted" /\ (result.outcome = "success" => result.path = "extracted")
    BY <2>1 DEF PackageInv
  <2>4. pc' \in ExtractedSteps => pc' # "returned"
    BY DEF ExtractedSteps
  <2> QED
    BY <1>e, <2>1, <2>2, <2>3, <2>4, EarlyRest DEF LateSteps
<1>5. CASE UnbagSIP
  <2>1. /\ Working /\ pc \notin LateSteps \cup {"returned", "error"} /\ pc \in ExtractedSteps
        /\ UNCHANGED <<cfg, apis, inbox, premis, localPath>>
        /\ pc' \in {"returned", "identify"} /\ pc' \notin LateSteps
        /\ "returned" \notin ExtractedSteps
    BY <1>5 DEF UnbagSIP, FailPath, Working, LateSteps, ExtractedSteps, Steps
  <2>2. layout' # "bag"
    BY <1>5, <1>e, <2>1 DEF UnbagSIP
  <2>3. localPath = "extracted"
    BY <2>1 DEF PackageInv
  <2>4. /\ result'.metadata = result.metadata
        /\ pc' = "returned" => result'.outcome # "success"
        /\ pc' = "identify" => result'.path = "extracted"
    <3>1. CASE FailPath("unbag")
      BY <1>t, <3>1 DEF FailPath, Results
    <3>2. CASE result' = [result EXCEPT !.path = localPath] /\ pc' = "identify"
      BY <1>t, <2>3, <3>2 DEF Results
    <3> QED
      BY <1>5, <3>1, <3>2 DEF UnbagSIP
  <2> QED
    BY <2>1, <2>2, <2>3, <2>4, EarlyRest DEF LateSteps
<1> QED
  BY <1>1, <1>2, <1>3, <1>4, <1>5

\* The checks leave it where it is.
LEMMA ChecksRest ==
  ASSUME Inv, DecisionInv, PackageInv,
         ValidateStructure \/ ValidateSIPName \/ VerifyManifest \/ CheckFormats
           \/ ValidateFiles \/ ValidateMetadata \/ ValidateLogicalMetadata \/ StopIfInvalid
  PROVE  DecisionInv' /\ PackageInv'
<1>t. result \in Results
  BY DEF Inv, TypeOK
<1>1. /\ Working /\ pc \notin LateSteps \cup {"returned", "error"} /\ pc \in ExtractedSteps
      /\ UNCHANGED <<cfg, apis, inbox, premis, layout, localPath>>
  BY DEF ValidateStructure, ValidateSIPName, VerifyManifest, CheckFormats, ValidateFiles,
         ValidateMetadata, ValidateLogicalMetadata, StopIfInvalid, Check, Working, LateSteps,
         ExtractedSteps, Steps
<1>2. /\ localPath = "extracted" /\ (result.outcome = "success" => result.path = "extracted")
      /\ layout # "bag"
  BY <1>1 DEF PackageInv
<1>c. ASSUME NEW here, NEW next, Check(here, next), next \notin LateSteps \cup {"returned"}
      PROVE  DecisionInv' /\ PackageInv'
  <2>1. /\ result'.path = result.path /\ result'.metadata = result.metadata
        /\ pc' = "returned" => result'.outcome # "success"
        /\ pc' # "returned" /\ result'.outcome = "success" => result.outcome = "success"
        /\ pc' \in {"returned", next}
    BY <1>c, <1>t DEF Check, Succeed, ValidationError, SystemErrorAndReturn, Results
  <2>2. pc' \notin LateSteps /\ (pc' \in ExtractedSteps => pc' # "returned")
    BY <1>c, <2>1 DEF LateSteps, ExtractedSteps
  <2> QED
    BY <1>1, <1>2, <2>1, <2>2, EarlyRest DEF LateSteps
<1>3. CASE ValidateStructure \/ ValidateSIPName \/ CheckFormats \/ ValidateFiles
           \/ ValidateLogicalMetadata
  BY <1>3, <1>c DEF ValidateStructure, ValidateSIPName, CheckFormats, ValidateFiles,
                    ValidateLogicalMetadata, LateSteps
<1>4. CASE ValidateMetadata
  <2> DEFINE next == IF IsAIP THEN "logical metadata" ELSE "gate"
  <2>1. Check("metadata", next) /\ next \notin LateSteps \cup {"returned"}
    BY <1>4 DEF ValidateMetadata, LateSteps
  <2> HIDE DEF next
  <2> QED
    BY <1>c, <2>1
<1>5. CASE VerifyManifest
  <2>1. /\ result'.path = result.path /\ result'.metadata = result.metadata
        /\ pc' = "returned" => result'.outcome # "success"
        /\ pc' # "returned" /\ result'.outcome = "success" => result.outcome = "success"
        /\ pc' \in {"returned", "formats", "files"}
    BY <1>5, <1>t DEF VerifyManifest, SystemErrorAndReturn, Results
  <2>2. pc' \notin LateSteps /\ (pc' \in ExtractedSteps => pc' # "returned")
    BY <2>1 DEF LateSteps, ExtractedSteps
  <2> QED
    BY <1>1, <1>2, <2>1, <2>2, EarlyRest DEF LateSteps
<1>6. CASE StopIfInvalid
  <2>1. /\ result' = result
        /\ pc' = "returned" => result.outcome = "content error"
        /\ pc' \in {"returned", "submit metadata", "premis"}
        /\ pc' = "submit metadata" => cfg.apis
        /\ pc' = "premis" => ~cfg.apis
    BY <1>6 DEF StopIfInvalid
  <2>2. pc' \notin LateSteps \ {"submit metadata", "premis"}
        /\ (pc' \in ExtractedSteps => pc' # "returned")
    BY <2>1 DEF LateSteps, ExtractedSteps
  <2> QED
    BY <1>1, <1>2, <2>1, <2>2, EarlyRest
<1> QED
  BY <1>3, <1>4, <1>5, <1>6

\* A run that ends here without a success hands over nothing it did not have.
LEMMA LateEnd ==
  ASSUME Inv, DecisionInv, PackageInv, pc \in LateSteps, pc' = "returned",
         result'.outcome # "success", result'.metadata = result.metadata,
         result.metadata # "unset" => apis' = apis,
         UNCHANGED <<inbox, premis>>, layout' # "bag"
  PROVE  DecisionInv' /\ PackageInv'
<1>1. DecisionInv'
  <2>1. result'.metadata # "unset" => Told'
    BY DEF DecisionInv, Told
  <2>2. inbox \in {"cancel", "unsupported"} => result.metadata = "unset" /\ premis = <<>>
    BY DEF DecisionInv
  <2> QED
    BY <2>1, <2>2 DEF DecisionInv, AskSteps, BuildSteps
<1>2. PackageInv'
  BY DEF PackageInv, ExtractedSteps, SuccessIsComplete
<1> QED
  BY <1>1, <1>2

\* The steps that involve APIS and the operator.
LEMMA AskRest ==
  ASSUME Inv, DecisionInv, PackageInv,
         CreateImportTask \/ PollAnalysis \/ RequestDecision \/ ReceiveDecision
  PROVE  DecisionInv' /\ PackageInv'
<1>t. result \in Results
  BY DEF Inv, TypeOK
<1>l. /\ pc \in AskSteps /\ pc \in LateSteps /\ pc \in ExtractedSteps
      /\ pc \notin BuildSteps /\ pc # "returned"
      /\ UNCHANGED <<cfg, localPath, layout, premis, inbox>>
  BY DEF CreateImportTask, PollAnalysis, RequestDecision, ReceiveDecision, AskSteps,
         LateSteps, ExtractedSteps, Steps, BuildSteps
<1>a. /\ cfg.apis /\ layout # "bag" /\ result.metadata = "unset" /\ premis = <<>>
      /\ localPath = "extracted" /\ result.outcome = "success" /\ result.path = "extracted"
  BY <1>l DEF DecisionInv, PackageInv, Inv, GatePassed, PremisFollowsPlan, AskSteps
\* The package stays where it is.
<1>p. ASSUME pc' \in AskSteps \cup {"premis"}, result'.path = result.path PROVE PackageInv'
  <2>1. pc' \notin {"restructure", "identifiers", "bag", "returned"}
    BY <1>p DEF AskSteps
  <2> QED
    BY <1>a, <1>l, <1>p, <2>1 DEF PackageInv, SuccessIsComplete
\* The wait goes on: nothing is recorded.
<1>w. ASSUME pc' \in AskSteps \ {"submit metadata"}, result' = result, apis' # "none",
             pc' \in {"request decision", "decision"} => apis' = "Konflikte",
             pc' = "decision" \/ inbox = "none"
      PROVE  DecisionInv' /\ PackageInv'
  <2>1. DecisionInv'
    BY <1>a, <1>l, <1>w DEF DecisionInv, AskSteps, BuildSteps
  <2> QED
    BY <1>p, <1>w, <2>1
\* The metadata is recorded.
<1>r. ASSUME NEW d \in {NoDecision, "overwrite", "append"}, RecordMetadata(d),
             \/ apis' \in {"AlleNeu", "AlleGleich"} /\ d = NoDecision /\ inbox = "none"
             \/ apis' = "Konflikte" /\ inbox \in {"overwrite", "append"} /\ d = inbox
      PROVE  DecisionInv' /\ PackageInv'
  <2>1. /\ result'.metadata = d /\ d # "unset" /\ result'.path = result.path /\ pc' = "premis"
    BY <1>r, <1>t DEF RecordMetadata, Results, NoDecision
  <2>2. Told'
    BY <1>l, <1>r, <2>1 DEF Told
  <2>3. DecisionInv'
    BY <1>a, <1>l, <1>r, <2>1, <2>2 DEF DecisionInv, AskSteps, BuildSteps
  <2> QED
    BY <1>p, <2>1, <2>3
\* The run is over.
<1>s. ASSUME NEW T,
             \/ SystemErrorAndReturn(T)
             \/ ValidationError(T) /\ pc' = "returned"
      PROVE  DecisionInv' /\ PackageInv'
  <2>1. /\ pc' = "returned" /\ result'.outcome # "success"
        /\ result'.metadata = result.metadata
    BY <1>s, <1>t DEF SystemErrorAndReturn, ValidationError, Results
  <2> QED
    BY <1>a, <1>l, <1>s, <2>1, LateEnd
<1>i. pc \in {"submit metadata", "analysis", "request decision"} => inbox = "none"
  BY DEF DecisionInv, BuildSteps
<1>1. CASE CreateImportTask
  <2>1. pc = "submit metadata"
    BY <1>1 DEF CreateImportTask
  <2> QED
    BY <1>1, <1>i, <1>s, <1>w, <2>1 DEF CreateImportTask, Succeed, AskSteps
<1>2. CASE PollAnalysis
  <2>1. pc = "analysis"
    BY <1>2 DEF PollAnalysis
  <2> QED
    BY <1>2, <1>i, <1>r, <1>s, <1>w, <2>1 DEF PollAnalysis, AskSteps
<1>3. CASE RequestDecision
  <2>1. pc = "request decision" /\ apis = "Konflikte" /\ apis' = apis
    BY <1>3 DEF RequestDecision, DecisionInv
  <2> QED
    BY <1>3, <1>i, <1>s, <1>w, <2>1 DEF RequestDecision, AskSteps
<1>4. CASE ReceiveDecision
  <2>1. pc = "decision" /\ apis = "Konflikte" /\ apis' = apis
    BY <1>4 DEF ReceiveDecision, DecisionInv
  <2> QED
    BY <1>4, <1>r, <1>s, <2>1 DEF ReceiveDecision
<1> QED
  BY <1>1, <1>2, <1>3, <1>4

\* The steps that build the PIP.
LEMMA BuildRest ==
  ASSUME Inv, DecisionInv, PackageInv,
         WritePREMIS \/ TransformSIP \/ WriteIdentifiers \/ BagSIP
  PROVE  DecisionInv' /\ PackageInv'
<1> USE Names
<1>t. result \in Results /\ TypeOK
  BY DEF Inv, TypeOK
<1>l. /\ pc \in BuildSteps /\ pc \in LateSteps /\ pc \in ExtractedSteps
      /\ pc \notin AskSteps \cup {"returned"}
      /\ UNCHANGED <<cfg, localPath, apis, inbox, isBag, sipType>>
  BY DEF WritePREMIS, TransformSIP, WriteIdentifiers, BagSIP, Build, AskSteps, LateSteps,
         ExtractedSteps, Steps, BuildSteps
<1>a. /\ cfg.apis <=> result.metadata # "unset"
      /\ inbox \notin {"cancel", "unsupported"} /\ layout # "bag"
      /\ localPath = "extracted" /\ result.outcome = "success" /\ result.path = "extracted"
  BY <1>l DEF DecisionInv, PackageInv, Inv, GatePassed, BuildSteps
\* A failure.
<1>s. ASSUME NEW T, SystemErrorAndReturn(T), layout' # "bag" PROVE DecisionInv' /\ PackageInv'
  <2>1. /\ pc' = "returned" /\ result'.outcome # "success"
        /\ result'.metadata = result.metadata
    BY <1>s, <1>t DEF SystemErrorAndReturn, Results
  <2>2. DecisionInv'
    <3>1. result'.metadata # "unset" => Told'
      BY <1>l, <2>1 DEF DecisionInv, Told
    <3> QED
      BY <1>a, <1>l, <2>1, <3>1 DEF DecisionInv, AskSteps, BuildSteps
  <2>3. PackageInv'
    BY <1>s, <2>1 DEF PackageInv, ExtractedSteps, SuccessIsComplete
  <2> QED
    BY <2>2, <2>3
\* On to the next step, or to the end: nothing that was said changes.
<1>d. ASSUME result' = result, pc' \in BuildSteps \cup {"returned"} PROVE DecisionInv'
  <2>1. Told' <=> Told
    BY <1>d, <1>l DEF Told
  <2> QED
    BY <1>a, <1>d, <1>l, <2>1 DEF DecisionInv, AskSteps, BuildSteps
<1>p. ASSUME NEW n \in BuildTasks, task' = Mark({n}, "success")
      PROVE  task'[n] = "success" /\ \A t \in TaskNames \ {n} : task'[t] = task[t]
  <2>1. n \in TaskNames
    BY DEF BuildTasks, TaskNames
  <2>2. /\ Mark({n}, "success")[n] = "success"
        /\ \A t \in TaskNames \ {n} : Mark({n}, "success")[t] = task[t]
    BY <1>t, <2>1, MarkOne
  <2> QED
    BY <1>p, <2>2
<1>1. CASE WritePREMIS
  <2>0. pc = "premis" /\ layout' = layout
    BY <1>1 DEF WritePREMIS
  <2>1. CASE Succeed({"premis"}) /\ pc' = "restructure"
    <3>1. DecisionInv'
      BY <1>d, <2>1 DEF Succeed, BuildSteps
    <3>2. task'["premis"] = "success" /\ result' = result
      BY <1>p, <2>1 DEF Succeed, BuildTasks
    <3>3. PackageInv'
      BY <1>a, <1>l, <2>0, <2>1, <3>2 DEF PackageInv, SuccessIsComplete
    <3> QED
      BY <3>1, <3>3
  <2>2. CASE UNCHANGED <<task, result, pc>>
    <3>1. DecisionInv'
      BY <1>d, <1>l, <2>2
    <3>2. PackageInv'
      BY <1>a, <1>l, <2>0, <2>2 DEF PackageInv, SuccessIsComplete
    <3> QED
      BY <3>1, <3>2
  <2> QED
    BY <1>1, <1>a, <1>s, <2>0, <2>1, <2>2 DEF WritePREMIS
<1>2. CASE TransformSIP
  <2>1. CASE SystemErrorAndReturn({"restructure"})
    BY <1>2, <1>a, <1>s, <2>1 DEF TransformSIP, Build
  <2>2. CASE Succeed({"restructure"}) /\ layout' = "restructured" /\ pc' = "identifiers"
    <3>0. pc = "restructure"
      BY <1>2 DEF TransformSIP, Build
    <3>1. DecisionInv'
      BY <1>d, <2>2 DEF Succeed, BuildSteps
    <3>2. /\ task'["restructure"] = "success" /\ result' = result
          /\ \A t \in TaskNames \ {"restructure"} : task'[t] = task[t]
      BY <1>p, <2>2 DEF Succeed, BuildTasks
    <3>3. task'["premis"] = "success"
      BY <3>0, <3>2 DEF PackageInv
    <3>4. PackageInv'
      BY <1>a, <1>l, <2>2, <3>2, <3>3 DEF PackageInv, SuccessIsComplete
    <3> QED
      BY <3>1, <3>4
  <2> QED
    BY <1>2, <2>1, <2>2 DEF TransformSIP, Build
<1>3. CASE WriteIdentifiers
  <2>1. CASE SystemErrorAndReturn({"identifiers"})
    BY <1>3, <1>a, <1>s, <2>1 DEF WriteIdentifiers, Build
  <2>2. CASE Succeed({"identifiers"}) /\ layout' = "identified" /\ pc' = "bag"
    <3>0. pc = "identifiers"
      BY <1>3 DEF WriteIdentifiers, Build
    <3>1. DecisionInv'
      BY <1>d, <2>2 DEF Succeed, BuildSteps
    <3>2. /\ task'["identifiers"] = "success" /\ result' = result
          /\ \A t \in TaskNames \ {"identifiers"} : task'[t] = task[t]
      BY <1>p, <2>2 DEF Succeed, BuildTasks
    <3>3. task'["premis"] = "success" /\ task'["restructure"] = "success"
      BY <3>0, <3>2 DEF PackageInv
    <3>4. PackageInv'
      BY <1>a, <1>l, <2>2, <3>2, <3>3 DEF PackageInv, SuccessIsComplete
    <3> QED
      BY <3>1, <3>4
  <2> QED
    BY <1>3, <2>1, <2>2 DEF WriteIdentifiers, Build
<1>4. CASE BagSIP
  <2>1. CASE SystemErrorAndReturn({"bag"}) /\ layout' \in {layout, "partial"}
    BY <1>a, <1>s, <2>1
  <2>2. CASE Succeed({"bag"}) /\ layout' = "bag" /\ pc' = "returned"
    <3>0. pc = "bag"
      BY <1>4 DEF BagSIP, Build
    <3>1. DecisionInv'
      BY <1>d, <2>2 DEF Succeed
    <3>2. /\ task'["bag"] = "success" /\ result' = result
          /\ \A t \in TaskNames \ {"bag"} : task'[t] = task[t]
      BY <1>p, <2>2 DEF Succeed, BuildTasks
    <3>3. \A t \in BuildTasks : task'[t] = "success"
      BY <3>0, <3>2 DEF PackageInv, BuildTasks
    <3>4. \A t \in Applicable' : task'[t] = "success"
      <4>1. Applicable' = Applicable
        BY <1>l DEF Applicable, IsSIP, IsAIP
      <4>2. \A t \in Applicable : task[t] = "success" /\ t \in TaskNames \ {"bag"}
        <5>1. "bag" \notin GateTasks
          BY DEF GateTasks, CheckTasks, IntakeTasks, BagTasks, SIPTasks, AIPTasks
        <5> QED
          BY <1>l, <5>1, ApplicableFacts DEF Inv, GatePassed, AllPassed
      <4> QED
        BY <3>2, <4>1, <4>2
    <3>5. \A t \in Applicable' \cup BuildTasks : task'[t] = "success"
      BY <3>3, <3>4
    <3>6. SuccessIsComplete'
      BY <1>a, <1>l, <2>2, <3>2, <3>5 DEF SuccessIsComplete
    <3>7. PackageInv'
      BY <1>a, <1>l, <2>2, <3>6 DEF PackageInv, ExtractedSteps
    <3> QED
      BY <3>1, <3>7
  <2> QED
    BY <1>4, <2>1, <2>2 DEF BagSIP, Build
<1> QED
  BY <1>1, <1>2, <1>3, <1>4

\* The parent answers a question once, and only while it stands.
LEMMA ParentRest ==
  ASSUME Inv, DecisionInv, PackageInv, CancelWorkflow \/ AnswerDecision \/ UNCHANGED vars
  PROVE  DecisionInv' /\ PackageInv'
<1>1. /\ UNCHANGED <<cfg, pc, isBag, sipType, localPath, result, task, layout, premis, apis>>
      /\ inbox' # inbox => pc = "decision"
  BY DEF CancelWorkflow, AnswerDecision, vars
<1>2. Applicable' = Applicable
  BY <1>1 DEF Applicable, IsSIP, IsAIP
<1>3. SuccessIsComplete'
  BY <1>1, <1>2 DEF PackageInv, SuccessIsComplete
<1>4. PackageInv'
  BY <1>1, <1>3 DEF PackageInv
<1>5. CASE inbox' = inbox
  <2>1. Told' <=> Told
    BY <1>1, <1>5 DEF Told
  <2>2. DecisionInv'
    BY <1>1, <1>5, <2>1 DEF DecisionInv
  <2> QED
    BY <1>4, <2>2
<1>6. CASE pc = "decision"
  <2>1. result.metadata = "unset" /\ premis = <<>>
    BY <1>6 DEF DecisionInv, BuildSteps, Inv, PremisFollowsPlan
  <2>2. DecisionInv'
    BY <1>1, <1>6, <2>1 DEF DecisionInv
  <2> QED
    BY <1>4, <2>2
<1> QED
  BY <1>1, <1>5, <1>6

\* Every step keeps what was said and where the package is.
LEMMA NextRest == Inv /\ DecisionInv /\ PackageInv /\ [Next]_vars => DecisionInv' /\ PackageInv'
BY IntakeRest, ChecksRest, AskRest, BuildRest, ParentRest DEF Next, WorkflowStep

\* The whole of it holds in every run.
WholeInv == Inv /\ ReportInv /\ DecisionInv /\ PackageInv

\* Taken together the invariants are inductive.
LEMMA WholeInvariance == Spec => []WholeInv
<1>1. Init => WholeInv
  BY InitInv, InitReport, InitRest DEF WholeInv
<1>2. WholeInv /\ [Next]_vars => WholeInv'
  BY NextTypeOK, NextChecked, NextReport, NextRest DEF WholeInv, Inv, Checked, Rest
<1> QED
  BY <1>1, <1>2, PTL DEF Spec

-----------------------------------------------------------------------------
(* The theorems.                                                            *)

\* The outcome that is returned is the one its tasks tell of, and no task is left open.
THEOREM OutcomesAgree == Spec => []OutcomeAgreesWithTasks
BY WholeInvariance, PTL DEF WholeInv, ReportInv

\* The metadata for poststorage is what APIS and the operator said, and there is none, and
\* no package, once the operator has canceled.
THEOREM MetadataIsTheDecision == Spec => []MetadataTellsTheDecision
<1>1. WholeInv => MetadataTellsTheDecision
  BY DEF WholeInv, DecisionInv, PackageInv, Told, MetadataTellsTheDecision
<1> QED
  BY WholeInvariance, <1>1, PTL

\* A success has everything that storage and poststorage ask of it.
THEOREM SuccessesAreComplete == Spec => []SuccessIsComplete
BY WholeInvariance, PTL DEF WholeInv, PackageInv

-----------------------------------------------------------------------------
(* The contract.                                                            *)

\* A step that changes nothing the contract speaks of.
Quiet ==
  /\ cfg' = cfg /\ result'.metadata = result.metadata
  /\ (apis' # "none") = (apis # "none")
  /\ (layout' = "bag") = (layout = "bag")

\* What the parent has seen of a run that is under way, and of one that ends.
Verdict == IF pc = "returned" THEN result.outcome
           ELSE IF pc = "error" THEN "failed" ELSE "pending"

\* A quiet step the parent does not see is a stutter of the contract.
LEMMA ContractStutters ==
  ASSUME Quiet, Verdict' = Verdict
  PROVE  UNCHANGED Contract!contractVars
BY DEF Quiet, Verdict, Contract!contractVars

\* A quiet step that ends in a system error is its Fail.
LEMMA ContractFails ==
  ASSUME Working, pc' = "returned", result'.outcome = "system error", Quiet
  PROVE  Contract!Next
BY DEF Working, Quiet, Contract!Next, Contract!Fail

\* A quiet step that ends in a content error is its Reject, before anything was submitted.
LEMMA ContractRejects ==
  ASSUME Working, pc' = "returned", result'.outcome = "content error", Quiet,
         apis = "none", layout # "bag"
  PROVE  Contract!Next
BY DEF Working, Quiet, Contract!Next, Contract!Reject

\* What a step before the gate does to what the contract speaks of.
LEMMA EarlyContract ==
  ASSUME WholeInv, Working, pc \notin LateSteps,
         cfg' = cfg, apis' = apis, result'.metadata = result.metadata, layout' # "bag",
         pc' = "returned" => result'.outcome \in {"content error", "system error"}
  PROVE  [Contract!Next]_(Contract!contractVars)
<1>1. apis = "none" /\ layout # "bag" /\ pc \notin {"returned", "error"}
  BY DEF WholeInv, Inv, EffectsAfterGate, Effects, Working
<1>2. Quiet
  BY <1>1 DEF Quiet
<1>3. CASE pc' = "returned"
  BY <1>1, <1>2, <1>3, ContractFails, ContractRejects
<1>4. CASE pc' = "error"
  BY <1>1, <1>2, <1>4 DEF Quiet, Contract!Next, Contract!Abort
<1>5. CASE pc' \notin {"returned", "error"}
  BY <1>1, <1>2, <1>5, ContractStutters DEF Verdict
<1> QED
  BY <1>3, <1>4, <1>5

\* Up to the gate.
LEMMA IntakeContract ==
  ASSUME WholeInv,
         Start \/ ChecksumSIP \/ CheckDuplicate \/ ExtractSIP \/ CheckIsBag \/ ValidateBag
           \/ UnbagSIP \/ IdentifySIP
  PROVE  [Contract!Next]_(Contract!contractVars)
<1>1. /\ Working /\ pc \notin LateSteps /\ cfg' = cfg /\ apis' = apis
      /\ layout # "bag" /\ result \in Results
  BY DEF Start, ChecksumSIP, CheckDuplicate, ExtractSIP, CheckIsBag, ValidateBag, UnbagSIP,
         IdentifySIP, Working, LateSteps, WholeInv, PackageInv, Inv, TypeOK
<1>2. layout' # "bag"
  BY <1>1 DEF Start, ChecksumSIP, CheckDuplicate, ExtractSIP, CheckIsBag, ValidateBag, UnbagSIP,
              IdentifySIP
<1>3. /\ result'.metadata = result.metadata
      /\ pc' = "returned" => result'.outcome \in {"content error", "system error"}
  <2>1. CASE Start
    BY <1>1, <2>1 DEF Start, Results
  <2>2. CASE ChecksumSIP \/ CheckDuplicate \/ ValidateBag \/ IdentifySIP \/ CheckIsBag
    BY <1>1, <2>2 DEF ChecksumSIP, CheckDuplicate, ValidateBag, IdentifySIP, CheckIsBag,
                      Succeed, ValidationError, SystemErrorAndReturn, Results
  <2>3. CASE ExtractSIP
    BY <1>1, <2>3 DEF ExtractSIP, FailPath, ValidationError, Results
  <2>4. CASE UnbagSIP
    BY <1>1, <2>4 DEF UnbagSIP, FailPath, Results
  <2> QED
    BY <2>1, <2>2, <2>3, <2>4
<1> QED
  BY <1>1, <1>2, <1>3, EarlyContract

\* The checks end the run, or stay within the contract's pending state.
LEMMA ChecksContract ==
  ASSUME WholeInv,
         ValidateStructure \/ ValidateSIPName \/ VerifyManifest \/ CheckFormats
           \/ ValidateFiles \/ ValidateMetadata \/ ValidateLogicalMetadata \/ StopIfInvalid
  PROVE  [Contract!Next]_(Contract!contractVars)
<1>1. /\ Working /\ pc \notin LateSteps /\ cfg' = cfg /\ apis' = apis
      /\ layout # "bag" /\ layout' = layout /\ result \in Results
  BY DEF ValidateStructure, ValidateSIPName, VerifyManifest, CheckFormats, ValidateFiles,
         ValidateMetadata, ValidateLogicalMetadata, StopIfInvalid, Check, Working, LateSteps,
         WholeInv, PackageInv, Inv, TypeOK
<1>c. ASSUME NEW here, NEW next, Check(here, next), next # "returned"
      PROVE  /\ result'.metadata = result.metadata
             /\ pc' = "returned" => result'.outcome \in {"content error", "system error"}
  BY <1>1, <1>c DEF Check, Succeed, ValidationError, SystemErrorAndReturn, Results
<1>2. /\ result'.metadata = result.metadata
      /\ pc' = "returned" => result'.outcome \in {"content error", "system error"}
  <2>1. CASE ValidateStructure \/ ValidateSIPName \/ CheckFormats \/ ValidateFiles
             \/ ValidateLogicalMetadata
    BY <1>c, <2>1 DEF ValidateStructure, ValidateSIPName, CheckFormats, ValidateFiles,
                      ValidateLogicalMetadata
  <2>2. CASE ValidateMetadata
    <3> DEFINE next == IF IsAIP THEN "logical metadata" ELSE "gate"
    <3>1. Check("metadata", next) /\ next # "returned"
      BY <2>2 DEF ValidateMetadata
    <3> HIDE DEF next
    <3> QED
      BY <1>c, <3>1
  <2>3. CASE VerifyManifest
    BY <1>1, <2>3 DEF VerifyManifest, SystemErrorAndReturn, Results
  <2>4. CASE StopIfInvalid
    BY <1>1, <2>4 DEF StopIfInvalid
  <2> QED
    BY <2>1, <2>2, <2>3, <2>4
<1> QED
  BY <1>1, <1>2, EarlyContract

\* Submitting, accepting, and the operator's cancel.
LEMMA AskContract ==
  ASSUME WholeInv,
         CreateImportTask \/ PollAnalysis \/ RequestDecision \/ ReceiveDecision
  PROVE  [Contract!Next]_(Contract!contractVars)
<1>1. /\ Working /\ pc \in AskSteps /\ pc \notin {"returned", "error"}
      /\ cfg' = cfg /\ layout' = layout /\ layout # "bag"
      /\ cfg.apis /\ result \in Results /\ result.metadata = "unset"
  BY DEF CreateImportTask, PollAnalysis, RequestDecision, ReceiveDecision, AskSteps, BuildSteps,
         Working, WholeInv, DecisionInv, PackageInv, Inv, TypeOK
<1>s. ASSUME NEW T, SystemErrorAndReturn(T)
      PROVE  /\ pc' = "returned" /\ result'.outcome = "system error"
             /\ result'.metadata = result.metadata
  BY <1>1, <1>s DEF SystemErrorAndReturn, Results
<1>f. ASSUME NEW T, SystemErrorAndReturn(T), (apis' # "none") = (apis # "none")
      PROVE  Contract!Next
  BY <1>1, <1>f, <1>s, ContractFails DEF Quiet
<1>r. ASSUME NEW d \in {NoDecision, "overwrite", "append"}, RecordMetadata(d),
             apis # "none", apis' # "none"
      PROVE  Contract!Next
  <2>1. result'.metadata = d /\ pc' = "premis"
    BY <1>1, <1>r DEF RecordMetadata, Results
  <2> QED
    BY <1>1, <1>r, <2>1 DEF Contract!Next, Contract!Accept
<1>2. CASE CreateImportTask
  <2>1. apis = "none"
    BY <1>2 DEF CreateImportTask, WholeInv, DecisionInv
  <2>2. CASE SystemErrorAndReturn({"submit metadata"}) /\ apis' = "none"
    BY <1>f, <2>1, <2>2
  <2>3. CASE SystemErrorAndReturn({"submit metadata"}) /\ apis' = "submitted"
    BY <1>1, <1>s, <2>1, <2>3 DEF Contract!Next, Contract!Submit
  <2>4. CASE result' = result /\ pc' = "analysis" /\ apis' = "submitted"
    BY <1>1, <2>1, <2>4 DEF Contract!Next, Contract!Submit
  <2> QED
    BY <1>2, <2>2, <2>3, <2>4 DEF CreateImportTask, Succeed
<1>3. CASE PollAnalysis
  <2>1. apis # "none"
    BY <1>3 DEF PollAnalysis, WholeInv, DecisionInv
  <2>2. CASE SystemErrorAndReturn({"analysis"}) /\ apis' = apis
    BY <1>f, <2>2
  <2>3. ASSUME NEW a \in Analyses, apis' = a,
               \/ a \in {"AlleNeu", "AlleGleich"} /\ RecordMetadata(NoDecision)
               \/ a = "Fehler" /\ SystemErrorAndReturn({"analysis"})
               \/ /\ a = "Konflikte"
                  /\ task' = Mark({"analysis"}, "open")
                  /\ pc' = "request decision"
                  /\ UNCHANGED result
        PROVE  [Contract!Next]_(Contract!contractVars)
    <3>1. apis' # "none"
      BY <2>3 DEF Analyses
    <3>2. CASE RecordMetadata(NoDecision)
      BY <1>r, <2>1, <3>1, <3>2
    <3>3. CASE SystemErrorAndReturn({"analysis"})
      BY <1>f, <2>1, <3>1, <3>3
    <3>4. CASE pc' = "request decision" /\ UNCHANGED result
      BY <1>1, <2>1, <3>1, <3>4, ContractStutters DEF Quiet, Verdict
    <3> QED
      BY <2>3, <3>2, <3>3, <3>4
  <2> QED
    BY <1>3, <2>2, <2>3 DEF PollAnalysis
<1>4. CASE RequestDecision
  <2>1. CASE SystemErrorAndReturn({"analysis"})
    BY <1>4, <1>f, <2>1 DEF RequestDecision
  <2>2. CASE pc' = "decision" /\ UNCHANGED result
    BY <1>1, <1>4, <2>2, ContractStutters DEF RequestDecision, Quiet, Verdict
  <2> QED
    BY <1>4, <2>1, <2>2 DEF RequestDecision
<1>5. CASE ReceiveDecision
  <2>1. apis # "none" /\ apis' = apis
    BY <1>5 DEF ReceiveDecision, WholeInv, DecisionInv
  <2>2. CASE SystemErrorAndReturn({"analysis"})
    BY <1>f, <2>1, <2>2
  <2>3. CASE RecordMetadata(inbox) /\ inbox \in {"overwrite", "append"}
    BY <1>r, <2>1, <2>3
  <2>4. CASE ValidationError({"analysis"}) /\ pc' = "returned"
    <3>1. result'.outcome = "content error" /\ result'.metadata = result.metadata
      BY <1>1, <2>4 DEF ValidationError, Results
    <3> QED
      BY <1>1, <2>1, <2>4, <3>1 DEF Contract!Next, Contract!CancelIngest
  <2> QED
    BY <1>5, <2>2, <2>3, <2>4 DEF ReceiveDecision
<1> QED
  BY <1>2, <1>3, <1>4, <1>5

\* Building, and delivering what was built.
LEMMA BuildContract ==
  ASSUME WholeInv, WritePREMIS \/ TransformSIP \/ WriteIdentifiers \/ BagSIP
  PROVE  [Contract!Next]_(Contract!contractVars)
<1>1. /\ Working /\ pc \in BuildSteps /\ pc \notin {"returned", "error"}
      /\ cfg' = cfg /\ apis' = apis /\ layout # "bag" /\ result \in Results
      /\ cfg.apis => result.metadata # "unset"
      /\ result.outcome = "success"
  BY DEF WritePREMIS, TransformSIP, WriteIdentifiers, BagSIP, Build, BuildSteps, LateSteps,
         Working, WholeInv, DecisionInv, PackageInv, Inv, TypeOK, GatePassed
<1>f. ASSUME NEW T, SystemErrorAndReturn(T), layout' # "bag"
      PROVE  Contract!Next
  <2>1. /\ pc' = "returned" /\ result'.outcome = "system error"
        /\ result'.metadata = result.metadata
    BY <1>1, <1>f DEF SystemErrorAndReturn, Results
  <2> QED
    BY <1>1, <1>f, <2>1, ContractFails DEF Quiet
<1>g. ASSUME result' = result, pc' \in BuildSteps, layout' # "bag"
      PROVE  UNCHANGED Contract!contractVars
  BY <1>1, <1>g, ContractStutters DEF Quiet, Verdict, BuildSteps
<1>2. CASE WritePREMIS
  BY <1>1, <1>2, <1>f, <1>g DEF WritePREMIS, Succeed, BuildSteps
<1>3. CASE TransformSIP
  BY <1>1, <1>3, <1>f, <1>g DEF TransformSIP, Build, Succeed, BuildSteps
<1>4. CASE WriteIdentifiers
  BY <1>1, <1>4, <1>f, <1>g DEF WriteIdentifiers, Build, Succeed, BuildSteps
<1>5. CASE BagSIP
  <2>1. CASE SystemErrorAndReturn({"bag"}) /\ layout' \in {layout, "partial"}
    BY <1>1, <1>f, <2>1
  <2>2. CASE result' = result /\ layout' = "bag" /\ pc' = "returned"
    BY <1>1, <2>2 DEF Contract!Next, Contract!Deliver
  <2> QED
    BY <1>5, <2>1, <2>2 DEF BagSIP, Build, Succeed
<1> QED
  BY <1>2, <1>3, <1>4, <1>5

\* The workflow implements the contract: it begins in one of its initial states, and each
\* step of it is one of the contract's or changes nothing the contract speaks of.
THEOREM ImplementsContract == Spec => KeepsContract
<1>1. Init => Contract!Init
  <2> SUFFICES ASSUME Init PROVE Contract!Init
    OBVIOUS
  <2>1. result.metadata = "unset" /\ pc = "start" /\ layout = "submitted" /\ apis = "none"
        /\ cfg.apis \in BOOLEAN
    BY DEF Init, Configs
  <2> QED
    BY <2>1 DEF Contract!Init
<1>2. WholeInv /\ [Next]_vars => [Contract!Next]_(Contract!contractVars)
  <2> SUFFICES ASSUME WholeInv, [Next]_vars PROVE [Contract!Next]_(Contract!contractVars)
    OBVIOUS
  <2>1. CASE CancelWorkflow \/ AnswerDecision \/ UNCHANGED vars
    <3>1. UNCHANGED <<cfg, pc, result, layout, apis>>
      BY <2>1 DEF CancelWorkflow, AnswerDecision, vars
    <3> QED
      BY <3>1, ContractStutters DEF Quiet, Verdict
  <2> QED
    BY <2>1, IntakeContract, ChecksContract, AskContract, BuildContract DEF Next, WorkflowStep
<1> QED
  BY WholeInvariance, <1>1, <1>2, PTL DEF Spec, KeepsContract, Contract!Spec
=============================================================================
