------------------------- MODULE PreprocessingProofs -------------------------
(***************************************************************************)
(* Proofs about Preprocessing, for any sets of SIP and AIP types.          *)
(*                                                                         *)
(* The properties speak of the end of a run; the invariant says what holds *)
(* on the way.  Seen is the set of gate tasks behind the current step: those *)
(* that apply have an outcome, and as long as the result is a success that *)
(* outcome is success.  So when StopIfInvalid lets a run through, every    *)
(* check that applies has succeeded.                                       *)
(***************************************************************************)
EXTENDS Preprocessing, SequenceTheorems, TLAPS

\* The tasks that decide whether StopIfInvalid lets the run through.
GateTasks == CheckTasks \cup IntakeTasks \cup BagTasks \cup SIPTasks \cup AIPTasks

\* The steps after the gate, and the set of all steps.
LateSteps == {"submit metadata", "analysis", "request decision", "decision", "premis",
              "restructure", "identifiers", "bag"}

Bagged     == IntakeTasks \cup {"extract"} \cup BagTasks
Manifested == Bagged \cup {"identify", "structure", "name", "manifest", "checksums"}

\* The gate tasks that are behind the step Execute is about to take.
Seen ==
  CASE pc \in {"start", "checksum"} -> {}
    [] pc = "duplicate"    -> {"checksum"}
    [] pc = "extract"      -> IntakeTasks
    [] pc \in {"is bag", "validate bag"} -> IntakeTasks \cup {"extract"}
    [] pc = "unbag"        -> IntakeTasks \cup {"extract", "validate bag"}
    [] pc = "identify"     -> Bagged
    [] pc = "structure"    -> Bagged \cup {"identify"}
    [] pc = "name"         -> Bagged \cup {"identify", "structure"}
    [] pc = "manifest"     -> Bagged \cup {"identify", "structure", "name"}
    [] pc = "formats"      -> Manifested
    [] pc = "files"        -> Manifested \cup SIPTasks
    [] pc = "metadata"     -> Manifested \cup SIPTasks \cup {"files"}
    [] pc = "logical metadata" -> Manifested \cup SIPTasks \cup {"files", "metadata"}
    [] OTHER -> GateTasks

\* No task that applies was skipped on the way here.
NothingSkipped == Working => \A t \in Seen \cap Applicable : task[t] # "none"

\* A failed gate task is in the outcome, and a system error ends the run.
FailuresAreInOutcome ==
  Working =>
    /\ result.outcome \in {"success", "content error"}
    /\ result.outcome = "success" => \A t \in GateTasks : task[t] \in {"none", "success"}

\* What the gate has established, for the rest of the run.
AllPassed == \A t \in Applicable : task[t] = "success"
GatePassed == pc \in LateSteps => AllPassed /\ result.outcome = "success"

\* premis.xml grows along its plan, and is complete when writing it is over.
PremisFollowsPlan ==
  /\ Len(premis) <= Len(PremisPlan(sipType))
  /\ \A i \in 1..Len(premis) : premis[i] = PremisPlan(sipType)[i]
  /\ pc \in {"submit metadata", "analysis", "request decision", "decision"} => premis = <<>>
  /\ pc = "premis" => Len(premis) < Len(PremisPlan(sipType))
  /\ pc \in {"restructure", "identifiers", "bag"} \/ layout = "bag" =>
       premis = PremisPlan(sipType)

\* Before the gate there are no effects, and after it every check has passed.
EffectsAfterGate ==
  /\ Effects => AllPassed
  /\ pc \notin LateSteps \cup {"returned", "error"} => ~Effects

Inv == /\ TypeOK /\ NothingSkipped /\ FailuresAreInOutcome /\ GatePassed
       /\ PremisFollowsPlan /\ EffectsAfterGate

-----------------------------------------------------------------------------
(* The helpers of the workflow.                                             *)

\* Mark gives the tasks it is told the outcome, and leaves the others alone.
LEMMA MarkFacts ==
  ASSUME NEW T \in SUBSET TaskNames, NEW o \in TaskOutcomes,
         task \in [TaskNames -> TaskOutcomes]
  PROVE  /\ Mark(T, o) \in [TaskNames -> TaskOutcomes]
         /\ \A t \in T : Mark(T, o)[t] = o
         /\ \A t \in TaskNames \ T : Mark(T, o)[t] = task[t]
BY DEF Mark

\* The plan has six entries or seven, all of them known to premis.xml's type.
LEMMA PlanFacts ==
  ASSUME NEW t
  PROVE  /\ PremisPlan(t) \in Seq(PremisEntries)
         /\ Len(PremisPlan(t)) \in {6, 7}
         /\ \A i \in 1..Len(PremisPlan(t)) :
              PremisPlan(t)[i] = "formats" => t \in SIPTypes
<1>1. CASE t \in SIPTypes
  BY <1>1 DEF PremisPlan, PremisEvents, PremisEntries
<1>2. CASE t \notin SIPTypes
  BY <1>2 DEF PremisPlan, PremisEvents, PremisEntries
<1> QED
  BY <1>1, <1>2

\* The invariant holds at the start: nothing is behind the first step, nothing built.
LEMMA InitInv == Init => Inv
<1> SUFFICES ASSUME Init PROVE Inv
  OBVIOUS
<1>1. TypeOK
  <2>1. result \in Results
    BY DEF Init, Results, Outcomes, Paths, Metadata
  <2>2. premis \in Seq(PremisEntries)
    BY EmptySeq DEF Init
  <2>3. task \in [TaskNames -> TaskOutcomes]
    BY DEF Init, TaskOutcomes
  <2> QED
    BY <2>1, <2>2, <2>3 DEF Init, TypeOK, Steps, Layouts, Paths
<1>2. NothingSkipped
  BY DEF Init, NothingSkipped, Seen
<1>3. FailuresAreInOutcome
  BY DEF Init, FailuresAreInOutcome, GateTasks, TaskNames
<1>4. GatePassed
  BY DEF Init, GatePassed, LateSteps
<1>5. PremisFollowsPlan
  <2>1. premis = <<>> /\ pc = "start" /\ layout = "submitted" /\ Len(premis) = 0
    BY DEF Init
  <2>2. Len(PremisPlan(sipType)) \in {6, 7}
    BY PlanFacts
  <2> QED
    BY <2>1, <2>2 DEF PremisFollowsPlan
<1>6. EffectsAfterGate
  BY DEF Init, EffectsAfterGate, Effects
<1> QED
  BY <1>1, <1>2, <1>3, <1>4, <1>5, <1>6 DEF Inv

-----------------------------------------------------------------------------
(* The types.                                                               *)

\* What a step that reports to the result does to it and to the tasks.
Reported(T) ==
  \/ Succeed(T)
  \/ ValidationError(T)
  \/ SystemErrorAndReturn(T)

\* An answered step leaves tasks and result well formed, whichever the answer.
LEMMA ReportedTypes ==
  ASSUME TypeOK, NEW T \in SUBSET TaskNames, Reported(T)
  PROVE  result' \in Results /\ task' \in [TaskNames -> TaskOutcomes]
<1> task \in [TaskNames -> TaskOutcomes] /\ result \in Results
  BY DEF TypeOK
<1>1. CASE Succeed(T)
  BY <1>1, MarkFacts DEF Succeed, TaskOutcomes
<1>2. CASE ValidationError(T)
  BY <1>2, MarkFacts DEF ValidationError, TaskOutcomes, Results, Outcomes
<1>3. CASE SystemErrorAndReturn(T)
  BY <1>3, MarkFacts DEF SystemErrorAndReturn, TaskOutcomes, Results, Outcomes
<1> QED
  BY <1>1, <1>2, <1>3 DEF Reported

\* The task names used by the steps are task names.
LEMMA Names ==
  /\ \A t \in {"checksum", "duplicate", "validate bag", "unbag", "formats",
               "logical metadata", "extract", "identify", "structure", "name", "manifest",
               "checksums", "files", "metadata", "submit metadata", "analysis", "premis",
               "restructure", "identifiers", "bag"} : t \in TaskNames /\ {t} \in SUBSET TaskNames
  /\ {"manifest", "checksums"} \in SUBSET TaskNames
BY DEF TaskNames, IntakeTasks, BagTasks, SIPTasks, AIPTasks, CheckTasks, ApisTasks, BuildTasks

\* A step that answers one task, and goes on to one of the known steps.
LEMMA CheckTypes ==
  ASSUME TypeOK, NEW here \in TaskNames, NEW next \in Steps, Check(here, next)
  PROVE  TypeOK'
<1>1. result' \in Results /\ task' \in [TaskNames -> TaskOutcomes]
  BY ReportedTypes DEF Check, Reported
<1>2. pc' \in Steps
  BY DEF Check, SystemErrorAndReturn, Steps
<1> QED
  BY <1>1, <1>2 DEF Check, TypeOK

\* A step that works on the package after the gate stays within the types.
LEMMA BuildTypes ==
  ASSUME TypeOK, NEW here \in TaskNames, NEW next \in Steps, NEW built \in Layouts,
         Build(here, next, built)
  PROVE  TypeOK'
<1>1. result' \in Results /\ task' \in [TaskNames -> TaskOutcomes]
  BY ReportedTypes DEF Build, Reported
<1>2. pc' \in Steps
  BY DEF Build, SystemErrorAndReturn, Steps
<1>3. layout' \in Layouts
  BY DEF Build, TypeOK, Layouts
<1> QED
  BY <1>1, <1>2, <1>3 DEF Build, TypeOK

\* So does a step that fails and loses the path of its result.
LEMMA FailPathTypes ==
  ASSUME TypeOK, NEW t \in TaskNames, FailPath(t)
  PROVE  /\ result' \in Results /\ task' \in [TaskNames -> TaskOutcomes]
         /\ pc' = "returned"
<1>0. {t} \in SUBSET TaskNames /\ task \in [TaskNames -> TaskOutcomes]
      /\ "system failure" \in TaskOutcomes
  BY DEF TypeOK, TaskOutcomes
<1>1. task' \in [TaskNames -> TaskOutcomes] /\ pc' = "returned"
  BY <1>0, MarkFacts DEF FailPath
<1>2. PICK p \in {result.path, ""} :
        result' = [result EXCEPT !.path = p, !.outcome = "system error"]
  BY DEF FailPath
<1>3. p \in Paths /\ "system error" \in Outcomes /\ result \in Results
  BY DEF TypeOK, Results, Paths, Outcomes
<1>4. result' \in Results
  BY <1>2, <1>3 DEF Results
<1> QED
  BY <1>1, <1>4

\* So does recording the metadata, for a decision that may be recorded.
LEMMA RecordMetadataTypes ==
  ASSUME TypeOK, NEW d \in Metadata, RecordMetadata(d)
  PROVE  /\ result' \in Results /\ task' \in [TaskNames -> TaskOutcomes]
         /\ pc' = "premis"
<1>0. {"analysis"} \in SUBSET TaskNames
  BY Names
<1>1. task' \in [TaskNames -> TaskOutcomes] /\ pc' = "premis"
  BY <1>0, MarkFacts DEF RecordMetadata, TypeOK, TaskOutcomes
<1>2. result' \in Results
  BY DEF RecordMetadata, TypeOK, Results
<1> QED
  BY <1>1, <1>2

\* The successor of a smaller number is an index.
LEMMA NextIndex == \A m, n \in Nat : m < n => m + 1 \in 1..n
OBVIOUS

\* Every step keeps the types; writing premis.xml needs the rest of the invariant.
LEMMA NextTypeOK == Inv /\ [Next]_vars => TypeOK'
<1> SUFFICES ASSUME Inv, [Next]_vars PROVE TypeOK'
  OBVIOUS
<1> USE Names
<1>t. TypeOK /\ task \in [TaskNames -> TaskOutcomes] /\ result \in Results
  BY DEF Inv, TypeOK
<1>1. ASSUME Start PROVE TypeOK'
  <2>1. pc' \in Steps /\ localPath' \in Paths
    BY <1>1, <1>t DEF Start, Steps, Paths, TypeOK
  <2>2. result' \in Results
    BY <1>1, <1>t DEF Start, Results, Paths
  <2> QED
    BY <1>1, <1>t, <2>1, <2>2 DEF Start, TypeOK
<1>2. ASSUME ChecksumSIP PROVE TypeOK'
  <2>1. result' \in Results /\ task' \in [TaskNames -> TaskOutcomes]
    BY <1>2, <1>t, ReportedTypes DEF ChecksumSIP, Reported
  <2>2. pc' \in Steps
    BY <1>2 DEF ChecksumSIP, SystemErrorAndReturn, Steps
  <2> QED
    BY <1>2, <1>t, <2>1, <2>2 DEF ChecksumSIP, TypeOK
<1>3. ASSUME CheckDuplicate PROVE TypeOK'
  <2>1. result' \in Results /\ task' \in [TaskNames -> TaskOutcomes]
    BY <1>3, <1>t, ReportedTypes DEF CheckDuplicate, Reported
  <2>2. pc' \in Steps
    BY <1>3 DEF CheckDuplicate, SystemErrorAndReturn, Steps
  <2> QED
    BY <1>3, <1>t, <2>1, <2>2 DEF CheckDuplicate, TypeOK
<1>4. ASSUME ExtractSIP PROVE TypeOK'
  <2>1. pc' \in Steps /\ localPath' \in Paths /\ layout' \in Layouts
    BY <1>4, <1>t DEF ExtractSIP, FailPath, Steps, Paths, Layouts, TypeOK
  <2>2. CASE FailPath("extract")
    BY <1>4, <1>t, <2>1, <2>2, FailPathTypes DEF ExtractSIP, TypeOK
  <2>3. CASE ValidationError({"extract"})
    BY <1>4, <1>t, <2>1, <2>3, ReportedTypes DEF ExtractSIP, TypeOK, Reported
  <2>4. CASE /\ task' = Mark({"extract"}, "success")
             /\ result' = [result EXCEPT !.path = "extracted"]
    <3>1. task' \in [TaskNames -> TaskOutcomes]
      BY <1>t, <2>4, MarkFacts DEF TaskOutcomes
    <3>2. result' \in Results
      BY <1>t, <2>4 DEF Results, Paths
    <3> QED
      BY <1>4, <1>t, <2>1, <3>1, <3>2 DEF ExtractSIP, TypeOK
  <2> QED
    BY <1>4, <2>2, <2>3, <2>4 DEF ExtractSIP
<1>5. ASSUME CheckIsBag PROVE TypeOK'
  <2>1. pc' \in Steps /\ isBag' \in BOOLEAN
    BY <1>5, <1>t DEF CheckIsBag, Steps, TypeOK
  <2> QED
    BY <1>5, <1>t, <2>1 DEF CheckIsBag, TypeOK
<1>6. ASSUME ValidateBag PROVE TypeOK'
  <2>1. result' \in Results /\ task' \in [TaskNames -> TaskOutcomes]
    BY <1>6, <1>t, ReportedTypes DEF ValidateBag, Reported
  <2>2. pc' \in Steps
    BY <1>6 DEF ValidateBag, SystemErrorAndReturn, Steps
  <2> QED
    BY <1>6, <1>t, <2>1, <2>2 DEF ValidateBag, TypeOK
<1>7. ASSUME UnbagSIP PROVE TypeOK'
  <2>1. layout' \in Layouts
    BY <1>7, <1>t DEF UnbagSIP, Layouts, TypeOK
  <2>2. CASE FailPath("unbag")
    BY <1>7, <1>t, <2>1, <2>2, FailPathTypes DEF UnbagSIP, TypeOK, Steps
  <2>3. CASE /\ task' = Mark({"unbag"}, "success") /\ pc' = "identify"
             /\ result' = [result EXCEPT !.path = localPath]
    <3>1. task' \in [TaskNames -> TaskOutcomes]
      BY <1>t, <2>3, MarkFacts DEF TaskOutcomes
    <3>2. localPath \in Paths
      BY <1>t DEF TypeOK
    <3>3. result' \in Results
      BY <1>t, <2>3, <3>2 DEF Results
    <3> QED
      BY <1>7, <1>t, <2>1, <2>3, <3>1, <3>3 DEF UnbagSIP, TypeOK, Steps
  <2> QED
    BY <1>7, <2>2, <2>3 DEF UnbagSIP
<1>8. ASSUME IdentifySIP PROVE TypeOK'
  <2>1. result' \in Results /\ task' \in [TaskNames -> TaskOutcomes]
    BY <1>8, <1>t, ReportedTypes DEF IdentifySIP, Reported
  <2>2. pc' \in Steps
    BY <1>8 DEF IdentifySIP, SystemErrorAndReturn, Steps
  <2>3. sipType' \in Types \cup {"unknown"}
    BY <1>8, <1>t DEF IdentifySIP, TypeOK
  <2> QED
    BY <1>8, <1>t, <2>1, <2>2, <2>3 DEF IdentifySIP, TypeOK
<1>9. ASSUME ValidateStructure PROVE TypeOK'
  BY <1>9, <1>t, CheckTypes DEF ValidateStructure, Steps
<1>10. ASSUME ValidateSIPName PROVE TypeOK'
  BY <1>10, <1>t, CheckTypes DEF ValidateSIPName, Steps
<1>11. ASSUME VerifyManifest PROVE TypeOK'
  <2>1. pc' \in Steps
    BY <1>11 DEF VerifyManifest, SystemErrorAndReturn, Steps
  <2>2. CASE SystemErrorAndReturn({"manifest", "checksums"})
    BY <1>11, <1>t, <2>1, <2>2, ReportedTypes DEF VerifyManifest, TypeOK, Reported
  <2>3. ASSUME NEW bad \in SUBSET {"manifest", "checksums"},
               task' = [t \in TaskNames |->
                          IF t \in bad THEN "validation failure"
                          ELSE IF t \in {"manifest", "checksums"} THEN "success"
                          ELSE task[t]],
               result' = IF bad = {} THEN result
                         ELSE [result EXCEPT !.outcome = "content error"]
        PROVE  TypeOK'
    <3>1. task' \in [TaskNames -> TaskOutcomes]
      BY <1>t, <2>3 DEF TaskOutcomes
    <3>2. result' \in Results
      BY <1>t, <2>3 DEF Results, Outcomes
    <3> QED
      BY <1>11, <1>t, <2>1, <3>1, <3>2 DEF VerifyManifest, TypeOK
  <2> QED
    BY <1>11, <2>2, <2>3 DEF VerifyManifest
<1>12. ASSUME CheckFormats PROVE TypeOK'
  BY <1>12, <1>t, CheckTypes DEF CheckFormats, Steps
<1>13. ASSUME ValidateFiles PROVE TypeOK'
  BY <1>13, <1>t, CheckTypes DEF ValidateFiles, Steps
<1>14. ASSUME ValidateMetadata PROVE TypeOK'
  BY <1>14, <1>t, CheckTypes DEF ValidateMetadata, Steps
<1>15. ASSUME ValidateLogicalMetadata PROVE TypeOK'
  BY <1>15, <1>t, CheckTypes DEF ValidateLogicalMetadata, Steps
<1>16. ASSUME StopIfInvalid PROVE TypeOK'
  BY <1>16, <1>t DEF StopIfInvalid, TypeOK, Steps
<1>17. ASSUME CreateImportTask PROVE TypeOK'
  <2>1. result' \in Results /\ task' \in [TaskNames -> TaskOutcomes]
    BY <1>17, <1>t, ReportedTypes DEF CreateImportTask, Reported
  <2>2. pc' \in Steps
    BY <1>17 DEF CreateImportTask, SystemErrorAndReturn, Steps
  <2>3. apis' \in {"none", "submitted"} \cup Analyses
    BY <1>17 DEF CreateImportTask
  <2> QED
    BY <1>17, <1>t, <2>1, <2>2, <2>3 DEF CreateImportTask, TypeOK
<1>18. ASSUME PollAnalysis PROVE TypeOK'
  <2>1. apis' \in {"none", "submitted"} \cup Analyses
    BY <1>18, <1>t DEF PollAnalysis, TypeOK
  <2>2. CASE SystemErrorAndReturn({"analysis"})
    <3>1. pc' \in Steps
      BY <2>2 DEF SystemErrorAndReturn, Steps
    <3> QED
      BY <1>18, <1>t, <2>1, <2>2, <3>1, ReportedTypes DEF PollAnalysis, TypeOK, Reported
  <2>3. CASE RecordMetadata(NoDecision)
    <3>1. NoDecision \in Metadata /\ "premis" \in Steps
      BY DEF Metadata, Steps
    <3> QED
      BY <1>18, <1>t, <2>1, <2>3, <3>1, RecordMetadataTypes DEF PollAnalysis, TypeOK
  <2>4. CASE task' = Mark({"analysis"}, "open") /\ pc' = "request decision" /\ UNCHANGED result
    <3>1. task' \in [TaskNames -> TaskOutcomes]
      BY <1>t, <2>4, MarkFacts DEF TaskOutcomes
    <3>2. pc' \in Steps
      BY <2>4 DEF Steps
    <3> QED
      BY <1>18, <1>t, <2>1, <2>4, <3>1, <3>2 DEF PollAnalysis, TypeOK
  <2> QED
    BY <1>18, <2>2, <2>3, <2>4 DEF PollAnalysis
<1>19. ASSUME RequestDecision PROVE TypeOK'
  <2>1. pc' \in Steps
    BY <1>19 DEF RequestDecision, SystemErrorAndReturn, Steps
  <2>2. result' \in Results /\ task' \in [TaskNames -> TaskOutcomes]
    BY <1>19, <1>t, ReportedTypes DEF RequestDecision, Reported
  <2> QED
    BY <1>19, <1>t, <2>1, <2>2 DEF RequestDecision, TypeOK
<1>20. ASSUME ReceiveDecision PROVE TypeOK'
  <2>1. pc' \in Steps
    BY <1>20 DEF ReceiveDecision, RecordMetadata, SystemErrorAndReturn, Steps
  <2>2. ASSUME inbox \in {"overwrite", "append"}, RecordMetadata(inbox)
        PROVE  result' \in Results /\ task' \in [TaskNames -> TaskOutcomes]
    <3>1. inbox \in Metadata
      BY <2>2 DEF Metadata
    <3> QED
      BY <1>t, <2>2, <3>1, RecordMetadataTypes
  <2>3. result' \in Results /\ task' \in [TaskNames -> TaskOutcomes]
    BY <1>20, <1>t, <2>2, ReportedTypes DEF ReceiveDecision, Reported
  <2> QED
    BY <1>20, <1>t, <2>1, <2>3 DEF ReceiveDecision, TypeOK
<1>21. ASSUME WritePREMIS PROVE TypeOK'
  <2>1. pc' \in Steps
    BY <1>21, <1>t DEF WritePREMIS, SystemErrorAndReturn, Steps, TypeOK
  <2>2. result' \in Results /\ task' \in [TaskNames -> TaskOutcomes]
    BY <1>21, <1>t, ReportedTypes DEF WritePREMIS, Reported
  <2>3. CASE UNCHANGED premis
    BY <1>21, <1>t, <2>1, <2>2, <2>3 DEF WritePREMIS, TypeOK
  <2>4. CASE premis' = Append(premis, PremisPlan(sipType)[Len(premis) + 1])
    <3>1. Len(premis) < Len(PremisPlan(sipType)) /\ premis \in Seq(PremisEntries)
      BY <1>21, <1>t DEF WritePREMIS, Inv, PremisFollowsPlan, TypeOK
    <3>2. PremisPlan(sipType) \in Seq(PremisEntries)
      BY PlanFacts
    <3>3. PremisPlan(sipType)[Len(premis) + 1] \in PremisEntries
      <4>1. Len(premis) \in Nat /\ Len(PremisPlan(sipType)) \in Nat
        BY <3>1, <3>2, LenProperties
      <4>2. Len(premis) + 1 \in 1..Len(PremisPlan(sipType))
        BY <3>1, <4>1, NextIndex
      <4> QED
        BY <3>2, <4>2, ElementOfSeq
    <3>4. premis' \in Seq(PremisEntries)
      BY <2>4, <3>1, <3>3, AppendProperties
    <3> QED
      BY <1>21, <1>t, <2>1, <2>2, <3>4 DEF WritePREMIS, TypeOK
  <2> QED
    BY <1>21, <2>3, <2>4 DEF WritePREMIS
<1>22. ASSUME TransformSIP PROVE TypeOK'
  BY <1>22, <1>t, BuildTypes DEF TransformSIP, Steps, Layouts
<1>23. ASSUME WriteIdentifiers PROVE TypeOK'
  BY <1>23, <1>t, BuildTypes DEF WriteIdentifiers, Steps, Layouts
<1>24. ASSUME BagSIP PROVE TypeOK'
  BY <1>24, <1>t, BuildTypes DEF BagSIP, Steps, Layouts
<1>25. ASSUME CancelWorkflow PROVE TypeOK'
  BY <1>25, <1>t DEF CancelWorkflow, TypeOK
<1>26. ASSUME AnswerDecision PROVE TypeOK'
  BY <1>26, <1>t DEF AnswerDecision, TypeOK
<1>27. CASE UNCHANGED vars
  BY <1>27, <1>t DEF TypeOK, vars
<1> QED
  BY <1>1, <1>2, <1>3, <1>4, <1>5, <1>6, <1>7, <1>8, <1>9, <1>10, <1>11, <1>12, <1>13,
     <1>14, <1>15, <1>16, <1>17, <1>18, <1>19, <1>20, <1>21, <1>22, <1>23, <1>24, <1>25,
     <1>26, <1>27 DEF Next, WorkflowStep

-----------------------------------------------------------------------------
(* The checks and their gate.                                               *)

Checked == NothingSkipped /\ FailuresAreInOutcome
Rest    == GatePassed /\ PremisFollowsPlan /\ EffectsAfterGate

\* The gate looks at every check that applies, whatever the package.
LEMMA ApplicableFacts == Applicable \subseteq GateTasks /\ GateTasks \subseteq TaskNames
BY DEF Applicable, GateTasks, TaskNames

\* A step before the gate has no effects: what is said of the steps after it
\* need not be looked at.
LEMMA EarlyStep ==
  ASSUME Inv, pc \notin LateSteps \cup {"returned", "error"}, pc' \notin LateSteps,
         premis' = premis, apis' = apis,
         layout' \notin {"restructured", "identified", "bag"}
  PROVE  Rest'
<1>1. premis = <<>> /\ apis = "none"
  BY DEF Inv, EffectsAfterGate, Effects
<1>2. ~Effects'
  BY <1>1 DEF Effects
<1>3. EffectsAfterGate' /\ GatePassed'
  BY <1>2 DEF EffectsAfterGate, GatePassed
<1>4. premis' = <<>> /\ Len(premis') = 0
  BY <1>1
<1>5. Len(PremisPlan(sipType')) \in {6, 7}
  BY PlanFacts
<1>6. PremisFollowsPlan'
  <2>1. 1..Len(premis') = {} /\ Len(premis') <= Len(PremisPlan(sipType'))
    BY <1>4, <1>5
  <2>2. pc' \notin {"submit metadata", "analysis", "request decision", "decision", "premis",
                    "restructure", "identifiers", "bag"} /\ layout' # "bag"
    BY DEF LateSteps
  <2> QED
    BY <2>1, <2>2 DEF PremisFollowsPlan
<1> QED
  BY <1>3, <1>6 DEF Rest

\* A step that answers the tasks T, and puts at most these behind it.
LEMMA ReportStep ==
  ASSUME Inv, NEW T \in SUBSET TaskNames, Reported(T), Working,
         cfg' = cfg, isBag' = isBag, sipType' = sipType,
         Working' => Seen' \cap Applicable \subseteq Seen \cup T
  PROVE  Checked'
<1>0. /\ task \in [TaskNames -> TaskOutcomes]
      /\ "success" \in TaskOutcomes /\ "validation failure" \in TaskOutcomes
      /\ result \in Results
  BY DEF Inv, TypeOK, TaskOutcomes
<1>1. Applicable' = Applicable
  BY DEF Applicable, IsSIP, IsAIP
<1>2. CASE SystemErrorAndReturn(T)
  BY <1>2 DEF SystemErrorAndReturn, Checked, NothingSkipped, FailuresAreInOutcome, Working
<1>3. CASE Succeed(T)
  <2>m. /\ \A t \in T : Mark(T, "success")[t] = "success"
        /\ \A t \in TaskNames \ T : Mark(T, "success")[t] = task[t]
    BY <1>0, MarkFacts, ZenonT(60)
  <2>0. task' = Mark(T, "success") /\ result' = result
    BY <1>3 DEF Succeed
  <2>1. /\ \A t \in T : task'[t] = "success"
        /\ \A t \in TaskNames \ T : task'[t] = task[t]
        /\ result' = result
    BY <2>m, <2>0
  <2>2. NothingSkipped'
    BY <1>1, <2>1, ApplicableFacts DEF Inv, NothingSkipped
  <2>3. FailuresAreInOutcome'
    BY <2>1, ApplicableFacts DEF Inv, FailuresAreInOutcome
  <2> QED
    BY <2>2, <2>3 DEF Checked
<1>4. CASE ValidationError(T)
  <2>m. /\ \A t \in T : Mark(T, "validation failure")[t] = "validation failure"
        /\ \A t \in TaskNames \ T : Mark(T, "validation failure")[t] = task[t]
    BY <1>0, MarkFacts
  <2>0. /\ task' = Mark(T, "validation failure")
        /\ result' = [result EXCEPT !.outcome = "content error"]
    BY <1>4 DEF ValidationError
  <2>1. /\ \A t \in T : task'[t] = "validation failure"
        /\ \A t \in TaskNames \ T : task'[t] = task[t]
        /\ result'.outcome = "content error"
    <3>1. result'.outcome = "content error"
      BY <1>0, <2>0 DEF Results
    <3> QED
      BY <2>m, <2>0, <3>1
  <2>2. NothingSkipped'
    BY <1>1, <2>1, ApplicableFacts DEF Inv, NothingSkipped
  <2>3. FailuresAreInOutcome'
    BY <2>1 DEF FailuresAreInOutcome
  <2> QED
    BY <2>2, <2>3 DEF Checked
<1> QED
  BY <1>2, <1>3, <1>4 DEF Reported

\* A check of the list, with what it puts behind it.
LEMMA CheckStep ==
  ASSUME Inv, NEW here \in TaskNames, NEW next \in Steps, Check(here, next),
         here \notin LateSteps \cup {"returned", "error"}, next \notin LateSteps,
         pc' = next => Seen' \cap Applicable \subseteq Seen \cup {here}
  PROVE  Checked' /\ Rest'
<1>1. Reported({here}) /\ (pc' = next \/ pc' = "returned") /\ pc = here
  BY DEF Check, Reported, SystemErrorAndReturn
<1>2. Checked'
  BY <1>1, ReportStep DEF Check, Working
<1>3. layout' \notin {"restructured", "identified", "bag"}
  BY <1>1 DEF Inv, EffectsAfterGate, Effects, Check
<1>4. Rest'
  BY <1>1, <1>3, EarlyStep DEF Check, LateSteps
<1> QED
  BY <1>2, <1>4

\* A step after the gate leaves the outcomes of the checks alone, and goes on
\* only with a successful result.
LEMMA LateStep ==
  ASSUME Inv, pc \in LateSteps, cfg' = cfg, isBag' = isBag, sipType' = sipType,
         \A t \in GateTasks : task'[t] = task[t],
         pc' \in LateSteps \cup {"returned", "error"},
         pc' \in LateSteps => result'.outcome = "success"
  PROVE  Checked' /\ GatePassed' /\ EffectsAfterGate'
<1>1. Applicable' = Applicable
  BY DEF Applicable, IsSIP, IsAIP
<1>2. AllPassed /\ AllPassed'
  BY <1>1, ApplicableFacts DEF Inv, GatePassed, AllPassed
<1>3. Working /\ result.outcome = "success"
  BY DEF Inv, GatePassed, Working, LateSteps
<1>4. NothingSkipped'
  BY <1>2 DEF NothingSkipped, AllPassed
<1>5. FailuresAreInOutcome'
  BY <1>3 DEF Inv, FailuresAreInOutcome, Working, LateSteps
<1>6. GatePassed' /\ EffectsAfterGate'
  BY <1>2 DEF GatePassed, EffectsAfterGate
<1> QED
  BY <1>4, <1>5, <1>6 DEF Checked

\* Steps that move nothing the invariant speaks of.
LEMMA IdleStep ==
  ASSUME Inv,
         UNCHANGED <<cfg, pc, isBag, sipType, result, task, layout, premis, apis>>
  PROVE  Checked' /\ Rest'
<1>1. Applicable' = Applicable /\ Seen' = Seen /\ (Working' <=> Working)
  BY DEF Applicable, IsSIP, IsAIP, Seen, Working
<1>2. Checked'
  BY <1>1 DEF Inv, Checked, NothingSkipped, FailuresAreInOutcome
<1>3. GatePassed' /\ EffectsAfterGate'
  BY <1>1 DEF Inv, GatePassed, EffectsAfterGate, AllPassed, Effects
<1>4. PremisFollowsPlan'
  BY DEF Inv, PremisFollowsPlan
<1> QED
  BY <1>2, <1>3, <1>4 DEF Rest

-----------------------------------------------------------------------------
(* The step of the invariant.                                               *)

\* What Mark does to a single task.
LEMMA MarkOne ==
  ASSUME TypeOK, NEW n \in TaskNames
  PROVE  /\ Mark({n}, "success")[n] = "success"
         /\ \A t \in TaskNames \ {n} : Mark({n}, "success")[t] = task[t]
<1>1. {n} \in SUBSET TaskNames /\ "success" \in TaskOutcomes /\ task \in [TaskNames -> TaskOutcomes]
  BY DEF TypeOK, TaskOutcomes
<1> QED
  BY <1>1, MarkFacts

\* As long as the plan and the writing of it are left alone, so is what is said of
\* them: the step only has to lead to a place where it still fits.
LEMMA PlanKept ==
  ASSUME Inv, UNCHANGED <<sipType, premis>>, layout' = "bag" => layout = "bag" \/ pc = "bag",
         \/ pc' = "returned"
         \/ /\ pc' \in {"submit metadata", "analysis", "request decision", "decision"}
            /\ premis = <<>>
         \/ pc' = "premis" /\ premis = <<>>
         \/ pc' \in {"identifiers", "bag"} /\ pc \in {"restructure", "identifiers"}
  PROVE  PremisFollowsPlan'
<1>1. Len(PremisPlan(sipType)) \in {6, 7} /\ Len(<<>>) = 0
  BY PlanFacts
<1>2. /\ Len(premis) <= Len(PremisPlan(sipType))
      /\ \A i \in 1..Len(premis) : premis[i] = PremisPlan(sipType)[i]
      /\ pc \in {"restructure", "identifiers", "bag"} \/ layout = "bag" =>
           premis = PremisPlan(sipType)
  BY DEF Inv, PremisFollowsPlan
<1>3. PremisPlan(sipType)' = PremisPlan(sipType)
  OBVIOUS
<1>4. /\ pc' \in {"submit metadata", "analysis", "request decision", "decision"} => premis = <<>>
      /\ pc' = "premis" => premis = <<>>
      /\ pc' \in {"restructure", "identifiers", "bag"} \/ layout' = "bag" =>
           premis = PremisPlan(sipType)
  BY <1>2
<1>5. pc' = "premis" => Len(premis) < Len(PremisPlan(sipType))
  BY <1>1, <1>4
<1> QED
  BY <1>2, <1>3, <1>4, <1>5 DEF PremisFollowsPlan

\* No number is less than itself.
LEMMA LessIrreflexive == \A n \in Nat : ~(n < n)
OBVIOUS

\* Writing the next entry of a plan keeps to the plan, and completes it at the end.
LEMMA AppendNext ==
  ASSUME NEW s \in Seq(PremisEntries), NEW plan \in Seq(PremisEntries),
         Len(s) < Len(plan), \A i \in 1..Len(s) : s[i] = plan[i],
         NEW r, r = Append(s, plan[Len(s) + 1])
  PROVE  /\ Len(r) <= Len(plan)
         /\ \A i \in 1..Len(r) : r[i] = plan[i]
         /\ r # plan => Len(r) < Len(plan)
<1>1. Len(s) \in Nat /\ Len(plan) \in Nat
  BY LenProperties
<1>2. Len(s) + 1 \in 1..Len(plan)
  BY <1>1, NextIndex
<1>3. plan[Len(s) + 1] \in PremisEntries
  BY <1>2, ElementOfSeq
<1>4. /\ r \in Seq(PremisEntries) /\ Len(r) = Len(s) + 1 /\ r[Len(s) + 1] = plan[Len(s) + 1]
      /\ \A i \in 1..Len(s) : r[i] = s[i]
  BY <1>3, AppendProperties
<1>5. Len(r) <= Len(plan) /\ Len(r) \in Nat
  BY <1>1, <1>4
<1>6. ASSUME NEW i \in 1..Len(r) PROVE r[i] = plan[i]
  <2>1. i \in 1..Len(s) \/ i = Len(s) + 1
    BY <1>1, <1>4
  <2> QED
    BY <1>4, <2>1
<1>7. Len(r) = Len(plan) => r = plan
  BY <1>4, <1>6, SeqEqual
<1>8. r # plan => Len(r) < Len(plan)
  BY <1>1, <1>5, <1>7
<1> QED
  BY <1>5, <1>6, <1>8

\* Every step keeps the rest of the invariant: one case per action of Next.
LEMMA NextChecked == Inv /\ [Next]_vars => Checked' /\ Rest'
<1> SUFFICES ASSUME Inv, [Next]_vars PROVE Checked' /\ Rest'
  OBVIOUS
<1> USE Names
<1>e. pc \notin LateSteps \cup {"returned", "error"} =>
        layout \notin {"restructured", "identified", "bag"}
  BY DEF Inv, EffectsAfterGate, Effects
<1>1. ASSUME Start PROVE Checked' /\ Rest'
  <2>1. pc = "start" /\ pc' \in {"error", "checksum", "extract"}
        /\ (pc' = "extract" => ~cfg.checkDuplicates)
        /\ UNCHANGED <<cfg, isBag, sipType, task, layout, premis, apis>>
    BY <1>1 DEF Start
  <2>2. isBag' = isBag /\ result'.outcome = result.outcome
    BY <1>1 DEF Start, Inv, TypeOK, Results
  <2>3. Rest'
    BY <1>e, <2>1, EarlyStep DEF LateSteps
  <2>4. Applicable' = Applicable
    BY <2>1 DEF Applicable, IsSIP, IsAIP
  <2>5. pc' # "error" => Seen' \cap Applicable = {}
    <3>1. CASE pc' = "checksum"
      BY <3>1 DEF Seen
    <3>2. CASE pc' = "extract"
      BY <2>1, <3>2 DEF Seen, Applicable, CheckTasks, IntakeTasks, BagTasks, SIPTasks, AIPTasks
    <3> QED
      BY <2>1, <3>1, <3>2
  <2>6. NothingSkipped'
    BY <2>1, <2>4, <2>5 DEF NothingSkipped, Working
  <2>7. FailuresAreInOutcome'
    BY <2>1, <2>2 DEF Inv, FailuresAreInOutcome, Working
  <2> QED
    BY <2>3, <2>6, <2>7 DEF Checked
<1>2. ASSUME ChecksumSIP PROVE Checked' /\ Rest'
  <2>1. Reported({"checksum"}) /\ pc = "checksum" /\ pc' \in {"returned", "duplicate"}
    BY <1>2 DEF ChecksumSIP, Reported, SystemErrorAndReturn
  <2>2. Working' => Seen' \cap Applicable \subseteq Seen \cup {"checksum"}
    BY <2>1 DEF Working, Seen, Applicable, GateTasks, Bagged, Manifested, CheckTasks,
       IntakeTasks, BagTasks, SIPTasks, AIPTasks
  <2>3. Checked'
    BY <1>2, <2>1, <2>2, ReportStep DEF ChecksumSIP, Working
  <2>4. Rest'
    BY <1>2, <1>e, <2>1, EarlyStep DEF ChecksumSIP, LateSteps
  <2> QED
    BY <2>3, <2>4
<1>3. ASSUME CheckDuplicate PROVE Checked' /\ Rest'
  <2>1. Reported({"duplicate"}) /\ pc = "duplicate" /\ pc' \in {"returned", "extract"}
    BY <1>3 DEF CheckDuplicate, Reported, SystemErrorAndReturn
  <2>2. Working' => Seen' \cap Applicable \subseteq Seen \cup {"duplicate"}
    BY <2>1 DEF Working, Seen, Applicable, GateTasks, Bagged, Manifested, CheckTasks,
       IntakeTasks, BagTasks, SIPTasks, AIPTasks
  <2>3. Checked'
    BY <1>3, <2>1, <2>2, ReportStep DEF CheckDuplicate, Working
  <2>4. Rest'
    BY <1>3, <1>e, <2>1, EarlyStep DEF CheckDuplicate, LateSteps
  <2> QED
    BY <2>3, <2>4
<1>4. ASSUME ExtractSIP PROVE Checked' /\ Rest'
  <2>1. pc = "extract" /\ pc' \in {"returned", "is bag"}
    BY <1>4 DEF ExtractSIP, FailPath
  <2>2. Rest'
    BY <1>4, <1>e, <2>1, EarlyStep DEF ExtractSIP, LateSteps
  <2>3. CASE pc' = "returned"
    BY <2>2, <2>3 DEF Checked, NothingSkipped, FailuresAreInOutcome, Working
  <2>4. CASE pc' # "returned"
    <3>1. Seen' = Seen \cup {"extract"}
      BY <2>1, <2>4 DEF Seen
    <3>2. Applicable' = Applicable
      BY <1>4 DEF ExtractSIP, Applicable, IsSIP, IsAIP
    <3>3. CASE ValidationError({"extract"})
      BY <1>4, <2>1, <2>2, <3>1, <3>3, ReportStep DEF ExtractSIP, Reported, Working
    <3>4. CASE task' = Mark({"extract"}, "success")
               /\ result' = [result EXCEPT !.path = "extracted"]
      <4>1. result'.outcome = result.outcome
        BY <3>4 DEF Inv, TypeOK, Results
      <4>2. Mark({"extract"}, "success")["extract"] = "success"
            /\ \A t \in TaskNames \ {"extract"} : Mark({"extract"}, "success")[t] = task[t]
        BY MarkOne DEF Inv
      <4>3. task'["extract"] = "success" /\ \A t \in TaskNames \ {"extract"} : task'[t] = task[t]
        BY <3>4, <4>2
      <4>4. NothingSkipped'
        BY <2>1, <3>1, <3>2, <4>3, ApplicableFacts DEF Inv, NothingSkipped, Working
      <4>5. FailuresAreInOutcome'
        BY <2>1, <4>1, <4>3, ApplicableFacts DEF Inv, FailuresAreInOutcome, Working
      <4> QED
        BY <2>2, <4>4, <4>5 DEF Checked
    <3> QED
      BY <1>4, <2>4, <3>3, <3>4 DEF ExtractSIP, FailPath
  <2> QED
    BY <2>2, <2>3, <2>4
<1>5. ASSUME CheckIsBag PROVE Checked' /\ Rest'
  <2>1. pc = "is bag" /\ pc' \in {"error", "validate bag", "identify"}
        /\ UNCHANGED <<cfg, sipType, result, task, layout, premis, apis>>
        /\ (pc' = "identify" => isBag' = FALSE)
    BY <1>5 DEF CheckIsBag
  <2>2. Rest'
    BY <1>e, <2>1, EarlyStep DEF LateSteps
  <2>3. FailuresAreInOutcome'
    BY <2>1 DEF Inv, FailuresAreInOutcome, Working
  <2>4. pc' # "error" => Seen' \cap Applicable' \subseteq Seen \cap Applicable
    <3>1. CASE pc' = "validate bag"
      BY <2>1, <3>1, ZenonT(60) DEF Seen, Applicable, IsSIP, IsAIP, CheckTasks, IntakeTasks, BagTasks,
                       SIPTasks, AIPTasks
    <3>2. CASE pc' = "identify"
      BY <2>1, <3>2 DEF Seen, Bagged, Applicable, IsSIP, IsAIP, CheckTasks, IntakeTasks,
                       BagTasks, SIPTasks, AIPTasks
    <3> QED
      BY <2>1, <3>1, <3>2
  <2>5. NothingSkipped'
    BY <2>1, <2>4 DEF Inv, NothingSkipped, Working
  <2> QED
    BY <2>2, <2>3, <2>5 DEF Checked
<1>6. ASSUME ValidateBag PROVE Checked' /\ Rest'
  <2>1. Reported({"validate bag"}) /\ pc = "validate bag" /\ pc' \in {"returned", "unbag"}
    BY <1>6 DEF ValidateBag, Reported, SystemErrorAndReturn
  <2>2. Working' => Seen' \cap Applicable \subseteq Seen \cup {"validate bag"}
    BY <2>1 DEF Working, Seen, Applicable, GateTasks, Bagged, Manifested, CheckTasks,
       IntakeTasks, BagTasks, SIPTasks, AIPTasks
  <2>3. Checked'
    BY <1>6, <2>1, <2>2, ReportStep DEF ValidateBag, Working
  <2>4. Rest'
    BY <1>6, <1>e, <2>1, EarlyStep DEF ValidateBag, LateSteps
  <2> QED
    BY <2>3, <2>4
<1>7. ASSUME UnbagSIP PROVE Checked' /\ Rest'
  <2>1. pc = "unbag" /\ pc' \in {"returned", "identify"}
    BY <1>7 DEF UnbagSIP, FailPath
  <2>2. Rest'
    BY <1>7, <1>e, <2>1, EarlyStep DEF UnbagSIP, LateSteps
  <2>3. CASE pc' = "returned"
    BY <2>2, <2>3 DEF Checked, NothingSkipped, FailuresAreInOutcome, Working
  <2>4. CASE pc' # "returned"
    <3>1. Seen' = Seen \cup {"unbag"}
      BY <2>1, <2>4 DEF Seen, Bagged, BagTasks
    <3>2. Applicable' = Applicable
      BY <1>7 DEF UnbagSIP, Applicable, IsSIP, IsAIP
    <3>3. task' = Mark({"unbag"}, "success") /\ result' = [result EXCEPT !.path = localPath]
      BY <1>7, <2>4 DEF UnbagSIP, FailPath
    <3>4. result'.outcome = result.outcome
      BY <3>3 DEF Inv, TypeOK, Results
    <3>5. Mark({"unbag"}, "success")["unbag"] = "success"
          /\ \A t \in TaskNames \ {"unbag"} : Mark({"unbag"}, "success")[t] = task[t]
      BY MarkOne DEF Inv
    <3>6. task'["unbag"] = "success" /\ \A t \in TaskNames \ {"unbag"} : task'[t] = task[t]
      BY <3>3, <3>5
    <3>7. NothingSkipped'
      BY <2>1, <3>1, <3>2, <3>6, ApplicableFacts DEF Inv, NothingSkipped, Working
    <3>8. FailuresAreInOutcome'
      BY <2>1, <3>4, <3>6, ApplicableFacts DEF Inv, FailuresAreInOutcome, Working
    <3> QED
      BY <2>2, <3>7, <3>8 DEF Checked
  <2> QED
    BY <2>2, <2>3, <2>4
<1>8. ASSUME IdentifySIP PROVE Checked' /\ Rest'
  <2>1. pc = "identify" /\ pc' \in {"returned", "structure"}
    BY <1>8 DEF IdentifySIP
  <2>2. Rest'
    BY <1>8, <1>e, <2>1, EarlyStep DEF IdentifySIP, LateSteps
  <2>3. CASE pc' = "returned"
    BY <2>2, <2>3 DEF Checked, NothingSkipped, FailuresAreInOutcome, Working
  <2>4. CASE pc' # "returned"
    <3>1. Succeed({"identify"}) /\ cfg' = cfg /\ isBag' = isBag
      BY <1>8, <2>4 DEF IdentifySIP
    <3>2. Mark({"identify"}, "success")["identify"] = "success"
          /\ \A t \in TaskNames \ {"identify"} : Mark({"identify"}, "success")[t] = task[t]
      BY MarkOne DEF Inv
    <3>3. task'["identify"] = "success" /\ result' = result
          /\ \A t \in TaskNames \ {"identify"} : task'[t] = task[t]
      BY <3>1, <3>2 DEF Succeed
    <3>4. Seen' \cap Applicable' \subseteq (Seen \cap Applicable) \cup {"identify"}
      BY <2>1, <2>4, <3>1, ZenonT(60) DEF Seen, Bagged, Applicable, IsSIP, IsAIP, CheckTasks,
         IntakeTasks, BagTasks, SIPTasks, AIPTasks
    <3>5. NothingSkipped'
      BY <2>1, <3>3, <3>4, ApplicableFacts DEF Inv, NothingSkipped, Working
    <3>6. FailuresAreInOutcome'
      BY <2>1, <3>3, ApplicableFacts DEF Inv, FailuresAreInOutcome, Working
    <3> QED
      BY <2>2, <3>5, <3>6 DEF Checked
  <2> QED
    BY <2>2, <2>3, <2>4
<1>9. ASSUME ValidateStructure PROVE Checked' /\ Rest'
  <2> DEFINE next == "name"
  <2>1. Check("structure", next) /\ pc = "structure" /\ next \in Steps /\ next \notin LateSteps
        /\ cfg' = cfg /\ isBag' = isBag /\ sipType' = sipType
    BY <1>9 DEF ValidateStructure, Check, Steps, LateSteps
  <2>2. pc' = next => Seen' \cap Applicable \subseteq Seen \cup {"structure"}
    BY <2>1 DEF Seen, Applicable, GateTasks, Bagged, Manifested, CheckTasks,
       IntakeTasks, BagTasks, SIPTasks, AIPTasks, IsSIP, IsAIP
  <2>3. "structure" \in TaskNames /\ "structure" \notin LateSteps \cup {"returned", "error"}
    BY DEF LateSteps
  <2> HIDE DEF next
  <2> QED
    BY <2>1, <2>2, <2>3, CheckStep
<1>10. ASSUME ValidateSIPName PROVE Checked' /\ Rest'
  <2> DEFINE next == "manifest"
  <2>1. Check("name", next) /\ pc = "name" /\ next \in Steps /\ next \notin LateSteps
        /\ cfg' = cfg /\ isBag' = isBag /\ sipType' = sipType
    BY <1>10 DEF ValidateSIPName, Check, Steps, LateSteps
  <2>2. pc' = next => Seen' \cap Applicable \subseteq Seen \cup {"name"}
    BY <2>1 DEF Seen, Applicable, GateTasks, Bagged, Manifested, CheckTasks,
       IntakeTasks, BagTasks, SIPTasks, AIPTasks, IsSIP, IsAIP
  <2>3. "name" \in TaskNames /\ "name" \notin LateSteps \cup {"returned", "error"}
    BY DEF LateSteps
  <2> HIDE DEF next
  <2> QED
    BY <2>1, <2>2, <2>3, CheckStep
<1>11. ASSUME VerifyManifest PROVE Checked' /\ Rest'
  <2>1. pc = "manifest" /\ pc' \in {"returned", "formats", "files"}
        /\ (pc' = "files" => ~IsSIP)
    BY <1>11 DEF VerifyManifest, SystemErrorAndReturn
  <2>2. Rest'
    BY <1>11, <1>e, <2>1, EarlyStep DEF VerifyManifest, LateSteps
  <2>3. CASE pc' = "returned"
    BY <2>2, <2>3 DEF Checked, NothingSkipped, FailuresAreInOutcome, Working
  <2>4. CASE pc' # "returned"
    <3>1. PICK bad \in SUBSET {"manifest", "checksums"} :
            /\ task' = [t \in TaskNames |->
                          IF t \in bad THEN "validation failure"
                          ELSE IF t \in {"manifest", "checksums"} THEN "success"
                          ELSE task[t]]
            /\ result' = IF bad = {} THEN result
                         ELSE [result EXCEPT !.outcome = "content error"]
      BY <1>11, <2>4 DEF VerifyManifest, SystemErrorAndReturn
    <3>2. /\ task'["manifest"] # "none" /\ task'["checksums"] # "none"
          /\ \A t \in TaskNames \ {"manifest", "checksums"} : task'[t] = task[t]
      BY <3>1
    <3>3. Applicable' = Applicable
      BY <1>11 DEF VerifyManifest, Applicable, IsSIP, IsAIP
    <3>4. Seen' \cap Applicable \subseteq Seen \cup {"manifest", "checksums"}
      BY <2>1, <2>4, ZenonT(60) DEF Seen, Bagged, Manifested, Applicable, CheckTasks, IntakeTasks,
                        BagTasks, SIPTasks, AIPTasks
    <3>5. NothingSkipped'
      BY <2>1, <3>2, <3>3, <3>4, ApplicableFacts DEF Inv, NothingSkipped, Working
    <3>6. CASE bad = {}
      <4>1. result' = result /\ task'["manifest"] = "success" /\ task'["checksums"] = "success"
        BY <3>1, <3>6
      <4> QED
        BY <2>1, <2>2, <3>2, <3>5, <4>1, ApplicableFacts
        DEF Inv, Checked, FailuresAreInOutcome, Working
    <3>7. CASE bad # {}
      <4>1. result'.outcome = "content error"
        BY <3>1, <3>7 DEF Inv, TypeOK, Results
      <4> QED
        BY <2>2, <3>5, <4>1 DEF Checked, FailuresAreInOutcome
    <3> QED
      BY <3>6, <3>7
  <2> QED
    BY <2>2, <2>3, <2>4
<1>12. ASSUME CheckFormats PROVE Checked' /\ Rest'
  <2> DEFINE next == "files"
  <2>1. Check("formats", next) /\ pc = "formats" /\ next \in Steps /\ next \notin LateSteps
        /\ cfg' = cfg /\ isBag' = isBag /\ sipType' = sipType
    BY <1>12 DEF CheckFormats, Check, Steps, LateSteps
  <2>2. pc' = next => Seen' \cap Applicable \subseteq Seen \cup {"formats"}
    BY <2>1, ZenonT(60) DEF Seen, Applicable, GateTasks, Bagged, Manifested, CheckTasks,
       IntakeTasks, BagTasks, SIPTasks, AIPTasks, IsSIP, IsAIP
  <2>3. "formats" \in TaskNames /\ "formats" \notin LateSteps \cup {"returned", "error"}
    BY DEF LateSteps
  <2> HIDE DEF next
  <2> QED
    BY <2>1, <2>2, <2>3, CheckStep
<1>13. ASSUME ValidateFiles PROVE Checked' /\ Rest'
  <2> DEFINE next == "metadata"
  <2>1. Check("files", next) /\ pc = "files" /\ next \in Steps /\ next \notin LateSteps
        /\ cfg' = cfg /\ isBag' = isBag /\ sipType' = sipType
    BY <1>13 DEF ValidateFiles, Check, Steps, LateSteps
  <2>2. pc' = next => Seen' \cap Applicable \subseteq Seen \cup {"files"}
    BY <2>1 DEF Seen, Applicable, GateTasks, Bagged, Manifested, CheckTasks,
       IntakeTasks, BagTasks, SIPTasks, AIPTasks, IsSIP, IsAIP
  <2>3. "files" \in TaskNames /\ "files" \notin LateSteps \cup {"returned", "error"}
    BY DEF LateSteps
  <2> HIDE DEF next
  <2> QED
    BY <2>1, <2>2, <2>3, CheckStep
<1>14. ASSUME ValidateMetadata PROVE Checked' /\ Rest'
  <2> DEFINE next == IF IsAIP THEN "logical metadata" ELSE "gate"
  <2>1. Check("metadata", next) /\ pc = "metadata" /\ next \in Steps /\ next \notin LateSteps
        /\ cfg' = cfg /\ isBag' = isBag /\ sipType' = sipType
    BY <1>14 DEF ValidateMetadata, Check, Steps, LateSteps
  <2>2. pc' = next => Seen' \cap Applicable \subseteq Seen \cup {"metadata"}
    BY <2>1, ZenonT(60) DEF Seen, Applicable, GateTasks, Bagged, Manifested, CheckTasks,
       IntakeTasks, BagTasks, SIPTasks, AIPTasks, IsSIP, IsAIP
  <2>3. "metadata" \in TaskNames /\ "metadata" \notin LateSteps \cup {"returned", "error"}
    BY DEF LateSteps
  <2> HIDE DEF next
  <2> QED
    BY <2>1, <2>2, <2>3, CheckStep
<1>15. ASSUME ValidateLogicalMetadata PROVE Checked' /\ Rest'
  <2> DEFINE next == "gate"
  <2>1. /\ Check("logical metadata", next) /\ pc = "logical metadata"
        /\ next \in Steps /\ next \notin LateSteps
        /\ cfg' = cfg /\ isBag' = isBag /\ sipType' = sipType
    BY <1>15 DEF ValidateLogicalMetadata, Check, Steps, LateSteps
  <2>2. pc' = next => Seen' \cap Applicable \subseteq Seen \cup {"logical metadata"}
    BY <2>1 DEF Seen, Applicable, GateTasks, Bagged, Manifested, CheckTasks,
       IntakeTasks, BagTasks, SIPTasks, AIPTasks, IsSIP, IsAIP
  <2>3. /\ "logical metadata" \in TaskNames
        /\ "logical metadata" \notin LateSteps \cup {"returned", "error"}
    BY DEF LateSteps
  <2> HIDE DEF next
  <2> QED
    BY <2>1, <2>2, <2>3, CheckStep
<1>16. ASSUME StopIfInvalid PROVE Checked' /\ Rest'
  <2>1. pc = "gate" /\ pc' \in {"returned", "submit metadata", "premis"}
        /\ UNCHANGED <<cfg, isBag, sipType, result, task, layout, premis, apis>>
        /\ (pc' # "returned" => result.outcome # "content error")
    BY <1>16 DEF StopIfInvalid
  <2>2. Seen = GateTasks /\ Working /\ ~Effects /\ premis = <<>>
    BY <2>1 DEF Seen, Working, Inv, EffectsAfterGate, Effects, LateSteps
  <2>3. /\ Applicable' = Applicable /\ ~Effects'
        /\ (AllPassed' <=> AllPassed)
    BY <2>1, <2>2 DEF Applicable, IsSIP, IsAIP, Effects, AllPassed
  <2>4. CASE pc' = "returned"
    BY <2>1, <2>2, <2>3, <2>4 DEF Checked, NothingSkipped, FailuresAreInOutcome, Working,
       Rest, GatePassed, EffectsAfterGate, LateSteps, Inv, PremisFollowsPlan
  <2>5. CASE pc' # "returned"
    <3>1. result.outcome = "success"
      BY <2>1, <2>2, <2>5 DEF Inv, FailuresAreInOutcome
    <3>2. AllPassed
      BY <2>2, <3>1, ApplicableFacts DEF Inv, NothingSkipped, FailuresAreInOutcome, AllPassed
    <3>3. NothingSkipped'
      BY <2>1, <2>3, <3>2 DEF NothingSkipped, AllPassed
    <3>4. FailuresAreInOutcome'
      BY <2>1, <2>2 DEF Inv, FailuresAreInOutcome
    <3>5. GatePassed' /\ EffectsAfterGate'
      BY <2>1, <2>3, <3>1, <3>2 DEF GatePassed, EffectsAfterGate
    <3>7. PremisFollowsPlan'
      BY <2>1, <2>2, <2>5, PlanKept
    <3> QED
      BY <3>3, <3>4, <3>5, <3>7 DEF Checked, Rest
  <2> QED
    BY <2>4, <2>5
\* From here on the tasks that are answered are not the gate's.
<1>l. \A T \in SUBSET TaskNames :
        Reported(T) /\ T \cap GateTasks = {} => \A t \in GateTasks : task'[t] = task[t]
  BY ApplicableFacts DEF Reported, Succeed, ValidationError, SystemErrorAndReturn, Mark
<1>m. \A t \in {"submit metadata", "analysis", "premis", "restructure", "identifiers", "bag"} :
        {t} \cap GateTasks = {}
  BY DEF GateTasks, CheckTasks, IntakeTasks, BagTasks, SIPTasks, AIPTasks
<1>s. pc \in LateSteps => result.outcome = "success" /\ result \in Results
  BY DEF Inv, GatePassed, TypeOK
<1>17. ASSUME CreateImportTask PROVE Checked' /\ Rest'
  <2>1. Reported({"submit metadata"}) /\ pc = "submit metadata"
        /\ pc' \in {"returned", "analysis"} /\ (pc' = "analysis" => result' = result)
    BY <1>17 DEF CreateImportTask, Reported, SystemErrorAndReturn, Succeed
  <2>2. \A t \in GateTasks : task'[t] = task[t]
    BY <1>l, <1>m, <2>1
  <2>3. Checked' /\ GatePassed' /\ EffectsAfterGate'
    BY <1>17, <1>s, <2>1, <2>2, LateStep DEF CreateImportTask, LateSteps
  <2>4. PremisFollowsPlan'
    BY <1>17, <2>1, PlanKept DEF CreateImportTask, Inv, PremisFollowsPlan
  <2> QED
    BY <2>3, <2>4 DEF Rest
<1>18. ASSUME PollAnalysis PROVE Checked' /\ Rest'
  <2>1. /\ pc = "analysis" /\ pc' \in {"returned", "premis", "request decision"}
        /\ UNCHANGED <<cfg, isBag, sipType, premis, layout>>
    BY <1>18 DEF PollAnalysis, SystemErrorAndReturn, RecordMetadata
  <2>2. \A t \in GateTasks : task'[t] = task[t]
    <3>1. \E o \in TaskOutcomes : task' = Mark({"analysis"}, o)
      BY <1>18 DEF PollAnalysis, SystemErrorAndReturn, RecordMetadata, TaskOutcomes
    <3> QED
      BY <1>m, <3>1, ApplicableFacts DEF Mark
  <2>3. pc' # "returned" => result'.outcome = "success"
    BY <1>18, <1>s, <2>1 DEF PollAnalysis, SystemErrorAndReturn, RecordMetadata,
       Results, LateSteps
  <2>4. Checked' /\ GatePassed' /\ EffectsAfterGate'
    BY <2>1, <2>2, <2>3, LateStep DEF LateSteps
  <2>5. premis = <<>>
    BY <2>1 DEF Inv, PremisFollowsPlan
  <2>6. PremisFollowsPlan'
    BY <2>1, <2>5, PlanKept
  <2> QED
    BY <2>4, <2>6 DEF Rest
<1>19. ASSUME RequestDecision PROVE Checked' /\ Rest'
  <2>1. /\ pc = "request decision" /\ pc' \in {"returned", "decision"}
        /\ UNCHANGED <<cfg, isBag, sipType, premis, layout>>
    BY <1>19 DEF RequestDecision, SystemErrorAndReturn
  <2>2. \A t \in GateTasks : task'[t] = task[t]
    BY <1>19, <1>l, <1>m DEF RequestDecision, Reported
  <2>3. pc' # "returned" => result'.outcome = "success"
    BY <1>19, <1>s, <2>1 DEF RequestDecision, SystemErrorAndReturn, LateSteps
  <2>4. Checked' /\ GatePassed' /\ EffectsAfterGate'
    BY <2>1, <2>2, <2>3, LateStep DEF LateSteps
  <2>5. PremisFollowsPlan'
    <3>1. premis = <<>>
      BY <2>1 DEF Inv, PremisFollowsPlan
    <3> QED
      BY <2>1, <3>1, PlanKept
  <2> QED
    BY <2>4, <2>5 DEF Rest
<1>20. ASSUME ReceiveDecision PROVE Checked' /\ Rest'
  <2>1. /\ pc = "decision" /\ pc' \in {"returned", "premis"}
        /\ UNCHANGED <<cfg, isBag, sipType, premis, layout>>
    BY <1>20 DEF ReceiveDecision, SystemErrorAndReturn, RecordMetadata
  <2>2. \A t \in GateTasks : task'[t] = task[t]
    <3>1. \E o \in TaskOutcomes : task' = Mark({"analysis"}, o)
      BY <1>20 DEF ReceiveDecision, ValidationError, SystemErrorAndReturn, RecordMetadata,
                   TaskOutcomes
    <3> QED
      BY <1>m, <3>1, ApplicableFacts DEF Mark
  <2>3. pc' # "returned" => result'.outcome = "success"
    BY <1>20, <1>s, <2>1 DEF ReceiveDecision, SystemErrorAndReturn, RecordMetadata,
       Results, LateSteps
  <2>4. Checked' /\ GatePassed' /\ EffectsAfterGate'
    BY <2>1, <2>2, <2>3, LateStep DEF LateSteps
  <2>5. premis = <<>>
    BY <2>1 DEF Inv, PremisFollowsPlan
  <2>6. PremisFollowsPlan'
    BY <2>1, <2>5, PlanKept
  <2> QED
    BY <2>4, <2>6 DEF Rest
<1>21. ASSUME WritePREMIS PROVE Checked' /\ Rest'
  <2>1. /\ pc = "premis" /\ pc' \in {"returned", "premis", "restructure"}
        /\ UNCHANGED <<cfg, isBag, sipType, layout>>
    BY <1>21 DEF WritePREMIS, SystemErrorAndReturn
  <2>2. \A t \in GateTasks : task'[t] = task[t]
    BY <1>21, <1>l, <1>m DEF WritePREMIS, Reported
  <2>3. pc' # "returned" => result'.outcome = "success"
    BY <1>21, <1>s, <2>1 DEF WritePREMIS, SystemErrorAndReturn, Succeed, LateSteps
  <2>4. Checked' /\ GatePassed' /\ EffectsAfterGate'
    BY <2>1, <2>2, <2>3, LateStep DEF LateSteps
  <2> DEFINE plan == PremisPlan(sipType)
  <2>5. /\ premis \in Seq(PremisEntries) /\ plan \in Seq(PremisEntries)
        /\ Len(premis) < Len(plan) /\ layout # "bag"
        /\ \A i \in 1..Len(premis) : premis[i] = plan[i]
    <3>1. premis \in Seq(PremisEntries) /\ plan \in Seq(PremisEntries)
      BY PlanFacts DEF Inv, TypeOK
    <3>2. Len(premis) < Len(plan) /\ \A i \in 1..Len(premis) : premis[i] = plan[i]
      BY <2>1 DEF Inv, PremisFollowsPlan
    <3>3. layout = "bag" => premis = plan
      BY DEF Inv, PremisFollowsPlan
    <3>4. Len(plan) \in Nat
      BY <3>1, LenProperties
    <3>5. layout # "bag"
      <4>1. ~(Len(plan) < Len(plan))
        BY <3>4, LessIrreflexive
      <4> HIDE DEF plan
      <4> QED
        BY <3>2, <3>3, <4>1
    <3> QED
      BY <3>1, <3>2, <3>5
  <2>6. CASE premis' = premis /\ pc' = "returned"
    BY <2>1, <2>4, <2>6, PlanKept DEF Rest
  <2>7. CASE premis' = Append(premis, plan[Len(premis) + 1])
    <3>1. /\ Len(premis') <= Len(plan)
          /\ \A i \in 1..Len(premis') : premis'[i] = plan[i]
          /\ premis' # plan => Len(premis') < Len(plan)
      <4>1. ASSUME NEW s \in Seq(PremisEntries), NEW p \in Seq(PremisEntries),
                   Len(s) < Len(p), \A i \in 1..Len(s) : s[i] = p[i]
            PROVE  LET r == Append(s, p[Len(s) + 1]) IN
                     /\ Len(r) <= Len(p)
                     /\ \A i \in 1..Len(r) : r[i] = p[i]
                     /\ r # p => Len(r) < Len(p)
        BY <4>1, AppendNext
      <4> HIDE DEF plan
      <4>2. LET r == Append(premis, plan[Len(premis) + 1]) IN
              /\ Len(r) <= Len(plan)
              /\ \A i \in 1..Len(r) : r[i] = plan[i]
              /\ r # plan => Len(r) < Len(plan)
        BY <2>5, <4>1
      <4> QED
        BY <2>7, <4>2
    <3>7. PremisPlan(sipType)' = plan
      BY <2>1 DEF plan
    <3>8. pc' = "premis" => premis' # plan
      BY <1>21, <2>1 DEF WritePREMIS, Succeed, SystemErrorAndReturn, plan
    <3>9. pc' = "restructure" => premis' = plan
      BY <1>21, <2>1 DEF WritePREMIS, Succeed, SystemErrorAndReturn, plan
    <3> QED
      BY <2>1, <2>4, <2>5, <3>1, <3>7, <3>8, <3>9 DEF Rest, PremisFollowsPlan
  <2>8. \/ premis' = premis /\ pc' = "returned"
        \/ premis' = Append(premis, plan[Len(premis) + 1])
    BY <1>21 DEF WritePREMIS, SystemErrorAndReturn
  <2> QED
    BY <2>4, <2>6, <2>7, <2>8 DEF Rest
<1>22. ASSUME TransformSIP PROVE Checked' /\ Rest'
  <2>1. /\ pc = "restructure" /\ pc' \in {"returned", "identifiers"} /\ Reported({"restructure"})
        /\ UNCHANGED <<cfg, isBag, sipType, premis>>
        /\ pc' \in LateSteps => result' = result
    BY <1>22 DEF TransformSIP, Build, SystemErrorAndReturn, Succeed, Reported, LateSteps
  <2>2. \A t \in GateTasks : task'[t] = task[t]
    BY <1>l, <1>m, <2>1
  <2>3. Checked' /\ GatePassed' /\ EffectsAfterGate'
    BY <1>s, <2>1, <2>2, LateStep DEF LateSteps
  <2>4. PremisFollowsPlan'
    BY <1>22, <2>1, PlanKept DEF TransformSIP, Build
  <2> QED
    BY <2>3, <2>4 DEF Rest
<1>23. ASSUME WriteIdentifiers PROVE Checked' /\ Rest'
  <2>1. /\ pc = "identifiers" /\ pc' \in {"returned", "bag"} /\ Reported({"identifiers"})
        /\ UNCHANGED <<cfg, isBag, sipType, premis>>
        /\ pc' \in LateSteps => result' = result
    BY <1>23 DEF WriteIdentifiers, Build, SystemErrorAndReturn, Succeed, Reported, LateSteps
  <2>2. \A t \in GateTasks : task'[t] = task[t]
    BY <1>l, <1>m, <2>1
  <2>3. Checked' /\ GatePassed' /\ EffectsAfterGate'
    BY <1>s, <2>1, <2>2, LateStep DEF LateSteps
  <2>4. PremisFollowsPlan'
    BY <1>23, <2>1, PlanKept DEF WriteIdentifiers, Build
  <2> QED
    BY <2>3, <2>4 DEF Rest
<1>24. ASSUME BagSIP PROVE Checked' /\ Rest'
  <2>1. /\ pc = "bag" /\ pc' \in {"returned", "returned"} /\ Reported({"bag"})
        /\ UNCHANGED <<cfg, isBag, sipType, premis>>
        /\ pc' \in LateSteps => result' = result
    BY <1>24 DEF BagSIP, Build, SystemErrorAndReturn, Succeed, Reported, LateSteps
  <2>2. \A t \in GateTasks : task'[t] = task[t]
    BY <1>l, <1>m, <2>1
  <2>3. Checked' /\ GatePassed' /\ EffectsAfterGate'
    BY <1>s, <2>1, <2>2, LateStep DEF LateSteps
  <2>4. PremisFollowsPlan'
    BY <1>24, <2>1, PlanKept DEF BagSIP, Build
  <2> QED
    BY <2>3, <2>4 DEF Rest
<1>25. ASSUME CancelWorkflow PROVE Checked' /\ Rest'
  BY <1>25, IdleStep DEF CancelWorkflow
<1>26. ASSUME AnswerDecision PROVE Checked' /\ Rest'
  BY <1>26, IdleStep DEF AnswerDecision
<1>27. CASE UNCHANGED vars
  BY <1>27, IdleStep DEF vars
<1> QED
  BY <1>1, <1>2, <1>3, <1>4, <1>5, <1>6, <1>7, <1>8, <1>9, <1>10, <1>11, <1>12, <1>13,
     <1>14, <1>15, <1>16, <1>17, <1>18, <1>19, <1>20, <1>21, <1>22, <1>23, <1>24, <1>25,
     <1>26, <1>27 DEF Next, WorkflowStep

\* The invariant holds in every run.
LEMMA Invariance == Spec => []Inv
<1>1. Inv /\ [Next]_vars => Inv'
  BY NextTypeOK, NextChecked DEF Inv, Checked, Rest
<1> QED
  BY InitInv, <1>1, PTL DEF Spec

-----------------------------------------------------------------------------
(* The theorems.                                                            *)

\* The types of Preprocessing hold in every run.  This includes that premis.xml
\* only ever holds entries of the plan, which takes the whole invariant.
THEOREM TypeCorrect == Spec => []TypeOK
BY Invariance, PTL DEF Inv

\* Nothing is sent to APIS or built from a package of any type before every
\* check that applies to it has succeeded.
THEOREM EffectsNeedValidPackages == Spec => []OnlyValidPackagesHaveEffects
<1>1. Inv => OnlyValidPackagesHaveEffects
  BY DEF Inv, EffectsAfterGate, AllPassed, OnlyValidPackagesHaveEffects
<1> QED
  BY Invariance, <1>1, PTL

\* premis.xml never claims a check that was not made or has failed, and that of
\* a bagged package claims all of them.
THEOREM ClaimsAreTrue == Spec => []PremisClaimsAreTrue
<1>1. ASSUME Inv PROVE PremisClaimsAreTrue
  <2>1. ASSUME NEW e \in Entries \cap PremisEvents PROVE task[e] = "success"
    <3>1. PICK i \in 1..Len(premis) : premis[i] = e
      BY <2>1 DEF Entries
    <3>2. premis # <<>>
      BY <3>1
    <3>3. AllPassed
      BY <1>1, <3>2 DEF Inv, EffectsAfterGate, Effects
    <3>4. e = "formats" => sipType \in SIPTypes
      <4>1. PremisPlan(sipType)[i] = e /\ i \in 1..Len(PremisPlan(sipType))
        <5>1. Len(premis) \in Nat /\ Len(PremisPlan(sipType)) \in Nat
          BY <1>1, PlanFacts, LenProperties DEF Inv, TypeOK
        <5>2. Len(premis) <= Len(PremisPlan(sipType)) /\ premis[i] = PremisPlan(sipType)[i]
          BY <1>1 DEF Inv, PremisFollowsPlan
        <5> QED
          BY <3>1, <5>1, <5>2
      <4> QED
        BY <4>1, PlanFacts
    <3>5. e \in Applicable
      BY <2>1, <3>4 DEF PremisEvents, Applicable, CheckTasks, SIPTasks, IsSIP
    <3> QED
      BY <3>3, <3>5 DEF AllPassed
  <2>2. layout = "bag" => premis = PremisPlan(sipType)
    BY <1>1 DEF Inv, PremisFollowsPlan
  <2> QED
    BY <2>1, <2>2 DEF PremisClaimsAreTrue
<1> QED
  BY Invariance, <1>1, PTL

\* The first steps end the run when they fail.
FirstSteps == pc \in {"start", "checksum", "duplicate", "extract"} => result.outcome = "success"

\* It does: none of them goes on after a failure.
LEMMA FirstStepsHold == Spec => []FirstSteps
<1>1. ASSUME Init PROVE FirstSteps
  <2>1. result = [path |-> "", outcome |-> "success", metadata |-> "unset"]
    BY <1>1 DEF Init
  <2>2. result.outcome = "success"
    BY <2>1
  <2> QED
    BY <2>2 DEF FirstSteps
<1>2. ASSUME Inv, FirstSteps, [Next]_vars PROVE FirstSteps'
  <2>1. CASE Start
    BY <1>2, <2>1 DEF Start, FirstSteps, Inv, TypeOK, Results
  <2>2. CASE ChecksumSIP
    BY <1>2, <2>2 DEF ChecksumSIP, FirstSteps, Succeed, SystemErrorAndReturn
  <2>3. CASE CheckDuplicate
    BY <1>2, <2>3 DEF CheckDuplicate, FirstSteps, Succeed, SystemErrorAndReturn
  <2>4. CASE ExtractSIP \/ CheckIsBag \/ ValidateBag \/ UnbagSIP \/ IdentifySIP
    BY <2>4 DEF ExtractSIP, CheckIsBag, ValidateBag, UnbagSIP, IdentifySIP, FailPath,
       SystemErrorAndReturn, FirstSteps
  <2>5. CASE ValidateStructure \/ ValidateSIPName \/ VerifyManifest \/ CheckFormats
             \/ ValidateFiles
    BY <2>5 DEF ValidateStructure, ValidateSIPName, VerifyManifest, CheckFormats,
       ValidateFiles, Check, SystemErrorAndReturn, FirstSteps
  <2>6. CASE ValidateMetadata \/ ValidateLogicalMetadata \/ StopIfInvalid
    BY <2>6 DEF ValidateMetadata, ValidateLogicalMetadata, StopIfInvalid, Check,
       SystemErrorAndReturn, FirstSteps
  <2>7. CASE CreateImportTask \/ PollAnalysis \/ RequestDecision \/ ReceiveDecision
    BY <2>7 DEF CreateImportTask, PollAnalysis, RequestDecision, ReceiveDecision,
       RecordMetadata, SystemErrorAndReturn, FirstSteps
  <2>8. CASE WritePREMIS \/ TransformSIP \/ WriteIdentifiers \/ BagSIP
    BY <2>8 DEF WritePREMIS, TransformSIP, WriteIdentifiers, BagSIP, Build,
       SystemErrorAndReturn, FirstSteps
  <2>9. CASE CancelWorkflow \/ AnswerDecision \/ UNCHANGED vars
    BY <1>2, <2>9 DEF CancelWorkflow, AnswerDecision, vars, FirstSteps
  <2> QED
    BY <1>2, <2>1, <2>2, <2>3, <2>4, <2>5, <2>6, <2>7, <2>8, <2>9 DEF Next, WorkflowStep
<1> QED
  BY Invariance, <1>1, <1>2, PTL DEF Spec

\* A run that has failed does nothing more outside its result than to unbag.
THEOREM FailedRunsHaveNoEffect == Spec => NoEffectAfterFailure
<1> DEFINE Quiet ==
      /\ result'.outcome # "success"
      /\ UNCHANGED <<premis, apis, cfg>>
      /\ result'.metadata = result.metadata
      /\ layout' # layout => pc = "unbag"
<1>1. ASSUME Inv, FirstSteps, [Next]_vars, result.outcome # "success" PROVE Quiet
  <2>1. pc \notin LateSteps /\ pc # "extract" /\ result \in Results
    BY <1>1 DEF Inv, GatePassed, TypeOK, FirstSteps
  <2>2. ASSUME NEW T \in SUBSET TaskNames, Reported(T), UNCHANGED <<premis, apis, cfg, layout>>
        PROVE  Quiet
    BY <1>1, <2>1, <2>2 DEF Reported, Succeed, ValidationError, SystemErrorAndReturn, Results
  <2>3. ASSUME NEW here \in TaskNames, NEW next, Check(here, next) PROVE Quiet
    <3>1. Reported({here}) /\ UNCHANGED <<premis, apis, cfg, layout>>
      BY <2>3 DEF Check, Reported
    <3> QED
      BY <2>2, <3>1
  <2>4. CASE Start
    BY <1>1, <2>1, <2>4 DEF Start, Results
  <2>5. CASE ChecksumSIP \/ CheckDuplicate \/ ValidateBag \/ IdentifySIP
    <3>1. UNCHANGED <<premis, apis, cfg, layout>>
      BY <2>5 DEF ChecksumSIP, CheckDuplicate, ValidateBag, IdentifySIP
    <3>2. \E T \in SUBSET TaskNames : Reported(T)
      BY <2>5, Names DEF ChecksumSIP, CheckDuplicate, ValidateBag, IdentifySIP, Reported
    <3> QED
      BY <2>2, <3>1, <3>2
  <2>6. CASE CheckIsBag \/ StopIfInvalid \/ CancelWorkflow \/ AnswerDecision \/ UNCHANGED vars
    BY <1>1, <2>6 DEF CheckIsBag, StopIfInvalid, CancelWorkflow, AnswerDecision, vars
  <2>7. CASE UnbagSIP
    <3>1. /\ result'.outcome \in {"system error", result.outcome}
          /\ result'.metadata = result.metadata
      BY <2>1, <2>7 DEF UnbagSIP, FailPath, Results
    <3> QED
      BY <1>1, <2>7, <3>1 DEF UnbagSIP
  <2>8. CASE ValidateStructure \/ ValidateSIPName \/ CheckFormats \/ ValidateFiles
             \/ ValidateMetadata \/ ValidateLogicalMetadata
    BY <2>3, <2>8, Names DEF ValidateStructure, ValidateSIPName, CheckFormats, ValidateFiles,
       ValidateMetadata, ValidateLogicalMetadata
  <2>9. CASE VerifyManifest
    BY <1>1, <2>1, <2>9 DEF VerifyManifest, SystemErrorAndReturn, Results
  <2>10. CASE ExtractSIP
    BY <2>1, <2>10 DEF ExtractSIP
  <2>11. CASE CreateImportTask \/ PollAnalysis \/ RequestDecision \/ ReceiveDecision
    BY <2>1, <2>11 DEF CreateImportTask, PollAnalysis, RequestDecision, ReceiveDecision,
       LateSteps
  <2>12. CASE WritePREMIS \/ TransformSIP \/ WriteIdentifiers \/ BagSIP
    BY <2>1, <2>12 DEF WritePREMIS, TransformSIP, WriteIdentifiers, BagSIP, Build, LateSteps
  <2> QED
    BY <1>1, <2>4, <2>5, <2>6, <2>7, <2>8, <2>9, <2>10, <2>11, <2>12 DEF Next, WorkflowStep
<1>2. Inv /\ FirstSteps /\ [Next]_vars =>
        [result.outcome # "success" =>
           /\ result'.outcome # "success"
           /\ UNCHANGED <<premis, apis, cfg>>
           /\ result'.metadata = result.metadata
           /\ layout' # layout => pc = "unbag"]_vars
  BY <1>1
<1> QED
  BY Invariance, FirstStepsHold, <1>2, PTL DEF Spec, NoEffectAfterFailure

-----------------------------------------------------------------------------
(* Progress.                                                                *)

\* What follows what in Execute.
LEMMA Follows ==
  /\ Ahead(Course, "start", "checksum") /\ Ahead(Course, "start", "extract")
  /\ Ahead(Course, "start", "error") /\ Ahead(Course, "checksum", "duplicate")
  /\ Ahead(Course, "checksum", "returned") /\ Ahead(Course, "duplicate", "extract")
  /\ Ahead(Course, "duplicate", "returned") /\ Ahead(Course, "extract", "is bag")
  /\ Ahead(Course, "extract", "returned") /\ Ahead(Course, "is bag", "validate bag")
  /\ Ahead(Course, "is bag", "identify") /\ Ahead(Course, "is bag", "error")
  /\ Ahead(Course, "validate bag", "unbag") /\ Ahead(Course, "validate bag", "returned")
  /\ Ahead(Course, "unbag", "identify") /\ Ahead(Course, "unbag", "returned")
  /\ Ahead(Course, "identify", "structure") /\ Ahead(Course, "identify", "returned")
  /\ Ahead(Course, "structure", "name") /\ Ahead(Course, "structure", "returned")
  /\ Ahead(Course, "name", "manifest") /\ Ahead(Course, "name", "returned")
  /\ Ahead(Course, "manifest", "formats") /\ Ahead(Course, "manifest", "files")
  /\ Ahead(Course, "manifest", "returned") /\ Ahead(Course, "formats", "files")
  /\ Ahead(Course, "formats", "returned") /\ Ahead(Course, "files", "metadata")
  /\ Ahead(Course, "files", "returned") /\ Ahead(Course, "metadata", "logical metadata")
  /\ Ahead(Course, "metadata", "gate") /\ Ahead(Course, "metadata", "returned")
  /\ Ahead(Course, "logical metadata", "gate") /\ Ahead(Course, "logical metadata", "returned")
  /\ Ahead(Course, "gate", "submit metadata") /\ Ahead(Course, "gate", "premis")
  /\ Ahead(Course, "gate", "returned") /\ Ahead(Course, "submit metadata", "analysis")
  /\ Ahead(Course, "submit metadata", "returned") /\ Ahead(Course, "analysis", "premis")
  /\ Ahead(Course, "analysis", "request decision") /\ Ahead(Course, "analysis", "returned")
  /\ Ahead(Course, "request decision", "decision") /\ Ahead(Course, "request decision", "returned")
  /\ Ahead(Course, "decision", "premis") /\ Ahead(Course, "decision", "returned")
  /\ Ahead(Course, "premis", "restructure") /\ Ahead(Course, "premis", "returned")
  /\ Ahead(Course, "restructure", "identifiers") /\ Ahead(Course, "restructure", "returned")
  /\ Ahead(Course, "identifiers", "bag") /\ Ahead(Course, "identifiers", "returned")
  /\ Ahead(Course, "bag", "returned")
<1>1. DOMAIN Course = 1..26
  BY DEF Course
<1>2. \A i, j \in 1..26 : \A a, b :
        i < j /\ Course[i] = a /\ Course[j] = b => Ahead(Course, a, b)
  BY <1>1 DEF Ahead
<1>3. /\ Ahead(Course, "start", "checksum") /\ Ahead(Course, "start", "extract")
      /\ Ahead(Course, "start", "error") /\ Ahead(Course, "checksum", "duplicate")
      /\ Ahead(Course, "checksum", "returned") /\ Ahead(Course, "duplicate", "extract")
      /\ Ahead(Course, "duplicate", "returned")
  <2>1. /\ Course[1] = "start" /\ Course[2] = "checksum" /\ Course[3] = "duplicate"
        /\ Course[4] = "extract" /\ Course[25] = "returned" /\ Course[26] = "error"
    BY SMT DEF Course
  <2>2. /\ \A a, b : Course[1] = a /\ Course[2] = b => Ahead(Course, a, b)
        /\ \A a, b : Course[1] = a /\ Course[4] = b => Ahead(Course, a, b)
        /\ \A a, b : Course[1] = a /\ Course[26] = b => Ahead(Course, a, b)
        /\ \A a, b : Course[2] = a /\ Course[3] = b => Ahead(Course, a, b)
        /\ \A a, b : Course[2] = a /\ Course[25] = b => Ahead(Course, a, b)
        /\ \A a, b : Course[3] = a /\ Course[4] = b => Ahead(Course, a, b)
        /\ \A a, b : Course[3] = a /\ Course[25] = b => Ahead(Course, a, b)
    BY <1>2
  <2> QED
    BY <2>1, <2>2
<1>4. /\ Ahead(Course, "extract", "is bag") /\ Ahead(Course, "extract", "returned")
      /\ Ahead(Course, "is bag", "validate bag") /\ Ahead(Course, "is bag", "identify")
      /\ Ahead(Course, "is bag", "error") /\ Ahead(Course, "validate bag", "unbag")
      /\ Ahead(Course, "validate bag", "returned")
  <2>1. /\ Course[4] = "extract" /\ Course[5] = "is bag" /\ Course[6] = "validate bag"
        /\ Course[7] = "unbag" /\ Course[8] = "identify" /\ Course[25] = "returned"
        /\ Course[26] = "error"
    BY SMT DEF Course
  <2>2. /\ \A a, b : Course[4] = a /\ Course[5] = b => Ahead(Course, a, b)
        /\ \A a, b : Course[4] = a /\ Course[25] = b => Ahead(Course, a, b)
        /\ \A a, b : Course[5] = a /\ Course[6] = b => Ahead(Course, a, b)
        /\ \A a, b : Course[5] = a /\ Course[8] = b => Ahead(Course, a, b)
        /\ \A a, b : Course[5] = a /\ Course[26] = b => Ahead(Course, a, b)
        /\ \A a, b : Course[6] = a /\ Course[7] = b => Ahead(Course, a, b)
        /\ \A a, b : Course[6] = a /\ Course[25] = b => Ahead(Course, a, b)
    BY <1>2
  <2> QED
    BY <2>1, <2>2
<1>5. /\ Ahead(Course, "unbag", "identify") /\ Ahead(Course, "unbag", "returned")
      /\ Ahead(Course, "identify", "structure") /\ Ahead(Course, "identify", "returned")
      /\ Ahead(Course, "structure", "name") /\ Ahead(Course, "structure", "returned")
  <2>1. /\ Course[7] = "unbag" /\ Course[8] = "identify" /\ Course[9] = "structure"
        /\ Course[10] = "name" /\ Course[25] = "returned"
    BY SMT DEF Course
  <2>2. /\ \A a, b : Course[7] = a /\ Course[8] = b => Ahead(Course, a, b)
        /\ \A a, b : Course[7] = a /\ Course[25] = b => Ahead(Course, a, b)
        /\ \A a, b : Course[8] = a /\ Course[9] = b => Ahead(Course, a, b)
        /\ \A a, b : Course[8] = a /\ Course[25] = b => Ahead(Course, a, b)
        /\ \A a, b : Course[9] = a /\ Course[10] = b => Ahead(Course, a, b)
        /\ \A a, b : Course[9] = a /\ Course[25] = b => Ahead(Course, a, b)
    BY <1>2
  <2> QED
    BY <2>1, <2>2
<1>6. /\ Ahead(Course, "name", "manifest") /\ Ahead(Course, "name", "returned")
      /\ Ahead(Course, "manifest", "formats") /\ Ahead(Course, "manifest", "files")
      /\ Ahead(Course, "manifest", "returned") /\ Ahead(Course, "formats", "files")
      /\ Ahead(Course, "formats", "returned")
  <2>1. /\ Course[10] = "name" /\ Course[11] = "manifest" /\ Course[12] = "formats"
        /\ Course[13] = "files" /\ Course[25] = "returned"
    BY SMT DEF Course
  <2>2. /\ \A a, b : Course[10] = a /\ Course[11] = b => Ahead(Course, a, b)
        /\ \A a, b : Course[10] = a /\ Course[25] = b => Ahead(Course, a, b)
        /\ \A a, b : Course[11] = a /\ Course[12] = b => Ahead(Course, a, b)
        /\ \A a, b : Course[11] = a /\ Course[13] = b => Ahead(Course, a, b)
        /\ \A a, b : Course[11] = a /\ Course[25] = b => Ahead(Course, a, b)
        /\ \A a, b : Course[12] = a /\ Course[13] = b => Ahead(Course, a, b)
        /\ \A a, b : Course[12] = a /\ Course[25] = b => Ahead(Course, a, b)
    BY <1>2
  <2> QED
    BY <2>1, <2>2
<1>7. /\ Ahead(Course, "files", "metadata") /\ Ahead(Course, "files", "returned")
      /\ Ahead(Course, "metadata", "logical metadata") /\ Ahead(Course, "metadata", "gate")
      /\ Ahead(Course, "metadata", "returned") /\ Ahead(Course, "logical metadata", "gate")
      /\ Ahead(Course, "logical metadata", "returned")
  <2>1. /\ Course[13] = "files" /\ Course[14] = "metadata" /\ Course[15] = "logical metadata"
        /\ Course[16] = "gate" /\ Course[25] = "returned"
    BY SMT DEF Course
  <2>2. /\ \A a, b : Course[13] = a /\ Course[14] = b => Ahead(Course, a, b)
        /\ \A a, b : Course[13] = a /\ Course[25] = b => Ahead(Course, a, b)
        /\ \A a, b : Course[14] = a /\ Course[15] = b => Ahead(Course, a, b)
        /\ \A a, b : Course[14] = a /\ Course[16] = b => Ahead(Course, a, b)
        /\ \A a, b : Course[14] = a /\ Course[25] = b => Ahead(Course, a, b)
        /\ \A a, b : Course[15] = a /\ Course[16] = b => Ahead(Course, a, b)
        /\ \A a, b : Course[15] = a /\ Course[25] = b => Ahead(Course, a, b)
    BY <1>2
  <2> QED
    BY <2>1, <2>2
<1>8. /\ Ahead(Course, "gate", "submit metadata") /\ Ahead(Course, "gate", "premis")
      /\ Ahead(Course, "gate", "returned") /\ Ahead(Course, "submit metadata", "analysis")
      /\ Ahead(Course, "submit metadata", "returned") /\ Ahead(Course, "analysis", "premis")
      /\ Ahead(Course, "analysis", "request decision") /\ Ahead(Course, "analysis", "returned")
  <2>1. /\ Course[16] = "gate" /\ Course[17] = "submit metadata" /\ Course[18] = "analysis"
        /\ Course[19] = "request decision" /\ Course[21] = "premis" /\ Course[25] = "returned"
    BY SMT DEF Course
  <2>2. /\ \A a, b : Course[16] = a /\ Course[17] = b => Ahead(Course, a, b)
        /\ \A a, b : Course[16] = a /\ Course[21] = b => Ahead(Course, a, b)
        /\ \A a, b : Course[16] = a /\ Course[25] = b => Ahead(Course, a, b)
        /\ \A a, b : Course[17] = a /\ Course[18] = b => Ahead(Course, a, b)
        /\ \A a, b : Course[17] = a /\ Course[25] = b => Ahead(Course, a, b)
        /\ \A a, b : Course[18] = a /\ Course[21] = b => Ahead(Course, a, b)
        /\ \A a, b : Course[18] = a /\ Course[19] = b => Ahead(Course, a, b)
        /\ \A a, b : Course[18] = a /\ Course[25] = b => Ahead(Course, a, b)
    BY <1>2
  <2> QED
    BY <2>1, <2>2
<1>9. /\ Ahead(Course, "request decision", "decision") /\ Ahead(Course, "request decision", "returned")
      /\ Ahead(Course, "decision", "premis") /\ Ahead(Course, "decision", "returned")
      /\ Ahead(Course, "premis", "restructure") /\ Ahead(Course, "premis", "returned")
  <2>1. /\ Course[19] = "request decision" /\ Course[20] = "decision" /\ Course[21] = "premis"
        /\ Course[22] = "restructure" /\ Course[25] = "returned"
    BY SMT DEF Course
  <2>2. /\ \A a, b : Course[19] = a /\ Course[20] = b => Ahead(Course, a, b)
        /\ \A a, b : Course[19] = a /\ Course[25] = b => Ahead(Course, a, b)
        /\ \A a, b : Course[20] = a /\ Course[21] = b => Ahead(Course, a, b)
        /\ \A a, b : Course[20] = a /\ Course[25] = b => Ahead(Course, a, b)
        /\ \A a, b : Course[21] = a /\ Course[22] = b => Ahead(Course, a, b)
        /\ \A a, b : Course[21] = a /\ Course[25] = b => Ahead(Course, a, b)
    BY <1>2
  <2> QED
    BY <2>1, <2>2
<1>10. /\ Ahead(Course, "restructure", "identifiers") /\ Ahead(Course, "restructure", "returned")
      /\ Ahead(Course, "identifiers", "bag") /\ Ahead(Course, "identifiers", "returned")
      /\ Ahead(Course, "bag", "returned")
  <2>1. /\ Course[22] = "restructure" /\ Course[23] = "identifiers" /\ Course[24] = "bag"
        /\ Course[25] = "returned"
    BY SMT DEF Course
  <2>2. /\ \A a, b : Course[22] = a /\ Course[23] = b => Ahead(Course, a, b)
        /\ \A a, b : Course[22] = a /\ Course[25] = b => Ahead(Course, a, b)
        /\ \A a, b : Course[23] = a /\ Course[24] = b => Ahead(Course, a, b)
        /\ \A a, b : Course[23] = a /\ Course[25] = b => Ahead(Course, a, b)
        /\ \A a, b : Course[24] = a /\ Course[25] = b => Ahead(Course, a, b)
    BY <1>2
  <2> QED
    BY <2>1, <2>2
<1> QED
  BY <1>3, <1>4, <1>5, <1>6, <1>7, <1>8, <1>9, <1>10

\* Another entry of premis.xml, or another step.
Moved ==
  \/ Ahead(Course, pc, pc')
  \/ /\ pc = "premis" /\ pc' = "premis"
     /\ Len(premis) < Len(premis') /\ Len(premis') < Len(PremisPlan(sipType))

\* A check leads to the next step that applies, or back to the parent.
LEMMA CheckMovesOn ==
  ASSUME NEW here, NEW next, Check(here, next),
         Ahead(Course, here, next), Ahead(Course, here, "returned")
  PROVE  Moved
BY DEF Check, SystemErrorAndReturn, Moved

\* So does a step that builds the package.
LEMMA BuildMovesOn ==
  ASSUME NEW here, NEW next, NEW built, Build(here, next, built),
         Ahead(Course, here, next), Ahead(Course, here, "returned")
  PROVE  Moved
BY DEF Build, SystemErrorAndReturn, Moved

\* An entry of premis.xml is one of the plan's, and the last one ends the writing.
LEMMA PremisMovesOn ==
  ASSUME Inv, Inv', WritePREMIS
  PROVE  Moved
<1>1. pc = "premis"
  BY DEF WritePREMIS
<1>2. CASE pc' = "premis"
  <2>1. premis' = Append(premis, PremisPlan(sipType)[Len(premis) + 1])
    BY <1>2 DEF WritePREMIS, SystemErrorAndReturn
  <2>2. /\ premis \in Seq(PremisEntries) /\ PremisPlan(sipType) \in Seq(PremisEntries)
        /\ Len(premis) < Len(PremisPlan(sipType))
    BY <1>1, PlanFacts DEF Inv, TypeOK, PremisFollowsPlan
  <2>3. Len(premis) \in Nat /\ Len(PremisPlan(sipType)) \in Nat
    BY <2>2, LenProperties
  <2>4. PremisPlan(sipType)[Len(premis) + 1] \in PremisEntries
    BY <2>2, <2>3, NextIndex, ElementOfSeq
  <2>5. Len(premis') = Len(premis) + 1
    BY <2>1, <2>2, <2>4, AppendProperties
  <2>6. PremisPlan(sipType)' = PremisPlan(sipType)
    BY DEF WritePREMIS
  <2>7. Len(premis') < Len(PremisPlan(sipType))
    BY <1>2, <2>6 DEF Inv, PremisFollowsPlan
  <2> QED
    BY <1>1, <1>2, <2>3, <2>5, <2>7 DEF Moved
<1>3. CASE pc' # "premis"
  BY <1>1, <1>3, Follows DEF WritePREMIS, SystemErrorAndReturn, Moved
<1> QED
  BY <1>2, <1>3

\* Every step of the workflow leads on.
LEMMA StepMovesOn ==
  ASSUME Inv, Inv', WorkflowStep
  PROVE  Moved
<1>1. CASE Start
  BY <1>1, Follows DEF Start, Moved
<1>2. CASE ChecksumSIP
  BY <1>2, Follows DEF ChecksumSIP, SystemErrorAndReturn, Moved
<1>3. CASE CheckDuplicate
  BY <1>3, Follows DEF CheckDuplicate, SystemErrorAndReturn, Moved
<1>4. CASE ExtractSIP
  BY <1>4, Follows DEF ExtractSIP, FailPath, Moved
<1>5. CASE CheckIsBag
  BY <1>5, Follows DEF CheckIsBag, Moved
<1>6. CASE ValidateBag
  BY <1>6, Follows DEF ValidateBag, SystemErrorAndReturn, Moved
<1>7. CASE UnbagSIP
  BY <1>7, Follows DEF UnbagSIP, FailPath, Moved
<1>8. CASE IdentifySIP
  BY <1>8, Follows DEF IdentifySIP, SystemErrorAndReturn, Moved
<1>9. CASE ValidateStructure
  BY <1>9, Follows, CheckMovesOn DEF ValidateStructure
<1>10. CASE ValidateSIPName
  BY <1>10, Follows, CheckMovesOn DEF ValidateSIPName
<1>11. CASE VerifyManifest
  BY <1>11, Follows DEF VerifyManifest, SystemErrorAndReturn, Moved
<1>12. CASE CheckFormats
  BY <1>12, Follows, CheckMovesOn DEF CheckFormats
<1>13. CASE ValidateFiles
  BY <1>13, Follows, CheckMovesOn DEF ValidateFiles
<1>14. CASE ValidateMetadata
  <2>1. Ahead(Course, "metadata", IF IsAIP THEN "logical metadata" ELSE "gate")
    BY Follows
  <2> QED
    BY <1>14, <2>1, Follows, CheckMovesOn DEF ValidateMetadata
<1>15. CASE ValidateLogicalMetadata
  BY <1>15, Follows, CheckMovesOn DEF ValidateLogicalMetadata
<1>16. CASE StopIfInvalid
  BY <1>16, Follows DEF StopIfInvalid, Moved
<1>17. CASE CreateImportTask
  BY <1>17, Follows DEF CreateImportTask, SystemErrorAndReturn, Moved
<1>18. CASE PollAnalysis
  BY <1>18, Follows DEF PollAnalysis, SystemErrorAndReturn, RecordMetadata, Moved
<1>19. CASE RequestDecision
  BY <1>19, Follows DEF RequestDecision, SystemErrorAndReturn, Moved
<1>20. CASE ReceiveDecision
  BY <1>20, Follows DEF ReceiveDecision, SystemErrorAndReturn, RecordMetadata, Moved
<1>21. CASE TransformSIP
  BY <1>21, Follows, BuildMovesOn DEF TransformSIP
<1>22. CASE WriteIdentifiers
  BY <1>22, Follows, BuildMovesOn DEF WriteIdentifiers
<1>23. CASE BagSIP
  BY <1>23, Follows, BuildMovesOn DEF BagSIP
<1> QED
  BY <1>1, <1>2, <1>3, <1>4, <1>5, <1>6, <1>7, <1>8, <1>9, <1>10, <1>11, <1>12,
     <1>13, <1>14, <1>15, <1>16, <1>17, <1>18, <1>19, <1>20, <1>21, <1>22, <1>23, PremisMovesOn DEF WorkflowStep

\* No run takes a step twice, whatever types of package there are: it has at most as many
\* steps as the course has, and one more for each entry of premis.xml after the first.
THEOREM RunsAlwaysMoveOn == Spec => RunMovesOn
<1>1. Inv /\ Inv' => (WorkflowStep => Moved)
  BY StepMovesOn
<1> QED
  BY Invariance, <1>1, PTL DEF RunMovesOn, Moved
=============================================================================
