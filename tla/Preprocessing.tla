---------------------------- MODULE Preprocessing ----------------------------
(***************************************************************************)
(* The preprocessing child workflow (internal/workflows/preprocessing.go): *)
(* Execute, createAPISImportTask, waitForAPISDecision, extractSIP and      *)
(* writePREMISFile, as one process.  A step is one activity (or signal) of *)
(* the workflow together with the code that handles its answer, up to the  *)
(* next blocking call: Temporal runs that code without interruption, and a *)
(* worker crash replays it to the same state.                              *)
(*                                                                         *)
(* What an activity computes is abstracted to the answers Execute tells    *)
(* apart; retries inside an activity are in ApisIngest, DuplicateCheck.    *)
(***************************************************************************)
EXTENDS Naturals, Sequences

CONSTANTS
  SIPTypes,   \* the SIP types: BornDigitalSIP, DigitizedSIP
  AIPTypes    \* the migration AIP types: BornDigitalAIP, DigitizedAIP

ASSUME TypesDisjoint == SIPTypes \cap AIPTypes = {}

VARIABLES
  cfg,        \* the configuration Execute reads, and whether there is a parent
  pc,         \* the step Execute takes next
  canceled,   \* the workflow context is canceled
  isBag,      \* isBag.IsBag
  sipType,    \* sip.Type, once identified
  localPath,  \* localPath: the submitted archive or its extraction directory
  result,     \* the PreprocessingResult: path, outcome and custom metadata
  task,       \* the outcome of each task of the result
  layout,     \* what stands on the shared disk
  premis,     \* what premis.xml records, in the order it was written
  apis,       \* the APIS import task: not submitted, or the analysis result
  inbox       \* the DecisionResponse signal the parent sent

vars == <<cfg, pc, canceled, isBag, sipType, localPath, result, task, layout,
          premis, apis, inbox>>

Types == SIPTypes \cup AIPTypes
IsSIP == sipType \in SIPTypes
IsAIP == sipType \in AIPTypes

\* The tasks Execute may add to its result, by the step that adds them.
IntakeTasks == {"checksum", "duplicate"}
BagTasks    == {"validate bag", "unbag"}
SIPTasks    == {"formats"}
AIPTasks    == {"logical metadata"}
CheckTasks  == {"extract", "identify", "structure", "name", "manifest",
                "checksums", "files", "metadata"}
ApisTasks   == {"submit metadata", "analysis"}
BuildTasks  == {"premis", "restructure", "identifiers", "bag"}
TaskNames   == IntakeTasks \cup BagTasks \cup SIPTasks \cup AIPTasks
                 \cup CheckTasks \cup ApisTasks \cup BuildTasks

\* The checks a SIP must pass before anything is built from it.
Applicable ==
  CheckTasks \cup (IF cfg.checkDuplicates THEN IntakeTasks ELSE {})
             \cup (IF isBag THEN BagTasks ELSE {})
             \cup (IF IsSIP THEN SIPTasks ELSE {})
             \cup (IF IsAIP THEN AIPTasks ELSE {})

Options   == {"cancel", "overwrite", "append"}   \* DecisionRequest.Options
Analyses  == {"AlleNeu", "AlleGleich", "Konflikte", "Fehler"}
NoDecision == ""                                 \* CustomMetadata.Decision unset
Outcomes  == {"success", "content error", "system error"}

\* Mutant: the disallowed-format event is written for every type.
PremisPlanAlwaysFormats(t) ==
  <<"objects", "structure", "name", "formats", "files", "metadata", "agent">>

\* The entries writePREMISFile adds, in order, for a package of type t.
PremisPlan(t) ==
  IF t \in SIPTypes
  THEN <<"objects", "structure", "name", "formats", "files", "metadata", "agent">>
  ELSE <<"objects", "structure", "name", "files", "metadata", "agent">>

\* The entries of premis.xml that are events claiming a check succeeded.
PremisEvents == {"structure", "name", "formats", "files", "metadata"}

Working == pc \notin {"returned", "error"}

\* The steps are named after the tasks where there is one.
Steps == {"start", "checksum", "duplicate", "extract", "is bag", "validate bag", "unbag",
          "identify", "structure", "name", "manifest", "formats", "files", "metadata",
          "logical metadata", "gate", "submit metadata", "analysis", "request decision",
          "decision", "premis", "restructure", "identifiers", "bag", "returned", "error"}

Configs      == [checkDuplicates: BOOLEAN, apis: BOOLEAN, parent: BOOLEAN]
Paths        == {"submission", "extracted", ""}
Metadata     == {"unset", NoDecision, "overwrite", "append"}
Results      == [path: Paths, outcome: Outcomes, metadata: Metadata]
TaskOutcomes == {"none", "open", "success", "validation failure", "system failure"}
Layouts      == {"submitted", "extracted", "unbagged", "partial", "restructured",
                 "identified", "bag"}
PremisEntries == PremisEvents \cup {"objects", "agent"}

TypeOK ==
  /\ cfg \in Configs
  /\ pc \in Steps
  /\ canceled \in BOOLEAN
  /\ isBag \in BOOLEAN
  /\ sipType \in Types \cup {"unknown"}
  /\ localPath \in Paths
  /\ result \in Results
  /\ task \in [TaskNames -> TaskOutcomes]
  /\ layout \in Layouts
  /\ premis \in Seq(PremisEntries)
  /\ apis \in {"none", "submitted"} \cup Analyses
  /\ inbox \in {"none", "unsupported"} \cup Options

Init ==
  /\ cfg \in Configs
  /\ pc = "start"
  /\ canceled = FALSE
  /\ isBag = FALSE
  /\ sipType = "unknown"
  /\ localPath = ""
  /\ result = [path |-> "", outcome |-> "success", metadata |-> "unset"]
  /\ task = [t \in TaskNames |-> "none"]
  /\ layout = "submitted"
  /\ premis = <<>>
  /\ apis = "none"
  /\ inbox = "none"

-----------------------------------------------------------------------------
(* childwf: what NewTask, Succeed, ValidationError and SystemError do.      *)

Mark(T, o) == [t \in TaskNames |-> IF t \in T THEN o ELSE task[t]]

Succeed(T) ==
  /\ task' = Mark(T, "success")
  /\ UNCHANGED result

ValidationError(T) ==
  /\ task' = Mark(T, "validation failure")
  /\ result' = [result EXCEPT !.outcome = "content error"]

\* Every SystemError of Execute is followed by "return result, nil".
SystemErrorAndReturn(T) ==
  /\ task' = Mark(T, "system failure")
  /\ result' = [result EXCEPT !.outcome = "system error"]
  /\ pc' = "returned"

\* As above, where the error may also be filepath.Rel's, which returns "".
FailPath(t) ==
  /\ task' = Mark({t}, "system failure")
  /\ \E p \in {result.path, ""} :
       result' = [result EXCEPT !.path = p, !.outcome = "system error"]
  /\ pc' = "returned"

\* A canceled context fails every activity and signal Execute waits on.
MayAnswer == ~canceled

-----------------------------------------------------------------------------
(* Execute, up to the checks.                                               *)

Start ==
  /\ pc = "start"
  /\ \/ /\ pc' = "error"                  \* nil parameters or an empty path
        /\ UNCHANGED <<result, localPath>>
     \/ /\ pc' = IF cfg.checkDuplicates THEN "checksum" ELSE "extract"
        /\ result' = [result EXCEPT !.path = "submission"]
        /\ localPath' = "submission"
  /\ UNCHANGED <<cfg, canceled, isBag, sipType, task, layout, premis, apis, inbox>>

ChecksumSIP ==
  /\ pc = "checksum"
  /\ \/ SystemErrorAndReturn({"checksum"})
     \/ MayAnswer /\ Succeed({"checksum"}) /\ pc' = "duplicate"
  /\ UNCHANGED <<cfg, canceled, isBag, sipType, localPath, layout, premis, apis, inbox>>

CheckDuplicate ==
  /\ pc = "duplicate"
  /\ \/ SystemErrorAndReturn({"duplicate"})
     \/ MayAnswer /\ ValidationError({"duplicate"}) /\ pc' = "returned"
     \/ MayAnswer /\ Succeed({"duplicate"}) /\ pc' = "extract"
  /\ UNCHANGED <<cfg, canceled, isBag, sipType, localPath, layout, premis, apis, inbox>>

\* A directory of the wrong name is a content error, but the run goes on with
\* it and the result keeps the path of the submission.
ExtractSIP ==
  /\ pc = "extract"
  /\ \/ /\ FailPath("extract")
        /\ localPath' = ""
        /\ layout' \in {layout, "partial", "extracted"}
     \/ /\ MayAnswer
        /\ ValidationError({"extract"})
        /\ localPath' = "extracted"
        /\ layout' = "extracted"
        /\ pc' = "is bag"
     \/ /\ MayAnswer
        /\ task' = Mark({"extract"}, "success")
        /\ result' = [result EXCEPT !.path = "extracted"]
        /\ localPath' = "extracted"
        /\ layout' = "extracted"
        /\ pc' = "is bag"
  /\ UNCHANGED <<cfg, canceled, isBag, sipType, premis, apis, inbox>>

\* An error of this local activity is the only one that fails the workflow.
CheckIsBag ==
  /\ pc = "is bag"
  /\ \/ pc' = "error" /\ UNCHANGED isBag
     \/ /\ MayAnswer
        /\ \E bag \in BOOLEAN :
             isBag' = bag /\ pc' = IF bag THEN "validate bag" ELSE "identify"
  /\ UNCHANGED <<cfg, canceled, sipType, localPath, result, task, layout, premis,
                 apis, inbox>>

ValidateBag ==
  /\ pc = "validate bag"
  /\ \/ SystemErrorAndReturn({"validate bag"})
     \/ MayAnswer /\ ValidationError({"validate bag"}) /\ pc' = "unbag"
     \/ MayAnswer /\ Succeed({"validate bag"}) /\ pc' = "unbag"
  /\ UNCHANGED <<cfg, canceled, isBag, sipType, localPath, layout, premis, apis, inbox>>

\* Unbag works in place: its result path is its parameter's.
UnbagSIP ==
  /\ pc = "unbag"
  /\ \/ FailPath("unbag") /\ layout' \in {layout, "partial", "unbagged"}
     \/ /\ MayAnswer
        /\ task' = Mark({"unbag"}, "success")
        /\ result' = [result EXCEPT !.path = localPath]
        /\ layout' = "unbagged"
        /\ pc' = "identify"
  /\ UNCHANGED <<cfg, canceled, isBag, sipType, localPath, premis, apis, inbox>>

\* Whatever made the activity fail, the package is blamed and Execute returns.
IdentifySIP ==
  /\ pc = "identify"
  /\ \/ /\ ValidationError({"identify"})
        /\ pc' = "returned"
        /\ UNCHANGED sipType
     \/ /\ MayAnswer
        /\ Succeed({"identify"})
        /\ sipType' \in Types
        /\ pc' = "structure"
  /\ UNCHANGED <<cfg, canceled, isBag, localPath, layout, premis, apis, inbox>>

-----------------------------------------------------------------------------
(* The checks: an error returns, a failure is recorded and the run goes on. *)

Check(here, next) ==
  /\ pc = here
  /\ \/ SystemErrorAndReturn({here})
     \/ MayAnswer /\ ValidationError({here}) /\ pc' = next
     \/ MayAnswer /\ Succeed({here}) /\ pc' = next
  /\ UNCHANGED <<cfg, canceled, isBag, sipType, localPath, layout, premis, apis, inbox>>

ValidateStructure == Check("structure", "name")
ValidateSIPName   == Check("name", "manifest")

\* Mutant: only the checksum failures reach the outcome.
VerifyManifestForgetsOutcome ==
  /\ pc = "manifest"
  /\ \E bad \in SUBSET {"manifest", "checksums"} :
       /\ task' = [t \in TaskNames |-> IF t \in bad THEN "validation failure"
                                      ELSE IF t \in {"manifest", "checksums"}
                                      THEN "success" ELSE task[t]]
       /\ result' = IF "checksums" \in bad
                    THEN [result EXCEPT !.outcome = "content error"] ELSE result
  /\ pc' = IF IsSIP THEN "formats" ELSE "files"
  /\ UNCHANGED <<cfg, canceled, isBag, sipType, localPath, layout, premis, apis, inbox>>

\* One activity answers two tasks, each failed or succeeded on its own.
VerifyManifest ==
  /\ pc = "manifest"
  /\ \/ SystemErrorAndReturn({"manifest", "checksums"})
     \/ /\ MayAnswer
        /\ \E bad \in SUBSET {"manifest", "checksums"} :
             /\ task' = [t \in TaskNames |->
                           IF t \in bad THEN "validation failure"
                           ELSE IF t \in {"manifest", "checksums"} THEN "success"
                           ELSE task[t]]
             /\ result' = IF bad = {} THEN result
                          ELSE [result EXCEPT !.outcome = "content error"]
        /\ pc' = IF IsSIP THEN "formats" ELSE "files"
  /\ UNCHANGED <<cfg, canceled, isBag, sipType, localPath, layout, premis, apis, inbox>>

CheckFormats      == Check("formats", "files")
ValidateFiles     == Check("files", "metadata")
ValidateMetadata  == Check("metadata", IF IsAIP THEN "logical metadata" ELSE "gate")
ValidateLogicalMetadata == Check("logical metadata", "gate")

\* Mutant: the stop is missing.
StopIfInvalidMissing ==
  /\ pc = "gate"
  /\ pc' = IF cfg.apis THEN "submit metadata" ELSE "premis"
  /\ UNCHANGED <<cfg, canceled, isBag, sipType, localPath, result, task, layout,
                 premis, apis, inbox>>

\* Mutant: the APIS steps are skipped.
StopIfInvalidSkipsApis ==
  /\ pc = "gate"
  /\ pc' = IF result.outcome = "content error" THEN "returned" ELSE "premis"
  /\ UNCHANGED <<cfg, canceled, isBag, sipType, localPath, result, task, layout,
                 premis, apis, inbox>>

\* "Stop here if the SIP content isn't valid."
StopIfInvalid ==
  /\ pc = "gate"
  /\ pc' = IF result.outcome = "content error" THEN "returned"
           ELSE IF cfg.apis THEN "submit metadata" ELSE "premis"
  /\ UNCHANGED <<cfg, canceled, isBag, sipType, localPath, result, task, layout,
                 premis, apis, inbox>>

-----------------------------------------------------------------------------
(* createAPISImportTask and waitForAPISDecision.                            *)

\* The import task may exist in APIS although the activity failed.
CreateImportTask ==
  /\ pc = "submit metadata"
  /\ \/ SystemErrorAndReturn({"submit metadata"}) /\ apis' \in {"none", "submitted"}
     \/ /\ MayAnswer
        /\ Succeed({"submit metadata"})
        /\ apis' = "submitted"
        /\ pc' = "analysis"
  /\ UNCHANGED <<cfg, canceled, isBag, sipType, localPath, layout, premis, inbox>>

\* Mutant: the decision is dropped.
RecordMetadataDropsDecision(decision) ==
  /\ task' = Mark({"analysis"}, "success")
  /\ result' = [result EXCEPT !.metadata = NoDecision]
  /\ pc' = "premis"

\* Mutant: the metadata is not stored in the result.
RecordMetadataNotStored(decision) ==
  /\ task' = Mark({"analysis"}, "success")
  /\ UNCHANGED result
  /\ pc' = "premis"

\* The metadata createAPISImportTask leaves for poststorage on its way out.
RecordMetadata(decision) ==
  /\ task' = Mark({"analysis"}, "success")
  /\ result' = [result EXCEPT !.metadata = decision]
  /\ pc' = "premis"

PollAnalysis ==
  /\ pc = "analysis"
  /\ \/ SystemErrorAndReturn({"analysis"}) /\ UNCHANGED apis
     \/ /\ MayAnswer
        /\ \E a \in Analyses :
             /\ apis' = a
             /\ \/ a \in {"AlleNeu", "AlleGleich"} /\ RecordMetadata(NoDecision)
                \/ a = "Fehler" /\ SystemErrorAndReturn({"analysis"})
                \/ /\ a = "Konflikte"
                   /\ task' = Mark({"analysis"}, "open")
                   /\ pc' = "request decision"
                   /\ UNCHANGED result
  /\ UNCHANGED <<cfg, canceled, isBag, sipType, localPath, layout, premis, inbox>>

\* Mutant: the missing parent and the failed signal are not handled.
RequestDecisionUnhandled ==
  /\ pc = "request decision"
  /\ MayAnswer /\ cfg.parent /\ pc' = "decision" /\ UNCHANGED <<task, result>>
  /\ UNCHANGED <<cfg, canceled, isBag, sipType, localPath, layout, premis, apis, inbox>>

\* The parent may have received the signal although sending it failed here.
RequestDecision ==
  /\ pc = "request decision"
  /\ \/ SystemErrorAndReturn({"analysis"})
     \/ MayAnswer /\ cfg.parent /\ pc' = "decision" /\ UNCHANGED <<task, result>>
  /\ UNCHANGED <<cfg, canceled, isBag, sipType, localPath, layout, premis, apis, inbox>>

\* Mutant: any answer continues the ingest.
ReceiveDecisionAlwaysContinues ==
  /\ pc = "decision"
  /\ inbox # "none" /\ RecordMetadata(inbox)
  /\ UNCHANGED <<cfg, canceled, isBag, sipType, localPath, layout, premis, apis, inbox>>

\* Receive waits for the signal alone: not for a timeout, not for cancellation.
ReceiveDecision ==
  /\ pc = "decision"
  /\ \/ inbox \in {"overwrite", "append"} /\ RecordMetadata(inbox)
     \/ inbox = "cancel" /\ ValidationError({"analysis"}) /\ pc' = "returned"
     \/ inbox = "unsupported" /\ SystemErrorAndReturn({"analysis"})
  /\ UNCHANGED <<cfg, canceled, isBag, sipType, localPath, layout, premis, apis, inbox>>

-----------------------------------------------------------------------------
(* Execute, from the gate on.                                               *)

\* writePREMISFile runs one activity per entry of the plan and stops at the
\* first error, leaving the entries written so far.
WritePREMIS ==
  /\ pc = "premis"
  /\ \/ SystemErrorAndReturn({"premis"}) /\ UNCHANGED premis
     \/ /\ MayAnswer
        /\ premis' = Append(premis, PremisPlan(sipType)[Len(premis) + 1])
        /\ IF premis' = PremisPlan(sipType)
           THEN Succeed({"premis"}) /\ pc' = "restructure"
           ELSE UNCHANGED <<task, result, pc>>
  /\ UNCHANGED <<cfg, canceled, isBag, sipType, localPath, layout, apis, inbox>>

Build(here, next, built) ==
  /\ pc = here
  /\ \/ SystemErrorAndReturn({here}) /\ layout' \in {layout, "partial"}
     \/ MayAnswer /\ Succeed({here}) /\ layout' = built /\ pc' = next
  /\ UNCHANGED <<cfg, canceled, isBag, sipType, localPath, premis, apis, inbox>>

TransformSIP    == Build("restructure", "identifiers", "restructured")
WriteIdentifiers == Build("identifiers", "bag", "identified")
BagSIP          == Build("bag", "returned", "bag")

-----------------------------------------------------------------------------
(* The parent workflow: it may cancel, and answers a decision request once. *)

CancelWorkflow ==
  /\ Working /\ ~canceled
  /\ canceled' = TRUE
  /\ UNCHANGED <<cfg, pc, isBag, sipType, localPath, result, task, layout, premis,
                 apis, inbox>>

AnswerDecision ==
  /\ pc = "decision" /\ inbox = "none"
  /\ inbox' \in Options \cup {"unsupported"}
  /\ UNCHANGED <<cfg, pc, canceled, isBag, sipType, localPath, result, task, layout,
                 premis, apis>>

-----------------------------------------------------------------------------
WorkflowStep ==
  \/ Start \/ ChecksumSIP \/ CheckDuplicate \/ ExtractSIP \/ CheckIsBag
  \/ ValidateBag \/ UnbagSIP \/ IdentifySIP \/ ValidateStructure \/ ValidateSIPName
  \/ VerifyManifest \/ CheckFormats \/ ValidateFiles \/ ValidateMetadata
  \/ ValidateLogicalMetadata \/ StopIfInvalid \/ CreateImportTask \/ PollAnalysis
  \/ RequestDecision \/ ReceiveDecision \/ WritePREMIS \/ TransformSIP
  \/ WriteIdentifiers \/ BagSIP

Next == WorkflowStep \/ CancelWorkflow \/ AnswerDecision

Spec == Init /\ [][Next]_vars

\* Activities end (each has a timeout and a bounded retry policy) and Temporal
\* schedules the next workflow task: the workflow itself never starves.  The
\* parent is under no obligation to answer.
FairSpec == Spec /\ WF_vars(WorkflowStep)

-----------------------------------------------------------------------------
(* Safety.                                                                  *)

Done == {"success", "validation failure", "system failure"}
Entries == {premis[i] : i \in 1..Len(premis)}

\* What a run leaves behind outside its own result: an APIS import task, a
\* premis.xml, a rebuilt package.  (Unbagging happens before the checks.)
Effects == apis # "none" \/ premis # <<>>
             \/ layout \in {"restructured", "identified", "bag"}

\* Nothing reaches APIS and nothing is built from a package unless every check
\* that applies to it has succeeded (preprocessing.go:509-512 is the only stop
\* for six of them, reached many steps after they failed).
OnlyValidPackagesHaveEffects ==
  Effects => \A t \in Applicable : task[t] = "success"

\* A returned result tells what its tasks tell: it is a system error if and
\* only if a task is, a content error if and only if a task failed validation
\* and none failed otherwise, and no task is left open.
OutcomeAgreesWithTasks ==
  pc = "returned" =>
    /\ \A t \in TaskNames : task[t] # "open"
    /\ (\E t \in TaskNames : task[t] = "system failure")
         <=> result.outcome = "system error"
    /\ result.outcome = "content error" =>
         \E t \in TaskNames : task[t] = "validation failure"
    /\ result.outcome = "success" =>
         \A t \in TaskNames : task[t] \in {"none", "success"}

\* premis.xml is written before anyone reads the tasks: each event in it that
\* claims a check was passed is about a check that ran and succeeded on this
\* package, and a bagged package carries every entry for its type.
PremisClaimsAreTrue ==
  /\ \A e \in Entries \cap PremisEvents : task[e] = "success"
  /\ layout = "bag" => premis = PremisPlan(sipType)

\* The metadata handed to poststorage is what APIS and the operator said: no
\* decision for a conflict-free analysis, the operator's answer for a conflict,
\* and none at all when the answer was to cancel; after a cancel no package is
\* built.
MetadataTellsTheDecision ==
  /\ result.metadata # "unset" =>
       \/ apis \in {"AlleNeu", "AlleGleich"} /\ result.metadata = NoDecision
       \/ apis = "Konflikte" /\ inbox \in {"overwrite", "append"}
            /\ result.metadata = inbox
  /\ inbox \in {"cancel", "unsupported"} =>
       result.metadata = "unset" /\ premis = <<>> /\ layout # "bag"

\* A successful result is complete for what Enduro does next: its path is the
\* directory that was bagged, every applicable task is there, and it carries
\* APIS metadata exactly when poststorage will ask for it (poststorage.go:296).
SuccessIsComplete ==
  pc = "returned" /\ result.outcome = "success" =>
    /\ layout = "bag" /\ result.path = localPath /\ localPath = "extracted"
    /\ \A t \in Applicable \cup BuildTasks : task[t] = "success"
    /\ cfg.apis <=> result.metadata # "unset"

\* The contract of PreprocessingContract, as this run fulfils it.
Contract == INSTANCE PreprocessingContract WITH
  Decisions <- {NoDecision, "overwrite", "append"},
  enabled   <- cfg.apis,
  verdict   <- IF pc = "returned" THEN result.outcome
               ELSE IF pc = "error" THEN "failed" ELSE "pending",
  submitted <- apis # "none",
  metadata  <- result.metadata,
  built     <- layout = "bag"

\* Every run keeps the contract with Enduro and APIS: no submission before the
\* checks, no build before APIS and the operator have agreed, no success
\* without a bagged package, and a lost result only while nothing was done.
KeepsContract == Contract!Spec

-----------------------------------------------------------------------------
(* Action and liveness properties.                                          *)

\* Once a run has failed it does no further work outside its result: after a
\* content error it may go on checking (and unbag), and nothing else; after a
\* system error it is over.
NoEffectAfterFailure ==
  [][result.outcome # "success" =>
       /\ result'.outcome # "success"
       /\ UNCHANGED <<premis, apis, cfg>>
       /\ result'.metadata = result.metadata
       /\ layout' # layout => pc = "unbag"]_vars

\* The order in which Execute takes its steps.
Course ==
  <<"start", "checksum", "duplicate", "extract", "is bag", "validate bag", "unbag",
    "identify", "structure", "name", "manifest", "formats", "files", "metadata",
    "logical metadata", "gate", "submit metadata", "analysis", "request decision",
    "decision", "premis", "restructure", "identifiers", "bag", "returned", "error">>

\* Order has A before B.
Ahead(order, a, b) == \E i, j \in DOMAIN order : i < j /\ order[i] = a /\ order[j] = b

\* What ends a run, once every step does: no step is taken twice, whatever was
\* skipped, answered or canceled before, but for the entries of premis.xml, of
\* which each is written once.  So each task is reported once as well.
RunMovesOn ==
  [][WorkflowStep =>
       \/ Ahead(Course, pc, pc')
       \/ /\ pc = "premis" /\ pc' = "premis"
          /\ Len(premis) < Len(premis') /\ Len(premis') < Len(PremisPlan(sipType))]_vars

\* The wait for a human decision is the only place where a run can stop for
\* ever, canceled or not: otherwise it returns.
OnlyTheDecisionCanBlock ==
  <>[](pc = "decision" /\ inbox = "none") \/ <>~Working
=============================================================================
