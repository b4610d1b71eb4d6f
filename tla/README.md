# A verification model of preprocessing-sfa

The repository holds two Temporal child workflows that Enduro runs for the
Swiss Federal Archives. *Preprocessing* checks a submitted package (SIP),
announces its metadata to APIS, the archive's information system, and rebuilds
the package into a PIP for Archivematica. *Poststorage* runs after the AIP has
been stored; it sends the AIP's METS file to APIS and waits for the import.

This directory models that system in TLA+: the two workflows, the APIS
integration across both of them, the generated client and server under it, the
duplicate check and the package's file tree. TLC checks the models on small
instances; TLAPS proves the safety properties of all of them, that they
implement their abstract specifications, and that what moves moves on, for every
value of the constants.

    tlc -workers 2 -config MCPreprocessing.cfg MCPreprocessing
    tlapm PreprocessingProofs.tla

`PROJECT.json` names, for every definition that models code, the lines it
models, and for every property a plausible bug that breaks it (the operators
commented "Mutant").

## 1. The system

| Component | State it keeps | Operations | Interacts with |
|---|---|---|---|
| Preprocessing workflow (`internal/workflows/preprocessing.go`) | the result: path, outcome, custom metadata, tasks; what it learnt on the way (bag or not, package type) | one step per activity or signal, in a fixed order with early returns | every activity; the parent workflow (decision request and response) |
| Poststorage workflow (`internal/workflows/poststorage.go`) | the result; the open session; the list of paths to remove | a loop of up to five sessions; in each: AIP path, METS, import run, polling, and a deferred clean-up | worker sessions, AMSS, APIS |
| APIS activities (`internal/apis`) | none of their own | two POSTs, two polling loops | APIS over HTTP, retried by Temporal |
| APIS mock (`hack/apis-mock`) | the import tasks, the next task and run numbers | create, cancel, run, status; a status request advances a task | the activities |
| Generated client (`internal/apis/gen`) with the token source (`internal/apis/client.go`) | none | build a request, read a response as a typed result, validate it | the activities call it, it calls APIS |
| Generated server (`hack/apis-mock/internal/gen`) | none | route, check the token, decode parameters and body, call the endpoint, encode its result | stands in front of the mock's handler |
| Duplicate check (`internal/localact/check_duplicate.go`, `internal/persistence`) | the `sip` table with its unique checksum | one INSERT | the workflow, as a retried local activity |
| Package on the shared disk (`unbag`, `sip`, `validate_structure`, `verify_manifest`, `transform_sip`, `pips`, `write_identifier_file`) | a file tree | checks that read it, two activities that rebuild it, three that add files | each other, by paths computed twice |
| PREMIS document (`internal/premis`, `add_premis_*`) | objects, events, agents | append, if not there | the package's paths, the checks' outcomes |
| File and metadata validators | none | calls of veraPDF, siegfried, xmllint | external tools |
| AIP METS download (`internal/amss`) | a directory on the worker's disk | look up the path, fetch a file | AMSS |
| Worker (`cmd/worker`) | its sessions | start-up | Temporal |

What is hard in it:

- *Retries of things already done.* The check for duplicates is itself the
  INSERT; the POSTs that create an import task and start an import carry no
  idempotency key. Answers are lost, requests arrive late, and Temporal makes
  the next attempt without knowing.
- *Failures that are recorded and acted on much later.* Most checks only add
  to the result; one test, far below, keeps an invalid package from APIS and
  from being rebuilt.
- *Decisions that travel.* The operator's answer at a metadata conflict goes
  through the result, Enduro and poststorage before it decides between
  overwriting and appending in APIS.
- *Two programs generated apart.* Client and server come from one interface
  description but share no code. A body a proxy wrote, a field another version
  of APIS adds, an error in another media type than the interface's: each has to
  end in a result, a retry or a refusal, and a wrong choice creates a second task
  or gives up on the first.
- *Lost workers.* A poststorage session that loses its worker is repeated with
  the same result, and its clean-up runs in the session it cleans up after.
- *Paths computed before the move.* `premis.xml` and `identifiers.json` name
  files by paths that other code, running before or after, has to agree with.

What makes each component correct:

- Preprocessing: nothing is submitted or built before every applicable check
  has passed; outcome, tasks and documents agree; it keeps the parent's contract.
- Poststorage: with APIS enabled it succeeds only for an imported AIP; only a
  canceled run ends without a result; it cleans up, and gives back its session
  slots.
- APIS integration: an AIP is imported at most once, only after preprocessing
  succeeded, and the way the operator decided; every ingest ends.
- Client and server: the endpoint gets the call that was made, the caller the
  result that was returned; what an activity concludes from a response, whoever
  wrote it, is true of the server.
- Duplicate check: of equal contents at most one is accepted, and a refusal has
  a row behind it.
- Package: no file is lost however an activity ends; what passes the checks can
  be rebuilt; what is built is what the manifest lists, and both documents name
  the files that are there.

## 2. The modules

| Module | Models |
|---|---|
| `Preprocessing` | the preprocessing workflow, one run |
| `PreprocessingContract` | what it promises: the abstract specification |
| `PreprocessingProofs` | theorems about `Preprocessing`: what its effects rest on |
| `PreprocessingOutcomeProofs` | theorems about `Preprocessing`: what it returns, and that it implements its contract |
| `ApisMock` | the APIS mock server: the tasks and its endpoints |
| `ApisIngest` | both workflows' APIS parts and the four APIS activities, over an unreliable network, EXTENDS `ApisMock` |
| `ApisIngestProofs` | theorems about `ApisIngest` |
| `ApisSchemas` | the messages of the interface: fields, codecs, validators |
| `ApisClient` | the generated client, and what the activities conclude from its results |
| `ApisServer` | the generated server in front of the endpoints, EXTENDS `ApisMock` |
| `ApisWire` | callers, requests and answers between client and server, EXTENDS both |
| `ApisExchange` | what a caller may rely on: the abstract specification of `ApisWire` |
| `ApisWireProofs` | theorems about `ApisWire` |
| `Poststorage` | the poststorage workflow, several runs on shared workers |
| `PoststorageProofs` | theorems about `Poststorage` |
| `DuplicateCheck` | the duplicate check, several submissions at once |
| `DuplicateCheckProofs` | theorems about `DuplicateCheck` |
| `Package` | the file tree of one package through the activities |
| `PackageTrees` | lemmas about its paths and trees |
| `PackageProofs` | theorems about `Package` |
| `MC*` | constants for TLC |

The modules were written in the order of what can go wrong: the preprocessing
workflow, the APIS integration, poststorage, the duplicate check, the package,
and then the layer below the APIS integration. `ApisIngest` composes: its
preprocessing half is a coarser version of `Preprocessing`, and both are shown
to implement `PreprocessingContract`, which is what joins them.

### Preprocessing

`pc` is the activity `Execute` calls next; each action is that activity (or
signal) with the code that handles its answer, up to the next blocking call.
Temporal runs that code without interruption and replays it after a crash, so
nothing finer can be observed. `task` is the outcome of each task of the result,
`result` its path, outcome and custom metadata; `layout` says what stands on
disk, `premis` what `premis.xml` holds, `apis` how far APIS is. Any activity may
fail; failing, those that change files may leave part of their work (`layout =
"partial"`). Cancellation makes every later activity fail, since `Execute` hands
its context to all of them. `writePREMISFile` is one action over `PremisPlan`,
the entries in order, and may stop after any of them. The constants are the two
sets of package types; the code tells types apart only by `IsSIP` and `IsAIP`.

### ApisMock and ApisIngest

`ApisMock` is the handler's state (`handler`, `tasks`, `nextRun`) with one action
per endpoint that changes it, each under the handler's mutex. `ApisIngest` adds,
for each SIP, a record `flow` of where it is, and the POSTs and answers that are
on their way. The two POST activities are modelled attempt by attempt: `RetryTask`
and `RetryRun` give up an attempt at any time, whether or not its request will
still be served; `Serve` takes any outstanding request, in any order, or refuses
it. A status request is one step, since a lost one only costs an attempt
(`PollFails`). `LoseSession` is a lost worker in poststorage. `ClerkCancels`
stands for somebody who cancels a task in APIS. Steps of the workflows that do
not touch APIS are single actions with all their outcomes.

### ApisSchemas, ApisClient, ApisServer and ApisWire

`ApisIngest` takes a POST and its answer for granted; these modules open them.
A JSON object is the sequence of its fields, since nothing on the wire fixes
their order or keeps a key from coming twice; a decoded message is a function
from the fields that were set. `Reading` is what has been read after each field,
as the generated `Decode` methods loop over them, and `Decode` what is left when a
required field is missing; `Writing` and `Encode` write the fields that are set in
the generated order. Both are recursive functions on the number of fields. One
table per message (`ImportTaskStatusResponse`, `ProblemDetails`, ...) says
which kinds each key takes and which are required. `Validate...` are the
generated validators: the client runs them on the two status responses, the
server on the two forms.

`ApisClient` has one `Send...` per operation (method, path, Authorization header,
body), one `Decode...Response` per operation over a table from status codes to
result types, the token source (`Smart`), and the four activities' `switch` over
the result as a verdict: "done", "wait", "retry" or "final". A task's form always has
its three parts, a run's may leave out the behaviour; a cancellation may carry a content
type of the caller's, which the encoder lets be empty and the server then refuses. `ApisServer` has the
router (`RouteRequest`), the security check, the parameter and body decoders, one
`Handle...` per operation with these in the code's order, the handler's replies
next to the state changes of `ApisMock`, and the response encoders. `ServeHTTP`
gives an invocation, or the status the request is refused with. The titles and
details of problems stand for the mock's texts.

`ApisWire` puts a network between them. A caller makes one call (`Call`), gives
up at any time (`GiveUp`), or reads its answer (`Receive`); the server takes any
outstanding request (`Serve`), that of a caller who gave up as well. `Disturb`
replaces an answer by one the mock would not write: a gateway's HTML page, an
error in another media type, or the same fields with one more, in another order, or
with any one of them left out, there twice, or null, with a status or result nobody
knows, or with a blank ID (`Varied`). `CallByHand` is a
request no client builds. Each step of `Serve` is one step because the handler
holds its mutex and the code around it touches only the request and response.

### Poststorage

One program counter per run for `Execute` and `SessionHandler` together. `lost`
and `canceled` make every activity of the run's session end in an error, the
deferred removal included; what that error leads to (retry, `nil` without a
result, an error) is `AfterRemovalError`. `trail` is the list of tasks in the
result, which all sessions share. `disk` is what a run left on each worker.
`Slots` is the worker's limit on sessions, and `CreateSession` waits for a free
one; `CreateSessionFails` is an error instead, which ends the run at once.
`apisEnabled` is the configuration: without APIS a run returns its fresh result.

### DuplicateCheck

`registry` is the table, as a function from checksums to the submission whose
row it is. `inserts` and `replies` are messages: an attempt may be given up while
its INSERT is still on its way, to be executed later or never. `CrashWorker` is a
worker that dies before the local activity is recorded in the workflow's history;
it is then made again from its first attempt.

### Package

`tree` maps each path (a sequence of names) to `Dir` or to the identity of a
file, the path it was submitted at. `Unbag` and `TransformSIP` may stop after any
of their file operations. `Layout` holds the paths of `sip.go` for the package
types, `PIPManifest` and `ConvertSIPPath` those of `pips.go`, `OriginalName` that
of `premis.go`. What a manifest lists, and which files do not have the checksum it
gives, is part of the submitted package; `Packages` is the set of packages that
may be submitted. `PackagesAreTrees` says what these have in common: they are trees,
their manifests list paths, and a package that is no bag has no `bagit.txt`.

## 3. The runs

| Run | Question | Bounds | Result |
|---|---|---|---|
| `preprocessing` | can any path of the workflow have an effect, claim or outcome that its checks do not justify? does it keep its contract? | one SIP and one AIP type, all configurations, cancellation at any point | holds |
| `apis_ingest` | do retries, late requests and lost sessions import twice, without authority, or report an import that is none? is a poll ever in vain? does every ingest end? | one SIP, three attempts, two sessions | holds |
| `apis_wire` | do client and server agree on every request and answer, and is what an activity concludes true of the server, whatever is lost, late or disturbed? | two callers, one call each of eight; one hand-written request of five; one disturbed answer; a prior task at three stages | holds |
| `poststorage` | what does a run leave on the workers' disks, and does its result tell the truth about all its sessions? does it come back to a session it left? | one run, two workers, five sessions | holds |
| `poststorage_contended` | do two runs that share one session slot both end (and so give it back), whatever dies? | two runs, one worker, one slot, two sessions | holds |
| `poststorage_retry` | does a run whose repeated session did everything succeed? | one run, two workers, two sessions | violated |
| `duplicate_check` | can two submissions of equal content be accepted, or one be refused without a row? | two submissions, two contents, two attempts, one crash each | holds |
| `duplicate_of_itself` | is a refusal always about another submission? | the same | violated |
| `package` | is a file ever lost, a valid package stuck, a document wrong about the files? | 1486 packages | holds |
| `package_identifiers` | are the content files `identifiers.json` names for a born-digital AIP in the package? | the same | violated |
| `package_listed` | is everything the verified manifest lists kept? | the same | violated |
| `package_old_directories` | are the old top-level directories gone? | the same | violated |

Why the bounds are enough:

- *Attempts.* Three attempts is the code's own limit (`policies.go`) and is used
  for APIS. For the duplicate check two suffice: what a third attempt can meet, a
  row of an earlier attempt or another's row, the second one meets too, and a
  crash with its new attempts gives a further generation.
- *Sessions.* `poststorage` uses the code's five. Where sessions meet another
  source of interleavings two are enough: the second session is the first that
  starts with what an earlier one left, and a third differs from it in nothing
  but the number of leftovers.
- *SIPs.* SIPs share nothing in APIS but the counters of task and run numbers, so
  `apis_ingest` has one. The duplicate check's property is about pairs of
  submissions, so it has two; two runs and one slot make the smallest contention.
- *Packages.* The activities treat files of a directory alike; the packages have
  one regular file in each place the code distinguishes, and at most one
  irregular entry together with one defect (a missing file, an empty directory, a
  file where a directory should be or the other way round, one listing too few or
  too many, a bad checksum, a schema version).
- *Calls on the wire.* The client keeps nothing between calls, so what one call
  can do to another goes through the server's tasks. Two callers are the smallest
  number with a race (two runs for a task, a run against a cancellation, two
  tasks, a status request that advances the task of the other), and three prior
  tasks let each endpoint meet each of its refusals. An activity's further
  attempts are `ApisIngest`'s. One disturbed answer at a time is enough, as an
  answer is read without regard to any other. The prior task, two calls and the
  hand-written request use up at most four task numbers, and fewer run numbers.
- *Unbounded counters* do not occur: task numbers are bounded by attempts.

`CHECK_DEADLOCK FALSE` is said everywhere because a workflow that has returned
stops for good, as does a caller of `ApisWire` that has its answer.

### Fairness

Weak fairness on the steps of each workflow, and on nothing else. Temporal
schedules a workflow whose activity has ended; every activity has a
start-to-close timeout and a bounded number of attempts (`policies.go`), so an
activity always ends, if only in an error. There is no fairness on the network,
on crashes, on cancellation, on APIS or on people, with one exception:
`ApisIngest` assumes that the operator answers, as `Decide` is a step of the
workflow there. `Preprocessing` does not: `OnlyTheDecisionCanBlock` says that a
run ends *or* waits for the operator for ever, and `Receive` with neither a
timeout nor a look at cancellation (`preprocessing.go:786`) makes the second case
real. `ApisWire` has none: it is about safety only, and nothing makes a network
deliver. In `Poststorage` the fair steps are those of `Progress`; that the creation of a
session fails (`CreateSessionFails`) is none of them, so no run is shown to end by
that error. `CreateSession` is enabled only while a slot is free; weak fairness is
enough because a run that loses the race has a rival that frees the slot and ends.

### What the violated runs show

1. `poststorage_retry`: all sessions share one result. An activity that fails in a
   session, as when its worker is lost, has recorded a system error in it, so a run
   returns a system error even if the repeated session succeeded; and if the lost
   session had created the import run, APIS refuses the repetition.
2. `duplicate_of_itself`: an INSERT whose answer is lost makes the retry meet its
   own row; the submission is refused as a duplicate of itself.
3. `package_identifiers`: a born-digital AIP is verified against
   `UpdatedAreldaMetadata.xml`, but its identifiers come from the old
   `metadata.xml`; they may name content files the AIP does not have. The property
   speaks of that case alone: of this type, of names that are unambiguous and of
   files in the content directory. (Another case of the same kind, which
   `Unambiguous` leaves out, is a digitized SIP with a *directory* named
   `Prozess_Digitalisierung_PREMIS.xml`: its files are not where
   `ConvertSIPPath` says.)
4. `package_listed`: in an AIP, files below `content/` but outside
   `content/content/` and `content/header/` pass the checks if the manifest lists
   them, and are deleted by the restructuring.
5. `package_old_directories`: the loop that removes the old directories tests the
   wrong error variable, so a directory that cannot be removed stays unnoticed.

### What else the modelling met

Observations about code and documents that no run is about:

- No code calls the cancel endpoint: an ingest the operator cancels leaves its
  import task `Analysiert` in APIS. It counts among the tasks `OrphansAreBounded`
  bounds, but it is no orphan there, since its flow still names it.
- The schema lets a status answer say `Analysiert` without an analysis result. The
  poll of the analysis then fails for good, though the task may have been analysed
  (`poll_import_task_status_activity.go:74`). The mock always gives the result;
  `PollsConcludeRightly` allows the failure for an answer somebody altered so.
- A request with a refused token is answered by the server's generic error
  handler as `application/json`. The client reads a 401 of `importruns` only as
  `application/problem+json`, so `CreateImportRunActivity`, which has a
  non-retryable error for it, gets a decoding error and is retried
  (`AnswersAreUnderstood` says so).
- The router compares paths byte by byte with `/api/importtasks`; the mock's
  README, and its example with curl, write `/api/ImportTasks`, which is a 404.
- The mock's README says that the analysis results `Konflikte` and `Fehler` stop
  the flow before import. `Konflikte` stops it neither in the mock nor in the
  workflows, which ask the operator.

## 4. What is proved

| Theorem | States, for all values of the constants |
|---|---|
| `PreprocessingProofs!TypeCorrect` | the workflow's state is well formed |
| `PreprocessingProofs!EffectsNeedValidPackages` | no submission and no building before all applicable checks succeeded |
| `PreprocessingProofs!ClaimsAreTrue` | `premis.xml` claims only checks that succeeded, and a bagged package has the whole document |
| `PreprocessingProofs!FailedRunsHaveNoEffect` | after a failure no step changes APIS, `premis.xml` or the metadata |
| `PreprocessingProofs!RunsAlwaysMoveOn` | no step is taken twice, but for the entries of `premis.xml`, each written once |
| `PreprocessingOutcomeProofs!OutcomesAgree` | the outcome returned is the one the tasks tell of |
| `PreprocessingOutcomeProofs!MetadataIsTheDecision` | the metadata returned is what APIS and the operator said |
| `PreprocessingOutcomeProofs!SuccessesAreComplete` | a success has its package, its path and every applicable task |
| `PreprocessingOutcomeProofs!ImplementsContract` | the workflow implements `PreprocessingContract` |
| `ApisIngestProofs!TypeCorrect` | flows, messages and server are well formed |
| `ApisIngestProofs!ImportedAtMostOnce` | APIS imports each AIP at most once |
| `ApisIngestProofs!OnlyAuthorisedImports` | an import is of a SIP that was preprocessed, under its own task, as was decided |
| `ApisIngestProofs!SuccessIsImported` | a success of poststorage is about an imported AIP |
| `ApisIngestProofs!ContractsAreKept` | each SIP's preprocessing implements `PreprocessingContract` |
| `ApisIngestProofs!OrphansBounded` | APIS holds no more tasks than attempts are allowed, and one no ingest knows was never run |
| `ApisIngestProofs!IngestsAlwaysMoveOn` | no result is taken back, no task revived; a step brings its ingest to a later step, attempt or session, and a request its task forward or nowhere |
| `ApisIngestProofs!NoPollWaitsInVain` | whenever a poll is told to wait, it has moved its task on |
| `ApisWireProofs!TypeCorrect` | a caller has one result, and one request or answer on its way, at most |
| `ApisWireProofs!CallsAreHandled` | the server invokes the very call that was made, or refuses a bad token or a cancellation without its content type |
| `ApisWireProofs!RepliesAreUnderstood` | an undisturbed answer is read as the very result that was returned |
| `ApisWireProofs!AnyBodyIsRead` | decoding any body as any message gives the last value of every key, or an error |
| `ApisWireProofs!AnswersAreDecoded` | so it does for every answer a caller may get, disturbed or not |
| `ApisWireProofs!TruthStays` | what an undisturbed answer said goes on being true |
| `ApisWireProofs!PollsAreRight` | a poll concludes with its task's own result; it gives up for good only past the analysis, on a task it cannot ask for, or when the result was taken from its answer |
| `ApisWireProofs!ExchangeIsKept` | the wire implements `ApisExchange` |
| `PoststorageProofs!TypeCorrect` | runs, workers and sessions are well formed |
| `PoststorageProofs!SuccessIsAlwaysEarned` | with APIS enabled a result is successful only for an imported AIP; only a canceled run ends with neither result nor error |
| `PoststorageProofs!ResultsSpanSessions` | the result all sessions share is true of all of them, and at most one submission in it succeeded |
| `PoststorageProofs!DownloadsAreAlwaysRemoved` | at most one download is left per session, one less after a result |
| `PoststorageProofs!RunsAlwaysMoveOn` | a run never comes back to a session it left, nor to a step of the one it is in |
| `DuplicateCheckProofs!TypeCorrect` | the check's state is well formed |
| `DuplicateCheckProofs!AtMostOneAccepted` | of equal contents at most one is accepted, the one whose row it is |
| `DuplicateCheckProofs!RefusalsAreExplained` | a refusal has a row behind it |
| `DuplicateCheckProofs!ChecksAlwaysMoveOn` | each INSERT is another attempt, within its limit, and none follows the verdict |
| `DuplicateCheckProofs!ChecksumStaysTaken` | a registered checksum is never given to another |
| `PackageProofs!TypeCorrect` | the tree stays a tree |
| `PackageProofs!NothingLost` | every file that is to be kept is in the tree, whichever operation fails |
| `PackageProofs!RejectedUnchanged` | a rejected package is the one submitted, but for its bag files |
| `PackageProofs!ValidRestructured` | each move finds what it moves in a package that passed the checks |
| `PackageProofs!PIPIsTheManifests` | the PIP holds exactly the content files of its manifest, at their places |
| `PackageProofs!PremisNames` | the objects of `premis.xml` are exactly the content files of the PIP |
| `PackageProofs!IdentifiersNames` | `identifiers.json` names the content files of the PIP, in three of the four types |

*Assumptions.* `TypesDisjoint` (no type is both a SIP and an AIP) in
`Preprocessing`; `BoundsPositive` in `ApisIngest` (attempts and sessions are
positive) and in `DuplicateCheck` (attempts are positive, crashes a natural
number, `Nobody` no submission); `SipsFinite` in `ApisIngest`, which only the count
of tasks needs; `ConstantsFit` in `Poststorage` (slots and sessions are positive,
`NoWorker` no worker); `NamesAreNames` and `PackagesAreTrees` in `Package`. On the
wire: `IDsAreDistinct` (no two numbers give the same ID, which is what `%06d` does),
`IDsSuffice` (there is an ID for each caller and curl, as numbers do not run out),
`CurlIsNoCaller`, `CallsAreOfTheClient` (a call has what the Go types of its request
let it have, and an ID where its operation takes one), `PriorTasksAreTasks` (the
task there is before is one the endpoints could have made). The runs evaluate all
of them. The sets of runs, workers, submissions, types and packages are arbitrary,
infinite ones included; SIPs and callers are finitely many. The proofs are about
`Spec` without fairness.

*Preprocessing: effects.* `OnlyValidPackagesHaveEffects` is not inductive: at the
gate the workflow looks only at the outcome, not at the tasks. The invariant
`Inv` adds what ties them together. `Seen` is the set of tasks due by the step
`pc` stands at; `NothingSkipped` says each applicable one of them has been
reported, `FailuresAreInOutcome` that any failed one shows in the outcome,
`GatePassed` that beyond the gate all applicable checks succeeded,
`PremisFollowsPlan` that `premis.xml` is a prefix of the plan for the package's
type and complete once the workflow is past it, and `EffectsAfterGate` that APIS,
`premis.xml` and the built layouts are untouched before the gate. Each action
preserves each part; steps before the gate are handled by one lemma
(`EarlyStep`), as are the steps that only report a task (`ReportStep`).

*Preprocessing: results.* `Inv` speaks of the tasks behind the current step. That
a content error always has a failed task in the result needs the mirror image:
tasks ahead are unanswered, so no later success covers up a failure
(`ReportInv`). `DecisionInv` follows what APIS and the operator said up to the
metadata, `PackageInv` where the package is. Under these the refinement is a
case per action: up to the gate a step stutters or rejects, after it each step is
one of the contract or a stutter.

*ApisIngest.* An AIP is imported at most once for three reasons in three places:
the server takes one run per task (`RunsInv`), a flow never changes the task it
got (`FlowInv`), and no two flows, nor a flow and an answer still on its way,
have the same task (`OwnersInv`). A request for a run may be served long after
its sender is over, so `RunsInv` says of every request on its way that it is
authorised, which is kept because a flow past preprocessing keeps its task and
decision. The server's steps are lemmas of their own (`AdvanceFacts` and the
lemmas after it); each workflow action then has one lemma. For the refinement
`Allowed` describes what one step may do to a flow; `AllowedIsContract` maps it to the contract,
`StepAllowed` shows it for each action, `OneAtATime` that the other flows stay.
For the count of tasks, `Charges(by)` charges each task to an attempt of some SIP,
no two to the same one and none to one whose request is still on its way;
`AttemptsInv` says that this can be done, and `OrphanInv` that a task no flow holds
is new or canceled and was never run.

*Poststorage.* All sessions add to one result, so the invariant says how far a
session may have come at each step: which trail a run without a failure has
(`SuccessSoFar`), that each session adds at most one failure (`FailuresSoFar`),
and which directories are answered for by no open session (`DownloadsSoFar`). It
does not speak of lost workers: when they happen makes no difference to it.
`EarnedInv` adds what a returned result rests on: with APIS enabled on three tasks
done, without it on nothing, an end without a result on a cancellation; and that all
successful submissions stand at one place of the trail, since a submission succeeds
only while there is no import run, and a success creates one. The counts need facts
about cardinalities from `FiniteSetTheorems`.

*DuplicateCheck.* A submission is accepted when it reads a reply, long after the
INSERT. `Inv` adds what the reply is evidence of: `CreatedMeansOwned` (a
"created" on its way means that the row is the addressee's) and `AcceptedOwns`.
`RefusalInv` does the same for "constraint error": there is a row, and one the
submission inserted itself only if this was not its first INSERT.

*ApisWire.* `WireInv` says who has a request or an answer on its way, that nobody
has two, and that what the server did for a caller was the caller's call; `ServerInv`
that the mock's records are task records. They are inductive together. That a call
arrives as it was made (`CallsAreHandled`) is a property of the operators alone: what
`Send...` writes, `ServeHTTP` reads, form by form and field by field. Codecs are
recursive functions, so what they give for messages of every length is proved by
induction over the fields with the library's well-foundedness of `<` (`Induction`
states it for a set, which needs no operator as a parameter): `DecodeSays` is that a
decoded message says what the last field of each key said, `EncodeWrites` that an
encoded one has every field that is set once, in order, and `RoundTrip` joins them.
`TruthInv` says that each reply goes on to hold of the tasks (`HoldsOn`, by `Follows`:
no endpoint takes back what another told) and counts the tasks, so that each has an ID
of its own and the next one too. `AnyBodyIsRead` turns `DecodeSays` into an equation: decoding gives what
`LastOneWins` says of the fields as a whole. Any one field of a disturbed answer may be
gone, null, unknown or there twice; `VariedFields` says what fields that leaves, and
`IDsRead` and `StatusRead` that what is read from them, if anything, is what the server
wrote or nothing. For `ApisExchange`,
`TidingsInv` says that a creation is answered 201 exactly when something was created.

*Package.* A tree that is being restructured is described by the moves made so far
(`Moved`, `Stage`): whatever lay below the source of one lies below its target, unless
a move before took it away. All moves together put every file at its place (`Placed`),
the bagging moves that below `data`, and the steps in between add the two documents.
`PackageInv` says for every activity which of these trees it is called with, what the
checks before it have found, and what the documents name (`Progress`); with an
activity that fails half way only `NothingIsLost` is left. `PackageTrees` has the
facts about paths (prefixes, joining, cutting) and trees (moving, removing) these
steps use.

*Progress.* Each workflow has an order of its steps (`Course`), and the theorems say
that a step leads to a later one: a later session first, then a later step, then a
later attempt or entry of `premis.xml`. All of these are bounded, the sessions and
attempts by `TypeOK`, so no workflow can go on for ever by stepping. (TLC has checked
`RunMovesOn`, `ChecksMoveOn` and the `TypeOK` of `Poststorage` and `DuplicateCheck` as
well; now that they are proved, no run repeats them.) The proofs are by
cases over the actions; `Follows` lists what follows what in the order.

The polls are the exception: a poll that is told to wait stays where it is, and the
activity has no limit of its own but a day. For them `NoPollWaitsInVain` says that the
status request which was answered "wait" moved the task on, and `IngestsAlwaysMoveOn`
that no request moves a task back. The import poll waits in `Analysiert` as well, where
a status request moves nothing; that it never meets a task there is an invariant of
three parties (`RunningInv`): the task is started when the run is accepted, hence before
the answer that says so is on its way, hence before anybody polls the import; and no
endpoint takes a task back to before its run.

*Only model-checked.* All liveness properties, which are beyond this prover:
`OnlyTheDecisionCanBlock`, `EveryIngestEnds`, `EveryRunEnds` and `EveryCheckEnds`. Of
what they rest on, the progress of every step is proved; that a step is enabled until
the end (`ENABLED`), and the step from there to the end, are not.

## 5. What is not modelled

- Validators (veraPDF, siegfried, xmllint) and file formats: their answers are
  nondeterministic in `Preprocessing`.
- The XML of manifests and PREMIS documents, regular expressions for names, file
  modes, checksum algorithms: data whose result is a set of paths or a verdict.
- The links between objects, events and agents inside `premis.xml`.
- Of the generated client and server: tracing and metrics, parameters of media
  types, percent-encoding of paths, the framing of multipart bodies, and the Go
  HTTP client's own repetition of a GET on a broken connection, which is the same
  to the server as a second poll.
- Other generated code (the ent database client, of which one INSERT is used, and
  the doubles mockgen makes), configuration, start-up, logging.
- How the token provider gets a token: it gives one, an expired one, or an error.
- The path of the PREMIS schema that validations on one worker share without a lock
  (`validate_premis.go`): each writes its own copy of the same schema, so which one
  wins changes no verdict; the data race itself is below what the models tell apart.

## 6. What comes next

1. `Premis`: the document as objects, events and agents with their links, and the
   five activities that append to it; every link ends at something, and every
   object has an event for each check.
2. The names of SIPs.
