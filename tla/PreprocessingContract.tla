------------------------ MODULE PreprocessingContract ------------------------
(***************************************************************************)
(* What the preprocessing child workflow promises its parent and APIS,     *)
(* without saying how: a package is rejected before anything is submitted  *)
(* or by the operator's decision; it is built only after APIS, when it is  *)
(* enabled, has accepted its metadata; success means it is built.          *)
(***************************************************************************)
CONSTANT Decisions            \* what CustomMetadata.Decision may hold

VARIABLES
  enabled,    \* the APIS integration is enabled
  verdict,    \* what the parent sees: pending, failed, or the result's outcome
  submitted,  \* APIS may hold an import task of this run
  metadata,   \* the custom metadata handed over: unset, or a decision
  built       \* the package stands rebuilt and bagged

contractVars == <<enabled, verdict, submitted, metadata, built>>

Init ==
  /\ enabled \in BOOLEAN
  /\ verdict = "pending"
  /\ submitted = FALSE
  /\ metadata = "unset"
  /\ built = FALSE

\* The package is refused on its own account, before APIS hears of it.
Reject ==
  /\ verdict = "pending" /\ ~submitted /\ ~built
  /\ verdict' = "content error"
  /\ UNCHANGED <<enabled, submitted, metadata, built>>

\* The workflow itself fails: its result is lost, so nothing may depend on it.
Abort ==
  /\ verdict = "pending" /\ ~submitted /\ ~built
  /\ verdict' = "failed"
  /\ UNCHANGED <<enabled, submitted, metadata, built>>

Submit ==
  /\ enabled /\ verdict = "pending" /\ ~submitted /\ ~built
  /\ submitted' = TRUE
  /\ verdict' \in {"pending", "system error"}
  /\ UNCHANGED <<enabled, metadata, built>>

Accept ==
  /\ verdict = "pending" /\ submitted /\ metadata = "unset"
  /\ metadata' \in Decisions
  /\ UNCHANGED <<enabled, verdict, submitted, built>>

\* The operator cancels the ingest at a metadata conflict.
CancelIngest ==
  /\ verdict = "pending" /\ submitted /\ metadata = "unset"
  /\ verdict' = "content error"
  /\ UNCHANGED <<enabled, submitted, metadata, built>>

Fail ==
  /\ verdict = "pending"
  /\ verdict' = "system error"
  /\ UNCHANGED <<enabled, submitted, metadata, built>>

Deliver ==
  /\ verdict = "pending" /\ ~built
  /\ enabled => metadata # "unset"
  /\ built' = TRUE
  /\ verdict' = "success"
  /\ UNCHANGED <<enabled, submitted, metadata>>

Next == Reject \/ Abort \/ Submit \/ Accept \/ CancelIngest \/ Fail \/ Deliver

Spec == Init /\ [][Next]_contractVars
=============================================================================
