--------------------------- MODULE StorageBackend ---------------------------
(***************************************************************************)
(* What the three providers of job state make of a request that failed     *)
(* (src/src/storage/backend.rs, http_error.rs, s3_error.rs, azure_error.rs *)
(* and gcs_error.rs): the storage error it amounts to, what it is recorded *)
(* as, and whether it is an answer the caller asked for.  ObjectStorage    *)
(* sends the requests.  Texts and the names of keys in them are left out.  *)
(***************************************************************************)
EXTENDS Naturals, FiniteSets

Providers == {"s3", "azure", "gcs"}

-----------------------------------------------------------------------------
(* StorageError *)

IsRetryable(error) == error \in {"Timeout", "RateLimited", "ServiceUnavailable"}
IsConflict(error) == error = "ConcurrentModification"

\* classify_http_status.  "NotModified" is an outcome of its own and no error.
ClassifyHttpStatus(status) ==
    CASE status = 304 -> "NotModified"
      [] status \in {401, 403} -> "Auth"
      [] status = 404 -> "NotFound"
      [] status = 408 -> "Timeout"
      [] status = 412 -> "ConcurrentModification"
      [] status = 429 -> "RateLimited"
      [] status \in {500, 502, 503, 504} -> "ServiceUnavailable"
      [] OTHER -> "Backend"

-----------------------------------------------------------------------------
(* Failures *)

\* A failure as the client of a provider reports it.  "Refused" is a status the store answered
\* with, under the error code Azure puts beside it; "Unusable" an answer that carried not what
\* was asked for and amounts to the error named; the others never got a whole answer.
Refused(status, code) == [shape |-> "Refused", status |-> status, code |-> code]
Unusable(error) == [shape |-> "Unusable", error |-> error]
NoAnswer == [shape |-> "NoAnswer"]          \* the connection was not made or broke
ClientTimeout == [shape |-> "Timeout"]      \* the timeout of the client itself
Unread == [shape |-> "Unread"]              \* the body of the answer did not arrive whole
Unbuildable == [shape |-> "Unbuildable"]    \* the client could not build the request
Unauthorized(transient) ==                  \* the credentials produced no headers
    [shape |-> "Unauthorized", transient |-> transient]

\* An answer without the version, or with a page that does not parse: S3 and Google Cloud Storage
\* have a failure for it, on Azure it is a conversion error of the SDK.
S3Unusable == Unusable("Backend")
AzureUnusable == [shape |-> "Unconverted"]
GcsUnusable == Unusable("Backend")
UnusableAnswer(provider) == CASE provider = "s3" -> S3Unusable
                              [] provider = "azure" -> AzureUnusable
                              [] provider = "gcs" -> GcsUnusable

\* The error code the service puts beside a status that says what the caller expects.
NoCode == "none"

\* azure_error: a 409 is a lost race only under the codes of one, a 412 a refused condition only
\* under that of one; a lease of somebody else comes under 412 as well.
RefusedByAzure(status, code) ==
    CASE status = 409 /\ code \in {NoCode, "BlobAlreadyExists", "ContainerAlreadyExists"} ->
            "ConcurrentModification"
      [] status = 412 /\ code \notin {NoCode, "ConditionNotMet"} -> "Backend"
      [] OTHER -> ClassifyHttpStatus(status)

\* A 304 that reaches the error mapping is StorageError::Other: nobody asked for it.
Unasked(outcome) == IF outcome = "NotModified" THEN "Other" ELSE outcome

\* map_s3_error and the other arms of S3Failure; a body cut off is not repeated here.
IntoS3Error(failure) ==
    CASE failure.shape = "Refused" -> Unasked(ClassifyHttpStatus(failure.status))
      [] failure.shape = "Timeout" -> "Timeout"
      [] failure.shape = "NoAnswer" -> "ServiceUnavailable"
      [] failure.shape = "Unusable" -> failure.error
      [] OTHER -> "Backend"

\* into_storage_error of azure_core::Error
IntoAzureError(failure) ==
    CASE failure.shape = "Refused" -> Unasked(RefusedByAzure(failure.status, failure.code))
      [] failure.shape \in {"NoAnswer", "Timeout", "Unread"} -> "ServiceUnavailable"
      [] failure.shape = "Unauthorized" -> "Auth"
      [] OTHER -> "Backend"

\* into_storage_error of GcsFailure, map_request_error
IntoGcsError(failure) ==
    CASE failure.shape = "Refused" -> Unasked(ClassifyHttpStatus(failure.status))
      [] failure.shape = "Timeout" -> "Timeout"
      [] failure.shape \in {"NoAnswer", "Unread"} -> "ServiceUnavailable"
      [] failure.shape = "Unauthorized" ->
            IF failure.transient THEN "ServiceUnavailable" ELSE "Auth"
      [] failure.shape = "Unusable" -> failure.error
      [] OTHER -> "Backend"

IntoStorageError(provider, failure) ==
    CASE provider = "s3" -> IntoS3Error(failure)
      [] provider = "azure" -> IntoAzureError(failure)
      [] provider = "gcs" -> IntoGcsError(failure)

\* recorded_status: whether the failure is recorded at all.  Only Google Cloud Storage can tell
\* that a request was never sent, because its headers are produced first.
IsRecorded(provider, failure) == ~(provider = "gcs" /\ failure.shape = "Unauthorized")

IsNotModified(failure) == failure.shape = "Refused" /\ failure.status = 304

\* is_object_gone: S3 answers the deletion of a missing key with success, Azure tells a missing
\* blob from a missing container, Google Cloud Storage does not.
IsObjectGone(provider, failure) ==
    /\ failure.shape = "Refused" /\ failure.status = 404
    /\ \/ provider = "gcs"
       \/ provider = "azure" /\ failure.code \in {NoCode, "BlobNotFound"}

\* settle_refusal: what a failed request amounts to for a caller that named the answer it
\* expects, "Ok" for the one it settled on.
SettleRefusal(provider, failure, expected) ==
    IF \/ expected = "NotModified" /\ IsNotModified(failure)
       \/ expected = "ObjectGone" /\ IsObjectGone(provider, failure)
    THEN "Ok" ELSE IntoStorageError(provider, failure)

\* What each store refuses a request with: a creation that came second ("Exists"), a version that
\* moved on ("Moved"), an object that is not there ("Missing").
S3Refusals(reason) == {Refused(IF reason = "Missing" THEN 404 ELSE 412, NoCode)}
AzureRefusals(reason) ==
    CASE reason = "Exists" -> {Refused(409, "BlobAlreadyExists"), Refused(412, "ConditionNotMet")}
      [] reason = "Moved" -> {Refused(412, "ConditionNotMet")}
      [] reason = "Missing" -> {Refused(404, "BlobNotFound")}
GcsRefusals(reason) == {Refused(IF reason = "Missing" THEN 404 ELSE 412, NoCode)}
RefusalsFor(provider, reason) == CASE provider = "s3" -> S3Refusals(reason)
                                   [] provider = "azure" -> AzureRefusals(reason)
                                   [] provider = "gcs" -> GcsRefusals(reason)

\* Whether each store lists a key under a start: S3 takes it for the last key it leaves out
\* (start_after), the others for the first one they name (startFrom, startOffset).
S3Lists(key, first) == key > first
AzureLists(key, first) == key >= first
GcsLists(key, first) == key >= first

\* Losing the race for a container: S3 and Google Cloud Storage go by the status of the answer,
\* Azure by the error it maps to, which a 409 that says something else is not.
S3LostCreation(failure) == failure.shape = "Refused" /\ failure.status = 409
AzureLostCreation(failure) == IsConflict(IntoAzureError(failure))
GcsLostCreation(failure) == failure.shape = "Refused" /\ failure.status = 409
IsLostCreationRace(provider, failure) == CASE provider = "s3" -> S3LostCreation(failure)
                                           [] provider = "azure" -> AzureLostCreation(failure)
                                           [] provider = "gcs" -> GcsLostCreation(failure)

\* list_objects of Azure builds the pager outside of the request that is sent and recorded.
IsPagerBuiltFirst(provider, request) == provider = "azure" /\ request = "LIST"

\* The failures that have nothing to do with what is stored, one of each kind the mappings tell
\* apart, of a request handed to send_request: one that cannot be built is recorded there too.
Troubles(provider, request) ==
    {Refused(status, NoCode) : status \in {400, 403, 429, 503}} \cup {NoAnswer, Unread}
        \cup (IF IsPagerBuiltFirst(provider, request) THEN {} ELSE {Unbuildable})
        \cup (IF provider = "azure" THEN {Refused(412, "LeaseIdMissing"), Refused(409, "BlobArchived")}
              ELSE {ClientTimeout})

-----------------------------------------------------------------------------
(* Multi-object delete of S3 *)

\* map_delete_failure_code: the error a transient code means, "None" for any other.
MapDeleteFailureCode(code) ==
    CASE code \in {"SlowDown", "RequestLimitExceeded"} -> "RateLimited"
      [] code \in {"RequestTimeout", "RequestTimeoutException"} -> "Timeout"
      [] code \in {"InternalError", "ServiceUnavailable", "PriorRequestNotComplete"} -> "ServiceUnavailable"
      [] OTHER -> "None"

\* Fault: what a batch reports inside its 200 is not looked at.
DeleteFailuresIgnored(codes) == {"Ok"}

\* classify_delete_failures: one transient failure makes the batch one to repeat, and of several
\* the first in the answer names the error; any other is final, none is a success.
ClassifyDeleteFailures(codes) ==
    LET transient == {MapDeleteFailureCode(code) : code \in codes} \ {"None"}
    IN IF codes = {} THEN {"Ok"} ELSE IF transient = {} THEN {"Backend"} ELSE transient

=============================================================================
