--------------------------- MODULE ObjectStorage ----------------------------
(***************************************************************************)
(* The store of job state as its callers see it: src/src/storage/          *)
(* object_storage.rs over the requests of s3.rs, azure.rs and gcs.rs, sent *)
(* by send_request of backend.rs and repeated by src/src/infra/retrier.rs; *)
(* and in_memory.rs, which answers the same calls under one lock.  Callers *)
(* are the pools and cleaners that share the container.  One job.          *)
(*                                                                         *)
(* A request is served at one moment between the moment it is sent and the *)
(* moment it is answered.  One that is given up before it was answered is  *)
(* adrift: the store may still serve it, later or never.                   *)
(***************************************************************************)
EXTENDS StorageBackend, Integers, FiniteSetsExt

CONSTANTS Callers,
          LastIteration,    \* iterations of the job, a bound
          Setups,           \* the configurations and stores looked at
          Histories,        \* lengths of the history a job starts with
          MaxCalls,         \* calls one caller makes, a bound
          MaxAdrift         \* requests that may still be served after they were given up, a bound

ASSUME SizesAssumption ==
    /\ LastIteration \in Nat \ {0} /\ Histories \subseteq 0 .. LastIteration
    /\ MaxCalls \in Nat \ {0} /\ MaxAdrift \in Nat

\* What each provider lets with_list_page_size and with_delete_batch_size set.  Only S3 deletes
\* several keys in one request, and Google Cloud Storage creates a bucket under a project or not
\* at all (build_missing_bucket_policy).
S3Config == [provider : {"s3"}, maxAttempts : Nat, isCreationAllowed : BOOLEAN,
             pageSize : 1 .. 1000, batchSize : 1 .. 1000]
AzureConfig == [provider : {"azure"}, maxAttempts : Nat, isCreationAllowed : BOOLEAN,
                pageSize : 1 .. 5000, batchSize : {1}]
MissingBucketPolicy(config) == IF ~config.isCreationAllowed THEN "Refuse"
                               ELSE IF config.hasProject THEN "Create" ELSE "Invalid"
GcsConfig == {config \in [provider : {"gcs"}, maxAttempts : Nat, isCreationAllowed : BOOLEAN,
                          hasProject : BOOLEAN, pageSize : 1 .. 1000, batchSize : {1}] :
                MissingBucketPolicy(config) # "Invalid"}
MemoryConfig == [provider : {"memory"}]

\* isBoundKept is whether the store honours the start of a listing, isForeign whether an
\* iteration 1 written under another codec is stored beside the job, which memory never holds.
ASSUME SetupsAssumption ==
    Setups \subseteq [config : S3Config \cup AzureConfig \cup GcsConfig,
                     isBoundKept : BOOLEAN, isForeign : BOOLEAN]
                    \cup [config : MemoryConfig, isBoundKept : {TRUE}, isForeign : {FALSE}]

VARIABLES
    setup,      \* the configuration of the pools and their store, which never changes
    container,  \* whether the bucket or container exists
    objects, writes,    \* as in IterationStore
    call,       \* the call each caller is making or made last
    known,      \* the state each caller holds: iteration, version, and the version its bytes are of
    cancelled,  \* whether the token of a caller is cancelled
    adrift,     \* requests nobody waits for that the store may still serve
    calls,      \* calls made by each caller
    steady,     \* iterations stored at every moment of the call since it began
    ousted      \* whether an iteration was deleted since the call began

vars == <<setup, container, objects, writes, call, known, cancelled, adrift, calls, steady, ousted>>

Iterations == 1 .. LastIteration
Store == INSTANCE IterationStore WITH Iterations <- Iterations, objects <- objects, writes <- writes

Nothing == [version |-> 0, base |-> 0]
Stored == {i \in Iterations : objects[i].version # 0}
Newest == Max(Stored \cup {0})

-----------------------------------------------------------------------------
(* Keys *)

\* JobPaths: the name of an iteration carries its number taken from the largest there is, and the
\* extension of the codec, here the parity.  Ascending keys are descending iterations.
LargestNumber == LastIteration + 1
BuildJobIterationPath(i) == 2 * (LargestNumber - i)
IsOfThisCodec(key) == key % 2 = 0

ParseIterNum(key) == LargestNumber - key \div 2
ForeignKey == BuildJobIterationPath(1) + 1

StoredKeys == {BuildJobIterationPath(i) : i \in Stored}
                  \cup (IF setup.isForeign THEN {ForeignKey} ELSE {})

\* listing_start_bound of each provider.
IsStartInclusive(provider) == provider # "s3"

\* Fault: the key of the boundary itself, whatever the provider makes of it.
StartKeyOfBoundary(boundary) == BuildJobIterationPath(boundary)

\* build_listing_start_key
BuildListingStartKey(boundary) ==
    BuildJobIterationPath(IF IsStartInclusive(setup.config.provider) THEN boundary ELSE boundary + 1)

IsPastStart(key, start) == CASE setup.config.provider = "s3" -> S3Lists(key, start)
                             [] setup.config.provider = "azure" -> AzureLists(key, start)
                             [] setup.config.provider = "gcs" -> GcsLists(key, start)

\* list_objects: the keys past the start and the cursor that the store still has to list.
ListableKeys(k) ==
    {key \in StoredKeys : /\ key > k.cursor
                          /\ k.op = "list" /\ setup.isBoundKept =>
                                IsPastStart(key, BuildListingStartKey(k.boundary))}

\* The first of them, as many as fit.
ListedPage(k, size) ==
    {key \in ListableKeys(k) : Cardinality({other \in ListableKeys(k) : other < key}) < size}

-----------------------------------------------------------------------------
(* Calls *)

\* A call as it is started.  "request" is the one it sends next or has in flight.
Started(op, request) ==
    [op |-> op, request |-> request, stage |-> "Ready", iter |-> 0, version |-> 0, base |-> 0,
     boundary |-> 0, cursor |-> 0, found |-> {}, keys |-> {}, attempt |-> 0, sent |-> 0,
     recorded |-> 0, isTroubled |-> FALSE, result |-> "none"]
Unstarted == [Started("none", "none") EXCEPT !.stage = "Done"]

\* The calls that go through Retrier.
IsRetried(op) == op \in {"reach", "get", "save"}
FirstRequest(op) == CASE op = "reach" -> "HEAD" [] op = "get" -> "LIST" [] op = "save" -> "PUT"

\* What a caller of the request named as the answer it expects.
Expected(k) == CASE k.request = "CHANGED" -> "NotModified"
                 [] k.request = "DELETE" /\ setup.config.provider # "s3" -> "ObjectGone"
                 [] OTHER -> "Success"

\* What a caller tells apart in the result of a call, and what it looks at afterwards.
Report(result) == IF result \in {"Ok", "Unchanged", "NotFound", "ConcurrentModification",
                                 "AttemptsSpent", "Cancelled"} THEN result ELSE "Failed"
Ended(k, result) == [k EXCEPT !.stage = "Done", !.result = Report(result), !.request = "none",
                              !.version = 0, !.base = 0, !.cursor = 0, !.keys = {}]
Built == Ended(Started("reach", "HEAD"), "Ok")

\* get_job also repeats a read whose version moved on under it.
IsWorthRepeating(k, error) ==
    /\ IsRetried(k.op)
    /\ IsRetryable(error) \/ (k.op = "get" /\ k.request = "GET" /\ IsConflict(error))

\* Fault: one attempt too many.
RetriedPastBudget(k, error) ==
    IF ~IsWorthRepeating(k, error) THEN Ended(k, error)
    ELSE IF k.attempt > setup.config.maxAttempts
         THEN Ended([k EXCEPT !.attempt = @ + 1], "AttemptsSpent")
         ELSE [k EXCEPT !.attempt = @ + 1, !.stage = "Ready", !.request = FirstRequest(k.op)]

\* Fault: an attempt after the first is conditioned on whatever version is stored by then.
RetriedAtAnyVersion(k, error) ==
    IF ~IsWorthRepeating(k, error) THEN Ended(k, error)
    ELSE IF k.attempt + 1 >= setup.config.maxAttempts
         THEN Ended([k EXCEPT !.attempt = @ + 1], "AttemptsSpent")
         ELSE [k EXCEPT !.attempt = @ + 1, !.stage = "Ready", !.request = FirstRequest(k.op),
                        !.version = IF k.op = "save" THEN objects[k.iter].version ELSE @]

\* Retrier::retry: the attempt failed.  A budget of no attempts still makes one.
Retried(k, error) ==
    IF ~IsWorthRepeating(k, error) THEN Ended(k, error)
    ELSE IF k.attempt + 1 >= setup.config.maxAttempts
         THEN Ended([k EXCEPT !.attempt = @ + 1], "AttemptsSpent")
         ELSE [k EXCEPT !.attempt = @ + 1, !.stage = "Ready", !.request = FirstRequest(k.op)]

\* The request that was in flight is recorded; the container check records nothing.
Recorded(k) == [k EXCEPT !.recorded = IF k.op = "reach" THEN @ ELSE @ + 1]

\* The iterations of the next request of a deletion, in the order of their keys: a batch on S3,
\* one elsewhere.
NextBatch(k) == {i \in k.keys : Cardinality({j \in k.keys : j > i}) < setup.config.batchSize}

-----------------------------------------------------------------------------
\* A caller whose storage is built, or one that is about to build it, which then is the one call
\* it makes; a job that never ran, or one with a history.
Init == /\ setup \in Setups
        /\ container \in BOOLEAN
        /\ writes \in Histories
        /\ objects = [i \in Iterations |->
                IF i > writes \/ (setup.config.provider = "memory" /\ i < writes) THEN Nothing
                ELSE [version |-> i, base |-> 0]]
        /\ writes > 0 \/ setup.isForeign \/ setup.config.provider = "memory" => container
        /\ call \in {[c \in Callers |-> Unstarted], [c \in Callers |-> Built]}
        /\ \A c \in Callers : container \/ call[c] = Unstarted
        /\ calls = [c \in Callers |-> IF call[c] = Built THEN 0 ELSE MaxCalls - 1]
        /\ known = [c \in Callers |-> [iter |-> 0, version |-> 0, body |-> 0]]
        /\ cancelled = [c \in Callers |-> FALSE]
        /\ adrift = {}
        /\ steady = [c \in Callers |-> {}]
        /\ ousted = [c \in Callers |-> FALSE]

Unstored == UNCHANGED <<container, objects, writes>>

-----------------------------------------------------------------------------
(* What callers ask for *)

\* A backend is built, container and all, before anything is asked of it.
IsBuilt(c) == IF call[c].op = "reach" THEN call[c].result = "Ok" ELSE call[c].op # "none"

Begin(c, k) ==
    /\ call[c].stage = "Done" /\ calls[c] < MaxCalls /\ ~cancelled[c]
    /\ call' = [call EXCEPT ![c] = k]
    /\ calls' = [calls EXCEPT ![c] = @ + 1]
    /\ Unstored /\ UNCHANGED <<setup, known, cancelled, adrift>>

BeginReach(c) == /\ call[c].op = "none" /\ setup.config.provider # "memory"
                 /\ Begin(c, Started("reach", "HEAD"))

BeginGet(c) == IsBuilt(c) /\ Begin(c, Started("get", "LIST"))

\* get_changed_job about the state the caller holds.
BeginChanged(c) ==
    /\ IsBuilt(c) /\ known[c].version # 0
    /\ Begin(c, [Started("changed", "CHANGED") EXCEPT !.iter = known[c].iter, !.version = known[c].version])

\* save_job of the state the caller holds, of the iteration after it, or of the first one when
\* the caller was told that there is none.
BeginSave(c) ==
    /\ IsBuilt(c)
    /\ \E k \in { [iter |-> known[c].iter, version |-> known[c].version, base |-> known[c].body],
                  [iter |-> known[c].iter + 1, version |-> 0, base |-> 0] } :
          /\ k.iter \in Iterations
          /\ known[c].iter = 0 => call[c].op = "get" /\ call[c].result = "NotFound"
          /\ Begin(c, [Started("save", "PUT") EXCEPT
                          !.iter = k.iter, !.version = k.version, !.base = k.base])

\* list_job_outdated_iterations: the caller stays below the newest iteration.
BeginList(c) ==
    /\ IsBuilt(c)
    /\ \E boundary \in 1 .. Newest - 1 :
          Begin(c, [Started("list", "LIST") EXCEPT !.boundary = boundary])

\* delete_job_iterations of what the listing found, in its order.
BeginDelete(c) ==
    /\ call[c].op = "list" /\ call[c].result = "Ok" /\ call[c].found # {}
    /\ Begin(c, [Started("delete", "DELETE") EXCEPT
                    !.found = call[c].found, !.keys = call[c].found])

-----------------------------------------------------------------------------
(* Sending *)

\* The token of the container check is one nobody cancels.
IsCancelled(c) == cancelled[c] /\ call[c].op # "reach"

\* send_request_internal: a token already cancelled sends nothing.
Send(c) ==
    /\ call[c].stage = "Ready" /\ setup.config.provider # "memory"
    /\ call' = [call EXCEPT ![c] =
            IF IsCancelled(c) THEN Ended(@, "Cancelled")
            ELSE [@ EXCEPT !.stage = "InFlight", !.sent = call[c].sent + 1]]
    /\ Unstored /\ UNCHANGED <<setup, known, cancelled, adrift, calls>>

\* What a client reports before anything is sent: Google Cloud Storage produces the headers first,
\* and Azure builds the pager of a listing before send_request sees the token.
Unsent(c) ==
    (IF setup.config.provider = "gcs" /\ ~IsCancelled(c)
     THEN {Unauthorized(transient) : transient \in BOOLEAN} ELSE {})
        \cup (IF IsPagerBuiltFirst(setup.config.provider, call[c].request) THEN {Unbuildable} ELSE {})

\* The client prepared no request: nothing is sent or recorded.
NotPrepared(c) ==
    /\ call[c].stage = "Ready"
    /\ \E failure \in Unsent(c) :
          call' = [call EXCEPT ![c] = Retried([@ EXCEPT !.isTroubled = TRUE],
                                              IntoStorageError(setup.config.provider, failure))]
    /\ Unstored /\ UNCHANGED <<setup, known, cancelled, adrift, calls>>

CancelToken(c) ==
    /\ call[c].stage # "Done" /\ ~cancelled[c]
    /\ cancelled' = [cancelled EXCEPT ![c] = TRUE]
    /\ Unstored /\ UNCHANGED <<setup, call, known, adrift, calls>>

-----------------------------------------------------------------------------
(* Serving *)

\* What the store refuses a request with, {} when it serves it.  A creation carries the version 0.
Refusals(r) ==
    LET isThere == objects[r.iter].version # 0
        isAtVersion == objects[r.iter].version = r.version
    IN CASE r.request = "HEAD" -> IF container THEN {} ELSE {Refused(404, NoCode)}
         [] r.request = "CREATE" -> IF container THEN {Refused(409, NoCode)} ELSE {}
         [] r.request = "PUT" ->
                IF isAtVersion THEN {}
                ELSE IF r.version = 0 THEN RefusalsFor(setup.config.provider, "Exists")
                ELSE RefusalsFor(setup.config.provider, "Moved")
                        \cup (IF isThere THEN {} ELSE RefusalsFor(setup.config.provider, "Missing"))
         [] r.request = "GET" ->
                IF ~isThere THEN RefusalsFor(setup.config.provider, "Missing")
                ELSE IF isAtVersion THEN {} ELSE RefusalsFor(setup.config.provider, "Moved")
         [] r.request = "CHANGED" ->
                IF ~isThere THEN RefusalsFor(setup.config.provider, "Missing")
                ELSE IF isAtVersion THEN {Refused(304, NoCode)} ELSE {}
         [] r.request = "DELETE" /\ setup.config.provider # "s3" ->
                IF NextBatch(r) \subseteq Stored THEN {} ELSE RefusalsFor(setup.config.provider, "Missing")
         [] OTHER -> {}

Removed(gone) == [i \in Iterations |-> IF i \in gone THEN Nothing ELSE objects[i]]

\* What serving the request changes in the store.
Serves(r) ==
    IF Refusals(r) # {} THEN Unstored
    ELSE /\ container' = (container \/ r.request = "CREATE")
         /\ writes' = IF r.request = "PUT" THEN writes + 1 ELSE writes
         /\ objects' =
                CASE r.request = "PUT" ->
                        [objects EXCEPT ![r.iter] = [version |-> writes + 1, base |-> r.base]]
                  [] r.request = "DELETE" -> Removed(NextBatch(r))
                  [] OTHER -> objects

\* Fault: an object of another codec is passed over like none.
AfterNewestOfThisCodec(k) ==
    LET first == Min(ListedPage(k, 1))
    IN IF ListedPage(k, 1) = {} THEN Ended(k, "NotFound")
       ELSE IF ~IsOfThisCodec(first) THEN Ended(k, "NotFound")
       ELSE [k EXCEPT !.stage = "Ready", !.request = "GET", !.iter = ParseIterNum(first),
                      !.version = objects[ParseIterNum(first)].version]

\* find_job_meta: the first object is the newest iteration.
AfterNewest(k) ==
    LET first == Min(ListedPage(k, 1))
    IN IF ListedPage(k, 1) = {} THEN Ended(k, "NotFound")
       ELSE IF ~IsOfThisCodec(first) THEN Retried(k, "Other")
       ELSE [k EXCEPT !.stage = "Ready", !.request = "GET", !.iter = ParseIterNum(first),
                      !.version = objects[ParseIterNum(first)].version]

\* list_job_outdated_iterations: of one page, what is of this codec and not above the boundary.
AfterPage(k) ==
    LET page == ListedPage(k, setup.config.pageSize)
        listed == [k EXCEPT !.found = @ \cup {ParseIterNum(key) : key \in
                                {key \in page : /\ IsOfThisCodec(key)
                                                /\ ParseIterNum(key) <= k.boundary}}]
    IN IF page = ListableKeys(k) THEN Ended(listed, "Ok")
       ELSE [listed EXCEPT !.stage = "Ready", !.cursor = Max(page)]

\* delete_objects: the batch is gone, the rest follows.
AfterBatch(k) ==
    LET rest == k.keys \ NextBatch(k)
    IN IF rest = {} THEN Ended([k EXCEPT !.keys = rest], "Ok")
       ELSE [k EXCEPT !.keys = rest, !.stage = "Ready"]

\* The call after the store served its request.
AfterServed(k) ==
    CASE k.request = "LIST" /\ k.op = "get" -> AfterNewest(Recorded(k))
      [] k.request = "LIST" /\ k.op = "list" -> AfterPage(Recorded(k))
      [] k.request = "DELETE" -> AfterBatch(Recorded(k))
      [] OTHER -> Ended(Recorded(k), "Ok")

\* The state the caller holds after the store served its request: its version is the one the
\* condition named, the one in the answer, or the one the write was given.
KnownAfter(k) ==
    CASE k.request = "GET" -> [iter |-> k.iter, version |-> k.version, body |-> objects[k.iter].version]
      [] k.request = "CHANGED" ->
            [iter |-> k.iter, version |-> objects[k.iter].version, body |-> objects[k.iter].version]
      [] k.request = "PUT" -> [iter |-> k.iter, version |-> writes + 1, body |-> writes + 1]

IsAbsent(failure) == failure.shape = "Refused" /\ failure.status = 404

\* Fault: losing the race for the container is a failure.
AfterRefusedRace(k, failure) ==
    IF k.request = "HEAD" /\ IsAbsent(failure)
    THEN IF setup.config.isCreationAllowed THEN [k EXCEPT !.stage = "Ready", !.request = "CREATE"]
         ELSE Ended(k, "Backend")
    ELSE Retried(k, IntoStorageError(setup.config.provider, failure))

\* The container check: a container that is not there is created, and one that another process
\* created meanwhile is as good.
AfterRefusedReach(k, failure) ==
    IF k.request = "HEAD" /\ IsAbsent(failure)
    THEN IF setup.config.isCreationAllowed THEN [k EXCEPT !.stage = "Ready", !.request = "CREATE"]
         ELSE Ended(k, "Backend")
    ELSE IF k.request = "CREATE" /\ IsLostCreationRace(setup.config.provider, failure)
    THEN Ended(k, "Ok")
    ELSE Retried(k, IntoStorageError(setup.config.provider, failure))

\* The call after its request failed.
AfterFailure(k, failure) ==
    IF k.op = "reach" THEN AfterRefusedReach(k, failure)
    ELSE LET outcome == SettleRefusal(setup.config.provider, failure, Expected(k))
             settled == IF IsRecorded(setup.config.provider, failure) THEN Recorded(k) ELSE k
         IN IF outcome # "Ok" THEN Retried(settled, outcome)
            ELSE IF k.request = "DELETE" THEN AfterBatch(settled)
            ELSE Ended(settled, "Unchanged")

-----------------------------------------------------------------------------
(* Answers *)

IsWaiting(c) == call[c].stage = "InFlight" /\ ~IsCancelled(c)

\* The store serves or refuses the request and the answer arrives.
Answered(c) ==
    /\ IsWaiting(c)
    /\ Serves(call[c])
    /\ IF Refusals(call[c]) = {}
       THEN /\ call' = [call EXCEPT ![c] = AfterServed(@)]
            /\ known' = IF call[c].request \in {"GET", "CHANGED", "PUT"}
                        THEN [known EXCEPT ![c] = KnownAfter(call[c])] ELSE known
       ELSE /\ \E failure \in Refusals(call[c]) :
                  call' = [call EXCEPT ![c] = AfterFailure(@, failure)]
            /\ UNCHANGED known
    /\ UNCHANGED <<setup, cancelled, adrift, calls>>

\* The store served the request and its answer does not carry what was asked for: a write or a
\* read without a version, a listing that does not parse or names an object without one, a state
\* that does not decode.
AnswersUnusably(c) ==
    /\ IsWaiting(c) /\ call[c].op # "reach" /\ call[c].request # "DELETE"
    /\ Refusals(call[c]) = {} /\ Serves(call[c])
    /\ call' = [call EXCEPT ![c] =
            AfterFailure([@ EXCEPT !.isTroubled = TRUE],
                         UnusableAnswer(setup.config.provider))]
    /\ UNCHANGED <<setup, known, cancelled, adrift, calls>>

\* A deletion of several keys on S3 answers 200 and names the keys it did not delete.
DeletesInPart(c) ==
    /\ IsWaiting(c) /\ call[c].request = "DELETE"
    /\ setup.config.provider = "s3" /\ Cardinality(call[c].found) > 1
    /\ \E kept \in (SUBSET NextBatch(call[c])) \ {{}} :
          /\ objects' = Removed(NextBatch(call[c]) \ kept)
          /\ \E codes \in (SUBSET {"SlowDown", "AccessDenied"}) \ {{}} :
                /\ Cardinality(codes) <= Cardinality(kept)
                /\ \E outcome \in ClassifyDeleteFailures(codes) :
                      call' = [call EXCEPT ![c] =
                            IF outcome = "Ok" THEN AfterBatch(Recorded(@))
                            ELSE Retried([Recorded(@) EXCEPT !.isTroubled = TRUE], outcome)]
    /\ UNCHANGED <<setup, container, writes, known, cancelled, adrift, calls>>

\* A request that changes something, given up before it was answered.
Drifting(k) ==
    IF k.request \in {"CREATE", "PUT", "DELETE"} /\ Cardinality(adrift) < MaxAdrift
    THEN {[request |-> k.request, iter |-> k.iter, version |-> k.version, base |-> k.base,
           keys |-> IF k.request = "DELETE" THEN NextBatch(k) ELSE {}]}
    ELSE {}

\* The store refused the request for a reason of its own, or the client gave it up under way:
\* without an answer nobody knows whether it was served.
Fails(c) ==
    /\ IsWaiting(c)
    /\ \E failure \in Troubles(setup.config.provider, call[c].request) :
          /\ call' = [call EXCEPT ![c] = AfterFailure([@ EXCEPT !.isTroubled = TRUE], failure)]
          /\ adrift' = IF failure.shape \in {"Refused", "Unbuildable"} THEN adrift
                       ELSE adrift \cup Drifting(call[c])
    /\ Unstored /\ UNCHANGED <<setup, known, cancelled, calls>>

\* request_timeout passed.
TimesOut(c) ==
    /\ IsWaiting(c)
    /\ call' = [call EXCEPT ![c] = Retried(Recorded([@ EXCEPT !.isTroubled = TRUE]), "Timeout")]
    /\ adrift' = adrift \cup Drifting(call[c])
    /\ Unstored /\ UNCHANGED <<setup, known, cancelled, calls>>

\* The token was cancelled under the request.  send_request records it; Retrier, when it is the
\* one that notices, drops the request unrecorded.
LetGo(c) ==
    /\ call[c].stage = "InFlight" /\ IsCancelled(c)
    /\ \E k \in {Recorded(call[c])} \cup (IF IsRetried(call[c].op) THEN {call[c]} ELSE {}) :
          call' = [call EXCEPT ![c] = Ended(k, "Cancelled")]
    /\ adrift' = adrift \cup Drifting(call[c])
    /\ Unstored /\ UNCHANGED <<setup, known, cancelled, calls>>

\* The store serves a request nobody waits for any more.
ServesAdrift ==
    \E r \in adrift :
        /\ Serves(r)
        /\ adrift' = adrift \ {r}
        /\ UNCHANGED <<setup, call, known, cancelled, calls>>

-----------------------------------------------------------------------------
(* InMemoryStorage *)

\* is_save_allowed
IsSaveAllowed(k) == IF k.version = 0 THEN k.iter = Newest + 1
                    ELSE objects[k.iter].version = k.version

\* Every call is answered at once, under the lock.
ServedInMemory(c) ==
    /\ call[c].stage = "Ready" /\ setup.config.provider = "memory"
    /\ UNCHANGED <<setup, container, cancelled, adrift, calls>>
    /\ \/ /\ IsCancelled(c)
          /\ call' = [call EXCEPT ![c] = Ended(@, "Cancelled")]
          /\ UNCHANGED <<objects, writes, known>>
       \/ /\ ~IsCancelled(c) /\ call[c].op = "get"
          /\ call' = [call EXCEPT ![c] = Ended([@ EXCEPT !.iter = Newest],
                                               IF Newest = 0 THEN "NotFound" ELSE "Ok")]
          /\ known' = IF Newest = 0 THEN known
                      ELSE [known EXCEPT ![c] = [iter |-> Newest, version |-> objects[Newest].version,
                                                 body |-> objects[Newest].version]]
          /\ UNCHANGED <<objects, writes>>
       \/ /\ ~IsCancelled(c) /\ call[c].op = "changed"
          /\ call' = [call EXCEPT ![c] = Ended(@, IF @.iter \notin Stored THEN "NotFound"
                                                  ELSE IF objects[@.iter].version = @.version
                                                  THEN "Unchanged" ELSE "Ok")]
          /\ known' = IF call[c].iter \in Stored
                      THEN [known EXCEPT ![c] = [KnownAfter(call[c]) EXCEPT !.iter = call[c].iter]]
                      ELSE known
          /\ UNCHANGED <<objects, writes>>
       \/ /\ ~IsCancelled(c) /\ call[c].op = "save"
          /\ IF IsSaveAllowed(call[c])
             THEN /\ call' = [call EXCEPT ![c] = Ended(@, "Ok")]
                  /\ known' = [known EXCEPT ![c] = KnownAfter(call[c])]
                  /\ writes' = writes + 1
                  /\ objects' = [i \in Iterations |->
                        IF i = call[c].iter THEN [version |-> writes + 1, base |-> call[c].base]
                        ELSE Nothing]
             ELSE /\ call' = [call EXCEPT ![c] = Ended(@, "ConcurrentModification")]
                  /\ UNCHANGED <<objects, writes, known>>
       \/ /\ ~IsCancelled(c) /\ call[c].op \in {"list", "delete"}
          /\ call' = [call EXCEPT ![c] = Ended(@, "Ok")]
          /\ UNCHANGED <<objects, writes, known>>

-----------------------------------------------------------------------------
Begins(c) == \/ BeginReach(c) \/ BeginGet(c) \/ BeginChanged(c)
             \/ BeginSave(c) \/ BeginList(c) \/ BeginDelete(c)

Continues(c) == \/ Send(c) \/ NotPrepared(c) \/ Answered(c) \/ AnswersUnusably(c)
                \/ DeletesInPart(c) \/ Fails(c) \/ TimesOut(c) \/ LetGo(c) \/ ServedInMemory(c)

\* What was stored at every moment of a call, from the one it began at.
Watch == LET Storedp == {i \in Iterations : objects'[i].version # 0}
         IN /\ steady' = [c \in Callers |->
                    IF calls'[c] # calls[c] THEN Storedp
                    ELSE IF call[c].stage = "Done" THEN steady[c] ELSE steady[c] \cap Storedp]
            /\ ousted' = [c \in Callers |->
                    IF calls'[c] # calls[c] THEN FALSE
                    ELSE IF call[c].stage = "Done" THEN ousted[c]
                    ELSE ousted[c] \/ Stored \ Storedp # {}]

Next == /\ \/ \E c \in Callers : Begins(c) \/ Continues(c) \/ CancelToken(c)
           \/ ServesAdrift
        /\ Watch

Spec == Init /\ [][Next]_vars

-----------------------------------------------------------------------------
(* Properties *)

Results == {"none", "Ok", "Unchanged", "NotFound", "ConcurrentModification", "AttemptsSpent",
            "Cancelled", "Failed"}

\* The variables keep their types.
TypeOK ==
    /\ setup \in Setups /\ container \in BOOLEAN /\ writes \in Nat
    /\ objects \in [Iterations -> [version : 0 .. writes, base : 0 .. writes]]
    /\ \A c \in Callers :
          /\ call[c].stage \in {"Ready", "InFlight", "Done"} /\ call[c].result \in Results
          /\ call[c].found \subseteq Iterations /\ call[c].keys \subseteq Iterations
          /\ known[c].iter \in 0 .. LastIteration /\ known[c].version \in 0 .. writes
    /\ cancelled \in [Callers -> BOOLEAN]
    /\ steady \in [Callers -> SUBSET Iterations] /\ ousted \in [Callers -> BOOLEAN]

\* Whatever is lost, repeated, delayed or let go of between save_job and the store, a state is only
\* ever written over the one it was derived from, and the newest iteration stays: every store of
\* the crate is the abstract one.
IsAnIterationStore == Store!Spec

IsDone(c, op, result) == call[c].stage = "Done" /\ call[c].op = op /\ call[c].result = result

\* get_job and get_changed_job never hand out the bytes of one version under the name of another,
\* which the next save would be conditioned on.
StateIsWhole == \A c \in Callers : known[c].body = known[c].version

\* get_job answers with an iteration that nothing newer stood beside all the while, and says that
\* there is no job only when there was none, or when an iteration was deleted under it: neither a
\* failure nor an object of another codec makes a worker start the job over.
ReadIsOfTheNewest ==
    \A c \in Callers :
        /\ IsDone(c, "get", "Ok") => \A i \in steady[c] : i <= call[c].iter
        /\ IsDone(c, "get", "NotFound") => ousted[c] \/ (steady[c] = {} /\ ~setup.isForeign)

\* What get_job and get_changed_job hand out is one version of the newest iteration, however the
\* requests of a read fall between the writes and deletions of others.
ReadIsTrue == StateIsWhole /\ ReadIsOfTheNewest

\* list_job_outdated_iterations over several pages, with iterations coming and going between them,
\* misses none that was there all the while and names none above the boundary.
ListingIsExact ==
    \A c \in Callers : IsDone(c, "list", "Ok") =>
        /\ call[c].found \subseteq 1 .. call[c].boundary
        /\ setup.config.provider # "memory" => steady[c] \cap 1 .. call[c].boundary \subseteq call[c].found

\* delete_job_iterations answers with success only when every iteration named was gone, however
\* many requests it took, whoever else deletes, and whatever a batch reported in its answer.
DeletedIsGone ==
    \A c \in Callers : IsDone(c, "delete", "Ok") => steady[c] \cap call[c].found = {}

\* One failure of one key fails a deletion, and a key that was gone already does not.
DeletionFailsForACause ==
    \A c \in Callers : call[c].op = "delete" /\ call[c].stage = "Done" /\ ~call[c].isTroubled =>
        call[c].result \in {"Ok", "Cancelled"}

\* What delete_job_iterations answers is so: success means gone, and a failure has a cause that is
\* neither a lost race with another cleaner nor a batch that went through.
DeletionIsTrue == DeletedIsGone /\ DeletionFailsForACause

\* A request is recorded once, whatever ends it; the only one that is not is the last one of a
\* call that Retrier let go of.
RequestsAreRecorded ==
    \A c \in Callers : call[c].op # "reach" /\ call[c].stage # "InFlight" =>
        \/ call[c].recorded = call[c].sent
        \/ /\ IsRetried(call[c].op) /\ call[c].result = "Cancelled"
           /\ call[c].recorded = call[c].sent - 1

\* What a call may cost: no attempt beyond the budget, not one fewer before it is declared spent,
\* one request per page and per batch.
CostIsBounded ==
    \A c \in Callers : setup.config.provider # "memory" =>
        LET attempts == Max({1, setup.config.maxAttempts})
            k == call[c]
        IN /\ k.result = "AttemptsSpent" => k.attempt = attempts
           /\ k.sent <= CASE k.op \in {"reach", "get"} -> 2 * attempts
                          [] k.op = "save" -> attempts
                          [] k.op = "list" -> LastIteration \div setup.config.pageSize + 1
                          [] k.op = "delete" -> Cardinality(k.found)
                          [] OTHER -> 1

\* Retrier, send_request and the recording agree on the requests of a call: none beyond the budget
\* is sent, and none that was sent goes unrecorded but one Retrier itself let go of.
RequestsAreAccountedFor == RequestsAreRecorded /\ CostIsBounded

\* A pool that may create its container starts over one, whoever created it, unless the store
\* failed; and a pool that started has one.
PoolHasAContainer ==
    \A c \in Callers :
        /\ IsDone(c, "reach", "Ok") => container
        /\ call[c].op = "reach" /\ call[c].stage = "Done" /\ call[c].result # "Ok" =>
              call[c].isTroubled \/ ~setup.config.isCreationAllowed

=============================================================================
