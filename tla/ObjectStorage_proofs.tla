------------------------ MODULE ObjectStorage_proofs ------------------------
(***************************************************************************)
(* What holds of the store of job state for every number of callers, calls *)
(* and iterations, every configuration of every provider, and every number *)
(* of requests that are served after they were given up.                   *)
(***************************************************************************)
EXTENDS ObjectStorage, Extrema, FiniteSetTheorems, TLAPS

-----------------------------------------------------------------------------
(* The store *)

Provider == setup.config.provider
IsMemory == Provider = "memory"

\* What a configuration fixes of each provider.
SetupIsKnown ==
    /\ Provider \in {"s3", "azure", "gcs", "memory"}
    /\ setup.isForeign \in BOOLEAN /\ setup.isBoundKept \in BOOLEAN
    /\ IsMemory => ~setup.isForeign
    /\ ~IsMemory => /\ setup.config.pageSize \in Nat \ {0} /\ setup.config.batchSize \in Nat \ {0}
                    /\ setup.config.maxAttempts \in Nat
    /\ Provider \in {"azure", "gcs"} => setup.config.batchSize = 1

LEMMA S3ConfigSizes ==
    ASSUME NEW config \in S3Config
    PROVE  /\ config.provider = "s3"
           /\ config.pageSize \in Nat \ {0} /\ config.batchSize \in Nat \ {0}
           /\ config.maxAttempts \in Nat
  <1> DEFINE size == config.pageSize
             batch == config.batchSize
  <1>1. config.provider = "s3" /\ size \in 1 .. 1000 /\ batch \in 1 .. 1000 /\ config.maxAttempts \in Nat
    BY DEF S3Config
  <1> HIDE DEF size, batch
  <1>2. size \in Nat \ {0} /\ batch \in Nat \ {0}
    BY <1>1
  <1>3. QED
    BY <1>1, <1>2 DEF size, batch

LEMMA AzureConfigSizes ==
    ASSUME NEW config \in AzureConfig
    PROVE  /\ config.provider = "azure"
           /\ config.pageSize \in Nat \ {0} /\ config.batchSize \in Nat \ {0}
           /\ config.maxAttempts \in Nat
  <1> DEFINE size == config.pageSize
             batch == config.batchSize
  <1>1. config.provider = "azure" /\ size \in 1 .. 5000 /\ batch = 1 /\ config.maxAttempts \in Nat
    BY DEF AzureConfig
  <1> HIDE DEF size, batch
  <1>2. size \in Nat \ {0} /\ batch \in Nat \ {0}
    BY <1>1
  <1>3. QED
    BY <1>1, <1>2 DEF size, batch

LEMMA SetupsAreKnown == setup \in Setups => SetupIsKnown
  <1> SUFFICES ASSUME setup \in Setups PROVE SetupIsKnown
    OBVIOUS
  <1>1. CASE setup \in [config : MemoryConfig, isBoundKept : {TRUE}, isForeign : {FALSE}]
    BY <1>1 DEF SetupIsKnown, Provider, IsMemory, MemoryConfig
  <1>2. CASE setup \in [config : S3Config, isBoundKept : BOOLEAN, isForeign : BOOLEAN]
    <2>1. /\ setup.config \in S3Config /\ setup.isForeign \in BOOLEAN /\ setup.isBoundKept \in BOOLEAN
      BY <1>2
    <2>2. /\ setup.config.provider = "s3"
          /\ setup.config.pageSize \in Nat \ {0} /\ setup.config.batchSize \in Nat \ {0}
          /\ setup.config.maxAttempts \in Nat
      BY <2>1, S3ConfigSizes
    <2>3. QED
      BY <2>1, <2>2 DEF SetupIsKnown, Provider, IsMemory
  <1>3. CASE setup \in [config : AzureConfig, isBoundKept : BOOLEAN, isForeign : BOOLEAN]
    <2>1. /\ setup.config \in AzureConfig /\ setup.isForeign \in BOOLEAN /\ setup.isBoundKept \in BOOLEAN
      BY <1>3
    <2>2. /\ setup.config.provider = "azure"
          /\ setup.config.pageSize \in Nat \ {0} /\ setup.config.batchSize \in Nat \ {0}
          /\ setup.config.maxAttempts \in Nat
      BY <2>1, AzureConfigSizes
    <2>3. setup.config.batchSize = 1
      BY <2>1 DEF AzureConfig
    <2>4. QED
      BY <2>1, <2>2, <2>3 DEF SetupIsKnown, Provider, IsMemory
  <1>4. CASE setup \in [config : GcsConfig, isBoundKept : BOOLEAN, isForeign : BOOLEAN]
    <2>1. /\ setup.config \in GcsConfig /\ setup.isForeign \in BOOLEAN /\ setup.isBoundKept \in BOOLEAN
      BY <1>4
    <2>2. /\ setup.config.provider = "gcs"
          /\ setup.config.pageSize \in Nat \ {0} /\ setup.config.batchSize \in Nat \ {0}
          /\ setup.config.maxAttempts \in Nat
      BY <2>1 DEF GcsConfig
    <2>3. setup.config.batchSize = 1
      BY <2>1 DEF GcsConfig
    <2>4. QED
      BY <2>1, <2>2, <2>3 DEF SetupIsKnown, Provider, IsMemory
  <1>5. QED
    BY <1>1, <1>2, <1>3, <1>4, SetupsAssumption

\* What is stored, and that an iteration is behind the newest one.
StoredIn(objs) == {i \in Iterations : objs[i].version # 0}
IsPast(i, objs) == \E j \in StoredIn(objs) : j > i

\* An iteration is stored or it left nothing behind; memory keeps one.
StoreIsSound(objs) ==
    /\ objs \in [Iterations -> [version : Nat, base : Nat]]
    /\ \A i \in Iterations : objs[i].version = 0 => objs[i] = Nothing
    /\ IsMemory => \A i, j \in StoredIn(objs) : i = j

\* The newest iteration never goes back.
Advances(objs, next) == \A i \in StoredIn(objs) : \E j \in StoredIn(next) : j >= i

\* A request that carries a state names the version the state was derived from, and one that
\* deletes stays behind the newest iteration.
RequestIsSound(r, objs) ==
    /\ r.request = "PUT" => r.iter \in Iterations /\ r.base = r.version
    /\ r.request = "DELETE" => \A i \in r.keys : i \in Iterations /\ IsPast(i, objs)

LEMMA NewestExists ==
    ASSUME NEW objs, StoredIn(objs) # {}
    PROVE  \E m \in StoredIn(objs) : \A j \in StoredIn(objs) : j <= m
  <1>1. StoredIn(objs) \in SUBSET (0 .. LastIteration) /\ LastIteration \in Nat
    BY SizesAssumption DEF StoredIn, Iterations
  <1>2. QED
    BY <1>1, MaxExists

LEMMA NewestIsGreatest ==
    /\ Newest \in 0 .. LastIteration
    /\ \A j \in Stored : j <= Newest
    /\ Newest # 0 => Newest \in Stored
    /\ Newest = 0 => Stored = {}
  <1>1. /\ Stored \cup {0} \in SUBSET (0 .. LastIteration) /\ LastIteration \in Nat
        /\ Stored \subseteq Nat \ {0}
    BY SizesAssumption DEF Stored, Iterations
  <1>2. Newest \in Stored \cup {0} /\ \A j \in Stored \cup {0} : j <= Newest
    BY <1>1, MaxIsGreatest DEF Newest
  <1>3. QED
    BY <1>1, <1>2

LEMMA PastStaysPast ==
    ASSUME NEW objs, NEW next, Advances(objs, next), NEW i \in Int, IsPast(i, objs)
    PROVE  IsPast(i, next)
  <1>1. PICK j \in StoredIn(objs) : j > i
    BY DEF IsPast
  <1>2. PICK m \in StoredIn(next) : m >= j
    BY <1>1 DEF Advances
  <1>3. j \in Int /\ m \in Int
    BY SizesAssumption DEF StoredIn, Iterations
  <1>4. QED
    BY <1>1, <1>2, <1>3 DEF IsPast

\* Writing a state over the one it was derived from.
LEMMA WriteIsAllowed ==
    ASSUME StoreIsSound(objects), writes \in Nat, ~IsMemory, setup' = setup, NEW i \in Iterations,
           objects' = [objects EXCEPT ![i] = [version |-> writes + 1, base |-> objects[i].version]],
           writes' = writes + 1
    PROVE  Store!Next /\ StoreIsSound(objects)' /\ Advances(objects, objects') /\ writes' \in Nat
  <1>1. Store!Write(i)
    BY DEF Store!Write
  <1>2. Store!Next
    BY <1>1 DEF Store!Next
  <1>3. /\ objects'[i] = [version |-> writes + 1, base |-> objects[i].version]
        /\ \A j \in Iterations \ {i} : objects'[j] = objects[j]
        /\ objects' \in [Iterations -> [version : Nat, base : Nat]]
    BY DEF StoreIsSound
  <1>4. StoreIsSound(objects)'
    BY <1>3 DEF StoreIsSound, IsMemory, Provider
  <1>5. \A j \in StoredIn(objects) : j \in StoredIn(objects') /\ j >= j
    BY <1>3, SizesAssumption DEF StoredIn, Iterations
  <1>6. Advances(objects, objects')
    BY <1>5 DEF Advances
  <1>7. QED
    BY <1>2, <1>4, <1>6

\* Deleting iterations that are behind the newest one.
LEMMA DeleteIsAllowed ==
    ASSUME StoreIsSound(objects), setup' = setup, NEW gone, \A i \in gone : IsPast(i, objects),
           objects' = Removed(gone), writes' = writes
    PROVE  Store!Next /\ StoreIsSound(objects)' /\ Advances(objects, objects')
  <1>1. \A j \in Iterations : objects'[j] = IF j \in gone THEN Nothing ELSE objects[j]
    BY DEF Removed
  <1>2. StoredIn(objects') = StoredIn(objects) \ gone
    BY <1>1 DEF StoredIn, Nothing
  <1>3. StoreIsSound(objects)'
    <2>1. objects' \in [Iterations -> [version : Nat, base : Nat]]
      BY DEF StoreIsSound, Removed, Nothing
    <2>2. \A i \in Iterations : objects'[i].version = 0 => objects'[i] = Nothing
      BY <1>1 DEF StoreIsSound
    <2>3. IsMemory' => \A i, j \in StoredIn(objects') : i = j
      BY <1>2 DEF StoreIsSound, IsMemory, Provider
    <2>4. QED
      BY <2>1, <2>2, <2>3 DEF StoreIsSound
  <1>4. Advances(objects, objects')
    <2> SUFFICES ASSUME NEW i \in StoredIn(objects) PROVE \E j \in StoredIn(objects') : j >= i
      BY DEF Advances
    <2>1. PICK m \in StoredIn(objects) : \A j \in StoredIn(objects) : j <= m
      BY NewestExists
    <2>2. \A j \in StoredIn(objects) : j \in Int
      BY SizesAssumption DEF StoredIn, Iterations
    <2>3. m \notin gone
      BY <2>1, <2>2 DEF IsPast
    <2>4. m >= i
      BY <2>1, <2>2
    <2>5. QED
      BY <1>2, <2>1, <2>3, <2>4
  <1>5. Store!Next
    <2> DEFINE those == gone \cap StoredIn(objects)
    <2>1. Store!Stored = StoredIn(objects)
      BY DEF Store!Stored, StoredIn
    <2>2. \A i \in those : ~Store!IsNewest(i)
      <3>1. \A j \in StoredIn(objects) : j \in Int
        BY SizesAssumption DEF StoredIn, Iterations
      <3>2. QED
        BY <2>1, <3>1 DEF Store!IsNewest, IsPast
    <2>3. objects' = [i \in Iterations |-> IF i \in those THEN Store!Nothing ELSE objects[i]]
      <3>1. Store!Nothing = Nothing
        BY DEF Store!Nothing, Nothing
      <3>2. \A i \in Iterations : (IF i \in gone THEN Nothing ELSE objects[i])
                                    = (IF i \in those THEN Nothing ELSE objects[i])
        BY DEF StoreIsSound, StoredIn
      <3>3. QED
        BY <3>1, <3>2 DEF Removed
    <2>4. Store!Delete(those)
      BY <2>1, <2>2, <2>3 DEF Store!Delete
    <2>5. QED
      BY <2>1, <2>4 DEF Store!Next
  <1>6. QED
    BY <1>3, <1>4, <1>5

LEMMA UnstoredIsAllowed ==
    ASSUME StoreIsSound(objects), setup' = setup, objects' = objects
    PROVE  StoreIsSound(objects)' /\ Advances(objects, objects')
  <1>1. StoreIsSound(objects)'
    BY DEF StoreIsSound, IsMemory, Provider
  <1>2. \A j \in StoredIn(objects) : j \in Int
    BY SizesAssumption DEF StoredIn, Iterations
  <1>3. QED
    BY <1>1, <1>2 DEF Advances

\* Whatever request the store serves, it stays the store it promises to be.
LEMMA ServesIsAllowed ==
    ASSUME SetupIsKnown, StoreIsSound(objects), writes \in Nat, ~IsMemory, setup' = setup,
           container \in BOOLEAN,
           NEW r, RequestIsSound(r, objects), Serves(r)
    PROVE  /\ Store!Next \/ UNCHANGED <<objects, writes>>
           /\ StoreIsSound(objects)' /\ Advances(objects, objects') /\ writes' \in Nat
           /\ container' \in BOOLEAN /\ (container => container')
  <1>1. CASE Refusals(r) # {}
    <2>1. UNCHANGED <<container, objects, writes>>
      BY <1>1 DEF Serves, Unstored
    <2>2. QED
      BY <2>1, UnstoredIsAllowed
  <1>2. CASE Refusals(r) = {}
    <2>1. container' \in BOOLEAN /\ (container => container')
      BY <1>2 DEF Serves
    <2>2. CASE r.request = "PUT"
      <3>1. objects[r.iter].version = r.version
        BY <1>2, <2>2 DEF Refusals, SetupIsKnown, IsMemory, Provider, RefusalsFor, S3Refusals, AzureRefusals, GcsRefusals
      <3>2. /\ r.iter \in Iterations /\ r.base = objects[r.iter].version
            /\ objects' = [objects EXCEPT ![r.iter] = [version |-> writes + 1, base |-> objects[r.iter].version]]
            /\ writes' = writes + 1
        BY <1>2, <2>2, <3>1 DEF Serves, RequestIsSound
      <3>3. QED
        BY <2>1, <3>2, WriteIsAllowed
    <2>3. CASE r.request = "DELETE"
      <3>1. objects' = Removed(NextBatch(r)) /\ writes' = writes
        BY <1>2, <2>3 DEF Serves
      <3>2. \A i \in NextBatch(r) : IsPast(i, objects)
        BY <2>3 DEF NextBatch, RequestIsSound
      <3>3. QED
        BY <2>1, <3>1, <3>2, DeleteIsAllowed
    <2>4. CASE r.request \notin {"PUT", "DELETE"}
      <3>1. objects' = objects /\ writes' = writes
        BY <1>2, <2>4 DEF Serves
      <3>2. QED
        BY <2>1, <3>1, UnstoredIsAllowed
    <2>5. QED
      BY <2>2, <2>3, <2>4
  <1>3. QED
    BY <1>1, <1>2

-----------------------------------------------------------------------------
(* Calls *)

CallRecord ==
    [op : {"none", "reach", "get", "changed", "save", "list", "delete"},
     request : {"none", "HEAD", "CREATE", "LIST", "GET", "CHANGED", "PUT", "DELETE"},
     stage : {"Ready", "InFlight", "Done"}, iter : 0 .. LastIteration, version : Nat, base : Nat,
     boundary : 0 .. LastIteration, cursor : Nat, found : SUBSET Iterations, keys : SUBSET Iterations,
     attempt : Nat, sent : Nat, recorded : Nat, isTroubled : BOOLEAN, result : Results]

\* What the store and the listing depend on is the same in two calls.
SameCall(k, l) ==
    /\ l.op = k.op /\ l.iter = k.iter /\ l.boundary = k.boundary /\ l.found = k.found

LEMMA StartedIsCall ==
    ASSUME NEW op \in {"none", "reach", "get", "changed", "save", "list", "delete"},
           NEW request \in {"none", "HEAD", "CREATE", "LIST", "GET", "CHANGED", "PUT", "DELETE"}
    PROVE  Started(op, request) \in CallRecord
  BY SizesAssumption DEF Started, CallRecord, Results

LEMMA EndedFields ==
    ASSUME NEW k \in CallRecord, NEW result
    PROVE  LET e == Ended(k, result)
           IN /\ e \in CallRecord /\ SameCall(k, e)
              /\ e.stage = "Done" /\ e.request = "none" /\ e.result = Report(result)
              /\ e.sent = k.sent /\ e.recorded = k.recorded /\ e.isTroubled = k.isTroubled
              /\ e.cursor = 0 /\ e.attempt = k.attempt
  <1>1. Report(result) \in Results
    BY DEF Report, Results
  <1>2. Ended(k, result) \in CallRecord
    BY <1>1 DEF Ended, CallRecord
  <1>3. QED
    BY <1>2 DEF Ended, CallRecord, SameCall

LEMMA RecordedFields ==
    ASSUME NEW k \in CallRecord
    PROVE  LET e == Recorded(k)
           IN /\ e \in CallRecord /\ SameCall(k, e)
              /\ e.stage = k.stage /\ e.request = k.request /\ e.result = k.result
              /\ e.sent = k.sent /\ e.isTroubled = k.isTroubled /\ e.attempt = k.attempt
              /\ e.cursor = k.cursor /\ e.keys = k.keys /\ e.version = k.version /\ e.base = k.base
              /\ e.recorded = IF k.op = "reach" THEN k.recorded ELSE k.recorded + 1
  BY DEF Recorded, CallRecord, SameCall

LEMMA TroubledFields ==
    ASSUME NEW k \in CallRecord
    PROVE  LET e == [k EXCEPT !.isTroubled = TRUE]
           IN /\ e \in CallRecord /\ SameCall(k, e)
              /\ e.stage = k.stage /\ e.request = k.request /\ e.result = k.result
              /\ e.sent = k.sent /\ e.isTroubled = TRUE /\ e.recorded = k.recorded /\ e.attempt = k.attempt
              /\ e.cursor = k.cursor /\ e.keys = k.keys /\ e.version = k.version /\ e.base = k.base
  BY DEF CallRecord, SameCall

LEMMA RetriedFields ==
    ASSUME NEW k \in CallRecord, NEW error
    PROVE  LET e == Retried(k, error)
           IN \/ e = Ended(k, error)
              \/ \E spent \in CallRecord :
                    /\ SameCall(k, spent) /\ spent.isTroubled = k.isTroubled
                    /\ spent.sent = k.sent /\ spent.recorded = k.recorded /\ spent.stage = k.stage
                    /\ spent.request = k.request /\ spent.attempt = k.attempt + 1
                    /\ IsRetried(k.op) /\ k.attempt + 1 >= setup.config.maxAttempts
                    /\ e = Ended(spent, "AttemptsSpent")
              \/ /\ IsRetried(k.op) /\ ~(k.attempt + 1 >= setup.config.maxAttempts)
                 /\ e \in CallRecord /\ SameCall(k, e) /\ e.attempt = k.attempt + 1
                 /\ e.stage = "Ready" /\ e.request = FirstRequest(k.op) /\ e.result = k.result
                 /\ e.sent = k.sent /\ e.isTroubled = k.isTroubled /\ e.recorded = k.recorded
                 /\ e.cursor = k.cursor /\ e.keys = k.keys /\ e.version = k.version /\ e.base = k.base
  <1>1. CASE ~IsWorthRepeating(k, error)
    BY <1>1 DEF Retried
  <1>2. CASE IsWorthRepeating(k, error) /\ k.attempt + 1 >= setup.config.maxAttempts
    <2> DEFINE spent == [k EXCEPT !.attempt = @ + 1]
    <2>1. /\ spent \in CallRecord /\ SameCall(k, spent) /\ spent.isTroubled = k.isTroubled
          /\ spent.sent = k.sent /\ spent.recorded = k.recorded /\ spent.stage = k.stage
          /\ spent.request = k.request /\ spent.attempt = k.attempt + 1
      BY DEF CallRecord, SameCall
    <2>2. Retried(k, error) = Ended(spent, "AttemptsSpent") /\ IsRetried(k.op)
      BY <1>2 DEF Retried, IsWorthRepeating
    <2> HIDE DEF spent
    <2>3. QED
      BY <1>2, <2>1, <2>2
  <1>3. CASE IsWorthRepeating(k, error) /\ ~(k.attempt + 1 >= setup.config.maxAttempts)
    <2> DEFINE first == FirstRequest(k.op)
               again == [k EXCEPT !.attempt = @ + 1, !.stage = "Ready", !.request = first]
    <2>1. Retried(k, error) = again
      BY <1>3 DEF Retried
    <2>2. IsRetried(k.op)
      BY <1>3 DEF IsWorthRepeating
    <2>3. first \in {"HEAD", "LIST", "PUT"}
      BY <2>2 DEF IsRetried, FirstRequest
    <2> HIDE DEF first
    <2>4. again \in CallRecord
      <3> DEFINE more == k.attempt + 1
      <3>1. again = [k EXCEPT !.attempt = more, !.stage = "Ready", !.request = first]
        OBVIOUS
      <3>2. more \in Nat
        BY DEF CallRecord
      <3>3. first \in {"none", "HEAD", "CREATE", "LIST", "GET", "CHANGED", "PUT", "DELETE"}
        BY <2>3
      <3> HIDE DEF more, again
      <3>4. QED
        BY <3>1, <3>2, <3>3 DEF CallRecord
    <2>5. /\ SameCall(k, again) /\ again.attempt = k.attempt + 1
          /\ again.stage = "Ready" /\ again.request = first /\ again.result = k.result
          /\ again.sent = k.sent /\ again.isTroubled = k.isTroubled /\ again.recorded = k.recorded
          /\ again.cursor = k.cursor /\ again.keys = k.keys /\ again.version = k.version /\ again.base = k.base
      BY DEF CallRecord, SameCall
    <2> HIDE DEF again
    <2>6. QED
      BY <1>3, <2>1, <2>2, <2>4, <2>5 DEF first
  <1>4. QED
    BY <1>1, <1>2, <1>3

-----------------------------------------------------------------------------
(* The inductive invariant of one call: st is what was stored since it began, ou whether        *)
(* something was deleted, objs and cont what is stored now                                      *)

Shape(k) ==
    /\ k.stage = "Done" <=> k.request = "none"
    /\ k.request \in {"HEAD", "CREATE"} => k.op = "reach" /\ ~IsMemory
    /\ k.request = "LIST" => k.op \in {"get", "list"}
    /\ k.request = "GET" => k.op = "get" /\ ~IsMemory
    /\ k.request = "CHANGED" => k.op = "changed" /\ k.iter \in Iterations
    /\ k.request = "PUT" => k.op = "save"
    /\ k.request = "DELETE" => k.op = "delete"
    /\ k.stage = "InFlight" => ~IsMemory

\* A read that has found the newest iteration reads it or sees that it is gone.
Reading(k, st, ou, objs) ==
    /\ k.op = "get" => k.cursor = 0
    /\ k.request = "GET" => /\ k.iter \in Iterations /\ (k.iter \in StoredIn(objs) \/ ou)
                            /\ \A i \in st : i <= k.iter
    /\ k.op = "get" /\ k.stage = "Done" /\ k.result = "Ok" => \A i \in st : i <= k.iter
    /\ k.op = "get" /\ k.stage = "Done" /\ k.result = "NotFound" => ou \/ (st = {} /\ ~setup.isForeign)

\* A listing has found, or still has before it, what was there all the while.
Listing(k, st, objs) ==
    /\ IsMemory => k.found = {}
    /\ k.op = "list" =>
        /\ IsPast(k.boundary, objs) /\ k.found \subseteq 1 .. k.boundary
        /\ ~IsMemory /\ k.stage # "Done" =>
              \A i \in st : i <= k.boundary => i \in k.found \/ BuildJobIterationPath(i) > k.cursor
        /\ ~IsMemory /\ k.stage = "Done" /\ k.result = "Ok" =>
              \A i \in st : i <= k.boundary => i \in k.found

\* A deletion still has before it what is left of what it was given.
Deleting(k, st) ==
    k.op = "delete" =>
        /\ k.stage # "Done" => st \cap k.found \subseteq k.keys
        /\ k.stage = "Done" /\ k.result = "Ok" => st \cap k.found = {}
        /\ k.stage = "Done" /\ ~k.isTroubled => k.result \in {"Ok", "Cancelled"}

\* A container check that ended well ended over a container.
Reaching(k, cont) ==
    k.op = "reach" /\ k.stage = "Done" =>
        /\ k.result = "Ok" => cont
        /\ k.result # "Ok" => k.isTroubled \/ ~setup.config.isCreationAllowed

Core(k, st, ou, objs, cont) ==
    /\ k \in CallRecord /\ st \in SUBSET Iterations
    /\ k.stage # "Done" => st \subseteq StoredIn(objs)
    /\ Shape(k) /\ RequestIsSound(k, objs)
    /\ Reading(k, st, ou, objs) /\ Listing(k, st, objs) /\ Deleting(k, st) /\ Reaching(k, cont)

LEMMA ReportKeeps ==
    ASSUME NEW result
    PROVE  /\ Report(result) = "Ok" <=> result = "Ok"
           /\ Report(result) = "NotFound" <=> result = "NotFound"
           /\ Report(result) = "Cancelled" <=> result = "Cancelled"
  BY DEF Report

\* What may be said when a call ends.
MayEnd(k, result, st, ou, cont) ==
    /\ k.op = "get" /\ result = "Ok" => \A i \in st : i <= k.iter
    /\ k.op = "get" /\ result = "NotFound" => ou \/ (st = {} /\ ~setup.isForeign)
    /\ k.op = "list" /\ ~IsMemory /\ result = "Ok" => \A i \in st : i <= k.boundary => i \in k.found
    /\ k.op = "delete" /\ result = "Ok" => st \cap k.found = {}
    /\ k.op = "delete" /\ ~k.isTroubled => result \in {"Ok", "Cancelled"}
    /\ k.op = "reach" /\ result = "Ok" => cont
    /\ k.op = "reach" /\ result # "Ok" => k.isTroubled \/ ~setup.config.isCreationAllowed

LEMMA EndedKeeps ==
    ASSUME NEW k, NEW st, NEW ou, NEW objs, NEW cont, NEW result,
           Core(k, st, ou, objs, cont), MayEnd(k, result, st, ou, cont)
    PROVE  Core(Ended(k, result), st, ou, objs, cont)
  <1> DEFINE e == Ended(k, result)
  <1>1. /\ e \in CallRecord /\ SameCall(k, e)
        /\ e.stage = "Done" /\ e.request = "none" /\ e.result = Report(result)
        /\ e.isTroubled = k.isTroubled /\ e.cursor = 0
    BY EndedFields DEF Core
  <1> HIDE DEF e
  <1>2. Shape(e) /\ RequestIsSound(e, objs)
    BY <1>1 DEF Shape, RequestIsSound
  <1>3. Reading(e, st, ou, objs)
    BY <1>1, ReportKeeps DEF Reading, MayEnd, SameCall
  <1>4. Listing(e, st, objs)
    BY <1>1, ReportKeeps DEF Core, Listing, MayEnd, SameCall
  <1>5. Deleting(e, st)
    BY <1>1, ReportKeeps DEF Deleting, MayEnd, SameCall
  <1>6. Reaching(e, cont)
    BY <1>1, ReportKeeps DEF Reaching, MayEnd, SameCall
  <1>7. Core(e, st, ou, objs, cont)
    BY <1>1, <1>2, <1>3, <1>4, <1>5, <1>6 DEF Core
  <1>8. QED
    BY <1>7 DEF e

\* An attempt that failed with an error ends the call or repeats it from its first request.
LEMMA RetriedKeeps ==
    ASSUME NEW k, NEW st, NEW ou, NEW objs, NEW cont, NEW error,
           Core(k, st, ou, objs, cont), k.stage # "Done", error # "Ok",
           k.op \in {"reach", "delete"} => k.isTroubled,
           k.op = "get" /\ error = "NotFound" => ou
    PROVE  Core(Retried(k, error), st, ou, objs, cont)
  <1> DEFINE e == Retried(k, error)
  <1>1. k \in CallRecord
    BY DEF Core
  <1>2. CASE e = Ended(k, error)
    <2>1. MayEnd(k, error, st, ou, cont)
      BY DEF MayEnd
    <2>2. QED
      BY <1>2, <2>1, EndedKeeps
  <1>3. ASSUME NEW spent \in CallRecord,
               SameCall(k, spent), spent.isTroubled = k.isTroubled, spent.stage = k.stage,
               spent.request = k.request, e = Ended(spent, "AttemptsSpent")
        PROVE  Core(e, st, ou, objs, cont)
    <2> DEFINE f == Ended(spent, "AttemptsSpent")
    <2>1. /\ f \in CallRecord /\ SameCall(spent, f)
          /\ f.stage = "Done" /\ f.request = "none" /\ f.result = "AttemptsSpent"
          /\ f.isTroubled = spent.isTroubled /\ f.cursor = 0
      BY EndedFields DEF Report
    <2> HIDE DEF f
    <2>2. SameCall(k, f) /\ f.isTroubled = k.isTroubled
      BY <1>3, <2>1 DEF SameCall
    <2>3. Shape(f) /\ RequestIsSound(f, objs)
      BY <2>1 DEF Shape, RequestIsSound
    <2>4. Reading(f, st, ou, objs) /\ Deleting(f, st) /\ Reaching(f, cont)
      BY <2>1, <2>2 DEF Reading, Deleting, Reaching, SameCall
    <2>5. Listing(f, st, objs)
      BY <2>1, <2>2 DEF Core, Listing, SameCall
    <2>6. Core(f, st, ou, objs, cont)
      BY <2>1, <2>3, <2>4, <2>5 DEF Core
    <2>7. QED
      BY <1>3, <2>6 DEF f
  <1>4. CASE /\ IsRetried(k.op)
             /\ e \in CallRecord /\ SameCall(k, e)
             /\ e.stage = "Ready" /\ e.request = FirstRequest(k.op)
             /\ e.cursor = k.cursor /\ e.keys = k.keys /\ e.version = k.version /\ e.base = k.base
    <2> HIDE DEF e
    <2>1. /\ k.op = "reach" => e.request = "HEAD" /\ k.request \in {"HEAD", "CREATE"}
          /\ k.op = "get" => e.request = "LIST"
          /\ k.op = "save" => e.request = "PUT" /\ k.request = "PUT"
          /\ k.op \in {"reach", "get", "save"}
      BY <1>1, <1>4 DEF IsRetried, FirstRequest, Core, Shape, CallRecord
    <2>2. Shape(e)
      BY <1>4, <2>1 DEF Shape, SameCall, Core
    <2>3. RequestIsSound(e, objs)
      BY <1>4, <2>1 DEF RequestIsSound, SameCall, Core
    <2>4. Reading(e, st, ou, objs) /\ Deleting(e, st) /\ Reaching(e, cont)
      BY <1>4, <2>1 DEF Core, Reading, Deleting, Reaching, SameCall
    <2>5. Listing(e, st, objs)
      BY <1>4, <2>1 DEF Core, Listing, SameCall
    <2>6. st \in SUBSET Iterations /\ st \subseteq StoredIn(objs)
      BY DEF Core
    <2>7. Core(e, st, ou, objs, cont)
      BY <1>4, <2>2, <2>3, <2>4, <2>5, <2>6 DEF Core
    <2>8. QED
      BY <2>7 DEF e
  <1>5. QED
    BY <1>1, <1>2, <1>3, <1>4, RetriedFields

\* What a call does not depend on may change: what is counted, and whether it met trouble.
LEMMA LikeCallKeeps ==
    ASSUME NEW k, NEW st, NEW ou, NEW objs, NEW cont, Core(k, st, ou, objs, cont),
           NEW l \in CallRecord, SameCall(k, l),
           l.stage = k.stage, l.request = k.request, l.result = k.result, l.cursor = k.cursor,
           l.keys = k.keys, l.version = k.version, l.base = k.base, k.isTroubled => l.isTroubled
    PROVE  Core(l, st, ou, objs, cont)
  <1>1. Shape(l) /\ RequestIsSound(l, objs)
    BY DEF Core, Shape, RequestIsSound, SameCall
  <1>2. Reading(l, st, ou, objs)
    BY DEF Core, Reading, SameCall
  <1>3. Listing(l, st, objs)
    BY DEF Core, Listing, SameCall
  <1>4. Deleting(l, st) /\ Reaching(l, cont)
    BY DEF Core, Deleting, Reaching, SameCall
  <1>5. QED
    BY <1>1, <1>2, <1>3, <1>4 DEF Core

LEMMA RecordedKeeps ==
    ASSUME NEW k, NEW st, NEW ou, NEW objs, NEW cont, Core(k, st, ou, objs, cont)
    PROVE  Core(Recorded(k), st, ou, objs, cont)
  <1>1. k \in CallRecord
    BY DEF Core
  <1> DEFINE l == Recorded(k)
  <1>2. /\ l \in CallRecord /\ SameCall(k, l)
        /\ l.stage = k.stage /\ l.request = k.request /\ l.result = k.result
        /\ l.isTroubled = k.isTroubled
        /\ l.cursor = k.cursor /\ l.keys = k.keys /\ l.version = k.version /\ l.base = k.base
    BY <1>1, RecordedFields
  <1> HIDE DEF l
  <1>3. Core(l, st, ou, objs, cont)
    BY <1>2, LikeCallKeeps
  <1>4. QED
    BY <1>3 DEF l

LEMMA TroubledKeeps ==
    ASSUME NEW k, NEW st, NEW ou, NEW objs, NEW cont, Core(k, st, ou, objs, cont)
    PROVE  Core([k EXCEPT !.isTroubled = TRUE], st, ou, objs, cont)
  <1>1. k \in CallRecord
    BY DEF Core
  <1> DEFINE l == [k EXCEPT !.isTroubled = TRUE]
  <1>2. /\ l \in CallRecord /\ SameCall(k, l)
        /\ l.stage = k.stage /\ l.request = k.request /\ l.result = k.result
        /\ l.isTroubled = TRUE
        /\ l.cursor = k.cursor /\ l.keys = k.keys /\ l.version = k.version /\ l.base = k.base
    BY <1>1, TroubledFields
  <1> HIDE DEF l
  <1>3. Core(l, st, ou, objs, cont)
    BY <1>2, LikeCallKeeps
  <1>4. QED
    BY <1>3 DEF l

\* What the callers beside it, the cleaners and the requests adrift do to a call.
LEMMA CallSurvives ==
    ASSUME NEW k, NEW st, NEW ou, NEW objs, NEW cont, Core(k, st, ou, objs, cont),
           NEW st2, NEW ou2, NEW next, NEW cont2,
           Advances(objs, next), cont => cont2,
           k.stage = "Done" => st2 = st /\ ou2 = ou,
           k.stage # "Done" => /\ st2 = st \cap StoredIn(next)
                               /\ ou2 = (ou \/ StoredIn(objs) \ StoredIn(next) # {})
    PROVE  Core(k, st2, ou2, next, cont2)
  <1>1. /\ k \in CallRecord /\ st \in SUBSET Iterations /\ st2 \in SUBSET Iterations /\ st2 \subseteq st
        /\ k.stage # "Done" => st2 \subseteq StoredIn(next)
        /\ Shape(k)
    BY DEF Core
  <1>2. ou => ou2
    OBVIOUS
  <1>3. RequestIsSound(k, next)
    <2>1. k.request = "DELETE" => \A i \in k.keys : i \in Iterations /\ IsPast(i, objs)
      BY DEF Core, RequestIsSound
    <2>2. \A i \in Iterations : i \in Int
      BY SizesAssumption DEF Iterations
    <2>3. k.request = "DELETE" => \A i \in k.keys : i \in Iterations /\ IsPast(i, next)
      BY <2>1, <2>2, PastStaysPast
    <2>4. QED
      BY <2>3 DEF Core, RequestIsSound
  <1>4. Reading(k, st2, ou2, next)
    <2>1. k.request = "GET" /\ k.iter \in StoredIn(objs) => k.iter \in StoredIn(next) \/ ou2
      BY DEF Core, Shape
    <2>2. QED
      BY <1>1, <1>2, <2>1 DEF Core, Reading
  <1>5. Listing(k, st2, next)
    <2>1. k.boundary \in Int
      BY <1>1, SizesAssumption DEF CallRecord
    <2>2. IsPast(k.boundary, objs) => IsPast(k.boundary, next)
      BY <2>1, PastStaysPast
    <2>3. QED
      BY <1>1, <2>2 DEF Core, Listing
  <1>6. Deleting(k, st2) /\ Reaching(k, cont2)
    BY <1>1 DEF Core, Deleting, Reaching
  <1>7. QED
    BY <1>1, <1>3, <1>4, <1>5, <1>6 DEF Core

-----------------------------------------------------------------------------
(* Listings *)

\* Ascending keys are descending iterations, and a key says which iteration it is of.
LEMMA KeysAreOrdered ==
    /\ \A i \in Iterations : /\ BuildJobIterationPath(i) \in Nat /\ BuildJobIterationPath(i) > 0
                             /\ BuildJobIterationPath(i) <= 2 * LastIteration
                             /\ IsOfThisCodec(BuildJobIterationPath(i))
                             /\ ParseIterNum(BuildJobIterationPath(i)) = i
    /\ ForeignKey = 2 * LastIteration + 1 /\ ForeignKey \in Nat /\ ForeignKey > 0
    /\ ~IsOfThisCodec(ForeignKey)
    /\ \A i, j \in Iterations : BuildJobIterationPath(i) <= BuildJobIterationPath(j) => j <= i
  BY SizesAssumption DEF Iterations, BuildJobIterationPath, LargestNumber, IsOfThisCodec,
                         ParseIterNum, ForeignKey

\* What is listed is an iteration that is stored, or the object of another codec.
LEMMA ListableIsStored ==
    ASSUME NEW k, NEW key \in ListableKeys(k)
    PROVE  /\ key \in Nat /\ key <= 2 * LastIteration + 1
           /\ \/ \E i \in Stored : key = BuildJobIterationPath(i)
              \/ setup.isForeign /\ key = ForeignKey
  <1>1. key \in StoredKeys
    BY DEF ListableKeys
  <1>2. (\E i \in Stored : key = BuildJobIterationPath(i)) \/ (setup.isForeign /\ key = ForeignKey)
    BY <1>1 DEF StoredKeys
  <1>3. Stored \subseteq Iterations
    BY DEF Stored
  <1>4. LastIteration \in Nat
    BY SizesAssumption
  <1>5. QED
    BY <1>2, <1>3, <1>4, KeysAreOrdered

LEMMA ListableIsFinite ==
    ASSUME NEW k
    PROVE  IsFiniteSet(ListableKeys(k)) /\ ListableKeys(k) \in SUBSET (0 .. 2 * LastIteration + 1)
  <1>1. 2 * LastIteration + 1 \in Int
    BY SizesAssumption
  <1>2. ListableKeys(k) \in SUBSET (0 .. 2 * LastIteration + 1)
    BY <1>1, ListableIsStored
  <1>3. IsFiniteSet(0 .. 2 * LastIteration + 1)
    BY <1>1, FS_Interval
  <1>4. QED
    BY <1>2, <1>3, FS_Subset

\* A page that has room for one begins with the first of the keys, and ends before the rest.
LEMMA PageIsFirst ==
    ASSUME NEW k, NEW size \in Nat \ {0}
    PROVE  /\ ListedPage(k, size) \subseteq ListableKeys(k)
           /\ \A m \in ListableKeys(k) : (\A key \in ListableKeys(k) : m <= key) => m \in ListedPage(k, size)
           /\ ListableKeys(k) # {} => ListedPage(k, size) # {}
           /\ \A key \in ListedPage(k, size), other \in ListableKeys(k) :
                 other <= key => other \in ListedPage(k, size)
  <1> DEFINE Below(key) == {other \in ListableKeys(k) : other < key}
  <1>1. ListedPage(k, size) = {key \in ListableKeys(k) : Cardinality(Below(key)) < size}
    BY DEF ListedPage
  <1>2. IsFiniteSet(ListableKeys(k)) /\ ListableKeys(k) \in SUBSET Nat
    BY ListableIsFinite, ListableIsStored
  <1>3. ASSUME NEW m \in ListableKeys(k), \A key \in ListableKeys(k) : m <= key
        PROVE  m \in ListedPage(k, size)
    <2>1. Below(m) = {}
      BY <1>2, <1>3
    <2>2. Cardinality(Below(m)) = 0
      BY <2>1, FS_EmptySet
    <2>3. QED
      BY <1>1, <2>2
  <1>4. ListableKeys(k) # {} => \E m \in ListableKeys(k) : \A key \in ListableKeys(k) : m <= key
    BY <1>2, MinExists
  <1>5. ASSUME NEW key \in ListedPage(k, size), NEW other \in ListableKeys(k), other <= key
        PROVE  other \in ListedPage(k, size)
    <2>1. Below(other) \subseteq Below(key)
      BY <1>1, <1>2, <1>5
    <2>2. IsFiniteSet(Below(key))
      BY <1>2, FS_Subset
    <2> DEFINE few == Cardinality(Below(other))
               many == Cardinality(Below(key))
    <2>3. IsFiniteSet(Below(other)) /\ few <= many
      BY <2>1, <2>2, FS_Subset
    <2>4. few \in Nat /\ many \in Nat
      BY <2>2, <2>3, FS_CardinalityType
    <2>5. many < size
      BY <1>1
    <2> HIDE DEF few, many
    <2>6. few < size
      BY <2>3, <2>4, <2>5
    <2>7. QED
      BY <1>1, <2>6 DEF few
  <1>6. QED
    BY <1>1, <1>3, <1>4, <1>5

\* find_job_meta finds the newest iteration, or an object of another codec when there is none.
LEMMA FirstIsNewest ==
    ASSUME NEW k, k.op = "get", k.cursor = 0
    PROVE  /\ ListedPage(k, 1) = {} => Stored = {} /\ ~setup.isForeign
           /\ ListedPage(k, 1) # {} /\ IsOfThisCodec(Min(ListedPage(k, 1))) =>
                 /\ ParseIterNum(Min(ListedPage(k, 1))) \in Stored
                 /\ \A i \in Stored : i <= ParseIterNum(Min(ListedPage(k, 1)))
  <1> DEFINE page == ListedPage(k, 1)
             first == Min(page)
  <1>1. Stored \subseteq Iterations
    BY DEF Stored
  <1>2. /\ \A i \in Stored : BuildJobIterationPath(i) \in ListableKeys(k)
        /\ setup.isForeign => ForeignKey \in ListableKeys(k)
    BY <1>1, KeysAreOrdered DEF ListableKeys, StoredKeys
  <1>3. page = {} => ListableKeys(k) = {}
    BY PageIsFirst
  <1>4. ASSUME page # {}, IsOfThisCodec(first)
        PROVE  ParseIterNum(first) \in Stored /\ \A i \in Stored : i <= ParseIterNum(first)
    <2>1. page \subseteq ListableKeys(k) /\ ListableKeys(k) \in SUBSET Nat
      BY PageIsFirst, ListableIsStored
    <2>2. first \in page /\ \A key \in page : first <= key
      <3>1. page \in SUBSET Nat
        BY <2>1
      <3>2. QED
        BY <1>4, <3>1, MinIsLeast
    <2>3. PICK m \in ListableKeys(k) : \A key \in ListableKeys(k) : m <= key
      <3>1. ListableKeys(k) # {}
        BY <1>4, <2>1
      <3>2. QED
        BY <2>1, <3>1, MinExists
    <2>4. m \in page
      BY <2>3, PageIsFirst
    <2>5. first \in ListableKeys(k) /\ \A key \in ListableKeys(k) : first <= key
      <3>1. first \in Nat /\ m \in Nat /\ first <= m /\ m <= first
        BY <2>1, <2>2, <2>3, <2>4
      <3>2. first = m
        BY <3>1
      <3>3. QED
        BY <2>3, <3>2
    <2> HIDE DEF first, page
    <2>6. PICK i \in Stored : first = BuildJobIterationPath(i)
      BY <1>4, <2>5, ListableIsStored, KeysAreOrdered
    <2>7. ParseIterNum(first) = i
      BY <1>1, <2>6, KeysAreOrdered
    <2>8. \A j \in Stored : BuildJobIterationPath(i) <= BuildJobIterationPath(j)
      BY <1>2, <2>5, <2>6
    <2>9. QED
      BY <1>1, <2>6, <2>7, <2>8, KeysAreOrdered
  <1>5. QED
    BY <1>2, <1>3, <1>4

LEMMA AfterNewestKeeps ==
    ASSUME NEW k, NEW st, NEW ou, NEW cont, Core(k, st, ou, objects, cont), StoreIsSound(objects),
           k.op = "get", k.request = "LIST", k.stage # "Done", ~IsMemory
    PROVE  Core(AfterNewest(k), st, ou, objects, cont)
  <1> DEFINE first == Min(ListedPage(k, 1))
             newest == ParseIterNum(first)
  <1>1. k \in CallRecord /\ k.cursor = 0 /\ st \in SUBSET Iterations /\ st \subseteq Stored
    BY DEF Core, Reading, StoredIn, Stored
  <1>2. CASE ListedPage(k, 1) = {}
    <2>1. Stored = {} /\ ~setup.isForeign
      BY <1>1, <1>2, FirstIsNewest
    <2>2. MayEnd(k, "NotFound", st, ou, cont)
      BY <1>1, <2>1 DEF MayEnd
    <2>3. AfterNewest(k) = Ended(k, "NotFound")
      BY <1>2 DEF AfterNewest
    <2>4. QED
      BY <2>2, <2>3, EndedKeeps
  <1>3. CASE ListedPage(k, 1) # {} /\ ~IsOfThisCodec(first)
    <2>1. AfterNewest(k) = Retried(k, "Other")
      BY <1>3 DEF AfterNewest
    <2>2. QED
      BY <2>1, RetriedKeeps
  <1>4. CASE ListedPage(k, 1) # {} /\ IsOfThisCodec(first)
    <2> DEFINE version == objects[newest].version
               e == [k EXCEPT !.stage = "Ready", !.request = "GET", !.iter = newest, !.version = version]
    <2>1. AfterNewest(k) = e
      BY <1>4 DEF AfterNewest
    <2>2. newest \in Stored /\ \A i \in Stored : i <= newest
      BY <1>1, <1>4, FirstIsNewest
    <2> HIDE DEF first, newest
    <2>3. newest \in Iterations /\ newest \in 0 .. LastIteration /\ version \in Nat
      BY <2>2, SizesAssumption DEF Stored, Iterations, StoreIsSound
    <2> HIDE DEF version
    <2>4. /\ e \in CallRecord /\ e.op = "get" /\ e.stage = "Ready" /\ e.request = "GET" /\ e.iter = newest
          /\ e.cursor = 0 /\ e.found = k.found
      BY <1>1, <2>3 DEF CallRecord
    <2> HIDE DEF e
    <2>5. Shape(e) /\ RequestIsSound(e, objects)
      BY <2>4 DEF Shape, RequestIsSound
    <2>6. Reading(e, st, ou, objects)
      BY <1>1, <2>2, <2>3, <2>4 DEF Reading, Stored, StoredIn
    <2>7. Listing(e, st, objects) /\ Deleting(e, st) /\ Reaching(e, cont)
      BY <2>4 DEF Core, Listing, Deleting, Reaching
    <2>8. Core(e, st, ou, objects, cont)
      BY <1>1, <2>4, <2>5, <2>6, <2>7 DEF Core, Stored, StoredIn
    <2>9. QED
      BY <2>1, <2>8
  <1>5. QED
    BY <1>2, <1>3, <1>4

\* What stands below the boundary and past the cursor is still to be listed.
LEMMA OutdatedIsListable ==
    ASSUME SetupIsKnown, ~IsMemory, NEW k \in CallRecord, k.op = "list",
           NEW i \in Stored, i <= k.boundary, BuildJobIterationPath(i) > k.cursor
    PROVE  BuildJobIterationPath(i) \in ListableKeys(k)
  <1>1. i \in Iterations /\ k.boundary \in 0 .. LastIteration /\ LastIteration \in Nat
    BY SizesAssumption DEF Stored, CallRecord
  <1>2. IsPastStart(BuildJobIterationPath(i), BuildListingStartKey(k.boundary))
    <2> DEFINE b == k.boundary
    <2>1. i \in Int /\ b \in Int /\ i <= b
      BY <1>1 DEF Iterations
    <2> HIDE DEF b
    <2>2. CASE setup.config.provider = "s3"
      <3>1. BuildListingStartKey(b) = BuildJobIterationPath(b + 1)
        BY <2>2 DEF BuildListingStartKey, IsStartInclusive
      <3>2. S3Lists(BuildJobIterationPath(i), BuildJobIterationPath(b + 1))
        BY <1>1, <2>1 DEF S3Lists, BuildJobIterationPath, LargestNumber
      <3>3. QED
        BY <2>2, <3>1, <3>2 DEF IsPastStart, b
    <2>3. CASE setup.config.provider \in {"azure", "gcs"}
      <3>1. BuildListingStartKey(b) = BuildJobIterationPath(b)
        BY <2>3 DEF BuildListingStartKey, IsStartInclusive
      <3>2. /\ AzureLists(BuildJobIterationPath(i), BuildJobIterationPath(b))
            /\ GcsLists(BuildJobIterationPath(i), BuildJobIterationPath(b))
        BY <1>1, <2>1 DEF AzureLists, GcsLists, BuildJobIterationPath, LargestNumber
      <3>3. QED
        BY <2>3, <3>1, <3>2 DEF IsPastStart, b
    <2>4. QED
      BY <2>2, <2>3 DEF SetupIsKnown, Provider, IsMemory
  <1>3. BuildJobIterationPath(i) \in StoredKeys
    BY DEF StoredKeys
  <1>4. QED
    BY <1>2, <1>3 DEF ListableKeys

LEMMA AfterPageKeeps ==
    ASSUME NEW k, NEW st, NEW ou, NEW cont, Core(k, st, ou, objects, cont), SetupIsKnown,
           k.op = "list", k.request = "LIST", k.stage # "Done", ~IsMemory
    PROVE  Core(AfterPage(k), st, ou, objects, cont)
  <1> DEFINE page == ListedPage(k, setup.config.pageSize)
             more == {ParseIterNum(key) : key \in
                        {key \in page : IsOfThisCodec(key) /\ ParseIterNum(key) <= k.boundary}}
             named == k.found \cup more
             listed == [k EXCEPT !.found = named]
             last == Max(page)
             e == [listed EXCEPT !.stage = "Ready", !.cursor = last]
  <1>1. /\ k \in CallRecord /\ st \in SUBSET Iterations /\ st \subseteq Stored /\ st \subseteq StoredIn(objects)
        /\ k.boundary \in 0 .. LastIteration /\ LastIteration \in Nat /\ k.cursor \in Nat
        /\ k.found \subseteq 1 .. k.boundary /\ k.found \subseteq Iterations
        /\ IsPast(k.boundary, objects) /\ Shape(k)
        /\ \A i \in st : i <= k.boundary => i \in k.found \/ BuildJobIterationPath(i) > k.cursor
    BY SizesAssumption DEF Core, Listing, StoredIn, Stored, CallRecord
  <1>2. AfterPage(k) = IF page = ListableKeys(k) THEN Ended(listed, "Ok") ELSE e
    BY DEF AfterPage
  <1>3. page \subseteq ListableKeys(k) /\ setup.config.pageSize \in Nat \ {0}
    BY PageIsFirst DEF SetupIsKnown
  <1>4. named \subseteq 1 .. k.boundary /\ named \subseteq Iterations
    <2> SUFFICES ASSUME NEW key \in page, IsOfThisCodec(key), ParseIterNum(key) <= k.boundary
                 PROVE  ParseIterNum(key) \in 1 .. k.boundary /\ ParseIterNum(key) \in Iterations
      BY <1>1
    <2>1. PICK i \in Stored : key = BuildJobIterationPath(i)
      BY <1>3, ListableIsStored, KeysAreOrdered
    <2>2. i \in Iterations /\ ParseIterNum(key) = i
      BY <2>1, KeysAreOrdered DEF Stored
    <2>3. QED
      BY <1>1, <2>2 DEF Iterations
  <1>5. \A i \in st : i <= k.boundary /\ BuildJobIterationPath(i) \in page => i \in named
    <2> SUFFICES ASSUME NEW i \in st, i <= k.boundary, BuildJobIterationPath(i) \in page PROVE i \in more
      OBVIOUS
    <2>1. IsOfThisCodec(BuildJobIterationPath(i)) /\ ParseIterNum(BuildJobIterationPath(i)) = i
      BY <1>1, KeysAreOrdered
    <2>2. QED
      BY <2>1
  <1>6. \A i \in st : i <= k.boundary => i \in named \/ BuildJobIterationPath(i) \in ListableKeys(k)
    BY <1>1, OutdatedIsListable
  <1> HIDE DEF page, more, named
  <1>7. /\ listed \in CallRecord /\ listed.op = "list" /\ listed.stage = k.stage /\ listed.request = "LIST"
        /\ listed.boundary = k.boundary /\ listed.found = named /\ listed.cursor = k.cursor
        /\ listed.isTroubled = k.isTroubled
    BY <1>1, <1>4 DEF CallRecord
  <1>8. CASE page = ListableKeys(k)
    <2> HIDE DEF listed
    <2>1. \A i \in st : i <= k.boundary => i \in named
      BY <1>5, <1>6, <1>8
    <2>2. k.found \subseteq named
      BY DEF named
    <2>3. Core(listed, st, ou, objects, cont)
      <3>1. Shape(listed) /\ RequestIsSound(listed, objects)
        BY <1>1, <1>7 DEF Shape, RequestIsSound
      <3>2. Reading(listed, st, ou, objects) /\ Deleting(listed, st) /\ Reaching(listed, cont)
        BY <1>7 DEF Reading, Deleting, Reaching
      <3>3. Listing(listed, st, objects)
        BY <1>1, <1>4, <1>7, <2>1 DEF Listing
      <3>4. QED
        BY <1>1, <1>7, <3>1, <3>2, <3>3 DEF Core
    <2>4. MayEnd(listed, "Ok", st, ou, cont)
      BY <1>7, <2>1 DEF MayEnd
    <2>5. QED
      BY <1>2, <1>8, <2>3, <2>4, EndedKeeps
  <1>9. CASE page # ListableKeys(k)
    <2>1. page # {} /\ page \in SUBSET (0 .. 2 * LastIteration + 1)
      BY <1>3, <1>9, PageIsFirst, ListableIsFinite DEF page
    <2>2. 2 * LastIteration + 1 \in Nat
      BY <1>1
    <2>3. last \in page /\ \A key \in page : key <= last
      BY <2>1, <2>2, MaxIsGreatest
    <2> HIDE DEF last
    <2>4. last \in Nat
      BY <1>3, <2>3, ListableIsStored
    <2>5. \A i \in st : i <= k.boundary => i \in named \/ BuildJobIterationPath(i) > last
      <3> SUFFICES ASSUME NEW i \in st, i <= k.boundary, i \notin named,
                          ~(BuildJobIterationPath(i) > last)
                   PROVE  FALSE
        OBVIOUS
      <3>1. BuildJobIterationPath(i) \in ListableKeys(k) /\ BuildJobIterationPath(i) \notin page
        BY <1>5, <1>6
      <3>2. BuildJobIterationPath(i) \in Nat
        BY <1>1, KeysAreOrdered
      <3>3. BuildJobIterationPath(i) <= last
        BY <2>4, <3>2
      <3>4. QED
        BY <1>3, <2>3, <3>1, <3>3, PageIsFirst DEF page
    <2>6. /\ e \in CallRecord /\ e.op = "list" /\ e.stage = "Ready" /\ e.request = "LIST"
          /\ e.boundary = k.boundary /\ e.found = named /\ e.cursor = last
      BY <1>7, <2>4 DEF CallRecord
    <2> HIDE DEF e, listed
    <2>7. Shape(e) /\ RequestIsSound(e, objects)
      BY <2>6 DEF Shape, RequestIsSound
    <2>8. Reading(e, st, ou, objects) /\ Deleting(e, st) /\ Reaching(e, cont)
      BY <2>6 DEF Reading, Deleting, Reaching
    <2>9. Listing(e, st, objects)
      BY <1>1, <1>4, <2>5, <2>6 DEF Listing
    <2>10. Core(e, st, ou, objects, cont)
      BY <1>1, <2>6, <2>7, <2>8, <2>9 DEF Core
    <2>11. QED
      BY <1>2, <1>9, <2>10
  <1>10. QED
    BY <1>8, <1>9

-----------------------------------------------------------------------------
(* Deletions *)

\* A batch that was gone leaves the rest.
LEMMA AfterBatchKeeps ==
    ASSUME NEW k, NEW st, NEW ou, NEW objs, NEW cont, Core(k, st, ou, objs, cont),
           k.request = "DELETE", k.stage # "Done", NextBatch(k) \cap st = {}
    PROVE  Core(AfterBatch(k), st, ou, objs, cont)
  <1> DEFINE rest == k.keys \ NextBatch(k)
             left == [k EXCEPT !.keys = rest]
             e == [k EXCEPT !.keys = rest, !.stage = "Ready"]
  <1>1. /\ k \in CallRecord /\ k.op = "delete" /\ k.keys \subseteq Iterations
        /\ st \in SUBSET Iterations /\ st \subseteq StoredIn(objs)
        /\ st \cap k.found \subseteq k.keys
        /\ \A i \in k.keys : i \in Iterations /\ IsPast(i, objs)
    BY DEF Core, Shape, Deleting, RequestIsSound, CallRecord
  <1>2. rest \subseteq k.keys /\ st \cap k.found \subseteq rest
    BY <1>1
  <1>3. AfterBatch(k) = IF rest = {} THEN Ended(left, "Ok") ELSE e
    BY DEF AfterBatch
  <1> HIDE DEF rest
  <1>4. ASSUME NEW l \in CallRecord, SameCall(k, l), l.stage # "Done", l.keys = rest,
               l.request = "DELETE", l.cursor = k.cursor, l.stage = "InFlight" => k.stage = "InFlight"
        PROVE  Core(l, st, ou, objs, cont)
    <2>1. l.op = "delete"
      BY <1>1, <1>4 DEF SameCall
    <2>2. Shape(l)
      BY <1>4, <2>1 DEF Core, Shape
    <2>3. RequestIsSound(l, objs)
      BY <1>1, <1>2, <1>4 DEF RequestIsSound
    <2>4. Reading(l, st, ou, objs) /\ Reaching(l, cont)
      BY <1>4, <2>1 DEF Reading, Reaching
    <2>5. Listing(l, st, objs)
      BY <1>4, <2>1 DEF Core, Listing, SameCall
    <2>6. Deleting(l, st)
      BY <1>2, <1>4 DEF Deleting, SameCall
    <2>7. QED
      BY <1>1, <1>4, <2>2, <2>3, <2>4, <2>5, <2>6 DEF Core
  <1>5. CASE rest = {}
    <2>1. /\ left \in CallRecord /\ SameCall(k, left) /\ left.stage = k.stage /\ left.keys = rest
          /\ left.request = "DELETE" /\ left.cursor = k.cursor
      BY <1>1, <1>2 DEF CallRecord, SameCall
    <2> HIDE DEF left
    <2>2. Core(left, st, ou, objs, cont)
      BY <1>4, <2>1
    <2>3. MayEnd(left, "Ok", st, ou, cont)
      BY <1>1, <1>2, <1>5, <2>1 DEF MayEnd, SameCall
    <2>4. QED
      BY <1>3, <1>5, <2>2, <2>3, EndedKeeps
  <1>6. CASE rest # {}
    <2>1. /\ e \in CallRecord /\ SameCall(k, e) /\ e.stage = "Ready" /\ e.keys = rest
          /\ e.request = "DELETE" /\ e.cursor = k.cursor
      BY <1>1, <1>2 DEF CallRecord, SameCall
    <2> HIDE DEF e
    <2>2. Core(e, st, ou, objs, cont)
      BY <1>4, <2>1
    <2>3. QED
      BY <1>3, <1>6, <2>2
  <1>7. QED
    BY <1>5, <1>6

\* A request of Azure and Google Cloud Storage deletes one iteration.
LEMMA BatchOfOne ==
    ASSUME NEW k, k.keys \subseteq Iterations, setup.config.batchSize = 1,
           NEW i \in NextBatch(k), NEW j \in NextBatch(k)
    PROVE  i = j
  <1> DEFINE Above(m) == {n \in k.keys : n > m}
  <1>1. \A m \in NextBatch(k) : m \in k.keys /\ m \in Int /\ Cardinality(Above(m)) < 1
    BY SizesAssumption DEF NextBatch, Iterations
  <1>2. \A m \in NextBatch(k) : Above(m) = {}
    <2> SUFFICES ASSUME NEW m \in NextBatch(k), Above(m) # {} PROVE FALSE
      OBVIOUS
    <2>1. IsFiniteSet(Iterations)
      BY SizesAssumption, FS_Interval DEF Iterations
    <2>2. IsFiniteSet(Above(m))
      BY <2>1, FS_Subset
    <2> DEFINE count == Cardinality(Above(m))
    <2>3. count \in Nat /\ count # 0
      BY <2>2, FS_EmptySet, FS_CardinalityType
    <2>4. count < 1
      BY <1>1
    <2> HIDE DEF count
    <2>5. QED
      BY <2>3, <2>4
  <1>3. ~(i > j) /\ ~(j > i) /\ i \in Int /\ j \in Int
    BY <1>1, <1>2
  <1>4. QED
    BY <1>3

-----------------------------------------------------------------------------
(* Failures *)

\* No trouble of a store is taken for an answer.
LEMMA TroubleIsAnError ==
    ASSUME SetupIsKnown, ~IsMemory,
           NEW request,
           NEW failure \in Troubles(setup.config.provider, request) \cup {UnusableAnswer(setup.config.provider)}
    PROVE  /\ ~IsAbsent(failure) /\ ~IsNotModified(failure)
           /\ ~IsObjectGone(setup.config.provider, failure)
           /\ ~IsLostCreationRace(setup.config.provider, failure)
           /\ IntoStorageError(setup.config.provider, failure) \notin {"Ok", "NotFound", "AttemptsSpent"}
           /\ IsRecorded(setup.config.provider, failure)
  <1>0. failure \in {Refused(status, NoCode) : status \in {400, 403, 429, 503}} \cup {NoAnswer, Unread, Unbuildable}
                    \cup (IF setup.config.provider = "azure"
                          THEN {Refused(412, "LeaseIdMissing"), Refused(409, "BlobArchived")}
                          ELSE {ClientTimeout})
                    \cup {UnusableAnswer(setup.config.provider)}
    BY DEF Troubles
  <1>1. CASE setup.config.provider = "s3"
    BY <1>0, <1>1 DEF UnusableAnswer, S3Unusable, Unusable, Refused, NoAnswer, Unread, Unbuildable, ClientTimeout,
                NoCode, IsAbsent, IsNotModified, IsObjectGone, IsLostCreationRace, S3LostCreation, IntoStorageError,
                IntoS3Error, Unasked, ClassifyHttpStatus, IsRecorded
  <1>2. CASE setup.config.provider = "azure"
    BY <1>0, <1>2 DEF UnusableAnswer, AzureUnusable, Unusable, Refused, NoAnswer, Unread, Unbuildable, ClientTimeout,
                NoCode, IsAbsent, IsNotModified, IsObjectGone, IsLostCreationRace, AzureLostCreation, IntoStorageError,
                IntoAzureError, Unasked, ClassifyHttpStatus, RefusedByAzure, IsConflict, IsRecorded
  <1>3. CASE setup.config.provider = "gcs"
    BY <1>0, <1>3 DEF UnusableAnswer, GcsUnusable, Unusable, Refused, NoAnswer, Unread, Unbuildable, ClientTimeout,
                NoCode, IsAbsent, IsNotModified, IsObjectGone, IsLostCreationRace, GcsLostCreation, IntoStorageError,
                IntoGcsError, Unasked, ClassifyHttpStatus, IsRecorded
  <1>4. QED
    BY <1>1, <1>2, <1>3 DEF SetupIsKnown, IsMemory, Provider

\* A call survives whatever the store or the connection fails it with.
LEMMA AfterTroubleKeeps ==
    ASSUME NEW k, NEW st, NEW ou, NEW objs, NEW cont, Core(k, st, ou, objs, cont),
           SetupIsKnown, ~IsMemory, k.stage # "Done",
           NEW request,
           NEW failure \in Troubles(setup.config.provider, request) \cup {UnusableAnswer(setup.config.provider)}
    PROVE  Core(AfterFailure([k EXCEPT !.isTroubled = TRUE], failure), st, ou, objs, cont)
  <1> DEFINE t == [k EXCEPT !.isTroubled = TRUE]
             error == IntoStorageError(setup.config.provider, failure)
  <1>1. Core(t, st, ou, objs, cont)
    BY TroubledKeeps
  <1>2. t.stage # "Done" /\ t.isTroubled = TRUE /\ t \in CallRecord
    BY TroubledFields DEF Core
  <1> HIDE DEF t
  <1>3. /\ ~IsAbsent(failure) /\ ~IsNotModified(failure)
        /\ ~IsObjectGone(setup.config.provider, failure)
        /\ ~IsLostCreationRace(setup.config.provider, failure)
        /\ error # "Ok" /\ error # "NotFound"
        /\ IsRecorded(setup.config.provider, failure)
    BY TroubleIsAnError
  <1>4. CASE t.op = "reach"
    <2>1. AfterFailure(t, failure) = Retried(t, error)
      BY <1>3, <1>4 DEF AfterFailure, AfterRefusedReach
    <2> HIDE DEF error
    <2>2. Core(Retried(t, error), st, ou, objs, cont)
      BY <1>1, <1>2, <1>3, RetriedKeeps
    <2>3. QED
      BY <2>1, <2>2 DEF t
  <1>5. CASE t.op # "reach"
    <2> DEFINE r == Recorded(t)
    <2>1. AfterFailure(t, failure) = Retried(r, error)
      BY <1>3, <1>5 DEF AfterFailure, SettleRefusal
    <2>2. r.stage # "Done" /\ r.isTroubled = TRUE
      BY <1>2, RecordedFields
    <2>3. Core(r, st, ou, objs, cont)
      BY <1>1, RecordedKeeps
    <2> HIDE DEF error, r
    <2>4. Core(Retried(r, error), st, ou, objs, cont)
      BY <1>3, <2>2, <2>3, RetriedKeeps
    <2>5. QED
      BY <2>1, <2>4 DEF t
  <1>6. QED
    BY <1>4, <1>5

\* What a store refuses a request with amounts to the reason it had.
LEMMA RefusalsSayWhy ==
    ASSUME SetupIsKnown, ~IsMemory, NEW reason \in {"Exists", "Moved", "Missing"},
           NEW failure \in RefusalsFor(setup.config.provider, reason)
    PROVE  /\ ~IsNotModified(failure)
           /\ IntoStorageError(setup.config.provider, failure)
                = IF reason = "Missing" THEN "NotFound" ELSE "ConcurrentModification"
           /\ reason = "Missing" /\ setup.config.provider # "s3" => IsObjectGone(setup.config.provider, failure)
  <1>1. CASE setup.config.provider = "s3"
    BY <1>1 DEF RefusalsFor, S3Refusals, Refused, NoCode, IsNotModified, IsObjectGone, IntoStorageError,
                IntoS3Error, Unasked, ClassifyHttpStatus
  <1>2. CASE setup.config.provider = "azure"
    BY <1>2 DEF RefusalsFor, AzureRefusals, Refused, NoCode, IsNotModified, IsObjectGone, IntoStorageError,
                IntoAzureError, Unasked, ClassifyHttpStatus, RefusedByAzure
  <1>3. CASE setup.config.provider = "gcs"
    BY <1>3 DEF RefusalsFor, GcsRefusals, Refused, NoCode, IsNotModified, IsObjectGone, IntoStorageError,
                IntoGcsError, Unasked, ClassifyHttpStatus
  <1>4. QED
    BY <1>1, <1>2, <1>3 DEF SetupIsKnown, IsMemory, Provider

LEMMA RefusalsHaveAReason ==
    ASSUME NEW k, NEW failure \in Refusals(k)
    PROVE  /\ k.request \notin {"none", "LIST"}
           /\ k.request = "HEAD" => failure = Refused(404, NoCode)
           /\ k.request = "CREATE" => failure = Refused(409, NoCode) /\ container
           /\ k.request = "PUT" =>
                 \E reason \in {"Exists", "Moved", "Missing"} : failure \in RefusalsFor(setup.config.provider, reason)
           /\ k.request = "GET" =>
                 \/ failure \in RefusalsFor(setup.config.provider, "Moved")
                 \/ objects[k.iter].version = 0 /\ failure \in RefusalsFor(setup.config.provider, "Missing")
           /\ k.request = "CHANGED" =>
                 failure = Refused(304, NoCode) \/ failure \in RefusalsFor(setup.config.provider, "Missing")
           /\ k.request = "DELETE" =>
                 /\ setup.config.provider # "s3" /\ ~(NextBatch(k) \subseteq Stored)
                 /\ failure \in RefusalsFor(setup.config.provider, "Missing")
  <1>1. CASE k.request \in {"HEAD", "CREATE"}
    BY <1>1 DEF Refusals
  <1>2. CASE k.request = "PUT"
    BY <1>2 DEF Refusals
  <1>3. CASE k.request = "GET"
    BY <1>3 DEF Refusals
  <1>4. CASE k.request = "CHANGED"
    BY <1>4 DEF Refusals
  <1>5. CASE k.request = "DELETE"
    BY <1>5 DEF Refusals
  <1>6. CASE k.request \notin {"HEAD", "CREATE", "PUT", "GET", "CHANGED", "DELETE"}
    BY <1>6 DEF Refusals
  <1>7. QED
    BY <1>1, <1>2, <1>3, <1>4, <1>5, <1>6

\* The container check, refused: there is no container, or somebody else just created it.
LEMMA AfterRefusedReachKeeps ==
    ASSUME NEW k, NEW st, NEW ou, NEW cont, Core(k, st, ou, objects, cont),
           SetupIsKnown, ~IsMemory, k.stage # "Done", container => cont, k.op = "reach",
           NEW failure \in Refusals(k)
    PROVE  Core(AfterFailure(k, failure), st, ou, objects, cont)
  <1>1. k \in CallRecord /\ k.request \in {"HEAD", "CREATE"}
    BY DEF Core, Shape, CallRecord
  <1>2. AfterFailure(k, failure) = AfterRefusedReach(k, failure)
    BY DEF AfterFailure
  <1>3. CASE k.request = "HEAD"
    <2>1. IsAbsent(failure)
      BY <1>3, RefusalsHaveAReason DEF Refused, IsAbsent
    <2>2. CASE setup.config.isCreationAllowed
      <3> DEFINE e == [k EXCEPT !.stage = "Ready", !.request = "CREATE"]
      <3>1. AfterRefusedReach(k, failure) = e
        BY <1>3, <2>1, <2>2 DEF AfterRefusedReach
      <3>2. /\ e \in CallRecord /\ e.op = "reach" /\ e.stage = "Ready" /\ e.request = "CREATE"
            /\ e.found = k.found
        BY <1>1 DEF CallRecord
      <3> HIDE DEF e
      <3>3. /\ Shape(e) /\ RequestIsSound(e, objects) /\ Reading(e, st, ou, objects) /\ Listing(e, st, objects)
            /\ Deleting(e, st) /\ Reaching(e, cont)
        BY <3>2 DEF Core, Shape, RequestIsSound, Reading, Listing, Deleting, Reaching
      <3>4. Core(e, st, ou, objects, cont)
        BY <3>2, <3>3 DEF Core
      <3>5. QED
        BY <1>2, <3>1, <3>4
    <2>3. CASE ~setup.config.isCreationAllowed
      <3>1. AfterRefusedReach(k, failure) = Ended(k, "Backend")
        BY <1>3, <2>1, <2>3 DEF AfterRefusedReach
      <3>2. MayEnd(k, "Backend", st, ou, cont)
        BY <2>3 DEF MayEnd
      <3>3. QED
        BY <1>2, <3>1, <3>2, EndedKeeps
    <2>4. QED
      BY <2>2, <2>3
  <1>4. CASE k.request = "CREATE"
    <2>1. failure = Refused(409, NoCode) /\ cont
      BY <1>4, RefusalsHaveAReason
    <2>2. IsLostCreationRace(setup.config.provider, failure)
      BY <2>1 DEF SetupIsKnown, IsMemory, Provider, Refused, NoCode, IsLostCreationRace, S3LostCreation,
                  GcsLostCreation, AzureLostCreation, IsConflict, IntoAzureError, Unasked, RefusedByAzure
    <2>3. AfterRefusedReach(k, failure) = Ended(k, "Ok")
      BY <1>4, <2>2 DEF AfterRefusedReach
    <2>4. MayEnd(k, "Ok", st, ou, cont)
      BY <2>1 DEF MayEnd
    <2>5. QED
      BY <1>2, <2>3, <2>4, EndedKeeps
  <1>5. QED
    BY <1>1, <1>3, <1>4

\* A call survives a refusal, and takes it for what it says.
LEMMA AfterRefusalKeeps ==
    ASSUME NEW k, NEW st, NEW ou, NEW cont, Core(k, st, ou, objects, cont),
           SetupIsKnown, ~IsMemory, k.stage # "Done", container => cont,
           NEW failure \in Refusals(k)
    PROVE  Core(AfterFailure(k, failure), st, ou, objects, cont)
  <1> DEFINE error == IntoStorageError(setup.config.provider, failure)
             r == IF IsRecorded(setup.config.provider, failure) THEN Recorded(k) ELSE k
             outcome == SettleRefusal(setup.config.provider, failure, Expected(k))
  <1>1. k \in CallRecord /\ Shape(k) /\ st \subseteq Stored
    BY DEF Core, Stored, StoredIn
  <1>2. CASE k.op = "reach"
    BY <1>2, AfterRefusedReachKeeps
  <1>3. CASE k.op # "reach"
    <2>1. /\ Core(r, st, ou, objects, cont) /\ SameCall(k, r) /\ r.stage = k.stage /\ r.request = k.request
          /\ r.keys = k.keys /\ r.isTroubled = k.isTroubled
      BY <1>1, RecordedKeeps, RecordedFields DEF SameCall
    <2>2. AfterFailure(k, failure) = IF outcome # "Ok" THEN Retried(r, outcome)
                                     ELSE IF k.request = "DELETE" THEN AfterBatch(r) ELSE Ended(r, "Unchanged")
      BY <1>3 DEF AfterFailure
    <2>3. outcome = IF \/ Expected(k) = "NotModified" /\ IsNotModified(failure)
                       \/ Expected(k) = "ObjectGone" /\ IsObjectGone(setup.config.provider, failure)
                    THEN "Ok" ELSE error
      BY DEF SettleRefusal
    <2> HIDE DEF r, error, outcome
    <2>4. CASE k.request = "PUT"
      <3>1. k.op = "save" /\ outcome = error
        BY <1>1, <2>3, <2>4 DEF Shape, Expected
      <3>2. error # "Ok"
        BY <2>4, RefusalsHaveAReason, RefusalsSayWhy DEF error
      <3>3. Core(Retried(r, outcome), st, ou, objects, cont)
        BY <2>1, <3>1, <3>2, RetriedKeeps DEF SameCall
      <3>4. QED
        BY <2>2, <3>1, <3>2, <3>3
    <2>5. CASE k.request = "GET"
      <3>1. k.op = "get" /\ outcome = error
        BY <1>1, <2>3, <2>5 DEF Shape, Expected
      <3>2. error # "Ok" /\ (error = "NotFound" => objects[k.iter].version = 0)
        BY <2>5, RefusalsHaveAReason, RefusalsSayWhy DEF error
      <3>3. error = "NotFound" => ou
        BY <2>5, <3>2 DEF Core, Reading, StoredIn
      <3>4. Core(Retried(r, outcome), st, ou, objects, cont)
        BY <2>1, <3>1, <3>2, <3>3, RetriedKeeps DEF SameCall
      <3>5. QED
        BY <2>2, <3>1, <3>2, <3>4
    <2>6. CASE k.request = "CHANGED"
      <3>1. k.op = "changed"
        BY <1>1, <2>6 DEF Shape
      <3>2. CASE outcome # "Ok"
        <4>1. Core(Retried(r, outcome), st, ou, objects, cont)
          BY <2>1, <3>1, <3>2, RetriedKeeps DEF SameCall
        <4>2. QED
          BY <2>2, <3>2, <4>1
      <3>3. CASE outcome = "Ok"
        <4>1. MayEnd(r, "Unchanged", st, ou, cont)
          BY <2>1, <3>1 DEF MayEnd, SameCall
        <4>2. QED
          BY <2>1, <2>2, <2>6, <3>3, <4>1, EndedKeeps
      <3>4. QED
        BY <3>2, <3>3
    <2>7. CASE k.request = "DELETE"
      <3>1. /\ setup.config.provider # "s3" /\ ~(NextBatch(k) \subseteq Stored)
            /\ IsObjectGone(setup.config.provider, failure)
        BY <2>7, RefusalsHaveAReason, RefusalsSayWhy
      <3>2. outcome = "Ok"
        BY <2>3, <2>7, <3>1 DEF Expected
      <3>3. NextBatch(k) \cap st = {}
        <4>1. setup.config.batchSize = 1 /\ k.keys \subseteq Iterations
          BY <1>1, <3>1 DEF SetupIsKnown, IsMemory, Provider, CallRecord
        <4>2. PICK i \in NextBatch(k) : i \notin Stored
          BY <3>1
        <4>3. \A j \in NextBatch(k) : j = i
          BY <4>1, <4>2, BatchOfOne
        <4>4. QED
          BY <1>1, <4>2, <4>3
      <3>4. NextBatch(r) = NextBatch(k)
        BY <2>1 DEF NextBatch
      <3>5. Core(AfterBatch(r), st, ou, objects, cont)
        BY <2>1, <2>7, <3>3, <3>4, AfterBatchKeeps
      <3>6. QED
        BY <2>2, <2>7, <3>2, <3>5
    <2>8. k.request \in {"PUT", "GET", "CHANGED", "DELETE"}
      BY <1>1, <1>3, RefusalsHaveAReason DEF CallRecord, Shape
    <2>9. QED
      BY <2>4, <2>5, <2>6, <2>7, <2>8
  <1>4. QED
    BY <1>2, <1>3

\* A call goes on with what the store served it: objs and cont are what is stored afterwards.
LEMMA AfterServedKeeps ==
    ASSUME NEW k, NEW st, NEW ou, NEW objs, NEW cont, Core(k, st, ou, objs, cont),
           SetupIsKnown, StoreIsSound(objects), ~IsMemory, k.stage # "Done", Refusals(k) = {},
           container => cont,
           k.request = "LIST" => objs = objects,
           k.request = "CREATE" => cont,
           k.request = "DELETE" => NextBatch(k) \cap StoredIn(objs) = {}
    PROVE  Core(AfterServed(k), st, ou, objs, cont)
  <1> DEFINE r == Recorded(k)
  <1>1. k \in CallRecord /\ Shape(k) /\ st \subseteq StoredIn(objs)
    BY DEF Core
  <1>2. /\ Core(r, st, ou, objs, cont) /\ SameCall(k, r) /\ r.stage = k.stage /\ r.request = k.request
        /\ r.keys = k.keys /\ r.isTroubled = k.isTroubled
    BY <1>1, RecordedKeeps, RecordedFields
  <1>3. CASE k.request = "LIST" /\ k.op = "get"
    <2>1. AfterServed(k) = AfterNewest(r)
      BY <1>3 DEF AfterServed
    <2> HIDE DEF r
    <2>2. QED
      BY <1>2, <1>3, <2>1, AfterNewestKeeps DEF SameCall
  <1>4. CASE k.request = "LIST" /\ k.op = "list"
    <2>1. AfterServed(k) = AfterPage(r)
      BY <1>4 DEF AfterServed
    <2> HIDE DEF r
    <2>2. QED
      BY <1>2, <1>4, <2>1, AfterPageKeeps DEF SameCall
  <1>5. CASE k.request = "DELETE"
    <2>1. AfterServed(k) = AfterBatch(r)
      BY <1>5 DEF AfterServed
    <2> HIDE DEF r
    <2>2. NextBatch(r) = NextBatch(k)
      BY <1>2 DEF NextBatch
    <2>3. NextBatch(r) \cap st = {}
      BY <1>1, <1>5, <2>2
    <2>4. QED
      BY <1>2, <1>5, <2>1, <2>3, AfterBatchKeeps
  <1>6. CASE k.request \in {"HEAD", "CREATE", "GET", "CHANGED", "PUT"}
    <2>1. AfterServed(k) = Ended(r, "Ok")
      BY <1>6 DEF AfterServed
    <2> HIDE DEF r
    <2>2. r.op = k.op /\ r.iter = k.iter
      BY <1>2 DEF SameCall
    <2>3. k.request = "HEAD" => container
      BY DEF Refusals
    <2>4. MayEnd(r, "Ok", st, ou, cont)
      BY <1>1, <1>6, <2>2, <2>3 DEF MayEnd, Shape, Core, Reading
    <2>5. QED
      BY <1>2, <2>1, <2>4, EndedKeeps
  <1>7. QED
    BY <1>1, <1>3, <1>4, <1>5, <1>6 DEF CallRecord, Shape

-----------------------------------------------------------------------------
(* What a call costs *)

\* The keys a job and the object beside it can have.
KeySpace == {BuildJobIterationPath(i) : i \in Iterations} \cup {ForeignKey}
Passed(cursor) == {key \in KeySpace : key <= cursor}

LEMMA KeySpaceIsBounded ==
    IsFiniteSet(KeySpace) /\ Cardinality(KeySpace) \in Nat /\ Cardinality(KeySpace) <= LastIteration + 1
  <1> DEFINE KeyOf == [i \in 0 .. LastIteration |-> IF i = 0 THEN ForeignKey ELSE BuildJobIterationPath(i)]
  <1>1. LastIteration \in Nat
    BY SizesAssumption
  <1>2. KeyOf \in Surjection(0 .. LastIteration, KeySpace)
    <2>1. /\ \A i \in 0 .. LastIteration : KeyOf[i] \in KeySpace
          /\ \A key \in KeySpace : \E i \in 0 .. LastIteration : KeyOf[i] = key
      <3>1. /\ \A i \in 0 .. LastIteration : i = 0 \/ i \in Iterations
            /\ \A i \in Iterations : i \in 0 .. LastIteration /\ i # 0
            /\ 0 \in 0 .. LastIteration
        BY <1>1 DEF Iterations
      <3>2. QED
        BY <3>1 DEF KeySpace
    <2>2. QED
      BY <2>1 DEF Surjection
  <1>3. IsFiniteSet(0 .. LastIteration) /\ Cardinality(0 .. LastIteration) = LastIteration + 1
    BY <1>1, FS_Interval
  <1> HIDE DEF KeyOf
  <1>4. IsFiniteSet(KeySpace) /\ Cardinality(KeySpace) <= Cardinality(0 .. LastIteration)
    BY <1>2, <1>3, FS_Surjection
  <1>5. QED
    BY <1>3, <1>4, FS_CardinalityType

\* So many pages of that size are no more than fit.
LEMMA PagesFit ==
    ASSUME NEW n \in Nat, NEW size \in Nat \ {0}, NEW most \in Nat, n * size <= most
    PROVE  n <= most \div size
  <1> DEFINE q == most \div size
             rest == most % size
  <1>1. q \in Nat /\ rest \in Nat /\ rest < size /\ most = size * q + rest
    OBVIOUS
  <1> HIDE DEF q, rest
  <1>2. SUFFICES ASSUME n >= q + 1 PROVE FALSE
    BY <1>1 DEF q
  <1>3. PICK d \in Nat : n = q + 1 + d
    BY <1>1, <1>2
  <1>4. n * size = size * q + size + d * size
    BY <1>1, <1>3
  <1>5. d * size \in Nat
    OBVIOUS
  <1> DEFINE x == d * size
             y == size * q
             z == n * size
  <1>6. x \in Nat /\ y \in Nat /\ z = y + size + x /\ z <= most /\ most = y + rest /\ rest < size
    BY <1>1, <1>4, <1>5
  <1> HIDE DEF x, y, z
  <1>7. QED
    BY <1>1, <1>6

\* A page that leaves something is full, and what it names was not passed before.
LEMMA PageIsFull ==
    ASSUME NEW k, k.cursor \in Nat, NEW size \in Nat \ {0},
           ListedPage(k, size) # ListableKeys(k)
    PROVE  LET last == Max(ListedPage(k, size))
           IN /\ Cardinality(Passed(k.cursor)) \in Nat /\ Cardinality(Passed(last)) \in Nat
              /\ Cardinality(Passed(k.cursor)) + size <= Cardinality(Passed(last))
              /\ Cardinality(Passed(last)) <= LastIteration
  <1> DEFINE page == ListedPage(k, size)
             last == Max(page)
             Below(key) == {other \in ListableKeys(k) : other < key}
             rest == ListableKeys(k) \ page
  <1>1. /\ page \subseteq ListableKeys(k) /\ ListableKeys(k) \subseteq Nat /\ IsFiniteSet(ListableKeys(k))
        /\ ListableKeys(k) \subseteq KeySpace
        /\ \A key \in ListableKeys(k) : key > k.cursor
        /\ page = {key \in ListableKeys(k) : Cardinality(Below(key)) < size}
    <2>1. ListableKeys(k) \subseteq KeySpace
      BY ListableIsStored DEF KeySpace, Stored
    <2>2. QED
      BY <2>1, ListableIsFinite, ListableIsStored DEF ListedPage, ListableKeys
  <1>2. PICK x \in rest : \A other \in rest : x <= other
    <2>1. rest # {} /\ rest \in SUBSET Nat
      BY <1>1
    <2>2. QED
      BY <2>1, MinExists
  <1>3. Below(x) \subseteq page
    <2> SUFFICES ASSUME NEW y \in Below(x), y \notin page PROVE FALSE
      OBVIOUS
    <2>1. x \in Nat /\ y \in Nat /\ y < x
      BY <1>1, <1>2
    <2>2. x <= y
      BY <1>2
    <2>3. QED
      BY <2>1, <2>2
  <1>4. IsFiniteSet(page) /\ Cardinality(page) \in Nat /\ Cardinality(page) >= size
    <2>1. IsFiniteSet(page) /\ IsFiniteSet(Below(x))
      BY <1>1, FS_Subset
    <2> DEFINE few == Cardinality(Below(x))
               many == Cardinality(page)
    <2>2. few <= many /\ few \in Nat /\ many \in Nat
      BY <1>3, <2>1, FS_Subset, FS_CardinalityType
    <2>3. ~(few < size)
      BY <1>1, <1>2
    <2> HIDE DEF few, many
    <2>4. many >= size
      BY <2>2, <2>3
    <2>5. QED
      BY <2>1, <2>2, <2>4 DEF many
  <1>5. page # {}
    BY <1>4, FS_EmptySet
  <1>6. last \in page /\ (\A key \in page : key <= last) /\ last \in Nat
    <2>1. page \in SUBSET (0 .. 2 * LastIteration + 1) /\ 2 * LastIteration + 1 \in Nat
      BY <1>1, ListableIsFinite, SizesAssumption
    <2>2. last \in page /\ \A key \in page : key <= last
      BY <1>5, <2>1, MaxIsGreatest
    <2>3. QED
      BY <1>1, <2>2
  <1>7. x \notin Passed(last)
    <2>1. ~(x <= last)
      BY <1>1, <1>2, <1>6, PageIsFirst
    <2>2. QED
      BY <2>1 DEF Passed
  <1> HIDE DEF page, last, rest
  <1>8. page \subseteq Passed(last) /\ page \cap Passed(k.cursor) = {} /\ Passed(k.cursor) \subseteq Passed(last)
    <2>1. last > k.cursor
      BY <1>1, <1>6
    <2>2. \A key \in KeySpace : key \in Nat
      BY KeysAreOrdered DEF KeySpace
    <2>3. QED
      BY <1>1, <1>6, <2>1, <2>2 DEF Passed
  <1>9. IsFiniteSet(Passed(last)) /\ IsFiniteSet(Passed(k.cursor))
    BY KeySpaceIsBounded, FS_Subset DEF Passed
  <1> DEFINE before == Cardinality(Passed(k.cursor))
             here == Cardinality(page)
             after == Cardinality(Passed(last))
             all == Cardinality(KeySpace)
  <1>10. before + here <= after /\ before \in Nat /\ after \in Nat
    <2>1. /\ IsFiniteSet(Passed(k.cursor) \cup page)
          /\ Cardinality(Passed(k.cursor) \cup page) = before + here - Cardinality(Passed(k.cursor) \cap page)
      BY <1>4, <1>9, FS_Union
    <2>2. Cardinality(Passed(k.cursor) \cap page) = 0
      BY <1>8, FS_EmptySet
    <2>3. before \in Nat /\ here \in Nat /\ after \in Nat
      BY <1>4, <1>9, FS_CardinalityType
    <2> DEFINE joint == Cardinality(Passed(k.cursor) \cup page)
    <2>4. joint <= after
      BY <1>8, <1>9, FS_Subset
    <2>5. joint = before + here
      BY <2>1, <2>2, <2>3
    <2> HIDE DEF joint, before, here, after
    <2>6. QED
      BY <2>3, <2>4, <2>5
  <1>11. after <= all /\ after # all
    <2>1. x \in KeySpace
      BY <1>1, <1>2 DEF rest
    <2>2. Passed(last) \in SUBSET KeySpace /\ Passed(last) # KeySpace
      BY <1>7, <2>1 DEF Passed
    <2>3. QED
      BY <2>2, KeySpaceIsBounded, FS_Subset
  <1>12. all \in Nat /\ all <= LastIteration + 1 /\ here >= size /\ here \in Nat
    BY <1>4, KeySpaceIsBounded
  <1> HIDE DEF before, here, after, all
  <1>13. before + size <= after /\ after <= LastIteration
    BY <1>10, <1>11, <1>12, SizesAssumption
  <1>14. QED
    BY <1>10, <1>13 DEF before, after, last, page

Attempts == Max({1, setup.config.maxAttempts})
Flown(k) == IF k.stage = "InFlight" THEN 1 ELSE 0
Second(k) == IF k.request \in {"CREATE", "GET"} THEN 1 ELSE 0

\* Every request but the last of a call let go of is recorded once.
Recording(k) ==
    k.op # "reach" =>
        /\ k.stage = "InFlight" => k.sent = k.recorded + 1
        /\ k.stage = "Ready" => k.sent = k.recorded
        /\ k.stage = "Done" => \/ k.recorded = k.sent
                               \/ /\ IsRetried(k.op) /\ k.result = "Cancelled"
                                  /\ k.recorded = k.sent - 1

\* An attempt is two requests at most, and only the last one is spent.
Trying(k) ==
    /\ k.stage # "Done" => k.result = "none" /\ (IsRetried(k.op) => k.attempt < Attempts)
    /\ k.result = "AttemptsSpent" => k.attempt = Attempts
    /\ k.op \in {"reach", "get"} =>
          k.sent <= IF k.stage = "Done" THEN 2 * Attempts ELSE 2 * k.attempt + Second(k) + Flown(k)
    /\ k.op = "save" => k.sent <= IF k.stage = "Done" THEN Attempts ELSE k.attempt + Flown(k)
    /\ k.op \in {"none", "changed"} => k.sent <= IF k.stage = "Done" THEN 1 ELSE Flown(k)

\* Every page but the last passed as many keys as fit in one.
Paging(k) ==
    k.op = "list" =>
        /\ k.stage # "Done" =>
              /\ k.sent - Flown(k) \in Nat
              /\ (k.sent - Flown(k)) * setup.config.pageSize <= Cardinality(Passed(k.cursor))
              /\ Cardinality(Passed(k.cursor)) <= LastIteration
        /\ k.stage = "Done" => k.sent <= LastIteration \div setup.config.pageSize + 1

\* Every batch was of at least one iteration.
Batching(k) ==
    k.op = "delete" =>
        /\ k.stage # "Done" => /\ k.keys # {} /\ k.keys \subseteq k.found
                               /\ k.sent - Flown(k) + Cardinality(k.keys) <= Cardinality(k.found)
        /\ k.stage = "Done" => k.sent <= Cardinality(k.found)

Costing(k) == ~IsMemory => Trying(k) /\ Paging(k) /\ Batching(k)
Counting(k) == Recording(k) /\ Costing(k)

\* A call none of whose requests is unrecorded, in the middle of a step.
Settled(k) == /\ k \in CallRecord /\ k.stage # "Done" /\ Shape(k)
              /\ k.op # "reach" => k.recorded = k.sent
              /\ Costing(k)

LEMMA AttemptsFit ==
    ASSUME SetupIsKnown, ~IsMemory
    PROVE  /\ Attempts \in Nat /\ Attempts >= 1 /\ setup.config.maxAttempts \in Nat
           /\ Attempts >= setup.config.maxAttempts
           /\ Attempts = 1 \/ Attempts = setup.config.maxAttempts
  <1> DEFINE most == setup.config.maxAttempts
             n == most + 1
  <1>1. most \in Nat
    BY DEF SetupIsKnown
  <1> HIDE DEF most
  <1>2. n \in Nat /\ {1, most} \in SUBSET (0 .. n) /\ {1, most} # {}
    BY <1>1
  <1>3. Attempts = Max({1, most})
    BY DEF Attempts, most
  <1>4. Attempts \in {1, most} /\ \A j \in {1, most} : j <= Attempts
    BY <1>2, <1>3, MaxIsGreatest
  <1>5. QED
    BY <1>1, <1>4 DEF most

LEMMA FlownIsOne == ASSUME NEW k PROVE Flown(k) \in {0, 1}
  BY DEF Flown

LEMMA SetsOfIterations ==
    ASSUME NEW S, S \subseteq Iterations
    PROVE  /\ IsFiniteSet(S) /\ Cardinality(S) \in Nat /\ (S # {} => Cardinality(S) >= 1)
           /\ \A T \in SUBSET S : Cardinality(T) \in Nat /\ Cardinality(T) <= Cardinality(S)
           /\ \A x \in S : Cardinality(S \ {x}) = Cardinality(S) - 1
  <1>1. IsFiniteSet(Iterations)
    BY SizesAssumption, FS_Interval DEF Iterations
  <1>2. IsFiniteSet(S)
    BY <1>1, FS_Subset
  <1>3. Cardinality(S) \in Nat
    BY <1>2, FS_CardinalityType
  <1>4. S # {} => Cardinality(S) # 0
    BY <1>2, FS_EmptySet
  <1>5. \A T \in SUBSET S : IsFiniteSet(T) /\ Cardinality(T) <= Cardinality(S)
    BY <1>2, FS_Subset
  <1>6. \A T \in SUBSET S : Cardinality(T) \in Nat
    BY <1>5, FS_CardinalityType
  <1>7. \A x \in S : Cardinality(S \ {x}) = Cardinality(S) - 1
    BY <1>2, FS_RemoveElement
  <1>8. QED
    BY <1>2, <1>3, <1>4, <1>5, <1>6, <1>7

\* What a call has cost when it ends.
LEMMA EndedCounts ==
    ASSUME SetupIsKnown, NEW k, Settled(k), NEW result, Report(result) # "AttemptsSpent",
           NEW l \in CallRecord, l.op = k.op, l.sent = k.sent, l.recorded = k.recorded,
           k.op = "delete" => l.found = k.found
    PROVE  Counting(Ended(l, result))
  <1> DEFINE e == Ended(l, result)
  <1>1. /\ e \in CallRecord /\ e.op = k.op /\ e.sent = k.sent /\ e.recorded = k.recorded /\ e.stage = "Done"
        /\ e.result # "AttemptsSpent" /\ (k.op = "delete" => e.found = k.found)
    BY EndedFields DEF SameCall
  <1>2. /\ k \in CallRecord /\ k.stage # "Done" /\ k.sent \in Nat /\ k.attempt \in Nat
        /\ k.found \subseteq Iterations /\ k.keys \subseteq Iterations
    BY DEF Settled, CallRecord
  <1> HIDE DEF e
  <1>3. Recording(e)
    BY <1>1 DEF Settled, Recording
  <1>4. ASSUME ~IsMemory
        PROVE  Trying(e) /\ Paging(e) /\ Batching(e)
    <2>1. Trying(k) /\ Paging(k) /\ Batching(k)
      BY <1>4 DEF Settled, Costing
    <2>2. Flown(k) \in {0, 1} /\ Second(k) \in {0, 1}
      BY DEF Flown, Second
    <2>3. Attempts \in Nat /\ Attempts >= 1
      BY <1>4, AttemptsFit
    <2>4. Trying(e)
      <3>1. CASE k.op \in {"reach", "get"}
        <4>1. k.attempt < Attempts /\ k.sent <= 2 * k.attempt + Second(k) + Flown(k)
          BY <1>2, <2>1, <3>1 DEF Trying, IsRetried
        <4>2. k.sent <= 2 * Attempts
          BY <1>2, <2>2, <2>3, <4>1
        <4>3. QED
          BY <1>1, <3>1, <4>2 DEF Trying
      <3>2. CASE k.op = "save"
        <4>1. k.attempt < Attempts /\ k.sent <= k.attempt + Flown(k)
          BY <1>2, <2>1, <3>2 DEF Trying, IsRetried
        <4>2. k.sent <= Attempts
          BY <1>2, <2>2, <2>3, <4>1
        <4>3. QED
          BY <1>1, <3>2, <4>2 DEF Trying
      <3>3. CASE k.op \in {"none", "changed"}
        BY <1>1, <1>2, <2>1, <2>2, <3>3 DEF Trying
      <3>4. QED
        BY <1>1, <3>1, <3>2, <3>3 DEF Trying
    <2>5. Paging(e)
      <3> SUFFICES ASSUME k.op = "list"
                   PROVE  k.sent <= LastIteration \div setup.config.pageSize + 1
        BY <1>1 DEF Paging
      <3> DEFINE n == k.sent - Flown(k)
                 passed == Cardinality(Passed(k.cursor))
                 most == LastIteration \div setup.config.pageSize
      <3>1. /\ n \in Nat /\ n * setup.config.pageSize <= passed /\ passed <= LastIteration
            /\ setup.config.pageSize \in Nat \ {0} /\ LastIteration \in Nat
        BY <1>2, <1>4, <2>1, SizesAssumption DEF Paging, SetupIsKnown
      <3>2. passed \in Nat
        BY KeySpaceIsBounded, FS_Subset, FS_CardinalityType DEF Passed
      <3>3. n * setup.config.pageSize <= LastIteration
        <4> DEFINE m == n * setup.config.pageSize
        <4>1. m \in Nat
          BY <3>1
        <4> HIDE DEF passed, m, n
        <4>2. m <= passed
          BY <3>1 DEF m
        <4>3. m <= LastIteration
          BY <3>1, <3>2, <4>1, <4>2
        <4>4. QED
          BY <4>3 DEF m
      <3>4. n <= most
        BY <3>1, <3>3, PagesFit
      <3>5. most \in Int
        BY <3>1
      <3> HIDE DEF most
      <3>6. k.sent <= most + 1
        BY <1>2, <2>2, <3>1, <3>4, <3>5
      <3>7. QED
        BY <3>6 DEF most
    <2>6. Batching(e)
      <3> SUFFICES ASSUME k.op = "delete" PROVE k.sent <= Cardinality(k.found)
        BY <1>1 DEF Batching
      <3> DEFINE left == Cardinality(k.keys)
                 all == Cardinality(k.found)
      <3>1. left \in Nat /\ left >= 1 /\ all \in Nat /\ k.sent - Flown(k) + left <= all
        BY <1>2, <2>1, SetsOfIterations DEF Batching
      <3> HIDE DEF left, all
      <3>2. k.sent <= all
        BY <1>2, <2>2, <3>1
      <3>3. QED
        BY <3>2 DEF all
    <2>7. QED
      BY <2>4, <2>5, <2>6
  <1>5. QED
    BY <1>3, <1>4 DEF Counting, Costing, e

LEMMA RetriedCounts ==
    ASSUME SetupIsKnown, ~IsMemory, NEW k, Settled(k), NEW error, Report(error) # "AttemptsSpent"
    PROVE  Counting(Retried(k, error))
  <1> DEFINE e == Retried(k, error)
  <1>1. /\ k \in CallRecord /\ k.stage # "Done" /\ k.sent \in Nat /\ k.attempt \in Nat
        /\ Trying(k) /\ Paging(k) /\ Batching(k)
    BY DEF Settled, CallRecord, Costing
  <1>2. /\ Attempts \in Nat /\ Attempts >= 1 /\ setup.config.maxAttempts \in Nat
        /\ Attempts >= setup.config.maxAttempts
        /\ Attempts = 1 \/ Attempts = setup.config.maxAttempts
    BY AttemptsFit
  <1>3. Flown(k) \in {0, 1} /\ Second(k) \in {0, 1}
    BY DEF Flown, Second
  <1>4. CASE e = Ended(k, error)
    BY <1>1, <1>4, EndedCounts
  <1>5. ASSUME NEW spent \in CallRecord, SameCall(k, spent),
               spent.sent = k.sent, spent.recorded = k.recorded, spent.attempt = k.attempt + 1,
               IsRetried(k.op), k.attempt + 1 >= setup.config.maxAttempts,
               e = Ended(spent, "AttemptsSpent")
        PROVE  Counting(e)
    <2> DEFINE f == Ended(spent, "AttemptsSpent")
    <2>1. /\ f.op = k.op /\ f.stage = "Done" /\ f.result = "AttemptsSpent"
          /\ f.sent = k.sent /\ f.recorded = k.recorded /\ f.attempt = k.attempt + 1
      BY <1>5, EndedFields DEF SameCall, Report
    <2> HIDE DEF f
    <2>2. k.op \in {"reach", "get", "save"} /\ k.attempt < Attempts
      BY <1>1, <1>5 DEF IsRetried, Trying
    <2>3. k.attempt + 1 = Attempts
      BY <1>1, <1>2, <1>5, <2>2
    <2>4. k.op \in {"reach", "get"} => k.sent <= 2 * Attempts
      BY <1>1, <1>3, <2>3 DEF Trying
    <2>5. k.op = "save" => k.sent <= Attempts
      BY <1>1, <1>3, <2>3 DEF Trying
    <2>6. Trying(f)
      BY <2>1, <2>2, <2>3, <2>4, <2>5 DEF Trying
    <2>7. Paging(f) /\ Batching(f)
      BY <2>1, <2>2 DEF Paging, Batching
    <2>8. Recording(f)
      BY <2>1 DEF Settled, Recording
    <2>9. Counting(f)
      BY <2>6, <2>7, <2>8 DEF Counting, Costing
    <2>10. QED
      BY <1>5, <2>9 DEF f
  <1>6. CASE /\ IsRetried(k.op) /\ ~(k.attempt + 1 >= setup.config.maxAttempts)
             /\ e \in CallRecord /\ SameCall(k, e) /\ e.attempt = k.attempt + 1
             /\ e.stage = "Ready" /\ e.request = FirstRequest(k.op) /\ e.result = k.result
             /\ e.sent = k.sent /\ e.recorded = k.recorded
    <2> HIDE DEF e
    <2>1. e.op = k.op /\ k.op \in {"reach", "get", "save"} /\ Flown(e) = 0 /\ Second(e) \in {0, 1}
      BY <1>6 DEF SameCall, IsRetried, Flown, Second
    <2>2. e.attempt < Attempts /\ e.result = "none"
      BY <1>1, <1>2, <1>6 DEF Trying
    <2>3. k.op \in {"reach", "get"} => e.sent <= 2 * e.attempt + Second(e) + Flown(e)
      <3>1. k.op \in {"reach", "get"} => k.sent <= 2 * k.attempt + Second(k) + Flown(k)
        BY <1>1 DEF Trying
      <3>2. QED
        BY <1>1, <1>3, <1>6, <2>1, <3>1
    <2>4. k.op = "save" => e.sent <= e.attempt + Flown(e)
      <3>1. k.op = "save" => k.sent <= k.attempt + Flown(k)
        BY <1>1 DEF Trying
      <3>2. QED
        BY <1>1, <1>3, <1>6, <2>1, <3>1
    <2>5. Trying(e)
      BY <1>6, <2>1, <2>2, <2>3, <2>4 DEF Trying
    <2>6. Paging(e) /\ Batching(e)
      BY <2>1 DEF Paging, Batching
    <2>7. Recording(e)
      BY <1>6, <2>1 DEF Settled, Recording
    <2>8. Counting(e)
      BY <2>5, <2>6, <2>7 DEF Counting, Costing
    <2>9. QED
      BY <2>8 DEF e
  <1>7. QED
    BY <1>1, <1>4, <1>5, <1>6, RetriedFields

\* Recording a request, and the trouble it met, leaves nothing unrecorded.
LEMMA RecordedSettles ==
    ASSUME NEW k \in CallRecord, Shape(k), Counting(k), k.stage = "InFlight"
    PROVE  /\ Settled(Recorded(k))
           /\ k.op = "reach" => Settled(k)
  <1> DEFINE r == Recorded(k)
  <1>1. /\ r \in CallRecord /\ SameCall(k, r) /\ r.stage = k.stage /\ r.request = k.request
        /\ r.result = k.result /\ r.sent = k.sent /\ r.attempt = k.attempt /\ r.cursor = k.cursor
        /\ r.keys = k.keys /\ r.recorded = IF k.op = "reach" THEN k.recorded ELSE k.recorded + 1
    BY RecordedFields
  <1> HIDE DEF r
  <1>2. Shape(r) /\ Costing(r)
    BY <1>1 DEF SameCall, Shape, Counting, Costing, Trying, Paging, Batching, Flown, Second
  <1>3. r.op # "reach" => r.recorded = r.sent
    BY <1>1 DEF SameCall, Counting, Recording, CallRecord
  <1>4. Settled(r)
    BY <1>1, <1>2, <1>3 DEF Settled
  <1>5. k.op = "reach" => Settled(k)
    BY DEF Settled, Counting
  <1>6. QED
    BY <1>4, <1>5 DEF r

LEMMA TroubledCounts ==
    ASSUME NEW k \in CallRecord, Shape(k), Counting(k)
    PROVE  LET t == [k EXCEPT !.isTroubled = TRUE]
           IN t \in CallRecord /\ Shape(t) /\ Counting(t) /\ t.stage = k.stage /\ t.op = k.op
  <1> DEFINE t == [k EXCEPT !.isTroubled = TRUE]
  <1>1. /\ t \in CallRecord /\ SameCall(k, t) /\ t.stage = k.stage /\ t.request = k.request
        /\ t.result = k.result /\ t.sent = k.sent /\ t.attempt = k.attempt /\ t.cursor = k.cursor
        /\ t.keys = k.keys /\ t.recorded = k.recorded
    BY TroubledFields
  <1> HIDE DEF t
  <1>2. Shape(t)
    BY <1>1 DEF SameCall, Shape
  <1>3. Costing(t)
    BY <1>1 DEF SameCall, Counting, Costing, Trying, Paging, Batching, Flown, Second
  <1>4. Recording(t)
    BY <1>1 DEF SameCall, Counting, Recording
  <1>5. QED
    BY <1>1, <1>2, <1>3, <1>4 DEF SameCall, Counting, t

LEMMA SettledTroubled ==
    ASSUME NEW k, Settled(k)
    PROVE  LET t == [k EXCEPT !.isTroubled = TRUE] IN Settled(t)
  <1> DEFINE t == [k EXCEPT !.isTroubled = TRUE]
  <1>1. k \in CallRecord
    BY DEF Settled
  <1>2. /\ t \in CallRecord /\ SameCall(k, t) /\ t.stage = k.stage /\ t.request = k.request
        /\ t.result = k.result /\ t.sent = k.sent /\ t.attempt = k.attempt /\ t.cursor = k.cursor
        /\ t.keys = k.keys /\ t.recorded = k.recorded
    BY <1>1, TroubledFields
  <1> HIDE DEF t
  <1>3. Shape(t)
    BY <1>2 DEF Settled, SameCall, Shape
  <1>4. Costing(t)
    BY <1>2 DEF Settled, SameCall, Costing, Trying, Paging, Batching, Flown, Second
  <1>5. Settled(t)
    BY <1>2, <1>3, <1>4 DEF Settled, SameCall
  <1>6. QED
    BY <1>5 DEF t

\* The second request of an attempt follows the first.
LEMMA SecondCounts ==
    ASSUME SetupIsKnown, ~IsMemory, NEW k, Settled(k), k.op \in {"reach", "get"}, Second(k) = 0,
           NEW e \in CallRecord, e.op = k.op, e.stage = "Ready", e.request \in {"CREATE", "GET"},
           e.result = k.result, e.sent = k.sent, e.recorded = k.recorded, e.attempt = k.attempt
    PROVE  Counting(e)
  <1>1. k \in CallRecord /\ k.stage # "Done" /\ k.sent \in Nat /\ k.attempt \in Nat /\ Trying(k)
    BY DEF Settled, CallRecord, Costing
  <1>2. k.result = "none" /\ k.attempt < Attempts /\ k.sent <= 2 * k.attempt + Flown(k)
    BY <1>1 DEF Trying, IsRetried
  <1>3. Flown(k) \in {0, 1} /\ Flown(e) = 0 /\ Second(e) = 1
    BY DEF Flown, Second
  <1>4. e.sent <= 2 * e.attempt + Second(e) + Flown(e)
    BY <1>1, <1>2, <1>3
  <1>5. Trying(e)
    BY <1>2, <1>4 DEF Trying
  <1>6. Paging(e) /\ Batching(e) /\ Recording(e)
    BY DEF Paging, Batching, Recording, Settled
  <1>7. QED
    BY <1>5, <1>6 DEF Counting, Costing

LEMMA AfterNewestCounts ==
    ASSUME SetupIsKnown, ~IsMemory, StoreIsSound(objects), NEW k, Settled(k),
           k.op = "get", k.request = "LIST", k.cursor = 0
    PROVE  Counting(AfterNewest(k))
  <1> DEFINE first == Min(ListedPage(k, 1))
             newest == ParseIterNum(first)
  <1>1. k \in CallRecord
    BY DEF Settled
  <1>2. CASE ListedPage(k, 1) = {}
    <2>1. AfterNewest(k) = Ended(k, "NotFound")
      BY <1>2 DEF AfterNewest
    <2>2. Report("NotFound") # "AttemptsSpent"
      BY DEF Report
    <2>3. QED
      BY <1>1, <2>1, <2>2, EndedCounts
  <1>3. CASE ListedPage(k, 1) # {} /\ ~IsOfThisCodec(first)
    <2>1. AfterNewest(k) = Retried(k, "Other")
      BY <1>3 DEF AfterNewest
    <2>2. Report("Other") # "AttemptsSpent"
      BY DEF Report
    <2>3. QED
      BY <2>1, <2>2, RetriedCounts
  <1>4. CASE ListedPage(k, 1) # {} /\ IsOfThisCodec(first)
    <2> DEFINE version == objects[newest].version
               e == [k EXCEPT !.stage = "Ready", !.request = "GET", !.iter = newest, !.version = version]
    <2>1. AfterNewest(k) = e
      BY <1>4 DEF AfterNewest
    <2>2. newest \in Stored
      BY <1>4, FirstIsNewest
    <2> HIDE DEF first, newest
    <2>3. newest \in 0 .. LastIteration /\ version \in Nat
      BY <2>2, SizesAssumption DEF Stored, Iterations, StoreIsSound
    <2> HIDE DEF version
    <2>4. /\ e \in CallRecord /\ e.op = k.op /\ e.stage = "Ready" /\ e.request = "GET"
          /\ e.result = k.result /\ e.sent = k.sent /\ e.recorded = k.recorded /\ e.attempt = k.attempt
      BY <1>1, <2>3 DEF CallRecord
    <2> HIDE DEF e
    <2>5. Second(k) = 0
      BY DEF Second
    <2>6. Counting(e)
      BY <2>4, <2>5, SecondCounts
    <2>7. QED
      BY <2>1, <2>6
  <1>5. QED
    BY <1>2, <1>3, <1>4

LEMMA AfterPageCounts ==
    ASSUME SetupIsKnown, ~IsMemory, NEW k, Settled(k), k.op = "list", k.request = "LIST", k.stage = "InFlight"
    PROVE  Counting(AfterPage(k))
  <1> DEFINE size == setup.config.pageSize
             page == ListedPage(k, size)
             more == {ParseIterNum(key) : key \in
                        {key \in page : IsOfThisCodec(key) /\ ParseIterNum(key) <= k.boundary}}
             named == k.found \cup more
             listed == [k EXCEPT !.found = named]
             last == Max(page)
             e == [listed EXCEPT !.stage = "Ready", !.cursor = last]
  <1>1. /\ k \in CallRecord /\ k.sent \in Nat /\ k.cursor \in Nat /\ k.found \subseteq Iterations
        /\ size \in Nat \ {0} /\ Trying(k) /\ Paging(k)
    BY DEF Settled, CallRecord, Costing, SetupIsKnown
  <1>2. AfterPage(k) = IF page = ListableKeys(k) THEN Ended(listed, "Ok") ELSE e
    BY DEF AfterPage
  <1>3. page \subseteq ListableKeys(k)
    BY <1>1, PageIsFirst
  <1>4. named \subseteq Iterations
    <2> SUFFICES ASSUME NEW key \in page, IsOfThisCodec(key) PROVE ParseIterNum(key) \in Iterations
      BY <1>1
    <2>1. PICK i \in Stored : key = BuildJobIterationPath(i)
      BY <1>3, ListableIsStored, KeysAreOrdered
    <2>2. QED
      BY <2>1, KeysAreOrdered DEF Stored
  <1> HIDE DEF more, named
  <1>5. /\ listed \in CallRecord /\ listed.op = "list" /\ listed.sent = k.sent /\ listed.recorded = k.recorded
        /\ listed.result = k.result
    BY <1>1, <1>4 DEF CallRecord
  <1>6. CASE page = ListableKeys(k)
    <2> HIDE DEF listed, page
    <2>1. Report("Ok") # "AttemptsSpent"
      BY DEF Report
    <2>2. Counting(Ended(listed, "Ok"))
      BY <1>5, <2>1, EndedCounts
    <2>3. QED
      BY <1>2, <1>6, <2>2
  <1>7. CASE page # ListableKeys(k)
    <2> DEFINE before == Cardinality(Passed(k.cursor))
               after == Cardinality(Passed(last))
               n == k.sent - 1
    <2>1. before \in Nat /\ after \in Nat /\ before + size <= after /\ after <= LastIteration
      BY <1>1, <1>7, PageIsFull
    <2>2. last \in Nat
      <3>1. page \in SUBSET (0 .. 2 * LastIteration + 1) /\ 2 * LastIteration + 1 \in Nat
        BY <1>3, ListableIsFinite, SizesAssumption
      <3>2. page # {}
        BY <1>1, <1>3, <1>7, PageIsFirst
      <3>3. last \in page
        BY <3>1, <3>2, MaxIsGreatest
      <3>4. QED
        BY <1>3, <3>3, ListableIsStored
    <2> HIDE DEF last
    <2>3. /\ e \in CallRecord /\ e.op = "list" /\ e.stage = "Ready" /\ e.sent = k.sent
          /\ e.recorded = k.recorded /\ e.result = k.result /\ e.cursor = last
      BY <1>5, <2>2 DEF CallRecord
    <2> HIDE DEF e, listed, page
    <2>4. Flown(e) = 0 /\ Flown(k) = 1
      BY <2>3 DEF Flown
    <2>5. n \in Nat /\ n * size <= before
      BY <1>1, <2>4 DEF Paging
    <2>6. k.sent * size <= after
      <3>1. k.sent = n + 1
        BY <1>1
      <3> HIDE DEF n, before, after, size
      <3>2. k.sent * size = n * size + size
        BY <1>1, <2>5, <3>1
      <3> DEFINE m == n * size
      <3>3. m \in Nat
        BY <1>1, <2>5
      <3>4. m <= before
        BY <2>5
      <3> HIDE DEF m
      <3>5. m + size <= after
        BY <1>1, <2>1, <3>3, <3>4
      <3>6. QED
        BY <3>2, <3>5 DEF m
    <2>7. Paging(e)
      BY <1>1, <2>1, <2>3, <2>4, <2>6 DEF Paging
    <2>8. Trying(e) /\ Batching(e) /\ Recording(e)
      BY <1>1, <2>3 DEF Trying, Batching, Recording, IsRetried, Settled
    <2>9. Counting(e)
      BY <2>7, <2>8 DEF Counting, Costing
    <2>10. QED
      BY <1>2, <1>7, <2>9 DEF page
  <1>8. QED
    BY <1>6, <1>7

LEMMA AfterBatchCounts ==
    ASSUME SetupIsKnown, ~IsMemory, NEW k, Settled(k), k.request = "DELETE", k.stage = "InFlight"
    PROVE  Counting(AfterBatch(k))
  <1> DEFINE batch == NextBatch(k)
             rest == k.keys \ batch
             left == [k EXCEPT !.keys = rest]
             e == [k EXCEPT !.keys = rest, !.stage = "Ready"]
  <1>1. /\ k \in CallRecord /\ k.op = "delete" /\ k.sent \in Nat
        /\ k.keys \subseteq Iterations /\ k.found \subseteq Iterations /\ Trying(k) /\ Batching(k)
    BY DEF Settled, CallRecord, Costing, Shape
  <1>2. k.keys # {} /\ k.keys \subseteq k.found /\ k.sent - 1 + Cardinality(k.keys) <= Cardinality(k.found)
    BY <1>1 DEF Batching, Flown
  <1>3. \E m \in k.keys : m \in batch
    <2>1. k.keys \in SUBSET (0 .. LastIteration) /\ LastIteration \in Nat
      BY <1>1, SizesAssumption DEF Iterations
    <2>2. PICK m \in k.keys : \A j \in k.keys : j <= m
      BY <1>2, <2>1, MaxExists
    <2>3. {j \in k.keys : j > m} = {}
      BY <2>1, <2>2
    <2>4. Cardinality({j \in k.keys : j > m}) = 0
      BY <2>3, FS_EmptySet
    <2>5. m \in batch
      BY <2>4 DEF NextBatch, SetupIsKnown
    <2>6. QED
      BY <2>2, <2>5
  <1>4. PICK m \in k.keys : m \in batch
    BY <1>3
  <1>5. AfterBatch(k) = IF rest = {} THEN Ended(left, "Ok") ELSE e
    BY DEF AfterBatch
  <1>6. rest \subseteq k.keys \ {m} /\ rest \subseteq Iterations
    BY <1>1, <1>4
  <1> HIDE DEF rest, batch
  <1>7. CASE rest = {}
    <2>1. left \in CallRecord /\ left.op = k.op /\ left.sent = k.sent /\ left.recorded = k.recorded /\ left.found = k.found
      BY <1>1, <1>6 DEF CallRecord
    <2> HIDE DEF left
    <2>2. Report("Ok") # "AttemptsSpent"
      BY DEF Report
    <2>3. Counting(Ended(left, "Ok"))
      BY <2>1, <2>2, EndedCounts
    <2>4. QED
      BY <1>5, <1>7, <2>3
  <1>8. CASE rest # {}
    <2>1. /\ e \in CallRecord /\ e.op = "delete" /\ e.stage = "Ready" /\ e.keys = rest /\ e.found = k.found
          /\ e.sent = k.sent /\ e.recorded = k.recorded /\ e.result = k.result
      BY <1>1, <1>6 DEF CallRecord
    <2> HIDE DEF e
    <2> DEFINE few == Cardinality(rest)
               less == Cardinality(k.keys \ {m})
               many == Cardinality(k.keys)
               all == Cardinality(k.found)
    <2>2. few \in Nat /\ less \in Nat /\ many \in Nat /\ all \in Nat
      BY <1>1, <1>6, SetsOfIterations
    <2>3. few <= less
      BY <1>1, <1>6, SetsOfIterations
    <2>4. less = many - 1
      BY <1>1, <1>4, SetsOfIterations
    <2>5. k.sent - 1 + many <= all
      BY <1>2
    <2> HIDE DEF few, less, many, all
    <2>6. e.sent - 0 + few <= all
      BY <1>1, <2>1, <2>2, <2>3, <2>4, <2>5
    <2>7. Flown(e) = 0
      BY <2>1 DEF Flown
    <2>8. rest \subseteq k.found
      BY <1>2, <1>6
    <2>9. Batching(e)
      BY <1>8, <2>1, <2>6, <2>7, <2>8 DEF Batching, few, all
    <2>10. Trying(e) /\ Paging(e) /\ Recording(e)
      BY <1>1, <2>1 DEF Trying, Paging, Recording, IsRetried, Settled
    <2>11. Counting(e)
      BY <2>9, <2>10 DEF Counting, Costing
    <2>12. QED
      BY <1>5, <1>8, <2>11
  <1>9. QED
    BY <1>7, <1>8

LEMMA RefusalIsRecorded ==
    ASSUME SetupIsKnown, ~IsMemory, NEW k, NEW failure \in Refusals(k), k.request # "none"
    PROVE  /\ IsRecorded(setup.config.provider, failure)
           /\ IntoStorageError(setup.config.provider, failure) # "AttemptsSpent"
  <1>1. setup.config.provider \in {"s3", "azure", "gcs"}
    BY DEF SetupIsKnown, IsMemory, Provider
  <1>2. \A reason \in {"Exists", "Moved", "Missing"} : failure \in RefusalsFor(setup.config.provider, reason) =>
            failure.shape = "Refused"
    BY <1>1 DEF RefusalsFor, S3Refusals, AzureRefusals, GcsRefusals, Refused
  <1>3. failure.shape = "Refused"
    <2>1. CASE k.request \in {"HEAD", "CREATE"}
      BY <2>1, RefusalsHaveAReason DEF Refused
    <2>2. CASE k.request \in {"PUT", "GET", "CHANGED", "DELETE"}
      <3>1. failure = Refused(304, NoCode) \/ \E reason \in {"Exists", "Moved", "Missing"} :
                                                  failure \in RefusalsFor(setup.config.provider, reason)
        BY <2>2, RefusalsHaveAReason
      <3>2. QED
        BY <1>2, <3>1 DEF Refused
    <2>3. k.request \in {"HEAD", "CREATE", "PUT", "GET", "CHANGED", "DELETE"}
      BY DEF Refusals
    <2>4. QED
      BY <2>1, <2>2, <2>3
  <1>4. IsRecorded(setup.config.provider, failure)
    BY <1>3 DEF IsRecorded
  <1>5. \A status : ClassifyHttpStatus(status) # "AttemptsSpent"
    BY DEF ClassifyHttpStatus
  <1>6. \A status, code : RefusedByAzure(status, code) # "AttemptsSpent"
    BY <1>5 DEF RefusedByAzure
  <1>7. IntoStorageError(setup.config.provider, failure) # "AttemptsSpent"
    BY <1>1, <1>3, <1>5, <1>6 DEF IntoStorageError, IntoS3Error, IntoAzureError, IntoGcsError, Unasked
  <1>8. QED
    BY <1>4, <1>7

\* A request that failed is recorded and costs what it costs.
LEMMA AfterFailureCounts ==
    ASSUME SetupIsKnown, ~IsMemory, NEW k \in CallRecord, Shape(k), Counting(k), k.stage = "InFlight",
           NEW failure, IsRecorded(setup.config.provider, failure),
           IntoStorageError(setup.config.provider, failure) # "AttemptsSpent"
    PROVE  Counting(AfterFailure(k, failure))
  <1> DEFINE error == IntoStorageError(setup.config.provider, failure)
             outcome == SettleRefusal(setup.config.provider, failure, Expected(k))
             r == Recorded(k)
  <1>1. /\ \A result : result # "AttemptsSpent" => Report(result) # "AttemptsSpent"
        /\ outcome # "AttemptsSpent"
    BY DEF Report, SettleRefusal
  <1>2. Settled(r) /\ r.request = k.request /\ r.stage = k.stage /\ r \in CallRecord
    BY RecordedSettles, RecordedFields
  <1>3. CASE k.op = "reach"
    <2>1. Settled(k) /\ k.request \in {"HEAD", "CREATE"}
      BY <1>3, RecordedSettles DEF Shape, CallRecord
    <2>2. \/ /\ k.request = "HEAD"
             /\ AfterFailure(k, failure) = [k EXCEPT !.stage = "Ready", !.request = "CREATE"]
          \/ AfterFailure(k, failure) = Ended(k, "Backend")
          \/ AfterFailure(k, failure) = Ended(k, "Ok")
          \/ AfterFailure(k, failure) = Retried(k, error)
      BY <1>3 DEF AfterFailure, AfterRefusedReach
    <2>3. Counting(Ended(k, "Backend")) /\ Counting(Ended(k, "Ok"))
      BY <1>1, <2>1, EndedCounts
    <2>4. Counting(Retried(k, error))
      BY <1>1, <2>1, RetriedCounts
    <2>5. ASSUME k.request = "HEAD"
          PROVE  Counting([k EXCEPT !.stage = "Ready", !.request = "CREATE"])
      <3> DEFINE e == [k EXCEPT !.stage = "Ready", !.request = "CREATE"]
      <3>1. /\ e \in CallRecord /\ e.op = k.op /\ e.stage = "Ready" /\ e.request = "CREATE"
            /\ e.result = k.result /\ e.sent = k.sent /\ e.recorded = k.recorded /\ e.attempt = k.attempt
        BY DEF CallRecord
      <3> HIDE DEF e
      <3>2. Second(k) = 0
        BY <2>5 DEF Second
      <3>3. Counting(e)
        BY <1>3, <2>1, <3>1, <3>2, SecondCounts
      <3>4. QED
        BY <3>3 DEF e
    <2>6. QED
      BY <2>2, <2>3, <2>4, <2>5
  <1>4. CASE k.op # "reach"
    <2>1. AfterFailure(k, failure) = IF outcome # "Ok" THEN Retried(r, outcome)
                                     ELSE IF k.request = "DELETE" THEN AfterBatch(r) ELSE Ended(r, "Unchanged")
      BY <1>4 DEF AfterFailure
    <2> HIDE DEF r, outcome
    <2>2. Counting(Retried(r, outcome))
      BY <1>1, <1>2, RetriedCounts
    <2>3. Counting(Ended(r, "Unchanged"))
      BY <1>1, <1>2, EndedCounts
    <2>4. k.request = "DELETE" => Counting(AfterBatch(r))
      BY <1>2, AfterBatchCounts
    <2>5. QED
      BY <2>1, <2>2, <2>3, <2>4
  <1>5. QED
    BY <1>3, <1>4

LEMMA AfterServedCounts ==
    ASSUME SetupIsKnown, ~IsMemory, StoreIsSound(objects), NEW k \in CallRecord, Shape(k), Counting(k),
           k.stage = "InFlight", k.op = "get" => k.cursor = 0
    PROVE  Counting(AfterServed(k))
  <1> DEFINE r == Recorded(k)
  <1>1. /\ Settled(r) /\ r.request = k.request /\ r.stage = k.stage /\ r.op = k.op /\ r.cursor = k.cursor
        /\ r \in CallRecord
    BY RecordedSettles, RecordedFields DEF SameCall
  <1>2. \/ k.request = "LIST" /\ k.op = "get" /\ AfterServed(k) = AfterNewest(r)
        \/ k.request = "LIST" /\ k.op = "list" /\ AfterServed(k) = AfterPage(r)
        \/ k.request = "DELETE" /\ AfterServed(k) = AfterBatch(r)
        \/ AfterServed(k) = Ended(r, "Ok")
    BY DEF AfterServed, Shape
  <1> HIDE DEF r
  <1>3. Report("Ok") # "AttemptsSpent"
    BY DEF Report
  <1>4. Counting(Ended(r, "Ok"))
    BY <1>1, <1>3, EndedCounts
  <1>5. k.request = "LIST" /\ k.op = "get" => Counting(AfterNewest(r))
    BY <1>1, AfterNewestCounts
  <1>6. k.request = "LIST" /\ k.op = "list" => Counting(AfterPage(r))
    BY <1>1, AfterPageCounts
  <1>7. k.request = "DELETE" => Counting(AfterBatch(r))
    BY <1>1, AfterBatchCounts
  <1>8. QED
    BY <1>2, <1>4, <1>5, <1>6, <1>7

-----------------------------------------------------------------------------
(* The inductive invariant *)

CallIsSound(k, st, ou, objs, cont) == Core(k, st, ou, objs, cont) /\ Counting(k)

\* The bytes a caller holds are those of the version it names.
KnownIsWhole(n) == /\ n \in [iter : 0 .. LastIteration, version : Nat, body : Nat]
                   /\ n.body = n.version /\ (n.version # 0 => n.iter \in Iterations)

DriftIsSound(r, objs) ==
    r.request \in {"CREATE", "PUT", "DELETE"} /\ RequestIsSound(r, objs) /\ ~IsMemory

StoreTyped == /\ setup \in Setups /\ container \in BOOLEAN /\ writes \in Nat /\ StoreIsSound(objects)
CallersTyped == /\ call \in [Callers -> CallRecord] /\ calls \in [Callers -> Nat]
                /\ known \in [Callers -> [iter : 0 .. LastIteration, version : Nat, body : Nat]]
                /\ steady \in [Callers -> SUBSET Iterations] /\ ousted \in [Callers -> BOOLEAN]
CallsSound == \A c \in Callers : CallIsSound(call[c], steady[c], ousted[c], objects, container)
KnownWhole == \A c \in Callers : KnownIsWhole(known[c])
DriftSound == \A r \in adrift : DriftIsSound(r, objects)

Inv == StoreTyped /\ CallersTyped /\ CallsSound /\ KnownWhole /\ DriftSound

LEMMA SetupStays ==
    ASSUME setup' = setup,
           \A c \in Callers : CallIsSound(call'[c], steady'[c], ousted'[c], objects', container'),
           \A r \in adrift' : DriftIsSound(r, objects')
    PROVE  CallsSound' /\ DriftSound'
  <1>1. IsMemory' = IsMemory
    BY DEF IsMemory, Provider
  <1>2. Attempts' = Attempts
    BY DEF Attempts
  <1>3. DriftSound'
    BY <1>1 DEF DriftSound, DriftIsSound, RequestIsSound
  <1>4. ASSUME NEW c \in Callers
        PROVE  CallIsSound(call[c], steady[c], ousted[c], objects, container)'
    <2>1. /\ Core(call'[c], steady'[c], ousted'[c], objects', container')
          /\ Counting(call'[c])
      BY DEF CallIsSound
    <2>2. Shape(call[c])' /\ RequestIsSound(call[c], objects)'
      BY <1>1, <2>1 DEF Core, Shape, RequestIsSound
    <2>3. Reading(call[c], steady[c], ousted[c], objects)'
      BY <2>1 DEF Core, Reading
    <2>4. Listing(call[c], steady[c], objects)'
      BY <1>1, <2>1 DEF Core, Listing
    <2>5. Deleting(call[c], steady[c])' /\ Reaching(call[c], container)'
      BY <2>1 DEF Core, Deleting, Reaching
    <2>6. Core(call[c], steady[c], ousted[c], objects, container)'
      BY <2>1, <2>2, <2>3, <2>4, <2>5 DEF Core
    <2>7. Recording(call[c])'
      BY <2>1 DEF Counting, Recording
    <2>8. Costing(call[c])'
      BY <1>1, <1>2, <2>1 DEF Counting, Costing, Trying, Paging, Batching, Flown, Second
    <2>9. QED
      BY <2>6, <2>7, <2>8 DEF CallIsSound, Counting
  <1>5. QED
    BY <1>3, <1>4 DEF CallsSound

\* What Watch makes of a call that was not begun by the step.
LEMMA Watched ==
    ASSUME Inv, Watch, setup' = setup, Advances(objects, objects'), container => container',
           NEW c \in Callers, calls'[c] = calls[c]
    PROVE  Core(call[c], steady'[c], ousted'[c], objects', container') /\ Counting(call[c])
  <1> DEFINE k == call[c]
             st == steady[c]
             ou == ousted[c]
             st2 == steady'[c]
             ou2 == ousted'[c]
  <1>1. Core(k, st, ou, objects, container) /\ Counting(k)
    BY DEF Inv, CallsSound, CallIsSound
  <1>2. ou \in BOOLEAN
    BY DEF Inv, CallersTyped
  <1>3. /\ st2 = IF k.stage = "Done" THEN st ELSE st \cap StoredIn(objects')
        /\ ou2 = IF k.stage = "Done" THEN ou ELSE ou \/ StoredIn(objects) \ StoredIn(objects') # {}
    <2>1. Stored = StoredIn(objects) /\ {i \in Iterations : objects'[i].version # 0} = StoredIn(objects')
      BY DEF Stored, StoredIn
    <2>2. QED
      BY <2>1 DEF Watch
  <1> HIDE DEF k, st, ou, st2, ou2
  <1>4. Core(k, st2, ou2, objects', container')
    BY <1>1, <1>2, <1>3, CallSurvives
  <1>5. QED
    BY <1>1, <1>4 DEF k, st2, ou2

LEMMA WatchTyped ==
    ASSUME Inv, Watch
    PROVE  steady' \in [Callers -> SUBSET Iterations] /\ ousted' \in [Callers -> BOOLEAN]
  <1> DEFINE Storedp == {i \in Iterations : objects'[i].version # 0}
  <1>1. /\ steady \in [Callers -> SUBSET Iterations] /\ ousted \in [Callers -> BOOLEAN]
        /\ Storedp \in SUBSET Iterations
    BY DEF Inv, CallersTyped
  <1>2. /\ steady' = [c \in Callers |->
                    IF calls'[c] # calls[c] THEN Storedp
                    ELSE IF call[c].stage = "Done" THEN steady[c] ELSE steady[c] \cap Storedp]
        /\ ousted' = [c \in Callers |->
                    IF calls'[c] # calls[c] THEN FALSE
                    ELSE IF call[c].stage = "Done" THEN ousted[c]
                    ELSE ousted[c] \/ Stored \ Storedp # {}]
    BY DEF Watch
  <1> HIDE DEF Storedp
  <1>3. steady' \in [Callers -> SUBSET Iterations]
    BY <1>1, <1>2
  <1>4. ousted' \in [Callers -> BOOLEAN]
    BY <1>1, <1>2
  <1>5. QED
    BY <1>3, <1>4

\* A step of one caller keeps the invariant if its call stays sound in what is stored afterwards.
LEMMA StepKeeps ==
    ASSUME Inv, Watch, setup' = setup, StoreIsSound(objects)', Advances(objects, objects'),
           writes' \in Nat, container' \in BOOLEAN, container => container',
           NEW c \in Callers, NEW k, call' = [call EXCEPT ![c] = k],
           calls' \in [Callers -> Nat], \A d \in Callers \ {c} : calls'[d] = calls[d],
           CallIsSound(k, steady'[c], ousted'[c], objects', container'),
           known' = known \/ \E n : KnownIsWhole(n) /\ known' = [known EXCEPT ![c] = n],
           \A r \in adrift' \ adrift : DriftIsSound(r, objects)
    PROVE  Inv'
  <1>1. StoreTyped'
    BY DEF Inv, StoreTyped
  <1>2. k \in CallRecord
    BY DEF CallIsSound, Core
  <1>3. call' \in [Callers -> CallRecord] /\ call'[c] = k /\ \A d \in Callers \ {c} : call'[d] = call[d]
    BY <1>2 DEF Inv, CallersTyped
  <1>4. /\ known' \in [Callers -> [iter : 0 .. LastIteration, version : Nat, body : Nat]]
        /\ KnownWhole'
    <2>1. /\ known \in [Callers -> [iter : 0 .. LastIteration, version : Nat, body : Nat]]
          /\ \A d \in Callers : KnownIsWhole(known[d])
      BY DEF Inv, CallersTyped, KnownWhole
    <2>2. CASE known' = known
      BY <2>1, <2>2 DEF KnownWhole, KnownIsWhole
    <2>3. CASE \E n : KnownIsWhole(n) /\ known' = [known EXCEPT ![c] = n]
      <3>1. PICK n : KnownIsWhole(n) /\ known' = [known EXCEPT ![c] = n]
        BY <2>3
      <3>2. n \in [iter : 0 .. LastIteration, version : Nat, body : Nat]
        BY <3>1 DEF KnownIsWhole
      <3>3. known' \in [Callers -> [iter : 0 .. LastIteration, version : Nat, body : Nat]]
        BY <2>1, <3>1, <3>2
      <3>4. \A d \in Callers : known'[d] = IF d = c THEN n ELSE known[d]
        BY <2>1, <3>1
      <3>5. \A d \in Callers : KnownIsWhole(known'[d])
        BY <2>1, <3>1, <3>4
      <3>6. KnownWhole'
        BY <3>5 DEF KnownWhole, KnownIsWhole
      <3>7. QED
        BY <3>3, <3>6
    <2>4. QED
      BY <2>2, <2>3
  <1>5. CallersTyped'
    BY <1>3, <1>4, WatchTyped DEF CallersTyped
  <1>6. \A d \in Callers : CallIsSound(call'[d], steady'[d], ousted'[d], objects', container')
    <2>1. \A d \in Callers \ {c} : CallIsSound(call[d], steady'[d], ousted'[d], objects', container')
      BY Watched DEF CallIsSound
    <2>2. QED
      BY <1>3, <2>1
  <1>7. \A r \in adrift' : DriftIsSound(r, objects')
    <2>1. \A r \in adrift' : DriftIsSound(r, objects)
      BY DEF Inv, DriftSound
    <2>2. ASSUME NEW r, DriftIsSound(r, objects)
          PROVE  DriftIsSound(r, objects')
      <3>1. \A i \in Iterations : i \in Int
        BY SizesAssumption DEF Iterations
      <3>2. r.request = "DELETE" => \A i \in r.keys : i \in Iterations /\ IsPast(i, objects')
        BY <2>2, <3>1, PastStaysPast DEF DriftIsSound, RequestIsSound
      <3>3. QED
        BY <2>2, <3>2 DEF DriftIsSound, RequestIsSound
    <2>3. QED
      BY <2>1, <2>2
  <1>8. CallsSound' /\ DriftSound'
    BY <1>6, <1>7, SetupStays
  <1>9. QED
    BY <1>1, <1>4, <1>5, <1>8 DEF Inv

-----------------------------------------------------------------------------
(* Steps that leave the store alone *)

LEMMA DriftingIsSound ==
    ASSUME NEW k, NEW st, NEW ou, NEW cont, Core(k, st, ou, objects, cont), k.stage = "InFlight",
           NEW r \in Drifting(k)
    PROVE  DriftIsSound(r, objects)
  <1>1. /\ k.request \in {"CREATE", "PUT", "DELETE"}
        /\ r.request = k.request /\ r.iter = k.iter /\ r.version = k.version /\ r.base = k.base
        /\ k.request = "DELETE" => r.keys = NextBatch(k)
    BY DEF Drifting
  <1>2. ~IsMemory /\ RequestIsSound(k, objects)
    BY DEF Core, Shape
  <1>3. NextBatch(k) \subseteq k.keys
    BY DEF NextBatch
  <1>4. QED
    BY <1>1, <1>2, <1>3 DEF DriftIsSound, RequestIsSound

LEMMA QuietStep ==
    ASSUME Inv, Watch, Unstored, setup' = setup, calls' = calls, known' = known,
           NEW c \in Callers, NEW k, call' = [call EXCEPT ![c] = k],
           CallIsSound(k, steady'[c], ousted'[c], objects, container),
           \A r \in adrift' \ adrift : call[c].stage = "InFlight" /\ r \in Drifting(call[c])
    PROVE  Inv'
  <1>1. objects' = objects /\ writes' = writes /\ container' = container
    BY DEF Unstored
  <1>2. StoreIsSound(objects)' /\ Advances(objects, objects') /\ writes' \in Nat /\ container' \in BOOLEAN
    BY <1>1, UnstoredIsAllowed DEF Inv, StoreTyped
  <1>3. \A r \in adrift' \ adrift : DriftIsSound(r, objects)
    BY DriftingIsSound DEF Inv, CallsSound, CallIsSound
  <1>4. calls' \in [Callers -> Nat] /\ \A d \in Callers \ {c} : calls'[d] = calls[d]
    BY DEF Inv, CallersTyped
  <1>5. CallIsSound(k, steady'[c], ousted'[c], objects', container')
    BY <1>1
  <1>6. QED
    BY <1>1, <1>2, <1>3, <1>4, <1>5, StepKeeps

\* The call of a caller in a step that leaves the store alone.
LEMMA QuietCall ==
    ASSUME Inv, Watch, Unstored, setup' = setup, calls' = calls, NEW c \in Callers
    PROVE  /\ Core(call[c], steady'[c], ousted'[c], objects, container) /\ Counting(call[c])
           /\ call[c] \in CallRecord /\ Shape(call[c]) /\ SetupIsKnown
  <1>1. objects' = objects /\ container' = container
    BY DEF Unstored
  <1>2. Advances(objects, objects')
    BY <1>1, UnstoredIsAllowed DEF Inv, StoreTyped
  <1>3. Core(call[c], steady'[c], ousted'[c], objects', container') /\ Counting(call[c])
    BY <1>1, <1>2, Watched
  <1>4. SetupIsKnown
    BY SetupsAreKnown DEF Inv, StoreTyped
  <1>5. QED
    BY <1>1, <1>3, <1>4 DEF Core

LEMMA SendIsSound ==
    ASSUME Inv, Watch, NEW c \in Callers, Send(c)
    PROVE  Inv'
  <1> DEFINE k == call[c]
             e == [k EXCEPT !.stage = "InFlight", !.sent = k.sent + 1]
             st == steady'[c]
             ou == ousted'[c]
  <1>1. /\ k.stage = "Ready" /\ ~IsMemory /\ Unstored /\ setup' = setup /\ calls' = calls /\ known' = known
        /\ adrift' = adrift
        /\ call' = [call EXCEPT ![c] = IF IsCancelled(c) THEN Ended(k, "Cancelled") ELSE e]
    BY DEF Send, IsMemory, Provider
  <1>2. Core(k, st, ou, objects, container) /\ Counting(k) /\ k \in CallRecord /\ Shape(k) /\ SetupIsKnown
    BY <1>1, QuietCall
  <1> HIDE DEF k, st, ou
  <1>3. CASE IsCancelled(c)
    <2>1. Settled(k)
      BY <1>1, <1>2 DEF Settled, Counting, Recording
    <2>2. k.op # "reach"
      BY <1>3 DEF IsCancelled, k
    <2>3. MayEnd(k, "Cancelled", st, ou, container)
      BY <2>2 DEF MayEnd
    <2>4. Report("Cancelled") # "AttemptsSpent"
      BY DEF Report
    <2>5. CallIsSound(Ended(k, "Cancelled"), st, ou, objects, container)
      BY <1>2, <2>1, <2>3, <2>4, EndedKeeps, EndedCounts DEF CallIsSound
    <2>6. QED
      BY <1>1, <1>3, <2>5, QuietStep DEF st, ou
  <1>4. CASE ~IsCancelled(c)
    <2> DEFINE more == k.sent + 1
    <2>1. e = [k EXCEPT !.stage = "InFlight", !.sent = more] /\ more \in Nat
      BY <1>2 DEF CallRecord
    <2> HIDE DEF e, more
    <2>2. /\ e \in CallRecord /\ SameCall(k, e) /\ e.stage = "InFlight" /\ e.request = k.request
          /\ e.result = k.result /\ e.cursor = k.cursor /\ e.keys = k.keys /\ e.version = k.version
          /\ e.base = k.base /\ e.sent = more /\ e.recorded = k.recorded /\ e.attempt = k.attempt
      BY <1>2, <2>1 DEF CallRecord, SameCall
    <2>3. e.sent = k.sent + 1 /\ k.sent \in Nat
      BY <1>2, <2>2 DEF more, CallRecord
    <2>4. Core(e, st, ou, objects, container)
      <3>1. Shape(e) /\ RequestIsSound(e, objects)
        BY <1>1, <1>2, <2>2 DEF Core, Shape, RequestIsSound, SameCall
      <3>2. Reading(e, st, ou, objects) /\ Deleting(e, st) /\ Reaching(e, container)
        BY <1>1, <1>2, <2>2 DEF Core, Reading, Deleting, Reaching, SameCall
      <3>3. Listing(e, st, objects)
        BY <1>1, <1>2, <2>2 DEF Core, Listing, SameCall
      <3>4. QED
        BY <1>1, <1>2, <2>2, <3>1, <3>2, <3>3 DEF Core
    <2>5. Recording(e)
      BY <1>1, <1>2, <2>2, <2>3 DEF Counting, Recording, SameCall
    <2>6. Trying(k) /\ Paging(k) /\ Batching(k) /\ Flown(k) = 0 /\ Flown(e) = 1 /\ Second(e) = Second(k)
      BY <1>1, <1>2, <2>2 DEF Counting, Costing, Flown, Second
    <2>7. k.attempt \in Nat /\ Second(k) \in {0, 1}
      BY <1>2 DEF CallRecord, Second
    <2>8. Trying(e)
      <3>1. k.op \in {"reach", "get"} => e.sent <= 2 * e.attempt + Second(e) + Flown(e)
        BY <1>1, <2>2, <2>3, <2>6, <2>7 DEF Trying
      <3>2. k.op = "save" => e.sent <= e.attempt + Flown(e)
        BY <1>1, <2>2, <2>3, <2>6, <2>7 DEF Trying
      <3>3. k.op \in {"none", "changed"} => e.sent <= Flown(e)
        BY <1>1, <2>2, <2>3, <2>6, <2>7 DEF Trying
      <3>4. QED
        BY <1>1, <2>2, <2>6, <3>1, <3>2, <3>3 DEF Trying, SameCall
    <2>9. k.sent - Flown(k) = e.sent - Flown(e)
      BY <2>3, <2>6
    <2>10. Paging(e) /\ Batching(e)
      BY <1>1, <2>2, <2>6, <2>9 DEF Paging, Batching, SameCall
    <2>11. CallIsSound(e, st, ou, objects, container)
      BY <2>4, <2>5, <2>8, <2>10 DEF CallIsSound, Counting, Costing
    <2>12. QED
      BY <1>1, <1>4, <2>11, QuietStep DEF st, ou
  <1>5. QED
    BY <1>3, <1>4

LEMMA NotPreparedIsSound ==
    ASSUME Inv, Watch, NEW c \in Callers, NotPrepared(c)
    PROVE  Inv'
  <1> DEFINE k == call[c]
             t == [k EXCEPT !.isTroubled = TRUE]
             st == steady'[c]
             ou == ousted'[c]
  <1>1. PICK failure \in Unsent(c) :
            call' = [call EXCEPT ![c] = Retried(t, IntoStorageError(setup.config.provider, failure))]
    BY DEF NotPrepared
  <1> DEFINE error == IntoStorageError(setup.config.provider, failure)
  <1>2. /\ k.stage = "Ready" /\ ~IsMemory /\ Unstored /\ setup' = setup /\ calls' = calls /\ known' = known
        /\ adrift' = adrift
    BY <1>1 DEF NotPrepared, Unsent, IsPagerBuiltFirst, IsMemory, Provider
  <1>3. Core(k, st, ou, objects, container) /\ Counting(k) /\ k \in CallRecord /\ Shape(k) /\ SetupIsKnown
    BY <1>2, QuietCall
  <1>4. error \in {"ServiceUnavailable", "Auth", "Backend"}
    BY <1>1 DEF Unsent, IsPagerBuiltFirst, IntoStorageError, IntoGcsError, IntoAzureError, Unauthorized, Unbuildable
  <1> HIDE DEF k, st, ou, error
  <1>5. Core(t, st, ou, objects, container)
    BY <1>3, TroubledKeeps
  <1>6. t.stage # "Done" /\ t.isTroubled = TRUE
    BY <1>2, <1>3, TroubledFields
  <1>7. Settled(k)
    BY <1>2, <1>3 DEF Settled, Counting, Recording
  <1>8. Settled(t)
    BY <1>7, SettledTroubled
  <1> HIDE DEF t
  <1>9. Core(Retried(t, error), st, ou, objects, container)
    BY <1>4, <1>5, <1>6, RetriedKeeps
  <1>10. Report(error) # "AttemptsSpent"
    BY <1>4 DEF Report
  <1>11. Counting(Retried(t, error))
    BY <1>2, <1>3, <1>8, <1>10, RetriedCounts
  <1>12. CallIsSound(Retried(t, error), st, ou, objects, container)
    BY <1>9, <1>11 DEF CallIsSound
  <1>13. QED
    BY <1>1, <1>2, <1>12, QuietStep DEF st, ou, error

LEMMA FailsIsSound ==
    ASSUME Inv, Watch, NEW c \in Callers, Fails(c)
    PROVE  Inv'
  <1> DEFINE k == call[c]
             t == [k EXCEPT !.isTroubled = TRUE]
             st == steady'[c]
             ou == ousted'[c]
  <1>1. PICK failure \in Troubles(setup.config.provider, call[c].request) :
            /\ call' = [call EXCEPT ![c] = AfterFailure(t, failure)]
            /\ adrift' = IF failure.shape \in {"Refused", "Unbuildable"} THEN adrift
                         ELSE adrift \cup Drifting(call[c])
    BY DEF Fails
  <1>2. k.stage = "InFlight" /\ Unstored /\ setup' = setup /\ calls' = calls /\ known' = known
    BY DEF Fails, IsWaiting
  <1>3. Core(k, st, ou, objects, container) /\ Counting(k) /\ k \in CallRecord /\ Shape(k) /\ SetupIsKnown
    BY <1>2, QuietCall
  <1>4. \A r \in adrift' \ adrift : call[c].stage = "InFlight" /\ r \in Drifting(call[c])
    BY <1>1, <1>2
  <1> HIDE DEF k, st, ou
  <1>5. ~IsMemory
    BY <1>2, <1>3 DEF Shape
  <1>6. Core(AfterFailure(t, failure), st, ou, objects, container)
    BY <1>2, <1>3, <1>5, AfterTroubleKeeps
  <1>7. t \in CallRecord /\ Shape(t) /\ Counting(t) /\ t.stage = "InFlight"
    BY <1>2, <1>3, TroubledCounts
  <1> HIDE DEF t
  <1>8. /\ IsRecorded(setup.config.provider, failure)
        /\ IntoStorageError(setup.config.provider, failure) # "AttemptsSpent"
    BY <1>3, <1>5, TroubleIsAnError
  <1>9. Counting(AfterFailure(t, failure))
    BY <1>3, <1>5, <1>7, <1>8, AfterFailureCounts
  <1>10. CallIsSound(AfterFailure(t, failure), st, ou, objects, container)
    BY <1>6, <1>9 DEF CallIsSound
  <1>11. QED
    BY <1>1, <1>2, <1>4, <1>10, QuietStep DEF st, ou

LEMMA TimesOutIsSound ==
    ASSUME Inv, Watch, NEW c \in Callers, TimesOut(c)
    PROVE  Inv'
  <1> DEFINE k == call[c]
             t == [k EXCEPT !.isTroubled = TRUE]
             r == Recorded(t)
             st == steady'[c]
             ou == ousted'[c]
  <1>1. /\ k.stage = "InFlight" /\ Unstored /\ setup' = setup /\ calls' = calls /\ known' = known
        /\ call' = [call EXCEPT ![c] = Retried(r, "Timeout")]
        /\ adrift' = adrift \cup Drifting(call[c])
    BY DEF TimesOut, IsWaiting
  <1>2. Core(k, st, ou, objects, container) /\ Counting(k) /\ k \in CallRecord /\ Shape(k) /\ SetupIsKnown
    BY <1>1, QuietCall
  <1>3. \A x \in adrift' \ adrift : call[c].stage = "InFlight" /\ x \in Drifting(call[c])
    BY <1>1
  <1> HIDE DEF k, st, ou
  <1>4. ~IsMemory
    BY <1>1, <1>2 DEF Shape
  <1>5. Core(t, st, ou, objects, container)
    BY <1>2, TroubledKeeps
  <1>6. t \in CallRecord /\ Shape(t) /\ Counting(t) /\ t.stage = "InFlight" /\ t.isTroubled = TRUE
    BY <1>1, <1>2, TroubledCounts, TroubledFields
  <1> HIDE DEF t
  <1>7. Core(r, st, ou, objects, container) /\ Settled(r) /\ r.stage = "InFlight" /\ r.isTroubled = TRUE
    BY <1>5, <1>6, RecordedKeeps, RecordedSettles, RecordedFields
  <1> HIDE DEF r
  <1>8. Core(Retried(r, "Timeout"), st, ou, objects, container)
    BY <1>7, RetriedKeeps
  <1>9. Report("Timeout") # "AttemptsSpent"
    BY DEF Report
  <1>10. Counting(Retried(r, "Timeout"))
    BY <1>2, <1>4, <1>7, <1>9, RetriedCounts
  <1>11. CallIsSound(Retried(r, "Timeout"), st, ou, objects, container)
    BY <1>8, <1>10 DEF CallIsSound
  <1>12. QED
    BY <1>1, <1>3, <1>11, QuietStep DEF st, ou

LEMMA LetGoIsSound ==
    ASSUME Inv, Watch, NEW c \in Callers, LetGo(c)
    PROVE  Inv'
  <1> DEFINE k == call[c]
             r == Recorded(k)
             st == steady'[c]
             ou == ousted'[c]
  <1>1. /\ k.stage = "InFlight" /\ Unstored /\ setup' = setup /\ calls' = calls /\ known' = known
        /\ adrift' = adrift \cup Drifting(call[c]) /\ k.op # "reach"
        /\ \/ call' = [call EXCEPT ![c] = Ended(r, "Cancelled")]
           \/ IsRetried(k.op) /\ call' = [call EXCEPT ![c] = Ended(k, "Cancelled")]
    BY DEF LetGo, IsCancelled
  <1>2. Core(k, st, ou, objects, container) /\ Counting(k) /\ k \in CallRecord /\ Shape(k) /\ SetupIsKnown
    BY <1>1, QuietCall
  <1>3. \A x \in adrift' \ adrift : call[c].stage = "InFlight" /\ x \in Drifting(call[c])
    BY <1>1
  <1> HIDE DEF k, st, ou
  <1>4. Report("Cancelled") = "Cancelled"
    BY DEF Report
  <1>5. ASSUME NEW l, Core(l, st, ou, objects, container), l.op = k.op
        PROVE  Core(Ended(l, "Cancelled"), st, ou, objects, container)
    <2>1. MayEnd(l, "Cancelled", st, ou, container)
      BY <1>1, <1>5 DEF MayEnd
    <2>2. QED
      BY <1>5, <2>1, EndedKeeps
  <1>6. /\ Core(r, st, ou, objects, container) /\ Settled(r) /\ r.op = k.op /\ r \in CallRecord
        /\ r.sent = k.sent /\ r.attempt = k.attempt /\ r.found = k.found
    BY <1>1, <1>2, RecordedKeeps, RecordedSettles, RecordedFields DEF SameCall
  <1> HIDE DEF r
  <1>7. Counting(Ended(r, "Cancelled"))
    BY <1>2, <1>4, <1>6, EndedCounts
  <1>8. IsRetried(k.op) => Counting(Ended(k, "Cancelled"))
    <2> SUFFICES ASSUME IsRetried(k.op) PROVE Counting(Ended(k, "Cancelled"))
      OBVIOUS
    <2> DEFINE e == Ended(k, "Cancelled")
               f == Ended(r, "Cancelled")
    <2>1. /\ e.op = k.op /\ e.stage = "Done" /\ e.result = "Cancelled" /\ e.sent = k.sent
          /\ e.recorded = k.recorded /\ e.attempt = k.attempt /\ e.found = k.found
          /\ f.op = k.op /\ f.stage = "Done" /\ f.result = "Cancelled" /\ f.sent = k.sent
          /\ f.attempt = k.attempt /\ f.found = k.found
      BY <1>2, <1>4, <1>6, EndedFields DEF SameCall
    <2>2. Counting(f)
      BY <1>7
    <2> HIDE DEF e, f
    <2>3. Costing(e)
      BY <2>1, <2>2 DEF Counting, Costing, Trying, Paging, Batching
    <2>4. k.recorded = k.sent - 1
      BY <1>1, <1>2 DEF Counting, Recording, CallRecord
    <2>5. Recording(e)
      BY <2>1, <2>4 DEF Recording
    <2>6. QED
      BY <2>3, <2>5 DEF Counting, e
  <1>9. /\ CallIsSound(Ended(r, "Cancelled"), st, ou, objects, container)
        /\ IsRetried(k.op) => CallIsSound(Ended(k, "Cancelled"), st, ou, objects, container)
    BY <1>2, <1>5, <1>6, <1>7, <1>8 DEF CallIsSound
  <1>10. QED
    BY <1>1, <1>3, <1>9, QuietStep DEF st, ou

LEMMA CancelTokenIsSound ==
    ASSUME Inv, Watch, NEW c \in Callers, CancelToken(c)
    PROVE  Inv'
  <1>1. /\ Unstored /\ setup' = setup /\ calls' = calls /\ known' = known /\ adrift' = adrift /\ call' = call
    BY DEF CancelToken
  <1>2. CallIsSound(call[c], steady'[c], ousted'[c], objects, container)
    BY <1>1, QuietCall DEF CallIsSound
  <1>3. call' = [call EXCEPT ![c] = call[c]]
    BY <1>1 DEF Inv, CallersTyped
  <1>4. QED
    BY <1>1, <1>2, <1>3, QuietStep

-----------------------------------------------------------------------------
(* The beginning of a call *)

\* What a call is when it begins: everything stored is still before it.
BeginsSoundly(k) ==
    /\ k \in CallRecord /\ k.stage = "Ready" /\ k.result = "none" /\ k.sent = 0 /\ k.recorded = 0
    /\ k.attempt = 0 /\ k.cursor = 0 /\ ~k.isTroubled
    /\ Shape(k) /\ RequestIsSound(k, objects) /\ k.request # "GET"
    /\ k.op # "delete" => k.found = {}
    /\ k.op = "list" => IsPast(k.boundary, objects)
    /\ k.op = "delete" => k.keys = k.found /\ k.found # {} /\ ~IsMemory

LEMMA BeginIsSound ==
    ASSUME Inv, Watch, NEW c \in Callers, NEW k, BeginsSoundly(k), Begin(c, k)
    PROVE  Inv'
  <1> DEFINE st == steady'[c]
             ou == ousted'[c]
  <1>1. /\ setup' = setup /\ known' = known /\ adrift' = adrift
        /\ objects' = objects /\ container' = container /\ writes' = writes
        /\ call' = [call EXCEPT ![c] = k] /\ calls' = [calls EXCEPT ![c] = @ + 1]
    BY DEF Begin, Unstored
  <1>2. calls' \in [Callers -> Nat] /\ calls'[c] # calls[c] /\ \A d \in Callers \ {c} : calls'[d] = calls[d]
    <2>1. calls \in [Callers -> Nat]
      BY DEF Inv, CallersTyped
    <2>2. calls'[c] = calls[c] + 1 /\ calls[c] \in Nat
      BY <1>1, <2>1
    <2>3. QED
      BY <1>1, <2>1, <2>2
  <1>3. st = StoredIn(objects)
    BY <1>1, <1>2 DEF Watch, StoredIn
  <1> HIDE DEF st, ou
  <1>4. st \in SUBSET Iterations
    BY <1>3 DEF StoredIn
  <1>5. Core(k, st, ou, objects, container)
    <2>1. Reading(k, st, ou, objects) /\ Reaching(k, container)
      BY DEF BeginsSoundly, Reading, Reaching
    <2>2. Listing(k, st, objects)
      <3>1. \A i \in st : BuildJobIterationPath(i) > 0
        BY <1>4, KeysAreOrdered
      <3>2. IsMemory => k.found = {}
        BY DEF BeginsSoundly
      <3>3. k.op = "list" =>
              /\ IsPast(k.boundary, objects) /\ k.found \subseteq 1 .. k.boundary
              /\ k.stage = "Ready" /\ k.cursor = 0
        BY DEF BeginsSoundly
      <3>4. QED
        BY <3>1, <3>2, <3>3 DEF Listing
    <2>3. Deleting(k, st)
      BY DEF BeginsSoundly, Deleting
    <2>4. QED
      BY <1>3, <1>4, <2>1, <2>2, <2>3 DEF BeginsSoundly, Core
  <1>6. Counting(k)
    <2>1. Recording(k)
      BY DEF BeginsSoundly, Recording
    <2>2. ASSUME ~IsMemory
          PROVE  Trying(k) /\ Paging(k) /\ Batching(k)
      <3>1. SetupIsKnown
        BY SetupsAreKnown DEF Inv, StoreTyped
      <3>2. Attempts \in Nat /\ Attempts >= 1
        BY <2>2, <3>1, AttemptsFit
      <3>3. Flown(k) = 0 /\ Second(k) \in {0, 1}
        BY DEF BeginsSoundly, Flown, Second
      <3>4. Trying(k)
        BY <3>2, <3>3 DEF BeginsSoundly, Trying
      <3>5. Paging(k)
        <4>1. Passed(0) = {}
          BY KeysAreOrdered DEF Passed, KeySpace
        <4>2. Cardinality(Passed(0)) = 0
          BY <4>1, FS_EmptySet
        <4> DEFINE size == setup.config.pageSize
        <4>3. size \in Nat
          BY <2>2, <3>1 DEF SetupIsKnown
        <4> HIDE DEF size
        <4>4. 0 * size = 0
          BY <4>3
        <4>5. k.sent = 0 /\ k.cursor = 0 /\ k.stage = "Ready" /\ k.sent - Flown(k) = 0
          BY <3>3 DEF BeginsSoundly
        <4>6. 0 <= LastIteration
          BY SizesAssumption
        <4>7. QED
          BY <4>2, <4>4, <4>5, <4>6 DEF Paging, size
      <3>6. Batching(k)
        <4>1. k.found \subseteq Iterations /\ k.sent = 0 /\ k.stage = "Ready" /\ k.sent - Flown(k) = 0
              /\ (k.op = "delete" => k.keys = k.found /\ k.found # {})
          BY <3>3 DEF BeginsSoundly, CallRecord
        <4>2. Cardinality(k.found) \in Nat
          BY <4>1, SetsOfIterations
        <4>3. QED
          BY <4>1, <4>2 DEF Batching
      <3>7. QED
        BY <3>4, <3>5, <3>6
    <2>3. QED
      BY <2>1, <2>2 DEF Counting, Costing
  <1>7. CallIsSound(k, steady'[c], ousted'[c], objects', container')
    BY <1>1, <1>5, <1>6 DEF CallIsSound, st, ou
  <1>8. StoreIsSound(objects)' /\ Advances(objects, objects') /\ writes' \in Nat /\ container' \in BOOLEAN
    BY <1>1, UnstoredIsAllowed DEF Inv, StoreTyped
  <1>9. QED
    BY <1>1, <1>2, <1>7, <1>8, StepKeeps

LEMMA BeginsIsSound ==
    ASSUME Inv, Watch, NEW c \in Callers, Begins(c)
    PROVE  Inv'
  <1>1. /\ LastIteration \in Nat /\ SetupIsKnown
    BY SizesAssumption, SetupsAreKnown DEF Inv, StoreTyped
  <1>2. CASE BeginReach(c)
    <2> DEFINE k == Started("reach", "HEAD")
    <2>1. Begin(c, k) /\ ~IsMemory
      BY <1>2 DEF BeginReach, IsMemory, Provider
    <2>2. k \in CallRecord
      BY StartedIsCall
    <2>3. BeginsSoundly(k)
      BY <2>1, <2>2 DEF BeginsSoundly, Started, Shape, RequestIsSound
    <2>4. QED
      BY <2>1, <2>3, BeginIsSound
  <1>3. CASE BeginGet(c)
    <2> DEFINE k == Started("get", "LIST")
    <2>1. Begin(c, k)
      BY <1>3 DEF BeginGet
    <2>2. k \in CallRecord
      BY StartedIsCall
    <2>3. BeginsSoundly(k)
      BY <2>2 DEF BeginsSoundly, Started, Shape, RequestIsSound
    <2>4. QED
      BY <2>1, <2>3, BeginIsSound
  <1>4. CASE BeginChanged(c)
    <2> DEFINE i == known[c].iter
               v == known[c].version
               k == [Started("changed", "CHANGED") EXCEPT !.iter = i, !.version = v]
    <2>1. Begin(c, k) /\ v # 0
      BY <1>4 DEF BeginChanged
    <2>2. i \in Iterations /\ i \in 0 .. LastIteration /\ v \in Nat
      BY <2>1 DEF Inv, KnownWhole, KnownIsWhole, Iterations
    <2> HIDE DEF i, v
    <2>3. Started("changed", "CHANGED") \in CallRecord
      BY StartedIsCall
    <2>4. k \in CallRecord
      BY <2>2, <2>3 DEF CallRecord
    <2>5. BeginsSoundly(k)
      BY <2>2, <2>4 DEF BeginsSoundly, Started, Shape, RequestIsSound
    <2>6. QED
      BY <2>1, <2>5, BeginIsSound
  <1>5. CASE BeginSave(c)
    <2>1. PICK s \in { [iter |-> known[c].iter, version |-> known[c].version, base |-> known[c].body],
                       [iter |-> known[c].iter + 1, version |-> 0, base |-> 0] } :
             /\ s.iter \in Iterations
             /\ Begin(c, [Started("save", "PUT") EXCEPT
                             !.iter = s.iter, !.version = s.version, !.base = s.base])
      BY <1>5 DEF BeginSave
    <2> DEFINE i == s.iter
               v == s.version
               b == s.base
               k == [Started("save", "PUT") EXCEPT !.iter = i, !.version = v, !.base = b]
    <2>2. known[c].version \in Nat /\ known[c].body = known[c].version
      BY DEF Inv, KnownWhole, KnownIsWhole
    <2>3. v \in Nat /\ b = v
      BY <2>1, <2>2
    <2>4. i \in Iterations /\ i \in 0 .. LastIteration
      BY <1>1, <2>1 DEF Iterations
    <2>5. Begin(c, k)
      BY <2>1
    <2> HIDE DEF i, v, b
    <2>6. Started("save", "PUT") \in CallRecord
      BY StartedIsCall
    <2>7. k \in CallRecord
      BY <2>3, <2>4, <2>6 DEF CallRecord
    <2>8. BeginsSoundly(k)
      BY <2>3, <2>4, <2>7 DEF BeginsSoundly, Started, Shape, RequestIsSound
    <2>9. QED
      BY <2>5, <2>8, BeginIsSound
  <1>6. CASE BeginList(c)
    <2>1. PICK boundary \in 1 .. Newest - 1 : Begin(c, [Started("list", "LIST") EXCEPT !.boundary = boundary])
      BY <1>6 DEF BeginList
    <2> DEFINE k == [Started("list", "LIST") EXCEPT !.boundary = boundary]
    <2>2. Newest \in 0 .. LastIteration /\ (Newest # 0 => Newest \in Stored)
      BY NewestIsGreatest
    <2>3. boundary \in 0 .. LastIteration /\ IsPast(boundary, objects)
      BY <1>1, <2>1, <2>2 DEF IsPast, Stored, StoredIn
    <2>4. Started("list", "LIST") \in CallRecord
      BY StartedIsCall
    <2>5. k \in CallRecord
      BY <2>3, <2>4 DEF CallRecord
    <2>6. BeginsSoundly(k)
      BY <2>3, <2>5 DEF BeginsSoundly, Started, Shape, RequestIsSound
    <2>7. QED
      BY <2>1, <2>6, BeginIsSound
  <1>7. CASE BeginDelete(c)
    <2> DEFINE found == call[c].found
               k == [Started("delete", "DELETE") EXCEPT !.found = found, !.keys = found]
    <2>1. call[c].op = "list" /\ found # {} /\ Begin(c, k)
      BY <1>7 DEF BeginDelete
    <2>2. /\ call[c] \in CallRecord /\ Listing(call[c], steady[c], objects)
          /\ call[c].boundary \in 0 .. LastIteration /\ found \subseteq Iterations
      BY DEF Inv, CallsSound, CallIsSound, Core, CallRecord
    <2>3. ~IsMemory /\ IsPast(call[c].boundary, objects) /\ found \subseteq 1 .. call[c].boundary
      BY <2>1, <2>2 DEF Listing
    <2>4. \A i \in found : i \in Iterations /\ IsPast(i, objects)
      <3> SUFFICES ASSUME NEW i \in found PROVE IsPast(i, objects)
        BY <2>2
      <3>1. PICK j \in StoredIn(objects) : j > call[c].boundary
        BY <2>3 DEF IsPast
      <3>2. i <= call[c].boundary /\ i \in Int /\ j \in Int /\ call[c].boundary \in Int
        BY <1>1, <2>2, <2>3 DEF StoredIn, Iterations
      <3>3. j > i
        BY <3>1, <3>2
      <3>4. QED
        BY <3>3 DEF IsPast
    <2> HIDE DEF found
    <2>5. Started("delete", "DELETE") \in CallRecord
      BY StartedIsCall
    <2>6. k \in CallRecord
      BY <2>2, <2>5 DEF CallRecord
    <2>7. BeginsSoundly(k)
      BY <2>1, <2>3, <2>4, <2>6 DEF BeginsSoundly, Started, Shape, RequestIsSound
    <2>8. QED
      BY <2>1, <2>7, BeginIsSound
  <1>8. QED
    BY <1>2, <1>3, <1>4, <1>5, <1>6, <1>7 DEF Begins

-----------------------------------------------------------------------------
(* Steps of the store *)

\* The call of a caller in a step in which the store serves its request.
LEMMA ServedCall ==
    ASSUME Inv, Watch, setup' = setup, calls' = calls, NEW c \in Callers,
           call[c].stage = "InFlight", Serves(call[c])
    PROVE  /\ Core(call[c], steady'[c], ousted'[c], objects', container') /\ Counting(call[c])
           /\ call[c] \in CallRecord /\ Shape(call[c]) /\ SetupIsKnown /\ ~IsMemory
           /\ Reading(call[c], steady[c], ousted[c], objects)
           /\ RequestIsSound(call[c], objects)
           /\ Store!Next \/ UNCHANGED <<objects, writes>>
           /\ StoreIsSound(objects) /\ StoreIsSound(objects)' /\ Advances(objects, objects')
           /\ writes \in Nat /\ writes' \in Nat
           /\ container' \in BOOLEAN /\ (container => container')
  <1>1. /\ call[c] \in CallRecord /\ Shape(call[c]) /\ RequestIsSound(call[c], objects)
        /\ Reading(call[c], steady[c], ousted[c], objects)
        /\ StoreIsSound(objects) /\ writes \in Nat /\ container \in BOOLEAN
    BY DEF Inv, CallsSound, CallIsSound, Core, StoreTyped
  <1>2. SetupIsKnown /\ ~IsMemory
    BY <1>1, SetupsAreKnown DEF Inv, StoreTyped, Shape
  <1>3. /\ Store!Next \/ UNCHANGED <<objects, writes>>
        /\ StoreIsSound(objects)' /\ Advances(objects, objects') /\ writes' \in Nat
        /\ container' \in BOOLEAN /\ (container => container')
    BY <1>1, <1>2, ServesIsAllowed
  <1>4. Core(call[c], steady'[c], ousted'[c], objects', container') /\ Counting(call[c])
    BY <1>3, Watched
  <1>5. QED
    BY <1>1, <1>2, <1>3, <1>4

\* What a caller holds after its request was served.
LEMMA KnownAfterIsWhole ==
    ASSUME NEW k \in CallRecord, Shape(k), RequestIsSound(k, objects), StoreIsSound(objects),
           NEW st, NEW ou, Reading(k, st, ou, objects), writes \in Nat,
           k.request \in {"GET", "CHANGED", "PUT"}, Refusals(k) = {}, SetupIsKnown, ~IsMemory
    PROVE  KnownIsWhole(KnownAfter(k))
  <1>1. k.iter \in Iterations /\ k.iter \in 0 .. LastIteration /\ k.version \in Nat
    BY DEF Shape, Reading, RequestIsSound, CallRecord
  <1>2. objects[k.iter].version \in Nat
    BY <1>1 DEF StoreIsSound
  <1>3. CASE k.request = "GET"
    <2>1. objects[k.iter].version = k.version
      BY <1>3 DEF Refusals, RefusalsFor, S3Refusals, AzureRefusals, GcsRefusals, SetupIsKnown, IsMemory, Provider
    <2>2. KnownAfter(k) = [iter |-> k.iter, version |-> k.version, body |-> objects[k.iter].version]
      BY <1>3 DEF KnownAfter
    <2>3. QED
      BY <1>1, <2>1, <2>2 DEF KnownIsWhole
  <1>4. CASE k.request = "CHANGED"
    <2>1. KnownAfter(k) = [iter |-> k.iter, version |-> objects[k.iter].version, body |-> objects[k.iter].version]
      BY <1>4 DEF KnownAfter
    <2>2. QED
      BY <1>1, <1>2, <2>1 DEF KnownIsWhole
  <1>5. CASE k.request = "PUT"
    <2>1. KnownAfter(k) = [iter |-> k.iter, version |-> writes + 1, body |-> writes + 1]
      BY <1>5 DEF KnownAfter
    <2>2. QED
      BY <1>1, <2>1 DEF KnownIsWhole
  <1>6. QED
    BY <1>3, <1>4, <1>5

LEMMA AnsweredIsSound ==
    ASSUME Inv, Watch, NEW c \in Callers, Answered(c)
    PROVE  Inv' /\ (Store!Next \/ UNCHANGED <<objects, writes>>)
  <1> DEFINE k == call[c]
             st == steady'[c]
             ou == ousted'[c]
  <1>1. k.stage = "InFlight" /\ Serves(k) /\ setup' = setup /\ calls' = calls /\ adrift' = adrift
    BY DEF Answered, IsWaiting
  <1>2. /\ Core(k, st, ou, objects', container') /\ Counting(k)
        /\ k \in CallRecord /\ Shape(k) /\ SetupIsKnown /\ ~IsMemory
        /\ Reading(k, steady[c], ousted[c], objects) /\ RequestIsSound(k, objects)
        /\ Store!Next \/ UNCHANGED <<objects, writes>>
        /\ StoreIsSound(objects) /\ StoreIsSound(objects)' /\ Advances(objects, objects')
        /\ writes \in Nat /\ writes' \in Nat
        /\ container' \in BOOLEAN /\ (container => container')
    BY <1>1, ServedCall
  <1>3. calls' \in [Callers -> Nat] /\ \A d \in Callers \ {c} : calls'[d] = calls[d]
    BY <1>1 DEF Inv, CallersTyped
  <1>4. CASE Refusals(k) = {}
    <2>1. /\ call' = [call EXCEPT ![c] = AfterServed(k)]
          /\ known' = IF k.request \in {"GET", "CHANGED", "PUT"}
                      THEN [known EXCEPT ![c] = KnownAfter(k)] ELSE known
      BY <1>4 DEF Answered
    <2> HIDE DEF k, st, ou
    <2>2. /\ k.request = "LIST" => objects' = objects
          /\ k.request = "CREATE" => container'
          /\ k.request = "DELETE" => objects' = Removed(NextBatch(k))
      BY <1>1, <1>4 DEF Serves
    <2>3. k.request = "DELETE" => NextBatch(k) \cap StoredIn(objects') = {}
      BY <2>2 DEF Removed, StoredIn, Nothing
    <2>4. Core(AfterServed(k), st, ou, objects', container')
      BY <1>1, <1>2, <1>4, <2>2, <2>3, AfterServedKeeps
    <2>5. k.op = "get" => k.cursor = 0
      BY <1>2 DEF Reading
    <2>6. Counting(AfterServed(k))
      BY <1>1, <1>2, <2>5, AfterServedCounts
    <2>7. CallIsSound(AfterServed(k), steady'[c], ousted'[c], objects', container')
      BY <2>4, <2>6 DEF CallIsSound, st, ou
    <2>8. known' = known \/ \E n : KnownIsWhole(n) /\ known' = [known EXCEPT ![c] = n]
      BY <1>2, <1>4, <2>1, KnownAfterIsWhole
    <2>9. Inv'
      BY <1>1, <1>2, <1>3, <2>1, <2>7, <2>8, StepKeeps
    <2>10. QED
      BY <1>2, <2>9
  <1>5. CASE Refusals(k) # {}
    <2>1. known' = known
      BY <1>5 DEF Answered
    <2>2. PICK failure \in Refusals(k) : call' = [call EXCEPT ![c] = AfterFailure(k, failure)]
      BY <1>5 DEF Answered
    <2> HIDE DEF k, st, ou
    <2>3. objects' = objects /\ container' = container
      BY <1>1, <1>5 DEF Serves, Unstored
    <2>4. Core(k, st, ou, objects, container)
      BY <1>2, <2>3
    <2>5. Core(AfterFailure(k, failure), st, ou, objects, container)
      BY <1>1, <1>2, <2>4, AfterRefusalKeeps
    <2>6. k.request # "none"
      BY <1>1, <1>2 DEF Shape
    <2>7. /\ IsRecorded(setup.config.provider, failure)
          /\ IntoStorageError(setup.config.provider, failure) # "AttemptsSpent"
      BY <1>2, <2>6, RefusalIsRecorded
    <2>8. Counting(AfterFailure(k, failure))
      BY <1>1, <1>2, <2>7, AfterFailureCounts
    <2>9. CallIsSound(AfterFailure(k, failure), steady'[c], ousted'[c], objects', container')
      BY <2>3, <2>5, <2>8 DEF CallIsSound, st, ou
    <2>10. Inv'
      BY <1>1, <1>2, <1>3, <2>1, <2>2, <2>9, StepKeeps
    <2>11. QED
      BY <1>2, <2>10
  <1>6. QED
    BY <1>4, <1>5

LEMMA AnswersUnusablyIsSound ==
    ASSUME Inv, Watch, NEW c \in Callers, AnswersUnusably(c)
    PROVE  Inv' /\ (Store!Next \/ UNCHANGED <<objects, writes>>)
  <1> DEFINE k == call[c]
             t == [k EXCEPT !.isTroubled = TRUE]
             failure == UnusableAnswer(setup.config.provider)
             st == steady'[c]
             ou == ousted'[c]
  <1>1. /\ k.stage = "InFlight" /\ Serves(k) /\ setup' = setup /\ calls' = calls /\ adrift' = adrift
        /\ known' = known /\ call' = [call EXCEPT ![c] = AfterFailure(t, failure)]
    BY DEF AnswersUnusably, IsWaiting
  <1>2. /\ Core(k, st, ou, objects', container') /\ Counting(k)
        /\ k \in CallRecord /\ Shape(k) /\ SetupIsKnown /\ ~IsMemory
        /\ Store!Next \/ UNCHANGED <<objects, writes>>
        /\ StoreIsSound(objects)' /\ Advances(objects, objects') /\ writes' \in Nat
        /\ container' \in BOOLEAN /\ (container => container')
    BY <1>1, ServedCall
  <1>3. calls' \in [Callers -> Nat] /\ \A d \in Callers \ {c} : calls'[d] = calls[d]
    BY <1>1 DEF Inv, CallersTyped
  <1> HIDE DEF k, st, ou, failure
  <1>4. failure \in Troubles(setup.config.provider, call[c].request) \cup {UnusableAnswer(setup.config.provider)}
    BY DEF failure
  <1>5. Core(AfterFailure(t, failure), st, ou, objects', container')
    BY <1>1, <1>2, <1>4, AfterTroubleKeeps
  <1>6. t \in CallRecord /\ Shape(t) /\ Counting(t) /\ t.stage = "InFlight"
    BY <1>1, <1>2, TroubledCounts
  <1> HIDE DEF t
  <1>7. /\ IsRecorded(setup.config.provider, failure)
        /\ IntoStorageError(setup.config.provider, failure) # "AttemptsSpent"
    BY <1>2, <1>4, TroubleIsAnError
  <1>8. Counting(AfterFailure(t, failure))
    BY <1>2, <1>6, <1>7, AfterFailureCounts
  <1>9. CallIsSound(AfterFailure(t, failure), steady'[c], ousted'[c], objects', container')
    BY <1>5, <1>8 DEF CallIsSound, st, ou
  <1>10. Inv'
    BY <1>1, <1>2, <1>3, <1>9, StepKeeps
  <1>11. QED
    BY <1>2, <1>10

LEMMA DeletesInPartIsSound ==
    ASSUME Inv, Watch, NEW c \in Callers, DeletesInPart(c)
    PROVE  Inv' /\ (Store!Next \/ UNCHANGED <<objects, writes>>)
  <1> DEFINE k == call[c]
             r == Recorded(k)
             t == [r EXCEPT !.isTroubled = TRUE]
             st == steady'[c]
             ou == ousted'[c]
  <1>1. PICK kept \in (SUBSET NextBatch(k)) \ {{}}, codes \in (SUBSET {"SlowDown", "AccessDenied"}) \ {{}} :
          /\ objects' = Removed(NextBatch(k) \ kept)
          /\ \E outcome \in ClassifyDeleteFailures(codes) :
                call' = [call EXCEPT ![c] = IF outcome = "Ok" THEN AfterBatch(r) ELSE Retried(t, outcome)]
    BY DEF DeletesInPart
  <1>0. PICK outcome \in ClassifyDeleteFailures(codes) :
            call' = [call EXCEPT ![c] = IF outcome = "Ok" THEN AfterBatch(r) ELSE Retried(t, outcome)]
    BY <1>1
  <1>2. /\ k.stage = "InFlight" /\ k.request = "DELETE" /\ setup' = setup /\ calls' = calls /\ adrift' = adrift
        /\ known' = known /\ container' = container /\ writes' = writes
    BY DEF DeletesInPart, IsWaiting
  <1>3. outcome \in {"RateLimited", "Backend"}
    BY <1>0 DEF ClassifyDeleteFailures, MapDeleteFailureCode
  <1>4. call' = [call EXCEPT ![c] = Retried(t, outcome)]
    BY <1>0, <1>3
  <1>5. /\ k \in CallRecord /\ Shape(k) /\ RequestIsSound(k, objects) /\ Counting(k)
        /\ StoreIsSound(objects) /\ writes \in Nat /\ container \in BOOLEAN /\ SetupIsKnown
    BY SetupsAreKnown DEF Inv, CallsSound, CallIsSound, Core, StoreTyped
  <1>6. ~IsMemory
    BY <1>2, <1>5 DEF Shape
  <1>7. \A i \in NextBatch(k) \ kept : IsPast(i, objects)
    BY <1>2, <1>5 DEF RequestIsSound, NextBatch
  <1>8. Store!Next /\ StoreIsSound(objects)' /\ Advances(objects, objects')
    BY <1>1, <1>2, <1>5, <1>7, DeleteIsAllowed
  <1>9. Core(k, st, ou, objects', container')
    BY <1>2, <1>8, Watched
  <1> HIDE DEF k, st, ou
  <1>10. Core(r, st, ou, objects', container') /\ Settled(r) /\ r.stage = "InFlight" /\ r \in CallRecord
    BY <1>2, <1>5, <1>9, RecordedKeeps, RecordedSettles, RecordedFields
  <1> HIDE DEF r
  <1>11. /\ Core(t, st, ou, objects', container') /\ Settled(t) /\ t.stage = "InFlight" /\ t.isTroubled = TRUE
    BY <1>10, TroubledKeeps, SettledTroubled, TroubledFields
  <1> HIDE DEF t
  <1>12. Core(Retried(t, outcome), st, ou, objects', container')
    BY <1>3, <1>11, RetriedKeeps
  <1>13. Report(outcome) # "AttemptsSpent"
    BY <1>3 DEF Report
  <1>14. Counting(Retried(t, outcome))
    BY <1>5, <1>6, <1>11, <1>13, RetriedCounts
  <1>15. CallIsSound(Retried(t, outcome), steady'[c], ousted'[c], objects', container')
    BY <1>12, <1>14 DEF CallIsSound, st, ou
  <1>16. calls' \in [Callers -> Nat] /\ \A d \in Callers \ {c} : calls'[d] = calls[d]
    BY <1>2 DEF Inv, CallersTyped
  <1>17. Inv'
    BY <1>2, <1>4, <1>5, <1>8, <1>15, <1>16, StepKeeps
  <1>18. QED
    BY <1>8, <1>17

LEMMA ServesAdriftIsSound ==
    ASSUME Inv, Watch, ServesAdrift
    PROVE  Inv' /\ (Store!Next \/ UNCHANGED <<objects, writes>>)
  <1>1. PICK r \in adrift : Serves(r) /\ adrift' = adrift \ {r}
    BY DEF ServesAdrift
  <1>2. setup' = setup /\ call' = call /\ known' = known /\ calls' = calls
    BY DEF ServesAdrift
  <1>3. /\ RequestIsSound(r, objects) /\ ~IsMemory
        /\ StoreIsSound(objects) /\ writes \in Nat /\ container \in BOOLEAN /\ SetupIsKnown
    BY SetupsAreKnown DEF Inv, DriftSound, DriftIsSound, StoreTyped
  <1>4. /\ Store!Next \/ UNCHANGED <<objects, writes>>
        /\ StoreIsSound(objects)' /\ Advances(objects, objects') /\ writes' \in Nat
        /\ container' \in BOOLEAN /\ (container => container')
    BY <1>1, <1>2, <1>3, ServesIsAllowed
  <1>5. StoreTyped'
    BY <1>2, <1>4 DEF Inv, StoreTyped
  <1>6. CallersTyped' /\ KnownWhole'
    BY <1>2, WatchTyped DEF Inv, CallersTyped, KnownWhole, KnownIsWhole
  <1>7. \A c \in Callers : CallIsSound(call'[c], steady'[c], ousted'[c], objects', container')
    BY <1>2, <1>4, Watched DEF CallIsSound
  <1>8. \A x \in adrift' : DriftIsSound(x, objects')
    <2> SUFFICES ASSUME NEW x \in adrift PROVE DriftIsSound(x, objects')
      BY <1>1
    <2>1. DriftIsSound(x, objects)
      BY DEF Inv, DriftSound
    <2>2. \A i \in Iterations : i \in Int
      BY SizesAssumption DEF Iterations
    <2>3. x.request = "DELETE" => \A i \in x.keys : i \in Iterations /\ IsPast(i, objects')
      BY <1>4, <2>1, <2>2, PastStaysPast DEF DriftIsSound, RequestIsSound
    <2>4. QED
      BY <2>1, <2>3 DEF DriftIsSound, RequestIsSound
  <1>9. CallsSound' /\ DriftSound'
    BY <1>2, <1>7, <1>8, SetupStays
  <1>10. QED
    BY <1>4, <1>5, <1>6, <1>9 DEF Inv

-----------------------------------------------------------------------------
(* Memory *)

\* A save that memory takes replaces all there was: the state it was derived from, or a history
\* whose newest iteration is just before it.
LEMMA SaveInMemoryIsAllowed ==
    ASSUME StoreIsSound(objects), writes \in Nat, IsMemory, setup' = setup,
           NEW k, RequestIsSound(k, objects), k.request = "PUT", k.version \in Nat, IsSaveAllowed(k),
           writes' = writes + 1,
           objects' = [i \in Iterations |->
                            IF i = k.iter THEN [version |-> writes + 1, base |-> k.base] ELSE Nothing]
    PROVE  Store!Next /\ StoreIsSound(objects)' /\ Advances(objects, objects') /\ writes' \in Nat
  <1> DEFINE i == k.iter
  <1>1. i \in Iterations /\ k.base = k.version /\ i \in Int
    BY SizesAssumption DEF RequestIsSound, Iterations
  <1> HIDE DEF i
  <1>2. objects' = [j \in Iterations |->
                        IF j = i THEN [version |-> writes + 1, base |-> k.version] ELSE Nothing]
    BY <1>1 DEF i
  <1>3. /\ objects'[i] = [version |-> writes + 1, base |-> k.version]
        /\ \A j \in Iterations \ {i} : objects'[j] = Nothing
    BY <1>1, <1>2
  <1>4. StoredIn(objects') = {i}
    BY <1>1, <1>3 DEF StoredIn, Nothing
  <1>5. StoreIsSound(objects)'
    <2>1. objects' \in [Iterations -> [version : Nat, base : Nat]]
      BY <1>2 DEF Nothing
    <2>2. \A j \in Iterations : objects'[j].version = 0 => objects'[j] = Nothing
      BY <1>1, <1>3
    <2>3. \A a, b \in StoredIn(objects') : a = b
      BY <1>4
    <2>4. QED
      BY <2>1, <2>2, <2>3 DEF StoreIsSound
  <1>6. Stored = StoredIn(objects) /\ Store!Stored = StoredIn(objects) /\ Store!Nothing = Nothing
    BY DEF Stored, StoredIn, Store!Stored, Store!Nothing, Nothing
  <1>7. CASE k.version = 0
    <2>1. i = Newest + 1
      BY <1>7 DEF IsSaveAllowed, i
    <2>2. Newest \in Int /\ \A j \in StoredIn(objects) : j <= Newest /\ j \in Int
      BY <1>6, NewestIsGreatest, SizesAssumption DEF StoredIn, Iterations
    <2>3. i \notin StoredIn(objects) /\ \A j \in StoredIn(objects) : j <= i
      BY <2>1, <2>2
    <2>4. Store!Replace(i)
      BY <1>2, <1>6, <1>7, <2>3 DEF Store!Replace, Store!IsNewest
    <2>5. Advances(objects, objects')
      BY <1>4, <2>2, <2>3 DEF Advances
    <2>6. QED
      BY <1>1, <1>5, <2>4, <2>5 DEF Store!Next
  <1>8. CASE k.version # 0
    <2>1. objects[i].version = k.version /\ i \in StoredIn(objects)
      BY <1>1, <1>8 DEF IsSaveAllowed, StoredIn, i
    <2>2. \A j \in StoredIn(objects) : j = i
      BY <2>1 DEF StoreIsSound
    <2>3. \A j \in Iterations \ {i} : objects[j] = Nothing
      BY <2>2 DEF StoreIsSound, StoredIn
    <2>4. objects' = [objects EXCEPT ![i] = [version |-> writes + 1, base |-> objects[i].version]]
      <3>1. objects \in [Iterations -> [version : Nat, base : Nat]]
        BY DEF StoreIsSound
      <3>2. QED
        BY <1>1, <1>2, <2>1, <2>3, <3>1
    <2>5. Store!Write(i)
      BY <2>4 DEF Store!Write
    <2>6. Advances(objects, objects')
      BY <1>1, <1>4, <2>2 DEF Advances
    <2>7. QED
      BY <1>1, <1>5, <2>5, <2>6 DEF Store!Next
  <1>9. QED
    BY <1>7, <1>8

LEMMA ServedInMemoryIsSound ==
    ASSUME Inv, Watch, NEW c \in Callers, ServedInMemory(c)
    PROVE  Inv' /\ (Store!Next \/ UNCHANGED <<objects, writes>>)
  <1> DEFINE k == call[c]
             st == steady'[c]
             ou == ousted'[c]
  <1>1. /\ k.stage = "Ready" /\ IsMemory /\ setup' = setup /\ container' = container
        /\ calls' = calls /\ adrift' = adrift
    BY DEF ServedInMemory, IsMemory, Provider
  <1>2. /\ k \in CallRecord /\ Shape(k) /\ RequestIsSound(k, objects) /\ Counting(k)
        /\ StoreIsSound(objects) /\ writes \in Nat /\ container \in BOOLEAN /\ SetupIsKnown
        /\ k.found = {} /\ k.iter \in 0 .. LastIteration /\ k.version \in Nat
    BY <1>1, SetupsAreKnown DEF Inv, CallsSound, CallIsSound, Core, StoreTyped, Listing, CallRecord
  <1>3. /\ k.op = "get" => k.request = "LIST"
        /\ k.op = "changed" => k.request = "CHANGED" /\ k.iter \in Iterations
        /\ k.op = "save" => k.request = "PUT" /\ k.iter \in Iterations
        /\ k.op # "reach"
    BY <1>1, <1>2 DEF Shape, CallRecord, RequestIsSound
  <1>4. Settled(k) /\ ~setup.isForeign
    BY <1>1, <1>2 DEF Settled, Counting, Recording, SetupIsKnown
  <1>5. calls' \in [Callers -> Nat] /\ \A d \in Callers \ {c} : calls'[d] = calls[d]
    BY <1>1 DEF Inv, CallersTyped
  \* What is left to show of each answer.
  <1>6. ASSUME StoreIsSound(objects)', Advances(objects, objects'), writes' \in Nat,
               Store!Next \/ UNCHANGED <<objects, writes>>,
               NEW l \in CallRecord, SameCall([k EXCEPT !.iter = l.iter], l), l.stage = k.stage, l.request = k.request,
               l.iter # k.iter => k.op = "get", l.sent = k.sent, l.recorded = k.recorded,
               l.cursor = k.cursor, l.keys = k.keys, l.version = k.version, l.base = k.base,
               l.isTroubled = k.isTroubled, l.result = k.result,
               NEW result, result \in {"Cancelled", "NotFound", "Ok", "Unchanged", "ConcurrentModification"},
               MayEnd(l, result, st, ou, container),
               call' = [call EXCEPT ![c] = Ended(l, result)],
               known' = known \/ \E n : KnownIsWhole(n) /\ known' = [known EXCEPT ![c] = n]
        PROVE  Inv' /\ (Store!Next \/ UNCHANGED <<objects, writes>>)
    <2>1. Core(k, st, ou, objects', container')
      BY <1>1, <1>6, Watched
    <2>2. l.op = k.op /\ l.boundary = k.boundary /\ l.found = k.found
      BY <1>2, <1>6 DEF SameCall, CallRecord
    <2> HIDE DEF k, st, ou
    <2>3. Core(l, st, ou, objects', container')
      <3>1. k.op = "get" => k.request = "LIST" /\ k.stage = "Ready"
        BY <1>1, <1>3
      <3>2. Shape(l) /\ RequestIsSound(l, objects')
        BY <1>6, <2>1, <2>2, <3>1 DEF Core, Shape, RequestIsSound
      <3>3. Reading(l, st, ou, objects')
        BY <1>6, <2>1, <2>2, <3>1 DEF Core, Reading
      <3>4. Listing(l, st, objects')
        BY <1>6, <2>1, <2>2 DEF Core, Listing
      <3>5. Deleting(l, st) /\ Reaching(l, container')
        BY <1>6, <2>1, <2>2 DEF Core, Deleting, Reaching
      <3>6. QED
        BY <1>6, <2>1, <3>2, <3>3, <3>4, <3>5 DEF Core
    <2>4. Core(Ended(l, result), st, ou, objects', container')
      BY <1>1, <1>6, <2>3, EndedKeeps
    <2>5. Report(result) # "AttemptsSpent"
      BY <1>6 DEF Report
    <2>6. Counting(Ended(l, result))
      BY <1>2, <1>4, <1>6, <2>2, <2>5, EndedCounts
    <2>7. CallIsSound(Ended(l, result), steady'[c], ousted'[c], objects', container')
      BY <2>4, <2>6 DEF CallIsSound, st, ou
    <2>8. Inv'
      BY <1>1, <1>2, <1>5, <1>6, <2>7, StepKeeps
    <2>9. QED
      BY <1>6, <2>8
  <1>7. SameCall([k EXCEPT !.iter = k.iter], k)
    BY <1>2 DEF SameCall, CallRecord
  <1>8. objects' = objects /\ writes' = writes =>
            /\ StoreIsSound(objects)' /\ Advances(objects, objects') /\ writes' \in Nat
            /\ Core(k, st, ou, objects, container)
    BY <1>1, <1>2, UnstoredIsAllowed, Watched
  <1>9. CASE IsCancelled(c)
    <2>1. /\ call' = [call EXCEPT ![c] = Ended(k, "Cancelled")]
          /\ objects' = objects /\ writes' = writes /\ known' = known
      BY <1>9 DEF ServedInMemory
    <2>2. MayEnd(k, "Cancelled", st, ou, container)
      BY <1>3 DEF MayEnd
    <2>3. QED
      BY <1>2, <1>6, <1>7, <1>8, <2>1, <2>2
  <1>10. CASE ~IsCancelled(c) /\ k.op = "get"
    <2> DEFINE newest == Newest
               l == [k EXCEPT !.iter = newest]
               result == IF newest = 0 THEN "NotFound" ELSE "Ok"
               version == objects[newest].version
               n == [iter |-> newest, version |-> version, body |-> version]
    <2>1. /\ call' = [call EXCEPT ![c] = Ended(l, result)]
          /\ objects' = objects /\ writes' = writes
          /\ known' = IF newest = 0 THEN known ELSE [known EXCEPT ![c] = n]
      BY <1>10 DEF ServedInMemory
    <2>2. /\ newest \in 0 .. LastIteration /\ (\A j \in Stored : j <= newest)
          /\ (newest # 0 => newest \in Stored) /\ (newest = 0 => Stored = {})
      BY NewestIsGreatest
    <2> HIDE DEF newest
    <2>3. newest # 0 => newest \in Iterations /\ version \in Nat
      BY <1>2, <2>2 DEF Stored, StoreIsSound
    <2>4. newest # 0 => KnownIsWhole(n)
      BY <2>2, <2>3 DEF KnownIsWhole
    <2>5. /\ l \in CallRecord /\ SameCall([k EXCEPT !.iter = l.iter], l) /\ l.stage = k.stage /\ l.request = k.request
          /\ l.iter = newest /\ l.sent = k.sent /\ l.recorded = k.recorded /\ l.cursor = k.cursor
          /\ l.keys = k.keys /\ l.version = k.version /\ l.base = k.base /\ l.isTroubled = k.isTroubled
          /\ l.op = "get" /\ l.result = k.result
      BY <1>2, <1>10, <2>2 DEF CallRecord, SameCall
    <2>6. st \subseteq Stored
      BY <1>1, <1>8, <2>1 DEF Core, Stored, StoredIn
    <2> HIDE DEF l, n
    <2>7. MayEnd(l, result, st, ou, container)
      BY <1>4, <2>2, <2>5, <2>6 DEF MayEnd
    <2>8. known' = known \/ \E x : KnownIsWhole(x) /\ known' = [known EXCEPT ![c] = x]
      BY <2>1, <2>4
    <2>9. result \in {"Cancelled", "NotFound", "Ok", "Unchanged", "ConcurrentModification"}
      OBVIOUS
    <2> HIDE DEF result
    <2>10. QED
      BY <1>6, <1>8, <1>10, <2>1, <2>5, <2>7, <2>8, <2>9
  <1>11. CASE ~IsCancelled(c) /\ k.op = "changed"
    <2> DEFINE result == IF k.iter \notin Stored THEN "NotFound"
                         ELSE IF objects[k.iter].version = k.version THEN "Unchanged" ELSE "Ok"
               version == objects[k.iter].version
               n == [iter |-> k.iter, version |-> version, body |-> version]
    <2>1. /\ call' = [call EXCEPT ![c] = Ended(k, result)]
          /\ objects' = objects /\ writes' = writes
          /\ known' = IF k.iter \in Stored THEN [known EXCEPT ![c] = [KnownAfter(k) EXCEPT !.iter = k.iter]] ELSE known
      BY <1>11 DEF ServedInMemory
    <2>2. KnownAfter(k) = n
      BY <1>3, <1>11 DEF KnownAfter
    <2>3. [KnownAfter(k) EXCEPT !.iter = k.iter] = n
      BY <2>2
    <2>4. version \in Nat
      BY <1>2, <1>3, <1>11 DEF StoreIsSound
    <2> HIDE DEF version
    <2>5. KnownIsWhole(n)
      BY <1>2, <1>3, <1>11, <2>4 DEF KnownIsWhole
    <2>6. MayEnd(k, result, st, ou, container)
      BY <1>11 DEF MayEnd
    <2>7. result \in {"Cancelled", "NotFound", "Ok", "Unchanged", "ConcurrentModification"}
      OBVIOUS
    <2> HIDE DEF n, result
    <2>8. known' = known \/ \E x : KnownIsWhole(x) /\ known' = [known EXCEPT ![c] = x]
      BY <2>1, <2>3, <2>5
    <2>9. QED
      BY <1>2, <1>6, <1>7, <1>8, <2>1, <2>6, <2>7, <2>8
  <1>12. CASE ~IsCancelled(c) /\ k.op = "save" /\ IsSaveAllowed(k)
    <2>1. /\ call' = [call EXCEPT ![c] = Ended(k, "Ok")]
          /\ known' = [known EXCEPT ![c] = KnownAfter(k)]
          /\ writes' = writes + 1
          /\ objects' = [i \in Iterations |->
                            IF i = k.iter THEN [version |-> writes + 1, base |-> k.base] ELSE Nothing]
      BY <1>12 DEF ServedInMemory
    <2>2. Store!Next /\ StoreIsSound(objects)' /\ Advances(objects, objects') /\ writes' \in Nat
      BY <1>1, <1>2, <1>3, <1>12, <2>1, SaveInMemoryIsAllowed
    <2>3. KnownAfter(k) = [iter |-> k.iter, version |-> writes + 1, body |-> writes + 1]
      BY <1>3, <1>12 DEF KnownAfter
    <2>4. KnownIsWhole(KnownAfter(k))
      BY <1>2, <1>3, <1>12, <2>3 DEF KnownIsWhole
    <2>5. MayEnd(k, "Ok", st, ou, container)
      BY <1>12 DEF MayEnd
    <2>6. QED
      BY <1>2, <1>6, <1>7, <2>1, <2>2, <2>4, <2>5
  <1>13. CASE ~IsCancelled(c) /\ k.op = "save" /\ ~IsSaveAllowed(k)
    <2>1. /\ call' = [call EXCEPT ![c] = Ended(k, "ConcurrentModification")]
          /\ objects' = objects /\ writes' = writes /\ known' = known
      BY <1>13 DEF ServedInMemory
    <2>2. MayEnd(k, "ConcurrentModification", st, ou, container)
      BY <1>13 DEF MayEnd
    <2>3. QED
      BY <1>2, <1>6, <1>7, <1>8, <2>1, <2>2
  <1>14. CASE ~IsCancelled(c) /\ k.op \in {"list", "delete"}
    <2>1. /\ call' = [call EXCEPT ![c] = Ended(k, "Ok")]
          /\ objects' = objects /\ writes' = writes /\ known' = known
      BY <1>14 DEF ServedInMemory
    <2>2. MayEnd(k, "Ok", st, ou, container)
      BY <1>1, <1>2, <1>14 DEF MayEnd
    <2>3. QED
      BY <1>2, <1>6, <1>7, <1>8, <2>1, <2>2
  <1>15. IsCancelled(c) \/ k.op \in {"get", "changed", "save", "list", "delete"}
    BY DEF ServedInMemory
  <1>16. QED
    BY <1>9, <1>10, <1>11, <1>12, <1>13, <1>14, <1>15

-----------------------------------------------------------------------------
(* The beginning and the steps *)

\* A call that nothing was asked in is sound over any store.
IdleCall(k) ==
    /\ k \in CallRecord /\ k.stage = "Done" /\ k.request = "none" /\ k.op \in {"none", "reach"}
    /\ k.sent = 0 /\ k.recorded = 0 /\ k.found = {} /\ k.result \in {"none", "Ok"}
    /\ k.op = "reach" => k.result = "Ok"

LEMMA IdleCallsExist ==
    /\ IdleCall(Unstarted) /\ Unstarted.op = "none"
    /\ IdleCall(Built) /\ Built.op = "reach"
  <1>1. IdleCall(Unstarted) /\ Unstarted.op = "none"
    <2>1. Started("none", "none") \in CallRecord
      BY StartedIsCall
    <2>2. Unstarted \in CallRecord
      BY <2>1 DEF Unstarted, CallRecord
    <2>3. QED
      BY <2>2 DEF Unstarted, Started, IdleCall
  <1>2. IdleCall(Built) /\ Built.op = "reach"
    <2> DEFINE k == Started("reach", "HEAD")
    <2>1. k \in CallRecord
      BY StartedIsCall
    <2>2. k.op = "reach" /\ k.sent = 0 /\ k.recorded = 0 /\ k.found = {}
      BY DEF Started
    <2>3. Report("Ok") = "Ok"
      BY DEF Report
    <2> HIDE DEF k
    <2>4. QED
      BY <2>1, <2>2, <2>3, EndedFields DEF Built, IdleCall, SameCall, k
  <1>3. QED
    BY <1>1, <1>2

LEMMA IdleCallIsSound ==
    ASSUME SetupIsKnown, NEW k, IdleCall(k), NEW objs, NEW cont, k.op = "reach" => cont
    PROVE  CallIsSound(k, {}, FALSE, objs, cont)
  <1>1. k \in CallRecord /\ k.stage = "Done" /\ k.request = "none" /\ k.op \in {"none", "reach"}
    BY DEF IdleCall
  <1>2. Shape(k) /\ RequestIsSound(k, objs)
    BY <1>1 DEF Shape, RequestIsSound
  <1>3. Reading(k, {}, FALSE, objs) /\ Listing(k, {}, objs) /\ Deleting(k, {}) /\ Reaching(k, cont)
    BY <1>1 DEF Reading, Listing, Deleting, Reaching, IdleCall
  <1>4. Core(k, {}, FALSE, objs, cont)
    BY <1>1, <1>2, <1>3 DEF Core
  <1>5. Recording(k)
    BY <1>1 DEF Recording, IdleCall
  <1>6. ASSUME ~IsMemory
        PROVE  Trying(k) /\ Paging(k) /\ Batching(k)
    <2>1. Attempts \in Nat /\ Attempts >= 1
      BY <1>6, AttemptsFit
    <2>2. 0 <= 2 * Attempts /\ 0 <= 1
      BY <2>1
    <2>3. QED
      BY <1>1, <2>2 DEF Trying, Paging, Batching, IdleCall
  <1>7. QED
    BY <1>4, <1>5, <1>6 DEF CallIsSound, Counting, Costing

\* What there is at first: a history of iterations written one after the other.
LEMMA InitIsAStore ==
    ASSUME Init
    PROVE  StoreIsSound(objects) /\ writes \in Nat /\ Store!Init
  <1>1. writes \in 0 .. LastIteration /\ LastIteration \in Nat
    BY SizesAssumption DEF Init
  <1>2. /\ objects = [i \in Iterations |->
              IF i > writes \/ (IsMemory /\ i < writes) THEN Nothing ELSE [version |-> i, base |-> 0]]
    BY DEF Init, IsMemory, Provider
  <1>3. \A i \in Iterations : i \in Nat \ {0}
    BY <1>1 DEF Iterations
  <1>4. ASSUME NEW i \in Iterations
        PROVE  \/ objects[i] = Nothing
               \/ /\ objects[i] = [version |-> i, base |-> 0] /\ i <= writes
                  /\ IsMemory => i = writes
    BY <1>1, <1>2, <1>3
  <1>5. ASSUME NEW i \in Iterations
        PROVE  /\ objects[i] \in [version : Nat, base : Nat]
               /\ objects[i].version = 0 => objects[i] = Nothing
               /\ objects[i].version # 0 => objects[i].version = i /\ (IsMemory => i = writes)
    <2>1. CASE objects[i] = Nothing
      BY <2>1 DEF Nothing
    <2>2. CASE objects[i] = [version |-> i, base |-> 0] /\ (IsMemory => i = writes)
      BY <1>3, <2>2
    <2>3. QED
      BY <1>4, <2>1, <2>2
  <1>6. StoreIsSound(objects)
    <2>1. objects \in [Iterations -> [version : Nat, base : Nat]]
      BY <1>2, <1>5
    <2>2. IsMemory => \A i, j \in StoredIn(objects) : i = j
      BY <1>5 DEF StoredIn
    <2>3. QED
      BY <1>5, <2>1, <2>2 DEF StoreIsSound
  <1>7. objects \in [Iterations -> {Store!Nothing} \cup [version : 1 .. writes, base : {0}]]
    <2>1. ASSUME NEW i \in Iterations
          PROVE  objects[i] \in {Store!Nothing} \cup [version : 1 .. writes, base : {0}]
      <3>1. CASE objects[i] = Nothing
        BY <3>1 DEF Nothing, Store!Nothing
      <3>2. CASE objects[i] = [version |-> i, base |-> 0] /\ i <= writes
        <4>1. i \in 1 .. writes
          BY <1>1, <1>3, <3>2
        <4>2. QED
          BY <3>2, <4>1
      <3>3. QED
        BY <1>4, <3>1, <3>2
    <2>2. QED
      BY <1>2, <2>1
  <1>8. \A i, j \in Store!Stored : objects[i].version = objects[j].version => i = j
    BY <1>5 DEF Store!Stored
  <1>9. QED
    BY <1>1, <1>6, <1>7, <1>8 DEF Store!Init

LEMMA InitIsSound == Init => Inv /\ Store!Init
  <1> SUFFICES ASSUME Init PROVE Inv /\ Store!Init
    OBVIOUS
  <1>1. StoreIsSound(objects) /\ writes \in Nat /\ Store!Init
    BY InitIsAStore
  <1>2. setup \in Setups /\ container \in BOOLEAN /\ adrift = {} /\ SetupIsKnown
    BY SetupsAreKnown DEF Init
  <1>3. /\ call = [c \in Callers |-> Unstarted] \/ call = [c \in Callers |-> Built]
        /\ \A c \in Callers : container \/ call[c] = Unstarted
    BY DEF Init
  <1>4. \A c \in Callers : IdleCall(call[c]) /\ (call[c].op = "reach" => container)
    BY <1>3, IdleCallsExist
  <1>5. steady = [c \in Callers |-> {}] /\ ousted = [c \in Callers |-> FALSE]
    BY DEF Init
  <1>6. known = [c \in Callers |-> [iter |-> 0, version |-> 0, body |-> 0]]
    BY DEF Init
  <1>7. CallsSound
    BY <1>2, <1>4, <1>5, IdleCallIsSound DEF CallsSound
  <1>8. calls \in [Callers -> Nat]
    <2>1. MaxCalls - 1 \in Nat
      BY SizesAssumption
    <2>2. calls = [c \in Callers |-> IF call[c] = Built THEN 0 ELSE MaxCalls - 1]
      BY DEF Init
    <2>3. QED
      BY <2>1, <2>2
  <1>9. call \in [Callers -> CallRecord]
    BY <1>3, IdleCallsExist DEF IdleCall
  <1>10. [iter |-> 0, version |-> 0, body |-> 0] \in [iter : 0 .. LastIteration, version : Nat, body : Nat]
    BY SizesAssumption
  <1>11. known \in [Callers -> [iter : 0 .. LastIteration, version : Nat, body : Nat]] /\ KnownWhole
    BY <1>6, <1>10 DEF KnownWhole, KnownIsWhole
  <1>12. CallersTyped
    BY <1>5, <1>8, <1>9, <1>11 DEF CallersTyped
  <1>13. QED
    BY <1>1, <1>2, <1>7, <1>11, <1>12 DEF Inv, StoreTyped, DriftSound

LEMMA StutterIsSound ==
    ASSUME Inv, UNCHANGED vars
    PROVE  Inv'
  <1>1. /\ setup' = setup /\ container' = container /\ objects' = objects /\ writes' = writes /\ call' = call
        /\ known' = known /\ adrift' = adrift /\ calls' = calls /\ steady' = steady /\ ousted' = ousted
    BY DEF vars
  <1>2. CallsSound' /\ DriftSound'
    BY <1>1, SetupStays DEF Inv, CallsSound, DriftSound
  <1>3. StoreTyped'
    BY <1>1, UnstoredIsAllowed DEF Inv, StoreTyped
  <1>4. CallersTyped' /\ KnownWhole'
    BY <1>1 DEF Inv, CallersTyped, KnownWhole, KnownIsWhole
  <1>5. QED
    BY <1>2, <1>3, <1>4 DEF Inv

LEMMA NextIsSound ==
    ASSUME Inv, [Next]_vars
    PROVE  Inv' /\ [Store!Next]_<<objects, writes>>
  <1>1. ASSUME NEW c \in Callers, Watch, Begins(c)
        PROVE  Inv' /\ UNCHANGED <<objects, writes>>
    <2>1. UNCHANGED <<objects, writes>>
      BY <1>1 DEF Begins, BeginReach, BeginGet, BeginChanged, BeginSave, BeginList, BeginDelete, Begin, Unstored
    <2>2. QED
      BY <1>1, <2>1, BeginsIsSound
  <1>2. ASSUME NEW c \in Callers, Watch, Continues(c)
        PROVE  Inv' /\ (Store!Next \/ UNCHANGED <<objects, writes>>)
    <2>1. CASE Send(c)
      <3>1. UNCHANGED <<objects, writes>>
        BY <2>1 DEF Send, Unstored
      <3>2. QED
        BY <1>2, <2>1, <3>1, SendIsSound
    <2>2. CASE NotPrepared(c)
      <3>1. UNCHANGED <<objects, writes>>
        BY <2>2 DEF NotPrepared, Unstored
      <3>2. QED
        BY <1>2, <2>2, <3>1, NotPreparedIsSound
    <2>3. CASE Answered(c)
      BY <1>2, <2>3, AnsweredIsSound
    <2>4. CASE AnswersUnusably(c)
      BY <1>2, <2>4, AnswersUnusablyIsSound
    <2>5. CASE DeletesInPart(c)
      BY <1>2, <2>5, DeletesInPartIsSound
    <2>6. CASE Fails(c)
      BY <1>2, <2>6, FailsIsSound DEF Fails, Unstored
    <2>7. CASE TimesOut(c)
      BY <1>2, <2>7, TimesOutIsSound DEF TimesOut, Unstored
    <2>8. CASE LetGo(c)
      BY <1>2, <2>8, LetGoIsSound DEF LetGo, Unstored
    <2>9. CASE ServedInMemory(c)
      BY <1>2, <2>9, ServedInMemoryIsSound
    <2>10. QED
      BY <1>2, <2>1, <2>2, <2>3, <2>4, <2>5, <2>6, <2>7, <2>8, <2>9 DEF Continues
  <1>3. ASSUME NEW c \in Callers, Watch, CancelToken(c)
        PROVE  Inv' /\ UNCHANGED <<objects, writes>>
    BY <1>3, CancelTokenIsSound DEF CancelToken, Unstored
  <1>4. ASSUME Watch, ServesAdrift
        PROVE  Inv' /\ (Store!Next \/ UNCHANGED <<objects, writes>>)
    BY <1>4, ServesAdriftIsSound
  <1>5. CASE UNCHANGED vars
    BY <1>5, StutterIsSound DEF vars
  <1>6. QED
    BY <1>1, <1>2, <1>3, <1>4, <1>5 DEF Next

-----------------------------------------------------------------------------
(* The theorems *)

LEMMA Invariance == Spec => []Inv
  <1>1. Init => Inv
    BY InitIsSound
  <1>2. Inv /\ [Next]_vars => Inv'
    BY NextIsSound
  <1>3. QED
    BY <1>1, <1>2, PTL DEF Spec

\* Every store of the crate is the abstract one, over any number of callers, iterations, attempts,
\* pages and requests adrift: save_job writes a state over the one it was derived from or not at
\* all, InMemoryStorage replaces the history only with its successor, and delete_job_iterations,
\* repeated, late or in part, leaves the newest iteration.
THEOREM StoresImplementTheAbstractOne == Spec => IsAnIterationStore
  <1>1. Init => Store!Init
    BY InitIsSound
  <1>2. Inv /\ [Next]_vars => [Store!Next]_<<objects, writes>>
    BY NextIsSound
  <1>3. QED
    BY <1>1, <1>2, Invariance, PTL DEF Spec, IsAnIterationStore, Store!Spec

\* get_job and get_changed_job hand out the bytes of the version they name, and get_job the newest
\* iteration, whatever is written and deleted between the listing and the read; "no job" is said
\* only where there was none or one was deleted under the read.
THEOREM ReadsAreTrue == Spec => []ReadIsTrue
  <1>1. Inv => ReadIsTrue
    <2> SUFFICES ASSUME Inv PROVE ReadIsTrue
      OBVIOUS
    <2>1. StateIsWhole
      BY DEF Inv, KnownWhole, KnownIsWhole, StateIsWhole
    <2>2. \A c \in Callers : Reading(call[c], steady[c], ousted[c], objects)
      BY DEF Inv, CallsSound, CallIsSound, Core
    <2>3. ReadIsOfTheNewest
      BY <2>2 DEF Reading, ReadIsOfTheNewest, IsDone
    <2>4. QED
      BY <2>1, <2>3 DEF ReadIsTrue
  <1>2. QED
    BY <1>1, Invariance, PTL

\* list_job_outdated_iterations names nothing above its boundary and misses nothing that was there
\* all the while, for every page size, every start bound and every store that ignores the bound.
THEOREM ListingsAreExact == Spec => []ListingIsExact
  <1>1. Inv => ListingIsExact
    <2> SUFFICES ASSUME Inv, NEW c \in Callers, IsDone(c, "list", "Ok")
                 PROVE  /\ call[c].found \subseteq 1 .. call[c].boundary
                        /\ setup.config.provider # "memory" =>
                              steady[c] \cap 1 .. call[c].boundary \subseteq call[c].found
      BY DEF ListingIsExact
    <2>1. Listing(call[c], steady[c], objects)
      BY DEF Inv, CallsSound, CallIsSound, Core
    <2>2. call[c].found \subseteq 1 .. call[c].boundary
      BY <2>1 DEF Listing, IsDone
    <2>3. ASSUME ~IsMemory
          PROVE  steady[c] \cap 1 .. call[c].boundary \subseteq call[c].found
      <3>1. \A i \in steady[c] : i <= call[c].boundary => i \in call[c].found
        BY <2>1, <2>3 DEF Listing, IsDone
      <3>2. QED
        BY <3>1
    <2>4. QED
      BY <2>2, <2>3 DEF IsMemory, Provider
  <1>2. QED
    BY <1>1, Invariance, PTL

\* delete_job_iterations says success only when what it was given is gone, for every batch size, and
\* fails only for a failure of the store: neither a key another cleaner deleted first nor a batch
\* that went through is one.
THEOREM DeletionsAreTrue == Spec => []DeletionIsTrue
  <1>1. Inv => DeletionIsTrue
    <2> SUFFICES ASSUME Inv PROVE DeletionIsTrue
      OBVIOUS
    <2>1. \A c \in Callers : Deleting(call[c], steady[c])
      BY DEF Inv, CallsSound, CallIsSound, Core
    <2>2. QED
      BY <2>1 DEF Deleting, DeletionIsTrue, DeletedIsGone, DeletionFailsForACause, IsDone
  <1>2. QED
    BY <1>1, Invariance, PTL

\* Retrier and send_request agree on what a call costs: no attempt beyond the budget whatever it is,
\* one request per page and per batch whatever their sizes, and every request recorded once but the
\* one that Retrier let go of.
THEOREM RequestsAreAccounted == Spec => []RequestsAreAccountedFor
  <1>1. Inv => RequestsAreAccountedFor
    <2> SUFFICES ASSUME Inv PROVE RequestsAreAccountedFor
      OBVIOUS
    <2>1. \A c \in Callers : call[c] \in CallRecord /\ Counting(call[c])
      BY DEF Inv, CallsSound, CallIsSound, Core
    <2>2. RequestsAreRecorded
      <3> SUFFICES ASSUME NEW c \in Callers, call[c].op # "reach", call[c].stage # "InFlight"
                   PROVE  \/ call[c].recorded = call[c].sent
                          \/ /\ IsRetried(call[c].op) /\ call[c].result = "Cancelled"
                             /\ call[c].recorded = call[c].sent - 1
        BY DEF RequestsAreRecorded
      <3>1. call[c].stage \in {"Ready", "Done"} /\ Recording(call[c])
        BY <2>1 DEF CallRecord, Counting
      <3>2. QED
        BY <3>1 DEF Recording
    <2>3. CostIsBounded
      <3> SUFFICES ASSUME NEW c \in Callers, ~IsMemory
                   PROVE  LET k == call[c]
                          IN /\ k.result = "AttemptsSpent" => k.attempt = Attempts
                             /\ k.sent <= CASE k.op \in {"reach", "get"} -> 2 * Attempts
                                            [] k.op = "save" -> Attempts
                                            [] k.op = "list" -> LastIteration \div setup.config.pageSize + 1
                                            [] k.op = "delete" -> Cardinality(k.found)
                                            [] OTHER -> 1
        BY DEF CostIsBounded, Attempts, IsMemory, Provider
      <3> DEFINE k == call[c]
                 pages == LastIteration \div setup.config.pageSize + 1
      <3>1. k \in CallRecord /\ Trying(k) /\ Paging(k) /\ Batching(k)
        BY <2>1 DEF Counting, Costing
      <3>2. SetupIsKnown
        BY SetupsAreKnown DEF Inv, StoreTyped
      <3>3. Attempts \in Nat /\ Attempts >= 1
        BY <3>2, AttemptsFit
      <3> HIDE DEF k
      <3>4. /\ k.attempt \in Nat /\ k.sent \in Nat /\ k.found \subseteq Iterations /\ k.keys \subseteq Iterations
            /\ k.op \in {"none", "reach", "get", "changed", "save", "list", "delete"}
            /\ k.stage \in {"Ready", "InFlight", "Done"}
        BY <3>1 DEF CallRecord
      <3>5. Flown(k) \in {0, 1} /\ Second(k) \in {0, 1}
        BY DEF Flown, Second
      <3>6. k.op \in {"reach", "get"} => k.sent <= 2 * Attempts
        <4>1. CASE k.stage = "Done"
          BY <3>1, <4>1 DEF Trying
        <4>2. CASE k.stage # "Done"
          BY <3>1, <3>3, <3>4, <3>5, <4>2 DEF Trying, IsRetried
        <4>3. QED
          BY <4>1, <4>2
      <3>7. k.op = "save" => k.sent <= Attempts
        <4>1. CASE k.stage = "Done"
          BY <3>1, <4>1 DEF Trying
        <4>2. CASE k.stage # "Done"
          BY <3>1, <3>3, <3>4, <3>5, <4>2 DEF Trying, IsRetried
        <4>3. QED
          BY <4>1, <4>2
      <3>8. k.op \in {"none", "changed"} => k.sent <= 1
        BY <3>1, <3>4, <3>5 DEF Trying
      <3>9. k.op = "list" => k.sent <= pages
        <4>1. CASE k.stage = "Done"
          BY <3>1, <4>1 DEF Paging
        <4>2. CASE k.stage # "Done" /\ k.op = "list"
          <5> DEFINE done == k.sent - Flown(k)
                     size == setup.config.pageSize
                     passed == Cardinality(Passed(k.cursor))
          <5>1. done \in Nat /\ done * size <= passed /\ passed <= LastIteration
            BY <3>1, <4>2 DEF Paging
          <5>2. size \in Nat \ {0} /\ passed \in Nat
            <6>1. Passed(k.cursor) \subseteq KeySpace
              BY DEF Passed
            <6>2. passed \in Nat
              BY <6>1, KeySpaceIsBounded, FS_Subset, FS_CardinalityType
            <6>3. QED
              BY <3>2, <6>2 DEF SetupIsKnown
          <5>3. k.sent <= done + 1
            BY <3>4, <3>5
          <5> HIDE DEF done, size, passed
          <5>4. done <= LastIteration \div size
            BY <5>1, <5>2, PagesFit, SizesAssumption
          <5>5. LastIteration \div size \in Nat
            BY <5>2, SizesAssumption
          <5>6. QED
            BY <3>4, <5>1, <5>3, <5>4, <5>5 DEF size
        <4>3. QED
          BY <4>1, <4>2
      <3>10. k.op = "delete" => k.sent <= Cardinality(k.found)
        <4>1. CASE k.stage = "Done"
          BY <3>1, <4>1 DEF Batching
        <4>2. CASE k.stage # "Done" /\ k.op = "delete"
          <5> DEFINE all == Cardinality(k.found)
                     rest == Cardinality(k.keys)
          <5>1. k.keys # {} /\ k.sent - Flown(k) + rest <= all
            BY <3>1, <4>2 DEF Batching
          <5>2. all \in Nat /\ rest \in Nat /\ IsFiniteSet(k.keys)
            BY <3>4, SetsOfIterations
          <5>3. rest # 0
            BY <5>1, <5>2, FS_EmptySet
          <5> HIDE DEF all, rest
          <5>4. k.sent <= all
            BY <3>4, <3>5, <5>1, <5>2, <5>3
          <5>5. QED
            BY <5>4 DEF all
        <4>3. QED
          BY <4>1, <4>2
      <3>11. k.result = "AttemptsSpent" => k.attempt = Attempts
        BY <3>1 DEF Trying
      <3> HIDE DEF pages
      <3>12. k.sent <= CASE k.op \in {"reach", "get"} -> 2 * Attempts
                         [] k.op = "save" -> Attempts
                         [] k.op = "list" -> pages
                         [] k.op = "delete" -> Cardinality(k.found)
                         [] OTHER -> 1
        BY <3>4, <3>6, <3>7, <3>8, <3>9, <3>10
      <3>13. QED
        BY <3>11, <3>12 DEF k, pages
    <2>4. QED
      BY <2>2, <2>3 DEF RequestsAreAccountedFor
  <1>2. QED
    BY <1>1, Invariance, PTL

\* A pool that started has its container, whoever won the race to create it, and one that may create
\* it fails to start only after a failure of the store.
THEOREM PoolsHaveAContainer == Spec => []PoolHasAContainer
  <1>1. Inv => PoolHasAContainer
    <2> SUFFICES ASSUME Inv PROVE PoolHasAContainer
      OBVIOUS
    <2>1. \A c \in Callers : Reaching(call[c], container)
      BY DEF Inv, CallsSound, CallIsSound, Core
    <2>2. QED
      BY <2>1 DEF Reaching, PoolHasAContainer, IsDone
  <1>2. QED
    BY <1>1, Invariance, PTL

=============================================================================
