------------------------ MODULE CachedStorage_proofs ------------------------
(***************************************************************************)
(* What holds of the cache for every number of workers, iterations and     *)
(* writes.  It rests on how far a job somebody holds may be from what is   *)
(* stored, and on an order of the store that no worker can break: under an *)
(* iteration that was ever opened there is no open one, unless somebody    *)
(* created it again after its deletion.                                    *)
(***************************************************************************)
EXTENDS CachedStorage, Extrema

-----------------------------------------------------------------------------
(* The inductive invariant *)

WasOpened(i) == store[i].version > 0

\* Iterations are opened one after the other, and the last one is not deleted.
OpenedInOrder == \A i, j \in Iterations : i < j /\ WasOpened(j) => WasOpened(i)
LastIsStored == \A i \in Iterations : WasOpened(i) => \E j \in Stored : i <= j
StoredWasOpened == \A i \in Stored : WasOpened(i)

\* An iteration is closed before the one after it is opened.
ClosedInOrder == \A i, j \in Iterations :
                    store[i].state = "Open" /\ i < j /\ WasOpened(j) => i \in revived

StoreSound == OpenedInOrder /\ LastIsStored /\ StoredWasOpened /\ ClosedInOrder

\* What is said of a job k was so of the version it names, in a store s with the revived r.
Fits(k, s, r) ==
    \/ k.iter = 0 /\ k.version = 0
    \/ /\ k.iter \in Iterations /\ k.version > 0 /\ k.version <= s[k.iter].version
       /\ k.version = s[k.iter].version /\ s[k.iter].state # "Absent" =>
             (k.closed <=> s[k.iter].state = "Closed")
       /\ k.version < s[k.iter].version /\ k.closed => k.iter \in r

\* A job is no older than another, or closed, or of an iteration created again.
IsNoOlder(k, f, r) == k.closed \/ AtLeast(k, f) \/ k.iter \in r

\* What a worker knows, by where it is in its call.
Call == [pc : {"Idle", "Check", "Refresh", "Find", "Lock", "Fetch", "FindAgain", "Save"},
         known : Job, found : Job, hand : Job, floor : Job, attempts : 0 .. 2]
CallOf(w) == [pc |-> pc[w], known |-> known[w], found |-> found[w], hand |-> hand[w],
              floor |-> floor[w], attempts |-> attempts[w]]

CallSound(c, s, r) ==
    /\ Fits(c.known, s, r) /\ Fits(c.hand, s, r) /\ Fits(c.floor, s, r)
    /\ c.hand # NoJob => IsNoOlder(c.hand, c.floor, r)
    /\ c.pc \in {"Check", "Refresh", "Lock", "Fetch", "FindAgain"} => c.known.iter \in Iterations
    /\ c.pc = "Refresh" => /\ Fits(c.found, s, r) /\ c.found.iter = c.known.iter
                           /\ AtLeast(c.found, c.known) /\ IsNoOlder(c.found, c.floor, r)
    /\ c.pc \in {"Lock", "Fetch"} => c.known = c.floor
    /\ c.pc \notin {"Idle", "Save"} => c.hand = NoJob
    /\ c.pc = "Save" =>
          /\ c.found.iter \in Iterations /\ c.hand # NoJob
          /\ IF c.hand.closed THEN c.found.iter = c.hand.iter + 1 /\ c.found.version = 0
             ELSE c.found.iter = c.hand.iter /\ c.found.version = c.hand.version
    /\ c.pc = "Fetch" => c.attempts < 2
    /\ c.pc \notin {"Fetch", "FindAgain"} => c.attempts = 0

Inv == /\ TypeOK /\ StoreSound /\ Fits(cache, store, revived)
       /\ \A w \in Workers : CallSound(CallOf(w), store, revived)

-----------------------------------------------------------------------------
(* Reads *)

LEMMA StoreFacts ==
    ASSUME TypeOK
    PROVE  /\ LastIteration \in Nat
           /\ \A i \in Iterations : /\ i \in Nat /\ i > 0 /\ i <= LastIteration /\ i \in 0 .. LastIteration
                                    /\ store[i].version \in Nat
                                    /\ store[i].state \in {"Absent", "Open", "Closed"}
                                    /\ IsStored(i) <=> store[i].state # "Absent"
                                    /\ i \in Stored <=> store[i].state # "Absent"
           /\ Stored \subseteq Iterations /\ \A i : IsStored(i) => i \in Stored
  BY CacheAssumption DEF TypeOK, Iterations, IsStored, Stored

LEMMA ReadIsSound ==
    ASSUME TypeOK, StoreSound, NEW i \in Stored
    PROVE  /\ Read(i) \in Job /\ Read(i) # NoJob /\ Read(i).iter = i /\ Read(i).version = store[i].version
           /\ Read(i).version > 0 /\ (Read(i).closed <=> store[i].state = "Closed")
           /\ Fits(Read(i), store, revived)
  <1>1. i \in Iterations /\ i \in 0 .. LastIteration /\ store[i].version \in Nat /\ store[i].version > 0
    BY StoreFacts DEF StoreSound, StoredWasOpened, WasOpened
  <1>2. /\ Read(i).iter = i /\ Read(i).version = store[i].version
        /\ (Read(i).closed <=> store[i].state = "Closed")
    BY DEF Read
  <1>3. Read(i) \in Job
    BY <1>1 DEF Read, Job
  <1>4. Read(i) # NoJob
    BY <1>1, <1>2 DEF NoJob
  <1>5. Fits(Read(i), store, revived)
    BY <1>1, <1>2 DEF Fits
  <1>6. QED
    BY <1>1, <1>2, <1>3, <1>4, <1>5

LEMMA NewestIsSound ==
    ASSUME TypeOK, StoreSound
    PROVE  /\ Newest \in Job /\ Fits(Newest, store, revived) /\ Newest # NoJob
           /\ Stored = {} => Newest = NotFound
           /\ Stored # {} => /\ Newest.iter \in Stored /\ Newest = Read(Newest.iter)
                             /\ \A j \in Stored : j <= Newest.iter
  <1>1. CASE Stored = {}
    <2>1. NotFound \in Job /\ Fits(NotFound, store, revived) /\ NotFound # NoJob
      BY StoreFacts DEF NotFound, Job, Fits, NoJob
    <2>2. QED
      BY <1>1, <2>1 DEF Newest
  <1>2. CASE Stored # {}
    <2>1. Stored \in SUBSET (0 .. LastIteration) /\ LastIteration \in Nat
      BY StoreFacts
    <2>2. Max(Stored) \in Stored /\ \A j \in Stored : j <= Max(Stored)
      BY <1>2, <2>1, MaxIsGreatest
    <2>3. Newest = Read(Max(Stored))
      BY <1>2 DEF Newest
    <2>4. QED
      BY <1>2, <2>2, <2>3, ReadIsSound
  <1>3. QED
    BY <1>1, <1>2

\* What is stored and open is no older than anything that was ever read or written.
LEMMA ReadIsNoOlder ==
    ASSUME TypeOK, StoreSound, NEW i \in Stored, NEW f \in Job, Fits(f, store, revived)
    PROVE  IsNoOlder(Read(i), f, revived)
  <1>1. /\ i \in Iterations /\ i \in Nat /\ i > 0 /\ store[i].version \in Nat
        /\ store[i].state \in {"Open", "Closed"}
    BY StoreFacts
  <1>2. /\ Read(i).iter = i /\ Read(i).version = store[i].version
        /\ Read(i).closed <=> store[i].state = "Closed"
    BY ReadIsSound
  <1>3. f.iter \in Nat /\ f.version \in Nat
    BY StoreFacts DEF Job
  <1>4. CASE f.iter < i
    BY <1>1, <1>2, <1>4 DEF IsNoOlder, AtLeast
  <1>5. CASE f.iter = i
    <2>1. f.version <= store[i].version
      BY <1>1, <1>5 DEF Fits
    <2>2. QED
      BY <1>1, <1>2, <1>3, <1>5, <2>1 DEF IsNoOlder, AtLeast
  <1>6. CASE f.iter > i
    <2>1. f.iter \in Iterations /\ WasOpened(f.iter)
      <3>1. f.iter \in Iterations /\ f.version > 0 /\ f.version <= store[f.iter].version
        BY <1>1, <1>3, <1>6 DEF Fits
      <3>2. store[f.iter].version \in Nat
        BY <3>1, StoreFacts
      <3>3. QED
        BY <1>3, <3>1, <3>2 DEF WasOpened
    <2>2. store[i].state = "Open" => i \in revived
      BY <1>1, <1>3, <1>6, <2>1 DEF StoreSound, ClosedInOrder
    <2>3. QED
      BY <1>1, <1>2, <2>2 DEF IsNoOlder
  <1>7. QED
    BY <1>1, <1>3, <1>4, <1>5, <1>6

-----------------------------------------------------------------------------
(* Writes and deletions *)

\* A write is over no finished iteration, and a new iteration after all that was opened before.
Writable(i) ==
    /\ i \in Iterations /\ store[i].state # "Closed"
    /\ store[i].state = "Absent" =>
          \A j \in Iterations : j < i => WasOpened(j) /\ (store[j].state = "Open" => j \in revived)

\* What a step of the store leaves of what somebody holds.
StoreKept ==
    /\ store' \in [Iterations -> [version : Nat, state : {"Absent", "Open", "Closed"}]]
    /\ revived' \in SUBSET Iterations /\ revived \subseteq revived'
    /\ StoreSound'
    /\ \A k \in Job : Fits(k, store, revived) => Fits(k, store', revived')

LEMMA IdleStoreIsKept ==
    ASSUME TypeOK, StoreSound, UNCHANGED <<store, revived>>
    PROVE  StoreKept
  BY DEF TypeOK, StoreKept, StoreSound, OpenedInOrder, LastIsStored, StoredWasOpened, ClosedInOrder,
         WasOpened, Stored, IsStored

LEMMA WriteKeeps ==
    ASSUME TypeOK, StoreSound, NEW i, Writable(i), NEW closed \in BOOLEAN,
           store' = Written(i, closed), revived' = RevivedBy(i)
    PROVE  StoreKept
  <1> DEFINE new == [version |-> store[i].version + 1, state |-> IF closed THEN "Closed" ELSE "Open"]
  <1>1. i \in Iterations /\ store[i].version \in Nat
    BY StoreFacts DEF Writable
  <1>2. store' = [store EXCEPT ![i] = new]
    BY <1>1 DEF Written
  <1>3. /\ new \in [version : Nat, state : {"Absent", "Open", "Closed"}]
        /\ new.version = store[i].version + 1 /\ new.state \in {"Open", "Closed"}
    BY <1>1
  <1> HIDE DEF new
  <1>4. store \in [Iterations -> [version : Nat, state : {"Absent", "Open", "Closed"}]]
    BY DEF TypeOK
  <1>5. store' \in [Iterations -> [version : Nat, state : {"Absent", "Open", "Closed"}]]
    BY <1>2, <1>3, <1>4
  <1>6. store'[i] = new /\ \A j \in Iterations : j # i => store'[j] = store[j]
    BY <1>1, <1>2, <1>4
  <1>7. /\ revived \subseteq revived' /\ revived' \in SUBSET Iterations
        /\ store[i].state = "Absent" /\ WasOpened(i) => i \in revived'
    BY <1>1, StoreFacts DEF RevivedBy, TypeOK, WasOpened
  <1>8. /\ \A j \in Iterations : WasOpened(j)' <=> (WasOpened(j) \/ j = i)
        /\ Stored' = Stored \cup {i}
    <2>1. WasOpened(i)'
      BY <1>1, <1>3, <1>6 DEF WasOpened
    <2>2. \A j \in Iterations : j # i => (WasOpened(j)' <=> WasOpened(j))
      BY <1>6 DEF WasOpened
    <2>3. Stored' = {j \in Iterations : store'[j].state # "Absent"}
      BY DEF Stored, IsStored
    <2>4. Stored = {j \in Iterations : store[j].state # "Absent"}
      BY DEF Stored, IsStored
    <2>5. QED
      BY <1>1, <1>3, <1>6, <2>1, <2>2, <2>3, <2>4
  <1>9. \A j \in Iterations : j \in Nat
    BY StoreFacts
  <1>10. ~WasOpened(i) => store[i].state = "Absent"
    BY <1>1, StoreFacts DEF StoreSound, StoredWasOpened
  <1>11. OpenedInOrder'
    <2> SUFFICES ASSUME NEW a \in Iterations, NEW b \in Iterations, a < b, WasOpened(b)'
                 PROVE  WasOpened(a)'
      BY DEF OpenedInOrder
    <2>1. CASE WasOpened(b)
      BY <1>8, <2>1 DEF StoreSound, OpenedInOrder
    <2>2. CASE ~WasOpened(b)
      BY <1>8, <1>10, <2>2 DEF Writable
    <2>3. QED
      BY <2>1, <2>2
  <1>12. LastIsStored'
    <2> SUFFICES ASSUME NEW a \in Iterations, WasOpened(a)'
                 PROVE  \E b \in Stored' : a <= b
      BY DEF LastIsStored
    <2>1. CASE a = i
      BY <1>1, <1>8, <1>9, <2>1
    <2>2. CASE a # i
      BY <1>8, <2>2 DEF StoreSound, LastIsStored
    <2>3. QED
      BY <2>1, <2>2
  <1>13. StoredWasOpened'
    BY <1>1, <1>8, StoreFacts DEF StoreSound, StoredWasOpened
  <1>14. ClosedInOrder'
    <2> SUFFICES ASSUME NEW a \in Iterations, NEW b \in Iterations,
                        store'[a].state = "Open", a < b, WasOpened(b)'
                 PROVE  a \in revived'
      BY DEF ClosedInOrder
    <2>1. CASE a = i
      <3>1. WasOpened(b)
        BY <1>8, <1>9, <2>1
      <3>2. WasOpened(i)
        BY <2>1, <3>1 DEF StoreSound, OpenedInOrder
      <3>3. CASE store[i].state = "Open"
        BY <1>1, <1>7, <2>1, <3>1, <3>3 DEF StoreSound, ClosedInOrder
      <3>4. CASE store[i].state = "Absent"
        BY <1>7, <2>1, <3>2, <3>4
      <3>5. QED
        BY <1>1, <3>3, <3>4, StoreFacts DEF Writable
    <2>2. CASE a # i /\ WasOpened(b)
      BY <1>6, <1>7, <2>2 DEF StoreSound, ClosedInOrder
    <2>3. CASE a # i /\ ~WasOpened(b)
      <3>1. b = i /\ store[i].state = "Absent"
        BY <1>8, <1>10, <2>3
      <3>2. QED
        BY <1>6, <1>7, <2>3, <3>1 DEF Writable
    <2>4. QED
      BY <2>1, <2>2, <2>3
  <1>15. ASSUME NEW k \in Job, Fits(k, store, revived)
         PROVE  Fits(k, store', revived')
    <2>1. CASE k.iter = 0 /\ k.version = 0
      BY <2>1 DEF Fits
    <2>2. CASE k.iter \in Iterations /\ k.iter # i
      <3>1. store'[k.iter] = store[k.iter] /\ k.iter # 0
        BY <1>6, <2>2, StoreFacts
      <3>2. QED
        BY <1>7, <1>15, <2>2, <3>1 DEF Fits
    <2>3. CASE k.iter = i
      <3>1. k.version \in Nat /\ k.closed \in BOOLEAN /\ i # 0
        BY <1>1, StoreFacts DEF Job
      <3>2. /\ k.version > 0 /\ k.version <= store[i].version
            /\ k.version = store[i].version /\ store[i].state # "Absent" =>
                  (k.closed <=> store[i].state = "Closed")
            /\ k.version < store[i].version /\ k.closed => i \in revived
        BY <1>15, <2>3, <3>1 DEF Fits
      <3>3. WasOpened(i)
        BY <1>1, <3>1, <3>2 DEF WasOpened
      <3>4. k.closed => i \in revived'
        <4>1. CASE k.version < store[i].version
          BY <1>7, <3>2, <4>1
        <4>2. CASE k.version = store[i].version
          BY <1>1, <1>7, <3>2, <3>3, <4>2 DEF Writable
        <4>3. QED
          BY <1>1, <3>1, <3>2, <4>1, <4>2
      <3>5. k.version < store'[i].version
        BY <1>1, <1>3, <1>6, <3>1, <3>2
      <3>6. QED
        BY <1>1, <1>3, <1>6, <2>3, <3>1, <3>2, <3>4, <3>5 DEF Fits
    <2>4. QED
      BY <1>15, <2>1, <2>2, <2>3 DEF Fits
  <1>16. QED
    BY <1>5, <1>7, <1>11, <1>12, <1>13, <1>14, <1>15 DEF StoreKept, StoreSound

LEMMA DeleteKeeps ==
    ASSUME TypeOK, StoreSound, DeleteOutdated
    PROVE  StoreKept
  <1>1. PICK i \in Stored : i + Retention <= Newest.iter /\ store' = [store EXCEPT ![i].state = "Absent"]
    BY DEF DeleteOutdated
  <1>2. revived' = revived
    BY DEF DeleteOutdated
  <1>3. Newest.iter \in Stored /\ Newest.iter \in Nat /\ i \in Nat /\ i \in Iterations /\ Newest.iter > i
    <2>1. Newest.iter \in Stored
      BY <1>1, NewestIsSound
    <2>2. QED
      BY <1>1, <2>1, StoreFacts, CacheAssumption
  <1>4. store \in [Iterations -> [version : Nat, state : {"Absent", "Open", "Closed"}]]
    BY DEF TypeOK
  <1>5. /\ store' \in [Iterations -> [version : Nat, state : {"Absent", "Open", "Closed"}]]
        /\ store'[i].version = store[i].version /\ store'[i].state = "Absent"
        /\ \A j \in Iterations : j # i => store'[j] = store[j]
    BY <1>1, <1>3, <1>4
  <1>6. \A j \in Iterations : store'[j].version = store[j].version /\ (WasOpened(j)' <=> WasOpened(j))
    BY <1>5 DEF WasOpened
  <1>7. Stored' = Stored \ {i}
    <2>1. Stored' = {j \in Iterations : store'[j].state # "Absent"}
      BY DEF Stored, IsStored
    <2>2. Stored = {j \in Iterations : store[j].state # "Absent"}
      BY DEF Stored, IsStored
    <2>3. QED
      BY <1>3, <1>5, <2>1, <2>2
  <1>8. OpenedInOrder' /\ StoredWasOpened'
    BY <1>6, <1>7, StoreFacts DEF StoreSound, OpenedInOrder, StoredWasOpened
  <1>9. LastIsStored'
    <2> SUFFICES ASSUME NEW a \in Iterations, WasOpened(a)'
                 PROVE  \E b \in Stored' : a <= b
      BY DEF LastIsStored
    <2>1. PICK b \in Stored : a <= b
      BY <1>6 DEF StoreSound, LastIsStored
    <2>2. b <= Newest.iter /\ a \in Nat /\ b \in Nat
      BY <2>1, NewestIsSound, StoreFacts
    <2>3. Newest.iter \in Stored' /\ a <= Newest.iter
      BY <1>3, <1>7, <2>1, <2>2
    <2>4. QED
      BY <2>3
  <1>10. ClosedInOrder'
    BY <1>2, <1>5, <1>6 DEF StoreSound, ClosedInOrder
  <1>11. ASSUME NEW k \in Job, Fits(k, store, revived)
         PROVE  Fits(k, store', revived')
    <2>1. \A j \in Iterations : store'[j].state # "Absent" => store'[j] = store[j]
      BY <1>5
    <2>2. QED
      BY <1>2, <1>6, <1>11, <2>1 DEF Fits
  <1>12. QED
    BY <1>2, <1>5, <1>8, <1>9, <1>10, <1>11 DEF StoreKept, StoreSound, TypeOK

LEMMA OutsiderKeeps ==
    ASSUME TypeOK, StoreSound, OutsiderSaves
    PROVE  StoreKept
  <1>1. PICK i \in Iterations, closed \in BOOLEAN :
           /\ IF Newest.closed THEN i = Newest.iter + 1 ELSE i = Newest.iter
           /\ store' = Written(i, closed) /\ revived' = RevivedBy(i)
    BY DEF OutsiderSaves
  <1>2. Writable(i)
    <2>1. CASE Stored = {}
      <3>1. i = 1 /\ store[i].state = "Absent"
        BY <1>1, <2>1, NewestIsSound, StoreFacts DEF NotFound
      <3>2. \A j \in Iterations : ~(j < i)
        BY <3>1, StoreFacts
      <3>3. QED
        BY <1>1, <3>1, <3>2 DEF Writable
    <2>2. CASE Stored # {}
      <3> DEFINE n == Newest.iter
      <3>1. n \in Stored /\ \A j \in Stored : j <= n
        BY <2>2, NewestIsSound
      <3>2. Newest.closed <=> store[n].state = "Closed"
        BY <2>2, <3>1, NewestIsSound, ReadIsSound
      <3>3. /\ n \in Iterations /\ n \in Nat /\ WasOpened(n) /\ i \in Nat
            /\ IF Newest.closed THEN i = n + 1 ELSE i = n
        BY <1>1, <3>1, StoreFacts DEF StoreSound, StoredWasOpened
      <3> HIDE DEF n
      <3>4. CASE ~Newest.closed
        <4>1. store[i].state = "Open"
          BY <3>1, <3>2, <3>3, <3>4, StoreFacts
        <4>2. QED
          BY <1>1, <4>1 DEF Writable
      <3>5. CASE Newest.closed
        <4>1. store[i].state = "Absent"
          BY <1>1, <3>1, <3>3, <3>5, StoreFacts
        <4>2. ASSUME NEW j \in Iterations, j < i
              PROVE  WasOpened(j) /\ (store[j].state = "Open" => j \in revived)
          <5>1. j \in Nat /\ j <= n
            <6>1. i = n + 1 /\ n \in Nat
              BY <3>3, <3>5
            <6>2. j \in Nat
              BY StoreFacts
            <6>3. QED
              BY <4>2, <6>1, <6>2
          <5>2. CASE j = n
            BY <3>2, <3>3, <3>5, <5>2
          <5>3. CASE j < n
            BY <3>3, <5>3 DEF StoreSound, OpenedInOrder, ClosedInOrder
          <5>4. QED
            BY <3>3, <5>1, <5>2, <5>3
        <4>3. QED
          BY <1>1, <4>1, <4>2 DEF Writable
      <3>6. QED
        BY <3>4, <3>5
    <2>3. QED
      BY <2>1, <2>2
  <1>3. QED
    BY <1>1, <1>2, WriteKeeps

\* The condition of a save admits no other.
LEMMA SaveIsWritable ==
    ASSUME TypeOK, StoreSound, NEW job \in Job, NEW h \in Job, Fits(h, store, revived),
           job.iter \in Iterations,
           IF h.closed THEN job.iter = h.iter + 1 /\ job.version = 0
                       ELSE job.iter = h.iter /\ job.version = h.version,
           IsSaveAllowed(job)
    PROVE  Writable(job.iter)
  <1> DEFINE i == job.iter
             n == h.iter
  <1>1. /\ i \in Iterations /\ i \in Nat /\ n \in Nat /\ h.version \in Nat /\ h.closed \in BOOLEAN
        /\ store[i].state \in {"Absent", "Open", "Closed"} /\ store[i].version \in Nat /\ i > 0
    BY StoreFacts DEF Job
  <1>2. CASE h.closed
    <2>1. i = n + 1 /\ store[i].state = "Absent"
      BY <1>1, <1>2, StoreFacts DEF IsSaveAllowed
    <2> HIDE DEF i
    <2>2. ASSUME NEW j \in Iterations, j < i
          PROVE  WasOpened(j) /\ (store[j].state = "Open" => j \in revived)
      <3>1. j \in Nat /\ j > 0 /\ j <= n /\ n # 0
        BY <1>1, <2>1, <2>2, StoreFacts
      <3>2. /\ n \in Iterations /\ h.version > 0 /\ h.version <= store[n].version
            /\ h.version = store[n].version /\ store[n].state # "Absent" => (h.closed <=> store[n].state = "Closed")
            /\ h.version < store[n].version /\ h.closed => n \in revived
        BY <3>1 DEF Fits
      <3>3. store[n].version \in Nat
        BY <3>2, StoreFacts
      <3> HIDE DEF n
      <3>4. WasOpened(n)
        BY <1>1, <3>2, <3>3 DEF WasOpened
      <3>5. CASE j = n
        <4>1. store[n].state = "Open" => n \in revived
          BY <1>1, <1>2, <3>2, <3>3
        <4>2. QED
          BY <3>4, <3>5, <4>1
      <3>6. CASE j < n
        BY <3>2, <3>4, <3>6 DEF StoreSound, OpenedInOrder, ClosedInOrder
      <3>7. QED
        BY <1>1, <3>1, <3>5, <3>6
    <2>3. QED
      BY <1>1, <2>1, <2>2 DEF Writable, i
  <1>3. CASE ~h.closed
    <2>1. i = n /\ job.version = h.version
      BY <1>3
    <2>2. h.version > 0 /\ (h.version = store[i].version /\ store[i].state # "Absent" =>
                               (h.closed <=> store[i].state = "Closed"))
      BY <1>1, <2>1 DEF Fits
    <2>3. store[i].state # "Absent" /\ store[i].version = h.version
      BY <1>1, <2>1, <2>2, StoreFacts DEF IsSaveAllowed
    <2>4. store[i].state = "Open"
      BY <1>1, <1>3, <2>2, <2>3
    <2>5. QED
      BY <1>1, <2>4 DEF Writable
  <1>4. QED
    BY <1>1, <1>2, <1>3

-----------------------------------------------------------------------------
(* Calls *)

LEMMA CallIsTyped ==
    ASSUME TypeOK, NEW w \in Workers
    PROVE  /\ CallOf(w) \in Call
           /\ CallOf(w).pc = pc[w] /\ CallOf(w).known = known[w] /\ CallOf(w).found = found[w]
           /\ CallOf(w).hand = hand[w] /\ CallOf(w).floor = floor[w] /\ CallOf(w).attempts = attempts[w]
  BY DEF TypeOK, CallOf, Call

LEMMA CallIsKept ==
    ASSUME StoreKept, NEW c \in Call, CallSound(c, store, revived)
    PROVE  CallSound(c, store', revived')
  <1>1. c.known \in Job /\ c.hand \in Job /\ c.floor \in Job /\ c.found \in Job
    BY DEF Call
  <1>2. /\ Fits(c.known, store', revived') /\ Fits(c.hand, store', revived') /\ Fits(c.floor, store', revived')
        /\ c.pc = "Refresh" => Fits(c.found, store', revived')
    BY <1>1 DEF CallSound, StoreKept
  <1>3. /\ c.hand # NoJob => IsNoOlder(c.hand, c.floor, revived')
        /\ c.pc = "Refresh" => IsNoOlder(c.found, c.floor, revived')
    BY DEF CallSound, StoreKept, IsNoOlder
  <1>4. QED
    BY <1>2, <1>3 DEF CallSound

\* A step of one worker leaves the others where they are.
LEMMA StepKeeps ==
    ASSUME Inv, StoreKept, NEW w \in Workers, TypeOK',
           \A v \in Workers \ {w} : /\ pc'[v] = pc[v] /\ known'[v] = known[v] /\ found'[v] = found[v]
                                    /\ hand'[v] = hand[v] /\ floor'[v] = floor[v] /\ attempts'[v] = attempts[v],
           Fits(cache', store', revived'),
           CallSound([pc |-> pc'[w], known |-> known'[w], found |-> found'[w], hand |-> hand'[w],
                      floor |-> floor'[w], attempts |-> attempts'[w]], store', revived')
    PROVE  Inv'
  <1>1. ASSUME NEW v \in Workers
        PROVE  CallSound(CallOf(v)', store', revived')
    <2>1. CASE v = w
      BY <2>1 DEF CallOf
    <2>2. CASE v # w
      <3>1. CallOf(v)' = CallOf(v)
        BY <2>2 DEF CallOf
      <3>2. CallOf(v) \in Call /\ CallSound(CallOf(v), store, revived)
        BY CallIsTyped DEF Inv
      <3>3. QED
        BY <3>1, <3>2, CallIsKept
    <2>3. QED
      BY <2>1, <2>2
  <1>2. QED
    BY <1>1 DEF Inv, StoreKept

\* Where a call ends with a job that is no older than what was stored when it looked.
LEMMA ReturnKeeps ==
    ASSUME Inv, StoreKept, NEW w \in Workers, NEW job \in Job, Return(w, job),
           Fits(job, store', revived'),
           floor' \in [Workers -> Job], \A v \in Workers \ {w} : floor'[v] = floor[v],
           Fits(floor'[w], store', revived'),
           job # NoJob => IsNoOlder(job, floor'[w], revived'),
           cache' \in Job, Fits(cache', store', revived')
    PROVE  Inv'
  <1>1. /\ pc' = [pc EXCEPT ![w] = "Idle"] /\ hand' = [hand EXCEPT ![w] = job]
        /\ known' = [known EXCEPT ![w] = NoJob] /\ found' = [found EXCEPT ![w] = NoJob]
        /\ attempts' = [attempts EXCEPT ![w] = 0] /\ lock' = IF lock = w THEN NoWorker ELSE lock
    BY DEF Return
  <1>2. NoJob \in Job /\ Fits(NoJob, store', revived')
    BY StoreFacts DEF NoJob, Job, Fits, Inv
  <1>3. TypeOK'
    BY <1>1, <1>2 DEF Inv, TypeOK, StoreKept
  <1>4. \A v \in Workers \ {w} : /\ pc'[v] = pc[v] /\ known'[v] = known[v] /\ found'[v] = found[v]
                                 /\ hand'[v] = hand[v] /\ floor'[v] = floor[v] /\ attempts'[v] = attempts[v]
    BY <1>1 DEF Inv, TypeOK
  <1>5. pc'[w] = "Idle" /\ hand'[w] = job /\ known'[w] = NoJob /\ found'[w] = NoJob /\ attempts'[w] = 0
    BY <1>1 DEF Inv, TypeOK
  <1>6. CallSound([pc |-> pc'[w], known |-> known'[w], found |-> found'[w], hand |-> hand'[w],
                   floor |-> floor'[w], attempts |-> attempts'[w]], store', revived')
    BY <1>2, <1>5 DEF CallSound
  <1>7. QED
    BY <1>3, <1>4, <1>6, StepKeeps

LEMMA WorkerFacts ==
    ASSUME Inv, NEW w \in Workers
    PROVE  /\ TypeOK /\ StoreSound /\ cache \in Job /\ Fits(cache, store, revived)
           /\ known[w] \in Job /\ found[w] \in Job /\ hand[w] \in Job /\ floor[w] \in Job
           /\ attempts[w] \in 0 .. 2 /\ floor \in [Workers -> Job]
           /\ Fits(known[w], store, revived) /\ Fits(hand[w], store, revived) /\ Fits(floor[w], store, revived)
           /\ hand[w] # NoJob => IsNoOlder(hand[w], floor[w], revived)
           /\ pc[w] \in {"Check", "Refresh", "Lock", "Fetch", "FindAgain"} => known[w].iter \in Iterations
           /\ pc[w] = "Refresh" => /\ Fits(found[w], store, revived) /\ found[w].iter = known[w].iter
                                   /\ AtLeast(found[w], known[w]) /\ IsNoOlder(found[w], floor[w], revived)
           /\ pc[w] \in {"Lock", "Fetch"} => known[w] = floor[w]
           /\ pc[w] \notin {"Idle", "Save"} => hand[w] = NoJob
           /\ pc[w] = "Save" =>
                 /\ found[w].iter \in Iterations /\ hand[w] # NoJob
                 /\ IF hand[w].closed THEN found[w].iter = hand[w].iter + 1 /\ found[w].version = 0
                    ELSE found[w].iter = hand[w].iter /\ found[w].version = hand[w].version
           /\ pc[w] = "Fetch" => attempts[w] < 2
           /\ pc[w] \notin {"Fetch", "FindAgain"} => attempts[w] = 0
  <1>1. CallSound(CallOf(w), store, revived)
    BY DEF Inv
  <1>2. TypeOK
    BY DEF Inv
  <1> DEFINE c == CallOf(w)
  <1>3. c.pc = pc[w] /\ c.known = known[w] /\ c.found = found[w] /\ c.hand = hand[w]
        /\ c.floor = floor[w] /\ c.attempts = attempts[w]
    BY <1>2, CallIsTyped
  <1> HIDE DEF c
  <1>4. CallSound(c, store, revived)
    BY <1>1 DEF c
  <1>5. QED
    BY <1>2, <1>3, <1>4 DEF Inv, TypeOK, CallSound

LEMMA NoJobFits ==
    ASSUME TypeOK, NEW s, NEW r
    PROVE  /\ NoJob \in Job /\ Fits(NoJob, s, r) /\ NotFound \in Job /\ Fits(NotFound, s, r)
           /\ NotFound.closed
  BY StoreFacts DEF NoJob, NotFound, Job, Fits

-----------------------------------------------------------------------------
(* get_job *)

LEMMA GetJobKeeps ==
    ASSUME Inv, NEW w \in Workers, GetJob(w)
    PROVE  Inv'
  <1> DEFINE p == IF UnfinishedCached THEN "Check" ELSE "Find"
             k == IF UnfinishedCached THEN cache ELSE NoJob
  <1>1. /\ pc[w] = "Idle" /\ pc' = [pc EXCEPT ![w] = p] /\ known' = [known EXCEPT ![w] = k]
        /\ hand' = [hand EXCEPT ![w] = NoJob] /\ floor' = [floor EXCEPT ![w] = Newest]
        /\ UNCHANGED <<store, cache, lock, found, attempts, revived>>
    BY DEF GetJob
  <1>2. TypeOK /\ StoreSound /\ cache \in Job /\ Fits(cache, store, revived) /\ attempts[w] = 0
    BY <1>1, WorkerFacts
  <1>3. NoJob \in Job /\ Fits(NoJob, store, revived) /\ Newest \in Job /\ Fits(Newest, store, revived)
    BY <1>2, NoJobFits, NewestIsSound
  <1>4. k \in Job /\ Fits(k, store, revived) /\ p \in {"Check", "Find"}
    BY <1>2, <1>3
  <1>5. p = "Check" => k.iter \in Iterations
    <2>1. p = "Check" => k = cache /\ cache # NoJob /\ ~cache.closed
      BY DEF UnfinishedCached
    <2>2. cache.iter = 0 /\ cache.version = 0 /\ ~cache.closed => cache = NoJob
      BY <1>2 DEF Job, NoJob
    <2>3. QED
      BY <1>2, <2>1, <2>2 DEF Fits
  <1> HIDE DEF p, k
  <1>6. TypeOK'
    BY <1>1, <1>2, <1>3, <1>4 DEF TypeOK
  <1>7. StoreKept
    BY <1>1, <1>2, IdleStoreIsKept
  <1>8. \A v \in Workers \ {w} : /\ pc'[v] = pc[v] /\ known'[v] = known[v] /\ found'[v] = found[v]
                                 /\ hand'[v] = hand[v] /\ floor'[v] = floor[v] /\ attempts'[v] = attempts[v]
    BY <1>1, <1>2 DEF TypeOK
  <1>9. pc'[w] = p /\ known'[w] = k /\ hand'[w] = NoJob /\ floor'[w] = Newest /\ attempts'[w] = 0
    BY <1>1, <1>2 DEF TypeOK
  <1>10. CallSound([pc |-> pc'[w], known |-> known'[w], found |-> found'[w], hand |-> hand'[w],
                    floor |-> floor'[w], attempts |-> attempts'[w]], store', revived')
    BY <1>1, <1>3, <1>4, <1>5, <1>9 DEF CallSound
  <1>11. QED
    BY <1>1, <1>2, <1>6, <1>7, <1>8, <1>10, StepKeeps

\* A step that looks and goes on in the same call.
LEMMA LookKeeps ==
    ASSUME Inv, NEW w \in Workers, NEW c \in Call, CallSound(c, store, revived),
           pc' = [pc EXCEPT ![w] = c.pc], known' = [known EXCEPT ![w] = c.known],
           found' = [found EXCEPT ![w] = c.found], hand' = [hand EXCEPT ![w] = c.hand],
           floor' = [floor EXCEPT ![w] = c.floor], attempts' = [attempts EXCEPT ![w] = c.attempts],
           lock' \in Workers \cup {NoWorker}, UNCHANGED <<store, cache, revived>>
    PROVE  Inv'
  <1>1. TypeOK /\ StoreSound /\ Fits(cache, store, revived)
    BY DEF Inv
  <1>2. /\ c.pc \in {"Idle", "Check", "Refresh", "Find", "Lock", "Fetch", "FindAgain", "Save"}
        /\ c.known \in Job /\ c.found \in Job /\ c.hand \in Job /\ c.floor \in Job /\ c.attempts \in 0 .. 2
        /\ c = [pc |-> c.pc, known |-> c.known, found |-> c.found, hand |-> c.hand,
                floor |-> c.floor, attempts |-> c.attempts]
    BY DEF Call
  <1>3. TypeOK'
    BY <1>1, <1>2 DEF TypeOK
  <1>4. StoreKept
    BY <1>1, IdleStoreIsKept
  <1>5. \A v \in Workers \ {w} : /\ pc'[v] = pc[v] /\ known'[v] = known[v] /\ found'[v] = found[v]
                                 /\ hand'[v] = hand[v] /\ floor'[v] = floor[v] /\ attempts'[v] = attempts[v]
    BY <1>1 DEF TypeOK
  <1>6. /\ pc'[w] = c.pc /\ known'[w] = c.known /\ found'[w] = c.found /\ hand'[w] = c.hand
        /\ floor'[w] = c.floor /\ attempts'[w] = c.attempts
    BY <1>1 DEF TypeOK
  <1>7. CallSound([pc |-> pc'[w], known |-> known'[w], found |-> found'[w], hand |-> hand'[w],
                   floor |-> floor'[w], attempts |-> attempts'[w]], store', revived')
    BY <1>2, <1>6
  <1>8. QED
    BY <1>1, <1>3, <1>4, <1>5, <1>7, StepKeeps

LEMMA CheckUnmovedKeeps ==
    ASSUME Inv, NEW w \in Workers, CheckUnmoved(w)
    PROVE  Inv'
  <1> DEFINE k == known[w]
  <1>1. /\ pc[w] = "Check" /\ IsStored(k.iter) /\ Read(k.iter).version = k.version /\ Return(w, k)
        /\ UNCHANGED <<store, cache, floor, revived>>
    BY DEF CheckUnmoved
  <1>2. /\ TypeOK /\ StoreSound /\ k \in Job /\ Fits(k, store, revived) /\ floor[w] \in Job
        /\ Fits(floor[w], store, revived) /\ k.iter \in Iterations
    BY <1>1, WorkerFacts
  <1>3. k.iter \in Stored
    BY <1>1, <1>2, StoreFacts
  <1>4. IsNoOlder(k, floor[w], revived)
    <2>1. IsNoOlder(Read(k.iter), floor[w], revived)
      BY <1>2, <1>3, ReadIsNoOlder
    <2>2. Read(k.iter) \in Job /\ Read(k.iter).iter = k.iter /\ (Read(k.iter).closed <=> store[k.iter].state = "Closed")
          /\ Read(k.iter).version = store[k.iter].version /\ store[k.iter].state # "Absent"
      BY <1>2, <1>3, ReadIsSound, StoreFacts
    <2>3. k.closed <=> store[k.iter].state = "Closed"
      <3>1. k.iter # 0
        BY <1>2, StoreFacts
      <3>2. QED
        BY <1>1, <1>2, <2>2, <3>1 DEF Fits
    <2>4. QED
      BY <1>1, <2>1, <2>2, <2>3 DEF IsNoOlder, AtLeast
  <1>5. StoreKept
    BY <1>1, <1>2, IdleStoreIsKept
  <1> HIDE DEF k
  <1>6. QED
    BY <1>1, <1>2, <1>4, <1>5, ReturnKeeps, WorkerFacts

LEMMA CheckChangedKeeps ==
    ASSUME Inv, NEW w \in Workers, CheckChanged(w)
    PROVE  Inv'
  <1> DEFINE i == known[w].iter
             c == [pc |-> "Refresh", known |-> known[w], found |-> Read(i), hand |-> hand[w],
                   floor |-> floor[w], attempts |-> attempts[w]]
  <1>1. /\ pc[w] = "Check" /\ IsStored(i)
        /\ pc' = [pc EXCEPT ![w] = "Refresh"] /\ found' = [found EXCEPT ![w] = Read(i)]
        /\ UNCHANGED <<store, cache, lock, known, attempts, hand, floor, revived>>
    BY DEF CheckChanged
  <1>2. /\ TypeOK /\ StoreSound /\ known[w] \in Job /\ hand[w] \in Job /\ floor[w] \in Job
        /\ Fits(known[w], store, revived) /\ Fits(hand[w], store, revived) /\ Fits(floor[w], store, revived)
        /\ i \in Iterations /\ hand[w] = NoJob /\ attempts[w] = 0
    BY <1>1, WorkerFacts
  <1>3. i \in Stored
    BY <1>1, <1>2, StoreFacts
  <1>4. Read(i) \in Job /\ Fits(Read(i), store, revived) /\ Read(i).iter = i /\ Read(i).version = store[i].version
    BY <1>2, <1>3, ReadIsSound
  <1>5. IsNoOlder(Read(i), floor[w], revived)
    BY <1>2, <1>3, ReadIsNoOlder
  <1>6. AtLeast(Read(i), known[w])
    <2>1. known[w].version <= store[i].version
      <3>1. i # 0
        BY <1>2, StoreFacts
      <3>2. QED
        BY <1>2, <3>1 DEF Fits
    <2>2. store[i].version \in Nat /\ known[w].version \in Nat
      BY <1>2, StoreFacts DEF Job
    <2>3. QED
      BY <1>4, <2>1, <2>2 DEF AtLeast
  <1> HIDE DEF i
  <1>7. c \in Call
    BY <1>2, <1>4 DEF Call
  <1>8. CallSound(c, store, revived)
    BY <1>2, <1>4, <1>5, <1>6 DEF CallSound, i
  <1>9. /\ pc' = [pc EXCEPT ![w] = c.pc] /\ known' = [known EXCEPT ![w] = c.known]
        /\ found' = [found EXCEPT ![w] = c.found] /\ hand' = [hand EXCEPT ![w] = c.hand]
        /\ floor' = [floor EXCEPT ![w] = c.floor] /\ attempts' = [attempts EXCEPT ![w] = c.attempts]
        /\ lock' \in Workers \cup {NoWorker}
    BY <1>1, <1>2 DEF TypeOK
  <1> HIDE DEF c
  <1>10. QED
    BY <1>1, <1>7, <1>8, <1>9, LookKeeps

LEMMA CheckGoneKeeps ==
    ASSUME Inv, NEW w \in Workers, CheckGone(w)
    PROVE  Inv'
  <1> DEFINE c == [pc |-> "Find", known |-> known[w], found |-> found[w], hand |-> hand[w],
                   floor |-> floor[w], attempts |-> attempts[w]]
  <1>1. /\ pc[w] = "Check" /\ pc' = [pc EXCEPT ![w] = "Find"]
        /\ UNCHANGED <<store, cache, lock, known, found, attempts, hand, floor, revived>>
    BY DEF CheckGone
  <1>2. /\ TypeOK /\ known[w] \in Job /\ found[w] \in Job /\ hand[w] \in Job /\ floor[w] \in Job
        /\ Fits(known[w], store, revived) /\ Fits(hand[w], store, revived) /\ Fits(floor[w], store, revived)
        /\ hand[w] = NoJob /\ attempts[w] = 0
    BY <1>1, WorkerFacts
  <1>3. c \in Call
    BY <1>2 DEF Call
  <1>4. CallSound(c, store, revived)
    BY <1>2 DEF CallSound
  <1>5. /\ pc' = [pc EXCEPT ![w] = c.pc] /\ known' = [known EXCEPT ![w] = c.known]
        /\ found' = [found EXCEPT ![w] = c.found] /\ hand' = [hand EXCEPT ![w] = c.hand]
        /\ floor' = [floor EXCEPT ![w] = c.floor] /\ attempts' = [attempts EXCEPT ![w] = c.attempts]
        /\ lock' \in Workers \cup {NoWorker}
    BY <1>1, <1>2 DEF TypeOK
  <1> HIDE DEF c
  <1>6. QED
    BY <1>1, <1>3, <1>4, <1>5, LookKeeps

LEMMA RefreshKeeps ==
    ASSUME Inv, NEW w \in Workers, Refresh(w)
    PROVE  Inv'
  <1>1. /\ pc[w] = "Refresh" /\ cache' = IF IsUnchangedSince(known[w]) THEN found[w] ELSE cache
        /\ Return(w, found[w]) /\ UNCHANGED <<store, floor, revived>>
    BY DEF Refresh
  <1>2. /\ TypeOK /\ StoreSound /\ cache \in Job /\ Fits(cache, store, revived)
        /\ found[w] \in Job /\ Fits(found[w], store, revived) /\ floor \in [Workers -> Job]
        /\ Fits(floor[w], store, revived) /\ IsNoOlder(found[w], floor[w], revived)
    BY <1>1, WorkerFacts
  <1>3. StoreKept
    BY <1>1, <1>2, IdleStoreIsKept
  <1>4. cache' \in Job /\ Fits(cache', store', revived')
    BY <1>1, <1>2
  <1>5. QED
    BY <1>1, <1>2, <1>3, <1>4, ReturnKeeps

LEMMA FindMetaKeeps ==
    ASSUME Inv, NEW w \in Workers, FindMeta(w)
    PROVE  Inv'
  <1>1. pc[w] = "Find" /\ floor' = [floor EXCEPT ![w] = Newest] /\ UNCHANGED <<store, cache, revived>>
    BY DEF FindMeta
  <1>2. /\ TypeOK /\ StoreSound /\ cache \in Job /\ Fits(cache, store, revived) /\ floor \in [Workers -> Job]
        /\ found[w] \in Job /\ hand[w] \in Job /\ Fits(hand[w], store, revived) /\ hand[w] = NoJob /\ attempts[w] = 0
    BY <1>1, WorkerFacts
  <1>3. Newest \in Job /\ Fits(Newest, store, revived)
    BY <1>2, NewestIsSound
  <1>4. CASE Return(w, NotFound)
    <2>1. NotFound \in Job /\ Fits(NotFound, store, revived) /\ NotFound.closed
      BY <1>2, NoJobFits
    <2>2. StoreKept
      BY <1>1, <1>2, IdleStoreIsKept
    <2>3. floor'[w] = Newest /\ floor' \in [Workers -> Job] /\ \A v \in Workers \ {w} : floor'[v] = floor[v]
      BY <1>1, <1>2, <1>3
    <2>4. IsNoOlder(NotFound, floor'[w], revived')
      BY <2>1 DEF IsNoOlder
    <2>5. QED
      BY <1>1, <1>2, <1>3, <1>4, <2>1, <2>2, <2>3, <2>4, ReturnKeeps
  <1>5. CASE /\ Stored # {} /\ pc' = [pc EXCEPT ![w] = "Lock"] /\ known' = [known EXCEPT ![w] = Newest]
             /\ UNCHANGED <<lock, found, attempts, hand>>
    <2> DEFINE c == [pc |-> "Lock", known |-> Newest, found |-> found[w], hand |-> hand[w],
                     floor |-> Newest, attempts |-> attempts[w]]
    <2>1. Newest.iter \in Iterations
      BY <1>2, <1>5, NewestIsSound, StoreFacts
    <2>2. c \in Call
      BY <1>2, <1>3 DEF Call
    <2>3. CallSound(c, store, revived)
      BY <1>2, <1>3, <2>1 DEF CallSound
    <2>4. /\ pc' = [pc EXCEPT ![w] = c.pc] /\ known' = [known EXCEPT ![w] = c.known]
          /\ found' = [found EXCEPT ![w] = c.found] /\ hand' = [hand EXCEPT ![w] = c.hand]
          /\ floor' = [floor EXCEPT ![w] = c.floor] /\ attempts' = [attempts EXCEPT ![w] = c.attempts]
          /\ lock' \in Workers \cup {NoWorker}
      BY <1>1, <1>2, <1>5 DEF TypeOK
    <2> HIDE DEF c
    <2>5. QED
      BY <1>1, <2>2, <2>3, <2>4, LookKeeps
  <1>6. QED
    BY <1>4, <1>5 DEF FindMeta

LEMMA LockEntryKeeps ==
    ASSUME Inv, NEW w \in Workers, LockEntry(w)
    PROVE  Inv'
  <1>1. pc[w] = "Lock" /\ UNCHANGED <<store, cache, floor, revived>>
    BY DEF LockEntry
  <1>2. /\ TypeOK /\ StoreSound /\ cache \in Job /\ Fits(cache, store, revived) /\ floor \in [Workers -> Job]
        /\ known[w] \in Job /\ found[w] \in Job /\ hand[w] \in Job /\ Fits(hand[w], store, revived)
        /\ hand[w] = NoJob /\ attempts[w] = 0 /\ known[w] = floor[w] /\ Fits(floor[w], store, revived)
        /\ known[w].iter \in Iterations /\ floor[w] \in Job
    BY <1>1, WorkerFacts
  <1>3. CASE Holds(known[w]) /\ Return(w, cache)
    <2>1. IsNoOlder(cache, floor[w], revived)
      BY <1>2, <1>3 DEF Holds, IsNoOlder, AtLeast, Job
    <2>2. StoreKept
      BY <1>1, <1>2, IdleStoreIsKept
    <2>3. QED
      BY <1>1, <1>2, <1>3, <2>1, <2>2, ReturnKeeps
  <1>4. CASE /\ lock' = w /\ pc' = [pc EXCEPT ![w] = "Fetch"]
             /\ UNCHANGED <<known, found, attempts, hand>>
    <2> DEFINE c == [pc |-> "Fetch", known |-> known[w], found |-> found[w], hand |-> hand[w],
                     floor |-> floor[w], attempts |-> attempts[w]]
    <2>1. c \in Call
      BY <1>2 DEF Call
    <2>2. CallSound(c, store, revived)
      BY <1>2 DEF CallSound
    <2>3. /\ pc' = [pc EXCEPT ![w] = c.pc] /\ known' = [known EXCEPT ![w] = c.known]
          /\ found' = [found EXCEPT ![w] = c.found] /\ hand' = [hand EXCEPT ![w] = c.hand]
          /\ floor' = [floor EXCEPT ![w] = c.floor] /\ attempts' = [attempts EXCEPT ![w] = c.attempts]
          /\ lock' \in Workers \cup {NoWorker}
      BY <1>1, <1>2, <1>4 DEF TypeOK
    <2> HIDE DEF c
    <2>4. QED
      BY <1>1, <2>1, <2>2, <2>3, LookKeeps
  <1>5. QED
    BY <1>3, <1>4 DEF LockEntry

LEMMA FetchKeeps ==
    ASSUME Inv, NEW w \in Workers, Fetch(w)
    PROVE  Inv'
  <1> DEFINE job == Read(known[w].iter)
  <1>1. /\ pc[w] = "Fetch" /\ IsStored(known[w].iter) /\ cache' = job
        /\ Return(w, job) /\ UNCHANGED <<store, floor, revived>>
    BY DEF Fetch
  <1>2. /\ TypeOK /\ StoreSound /\ floor \in [Workers -> Job] /\ floor[w] \in Job
        /\ Fits(floor[w], store, revived)
    BY <1>1, WorkerFacts
  <1>3. known[w].iter \in Stored
    BY <1>1, <1>2, StoreFacts
  <1>4. job \in Job /\ Fits(job, store, revived) /\ IsNoOlder(job, floor[w], revived)
    BY <1>2, <1>3, ReadIsSound, ReadIsNoOlder
  <1>5. StoreKept
    BY <1>1, <1>2, IdleStoreIsKept
  <1> HIDE DEF job
  <1>6. QED
    BY <1>1, <1>2, <1>4, <1>5, ReturnKeeps

\* A call that ends with nothing, or with the news that there is no job.
LEMMA EndKeeps ==
    ASSUME Inv, NEW w \in Workers, NEW job \in {NoJob, NotFound}, Return(w, job),
           UNCHANGED <<store, cache, floor, revived>>
    PROVE  Inv'
  <1>1. /\ TypeOK /\ StoreSound /\ cache \in Job /\ Fits(cache, store, revived)
        /\ floor \in [Workers -> Job] /\ Fits(floor[w], store, revived)
    BY WorkerFacts
  <1>2. job \in Job /\ Fits(job, store, revived) /\ (job # NoJob => job.closed)
    BY <1>1, NoJobFits
  <1>3. job # NoJob => IsNoOlder(job, floor[w], revived)
    BY <1>2 DEF IsNoOlder
  <1>4. StoreKept
    BY <1>1, IdleStoreIsKept
  <1>5. QED
    BY <1>1, <1>2, <1>3, <1>4, ReturnKeeps

LEMMA FetchConflictKeeps ==
    ASSUME Inv, NEW w \in Workers, FetchConflict(w)
    PROVE  Inv'
  <1> DEFINE c == [pc |-> "FindAgain", known |-> known[w], found |-> found[w], hand |-> hand[w],
                   floor |-> floor[w], attempts |-> attempts[w] + 1]
  <1>1. /\ pc[w] = "Fetch" /\ pc' = [pc EXCEPT ![w] = "FindAgain"]
        /\ attempts' = [attempts EXCEPT ![w] = attempts[w] + 1]
        /\ UNCHANGED <<store, cache, lock, known, found, hand, floor, revived>>
    BY DEF FetchConflict
  <1>2. /\ TypeOK /\ known[w] \in Job /\ found[w] \in Job /\ hand[w] \in Job /\ floor[w] \in Job
        /\ Fits(known[w], store, revived) /\ Fits(hand[w], store, revived) /\ Fits(floor[w], store, revived)
        /\ hand[w] = NoJob /\ attempts[w] \in 0 .. 2 /\ attempts[w] < 2 /\ known[w].iter \in Iterations
    BY <1>1, WorkerFacts
  <1>3. attempts[w] + 1 \in 0 .. 2
    BY <1>2
  <1>4. c \in Call
    BY <1>2, <1>3 DEF Call
  <1>5. CallSound(c, store, revived)
    BY <1>2 DEF CallSound
  <1>6. /\ pc' = [pc EXCEPT ![w] = c.pc] /\ known' = [known EXCEPT ![w] = c.known]
        /\ found' = [found EXCEPT ![w] = c.found] /\ hand' = [hand EXCEPT ![w] = c.hand]
        /\ floor' = [floor EXCEPT ![w] = c.floor] /\ attempts' = [attempts EXCEPT ![w] = c.attempts]
        /\ lock' \in Workers \cup {NoWorker}
    BY <1>1, <1>2 DEF TypeOK
  <1> HIDE DEF c
  <1>7. QED
    BY <1>1, <1>4, <1>5, <1>6, LookKeeps

LEMMA FindMetaAgainKeeps ==
    ASSUME Inv, NEW w \in Workers, FindMetaAgain(w)
    PROVE  Inv'
  <1>1. pc[w] = "FindAgain" /\ floor' = [floor EXCEPT ![w] = Newest] /\ UNCHANGED <<store, cache, revived>>
    BY DEF FindMetaAgain
  <1>2. /\ TypeOK /\ StoreSound /\ cache \in Job /\ Fits(cache, store, revived) /\ floor \in [Workers -> Job]
        /\ found[w] \in Job /\ hand[w] \in Job /\ Fits(hand[w], store, revived) /\ hand[w] = NoJob
        /\ known[w] \in Job /\ Fits(known[w], store, revived) /\ known[w].iter \in Iterations
        /\ attempts[w] \in 0 .. 2
    BY <1>1, WorkerFacts
  <1>3. Newest \in Job /\ Fits(Newest, store, revived)
    BY <1>2, NewestIsSound
  <1>4. CASE Return(w, NoJob)
    <2>1. NoJob \in Job /\ Fits(NoJob, store, revived)
      BY <1>2, NoJobFits
    <2>2. StoreKept
      BY <1>1, <1>2, IdleStoreIsKept
    <2>3. floor'[w] = Newest /\ floor' \in [Workers -> Job] /\ \A v \in Workers \ {w} : floor'[v] = floor[v]
      BY <1>1, <1>2, <1>3
    <2>4. QED
      BY <1>1, <1>2, <1>3, <1>4, <2>1, <2>2, <2>3, ReturnKeeps
  <1>5. CASE /\ AttemptsLeft(attempts[w])
             /\ pc' = [pc EXCEPT ![w] = "Fetch"] /\ known' = [known EXCEPT ![w] = Newest]
             /\ UNCHANGED <<lock, found, attempts, hand>>
    <2> DEFINE c == [pc |-> "Fetch", known |-> Newest, found |-> found[w], hand |-> hand[w],
                     floor |-> Newest, attempts |-> attempts[w]]
    <2>1. Newest.iter \in Iterations
      <3>1. WasOpened(known[w].iter)
        <4>1. known[w].iter # 0 /\ store[known[w].iter].version \in Nat /\ known[w].version \in Nat
          BY <1>2, StoreFacts DEF Job
        <4>2. QED
          BY <1>2, <4>1 DEF Fits, WasOpened
      <3>2. Stored # {}
        BY <1>2, <3>1 DEF StoreSound, LastIsStored
      <3>3. QED
        BY <1>2, <3>2, NewestIsSound, StoreFacts
    <2>2. c \in Call
      BY <1>2, <1>3 DEF Call
    <2>3. attempts[w] < 2
      BY <1>5 DEF AttemptsLeft
    <2>4. CallSound(c, store, revived)
      BY <1>2, <1>3, <2>1, <2>3 DEF CallSound
    <2>5. /\ pc' = [pc EXCEPT ![w] = c.pc] /\ known' = [known EXCEPT ![w] = c.known]
          /\ found' = [found EXCEPT ![w] = c.found] /\ hand' = [hand EXCEPT ![w] = c.hand]
          /\ floor' = [floor EXCEPT ![w] = c.floor] /\ attempts' = [attempts EXCEPT ![w] = c.attempts]
          /\ lock' \in Workers \cup {NoWorker}
      BY <1>1, <1>2, <1>5 DEF TypeOK
    <2> HIDE DEF c
    <2>6. QED
      BY <1>1, <2>2, <2>4, <2>5, LookKeeps
  <1>6. QED
    BY <1>4, <1>5 DEF FindMetaAgain

LEMMA ProceedKeeps ==
    ASSUME Inv, NEW w \in Workers, Proceed(w)
    PROVE  Inv'
  <1>1. CASE FetchGone(w)
    BY <1>1, EndKeeps DEF FetchGone
  <1>2. QED
    BY <1>1, CheckUnmovedKeeps, CheckChangedKeeps, CheckGoneKeeps, RefreshKeeps, FindMetaKeeps,
       LockEntryKeeps, FetchKeeps, FetchConflictKeeps, FindMetaAgainKeeps DEF Proceed

-----------------------------------------------------------------------------
(* save_job *)

LEMMA SaveJobKeeps ==
    ASSUME Inv, NEW w \in Workers, SaveJob(w)
    PROVE  Inv'
  <1>1. PICK closed \in BOOLEAN :
           LET job == IF hand[w].closed
                      THEN [iter |-> hand[w].iter + 1, version |-> 0, closed |-> closed]
                      ELSE [hand[w] EXCEPT !.closed = closed]
           IN job.iter \in Iterations /\ found' = [found EXCEPT ![w] = job]
    BY DEF SaveJob
  <1> DEFINE job == IF hand[w].closed
                    THEN [iter |-> hand[w].iter + 1, version |-> 0, closed |-> closed]
                    ELSE [hand[w] EXCEPT !.closed = closed]
             c == [pc |-> "Save", known |-> known[w], found |-> job, hand |-> hand[w],
                   floor |-> floor[w], attempts |-> attempts[w]]
  <1>2. /\ pc[w] = "Idle" /\ hand[w] # NoJob /\ lock' = w /\ pc' = [pc EXCEPT ![w] = "Save"]
        /\ UNCHANGED <<store, cache, known, attempts, hand, floor, revived>>
    BY DEF SaveJob
  <1>3. job.iter \in Iterations /\ found' = [found EXCEPT ![w] = job]
    BY <1>1
  <1>4. /\ TypeOK /\ known[w] \in Job /\ hand[w] \in Job /\ floor[w] \in Job
        /\ Fits(known[w], store, revived) /\ Fits(hand[w], store, revived) /\ Fits(floor[w], store, revived)
        /\ IsNoOlder(hand[w], floor[w], revived) /\ attempts[w] = 0
    BY <1>2, WorkerFacts
  <1>5. IF hand[w].closed THEN job.iter = hand[w].iter + 1 /\ job.version = 0
        ELSE job.iter = hand[w].iter /\ job.version = hand[w].version
    BY <1>4 DEF Job
  <1>6. job \in Job
    <2>1. job.iter \in 0 .. LastIteration
      BY <1>3, <1>4, StoreFacts
    <2>2. QED
      BY <1>4, <2>1 DEF Job
  <1> HIDE DEF job
  <1>7. c \in Call
    BY <1>4, <1>6 DEF Call
  <1>8. CallSound(c, store, revived)
    BY <1>2, <1>3, <1>4, <1>5 DEF CallSound
  <1>9. /\ pc' = [pc EXCEPT ![w] = c.pc] /\ known' = [known EXCEPT ![w] = c.known]
        /\ found' = [found EXCEPT ![w] = c.found] /\ hand' = [hand EXCEPT ![w] = c.hand]
        /\ floor' = [floor EXCEPT ![w] = c.floor] /\ attempts' = [attempts EXCEPT ![w] = c.attempts]
        /\ lock' \in Workers \cup {NoWorker}
    BY <1>2, <1>3, <1>4 DEF TypeOK
  <1> HIDE DEF c
  <1>10. QED
    BY <1>2, <1>7, <1>8, <1>9, LookKeeps

\* A write of the store keeps what everybody holds, whatever the worker is told about it.
LEMMA PutKeeps ==
    ASSUME Inv, NEW w \in Workers, pc[w] = "Save", Put(found[w])
    PROVE  /\ StoreKept /\ found[w].iter \in Iterations
           /\ store'[found[w].iter].version = store[found[w].iter].version + 1
           /\ store'[found[w].iter].state = IF found[w].closed THEN "Closed" ELSE "Open"
  <1> DEFINE job == found[w]
             i == job.iter
  <1>1. /\ TypeOK /\ StoreSound /\ job \in Job /\ hand[w] \in Job /\ Fits(hand[w], store, revived)
        /\ job.iter \in Iterations
        /\ IF hand[w].closed THEN job.iter = hand[w].iter + 1 /\ job.version = 0
           ELSE job.iter = hand[w].iter /\ job.version = hand[w].version
    BY WorkerFacts
  <1>2. IsSaveAllowed(job) /\ store' = Written(i, job.closed) /\ revived' = RevivedBy(i)
    BY DEF Put
  <1> HIDE DEF job
  <1>3. Writable(i)
    BY <1>1, <1>2, SaveIsWritable
  <1>4. StoreKept
    <2>1. job.closed \in BOOLEAN
      BY <1>1 DEF Job
    <2>2. QED
      BY <1>1, <1>2, <1>3, <2>1, WriteKeeps
  <1>5. store \in [Iterations -> [version : Nat, state : {"Absent", "Open", "Closed"}]]
    BY <1>1 DEF TypeOK
  <1>6. /\ store'[i].version = store[i].version + 1
        /\ store'[i].state = IF job.closed THEN "Closed" ELSE "Open"
    BY <1>1, <1>2, <1>5 DEF Written
  <1>7. QED
    BY <1>1, <1>4, <1>6 DEF job

LEMMA SaveAcknowledgedKeeps ==
    ASSUME Inv, NEW w \in Workers, SaveAcknowledged(w)
    PROVE  Inv'
  <1> DEFINE i == found[w].iter
             job == [found[w] EXCEPT !.version = store'[i].version]
  <1>1. /\ pc[w] = "Save" /\ Put(found[w]) /\ cache' = job /\ Return(w, job)
        /\ floor' = [floor EXCEPT ![w] = job]
    BY DEF SaveAcknowledged
  <1>2. TypeOK /\ found[w] \in Job /\ floor \in [Workers -> Job]
    BY <1>1, WorkerFacts
  <1>3. /\ StoreKept /\ i \in Iterations /\ store'[i].version = store[i].version + 1
        /\ store'[i].state = IF found[w].closed THEN "Closed" ELSE "Open"
    BY <1>1, PutKeeps
  <1>4. store[i].version \in Nat /\ i \in 0 .. LastIteration
    BY <1>2, <1>3, StoreFacts
  <1>5. /\ job \in Job /\ job.iter = i /\ job.version = store'[i].version
        /\ job.closed = found[w].closed /\ found[w].closed \in BOOLEAN
    <2>1. store'[i].version \in Nat
      BY <1>3, <1>4
    <2>2. QED
      BY <1>2, <2>1 DEF Job
  <1> HIDE DEF job
  <1>6. Fits(job, store', revived')
    BY <1>3, <1>4, <1>5 DEF Fits
  <1>7. floor'[w] = job /\ floor' \in [Workers -> Job] /\ \A v \in Workers \ {w} : floor'[v] = floor[v]
    BY <1>1, <1>2, <1>5
  <1>8. IsNoOlder(job, floor'[w], revived')
    BY <1>4, <1>5, <1>7, <1>3 DEF IsNoOlder, AtLeast
  <1>9. QED
    BY <1>1, <1>3, <1>5, <1>6, <1>7, <1>8, ReturnKeeps

\* A save that ends otherwise, with the entry as it was or empty.
LEMMA SaveEndsKeeps ==
    ASSUME Inv, NEW w \in Workers, pc[w] = "Save", UNCHANGED <<store, revived>> \/ Put(found[w]),
           cache' \in {cache, NoJob}, Return(w, NoJob), UNCHANGED floor
    PROVE  Inv'
  <1>1. /\ TypeOK /\ StoreSound /\ cache \in Job /\ Fits(cache, store, revived)
        /\ floor \in [Workers -> Job] /\ floor[w] \in Job /\ Fits(floor[w], store, revived)
    BY WorkerFacts
  <1>2. StoreKept
    BY <1>1, IdleStoreIsKept, PutKeeps
  <1>3. Fits(cache, store', revived') /\ Fits(floor[w], store', revived')
    BY <1>1, <1>2 DEF StoreKept
  <1>4. NoJob \in Job /\ Fits(NoJob, store', revived')
    BY <1>1, NoJobFits
  <1>5. QED
    BY <1>1, <1>2, <1>3, <1>4, ReturnKeeps

-----------------------------------------------------------------------------
(* The beginning and the steps *)

LEMMA InitIsSound == Init => Inv
  <1> SUFFICES ASSUME Init PROVE Inv
    OBVIOUS
  <1>1. NoJob \in Job
    BY CacheAssumption DEF NoJob, Job
  <1>2. /\ store = [i \in Iterations |-> [version |-> 0, state |-> "Absent"]] /\ cache = NoJob
        /\ lock = NoWorker /\ revived = {}
    BY DEF Init
  <1>3. TypeOK
    BY <1>1 DEF Init, TypeOK
  <1>4. StoreSound
    BY <1>2 DEF StoreSound, OpenedInOrder, LastIsStored, StoredWasOpened, ClosedInOrder, WasOpened, Stored, IsStored
  <1>5. Fits(NoJob, store, revived)
    BY <1>3, NoJobFits
  <1>6. ASSUME NEW w \in Workers
        PROVE  CallSound(CallOf(w), store, revived)
    <2>1. CallOf(w) = [pc |-> "Idle", known |-> NoJob, found |-> NoJob, hand |-> NoJob,
                       floor |-> NoJob, attempts |-> 0]
      BY <1>6 DEF Init, CallOf
    <2>2. QED
      BY <1>5, <2>1 DEF CallSound
  <1>7. QED
    BY <1>2, <1>3, <1>4, <1>5, <1>6 DEF Inv

\* What other instances do, or nothing: nobody of the pool moves.
LEMMA OthersKeep ==
    ASSUME Inv, StoreKept, UNCHANGED <<cache, lock, pc, known, found, attempts, hand, floor>>
    PROVE  Inv'
  <1>1. TypeOK' /\ StoreSound'
    BY DEF Inv, TypeOK, StoreKept
  <1>2. Fits(cache', store', revived')
    BY DEF Inv, TypeOK, StoreKept
  <1>3. ASSUME NEW w \in Workers
        PROVE  CallSound(CallOf(w)', store', revived')
    <2>1. CallOf(w)' = CallOf(w)
      BY DEF CallOf
    <2>2. CallOf(w) \in Call /\ CallSound(CallOf(w), store, revived)
      BY CallIsTyped DEF Inv
    <2>3. QED
      BY <2>1, <2>2, CallIsKept
  <1>4. QED
    BY <1>1, <1>2, <1>3 DEF Inv

LEMMA NextIsSound ==
    ASSUME Inv, [Next]_vars
    PROVE  Inv'
  <1>1. TypeOK /\ StoreSound
    BY DEF Inv
  <1>2. ASSUME NEW w \in Workers, ReadFails(w)
        PROVE  Inv'
    BY <1>2, EndKeeps DEF ReadFails
  <1>3. ASSUME NEW w \in Workers, SaveRefused(w)
        PROVE  Inv'
    <2>1. /\ pc[w] = "Save" /\ cache' = NoJob /\ Return(w, NoJob) /\ UNCHANGED floor
          /\ UNCHANGED <<store, revived>> \/ Put(found[w])
      BY <1>3 DEF SaveRefused
    <2>2. QED
      BY <2>1, SaveEndsKeeps
  <1>4. ASSUME NEW w \in Workers, SaveFails(w)
        PROVE  Inv'
    <2>1. /\ pc[w] = "Save" /\ cache' = cache /\ Return(w, NoJob) /\ UNCHANGED floor
          /\ UNCHANGED <<store, revived>> \/ Put(found[w])
      BY <1>4 DEF SaveFails
    <2>2. QED
      BY <2>1, SaveEndsKeeps
  <1>5. CASE OutsiderSaves
    BY <1>1, <1>5, OutsiderKeeps, OthersKeep DEF OutsiderSaves
  <1>6. CASE DeleteOutdated
    BY <1>1, <1>6, DeleteKeeps, OthersKeep DEF DeleteOutdated
  <1>7. CASE UNCHANGED vars
    BY <1>1, <1>7, IdleStoreIsKept, OthersKeep DEF vars
  <1>8. QED
    BY <1>2, <1>3, <1>4, <1>5, <1>6, <1>7, GetJobKeeps, ProceedKeeps, SaveJobKeeps, SaveAcknowledgedKeeps
       DEF Next

\* What a step puts into the entry is no older than what it held.
LEMMA EntryStepsForward ==
    ASSUME Inv, [Next]_vars, cache # NoJob, cache' # NoJob
    PROVE  AtLeast(cache', cache) \/ cache'.closed \/ cache'.iter \in revived'
  <1>1. TypeOK /\ StoreSound /\ cache \in Job /\ Fits(cache, store, revived)
    BY DEF Inv, TypeOK
  <1>2. cache.iter \in Nat /\ cache.version \in Nat
    BY <1>1, StoreFacts DEF Job
  <1>3. CASE cache' = cache
    BY <1>2, <1>3 DEF AtLeast
  <1>4. ASSUME NEW w \in Workers, Refresh(w), cache' # cache
        PROVE  AtLeast(cache', cache)
    <2>1. /\ pc[w] = "Refresh" /\ cache' = found[w] /\ IsUnchangedSince(known[w])
      BY <1>4 DEF Refresh
    <2>2. AtLeast(found[w], known[w])
      BY <2>1, WorkerFacts
    <2>3. QED
      BY <2>1, <2>2 DEF IsUnchangedSince, AtLeast
  <1>5. ASSUME NEW w \in Workers, Fetch(w)
        PROVE  AtLeast(cache', cache) \/ cache'.closed \/ cache'.iter \in revived'
    <2>1. cache' = Read(known[w].iter) /\ known[w].iter \in Stored /\ revived' = revived
      BY <1>1, <1>5, StoreFacts DEF Fetch
    <2>2. IsNoOlder(cache', cache, revived)
      BY <1>1, <2>1, ReadIsNoOlder
    <2>3. QED
      BY <2>1, <2>2 DEF IsNoOlder
  <1>6. ASSUME NEW w \in Workers, SaveAcknowledged(w)
        PROVE  AtLeast(cache', cache) \/ cache'.closed \/ cache'.iter \in revived'
    <2> DEFINE i == found[w].iter
               n == cache.iter
    <2>1. pc[w] = "Save" /\ Put(found[w]) /\ cache' = [found[w] EXCEPT !.version = store'[i].version]
      BY <1>6 DEF SaveAcknowledged
    <2>2. found[w] \in Job
      BY WorkerFacts
    <2>3. cache'.iter = i /\ cache'.version = store'[i].version /\ cache'.closed = found[w].closed
      BY <2>1, <2>2 DEF Job
    <2>4. /\ StoreKept /\ i \in Iterations /\ store'[i].version = store[i].version + 1
          /\ store'[i].state = IF found[w].closed THEN "Closed" ELSE "Open"
      BY <2>1, PutKeeps
    <2>5. i \in Nat /\ i > 0 /\ store[i].version \in Nat
      BY <1>1, <2>4, StoreFacts
    <2>6. CASE n < i
      BY <2>3, <2>6 DEF AtLeast
    <2>7. CASE n = i
      <3>1. cache.version <= store[i].version
        BY <1>1, <2>5, <2>7 DEF Fits
      <3>2. QED
        BY <1>2, <2>3, <2>4, <2>5, <2>7, <3>1 DEF AtLeast
    <2>8. CASE n > i
      <3>1. n \in Iterations /\ cache.version > 0
        BY <1>1, <1>2, <2>5, <2>8 DEF Fits
      <3>2. Fits(cache, store', revived') /\ store'[n].version \in Nat
        BY <1>1, <2>4, <3>1 DEF StoreKept
      <3>3. store'[n].version > 0
        BY <1>2, <2>5, <2>8, <3>1, <3>2 DEF Fits
      <3>4. store'[i].state = "Open" => i \in revived'
        BY <2>4, <2>8, <3>1, <3>3 DEF StoreKept, StoreSound, ClosedInOrder, WasOpened
      <3>5. QED
        BY <2>3, <2>4, <3>4
    <2>9. QED
      BY <1>2, <2>5, <2>6, <2>7, <2>8
  <1>7. ASSUME NEW w \in Workers, cache' # cache,
               GetJob(w) \/ Proceed(w) \/ ReadFails(w) \/ SaveJob(w)
               \/ SaveAcknowledged(w) \/ SaveRefused(w) \/ SaveFails(w)
        PROVE  Refresh(w) \/ Fetch(w) \/ SaveAcknowledged(w)
    BY <1>7 DEF GetJob, Proceed, CheckUnmoved, CheckChanged, CheckGone, FindMeta, LockEntry, FetchGone,
                FetchConflict, FindMetaAgain, ReadFails, SaveJob, SaveRefused, SaveFails
  <1>8. OutsiderSaves \/ DeleteOutdated \/ UNCHANGED vars => cache' = cache
    BY DEF OutsiderSaves, DeleteOutdated, vars
  <1>9. QED
    BY <1>3, <1>4, <1>5, <1>6, <1>7, <1>8 DEF Next

-----------------------------------------------------------------------------
(* The theorems *)

LEMMA Invariance == Spec => []Inv
  <1>1. Init => Inv
    BY InitIsSound
  <1>2. Inv /\ [Next]_vars => Inv'
    BY NextIsSound
  <1>3. QED
    BY <1>1, <1>2, PTL DEF Spec

\* The variables keep their types; in particular a cold read that is refused again and again ends
\* after its second attempt (get_job, the loop over get_job_by_meta).
THEOREM TypeCorrect == Spec => []TypeOK
  <1>1. Inv => TypeOK
    BY DEF Inv
  <1>2. QED
    BY <1>1, Invariance, PTL

\* An unfinished job get_job answers with is no older than the newest one that was stored when the
\* call began and when it last looked for metadata, on every path through the entry and for any
\* number of workers of the pool and of other instances, unless its iteration was created again
\* after its deletion.
THEOREM AnswersAreCurrent == Spec => []AnswerIsCurrent
  <1>1. Inv => AnswerIsCurrent
    <2> SUFFICES ASSUME Inv, NEW w \in Workers, hand[w] # NoJob, ~hand[w].closed
                 PROVE  AtLeast(hand[w], floor[w]) \/ hand[w].iter \in revived
      BY DEF AnswerIsCurrent
    <2>1. IsNoOlder(hand[w], floor[w], revived)
      BY WorkerFacts
    <2>2. QED
      BY <2>1 DEF IsNoOlder
  <1>2. QED
    BY <1>1, Invariance, PTL

\* No read that lost the race to a save puts its older state over the saved one: the entry moves
\* forward, to a finished iteration that is never served without asking the store, or to an
\* iteration that was created again.
THEOREM EntriesMoveForward == Spec => EntryMovesForward
  <1>1. Inv /\ [Next]_vars =>
           [cache # NoJob /\ cache' # NoJob =>
               AtLeast(cache', cache) \/ cache'.closed \/ cache'.iter \in revived']_vars
    BY EntryStepsForward
  <1>2. QED
    BY <1>1, Invariance, PTL DEF Spec, EntryMovesForward

=============================================================================
