# A verification project for ml-cache

TLA+ models of the cache cluster in this repository, their model checking with
TLC and proofs about them with TLAPS.  Definitions are translated from the Go
sources; `PROJECT.json` names, for each of them, the lines it stands for.

    tlc -config CacheLRU.cfg MCReplay     # check one instance
    tlapm CacheProofs.tla                 # check the proofs of one module

## 1. The system

A process runs four nodes and a consistent-hash ring over them.  Each node is a
byte-limited in-memory cache with an eviction policy, a write-ahead log and a
Badger store.

| Part | State | Operations | Talks to |
|---|---|---|---|
| LRU (`eviction/lru.go`) | list, map | OnGet, OnSet, OnDelete, ChooseEviction, each under its mutex | called by Cache, MLPolicy |
| LFU (`eviction/lfu.go`) | node map, list per frequency, cached minimum | the same | called by Cache, MLPolicy |
| MLPolicy (`eviction/ml_policy.go`) | base policy, `lastCall`, `consecutiveErr`, `circuitOpenTil`, no lock | hooks pass through; GetMLPrediction, ChooseEviction, recordFailure | ML service (HTTP), base policy, cache (state provider) |
| Cache (`cache/cache.go`) | items, `used`, `recovering`, token channel; package variables `evictKey`, `ok` | Get, SetWithTTL, Delete, evictToMakeSpace, LoadFromWAL, TTL sweeper, ML worker, snapshot worker | policy, WAL, Badger, node's callback |
| WAL (`pkg/wal/wal.go`) | file, buffered writer | Append, ReadAll | file system |
| Node (`cluster/node.go`) | cache, counters | pass-through calls, TopNHotKeys, MigrateHotKey, TriggerMLEviction | cache, other nodes |
| Cluster (`cluster/cluster.go`) | sorted points, `keyOverrides` | routed Set/Get/Delete, hot-key replication, SetKeyOverride | nodes |
| Program (`main_cluster.go`) | - | wiring, the background worker that migrates, load simulation, metrics | cluster |
| ML service and scripts (`ml_files/`) | a trained model | `/predict` | - |

What makes the parts correct, and where it is hard:

* **Policies.** The list and map of LRU, and the map, buckets and minimum of
  LFU, describe one set of keys after every order of calls, and the victim is
  the key the algorithm promises.
* **Cache.** `writeMu` serializes Sets and Deletes end to end, but a Set is a
  row of separate critical sections of `mu`; Gets, the sweeper's and the
  worker's reads, time and crashes fall between them.  The counter stays within
  the capacity, an eviction loop that needs room finds a cached victim, the
  loop ends, the policy never loses track of the map.  The log is ahead of the
  memory; replay, which goes through the same evicting Set, brings nothing
  deleted back; Badger covers the cache.
* **Log.** What `Append` returned no error for is read back, in its place and as
  it was given, whatever the failed and torn writes around it left in the file.
* **ML policy.** The cooldown and the circuit breaker, whose fields two
  goroutines of a node use without a lock.
* **Cluster.** Routing, replication and migration are sequences of steps at
  several nodes with no lock across them.  Clients read the latest value or
  miss, replicas do not spread, a migrated key is neither lost nor misrouted.

`PROJECT.json` lists the hazards one by one, each with its line and the
properties that would catch it.

## 2. Modules

| Module | Models | State and actions |
|---|---|---|
| `KeyList` | `container/list` as used here (external) | operators on sequences of keys |
| `LRU`, `LFU` | `lru.go`, `lfu.go` | one operator per method: each holds the policy's mutex throughout |
| `Policies` | one policy of each kind, driven by any sequence of calls | `lru`, `lfu` and the latest call of each, with the victim it named |
| `RecencyOrder`, `LeastFrequent` | what README.md:80-81 promises of the two | abstract: a recency relation; a use count |
| `EvictionPolicy` | the interface and the four variants of `createPolicyVariants` | `Base` and `ML` select the variant |
| `Cache` | a node: `cache.go` with its log and Badger | see below |
| `CacheProperties`, `MCCache` | its properties; sizes for TLC | |
| `CacheReplay`, `MCReplay` | what a replay makes of the log; the same for TLC | adds `exhausted`, the replayed entries that ran out of evictions |
| `NodeCache` | what callers, the cluster above all, take a node for | abstract: a map that may forget, the call under way, whether it has taken effect |
| `Wal`, `MCWal` | `wal.go` as text: `Append`, `ReadAll`; texts for TLC | complete lines, the text after them, the sticky error; an append, a failing or torn append, a reopening |
| `EntryLog` | the log as a sequence of entries | abstract: sure entries, a doubtful end |
| `MLPolicy` | GetMLPrediction and recordFailure | fields, clock, one program counter per calling goroutine; each field access is a step |
| `MLPolicyHistory` | its properties for racing goroutines | adds when each goroutine last sent a request, and the failures recorded one after the other |
| `MLPolicyPromise` | the circuit breaker as README.md:118 has it | adds the failures that came back |
| `HashRing` | the ring of points: what a search of it means, and the sorted slice and index arithmetic that compute it | operators; `PointHash`, `KeyHash` stand for crc32 |
| `Cluster` | `cluster.go`, `node.go`, the worker of `main_cluster.go` | see below |
| `ClusterProperties`, `MCCluster` | its properties; a ring for TLC | |
| `FoldLemmas`, `PolicyLemmas` | lemmas about sums over finite sets; about `KeyList`, `LRU`, `LFU` | |
| `PolicyProofs` | theorems about `Policies`, both refinements | |
| `CacheProofs` | `Cache`: types, its refinement of `NodeCache`, counter, policy, evictions, termination | |
| `CacheLogProofs` | `Cache` and `CacheReplay`: log, recovery, expiry, Badger | |
| `WalProofs` | `Wal`: its refinement of `EntryLog`, and for which texts it holds | |
| `ClusterProofs` | theorems about `Cluster`, without and with migration | |
| `MLPolicyProofs` | theorems about `MLPolicy` and `MLPolicyHistory` | |

**Cache.** `pc` says where the holder of `writeMu` stands (`idle`: nobody holds
it), `op` which call it is, `ev` and `del` are the locals of `evictToMakeSpace`
and `deleteLocked`.  A Set is `SetWithTTL` (lock, log, size check), `Reserve`
(first critical section), the loop `ChooseVictim`, `Attempt`, `Verify`,
`LogDelete`, `Unlink`, `Purge` when there is no room, `Insert` (second critical
section), `Store` (Badger), `Trigger` (proactive eviction or a token for the ML
worker), `Return`.  Delete, the sweeper and the ML worker run the same
`LogDelete`, `Unlink`, `Purge`; so does the loader for replayed entries, with
appends suppressed and errors ignored as in the code.  Keys are model values,
values differ by size only, an expiry is `never`, `live` or `expired`.  The ML
worker's prediction is any key of the snapshot it sent or none.  `crashes`
restarts the process with the log and Badger kept.  Failures of the log are
sticky, as those of Go's `bufio.Writer` are.  `MaxEvictions` and `ChanCap` are
the code's 10 and 100.

`evictKey` and `ok` are variables of the package.  With `Neighbors` each read
of them in the loop may see what another node of the process wrote since, a key
of this node or none of its keys; while the log is replayed no other node
evicts, since the nodes are built one after the other.  With `Shutdown`,
`StopWorkers` closes Badger and `CloseLog` the log at any moment, while calls
and workers run on.

`Cache` takes its log as a sequence of entries with clean ends.  `Wal` shows
what lies under that: a text, cut short at any character by a failure or by a
crash of the process, then reopened.  A file is never synced, so a power failure
is outside both.  A character of the model stands for one of the text; the name
of an operation is one character.

**Cluster.** A node's cache is taken at its interface, the one `Cache` is shown
to implement: a map whose calls are atomic, that may drop keys on its own and
may fail.  A client call is routed
(`Call`) and carried out later (`Arrive`).  A replication is `StartCopy`,
`CopyRead`, `CopyCheck`, `CopyWrite`; a migration `Survey`, `MovePick`,
`MoveRead`, `MoveDelete`, `MoveSet`, `SetKeyOverride`.  A member of `Movers`
is a goroutine that migrates: a node stands for its background worker, which
migrates one key after a `Survey`, anything else for a caller of
`AdaptiveRebalance`, which migrates up to five times on what it saw once; a
survey reads the usage of all nodes at one instant.  Every key takes one unit
of a node's capacity, so key counts stand for usage in the worker's tests; any
key with a Frequency above 1 may be among the hottest.  `latest` is a history
variable: what the last client write that took effect left; `dropped` is
another: the keys a migration took out and then failed to store.  `refused`
holds the Sets that are in a log although they failed; a `Restart`, which
rebuilds each cache from its log and forgets the overrides, may revive any of
them.

Definitions whose comment says *Mutant* are not part of a specification: each
is a changed form of the definition that follows it, kept to show that the
properties can fail.

## 3. What the runs check

| Run (cfg) | Shows | Bounds |
|---|---|---|
| `policies` (`Policies`) | ListMatchesMap, BucketsMatchKeys, MinIsExact; refines RecencyOrder and LeastFrequent | 3 keys, LFU frequencies to 4: buckets that empty below, at and above the minimum |
| `cache_lru` (`CacheLRU`) | UsedNeverOverstates, NoResurrection, RebuiltFromLatest, BadgerCovers, WriteAhead, EvictsOnlyForWant, SweepsExpiredOrReplaced, CapEndsWrites; implements NodeCache | neighbors, 2 keys, small, half-size and oversize values, TTLs, 3 log entries, 1 crash |
| `cache_ml_faults` (`CacheMLFaults`) | TypeOK, UsedWithinCapacity, PolicyTracksItems, EvictionFindsVictim, NeverBlocks, WriteAhead, FailingWritesEnd; implements NodeCache | ML over LFU, log and Badger may fail at each write, shutdown, 1 crash, a full token channel |
| `cache_live` (`CacheLive`) | WritesTerminate, ExpiredAreSwept | TTLs, a failing log, a crash, writers that compete with the sweeper |
| `wal` (`WalFaults`) | ExactWhenPlain; implements EntryLog | 3 appends, values with a newline and with a trailing backslash, tears at every character, over-long lines |
| `ml_policy` (`MLPolicyRaces`) | TypeOK, CountBelowThreshold, OwnCallsSpaced, SeriesTrips | the writer and the ML worker race, 6 ticks: a trip, its end, and requests after it |
| `replication` (`ClusterReplication`) | RoutedCopyLatest, CopiesWhereSliceSays, TwoCopies | 3 nodes, 2 keys, 2 clients, a replication, evictions, failing caches, 1 refused Set at a time, a restart |
| `migration` (`ClusterMigration`) | TypeOK, NothingLost | 3 nodes, a worker and a rebalancer, a client, failing caches, 1 refused Set, a restart, 1 key |

The capacity (4 bytes, values of 1, 2 and 3) is the smallest in which an
overwrite needs an eviction, an eviction frees too little, and half and three
quarters of the capacity fall between two fillings.  Two keys let a key evict
itself or the other, and a proactive loop evict both.  The log bound
`MaxLog` stops clients, not recovery or workers, so everything in flight runs to
its end, and replay after a crash covers the whole log.  `MaxFreq` stops Gets of
an LFU key.  The ring has three nodes with two points each: one key wraps around
its end and has its neighbor elsewhere, the other has its neighbor at its owner.
A worker and a rebalancer are what it takes for a key to be moved away and back,
or on to the third node, while the first move is still under way; replications
only add copies, so `migration` leaves them out.  With failures a second restart
is not explored: it may revive another choice of refused Sets than the first,
which `refused` does not record.  `cache_lru` checks safety only and uses the
symmetry of its keys.  In `wal` three appends let a torn end be joined by a
whole line, be torn again, and follow a reopening; `MaxLine` stands for the
scanner's 64 KB and is passed by a joined line, after which the process cannot
start again.  In `ml_policy` the cooldown is two ticks and the circuit stays
open for three, so that a request can be stamped a tick late and the circuit
outlasts the cooldown; the threshold is the code's 3.  With the two keys of
`cache_lru` two evictions empty the cache, so no replayed Set runs out of them:
the run shows RebuiltFromLatest with its exemption unused, and what it says of
a node with more keys than evictions is the theorem's.  `wal` is the one run in
which the system may stop, so deadlock is checked in all others.

Runs that end in a violation each refute a sentence of the repository:

| Run | Sentence | What the trace shows |
|---|---|---|
| `Overshoot` | cache.go:87 "to prevent capacity overshoot" | a key evicted during its own overwrite is subtracted twice; later Sets fill the cache past its capacity |
| `LogMemory` | README.md:134 replay rebuilds the in-memory state | the same key is logged `set`, `delete` and then inserted: it is lost at a restart |
| `MLPolicyBreaker` | README.md:118 open after 3 failures | an increment is lost between two callers |
| `ClusterMisrouted` | README.md:144 | overrides of two moves recorded in the opposite order |

The models show further places where the code and the documents part, which no
run checks:

* LRU and LFU evict proactively only above three quarters of the capacity, not
  at half (README.md:88, cache.go:475 and :482): the bytes above half are given
  to the loop as extra space, and it stops once they fit a second time.
  EvictsOnlyForWant states the other direction, that no proactive eviction takes
  an item at half or below.
* Two goroutines may pass the cooldown test together (README.md:117: one call
  per 100 ms and policy instance).  OwnCallsSpaced states what is left, about one
  call per goroutine.
* Replies without a prediction never open the circuit (README.md:99).
* A Set that was refused is in the log and may succeed at a replay.  The ML
  worker deletes on a token whose reason has gone, and a key that was set anew
  since its snapshot.
* A read between a migration's Delete and its override misses (README.md:323),
  and what a client sets between the migration's Get and its Delete is lost.  A
  migration to a node that has an old replica makes that replica the copy
  clients read (README.md:144).
* The race on `evictKey` (README.md:316) takes from a node what
  PolicyTracksItems, EvictionFindsVictim and FailingWritesEnd say of one that is
  alone in its process, and none of the properties of `cache_lru`, CapEndsWrites
  and EvictsOnlyForWant among them.
* A set entry cut after its second tab is replayed with an empty value
  (README.md:328); a value with a tab, or with a backslash before an "n", does
  not read back as itself (wal.go:47); one line of 64 KB makes a log unreadable
  (wal.go:65).

The models are wider than the code in two places: `TriggerMLEviction` lacks the
two seconds that a node leaves between two of them (node.go:206), and
`AdaptiveRebalance` the test that the skewed node uses more than 0.7 of its
capacity (cluster.go:266), with a fresh count for each skewed node.

**Fairness.** Only `cache_live` needs it.  Weak fairness of
`Writer`: the goroutine that holds `writeMu` runs on.  Weak fairness of the
replay: the loader is the only goroutine then.  Weak fairness of `SweepCollect`:
a ticker that never stops.  Strong fairness of `SweepDelete`: the sweeper waits
for `writeMu`, which others may take again and again, and a `sync.Mutex` hands
itself to a waiter of a millisecond.  Nothing is assumed of clients, of the ML
service or of time.

## 4. What is proved

All theorems hold for every value of the constants allowed by the named
assumptions (sizes and capacity are natural numbers, the capacity and the
eviction cap positive, sentinels are no keys or values, the ring has nodes,
points and no two points of one hash).

* **Policies** (in `PolicyProofs`: `LRUListSafe`, `LFUBucketsSafe`, `LFUMinSafe`): consistency is
  inductive by itself.  The lemmas say that removing, pushing and moving a key
  keeps a list that links each key of a set once (`Links`).
  `LRURefines` and `LFURefines` show each call to be a step of the abstract
  specification.
* **Cache types** (`TypeSafe`): `TypeOK` is not inductive; `Typed` adds that
  the policy is consistent and knows only cached keys (`Policed`), what the call
  in flight works on (`Calls`), and what the worker will delete (`Others`).
* **Counter, policy, victims** (`CounterSafe`, `CounterHonest`, `PolicySafe`,
  `VictimSafe`, `EvictionWanted`): the invariant `Sound` adds `Room` (what was
  checked before `insert` still fits, and a proactive loop wants no more than
  what half of the capacity leaves), `Seeking` (a victim is sought and deleted
  only for want of room), `Tracked` (items and policy agree while the log works
  and, once it is broken, as long as the call in flight has got past it:
  `Underway`), and `Ledger`.  `Ledger` says that some additive tally of the item
  map weighs at least `used`, leaving out the key being overwritten while its
  bytes are given back: without it nothing rules out that the loop needs room in
  an empty cache.  A tally can be carried from step to step where the sum
  `Bytes`, a fold in an order of `CHOOSE`, cannot; `FoldLemmas` shows that over a
  finite set the two are equal, which gives `CounterHonest`.  `CounterSafe`,
  `CounterHonest` and `EvictionWanted` hold with neighbors too.  `PolicySafe` and
  `VictimSafe` say what they say of a node whose loop reads what it wrote
  (`Alone`: no neighbors, or during recovery).
* **Termination** (`FailingWritesBounded`, `CapBoundsWrites`): the safety half
  of `WritesTerminate`, with the bound that liveness does not give.  `Steps`
  measures what a call still has to do: six steps a round of the loop, at most
  two loops a Set.  Every step of the holder of `writeMu` makes it smaller and
  no step of anyone else makes it larger (`WriterAdvances`, `OtherSteps`), if
  the rounds left are counted by something the loop uses up.  Two things can
  do that.  A loop that reads what it wrote tries no key twice, so the keys
  untried bound it whatever fails (`Trying`: past `Attempt` at least one key has
  been tried).  While nothing fails each round deletes, so the evictions left
  bound it whichever key a neighbor put into `evictKey` (`Capped`).  With
  neighbors and failures together neither is used up, since `attempted` may be
  given another key than the one tested, and no bound is claimed.
* **Log** (`WriteAheadSafe`, `RecoverySafe`, `BadgerSafe`): `Ahead` (the entry
  of what the call in flight will do is logged), `Replaying` (in recovery the
  call in flight is the entry replayed last), `Covered`.
* **Recovery** (`RebuildSafe`): `Rebuilding` says that every cached key but the
  one whose entry is being replayed (`Settling`) is what its entries so far have
  made of it (`Accounted`).  The step that could break it is a replayed Set that
  fails after it was to replace an item: the old item stays.  It fails in two
  ways only.  The value is larger than the capacity, or the loop has made its
  ten evictions and still lacks room, which `exhausted` remembers: that a loop
  which lacks room always finds another victim is `Seeking` of `Sound`, as a
  replay is alone in its process and the log it reads is not broken.  Any number
  of keys is allowed, and any of them may be larger than what ten evictions
  free.
* **Expiry** (`SweepSafe`): `Ticks` says that an item with a TTL stems from an
  entry with one, and that a value on its way in behind such an item, or behind
  a collected key, was logged after that entry.  Assumes TTLs of whole seconds:
  a shorter one is logged as none (cache.go:174), and the statement is false of
  it.
* **Interface** (`NodeCacheRefined`): every step of `Cache` is one of
  `NodeCache` or none, under `Content`, `Request` and `CallPhase`.  `Typed` is
  strengthened by `Staged`: a proactive loop runs for a Set that has taken
  effect, a Delete removes the key its caller named.
* **The log as text** (`EntryLogKept`, `ReadsBackExactly`, `ExactForPlainOnly`, in
  `WalProofs`): over any characters and texts of any length.  The invariant
  `WalTyped` is small, a file of lines with the start of one at most behind them;
  the work is in the operators.  `SplitN` of a part, a separator and a rest is
  that part and the parts of the rest (`SplitConcat`); `Unescape` undoes
  `Escape` where the value has no backslash before an "n" (`UnescapeEscape`); so
  a line has the four fields it was made of and reads as its entry
  (`LineReadsBack`), a write that stops before its newline changes no line
  (`WrittenPart`) and one that does not completes exactly one (`WrittenLine`).
  `EntryLogKept` assumes `Plain` of the keys and values: the code keeps the
  promise for no others, which `ReadsBackExactly` shows for a single Set, since
  every line, whoever wrote it, reads as plain entries only (`ReadsPlain`).
* **ML policy** (`FieldsTyped`, `CounterReset`, `CooldownSafe`, `BreakerSafe`,
  all for any number of goroutines): `Timed` adds to the types that no stamp is
  ahead of the clock, and makes `CountBelowThreshold` inductive.  `Spacing` says
  that a request went out at most `lag` after what `lastCall` shows, whoever
  wrote it last, and that a goroutine about to stamp has read a time a cooldown
  after its own last request, less `lag`.  `Counted` says that a series of
  failures has one goroutine record at a time, and that the field has each of
  them or is about to get it; `Opened` that the circuit is open as long as no
  request is due, unless a goroutine is about to open it.
* **Cluster without migration** (`ReplicasHidden`, `NoCascade`, under
  `Movers = {}`): `Hidden` says that a key is only at its owner and at the node
  of the next point (`Placed`), the owner has the latest value, calls go to
  owners, and copies go from a home to another node.
* **The ring as a slice** (`SlicePlaces`, under `Movers = {}`): `Hidden` speaks
  of points and their order; the code searches a sorted slice by index and
  wraps it twice (cluster.go:102, 225).  A sorted slice of the points exists
  (`SlicesExist`, from a smallest set of points that has none, so the property
  is not vacuous), and on any such slice the search and the index after it give
  `Owner` and `Neighbor` (`SliceIsRing`), also past the last point and with a
  single point.
* **Cluster with migration** (`ClusterTyped`, `MigrationSafe`): `Sound` of
  `ClusterProofs` is `TypeOK` with what each call, replication and migration
  works on and what a survey counted: the usage is a fold, so its bounds come
  from `FoldLemmas`.  `MigrationSafe` assumes `~Evictions`, as a cache that may
  drop keys by itself loses any of them.

Sums over a finite set are not proved by an induction theorem, which takes an
operator as a parameter, but from a smallest counterexample (`SmallestSubset`),
whose existence is a fact about a set.  In the same way a recursive function of
`Wal` is shown to exist: there is no least argument at which it could fail to.

Only model-checked: `WritesTerminate` and `ExpiredAreSwept`, liveness under
fairness, and `NeverBlocks`, which is about ENABLED; both are out of the
prover's reach.  What of the first can be proved,
that the holder of `writeMu` is a bounded number of its own steps from
releasing it, is under Termination; that it takes them is the fairness.

## 5. Not modelled

* `MLPolicy.SetEnabled` and its callbacks: nothing calls the first, the others
  count.  `Cache.ChooseEviction`, which reads only and has no caller.
* Metrics, the statistics of a node and the access log: written, and read back
  by nothing in the program.
* The HTTP endpoints, the load simulation and the wiring of `main_cluster.go`:
  input and output around the calls the models start from.
* The Python service and its training scripts: a prediction is any key that was
  sent, none, or an error.  The deployment files.
* Power failures, which lose what the file system holds back; torn log ends in
  `Cache` and `Cluster`, which start from clean ones (`Wal` bounds what a torn
  end costs); TTLs under a second, which no caller in the program uses (the
  models have them, the runs do not).

## 6. Plan

1. Done: the policies and their refinements; the cache node with workers,
   faults, shutdown, neighbors, crashes and recovery, and its refinement of
   `NodeCache`; the log as text and its refinement of `EntryLog`; the ML policy;
   the cluster with replication, migration and rebalancing.
2. Done: theorems for every safety property and every refinement the passing
   runs check, except NeverBlocks (ENABLED).
3. Done: the safety half of `WritesTerminate`, with the bound on the steps of a
   write; the search of the sorted slice of points.
