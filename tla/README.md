# A verification project for ez-utils

ez-utils is a Go library of building blocks for services: a graceful-shutdown
coordinator, actor groups, queues and sets, encrypted strings, database, cache,
tracing and object-storage clients, logging, and small helpers.  This directory
holds TLA+ models of its stateful parts, the TLC configurations that check them
on small instances, and TLAPS proofs of the most important properties for every
value of the constants.

## 1. Inventory

| Component | State | Operations | Interacts with | Hard behaviour | What makes it correct |
|---|---|---|---|---|---|
| `signals.Handler` | stop channel, 32 lists of hooks, 32 wait groups, `mux` | SetupSignalHandler, SignalHandler, PreStop, AddFor/DoneFor/WaitFor, SafeStop | everything registers here | several shutdowns racing for `mux`, hooks in goroutines, a timer, OS signals | hooks level by level from the top, each once; work drained before the hooks below it; the process ends |
| `w.Group` | list of actors (oklog/run) | Add, Run | counts its actors at level 1 of the Handler, its last interrupt is SafeStop | interrupts and shutdowns of several groups, counting on one goroutine what another waits for | no group waits for itself, a signal always ends the process |
| `w.RingQueue` | ring of N+1 nodes, two indices, `mux` | Put, Get, Len, List, Do, Remove | – | indices read without the lock, wrap-around, relinking of nodes in Remove | a bounded FIFO queue |
| `sets.ArraySet` | array, atomic counter | Append, Reset, Include, List, full callback | callback re-enters the set | appenders past the capacity, callback that empties the set | slots handed out once, nothing lost |
| `safe.Encrypt/Decrypt` | the options, written by Encrypt | Encrypt, Decrypt, options | – | options reused over keys, two places that decide how to hash a key | round trip |
| `safe.String` | value, secret, environment | SetValue, String, UnsafeString, UpdateSecret, SetSecret, (Un)Marshal, Value/Scan | used by every client's password | order of calls, two secrets | the text can be read back |
| redis and gorm clients | connection pool, hook, entry in the collector | constructors, UnmarshalJSON, Close, Session/Redis | Handler (LevelDB), collector, tracing | opening races with shutdown, failure between two steps, reload | closed after the requests, none left open |
| tracing provider | queue of spans | NewTraceProvider, ForceFlush, Shutdown | Handler (LevelTrace) | flush must come after everything that ends spans | spans are delivered |
| `redis.ForeachSet` | SSCAN cursor | one loop | redis | pages of any length, cancellation, early stop, failures | visits every member, stops when asked to |
| object storage (fs, s3, oss) | remote objects | NewClient, Put, Get, Head, ListObject | object services, file systems | paging while others write, cancellation, three copies of path resolution | list is complete and readable, permissions round-trip |
| `log` | default logger behind a once, trace id and logger in a context | New, Set/GetDefaultLogger, trace and context loggers, records | everything logs | first uses racing with SetDefaultLogger, a two-word variable without a lock | one default logger, records complete and under their trace id |
| `sets.Set` | map from value to insertion index | Insert, Delete, Union, … | – | indices after Delete | List is in insertion order |
| `errors` | a chain or tree of errors | New, With, WithMessage, Join, Errors, IsNotFount | everything returns them | wrapping in any order, wrappers taken apart and rebuilt | status, code, cause and not-found survive |
| `capacity` | a number of bytes | parse, format, (un)marshal | flags and configuration | overflow of digits, products and sums, zero units | faithful to the text or an error; what is written can be read |
| `buffer` | prefix of a stream, remaining limit | PreReader, LimitedWriter | io | short reads and writes, errors midway | the first bytes, once and in order, up to the limit |
| `conv`, `fs`, `jwt`, `http`, `crypto`, `generator`, `tls`, `wrapper` helpers | little or none | pure functions and thin wrappers | – | numeric edges, formats | agreement with a reference definition |

Everything meets in the Handler: clients register hooks at LevelDB (10), the
trace provider at LevelTrace (5), groups count actors at level 1, requests are
counted at LevelRequest (20).  The order of these levels is the design of the
shutdown, and most of what can go wrong is a race around it.

## 2. Modules

| Module | Models | State and actions |
|---|---|---|
| `Signals` | `signals/signal.go` | One variable per field of the Handler, plus the progress of each hook, of each unit of counted work and of each goroutine inside `safeStop` (`pc`, `lvl`, `timer`). `safeStop` is cut at the points where another goroutine can be seen: asking for `mux`, closing the channel, starting the hooks of a level, joining them, waiting for the level, `exitFunc`. Waiting is that of `sync.WaitGroup` (external): Wait looks at the counter, sleeps, is woken by the Done that reaches zero, and panics (`wait_panic`) if the counter has been raised again before it runs. A `Stopper` is the signal goroutine or a caller of SafeStop; a caller's `exitFunc` may return (`Returning`). Ways for the process to end are values of `proc`. `late` is history: work added after its level was drained. Calls of Wait and WaitRequest by other goroutines than safeStop are not modelled. |
| `LevelledShutdown` | the contract of the Handler | No goroutines, locks or timers: register, begin, finish hooks at the current level, descend, complete, abort. |
| `Group` | `wrapper/run.go` | Extends `Signals`; actors are units of level-1 work. `oklog/run` is external: it starts all executes, waits for the first to return, calls the interrupts in order and waits for the rest. |
| `RingQueue` | `wrapper/queue.go` | The ring as the sequence of node values from `r.r` on. What unlocked readers can see halfway is a step of its own: the load of each index in `Get` and `Len`, every turn of the loop in `Remove`, and the second store of an index that wraps (`r.end++`, then `r.end = 0`): `start` and `end` are the indices as the holder of the lock will leave them, `StoredStart` and `StoredEnd` as they are in memory, until `StoreWrap`. `Len` mentions each index several times; the model has one load of each, because nothing separates the comparisons and the compiler keeps them in registers. `seen` and `raced` are history: the lengths during a Get, and whether another client's Get or Remove overlaps a call. `container/ring` is external. |
| `BoundedQueue` | the contract of RingQueue | A sequence with Put, Get and Remove. |
| `ArraySet` | `sets/array.go` | Scan, atomic increment, store, give-back, callback and retry of Append are separate steps of each goroutine. |
| `Encrypt`, `SafeString` | `safe/encrypt.go`, `safe/string.go` | A string is a text under seals; a seal records the algorithm of the header and the key material. The ciphers are external: a cipher accepts keys of its lengths and other key material yields noise. |
| `Clients` | `clients/redis`, `clients/gorm`, `clients/tracing` | Extends `Signals`; every client brings one hook, so clients *are* hooks. One handle (the variable a configuration is unmarshalled into) holds clients one after another; `kind` says which of the four it is. Opening is cut between connecting, creating a missing schema, connecting again, asking for the Handler, registering the hook and registering with the collector; each may fail. Spans are queued, exported or lost. Closing a handle that never held a client, which panics on the nil client (`redis.go:342`, `gorm_sqlite.go:175`), is left out. |
| `Storage` | `clients/storage` with `fs`, `s3`, `oss` | One client and its call in progress; a client has no state, so one call at a time is enough, while other programs store objects. A key is a number in the order of the key strings with the folders it lies in; a path is a key, a URL or a URL without a slash. GetObject, HeadObject and PutObject have an operator per backend that gives the possible outcomes. ListObject is one step per page or directory and one per callback, with cancellation in between; the services (pages cut anywhere, up to `MaxKeys` objects, keys of deeper folders left out when there is a delimiter) and WalkDir are external. The order in which WalkDir visits is left open. |
| `OrderedSet` | `sets.Set` of `sets/sets.go` | The map from member to index; one action per operation that changes or builds a set. A map is walked and equal indices are sorted in any order (`ListsOf`). `fresh` and `ahead` are history: which members came in one after the other with no deletion in between. |
| `Capacity` | `capacity/` | A text is a sign and terms of digits and a unit. Width of the word, base and number of units are constants; arithmetic wraps as the word does (`Word`). The float64 product that values a fraction is a constant operator, `FloatProduct`, of which only is assumed that it is at most the unit and within one byte of the exact product; the instance for TLC rounds up where `format_test.go:80` does. A program's variable is assigned, parsed into, saved and loaded. |
| `ErrorValues` | `errors/errors.go` | An error is the list of errors that `errors.As` visits; an error arises and is wrapped, annotated, joined or collected on its way up. |
| `ForeachSet` | `ForeachSet` of `clients/redis/redis.go` | One call against a server that cuts pages anywhere: SCARD, each SSCAN, each call of `f` and each end of a page are steps; `f` and the server may fail, the context may end. The call starts at any cursor. |
| `Buffers` | `buffer/` | A stream whose prefix was read ahead is copied to a limited writer; every Read and Write may be short or fail. Byte *i* of the stream is the number *i*. |
| `Logging` | `log/log.go`, `log/ext.go` | Goroutines that set, get and make the default logger, make trace and context loggers and log. `rootLogger` is an interface of two words that are stored and loaded one after the other, in the order of the instructions; the once is a lock around its function. A record is a list of pairs that runs through the loop of `extLogger.Log`; the pairs that options, `With` and the program give are constants, with any keys, `traceId` among them. The loop deletes from the slice it walks and corrects its index; the model builds the list that results. A trace id given by WithTraceId is not told apart from an issued one. |
| `Selection` | – | The elements of a sequence that lie in a set, as a recursive function: `SelectSeq` in a form that can be proved about. Used by the queues, the records and the permission texts. |
| `MCSignals`, `MCGroup`, `MCData`, `MCClients` | – | Instances for TLC. `MCData` bundles the parts that have nothing to do with the Handler or with one another: a behaviour follows one of them. |
| `*Proofs` | – | Theorems, see section 5. |

Definitions whose comment starts with "Mutant" are variants of the definition
below them with a plausible bug; each property is checked to fail under at least
one of them.

## 3. Runs

| Run | Instance | What it shows |
|---|---|---|
| `signals_safety` | 3 levels, 4 hooks (two on one level, one out of bounds, one that calls PreStop), 3 units of work (two of one level, so that one may be counted as the other ends), signal goroutine and 2 callers, one with a returning `exitFunc`, 2 signals, timers | Levels are drained in order, hooks run once and only after the channel is closed, a graceful exit has run everything, the channel is closed twice only after an `exitFunc` returned, the Wait of safeStop panics only because of work counted between the end of its level and the moment it woke up, and the Handler implements `LevelledShutdown`. |
| `signals_second_signal` (violated) | one hook that hangs | `signal.go:174` says "second signal. Exit directly.", but the channel is read once; a second signal changes nothing before the timer. |
| `group` | 2 groups with an actor each and a counted request, one group with an `exitFunc` that returns, a hook, signal goroutine, timers | Groups take only steps the Handler allows; a group in SafeStop has uncounted its own actors. A signal ends the process whatever hooks, workers and actors do; and if interrupts, hooks and counted work end, the shutdown completes without the timer or ends in a panic of Wait that a unit of work counted meanwhile has caused, although the groups and the signal goroutine each sit in a `safeStop`. |
| `group_run_waits` (violated) | one group | `run.go:53` says Run "blocks until they have all finished"; the process exits while an interrupted actor's execute is still running. |
| `ring_two_consumers` (violated) | one element, two consumers | Both pass the unlocked test, the second type assertion panics ("a concurrent … ring buffer", `queue.go:30`). |
| `ring_remove_base` (violated) | Remove of the element in `r.r` | The rest of the queue is lost (`queue.go:69`). |
| `data` | ArraySet of capacity 2 with 2 appenders, 4 values and all callbacks; keys of 16, 24, 5 and 0 bytes; a String with 3 texts, an environment with and without a secret; a ring of capacity 3 with 2 values, one producer, two consumers, one of which also calls Remove and the other Len, List and Do; storage clients of every kind with 3 keys at 3 depths, 2 buckets, pages of one object; a Set of up to 3 values, calls with up to 2; capacities in a word of 12 bits with base 12 and 3 units; errors of up to 5 nodes; redis sets of up to 4 members, pages of 1, 2, 3 and the default; streams of up to 5 bytes, prefixes and limits below, at and above them; 2 goroutines that log, one of which sets the default logger, with a bound pair named `traceId` | Slots are handed out once and nothing stored is lost; a single appender keeps values unique; `fixAlgo` never refuses a key and what is encrypted can be decrypted (`RoundTrip`), with options reused; a String and its saved copies can be read back. The ring is a bounded FIFO queue; a Get meets an empty node only if another client's Get or Remove came between its test and its lock, and answers QueueNull only if the queue was empty meanwhile or such a call overlapped; Len is exact among Puts: unless a Get or Remove overlaps, it is the length at its second load; Remove is exact as long as it does not delete the element in the node `r.r`. A listing that returns no error is complete and has no duplicates; what it reports is found again by GetObject: oss and fs return it unless the transfer fails, s3 finds it and then panics (`storage_opens`), and none answers that it does not exist; permissions come back from the metadata. List keeps the insertion order of members with no deletion in between. A text without a fraction is parsed exactly or refused, one with a fraction to within a byte per term, and a saved capacity is loaded again. WithMessage keeps status, code, cause and not-found. ForeachSet that returns nil has visited every member behind its starting cursor. A copy through PreReader and LimitedWriter moves the right bytes. One default logger is made, and none after SetDefaultLogger; a record has the pairs it was given, one caller, and first the trace id of its context: any other is one that was given. |
| `storage_opens` (violated) | the same clients | GetObject of s3 panics on every object: `FormatInt(n, 64)` (`s3.go:134`). |
| `safe_string` (violated) | secret in the environment only | String encrypts under the empty key and UnsafeString returns noise (`string.go:45`). |
| `clients` | opening and reload of each kind of client, trace provider, a request, signal goroutine and a caller, timers | No database is closed under a request, no connection is left by a graceful shutdown, spans are delivered, and clients keep to the Handler's rules. |
| `redis_foreach_stop` (violated) | sets of up to 4 members | ErrStopLoop leaves only the loop over the page; after a full page `f` is called again ("Return ErrStopLoop from f to stop early", `redis.go:350`). |
| `clients_scrape` (violated) | SQLite and MySQL, reload | The replaced client stays in the collector; every metric is sent twice with the same labels (`gorm_metrics.go:63`). |

**Bounds.** Three (clients: four) levels are enough to have a level above, at and
below a hook.  Two hooks on one level show that joining is needed, two callers
next to the signal goroutine that a third safeStop waits behind a second one.
Capacity 3 is the smallest ring in which elements wrap around while others are
deleted on both sides of the base node; two values make duplicates.  An ArraySet
of capacity 2 with two appenders lets both run past the capacity.  Three keys, the
first two in folders and the last at the top, make pages without objects before
the last object; two buckets tell a URL from a plain key.  `MaxSeals`
bounds how often UpdateSecret wraps a text, `MaxSignals` the signals sent; two
keys and none (`StringKeys`) are enough to re-key a String.  The second bucket
only ever holds the first and the last key (`SecondBucketKeys`), which suffices
to tell a result of one bucket from one of the other.
Three items with calls of two reach every collision of indices: two members and a
deletion.  Base 12 has numerals of one and of two digits, and the word is a
little wider than three units, as 63 bits are wider than five units of ten; the
texts include the last value that fits and the first that does not, in digits, in
a product and in a sum.  Five nodes hold two wrappings of a joined pair
(`MaxNodes`).  Four members are a multiple of two page sizes and not of the third
(`MaxMembers`).  `MaxTraces`, `MaxPairs` and `MaxBound` bound the trace ids issued, the
pairs of a record and the pairs bound to a logger; a logging behaviour ends with its first record, which depends
on nothing but the goroutine's context.  In
`clients`, opening and reload are interchangeable and reduced by symmetry; that
run checks no liveness.

**Deadlock** is checked in every run; a process that has ended stutters in
`Terminated`.

**Fairness.** `GFairSpec` assumes only that the scheduler runs the goroutines of
the Handler (the signal goroutine and every safeStop).  What else a liveness
property needs is its premise: `SignalStops` assumes that time passes
(`TimeoutsElapse`) and nothing of user code; `StopsGracefully` assumes that
interrupts, hooks and counted work come to an end (`ClientsEnd`) and nothing of
the executes or of the timers.  `SecondSignalExits` is checked under
`FairSpec` with hooks that may hang and within the timeout.

## 4. What the models say about the code beyond the runs

**Where a document says otherwise.**  Besides the violated runs of section 3, the
code departs from these statements.  They have no violated run of their own; the
models contain the behaviour (except for the headers of oss, which are not
modelled), and where a property of a passing run comes close, it says what it excepts.

* `sets.go:42`: a Set "preserves insertion order".  After a Delete the next member
  gets the index of the last one, and List returns the two in any order;
  `ListKeepsOrder` speaks of members with no deletion in between.
* `redis.go:349`: ForeachSet "calls f for each member".  The cursor is not looked
  at: the scan ends early at a page that is short of pageSize although the server
  has more, which is normal for SSCAN, and starts again from the beginning, calling
  `f` twice, when the last page is full.  `VisitsEveryMember` assumes full pages.
* `fs.go:161`: without recursion "only the first directory level is walked".  For a
  directory other than "." nothing is reported: the directory itself gets SkipDir.
  `ListComplete` excepts it.
* `oss.go:129`: "Content-* headers are mapped to OSS object properties".  PutObject
  fills a request with them and uploads another one without them (`oss.go:149` and
  `:169`).
* `errors.go:208`: IsNotFount recognises "404 Error values".  It does not recognise
  an `Errors` with status 404, nor, in a join, a 404 next to a wrapper with another
  status.
* `src/README.md:86`: "`errors.With` and `errors.WithMessage` keep an existing status
  and application code".  With overwrites both (`errors.go:154`); `MessageKeepsMeaning`
  is about WithMessage alone.
* `queue.go:134`: "Len reports the number of elements currently in the queue".  When
  a Get or Remove overlaps it, it may answer anything from -1 to N + 1: an index is
  incremented and wrapped in two stores, and the two indices are loaded one after
  the other.
* `queue.go:118`: Get "returns QueueNull if the queue is empty".  With two consumers
  it may do so for a queue that was never empty: one loads `start`, the other takes
  elements while Puts bring `end` around to the value loaded.

**Where no document says anything.**

* Nothing stops the timer of a finished safeStop: an `exitFunc` that returns is
  called a second time after the timeout.
* A hook that calls PreStop blocks on `mux` until the timer ends the process.
* Hooks of a level run *before* the level's work is waited for: work counted at
  LevelDB may see its database closed, work counted at LevelTrace and the actors
  of groups (level 1) lose spans ended after the flush.
* AddFor on a level that has been drained is accepted and not waited for.  AddFor
  between the end of a level's last unit and the moment its waiter runs reuses the
  wait group too early: Wait panics and ends the process (`wait_panic`).
* A callback of ArraySet that resets the set while another goroutine holds an
  index past the capacity takes the counter below -1; the next store panics.
  The zero value can not be appended; an Append whose callback makes no room
  drops the value and returns nil; two appenders may store a value twice.
* `UpdateSecret("")` drops the key and keeps the ciphertext.
* A failed CREATE SCHEMA leaves the temporary connection open.  A reload that
  fails leaves the handle nil and the old connection open until the shutdown.
  Close of a client that was never opened panics on a nil pointer (`redis.go:342`,
  `gorm_sqlite.go:175`).  A ClickHouse timeout option makes GetDSN panic on a nil map.
* HeadObject panics on every object that exists: s3 and fs in `FormatInt(n, 64)`,
  oss on a nil result.  The one of fs looks into the working directory of the
  process instead of the client's file system.
* PutObject of fs works only on a caller's file system whose OpenFile returns an
  `*os.File`: those that NewClient makes do not have one.  It truncates the file
  first and never closes it, so a copy that fails has destroyed the old object.
* The methods of oss test the path instead of the key for emptiness.
* A listing of another bucket by URL reports plain keys, which name objects of the
  client's own bucket.
* Permissions with two type characters have eleven characters and come back as
  0777.
* NewTraceProvider panics if no Handler was set up, after opening the exporter.
* A callback of RingQueue's Do or Remove that calls a method of the queue blocks
  on the mutex its own goroutine holds.
* ForeachSet spins when its context ends.
* Capacity 0 is written as an empty string, which is refused when it is read;
  from 1024 TB on String drops the upper part.  A JSON number out of range is
  reported as an error and stored as the nearest value.
* WithMessage of a joined error drops the branches without a wrapper.
  `With(status, nil, "")` panics when printed.
* `rootLogger` is read and written without a lock, and not only by
  SetDefaultLogger: NewTraceLogger on first use races with the once, may put
  together halves of two loggers, and the first record through it panics
  (`LogTorn`).  A SetDefaultLogger that comes while the once runs may be
  overwritten.
* NewTraceLogger drops the pairs of WithKeyValues as long as there is no default
  logger.  NewContextLogger with WithLogger stores a trace id that its logger
  does not carry.  A pair named `traceId` that a program binds or logs comes after
  the context's own; a record then has both.
* LimitWriterIgnoreError also hides errors of the writer below, so that the data
  has gaps.

## 5. Proofs

All theorems hold for every value of the constants that satisfies the named
assumptions of the modules; these say that levels and capacities are natural
numbers, that sets of work and appenders are finite, that special values are not
ordinary ones, in `Clients`, that LevelTrace < LevelDB, in `Capacity`, that what
the units can show fits the word and that the float64 product of a fraction and a
unit is at most the unit and within a byte of the exact one (`FloatAssumption`, which
rounding to 53 bits satisfies), and, in `Logging`, that the pairs given are pairs
(`PairAssumption`).

| Module | Theorems | Inductive invariant |
|---|---|---|
| `SignalsProofs` | Typing, HooksInOrder, DrainedBeforeHooks, GracefulExits, NoDoubleClose, NoPanicWithoutRace, FrozenRegistration, RunOnce, HandlerMeetsContract | `IInv`: the counter of a level is the *number* of its active units (needed so that a zero counter means that no work is active, and that no counter becomes negative); whoever is past `close(stopCh)` holds `mux` and vice versa; hooks above `lvl` are done, at `lvl` as far as the walk, below idle; work active above `lvl` is late, and so is work active at `lvl` once the waiter has been woken. |
| `GroupProofs` | GroupUsesHandler, GTyping, GroupNoSelfWait | `GIInv`: `IInv`, and the actors before a group's `idx` are uncounted and its safeStop begins only when `idx` has passed the list. Because the composition refines `Signals`, all theorems of `SignalsProofs` hold of it. |
| `ClientsProofs` | ClientsRefineHandler, RequestsKeepDB, ConnectionsClosed, SpansAreDelivered | `CIInv`: `IInv`; a connection is closed by the program or by a started hook, an open one is still being opened or has its hook, a finished hook has closed it; a provider that is down has an empty queue. The three results then follow from what is proved of the Handler. |
| `ContainersProofs` | RingTyping, RingOccupied, RingIsFIFO, RemoveDeletesExactly, LenCountsAmongPuts, PanicOnlyWhenRaced, NullOnlyWhenEmpty | `RInv`: exactly the nodes between the indices are occupied; within Remove, the queue is what has been kept followed by what is still to do, and the loop stands at the first of the latter. The theorems assume that Remove is not called or spares the element in `r.r` (`SparesBase`; without it `ring_remove_base` is the counterexample). `WrapInv`: end is beyond the ring in memory only while a Put that has wrapped it holds the lock, and below it only within Remove. `FreshInv`: in a Get or Len that no other Get or Remove overlaps, the `start` loaded is current, and past the test the front node stays filled. Any number of producers, consumers and readers. |
| | AppendersDisjoint, AppendedStays, ValuesUnique | `SetInv`: the counter exceeds the last slot by at least the number of goroutines that hold an index past the capacity (`Over`), and the slots up to the counter are taken or promised, so giving back an index never frees a slot in use; what was accepted is stored or was handed to the callback, and every slot up to the counter that no goroutine is about to fill is filled; and for a goroutine that appends alone, the slot it holds is the last and the slots before it do not have its value. |
| | InsertionOrder | `OrderInv`: the indices of members inserted without a deletion in between are in the order of their insertion and below the length of the set, so that the next index is above them. |
| `ValuesProofs` | EncryptDecrypt, TextStaysReadable | What is sealed opens with the key material Decrypt computes, whatever the options were, and with `fixAlgo` every key is taken; the String is readable with its effective secret unless `lost`. |
| | ParsesFaithfully, CapacityComesBack | `CapInv`: a document is what String made of the saved value, and a value that comes from a text is what ParseCapacities made of that text. The work is in the loops: digits are exact or refused (`LeadingExact`), a term is within a byte of what it denotes (`TermRounded`) and a sum within a byte per term (`SumClose`), because a number one step beyond the word always shows as a negative one (`WordOf`); and after i units the terms that String writes denote the value without what lies below the i-th largest unit (`ShownSum`). ParsesFaithfully assumes that no fraction loses a byte by being cut (`TextKept`), see below; CapacityComesBack needs no such assumption. |
| `StorageProofs` | ListingsComplete, ListedFound, ModeComesBack | `StoInv`: services have met every object of the scope up to the token and keep asking while one may lie behind it; file systems have met a file or still have a directory above it to read, and those directories never contain one another (so that nothing is met twice); what is reported exists, because objects are never removed, so that GetObject finds it: oss and fs return it, s3 panics on it, each unless the transfer fails. ModeComesBack needs only that a GetObject that succeeded names an object (`GotObject`); its work is in the texts: a type written with at most one character gives a text of nine or ten letters (`TextShape`), whose last nine spell the bits (`TextComesBack`). |
| `DataProofs` | ForeachVisitsAll, OneDefaultLogger, RecordsExact, CopiesAll, MessageKeeps | `ScanInv`: f has been called for the members from the starting cursor to the cursor and, within a page, before the next one, and a page that ends the scan reaches the end of the set. `LogInv`: one goroutine is inside the once and only there the default is made; a logger set before the first use is seen by it; every data word is that of a logger that was made or set. `CopyInv`: the prefix is what was read first and the stream is read only behind it, limit and sink add up to the limit given, and sink and chunk are consecutive stretches of the stream unless an ignored failure of the writer lies between them. `CtxInv`: a logger made by New has its caller first and, unless it was given to the context, the context's trace id before any other, which the program must have given; `Turned` is the invariant of the loop in `extLogger.Log`: what is kept of each key is what has been met of it so far, except that the first caller holds the last value and printed values are set aside. `ErrInv`: an error is a list that reads as a tree (`IsTree`: the sizes nest), so that what WithMessage takes from below a wrapper is a chain again and the search of IsNotFount ends at the same 404. |
| `SelectionProofs` | lemmas on `Select` | Induction over the length of a sequence (below). |

`FrozenRegistration` (no hook is registered while a shutdown walks the hooks) is
proved and not checked separately: it is a consequence of the contract.

**Induction over data.** What a recursive function computes for a sequence of any
length is proved from the fact that a non-empty set of natural numbers has a least
element (`LeastNatural`): the least length at which a claim fails can not be 0 and
has a predecessor at which it holds (`UpTo`).  The claim is given as a set of
numbers, so no operator has to be passed to a theorem.  This carries `Select`
(nothing else is selected, a subset of it is selected again, and appending adds the
last element), the loop over the pairs of a record, the chain of wrappers, and the
loops over digits, terms and units of a capacity.

Only model-checked: liveness (`SignalStops`, `StopsGracefully`), which the prover
does not cover, and, with it, what fairness gives; and the violated properties.

`ParsesFaithfully` has a hypothesis (`TextKept`) because `ParseFaithful` need not hold of
every text: `leadingFraction` skips the digits of a fraction that no longer fit the
word, and 2^-40 TB, one byte, needs forty of them.  The hypothesis asks that the
fractions fit the word, or that what is skipped is less than what is missing to the
next byte.  The texts of the `data` run satisfy it, the fraction 9999 that does not
fit a word of 12 bits among them.

## 6. Not modelled, and what is left

Not modelled:

* `log`: writers and rotation, formats, levels and flags are configuration and
  wording; the dynamic logger is reached from tests only; tee, nop and adapter
  forward.
* `fs.TempFS` forwards to `os` below a temporary directory.  `sets.IPNet` is glue
  around `net.ParseCIDR`.
* `conv`, `jwt`, `http`, `tls`, `crypto`, `generator` and the generic helpers of
  `wrapper` keep no state and have one step: conversions of formats and
  delegation to libraries (JWT, TLS, UUID, templates), which a model would repeat
  line by line.
* The options and headers of the storage clients and exporters are data that no
  property here tells apart.

Proofs worth adding: every safety property that a passing run checks has its
theorem.  What is left is a bound on what a fraction that is cut may lose (at most
one byte with the real word and units), which would replace `TextKept`.
