# A TLA+ model of Walera

Walera turns PostgreSQL's logical replication stream into Server-Sent Events:
a client subscribes to a row (`/sse/v1/items/42`) or to a table (`/sse/v1/items/all`)
and receives, for every committed transaction that concerns it, one frame with
the changes an auth backend lets it see. This directory holds a TLA+ model of
the program, the TLC runs that check it on small instances, and proofs, checked
by TLAPS, of its main safety properties for every value of the parameters.

Paths such as `router/router.go` are relative to `src/internal/`.

## 1. The system and where it is hard

| Component | State it keeps | Operations | Talks to |
| --- | --- | --- | --- |
| WAL reader (`wal/reader.go`, `wal/slot.go`) | last commit LSN (global atomic), acknowledged LSN, the connection | receive loop, keepalive, `deliver`, reconnect with backoff | Postgres; `txCh` to the router |
| WAL decoder (`wal/decode.go`, `relation.go`, `mapper.go`) | the transaction being built, the relation cache | Begin, Relation, Insert, Update, Delete, Commit; values and arrays from text | called by the reader |
| Router (`router/`) | two indexes under locks, `closed`; per subscriber: reason, context | Register, Deregister, Ingest, dispatchEvent, Send, Drop, Shutdown | `txCh`; each subscriber's queue; the grant |
| Stream loop (`sse/stream.go`) | bounded queue, frames in hand | register, prelude, batch, write, heartbeat, finish | router, client |
| Handshake (`sse/handler.go`, `sse/auth.go`) | what it acquired | routes, limits, authentication, table check | limits, auth client |
| Limits (`limits/limits.go`) | semaphore channel, one atomic counter per user | acquire, release | handshake |
| Refresh (`auth/subscriber.go`) | two atomic pointers to grants, their LSNs | ticker, call with retries, swap, `FilterWithLSN` | auth backend, router, Drop |
| Grant (`auth/map.go`) | table -> columns | Filter, parse | router |
| Encoder (`sse/encoder.go`) | none | Encode with a size cap | router, stream loop |
| Lifecycle (`app/lifecycle.go`, `runnables.go`, `cmd/cdc-sse/main.go`) | root context, signals, exit status, two timers | Run, the shutdown wave, the drain, forced exit | everything |
| Startup checks (`app/bootstrap.go`, `prepare_db.go`) | none of their own: the publication is in the database | settings, role, look up, create and check the publication | Postgres, other instances |
| Readiness (`health/readyz.go`) | cached state of the last probe | probe every 5 s | reader; `/readyz` |
| Configuration, CORS, metrics | configuration, counters | | |

Four kinds of goroutine share this state: the reader, the router, one handler
and one refresh goroutine per stream, and the shutdown sequence. What is hard:

- *five parties may drop one stream at once* (router, refresh, handler,
  Register, Shutdown); the client must be told the first reason;
- *Register races Shutdown*, which looks at the two indexes at two moments;
- *a stream's start position is read before an auth call*, long before it is
  registered; nothing committed after the client sees the response may be
  missed, nothing may come twice;
- *queues have limits*: a full queue, an oversize transaction or a write that
  fails in the middle must end the stream and never leave a hole in it;
- *the router filters with the grant the refresh goroutine is replacing*, change
  by change, without a lock;
- *the per-user counter is incremented before it is compared*;
- *shutdown drains a channel* that the reader must close while the router may
  still be taking from it;
- *routing works on concatenated keys* and on what the decoder made of a row;
- *what the reader acknowledges the server forgets*: keepalives, deadlines and
  reconnects arrive in the middle of transactions;
- *a position means two things*, a record's start after a commit and the slot's
  consistent point after a reconnect, and both are compared with commit LSNs;
- *a table may change its shape or lose its key* while its rows are streamed;
- *several instances start at once* against a database without the publication,
  and anything may hang while one of them stops.

`PROJECT.json`, "hazards", lists them with their lines and the properties that
answer them.

## 2. Modules

| Module | Models | Proofs |
| --- | --- | --- |
| `Broadcaster` (`MCBroadcaster`) | the delivery pipeline: reader position, `txCh`, router, streams, Drop, shutdown | `BroadcasterProofs`, `DeliveryProofs` |
| `Routing` (`MCRouting`) | what one subscriber is sent of one transaction: decoder, index keys, grant filter, multi-root guard, caps, encoder | `RoutingProofs` |
| `DeliveryContract` | abstract: what a client may rely on about a stream; `Broadcaster` implements it (`KeepsContract`) | `DeliveryProofs` |
| `WalReader` (`MCWalReader`) | the reader against a walsender: connections, slots, messages, relation cache, acknowledgements, `deliver` | `WalReaderProofs` |
| `CommitFeed` | abstract: what the router may rely on about `txCh`; `WalReader` implements it (`FeedSpec`) | `WalReaderProofs` |
| `Admission` | limits and handshake under concurrency | `AdmissionProofs` |
| `Refresh` | the refresh goroutine against the router's filter calls | `RefreshProofs` |
| `Lifecycle` | one process from main to exit | `LifecycleProofs` |
| `ArrayText` | the array parser against PostgreSQL's `array_out` | `ArrayTextProofs` |

`Broadcaster` abstracts a transaction to what the router decides from it (which
subscribers each change hits; per subscriber "silent", "large" or "frame");
`Routing` is where that decision is computed. `Refresh` opens up the one thing
`Routing` takes as given, that a subscriber's grant is a fixed function, and the
`AuthDrop` action of `Broadcaster` is all of `Refresh` that the pipeline can
see. `Admission` covers the part of a request before `Register`. `WalReader` is
the loop behind `ReadCommit`, `Deliver`, `Reconnect` and `ReaderStop` of
`Broadcaster`, and `CommitFeed` is what those four actions assume of it: whole
transactions, in commit order, each once, a gap only with a new slot. In
`Lifecycle` the reader is up, down or stopped and a stream open, told or gone:
what happens inside them is the business of the other modules.

### Broadcaster

One variable group per goroutine. `wal` is Postgres' log; the position in it is
the LSN. `currentLSN` and `pending` are the reader, `txCh` the channel, `rpc cur
chg eligible target` the router inside `routeTx`, `registered` the indexes,
`closed spc snap victim` the shutdown sequence, `hpc hwhy startLSN queue batch`
each handler, and `reason done` the two halves of `Subscriber.Drop`. `wire`,
`farewell`, `asked`, `promise` and `lost` are history variables for the
properties.

The atomic steps are those of the code. `mergeMatches` looks the indexes up once
per change, so a stream can register between two changes. `Drop` is two steps
(store the reason, cancel) under a `sync.Once`: a second caller waits until the
first is through, which is why a drop of the router is `RouterDrop` and
`RouterDropReturn`. `Register` is add, look at `closed`, perhaps drop. A batch is
taken frame by frame, then `Done` is checked, then it is written, whole or a
prefix before the error. A `select` with several ready cases is a choice. A
heartbeat that succeeds changes nothing and has no action. A reader that waits
out its backoff is one that takes no step; `Reconnect` is the moment the new slot
exists. `HTTPServer.Shutdown` is not a step: the wave waits for it at most 9 s
and then goes on, so the drain may begin with streams still open, which the model
always allows.

### Routing

The state is the transaction in `txBuilder`; every prefix is a transaction that
may commit, so an invariant about `dispatchEvent(sub)` is about every
transaction. Names and keys are sequences of tokens, because the indexes are
keyed with concatenations that can collide (table `t:a` key `1`, table `t` key
`a:1`). A row image is the set of columns it carries; of the values only what
`mapValue` makes of them is kept: fine, refused, or a float NaN. A delete maps no
values and cannot be refused for one. `written` is what the writer did, `changes`
what the builder has of it; the properties speak of `written`.

### Admission

One goroutine per request with the program counter of `runHandshake` and of the
deferred release. `AcquirePerUser` is two steps, because the increment of a
refused request is visible to others until it is undone.

### Refresh

Grants are generations. `swapMap` is three steps (read the LSN, store the
previous map, store the new one) and `FilterWithLSN` one or two loads, once per
change of a transaction. The backend grants, denies or is down and may change its
mind at any time. The position (`lsn`, `CurrentLSN` in the code) moves with each
commit and, at a reconnect, to the consistent point of the new slot
(`bootstrapSlot`); a commit may still begin exactly there. `points`, `readUnder`
and `copied` are history: those points, and per transaction the grant in force and
the refreshes already stamped when it was read. `attemptFailed` has no action: `OpenSession` returns no error
of another kind than the four that are handled, so that branch is dead.

### DeliveryContract

Per stream a phase, the position it starts after, the frames sent and the
terminal frame; no reader, router, queue, drop or shutdown. Frames may be sent
only while the stream is open, in commit order, each once, and only if nothing
that concerns the stream is missing in front of one. `Broadcaster!Contract` is the
refinement: `phase` is read off the handler's program counter, `after` is the
larger of the promise and the client's `since_lsn`, `sent` is `wire`.

### WalReader and CommitFeed

Record `i` of the server's log starts at position `i` and ends at `i + 1`; a record
is a published transaction with its rows or WAL of somebody else. The walsender
is a cursor into the log. A row is its table and the shape the table had; the
changes of a transaction are a function from the rows kept to the shape they were
decoded with, so a stale relation entry is visible. `HandleCommit` sets the
position, acknowledges and enters `deliver`; a keepalive's `ServerWALEnd` may lie
before or behind the commit record of a transaction in progress. A connection
that breaks, before or after the slot is made, loses the half-built transaction. A
status update that cannot be sent is logged and retried at the next deadline: no
step. `parseSinceLSN` is one client that takes the position as its start, for
`StartHidesNothing`. The backoff is the reader taking no step.

`CommitFeed` keeps the log, a position and what was handed over: `Hand` hands over
the next published transaction, `NewSlot` skips to the end of the log.

### Lifecycle

`main` walks through the startup checks, one action per query that decides
something; another instance or an operator may create a publication of any kind
between two of them. Before there is an admin connection a failure ends the process
at once; afterwards (`PrepareDatabaseFails`) `main` closes the connection first,
with no timer and with signals caught, and a close that hangs is never left. `Run`
starts the three runnables and the probe; the listener may fail. `caught` says whether a signal cancels the context or kills the process (before
`NotifyContext`, and after `stop()`). Time exists only during shutdown: `Tick`
happens when nothing but a stuck handler or a hanging close is waited for.

### ArrayText

`array_out` (external, from PostgreSQL's quoting rules) writes an array of texts,
`parseArray` and `splitArrayElements` read it. It writes one character per step
and notes what the character stands for (`role`: an opening quote, an escape,
character `j` of element `k`); the mapper does not look at the roles, the proof
does. Of the mapper each iteration of a loop is a step, with the code's variables
`s`, `i`, `start`, `sb` and `elems`; the two loops that skip spaces are one
operator. An array has one dimension, or is a matrix with one row, or has other
bounds than 1: the last two are handed on as text. The alphabet is every special
character, one that is not, and in `Blanks` the white space that
`strings.TrimSpace` knows and PostgreSQL does not (U+00A0 for instance).

## 3. Runs

| Run | Instance | Shows |
| --- | --- | --- |
| `pipeline_one_stream` | one row stream, queue of 1, 2 commits out of three shapes, explicit `since_lsn`, revocation, failing writes, shutdown; 2.6 M states | `KeepsContract`, `NoGap`, `DoneHasReason`, `RouterNeverWaits`, `WaitsAreAnswered`, `ShutdownReachesAll`, `DropStopsWrites`, types and queue bounds |
| `pipeline_liveness` | one table stream, queue of 2, 2 commits, `FairSpec`; 140 k states | `KeepsContract` with batches of two; dropped streams end, shutdown ends, what is owed is written |
| `admission` | 3 requests, 2 users, limits 2 and 1, `FairSpec` | limits bind, nothing leaks, every handshake ends |
| `routing` | 3 changes over rows with colliding keys, updates that move a row to another key, changes that cannot be decoded, two grants; 558 k states | `DeliversItsRoot`, `MovedRowGoesByNewKey`, `GrantConfines`, `SkipsOnlyUndecodable`, `InvisibleIsIrrelevant` |
| `refresh` | 2 positions, a slot created at either, transactions of 2 changes, 2 swaps, 2 retries, `FairSpec`; 2.6 M states | `FreshGrantApplies`, `SkewNeedsSecondSwap`, `OutageIsReal`, `FailsClosed` |
| `wal_reader` | one table altered between two usable shapes and an unusable one, 2 records, 2 slots, `txCh` of 1, `FairSpec`; 120 k states | `FeedSpec`, `ConfirmedIsReceived`, `StartHidesNothing`, `AckIsSent`, `WalIsReleased` |
| `lifecycle` | two handlers, one stuck, timers of 2 and 3 ticks, every publication and configuration, `FairSpec`; 22 k states | `OnlyListsAreStreamed`, `CleanExit`, `StuckHandlersExitCleanly`, `ProcessEnds`, `ReadinessFollows` |
| `array_text` | arrays of up to 2 elements of up to 2 characters in three shapes, `FairSpec`; 433 k states | `ElementsSurvive`, `ParserReturns` |
| `wal_relation` | violation of `RefusedIsSkipped` | see 6 |
| `routing_blank_key` | violation of `OneRootOnly` | see 6 |
| `routing_nan` | violation of `Atomic` | see 6 |
| `refresh_double_swap` | violation of `KeepsPreviousGrant` | see 6 |

*Bounds.* A hole in a stream needs a transaction that goes missing and a later
one that does not: two commits for a loss by size, by a reconnect or in the
drain. A queue of one is full after one frame, and a full queue ends the stream;
a batch with a proper prefix needs a queue of two. One stream is enough for what
concerns its own frames, because streams share only the indexes and the router,
and `ShutdownReachesAll`, where the kinds are looked at one after the other, is
proved for any set of streams. In `admission` the third request meets the full
semaphore and the second the full counter. In `refresh` two swaps are the least
that overtake a transaction twice, and two positions are a slot's consistent point
and a commit at it or behind it; `refresh_double_swap`, which stops at the first
violation, has three. The three retries of the code are two: the loop
is the same. In `wal_reader` two records are a transaction cut off and its
successor, or foreign WAL around a transaction; two slots are one reconnect; two
rows are one on each side of an ALTER TABLE. In `lifecycle` only the order of the
two timers matters, 9 s and 10 s in the code. In `array_text` two characters are
every pair of an escape and what it escapes, and two elements are one with a
neighbour; `ElementsSurvive` is proved for any number and length.

*Deadlock* is not checked for `Broadcaster`, `WalReader`, `Lifecycle` and
`ArrayText`, which really stop (after shutdown, when the bounded log is written,
after exit, when the array is parsed). It is checked for the others.

*Fairness.* Weak fairness of each goroutine's own steps: Go runs what is
runnable. For the stream loop it includes the end of a write, because `stream`
sets a write deadline; for `Admission` and `Refresh` the end of an auth call,
because the HTTP client has a timeout. In `WalReader` a connection that holds
brings the messages the walsender has, and keepalives, and the two timers fire;
the router is not assumed to take anything, which is the point of `AckIsSent`. In
`Lifecycle` queries return, timers fire and handlers that are not stuck return.
Nothing is assumed of writers, clients, the network, the auth backend's answers,
stuck handlers or signals. In `ArrayText` a conversion that has begun runs on.

`RouterNeverWaits` needs no fairness: it says that while a transaction is being
routed some step of the router is enabled whatever the handlers do (or a `Drop`
that another goroutine has begun is about to finish), and every one of those steps
brings the transaction nearer to its end.

Each property has a mutant in `PROJECT.json`: a definition of the model changed
as a plausible slip in the code would change it (marked "Fault:" in the modules),
under which the run must fail.

## 4. Properties worth knowing

- `NoGap`: frames are in commit order, none twice, and a frame on the wire means
  every owed transaction before it is there too. "Owed" starts at the flush of
  the response (`promise`), not at the position read before the handshake, so the
  property covers that race.
- `ShutdownReachesAll`: after the wave every registered stream is dropped or will
  see `closed` itself. This is the comment in `Register`, "either Shutdown's
  snapshot sees sub or we see closed".
- `DropStopsWrites`: after a drop only the batch that had passed its `Done` check
  goes out. (That batch may go out after a revocation; the code's window is one
  write.)
- `DeliversItsRoot`: lookup, guard and filter together select exactly the
  transactions that visibly change the subscribed row and no other row of its
  table, as far as the writes could be decoded. A write that cannot be decoded is
  no root: see 6.
- `SkipsOnlyUndecodable`: unless it would show a NaN, a frame has every visible
  write but those that could not be decoded; one bad value costs its own change
  and nothing else.
- `MovedRowGoesByNewKey`: an update that changes a primary key is routed by the
  key the row has now, not by the key it had (unless the new key is empty, which
  `HandleUpdate` takes for absent).
- `KeepsContract`: every step of the pipeline is a step of `DeliveryContract` or
  changes nothing a client sees. It adds to `NoGap` what may happen when: no
  frame before the response or after the terminal one, what was sent is never
  taken back or repeated.
- `FeedSpec`: whatever keepalives, deadlines, shape changes and reconnects do, a
  transaction is handed over whole, every row of a usable shape decoded with the
  shape it was written in, and its successor is the next one of the slot.
- `ConfirmedIsReceived`: the server was never told to forget a transaction that
  is still being rebuilt.
- `StartHidesNothing`: `tx.CommitLSN <= StartLSN` hides no commit read after the
  client took its position, except one that begins exactly at a new slot's
  consistent point. The model allows a commit record to be the first thing written
  there, and the property says that this is the only case.
- `OnlyListsAreStreamed`: the check after the lookup covers a publication that
  somebody else created meanwhile; one that appears between the lookup and CREATE
  makes CREATE fail.
- `WaitsAreAnswered`: the reader in `deliver`, the drain, the router inside
  `routeTx` and `Shutdown` inside `Drop` never wait for a goroutine that has gone.
  A drop begun by somebody else is no exception: it has one step left to do, which
  nothing can hold up.
- `ElementsSurvive`: what `array_out` wrote is read back element by element; the
  two exceptions in it are the text NULL, and elements with Unicode white space
  at an end (`Frayed`), both of which the code really changes.
- `FreshGrantApplies`: no change is filtered with a grant older than the one in
  force when its transaction was read. The exception is a commit exactly at a slot's
  consistent point with which that grant was stamped; it gets the grant before.
- `StuckHandlersExitCleanly`: handlers that never return do not cost the process its
  exit status 0; `ProcessEnds` adds that a hanging close ends by the 10 s timer. The
  exception in the latter is the close after a failed startup check.

## 5. Proofs

| Theorem | Says | Invariant it rests on |
| --- | --- | --- |
| `BroadcasterProofs!TypeCorrect` | types and queue bounds | `TypeInv`: a handler outside the batch holds no frames; otherwise `Take` could exceed the capacity |
| `DoneAlwaysHasReason` | `DoneHasReason` | the terminal frame is written after `Done`, and the reason is then final |
| `NothingWrittenAfterDrop` | `DropStopsWrites`, an action property | types; one case per action |
| `ShutdownMissesNobody` | `ShutdownReachesAll` | `WaveInv`: at each stage of the wave, a registered stream that the wave no longer has before it is dropped, or has still to look at `closed` |
| `NobodyIsStranded` | `WaitsAreAnswered` | `WaitInv`: the router stops, the channel is closed and the shutdown begins only under a cancelled context; a transaction is in hand exactly inside `routeTx` |
| `DeliveryProofs!NoGapInDelivery` | `NoGap` | `DeliveryInv`, see below |
| `ContractIsKept` | `KeepsContract`, the refinement | `DeliveryInv` before and after each step: a `Write` is the contract's send because what it adds is newer than the wire and leaves nothing owed behind |
| `AdmissionProofs!TypeCorrect`, `LimitsNeverLeak`, `LimitsAlwaysBind` | `TypeOK`, `NothingLeaks`, `LimitsBind` | what each program counter holds, and that an admitted request is in the set its counter counts; by cardinalities of finite sets |
| `RoutingProofs!TypeCorrect`, `NothingBeyondTheGrant` | `TypeOK`, `GrantConfines` | none: the filter's result is confined whatever the transaction |
| `RootsAreRoutedExactly` | `DeliversItsRoot` | `SourceInv` (below), to get from the changes to the writes; no change has the key `''` (assumed of the rows, `NoBlankKeys`); the first change of the table exists by well-foundedness |
| `OneRootUnlessBlank` | `OneRootOnly` of every transaction whose writes were all decoded, under `NoBlankKeys`: the positive side of the finding `routing_blank_key` | follows from `DeliversItsRoot` |
| `MovedRowsGoByNewKey`, `OnlyUndecodableIsSkipped` | `MovedRowGoesByNewKey`, `SkipsOnlyUndecodable` | `SourceInv`: a bijection between the changes collected and the writes that could be decoded, each change made from its write; cut down to what the grant shows it counts the rows of a frame |
| `InvisibleChangesNothing` | `InvisibleIsIrrelevant` | types only; a colliding key may change the index lookup, but then `anchorSurvived` decides, and it is unchanged |
| `RefreshProofs!TypeCorrect`, `FreshGrantAlwaysApplies`, `SkewIsOneSwap` | `TypeOK`, `FreshGrantApplies`, `SkewNeedsSecondSwap` | `RefreshInv`: how the two pointers and the newest copy stand to each other at each step of `swapMap`, refresh LSNs never decrease, and a transaction is newer than the refresh of the grant it was read under or lies at the slot's point which that refresh is stamped with |
| `OutagesAreReal` | `OutageIsReal` | failures counted equal attempts made |
| `WalReaderProofs!TypeCorrect`, `NothingConfirmedEarly`, `StartNeverHides` | `TypeOK`, `ConfirmedIsReceived`, `StartHidesNothing` | `Inv`: outside `deliver` a message of a transaction is due exactly when one is being built (`StepInv`); acknowledged and confirmed positions do not pass the cursor, and the clients' position is behind it but for the start of a slot (`PositionInv`); what the cursor has passed was received (`ReceivedInv`) |
| `ReaderFeedsCommits` | `FeedSpec`, the refinement | `FeedInv`: an entry of the relation cache is the last shape told if that is usable (`CacheInv`), the changes built are those of the rows before the cursor (`BuiltInv`), and nothing published lies between the last transaction handed over and the one in hand (`GapInv`) |
| `LifecycleProofs!TypeCorrect`, `BroadPublicationsAreRefused` | types, `OnlyListsAreStreamed` | `StartInv`: what `main` has found out at each program counter, and that a publication that exists is not replaced |
| `ExitZeroIsClean` | `CleanExit` | `StopInv`: wave before drain before close, and the clock within the first timer while handlers are waited for |
| `ArrayTextProofs!ArraysSurvive` | `ElementsSurvive` | `IInv`, see below |

The assumptions are those named in the modules (`BufferAssumption`,
`LimitsAssumption`, ...): positive capacities and limits, finitely many requests,
well-typed shapes. TLC evaluates them in every run. The type invariants of
`Admission`, `Routing` and `Lifecycle` are proved and no run lists them.

`NoGap` speaks of the wire, and is far from inductive: a hole on the wire is made
long before, by a frame that is queued while an earlier one is not. `DeliveryInv`
follows a transaction from the log to the wire, in four parts.

- `OrderInv`: reader, channel, router, queue, batch and wire hold positions in
  this order, newest first, and a frame of the transaction in `routeTx` exists
  only for subscribers it has been dispatched to. This gives commit order and no
  duplicates.
- `StreamInv`: nothing is owed before the response; `StartLSN`, read long before
  registration, hides nothing that is promised; a stream that may write is in an
  index, so `mergeMatches` finds it.
- `LocationInv`: a transaction owed to a stream that is not dropped is among its
  frames or under way. A stream that registers between two lookups of one
  transaction is why "under way" in `routeTx` looks at the changes already
  matched. Once a stream is dropped an owed transaction may be nowhere; the second
  half says that a send already decided on is still safe, because the earlier
  frames are in place.
- `GapInv`: nothing owed is missing in front of a frame that may be written, nor
  in front of one that was; frames are thrown away only by a handler that will
  write no more, and a failed write keeps a prefix.

It is used together with `TypeInv` and `WaveInv`. TLC checked it on the instance
of `pipeline_one_stream` and on one with three commits (9.5 M states) before it
was proved. The refinement is proved step by step under the mapping in
`Broadcaster` (`Contract`): most steps leave what the contract sees unchanged
(`UnseenStep`); `Prelude`, `Write`, the ways out of the stream loop, `finish`,
`HandlerDrop`, `Commit` and `Reconnect` are steps of it.

`ElementsSurvive` is about the end of the parser, which has forgotten how it got
there. `IInv` follows both programs. Of the writer (`WrittenInv`): each character
is the one its role asks for and each role follows from the one before; a quoted
element has its opening quote, and where a second element is begun there is a comma,
so that an array that looks blank to `TrimSpace` has a single, frayed element. Of
the reader (`ReadInv`): at the position `i` of the splitter the role written there
is the beginning of the next element (`SplitAt`), or that of the next character of
the quoted (`QuotedAt`) or plain (`PlainAt`) element in hand, and what was read of
it so far is what it begins with. A quote inside an element is therefore never met
without its escape, and a comma ends a plain element only where `array_out` ended
it. TLC checked `IInv` on the instance of `array_text` and on arrays of three
elements of one character before it was proved. No induction over texts is
needed, because each character is a step.

Only model-checked:

- the liveness properties (`DroppedIsReleased`, `ShutdownEndsStreams`,
  `ShutdownTerminates`, `OwedIsDelivered`, `HandshakeEnds`, `FailsClosed`,
  `AckIsSent`, `WalIsReleased`, `StuckHandlersExitCleanly`,
  `ProcessEnds`, `ReadinessFollows`, `ParserReturns`): fairness is outside the prover;
- `RouterNeverWaits`, which says ENABLED. What it rests on is proved in
  `NobodyIsStranded`: with a transaction in hand the router is at a place where it
  has something to do, and has a subscriber in hand where it needs one.

## 6. Where the code and its documents disagree

- `routing_blank_key`: `hasMultipleAnchorRoots` takes `""` for "no root yet", but
  `''` is a legal text key; a transaction over rows `''` and `1` reaches row 1's
  subscribers, although the README says such a transaction is not delivered.
- `routing_nan`: a float NaN or Infinity makes `json.Marshal` fail and `Encode`
  sends a frame without the changes, although the README promises all of them.
- `wal_relation`: a table that loses its usable key is refused with an error, but
  the entry from before stays in the relation cache and the table's rows are still
  decoded and delivered with it, although docs/operations.md says that its changes
  are skipped.
- `refresh_double_swap`: only one previous grant is kept, so after two swaps a
  transaction read before both is filtered with a grant fetched after it, although
  docs/architecture.md says that it keeps the previous one.

The positive side of each is checked: `DeliversItsRoot` is proved for keys other
than `''`, `SkipsOnlyUndecodable` and `SkewNeedsSecondSwap` say what does hold, and
`FeedSpec` that every row of a usable shape is decoded with that shape.

Two promises of the README have an exception that only the log table of
docs/operations.md hints at ("HandleInsert error; change skipped"). A write that
cannot be decoded (an infinite timestamp, say) is left out and the rest of the
transaction is delivered, against "never part of one"; and since the multi-root
guard sees changes and not writes, a transaction over rows 1 and 2 of a table
reaches row 1's subscribers when the write to row 2 is the one left out.
`SkipsOnlyUndecodable` and `DeliversItsRoot` state exactly this much.

Two exceptions are written into properties above. A commit exactly at a new slot's
consistent point is taken for one read before a client that started from that
point (`StartHidesNothing`) and before a refresh stamped with it
(`FreshGrantApplies`). And when a startup check fails, `main` closes the admin
connection with `context.Background()` before the 10 s timer exists and while
signals are caught: a close that hangs keeps the process (`ProcessEnds`).

Four more things a reader of the model notices. A refused request counts for its
user until its decrement, so a second request may be answered 429 just below the
limit. An update that changes a primary key is routed by the new key only. The
array parser takes an element whose text is NULL, which PostgreSQL writes in
quotes, for a null. And it trims with `strings.TrimSpace`, which takes all of
Unicode's white space, although `array_out` quotes an element for that of ASCII
only: an unquoted element loses a no-break space at its ends, and an array with no
other element than one comes out empty. `ElementsSurvive` states the last two as its
only exceptions.

## 7. Not modelled

- Scalar conversions of the value mapper (timestamps, intervals, bytea, numerics)
  beyond refusal and NaN: each is one library call on one value.
- Byte layout of frames, heartbeats and initial data; the HTTP handlers of the
  health server, which format the cached state; the `-healthcheck` client.
- The lengths of backoffs, retry pauses and heartbeats: waiting is taking no step.
- Parsing and validation of environment variables, beyond the fact that it comes
  first and may be fatal; CORS headers; metrics; header and cookie forwarding of
  the auth client. They are plain data with no state that anything reads back.
- An update whose primary key column is an unchanged TOAST value, and which therefore
  carries no key: `Routing` has the key column in every image. Rows of a relation the
  cache does not know are in `WalReader`.
- LSNs are commit numbers in `Broadcaster`; the distance between a commit record
  and a slot's consistent point is in `WalReader`.

## 8. Plan

1. `Broadcaster`, `Admission`, `Routing`, `Refresh` with their runs and proofs
   (done).
2. `WalReader`, `Lifecycle`, `ArrayText`, and the abstract specifications
   `DeliveryContract` and `CommitFeed` with their refinements (done).
3. Proofs: `LifecycleProofs`, `WalReaderProofs` with the refinement of `CommitFeed`,
   `DeliveryProofs` with `NoGap` and the refinement of `DeliveryContract`, and the
   rest of `RoutingProofs`, `ArrayTextProofs`, `NobodyIsStranded` (done).
4. What is left is the step from `CommitFeed` to the reader of `Broadcaster`, which
   is argued in section 2 and not stated as a refinement.
