# Verification of the ATP Python SDK

TLA+ models of the ATP (Agent Trust Protocol) SDK, checked with TLC, and
theorems about them proved with TLAPS. The SDK lets an agent save a full proof
of every task locally, commit the hashes of the proof to the ATP Exchange, and
lets other agents challenge it for the proof and compare the two.

Every definition is translated from the source under `src/src/atp/`;
`PROJECT.json` names the lines ("map"). The Exchange, the network and the
operating system are not part of the repository: they are modelled from how the
code uses them and marked external.

## Inventory

| Component | Source | State | Operations | Modules |
|---|---|---|---|---|
| Task commit | `core/utils.py` `ATPTaskContext`, `atp_task`, `atp_response`; `adapters/base.py` `MinimalAdapter.on_task_complete`; `core/client.py` `create_commit` | `response`, `_committed`, `atp_task_id`, the proof being built | run the body; build and save the proof; post the sketch; set the flag | `TaskCommit`, `ATPProtocol` |
| Challenge and verification | `core/client.py` `challenge`, `_verify`, `report_assessment`; `core/utils.py` `challenge_and_verify`; `MinimalAdapter.on_challenge` | the arguments and the progress of a call, the proof received, the verdict | ask the agent; re-hash the content; query the Exchange; compare; report | `Challenge`, `ATPProtocol` |
| Exchange (external) | used by `core/client.py` | commits, assessments, systems | `POST /commit`, `GET /commits`, `POST /assess`, `POST /register` | `Exchange`, and the external actions of the others |
| SQLite proof store | `core/storage.py` `SQLiteProofStore` | rows on disk, `_schema_ready`, `_schema_lock`, `_gc_task`, SQLite's own write lock | `save`, `get`, `delete`, `list`, `_ensure_schema`, `_gc_loop`, `stop` | `SQLiteProofStore`, `ExpiryOrder` |
| In-memory proof store | `core/storage.py` `InMemoryProofStore` | a dictionary, a lock, the collector's task | the same, each in one critical section that never awaits | `InMemoryProofStore` |
| Registration | `register_system`, `_registered_systems`, `_system_uris`; `adapters/base.py` `register` | the session cache of names, ids and addresses, in order of registration | register, look up, choose the first system as identity | `Registration` |
| HTTP client lifecycle | `_get_client`, `__aenter__`, `__aexit__`, `close` | `_http_client`, `_client_loop` | open, replace when the event loop changes, close | `HttpClient` |
| Queries and errors | every method of `ATPClient` that sends a request | none | turn a status and a body into a value or an error | `HttpClient` |
| Task context and dependencies | `_current_atp_task`, `add_dependent_proof`, `pre_challenge_dependencies` | a `ContextVar`, the lists of dependencies | enter, leave, add, challenge all | `TaskContext`, `PreChallenge` |
| Canonical hashing | `core/hashing.py` | none | canonical text of values and timestamps; dependency and proof hashes | `ATPData`, `Timestamps`, `OfflineVerification` |
| Offline verification | `verify_response`, `verify_signature`, `get_exchange_public_key` | none | recompute a hash, check a signature | `OfflineVerification`, `HttpClient` |
| Models | `core/models.py` | none | records | `ATPData`, `Exchange`, partly |
| Configuration, logging, exceptions, exports | `config.py`, `logging.py`, `exceptions.py`, `__init__.py` | none | values | not modelled |

How they interact: a task run calls `ProofStore.save` and then `create_commit`;
a challenge reaches the other agent over HTTP, whose `on_challenge` calls
`ProofStore.get`, and then reads the commit from the Exchange and posts an
assessment to it. The store's collector is a background task of the same event
loop. Every request of an agent goes out through the one HTTP client of its
`ATPClient`, in the name of a system of its session cache. The Exchange is the
only state the two sides share.

What is hard, and what must hold:

* **Order and loss in the commit.** The save, the POST, its arrival, the reply
  and the flag are five moments; the request or the reply may be lost, and the
  request may arrive after the client has timed out. The flag, the catalogue
  and the stored proof must agree at every one of them.
* **The gap between save and commit.** A challenger may see the proof before
  the sketch exists. Whoever challenges must not take the gap, a failure of the
  network, or an expired proof for evidence against the agent: the first
  assessment an assessor makes of a task is kept for ever.
* **Repetition.** `on_task_complete` takes the caller's `task_id` and may be
  called again after a timeout: the store keeps the last outcome and the
  Exchange the first. `register_system` may be called again, and concurrently.
* **One file, many connections.** Each operation of `SQLiteProofStore` opens a
  connection of its own; the schema must be made once, one writer at a time may
  hold the write lock, `get` reads on one connection and deletes on another,
  and errors, cancellation and crashes may come at every `await`.
* **A collector that is cancelled.** A save while `stop()` waits for the
  collector meets a task that is neither running on nor done.
* **Identity read twice.** The system that asks and the system that reports are
  looked up at different times, and so are the one in a stored proof and the
  one in its commit; other registrations come in between.
* **Ambient state.** The active context is a `ContextVar`: it must be the
  innermost one of the asyncio task that looks, and a list of dependencies goes
  on growing while a sketch made from it is on its way.
* **A client shared by loops and coroutines.** `_get_client`, `async with` and
  `close()` write the same two fields around their awaits.
* **Texts that must agree.** Hashes and signatures are recomputed elsewhere
  from texts: zones, fractions, empty fields and old versions must come out the
  same on both sides, and text is compared as time in SQL.
* **Liveness.** Runs, calls and store operations must end, and expired proofs
  must go away.

The hazards at their lines, with the properties that cover them or the reason
none does, are the "hazards" of `PROJECT.json`.

## Modules

| Module | What it is |
|---|---|
| `ATPData` | tasks, contents, hashes and stored proofs |
| `ProofStore` | what a store promises: the abstract specification, and the atomic store of the protocol modules |
| `Exchange` | the Exchange's commits and assessments (external) |
| `TaskCommit` | the committing side: `atp_task` and `on_task_complete` |
| `Challenge` | the verifying side: `challenge` and `challenge_and_verify` |
| `Attestation` | what commits and verdicts promise to whoever reads them: the abstract specification of the protocol |
| `ATPProtocol` | both sides over one Exchange and the agents' stores; the specification and its properties; shown to implement `Attestation` |
| `SQLiteProofStore` | the SQLite store, one action per code between two awaits; shown to implement `ProofStore` |
| `InMemoryProofStore` | the store in memory with its collector and `stop()`; shown to implement `ProofStore` |
| `Registration` | the systems an `ATPClient` remembers, and what is done in their name |
| `HttpClient` | the HTTP clients of an `ATPClient`, and what its methods make of replies |
| `TaskContext` | the active context of asyncio tasks and the dependencies added to it |
| `PreChallenge` | `pre_challenge_dependencies` of overlapping requests |
| `Timestamps` | times and the texts made of them |
| `OfflineVerification` | the hashes of commits, and the Exchange's signature of them |
| `ExpiryOrder` | `expires_at` compared as text |
| `ATPProtocolMC`, `SQLiteProofStoreMC`, `ClientMC`, `ContextMC`, `RecordsMC` | small instances |
| `...Proofs` | the theorems about a module and their proofs |

Operators whose comment starts with "Bug:" are mutated forms of the definition
that follows them. No specification uses them; each shows that a property would
notice that bug.

### ATPData, ProofStore, Exchange

A *content* is the pair (invocation, outcome) of one execution. The two
dictionaries are always built, hashed, stored and compared together, so one
value and one hash stand for both. `hash_with_prefix` is a collision-free
function of the content. A `StoredProof` has its content, the hash declared for
it when it was built, and `expires_at`.

`ProofStore` is a map from task to proof. `Put` is `save`; `Evict` is `get` of
an expired proof, which deletes it; `Collect` is a pass of the collector;
`LoseMemory` a restart, which keeps the rows of `Durable` tasks only. The
protocol modules use it as their store; both real stores are shown to implement
it, the SQLite store for tasks that are saved once, as `atp_task` saves them, or
that the application deletes anyway. The clock counts in units of the time to live and stops at `MaxTime`.

`Exchange` keeps the first commit of a task and the first assessment of an
assessor about a task. Both are assumptions about the service: the code relies
on the first when it verifies a sketch at any later time, and treats the second
as the answer 409 (`client.py:915`). A recorded commit is `confirmed` or
`failed`, as in `CommitStatus`.

### TaskCommit

A *run* is one execution: an `atp_task` context, or one call of
`on_task_complete`. `run[r]` is how far its coroutine is:

| Action | Code |
|---|---|
| `BodyEnds` | the body returns with a response, or `on_task_complete` is called; hashes and timestamps are computed and `save` is awaited |
| `BodyRaises`, `NoResponse` | `__aexit__` with an exception, or without a response: nothing is done |
| `SaveProof`, `SaveFails` | the save returns; or it raises, no system is registered, or the caller is cancelled, when the save may or may not have been done |
| `SendCommit` | `create_commit` posts the sketch: `post[r] = "wire"` |
| `CommitArrives`, `CommitLost` | the request reaches the Exchange, perhaps after its client gave up, and is recorded or refused; or it is lost |
| `CommitReply`, `CommitFails` | 200/201 sets `_committed`, other statuses raise; or a timeout, a lost reply, an unparsable one, a cancellation. There is no retry |
| `Crash` | the agent's process restarts: runs in progress are gone; a request on the wire is not |
| `MutateArtifacts` | the caller changes the `artifacts` dictionary it passed to `on_task_complete`, which the stored outcome refers to (`base.py:297`) |
| `EvictProof`, `TimePasses` | the store evicts what has expired; the clock |

### Challenge

A *call* is one call of `challenge` or `challenge_and_verify`; `request[c]`
holds its arguments, chosen freely in the initial state, and what is at
`agent_url`: an agent made with this SDK or another one. `Ask` needs a
registered system. `Respond` is the `on_challenge` of an agent of this SDK;
`RespondOther` is any proof another agent may answer with, also one of a task it
was not asked for. `CheckContent` is step 1 of the verification (the content has the declared hash), `CheckSketch`
steps 2 to 4 (the sketch on the Exchange has it too, the content is the
expected one, the commit is confirmed), `QueryFails` any exception of the query.
The two functions do the same work except in `Undecided`: without a usable
answer of the Exchange `challenge` reports `compromised`, `challenge_and_verify`
reports nothing. `ReportArrives`, `ReportLost` and `ReportEnds` are the POST of
the assessment, which is fire-and-forget.

There are two tasks in a call. `TaskAsked` is the argument `task_id`, which only
the request uses. `TaskNamed` is the one the answer names: its sketch is looked
up, it is reported, and `verified` is said of it (`utils.py:421`,
`client.py:821`, `client.py:1017`). Neither function compares the two. An agent
of this SDK answers for the task it was asked for, which is what `on_challenge`
does, so there they are one (a conjunct of `VerifiedIsSound`, and of the
invariant `CallInv` of the proofs); with another agent `verified = True` may be
about a task nobody asked for, and the properties say no more than is so: they
speak of `TaskNamed`. The query of the challenger's own system (`get_system`) is
left out, because its failure is caught and its result only fills the payload.
The instances register every assessor; the way out of a challenger that is not
registered is modelled.

### Attestation

The protocol as its readers see it: commits, verdicts and nothing else. There
are no agents, stores, proofs, networks and clocks. `Publish` records the hash of
an execution of a task, once and for ever; `Verify` is a decision for work that
was done, is confirmed and is what was expected; `Blame` the other decision, which
nobody takes who is cautious (`challenge_and_verify`), expects the work or nothing
in particular, and asks an agent of this SDK about a task of `SteadyTasks`;
`Report` records a decision as the verdict of its assessor. Each decision is
`about` a task of `TasksOfCall`: the one asked for, or any if another agent is
asked. In `ATPProtocol` the decisions are the results of calls, about the task
their answer names, `Produced` the contents of the runs of a task, and
`SteadyTasks` those whose runs have one content and no artifacts. A call that ends
without a verdict, and everything between two of these four steps, is a stutter.

### SQLiteProofStore

Callers and the collector are coroutines that take the same steps: `CheckReady`,
`LockSchema`, `CreateSchema` (`_ensure_schema`), `Connect` (`_open`), then
`Select`/`SelectAll`/`CheckRow` or `Execute`/`Commit`, then `Close` (`finally`).
A `get` that finds an expired row goes through `_open` again for its `delete`,
as job `evict`. `wlock` is SQLite's write lock, taken by the statement and
released by the commit or by closing the connection. `OpenFails`,
`StatementFails`, `LockTimeout`, `Cancel`, `Crash`, `Stop` and `CollectorEnds`
are the failures and ends. `given` and `acked` are history: the tasks that were
saved, and the proof of the last `save` that returned.

### InMemoryProofStore

No method awaits while it holds the lock, and the collector's pass calls
`list()` and then `get()` for each without ever being suspended, because an
asyncio lock that is free is taken at once. So each operation, and the whole
pass, is one action. What is left to interleave is the life of the collector:
`gc` is `none`, `asleep`, `cancelled` (its cancellation is requested and not yet
delivered) or `done`; `Stop` requests it and waits, `Cancelled` delivers it,
`Save` starts a collector only when there is none or it is done. `LoopEnds` and
`LoopStarts` are one `asyncio.run` after another, `Crash` empties the
dictionary. A content of `Unzoned` stands for a proof whose `expires_at` has no
zone, which makes `get()` fail and keeps the proof.

### Registration

`registered` is the order of `_registered_systems`, `uris` is `_system_uris`.
`Register` answers from the cache or posts; `RegisterArrives`, `RegisterReply`
and `RegisterFails` are the rest of the request. Everything that reads these
dictionaries is there too: `BuildProof` and `PostSketch` of an `atp_task`
context with the save between them, `AdapterCompletes`, whose store never
suspends, `CommitDirectly`, and `Ask` and `Report` of a challenge, which read
the identity twice. An address is its base and its system: the one the backend
gave and the one built from `exchange_url` are different and name one system.

### HttpClient

HTTP clients are numbered as they are made; `owner[i]` is the event loop they
were made in and `opened` says which are not closed. `http_client` and
`client_loop` are the two fields of `ATPClient`. `Send` is a method up to its
await, with `_get_client` in it; `Receive` takes any reply, or none, and turns
it into the outcome of the ten methods (`Answer`, `Outcome`), in the order in
which they test the status; `Cancel` ends a request. `Enter`, `Leave` and `Left`
are `async with`; `Close` and `CloseEnds` are `close()`, which drops the client
after it has awaited `aclose()`; that marks it closed before it suspends, and
does not suspend when it is closed already. `NextLoop` is the next
`asyncio.run`. Statuses 200 and, of the three methods that create something, 201
are a success (`Accepted`). A body is what its method reads of it: `right`, `text`
(no JSON, or a value that does not parse), `lacking` a field, or `odd` (JSON of a
type the method trips over: a list for an object, an object for the list of
`get_system_commits`, a number for a timestamp). `Raised` is what reading it
raises, `Caught` what the `except` clauses make of that.

`Promised` is written from the docstrings alone. `Diverges` names, one by one, the
cases in which the code raises something else and what it raises;
`ErrorsArePromised` says that there are no others. All of them are in the table
below the findings.

### TaskContext, PreChallenge

`current[p]` is the `ContextVar` as asyncio task `p` sees it. `Spawn` copies it,
`Enter` sets it and keeps a token, `Exit` resets it and builds the sketch, its
hash and the proof from the dependencies so far, `Saved` and `Committed` are the
two awaits of `_commit`. `Add` is `add_dependent_proof` on whatever the task
finds in the variable, which can be a context that has been left: `late` keeps
those. A context is left by the task that entered it, which is what
`async with` does; the `ValueError` of a reset in another task is not modelled.

`PreChallenge` is the loop over the dependencies a request declares, one
request for each coroutine; they share the list of the agent. An item is
malformed (`Dependency(**item)` raises, outside the `try`), cannot be
challenged, or is challenged, with every outcome.

### Timestamps, OfflineVerification, ExpiryOrder

A time is an instant and the offset of a zone. A text is what can be read in it:
the local time, how its fraction is written, and how it ends. `Rfc3339Nano`,
`ProofTime` and `IsoFormat` are the three ways the SDK writes a time, and
`TextBefore` is the order SQL sees.

In `OfflineVerification` SHA-256 is an injective constructor and a JSON object
with sorted keys is the set of its members, so the canonical forms are kept as
structures: what is left out when empty, which fields are hashed, which have a
prefix. `task` stands for the system and the task of a sketch, `content` for its
two content hashes, `policy` for the type, policy and result of an evaluation.
`Build`, `CreateCommit` and `Receive` take a sketch to the catalogue, which
recomputes the proof hash and refuses another one. `Fetched` is the record as
JSON gives it back, in the zones it was sent in or in UTC. What the Exchange
recomputes and signs (`ExchangeProofHash`, `SignedMessage`) is taken from the
comments in `client.py:345` and `client.py:1175`.

`ExpiryOrder` is the table of `SQLiteProofStore` with the zones that
`SQLiteProofStore` leaves out: when may its clock be a number?

### The instances

`ClientMC`, `ContextMC` and `RecordsMC` each put two modules of one object side
by side that share no state. A behaviour moves one of them and leaves the other
as it begins: their product would repeat the same states. `ATPProtocolMC` does
the same with two tasks (`RetriedInit`): a behaviour asks an agent of this SDK
about one of them, and the runs of the other have failed at the start; or it asks
another agent about a task that left nothing, while a run of the other task goes
on, which the answer may be about. The requests of `ClientMC` call one method that
varies while the others are at rest, since they share nothing but the client.

## What the runs show

| Run | Instance | Shows |
|---|---|---|
| `one_task` | `ATPProtocolOneTask.cfg`: one `atp_task` run, durable store, two concurrent calls of one assessor, one crash | `CommittedIsCatalogued`, `CataloguedIsBacked`, `UnfinishedPublishesNothing`; `RunsEnd` and `CallsEnd`: runs and calls end, whatever is lost |
| `retried` | `ATPProtocolRetried.cfg`: `on_task_complete` twice for one task, with different outcomes and artifacts that change, or twice the same; one call, of an agent of this SDK or of another one | `VerifiedIsSound`, `CompromisedHasEvidence`; `HonestNeverCompromised`: mere repetition never gets the agent blamed; `Attests`: the protocol implements `Attestation` |
| `sqlite_safe` | `SQLiteProofStoreSafe.cfg`: two callers and the collector, two tasks saved once, one of them deletable, a fault at any await | `SchemaOnce`, `OneWriter`, `AckedIsDurable`; `KeepsPromise`: the store implements `ProofStore` |
| `sqlite_live` | `SQLiteProofStoreLive.cfg`: the same with one task, under fairness | `CallsReturn`; `ExpiredIsCollected`: a living collector removes what has expired |
| `memory_store` | `InMemoryProofStorePromise.cfg`: two tasks saved any number of times, two `stop()` that wait | `KeepsPromise`; `ExpiredIsCollected`, also past a proof that `get()` fails on; `StopReturns` |
| `client` | `Client.cfg`: three registrations of two names, three commits, a challenge; two requests, of every method, with statuses 200, 201, 401, 404, 409 and every kind of body; two sessions, a `close()`, two loops | `CacheIsTrue`, `AssessorIsChallenger`, `SketchIsAuthoritative`, `ProofFindsCommit`; `OwnLoop`, `NothingLeaks`, `RefusedOnlyAfterLeaving`, `ErrorsArePromised` |
| `context` | `Context.cfg`: three asyncio tasks, two contexts, two additions; two requests with up to two dependencies | `CurrentIsInnermost`, `TasksDoNotMix`, `CommitsItsDependencies`; `ListedInOrder`, `AllAreChallenged` |
| `records` | `Records.cfg`: commits with times in three zones and of three kinds of fraction; a table with rows of three offsets | `UtcIsAccepted`, `HashIdentifies`, `HashesAreReproducible`; `TextOrderIsTimeOrder` |
| `ambiguous` | (violation) one run, one call | `challenge` blames honest work, see Findings |
| `sqlite_resave` | (violation) a task saved again | the SQLite store loses a live proof, see Findings |
| `memory_watched` | (violation) a save while `stop()` waits | a proof that nothing collects, see Findings |
| `signature` | (violation) a commit catalogued in UTC | no signature verifies, see Findings |

Each run of a module also checks its type invariant, except `retried`,
`sqlite_live` and `memory_store`, whose `TypeOK` is checked by another run or
proved.

Bounds, and why they are enough:

* *One task, or two that do not meet.* Runs of different tasks touch different
  entries of the store and of the catalogue and have no other state in common;
  what can interfere is two runs of one task, which `retried` has, and calls
  about one task, which `one_task` has. A call that gets the proof of another
  task than it asked for needs a second task with one run, which `retried` has.
  The theorems cover any number.
* *Two contents*: the committed one and another, to be expected, mutated or
  saved again.
* *Clock 0..1 to 0..3 with a TTL of 0 or 1*: a proof can be live, at its last
  instant, and expired, and be built at different times. The table of `records`
  has a finer clock (0..10, TTL 3), because an offset must be smaller than a TTL
  as well as larger.
* *One crash*: everything after a crash is again an ordinary state, and what a
  crash loses it loses the first time.
* *SQLite: two callers and the collector, 2 to 4 calls, at most 1 fault*: three
  coroutines contend for each lock. `sqlite_resave` needs four calls and no
  fault.
* *Two names, three registrations*: one name registered twice concurrently, and
  once more through an adapter, with another system before or after it.
* *Statuses 200, 201, 401, 404, 409*: each that some method tells apart; 404 also
  stands for every other refusal where a method does not test it.
* *Two event loops, two sessions, one `close()`, two requests*: the last two can
  overlap in every order; a third loop meets the second as the second meets the
  first.
* *Three asyncio tasks, two contexts*: siblings, parent and child; nested,
  overlapping and successive contexts.
* *One dependency with one evaluation in a sketch, or none*; two commits are
  compared with times of zone 0 only, since the hash takes its times from UTC.

Symmetry is used for interchangeable callers, tasks, contexts and requests, and
only where no liveness is checked. Deadlock is checked everywhere; `Terminated`
and its like are the states in which everything has ended.

Fairness. In `ATPProtocol` the steps of a run after its body, and of a call,
are weakly fair: each waits for a reply under a timeout (httpx is given
`config.commit_timeout`, 30 seconds; `challenge_and_verify` 30.0), after which
`CommitFails`, `AskFails`, `QueryFails` or `ReportEnds` is enabled for good.
Nothing is assumed of the body of a task, the network, the clock or the
failures, so a run may stay in its body for ever and every message may be lost.
In `SQLiteProofStore` the steps of a coroutine are weakly fair, since
the event loop and the thread of each connection run and the wait for the write
lock ends after `timeout=30`; so are the collector's waking, because its sleep
ends, and its end after `stop`. In `InMemoryProofStore` only those two are fair:
a sleeping collector is woken and a requested cancellation is delivered as long
as a loop runs. The other modules claim no liveness.

## Findings

* `challenge` reports every exception of the exchange query, and a missing or
  unconfirmed commit, as `compromised` (`client.py:827` with `client.py:1050`),
  also for a run that has saved its proof and is about to commit it; the
  Exchange keeps that verdict. The SDK's own rule is that such errors are
  ambiguous and not reported (`utils.py:483`). Run `ambiguous`.
* `SQLiteProofStore.get` deletes by `task_id` after judging a row it read
  earlier: a proof saved in between is lost (`storage.py:424`). The class
  docstring says concurrent calls are safe (`storage.py:266`). It needs a
  `task_id` that is saved again, as `on_task_complete` allows. Run `sqlite_resave`.
* `_ensure_gc_task` takes a collector that has been cancelled and has not run
  since for a living one (`storage.py:83`): a proof saved while `stop()` waits is
  watched by nobody, although `save()` means to ensure that the collector runs
  (`storage.py:102`). `SQLiteProofStore` has the same gap. Run `memory_watched`.
* `verify_signature` rebuilds the signed message with `isoformat()`, "+00:00"
  and six digits, where the backend writes `Z` and strips zeros
  (`client.py:1177`): no commit catalogued in UTC verifies, although the message
  "must match signCommit()" (`client.py:1175`). Run `signature`.

Seen while modelling and not the subject of a run, because they do not depend
on any interleaving or because one line shows them:

| Where | What the code does | What is said of it |
|---|---|---|
| `utils.py:319` | `atp_response` builds its result before the context commits: `"atp_committed"` is always `False` | `utils.py:295` shows `True` |
| `storage.py:377` | errors of `_open` reach the caller as they are | `storage.py:371` promises `ATPStorageError` |
| `client.py:216` | a name registered before is answered from the cache, and new capabilities or a new url are not sent | `client.py:164` |
| `client.py:125` | `_get_client` replaces the client `__aenter__` opened in the same loop, because `_client_loop` is still `None`; the opened one is never closed | `client.py:127` speaks of another loop |
| `client.py:1207` | two overlapping `close()`, or one of a client from an earlier loop, leave a client open | `client.py:1204` |
| `utils.py:421`, `client.py:821`, `client.py:1017` | the task whose sketch is looked up, which is reported and called verified is the one the answer names; it is not compared with the one asked for, so a valid proof of another task makes the call return `True` | "Challenge an agent for proof" (`utils.py:336`), "to provide proof for a task and verify it" (`client.py:665`) |
| `client.py:949` | `report_assessment` raises `ValueError` or `KeyError` for an unreadable body, and `ATPAuthError` for a 401 (`client.py:923`) | `client.py:885` |
| `client.py:654` | `verify_response` reports a commit that is not found as `ATPVerificationError` | `ATPQueryError`, `client.py:631` |
| `client.py:654` | `verify_response` reports a network failure as `ATPVerificationError` | `client.py:632` |
| `client.py:636` | `verify_response` raises `ATPAuthError` for a 401 | not listed, `client.py:629` |
| `client.py:502` | a body of the wrong JSON type, such as an object for a list or a number for a timestamp, raises `TypeError` or `AttributeError` in every method, past `except (KeyError, ValueError)` | the method's own error, for instance `client.py:471` |
| `client.py:398` | a request is sent once; `retry_attempts` is never read, nor is `max_verification_delay` (`config.py:46`) | `config.py:44` |
| `utils.py:227` | an asyncio task created inside a context still sees it after it was left, and adds to it what is never committed | `utils.py:39` |
| `utils.py:131` | a `Dependency` that came with a request is committed with its `challenge_url` | `models.py:148` |
| `utils.py:564` | one malformed dependency raises out of `pre_challenge_dependencies`, and the rest are not challenged | `utils.py:544` |
| `utils.py:592` | the list gets `ProofData`, which `add_dependent_proof` refuses with `TypeError` | `utils.py:551` |
| `hashing.py:319` | a timestamp with an offset is written as local time with a `Z`: the Exchange refuses the commit | `hashing.py:315` |
| `hashing.py:136` | the `evaluated_at` of a dictionary is hashed as it is, that of an object formatted: one dependency has two hashes | `hashing.py:174` |
| `client.py:639` | `verify_response` compares the hash of a text with the hash of the outcome dictionary | `client.py:624` |
| `client.py:1153` | `verify_signature` raises `ValueError` for a `CommitResponse`, which is what its example passes; without a key it returns `False` and fetches none | `client.py:1110` |
| `storage.py:492` | `expires_at` is compared as text: an offset other than UTC orders wrongly | `storage.py:256` |
| `storage.py:468` | at the very instant of its `expires_at` a proof is served by `get()` and not named by `list()` | `storage.py:459` |

## Proofs

Eight modules of proofs, all by invariance: an inductive invariant, one step per
action, and the properties from it: invariants, action properties, and the step
simulations of the refinements. They hold for every value of the constants
under the assumptions named in the modules (`RunAssumption`, `SQLiteAssumption`,
`InMemoryAssumption`, `RegistrationAssumption`, `HttpClientAssumption`,
`TaskContextAssumption`, `PreChallengeAssumption`, `OfflineAssumption`,
`ExpiryAssumption`): the distinguished values
(`NoProof`, `NoCommit`, `None`, ...) are none of the values they stand beside,
the parameters have their types, an `atp_task` run has a task of its own
(`uuid4`), and a `MinimalAdapter` keeps its proofs in memory. Implicit in the
models: SHA-256 does not collide, and the Exchange keeps the first commit and
the first assessment.

| Module | Theorem | Property |
|---|---|---|
| `ATPProtocolProofs` | `TypeCorrect` | `TypeOK` |
| | `FlagIsTrue` | `CommittedIsCatalogued` |
| | `CatalogueIsProvable` | `CataloguedIsBacked` |
| | `NothingTooEarly` | `UnfinishedPublishesNothing` |
| | `VerifiedIsTrue` | `VerifiedIsSound` |
| | `BlameHasEvidence` | `CompromisedHasEvidence` |
| | `VerdictsAreEarned` | verdicts are results of calls that held a proof |
| | `HonestIsSafe` | `HonestNeverCompromised` |
| | `PromiseKept` | `Attests` |
| | `VerdictsAreRight` | a verdict on the Exchange stays right |
| | `NobodyGoesBack` | runs, calls, requests and verdicts only go forward |
| | `RetriedIsSafe` | `VerifiedIsSound`, `CompromisedHasEvidence`, `HonestNeverCompromised`, `Attests` of the instance of run `retried` |
| | `StoreIsAStore` | the store the protocol uses is a `ProofStore` |
| `SQLiteProofStoreProofs` | `TypeCorrect` | `TypeOK` |
| | `SchemaIsMadeOnce` | `SchemaOnce` |
| | `WritersAlternate` | `OneWriter` |
| | `SavedOnceIsDurable` | `AckedIsDurable` of every task that is saved once and not deleted |
| | `GetsAreTrue` | what `get` reads, answers and deletes of a task saved once |
| | `LenientPromiseKept` | `ProofStore`, in which a task saved again counts as deletable |
| | `SavesAreDurable` | `AckedIsDurable`, when `Resaved` is within `Deletable` |
| | `PromiseKept` | `KeepsPromise`, when `Resaved` is within `Deletable` |
| | `CallsGoForward` | every step of a coroutine brings it nearer its end |
| `InMemoryProofStoreProofs` | `TypeCorrect` | `TypeOK` |
| | `PromiseKept` | `KeepsPromise` |
| | `WatchedUnlessStopping` | `SavedIsWatched`, when nothing is saved while `stop()` waits |
| `RegistrationProofs` | `RegistrationTyped` | `RegistrationTypeOK` |
| | `CacheIsRight` | `CacheIsTrue` |
| | `AssessorAsked` | `AssessorIsChallenger` |
| | `SketchesAreAuthoritative` | `SketchIsAuthoritative` |
| | `ProofsFindCommits` | `ProofFindsCommit` |
| | `SessionHasOneVoice` | proofs, challenges and verdicts name one system |
| | `SessionIsFixed` | identity and addresses, once known, never change |
| `HttpClientProofs` | `TypeCorrect` | `TypeOK` |
| | `RequestsStayInTheirLoop` | `OwnLoop` |
| | `CloseIsClean` | `RefusedOnlyAfterLeaving` |
| | `RaisesAreKept` | `ErrorsArePromised` |
| | `CloseLeaksNothing` | `NothingLeaks` |
| | `ClientTyped` | `ClientTypeOK` |
| | `ClientIsRight` | the safety properties of run `client`, of its own specification |
| `TaskContextProofs` | `TypeCorrect` | `TypeOK` |
| | `SeesTheInnermost` | `CurrentIsInnermost` |
| | `RequestsStayApart` | `TasksDoNotMix` |
| | `CommitsWhatWasAdded` | `CommitsItsDependencies` |
| `PreChallengeProofs` | `ListIsOrdered` | `ListedInOrder` |
| | `NothingIsSkipped` | `AllAreChallenged` |
| | `ContextTyped` | `ContextTypeOK` |
| | `DependenciesArrive` | the safety properties of run `context`, of its own specification |
| `OfflineVerificationProofs` | `UtcAccepted` | `UtcIsAccepted` |
| | `HashTells` | `HashIdentifies` |
| | `HashesReproduce` | `HashesAreReproducible` |
| | `SqlComparesTimes` | `TextOrderIsTimeOrder` |
| | `RecordsTyped` | `RecordsTypeOK`, when the instants compared in its second part are instants |
| | `NothingVerifies` | no catalogued commit passes `verify_signature` |

### ATPProtocolProofs

None of the properties is inductive alone. `IInv` is the conjunction of

* `TypeOK` with `CallInv`: a call reports only a verdict, and reaches one only
  with a proof in its hands, which is of the task asked for if an agent of this
  SDK answered. Without `CallInv` the type of `assessments` is not
  inductive, because a report writes `result[c]` there;
* `CommitInv`: nothing is posted before the proof is saved, the flag follows
  the reply, and what is catalogued was posted by some run of the task with that
  hash. With freshness of `atp_task` runs it gives `CommittedIsCatalogued` and
  `UnfinishedPublishesNothing`;
* `BackedInv`: from the save on, the proof of a durable `atp_task` run is there
  or has expired. With `CommitInv` it gives `CataloguedIsBacked`;
* `VerdictInv`: `VerifiedIsSound` and `CompromisedHasEvidence`. They are stable
  because the catalogue only grows (`CommitsStay`), although the checks were
  made at different times;
* `VerdictIsEarned`: the Exchange's verdicts are the results of calls;
* `HonestInv`: for a task whose runs have one content and no artifacts, the
  store and every challenger of an agent of this SDK hold what a run built.

`HonestNeverCompromised` follows from all of them: a verdict on the Exchange
was earned (`VerdictIsEarned`), so a cautious assessor had evidence
(`VerdictInv`); the content received has its hash (`HonestInv`) and the
catalogue the same one (`CommitInv`), so the evidence can only be an expected
content that is another one, or come from an agent that is not of this SDK.

`PromiseKept` maps the protocol to `Attestation`. The verdict of a call is its
result where that is one of the two the Exchange takes, and steps are told apart
by what they change: `CommitArrives` is a `Publish` of what the run made, a
`ReportArrives` that is recorded a `Report`, a check that decides a `Verify` or a
`Blame`. That a `Verify` is about work that was done needs `CommitInv` (the
catalogue's hash is that of a run); that a `Blame` is not of somebody `Trusted` is
the argument of `HonestNeverCompromised` at the moment of the decision, so both
follow from one lemma, `DecisionsAreSound`. `VerdictsAreRight` is what a reader of
the Exchange may conclude from a verdict.

`NobodyGoesBack` gives every state of a run and of a call the number of steps
that may lie ahead, and shows that each step of theirs makes it smaller: what is
left of `RunsEnd` and `CallsEnd` is that somebody takes the steps. It also says
that a verdict, and the proof it came from, are final while the report of them is
on its way.

`StoreIsAStore` ties the protocol to the stores: all it does to its store and
expects of it, changed artifacts, cancelled saves and crashes included, is what
`ProofStore` promises.

### SQLiteProofStoreProofs

`SchemaOnce` needs `TableInv`: the flag `_schema_ready` tells the truth, and a
coroutine past `_ensure_schema` may rely on it even when a crash has cleared the
flag. `AckedIsDurable` is far from inductive, since the delete of a `get` acts
on a row that was read many steps before. For a task that is saved again it is
false, which is the finding `sqlite_resave`; `DurableInv` is about the others
(`SavedOnce`: neither saved again nor deleted by the application), whatever is
saved, saved again and deleted beside them. It says what every coroutine may still
do: a task that was given has one proof (`OneProof`), the same on disk, in the
save in progress, in the row a `get` has read and in what was acknowledged; so a
coroutine on its way to delete an expired row (`Doing(p, "evict", t)`) can only
remove that proof, and the collector, whose cut-off time is never ahead of the
clock (`JobInv`), too. `KeptStays` is the frame lemma: a step after which every
coroutine is `Calm` about the task and the row changed in one of three harmless
ways keeps the invariant; the four steps that are not of this kind have proofs
of their own.

`GetsAreTrue` reads off the same invariant what a caller of `get` may rely on: the
proof `save` returned for, until it expires, and never one that was not saved. It
is false for tasks that are saved again or deleted, since the row was read earlier.

`LenientPromiseKept` builds on it as well. The rows on disk change in one place, the
statement that commits, so `WriteIsPromised` goes through its jobs: a save is a
`Put` of the promise, the delete that was asked for a `Delete`, and the collector's
and the late delete of a `get` a `Collect`, because `DurableInv` says that the row
they take has expired (`EvictedIsExpired`); the late delete of a task that was
saved again is a `Delete`, which `Lenient` allows. `StepIsPromised` lifts this to
every step; a crash and the clock are steps of the promise as they are. When
`Resaved` is within `Deletable`, `Lenient` is the promise itself (`PromiseKept`);
`SQLiteProofStoreSafe.cfg` is an instance of that hypothesis, with `Resaved` empty.

`CallsGoForward` numbers the places of a coroutine; a `get` may go through them
twice, because it deletes what it found expired. Every step that moves a coroutine
makes the number smaller, so that a call takes at most 14 steps: what is left of
`CallsReturn` is that it is let take them.

### InMemoryProofStoreProofs

The refinement is a step simulation: with `TypeOK`, every step is a step of
`ProofStore` or leaves its variables alone (`StepIsPromised`). A pass and a
`get` are a `Collect` of what is due (`CheckedCollects`), a crash is
`LoseMemory`. Nothing is assumed about repeated saves.

`WatchedUnlessStopping` is the converse of the finding `memory_watched`. Its
hypothesis is about the environment and is an action formula: nothing is saved
while a cancelled collector has not ended. Then `fresh` is empty whenever there is
a collector that will not run again, through loops and processes that end.

### RegistrationProofs

`CacheInv` ties the cache to the Exchange: what was answered `created` was
received, and what is cached was answered. The identity of a session is the head
of a list that is only ever extended (`CacheGrows`, `RememberFacts`), so it
never changes once it is there: this is what makes two lookups agree. The
address of a cached name is the authoritative one, because an answer from the
cache stores nothing; so a sketch committed for a cached name has it. `SessionIsFixed` states this as an
action property, and `SessionHasOneVoice` what follows from it for all that is done
in the name of the session.

### HttpClientProofs

`Owned` says that the client the two fields speak of was made in the loop they
name, or that the fields disagree and `_get_client` will make a new one;
`ClosedHasReason` that a closed client is only ever held while somebody leaves or
closes. `RefusedOnlyAfterLeaving` is an action property and follows from the
invariant at the step that refuses. `NothingLeaks` is strengthened to
`OneClient`: as long as nobody enters a session and one `close()` was begun, the
client that is held is the only open one, and there is none while the `close()`
waits, so a request that comes in between has nothing to orphan.
`OutcomeIsPromised` goes through the replies a method may get, by status and by
body; nothing is assumed of them.

`BothHalves` shows that a behaviour of `ClientSpec`, which run `client` explores,
is one of `RegistrationSpec` and of `Spec` at once, so the theorems of both hold of
it (`ClientTyped`, `ClientIsRight`). `BothWays` and `AllParts` do the same for
`ContextSpec` and `RecordsSpec`: what the runs check and what is proved are
properties of the same specifications.

### TaskContextProofs

`StackInv` is the heart: the contexts a task is in form a stack linked by their
tokens, whose bottom is what the task inherited (`Stacked`); `EnterStacks` and
`ExitUnstacks` push and pop it. `SeesOwn` and `ListsOwn` give isolation, `Lists`
says that a list is what was added on time as long as its context is active,
and that a sketch is a copy made at that moment, from which
`dependencies_hash` was made too.

### PreChallengeProofs

`Judged` says of one request that exactly what its loop has passed and could
challenge has a verdict; `Passed` that what is listed was passed. The next
dependency of a request is therefore later in its order than all it has in the
list, whatever others appended in between.

### OfflineVerificationProofs

`EvalInjective`, `DepInjective` and `ListInjective` show that the canonical
forms lose nothing the specification calls the same, which together with an
injective digest gives `HashIdentifies`; `TimesAgreeInUtc`, `UtcKeepsTime`,
`UtcKeepsEval` and `UtcKeepsDep` that they do not depend on the zone where they
should not, which gives the other two. `SqlComparesTimes` needs only the types
of the table: with the offset of both texts zero, text order is that of instants.
`NothingVerifies` makes the finding `signature` general: of whatever commit, record,
class and key, the message that is rebuilt ends in an offset where the signed one
ends in `Z`.

### Only model-checked

Liveness under fairness (`RunsEnd`, `CallsEnd`, `CallsReturn`,
`ExpiredIsCollected`, `StopReturns`) is beyond the proof system, which does not
reason about `ENABLED` and therefore not about `WF_`. What can be proved of the
first three is that they can fail for lack of a step only: `NobodyGoesBack` and
`CallsGoForward` bound the steps a run or a call can take. Every other property of
the passing runs has a theorem. That the four properties of the violating runs
fail is shown by TLC's counterexamples; what is true in their place is proved
(`BlameHasEvidence`, `LenientPromiseKept`, `WatchedUnlessStopping`,
`NothingVerifies`).

## Plan

Done, in this order: the protocol core and its proofs; the SQLite store and its
refinement; `Registration`; `HttpClient`; `TaskContext` and `PreChallenge`;
`InMemoryProofStore`; hashing and offline verification; `ExpiryOrder`;
`Attestation` and its refinement; the theorems of the composed instances; what is
left true where a property fails. Left:

1. `TaskContext` composed with `TaskCommit`: a run whose body adds dependencies.
   They meet in `__aexit__` alone, and each is checked and proved by itself.
2. The protocol over the two real stores instead of the abstract one, of which
   `StoreIsAStore` and the refinements of the stores are the two ends.

## Not modelled

* The wording of messages, logging, configuration parsing and pydantic
  validation: no behaviour over time. `create_commit` putting a default
  classification into the sketch it is given (`client.py:337`) is a change of
  data no property tells apart.
* The contents of the records that queries return: they are parsed and handed
  on. What a reply may do to its caller is `HttpClient`.
* The content of dictionaries: two contents and their hashes are enough for
  what the properties tell apart.
* `Dependency` objects shared with the caller and changed by it after they were
  added: the list, and not its items, is what `TaskContext` follows.
* A context left in another asyncio task than it was entered in.
* A cancellation of the caller of `stop()`, which `stop()` swallows.
* Rows without a zone in SQLite, where text is compared as if it were UTC.
