# A TLA+ model of the privacy-preserving inference gateway

This directory holds TLA+ specifications of the gateway in `src/`: the server
(`server/`, FastAPI) and its Python SDK (`client/src/heapi_client/`).  TLC
model-checks them on small instances and TLAPS proves their main properties for
every value of the constants.  Paths below are relative to `src/`.

Run a check with `tlc -config <run>.cfg <module>` (the table under "Runs" names
the pairs) and the proofs with `tlapm <module>Proofs.tla` and `tlapm Contracts.tla`.

## The system and its parts

| component | state | operations | interacts with |
|---|---|---|---|
| rate limiter, `server/core/security/rate_limits.py`, and tenant resolution, `tenanting.py` | `_hits`: tenant -> deque of stamps, `_lock` | `enforce_infer_rate_limit` | called first by both inference routes, on any worker thread |
| inference routes, `server/app/routes/infer.py`, `infer_plain.py` | none of their own | POST /infer, POST /infer/plain | limiter, registry, context cache, job store, evaluators |
| job store, `server/core/jobs/queue.py` | `JOB_STORE`: id -> record, no lock | `create_job`, `start_job`, `complete_job`, `get_job`; `fail_job` and `reset_jobs` are never called by the server | inference routes write, the job route reads |
| job route, `server/app/routes/jobs.py` | none | GET /jobs/{id} | job store |
| context cache, `server/core/crypto/context_cache.py`, `crypto_backends/ckks_pyfhel/context.py` | an `lru_cache` of 16 CKKS contexts | `get_cached_ckks_context`, twice per request | POST /infer, shared by all threads |
| model registry, `server/core/model_registry/` | `MODEL_REGISTRY`, read from a directory at start-up and constant afterwards | `load_model_registry`, two validations | every route reads it |
| evaluators, `he_execution/logistic.py`, `plain_execution/logistic.py` | none | one evaluation | called inside the request handler |
| envelope and ciphertext validation, crypto backend | none | tests of one request | POST /infer, POST /infer/plain |
| GET /models, GET /health | none | a sorted copy of the registry, a constant | registry, SDK |
| SDK: `client.py`, `discovery.py`, `ckks/session.py` | one call | `Client.infer`: discover, check, encrypt, submit, wait, decrypt | the HTTP API |
| SDK: `api.py`, `infer.py`, `jobs.py` | one connection, one loop | POST, GET with a socket timeout; `Jobs.wait` | the HTTP API |
| SDK: `ckks/wire.py` | none | hex encoding of ciphertexts | |

All routes are plain `def` functions: the framework runs each request on a
worker thread of a pool, so handlers interleave anywhere.  Only the limiter has
a lock.  Nothing is persistent: a restart empties `JOB_STORE`, `_hits` and the
cache and reads the registry directory again, while clients keep the job ids
they were given.

What is hard here, and what must hold:

* **limiter**: the clock is read before the lock, so old stamps enter a bucket
  late; the 429 is raised inside the lock.  No bucket may exceed the limit, no
  window may contain more than the limit, a 429 needs a cause, and the lock
  always comes back.
* **jobs**: `complete_job` writes the status, then the result; readers have no
  lock; clients vanish, evaluations fail and servers restart in between.  A job
  id that a client holds must mean the finished job of its own request, readers
  must never see half a job, states only move forward, results never change.
* **context cache**: `lru_cache` does not hold its lock while the function runs,
  so handlers build in parallel and evict each other's entries between the two
  calls.  Each must get the context of its own model, all of one model the same
  one, and the size limit must hold.
* **registry**: files are visited in any order and edited meanwhile; one bad
  file must stop everything.  Three pairwise comparisons (chain and depth, depth
  and polynomial, ...) must add up to a chain that is long enough.
* **client**: metadata is fetched, used, and may be out of date when the request
  arrives; `Jobs.wait` tests its deadline only after an answer and sleeps past
  it.  A call must end, in bounded time, must not give up a job that is done,
  and must not submit what the server is bound to refuse.
* **evaluation**: the client transposes a batch into one ciphertext per feature,
  the evaluator pairs ciphertexts with weights by position, starts its sums from
  `None` and skips zero coefficients, and the client cuts unused slots off.  The
  numbers must come out as those of the plain evaluator, for each sample and in
  order; a failure must have a cause; the multiplications must stay within what
  the registry counts on.

The file `PROJECT.json` lists these hazards line by line.

## Modules

| module | models | composed with |
|---|---|---|
| `RateLimiter` | limiter and tenant resolution | |
| `Gateway` | both inference routes, job store, job route, SDK connections, restarts | |
| `AbstractJobs` | what `docs/api.md` promises of jobs: atomic completion, one look, crash | |
| `GatewayRefinement` | the mapping that makes `Gateway` an `AbstractJobs` | `Gateway`, `AbstractJobs` |
| `ContextCache` | the cache and the two calls of POST /infer | |
| `ModelRegistry` | the loader, both validations, edits of the directory | |
| `Client` | one `Client.infer` and its `Jobs.wait`, against any server | |
| `Evaluation` | the values of one encrypted inference: packing, ciphertext validation, both evaluators, decryption | |
| `MC*` | the values of the constants for TLC | the module of that name |
| `*Proofs` | theorems and proofs | the module of that name |
| `Contracts` | that the server of `Client` refuses what `Gateway` refuses, with the proof | `Client`, `Gateway` |

Where a comment says "Mutant", the operator after it is a plausible error in the
code (a check dropped, an order swapped, `>` for `>=`).  No specification uses
it; it is there to show that the property it is paired with in `PROJECT.json`
does depend on that piece of code.

### RateLimiter

`clock` is `time()`, `lock` is `_lock`, `hits` is `_hits`, and `now[th]` and
`tenant[th]` are the locals of a thread in `enforce_infer_rate_limit`;
`admitted` is a history of all appends.  `Arrive` reads the clock, `Acquire`
enters the `with`, `PopExpired` is one turn of the pruning loop, `Reject` is the
429, `HasRoom` the length test and `Admit` the append.  The steps inside the lock
are separate so that mutual exclusion is a consequence of the lock.
`TenantId` treats an absent and a blank header alike and strips names.

**What the limiter does not promise.**  A stamp is the time of arrival, not of
admission.  A handler that is overtaken between its clock and the lock appends an
old stamp behind newer ones; after that the deque is out of order, so an expired
hit can hide behind a newer head and cause a 429.  Conversely a handler that is
rejected can prune, by its newer clock, a hit that is still in the window of an
older stamp that is appended next: Limit + 1 stamps, in the order of their
admission, can then lie within one window of each other.  What always holds is
`LiveWindowBound`, by the clock as it stands; `RejectionJustified` is stated for
tenants whose stamps have entered in order.  `time()` is a wall clock: the model
lets it only advance.  `_hits` never forgets a tenant, so it grows without
bound.

### Gateway, AbstractJobs, GatewayRefinement

A worker thread is at `limit`, `validate`, `create`, `start`, `evaluate`,
`complete`, `result`, `reply` of a POST handler or at `lookup`, `status`,
`fetch`, `reply` of a GET handler.  `req`, `own` and `draft` are the handler's
request, job id and response; `serves` is the client at the other end, or `Gone`
after its socket timed out.  A request is a record of what the validation looks
at: `wellFormed` (the envelope's schema), `model`, `arity` (number of inputs),
`sound` (all ciphertexts compatible), `batch`, and `finite`: whether what the plain
evaluator makes of it is a number JSON has.  A plain output that is inf or nan
completes its job and then cannot be sent: 500 (`PlainAnswer`).  `Verdict` is the
whole validation in the order of the code.  `SetCompleted` and `SetResult` are the two
writes of `complete_job`; `FoundJob`, `ReadStatus` and `ReadResult` the reads of
the job route.  `CreateJob` takes an id that was never given out, which is what
`uuid4` is used for.  `ClientTimeout` cuts a client off and leaves its handler
running, as the framework does with a handler on a thread.  `Restart` kills all
handlers and empties the store.  The registry is constant (it is, after start-up),
and the limiter is a free choice between 429 and going on, so that whatever
`RateLimiter` does is covered.

`Entry` is the registry's entry of each model, and may be anything the two
validations let through.  `floats` names the fields written as `2.0`, which JSON
Schema takes for an integer and `isinstance(_, int)` does not: POST /infer then does
not enforce the batch limit (`InferVerdict`), and POST /infer/plain answers every
request with 500 for a float dimension (`PlainVerdict`).  `parameters` says whether
the entry has weights, `activation` what its polynomial leaves of a ciphertext
(`Leftovers`): there is none, it is identically zero, it is a number, a number that
has bytes all the same, or a ciphertext.  `Evaluable` reads these: it is false for
every request the evaluators answer with an exception of their own, a `KeyError`, a
`ValueError` or an `AttributeError`, and for a result without `to_bytes()`.
`BackendRaises` adds what the library, or a float that overflows, may raise on top.

`AbstractJobs` knows no threads: a job is queued, running, or done together with
its result.  The mapping takes a job with status `completed` and no result for a
running one, so that the refinement holds only if nobody can look at it then.

### ContextCache

`cache` and `older` are the entries and the recency order of `lru_cache`, `call`
tells the first call of the route (inside its `try`) from the second one.
`Miss`, `Build` and `Store`/`Replace`/`StoreTooLate` are apart: the wrapped
function runs without a lock, and an entry that somebody else stored in the
meantime stays.  Two contexts are the same object when parameters and build
number agree.

### ModelRegistry

`disk` is the directory, `found` the listing, `read` what the loader found at
each path, `registry` the dict.  `Start` lists, `LoadFile`/`RefuseFile` are one
turn of the loop, for any file not visited yet (the order of `glob` is the file
system's), and `Edit` changes a file at any moment.  An entry is the record of the
numbers the checks compare; types, required fields and enumerations of the JSON
schema are one Boolean, `shape`.  `floats` lists the integer fields written as
`16.0`, which JSON schema accepts as integers and Python's `isinstance(_, int)`
does not.  A registry that was edited while it was loaded can mix files of before
and after the edit: each is valid as it was read, and nothing more is promised.

### Client

`pc` follows `Client.infer` from `discover` through `check` and `submit` into the
loop of `Jobs.wait` (`poll`, `get`, `answering`, `got`, `sleep`).  The server is
any that keeps to the API: it refuses what `Gateway` refuses, may work on the job
while the client polls, may lose it in a restart, may come back with another
registry, and says in several words that a job is done.  Time passes during a GET
(at most `RequestTime`) and during a sleep (exactly `Interval`); the code between
takes none.  `RequestTime` is an assumption about the server: `requests` applies
`API.timeout` to the connection and to each read, which ends a request to a server
that is silent and not one to a server that keeps sending its answer in pieces.
Entries are those of `Gateway`: with floats, which the server lists and the client's
own tests refuse, and incomplete, which make the schema of GET /models refuse the
whole listing (`Complete`).  `timeout=None`, which waits for ever,
and the optional request schema of `Infer` are left out.  `time.time` is taken to
advance steadily.  `ListedBefore` is the order of GET /models: versions compare
as strings, so that a caller who names none gets the first of them by that order,
not the newest.

### Evaluation

`pc` follows one inference through `encrypt` (`CKKS_Session.encrypt_feature_batch`),
`validate` (the loop of POST /infer over its inputs), `weigh` and `activate` (the
two loops of `he_execution/logistic.py`) and `decrypt` (`decrypt_slots`).
`features`, `linear` and `result` are `feature_ciphertexts`, `linear_ct` and
`result` of the code, `turn` counts the turns of the loop under way.  A payload is
the vector of its slots, the scale of its session, and whether it can still be
read; a loaded ciphertext is its slots and the number of multiplications on the
longest way to it.  A Python number counts as a ciphertext that holds it in every
slot, but has no `to_bytes()` that takes no arguments: that is the difference
`HasBytes` makes, and why a constant polynomial fails.  There is one exception
(`OneByte`, `RespondByte`): since Python 3.11, which the repository's CI uses,
`int.to_bytes()` has default arguments, so that a constant written as an integer
from 1 to 255 (`literal`) is answered with one byte, a 200 and a completed job, and
fails in the caller's decryption.  With 3.10 it is a `TypeError` and a 500 like the
rest.  `Sums`, `PlainLinear`, `PlainTerms` and `PlainOutput` are the
plain evaluator, on the same integers.

Callers are any that use the session: they send as many features as the model has,
or the single "pre-aggregated" ciphertext that POST /infer accepts; the SDK's own
checks are in `Client`, the batch limit in `Gateway`.  `Damage` makes a payload
unreadable on its way.  Models are what `ModelRegistry` serves (`Registered`), so
parts can be missing and polynomials constant.

## Runs

Passing runs, with what they show and why their bounds suffice:

| run (module) | properties | bounds |
|---|---|---|
| `RateLimiter` (`RateLimiter`) | `TypeOK`; `LiveWindowBound`: never more than Limit admissions with a stamp of the last window; `BucketBounded`; `RejectionJustified`; `LockReleased` | two threads are enough for a race and for one to overtake the other; two tenants; limit 2, window 1, four hits a tenant and clock up to 3: buckets fill, expire and fill again |
| `GatewaySafety` (`MCGateway`) | `TypeOK`; `ReceiptHonoured`: an id a client holds is the finished job of its own request, or lost; `FirstPollIsFinal`: no poll ever sees a half-written or unfinished job; `SoleWriter`; `JobsMonotone` and `ReadsAgree` (docs/api.md:103-104) | two threads, two clients, two jobs, one restart, with failing evaluations: a handler whose client has left, that client's next request and another client's poll overlap |
| `GatewayRefinement` (`MCGatewayRefinement`) | `StrandedForCause`: a job nobody works on is finished, or its evaluation could not succeed; `AnswerHasCause`: every answer to a POST is the one its own request calls for; `ImplementsAbstractJobs`; `PostAnswered`: a posting client gets an answer or is cut off; `HalfWrittenHeals`: no job stays completed without its result | two threads, one client, which may leave several handlers behind; a good model, one with floats for dimension and limit, one with a constant polynomial and one with neither weights nor polynomial; one request for every way through a handler, by either route; a backend that never raises, so that a 500 and a job left running must have their cause in the request (`GatewaySafety` has the one that raises) |
| `ContextCacheShared` (`MCContextCache`) | `ContextShared`, `SecondCallHits`, `BuildsBounded` | three threads miss two keys at once, room for both; four builds allowed, so that the bound of three is not the model's |
| `ContextCacheEviction` (`MCContextCache`) | `TypeOK`; `RightContext`; `CacheBounded` | three buildable parameter sets, which differ in one field, for two places; one set that the library refuses |
| `Registry` (`MCModelRegistry`) | `TypeOK`; `AllOrNothing` (docs/architecture/registry.md:177-182); `RefusesForCause`: the order of the files never decides; `LevelsSuffice` | three files, two edits at any time, any number of starts; one entry per kind of failure and both ways to pass one depth test without the other |
| `Client` (`MCClient`) | `TypeOK`; `NoAvoidableRefusal`; `WaitIsBounded`; `GivesUpOnlyOnUnfinished`; `CallEnds` | two versions that differ in everything, seven registries, one with a float dimension, one with a float limit and one with an incomplete entry; rows of every length class; `NoAvoidableRefusal` is about steps, restarts included: a call that names no version is refused only by a server that came back without its entry or its job; timeout 3, interval 2 and request time 2, none a multiple of another that would hide an off-by-one; one restart |
| `Evaluation` (`MCEvaluation`) | `TypeOK`; `AgreesWithPlain`: the caller gets what the plain evaluator computes; `OutcomeHasCause`: every outcome is the one its first cause calls for (`Verdict`), wherever among the inputs it is; `DepthBounded`: at most one multiplication more than the model declares | models of one and two features, every pattern of zero, one and other coefficients with every depth the registry lets them declare, constants at both ends of a byte, written as integers and not, models without parameters or polynomial; one to three samples for two slots; scales at and beyond both bounds; any payload damaged, first or last |

Runs that are expected to find a violation; each quotes the line it refutes in
`PROJECT.json`:

| run | shows |
|---|---|
| `GatewayNoStrandedJob` | an evaluation that raises leaves its job `running` for good: the route never calls `fail_job` |
| `GatewayAcceptedIsEvaluable` | one ciphertext for a model of several features passes all checks, becomes a job and fails in the evaluator |
| `RegistryLimitEnforced` | `max_batch_size: 2.0` passes both validations and is then not enforced by the route |
| `ClientSession` | a caller that names version 2 encrypts under the parameters of version 1 |

### Fairness

`RateLimiter!FairSpec` makes a thread inside the lock run on: nothing in there
blocks.  Nothing is assumed of who gets the lock, as `threading.Lock` is not
fair, so that no progress of waiting threads is claimed.  `Gateway!FairSpec`
makes every handler that has a thread run on; no handler waits for another one.
Clients, their timeouts and restarts are never forced, and an evaluation is
assumed to end.  `Client!FairSpec` makes the client's own code and time go on;
of the server only that a request ends within `RequestTime`, which the socket
timeout sees to unless the server sends its answer in pieces for ever.  The other
modules have no fairness and claim no progress.

## Proofs

All theorems hold for any values of the constants that satisfy the named `ASSUME`s
of their modules (a limit and a window of at least one, markers that are not
values, a finite pool of threads, the types of requests, entries and calls, one
model per identity); TLC evaluates these for the instances of the runs.  Bounds
such as `MaxTime` or `MaxRestarts` are constants too, so that the results hold for
every bound.  Every safety property of a passing run is a theorem.

### The limiter (RateLimiterProofs)

`TypeCorrect`, `BucketNeverOverfull`, `NeverOverTheLimit`, `RejectionsAreJustified`.
The bound of a bucket is not inductive alone: the length test and the append are
two steps, so it needs that the room a thread saw is still there (`RoomInv`), which
needs that threads in the `with` hold the lock (`LockInv`, of which
`MutualExclusion` is the part a reader wants).  The bound of the window needs to
relate the bucket to the history: the bucket is a suffix of it (`SuffixInv`), and
what is missing was outside the window when it was dropped and stays outside
(`PopInv`, which needs `StampInv`: a stamp is never in the future).  No order of the
stamps is needed.  With it, all of a bucket is inside the window when its head is, so
that a full one justifies a rejection (`BucketInWindow`).

`HolderNeverWaits` and `HoldIsShort` are the safety half of `LockReleased`, see below.

### The gateway (GatewayProofs, GatewayRefinementProofs)

`TypeCorrect`, `OneWriterPerJob`, `ReceiptsAreGood`, `PollsAreFinal`,
`JobsOnlyMoveForward`, `PollsAgree`.  The invariant says what the job of a handler
looks like at each of its labels (`WorkInv`), that the ids in replies and receipts
are *settled* (nothing but a restart will change the job, `ReplyInv`, `ClientInv`),
that GET handlers only ask for settled ids (`GetInv`), and that a connection has one
handler and one client (`ServeInv`).  That a GET cannot fall between the two writes
of `complete_job` is then a consequence of who knows the id when, and not of any
lock.

`AnswersHaveCauses` adds to it that a handler past its evaluation had one that could
succeed (`EvaluatedInv`) and that the request of a connection is the latest its
client sent (`PostingInv`): a client that timed out and posts again has an old
handler still running, whose answer goes nowhere.  `StrandedOnlyByFailure` says of
every job without a handler that it is finished or was left `running` by an
evaluation that could fail, for its entry, its inputs or the backend.

Two findings are refutations by TLC on an instance; the theorems say how far they
reach.  `ThreeKindsFail`: a request that has a job fails in the evaluators' own code
just when it is a single ciphertext for a model of several features (`Aggregated`),
is for an entry without weights or polynomial (`Incomplete`), or is encrypted and for
a polynomial that leaves nothing with bytes (`Constant`).  `NoneStrandedOtherwise`:
if the backend never raises, callers send one ciphertext per feature, and every entry
is complete and leaves something with bytes, then no job is left behind, whoever times
out and however often the server restarts.  The
registry and the route check none of this; a request that breaks one of the last two
conditions and passes the checks does leave its job behind.

`GatewayImplementsAbstractJobs` is the refinement, from the invariant: every action
maps to one abstract action or to a stutter.

### The context cache (ContextCacheProofs)

`TypeCorrect`, `ContextIsRight`, `CacheKeepsToItsSize`, `ContextIsShared`,
`SecondCallIsHit`, `BuildsAreBounded`.  A context a handler holds is its own model's
(`HandlerInv`), an entry belongs to its key (`EntryInv`), and if all parameter sets
fit nothing that a handler was given ever leaves (`StayInv`).  The bound on builds
counts handlers (`CountInv`): until a parameter set is cached all its builds are in
the hands of handlers about to store them, and afterwards only those that had missed
it before can build it.  `OneVictim`: the recency order is a strict linear order of
the keys (`Lines`), so that a cache that holds anything has exactly one victim.
With it, a handler can be held up only by the model's bound `MaxBuilds`, and not by
that either when all sets fit and the bound is at least the number of threads
(`HandlersNeverWait`, from `CountInv`).

### The registry (ModelRegistryProofs)

`TypeCorrect`, `RegistryIsAllOrNothing`, `RefusalHasCause`, `ChainIsLongEnough`.
`Reading` is the loop invariant: while loading, the registry is what has been read so
far.  `OrderDoesNotMatter` and `FilesDecide` are about the order of `glob`, which
TLC's runs vary too: the served registry is a function of what was read at each path
and, when nobody edits the directory, its files alone decide whether a start serves
or fails.  `OnlyFloatsAreNoLimit` delimits a finding: every limit that is not written
as a float is enforced.  `ServedAsAssumed` is what the other modules take for granted
of their models, by `ModelAssumption` and `RegistryAssumption`.

### The client (ClientProofs, Contracts)

`TypeCorrect`, `WaitNeverOverlong`, `TimeoutDeserved`, `DefaultVersionAccepted`.
`Clock` bounds the time at each place of the loop, `Look` says that an answer was
true when its GET was sent, `Checked` that what was submitted is what the checks passed, against
the entry discovered.  `DefaultVersionAccepted` needs no more, and holds across
restarts.  `FirstVersionIsServed` delimits a finding: the session
fits, and the server admits the request, whenever the version asked for is the one
discovery returned (`Chosen`), by name or by default.

`Contracts` puts `Client` and `Gateway` together, where the first has a server and
the second has clients of its own.  `SameVerdict`: for any registry, the gateway's
checks accept a submission just when some entry `Admits` it, and answer 404 just when
no entry has its name.  `CallIsServed`: a submission for the version discovery
returned, with no restart in between, passes these checks.  Two of the three kinds of
`ThreeKindsFail` are then excluded, since the SDK sends one ciphertext per feature and
refuses a listing with incomplete entries; the third is not, so that the job is
evaluated just when the model's polynomial leaves something with bytes.  The module instantiates `Gateway` with a
registry for its models and its entries; the rest of its constants and its variables are parameters,
since the checks read none of them.

### The evaluation (EvaluationProofs)

`TypeCorrect`, `ResultsAgree`, `OutcomesHaveCauses`, `DepthIsBounded`,
for models of any dimension and batches of any size.  The invariant follows the
values: the payloads are the columns of the batch (`InputInv`), the features are the
payloads in their order, each found valid (`FeatureInv`), there is one for each weight
(`MatchInv`), and the accumulators of the two loops hold the plain evaluator's partial
sums in every slot of a sample (`LinearInv`, `ResultInv`; a sum that is still `None`
counts as zero).  What is left of each sum at the end of its loop is the plain result.
`OutcomesHaveCauses` needs the converse too: a result is a number just when the
polynomial is constant, and then it is the constant (`ConstantResult`).
`Sums` is a recursive function; that its equation has a solution, and what it adds up
to, is proved by induction on sets (`SetInduction`: a set with 0 and with the
successors of its members contains `Nat`), from the library's fact that a set of
naturals has a least element.  `DepthInv` counts: the weights are the first
multiplication, the polynomial adds one, or two if it is quadratic.
`ReturnsThePolynomial` writes the result out for each sample: the polynomial at the
weighted sum of its features plus the bias, without the loop the plain evaluator has
for it.

### Liveness, as far as it can be proved

Liveness under fairness and `ENABLED` are beyond TLAPS, so that `LockReleased`,
`PostAnswered`, `HalfWrittenHeals` and `CallEnds` are model-checked
only.  What they rest on is proved, in two theorems for each component.  One says that
whoever is at work has a step to take, with the guards of the steps written out in
place of `ENABLED`; the other that each step lowers a natural number and that no step
of anybody else raises it:

| property | never stuck | every step leaves fewer |
|---|---|---|
| `LockReleased` | `HolderNeverWaits` | `HoldIsShort`: at most `_LIMIT` + 2 |
| `PostAnswered`, `HalfWrittenHeals` | `HandlersNeverWait` | `HandlersMoveOn`: at most 8 |
| (the context cache) | `HandlersNeverWait`, but for the bound of the model | `RequestIsShort`: at most 7 |
| `CallEnds` | `CallNeverStuck` | `CallMovesOn`: at most 6 (timeout + interval + request time) + 8, instants of waiting included |
| (an evaluation) | `InferenceNeverStuck` | `InferenceMovesOn`: at most 2n + d + 8 for n ciphertexts and dimension d |

What is left to TLC is that a fair scheduler takes the steps.  "Never stuck" needs
work of its own where a guard looks for something: that an id is left for a handler
about to create a job (the gateway's model has finitely many; this is its first
conjunct of `Submit`), that the record is there at each access to `JOB_STORE`, that
there is a victim to evict (`OneVictim`), that a model has a first version
(`SomeIsFirst`).  The last two are proved from the library's fact that a well-founded
relation has minimal elements.

## Disagreements of code and documents without a run of their own

* docs/api.md:93 and the OpenAPI file call a finished job `done`; the server says
  `completed`, and `Jobs.wait` takes `done` for an unknown status
  (`Client!Outcomes`).
* docs/api.md:67 has the inference "outside the request lifecycle" and jobs
  "accepted"; POST /infer evaluates before it answers, with 200 and `completed`.
  The `failed`, `queued` and `running` answers of GET /jobs/{id} can therefore
  never be seen by a client that got its id from POST /infer
  (`FirstPollIsFinal`).
* docs/architecture/registry.md:143 calls a validated entry executable, and line
  206 a listed one valid.  An entry may lack `parameters` or
  `activation_parameters`, or have a constant polynomial: it is served.  In the first
  case its requests all end in 500 with a job left running, and the response schema of
  GET /models rejects the listing in the SDK, for all models.  In the second POST
  /infer fails in the same way while POST /infer/plain answers
  (`Gateway!Evaluable`, `Evaluation!Verdict`; `ThreeKindsFail` and
  `OutcomesHaveCauses` are the theorems).
* A constant that is an integer from 1 to 255 is worse with Python 3.11: 200, a
  completed job, and one byte that is no ciphertext (`RespondByte`).
* `semantic_validation.py:97-102` says which `max_multiplicative_depth` the
  "activation coefficients require".  It counts the polynomial alone: the encrypted
  evaluator has multiplied by the weights before, and multiplies a square by its
  coefficient after.  A linear model multiplies twice and may declare a depth of 1,
  a quadratic one with a coefficient other than 1 three times and may declare 2:
  `DepthBounded` holds with its "+ 1" and not without.  `LevelsSuffice` is about
  the registry's own count.  Whether a multiplication by a number costs a level is
  up to the library.
* `semantic_validation.py:59` takes the ring degree for the packing limit; a CKKS
  ciphertext packs half as many values.  A batch in between passes the SDK's check
  and cannot be encrypted (`Evaluation!EncryptionFails`).
* A float `input_dimension` such as `2.0` passes both validations; POST /infer/plain
  then answers every request for the model with 500 (`Gateway!PlainVerdict`), and the
  SDK refuses it.  A float `max_batch_size` is no limit for POST /infer
  (`Gateway!InferVerdict`, and the run `RegistryLimitEnforced`).
* `create_job` has `default-tenant` for a default, `get_tenant_id` has `default`
  (the routes always pass the latter's); GET /jobs/{id} does not look at the tenant.
* The `KeyError` branch around the context code of POST /infer cannot be reached
  with a registry the loader has accepted.

## Not modelled

* The noise of CKKS, its rescaling and the rounding of floating point: `Evaluation`
  computes with integers and takes the library's operations to be exact.  What the
  library might raise in the middle of an evaluation is `BackendRaises` in
  `Gateway`; there the value of an evaluation is the pair of model and sample.
* Payloads that were altered and can still be read: nothing in the code could tell.
  The bytes of a ciphertext and their hex encoding (`ckks/wire.py`).
* The JSON schemas of requests and responses, other than by the verdict.
* GET /health, error classes, benchmarks: no state.
* The limiter and the gateway in one module.  A handler that is admitted creates at
  most one job, some time later, so that a tenant's jobs are bounded by its
  admissions and nothing more: neither the number of jobs created in a window nor
  that of evaluations at one time has a bound, and a restart empties `_hits`.  The
  composition would repeat `LiveWindowBound`.
* Thread safety of Pyfhel objects, which handlers share (`ContextShared` shows
  that they do): a property of that library.
* A server that sends an answer in pieces for longer than the socket timeout: the
  SDK's wait has no bound of its own for it, see `RequestTime`.
* Growth: `JOB_STORE` and `_hits` keep everything for the life of the process.

## Plan

Done, in this order: RateLimiter; Gateway with AbstractJobs and its refinement;
ContextCache; ModelRegistry; Client; Evaluation; the proofs of each; the safety half
of each liveness property; the contract between Client and Gateway.

Left: what a multiplication costs in the chain of a parameter set, once with the
library's rescaling and once without, to say of each entry the registry serves
whether its evaluation has the levels it needs.The other contract: that
`Evaluation` fails after validation just when `Gateway!Evaluable` is false; both are
translated from the same lines, and `Leftovers` is so far tied to the coefficients by
its comment only.
