# TLA+ models of telemeter

Telemeter federates metrics from OpenShift clusters. A **telemeter-client** in each
cluster scrapes Prometheus every few minutes, filters and anonymizes what it got and
uploads it to **telemeter-server**, which authenticates the cluster, limits its rate,
validates the upload and forwards it to an upstream as remote write. It also takes
remote-write requests itself (v2), and so does **rhelemeter-server**. This directory
holds TLA+ models of the parts that carry state or a protocol, their TLC
configurations, and TLAPS proofs about all of them.

    tlc -workers 2 -config MCForwarder.cfg MCForwarder     # one run
    tlapm ForwarderProofs.tla                              # one set of proofs

`PROJECT.json` lists the runs, for every definition the source lines it models, for
every property a mutant of the code that violates it, the findings and the hazards.

## 1. Inventory

| Component | State | Operations | Interacts with | What is hard | What makes it correct |
|---|---|---|---|---|---|
| Upload rate limit, `pkg/server/ratelimited.go`, `x/time/rate` | one token bucket per cluster ID, a mutex | `limit` | every request goroutine of `/upload` | stamps are read before the mutex, so they arrive out of order | passed uploads are spaced; refusals cost nothing |
| Client credentials, `pkg/authorize/token_store.go`, `roundtripper.go` | token, expiry, labels, a mutex | `Load`, `Invalidate`, `Labels`, `RoundTrip` | uploads, the label transformer, the server's `/authorize` | lock across an HTTP exchange; three critical sections per call; server restarts | no good token is dropped, no stale one kept, labels belong to the token |
| Server credentials, `pkg/authorize/jwt` | signing key, lifetime, required labels | issue, check | client credentials | restart with a new key | as above, seen from the client |
| Forwarder, `pkg/forwarder/forwarder.go` | the Worker's configuration, last metrics, a mutex, a channel | `Run`, `forward`, `Reconfigure`, `LastMetrics` | SIGHUP actor, `/-/reload`, `/federate`, run group | lock across two network calls, dropped in between; wake-up by a goroutine on an unbuffered channel | one configuration per forward; no lost wake-up; termination |
| Client pipeline, `cmd/telemeter-client/main.go`, `pkg/metricfamily` | labels cached by the label transformer | the transformers between Retrieve and Send | client credentials | families changed in place through shared pointers; order of transformers | what is sent is accepted, anonymized once, complete |
| Server pipeline (v1), `pkg/server/validator.go`, `forward.go` | the families of a request | the handlers around `/upload` | rate limit, upstream | in-place filtering with errors in the middle; several clock readings; timeout of the upstream | isolation of clusters; all or nothing; server time |
| Load generator, `pkg/benchmark`, `cmd/telemeter-benchmark` | running flag, context of the current workers, a mutex, a channel | `Run`, `Stop`, `Reconfigure` | signals, `/-/reload`, run group | a send with the lock held; Stop between two generations | reloads return, interrupts end the process |
| Remote write (v2), `pkg/receive`, `cmd/rhelemeter-server` | the series of a request | size limit, transform and validate, forward | upstream, authorization, the proxy in front of rhelemeter-server | arrays overwritten while they are ranged over; required labels counted, not matched; values compared after labels were removed | what is stored is the admitted part, under the name of the certificate where one is prescribed; the answer is true |
| Authorization cache, `pkg/cache`, `pkg/cache/memcached` | memcached's items, the memcached client, an RWMutex | `RoundTrip`, `Get`, `Set`, refresh of addresses | v2 requests, the authorization service, memcached | answers stored after a revocation; several memcached servers; the lock across the network and across a look-up of names | a revoked token is good for a bounded time; no refusal outlives its cause; nobody is stuck |
| Metrics client, `pkg/metricsclient`, `pkg/reader` | the running request, `err` shared with a goroutine | `Retrieve`, `Send`, `withCancel`, `LimitedReader` | forwarder | a context that ends while the answer is decoded; the byte limit | no partial answer passes as a whole one |
| Client and server together | the Worker's timer, the limiter | upload, retry, restart | all of the above | uploads that are charged but not seen to succeed, that come late, or twice | no refusal without a cause; uploads resume after faults |
| Upstream authorization, `authorize/handler.go`, `tollbooth`, `stub`, `ssl` | none | one HTTP call; the subject header | external service, proxy | status codes | |
| HTTP plumbing, logging, tracing, flags | none | | | | |

The hazards that follow from this are in `PROJECT.json` with the line where each bites.

## 2. Modules

| Module | Models | Composed of |
|---|---|---|
| `UploadQuota` | what the rate limit promises, over the whole history | |
| `TokenBucket` | the limiter of one cluster, as operators | |
| `RateLimiter` | the rate limit as it is | extends `TokenBucket`, instantiates `UploadQuota` |
| `TokenStore` | client credentials against the server that issues and checks them | |
| `Forwarder` | the Worker and the actors of telemeter-client around it | |
| `Benchmark` | the load generator and its run group | |
| `MetricFamily` | the transformers, as operators | |
| `Upload` | a request in telemeter-server | extends `MetricFamily` |
| `Scrape` | a forward's data in telemeter-client | extends `MetricFamily` |
| `MetricsClient` | one call of `Retrieve` or `Send` | |
| `Session` | client and server in time | extends `MetricsClient` and `TokenBucket` |
| `Receive` | a remote-write request in either server | |
| `AuthLease` | what the v2 token check promises | |
| `AuthCache` | the token check with its cache | instantiates `AuthLease` |
| `RateLimiterProofs`, `TokenStoreProofs`, `ForwarderProofs`, `BenchmarkProofs`, `AuthCacheProofs`, `SessionProofs`, `ReceiveProofs` | theorems | extend their module |
| `PipelineProofs` | theorems about both pipelines, on common lemmas about the transformers | extends `Upload` and `Scrape` |
| `MC...` | instances for TLC | extend their module |
| `MCPipelines` | instance of both pipelines | extends `MCUpload` and `MCScrape` |

### RateLimiter
A handler goroutine arrives (`Arrive`), is rejected without a cluster ID
(`RejectNoCluster`) or reads the clock (`ReadClock`: `now()` is an argument of
`s.limit` and is evaluated before the mutex), then runs the critical section
(`LimitRequest`) and its successor handler (`NextReturns`). `Advance`, `Allows`,
`Reserve` and `NewLimiter` (in `TokenBucket`) are `advance`, `reserveN` and `NewLimiter` of the vendored
library. The library counts tokens as a `float64` that grows by elapsed/limit, the
model counts units of time, so rounding is not modelled. The zero time of a new
limiter is the start of the model's clock: the bucket is full, so it makes no difference.
`passed` and `refused` are history variables; `passed` is a sequence, so that two uploads
passed with the same stamp count as two.

### TokenStore
One action per critical section of `tokenStore` and per step of the server. `Load` is
`LoadCached`, or `LoadExchange` followed, with the lock held, by `Authorize` (the
server issues) and `LoadStore`, or by `LoadFail` at any point. `Refuse` is the 401
that leads to `Invalidate`; `SendDone` is every other outcome of an upload. `Restart`
changes the server's key (no `--shared-key`), lifetime or labels. A token is a number,
its claims are what the server signed; signatures cannot be forged. `fate` is a
history variable. In telemeter-client the Worker's lock admits one caller at a time;
the type is an `http.RoundTripper`, which must allow concurrent use, and is modelled
with any number of callers. Clocks of client and server agree.

### Forwarder
`Run` is split where it can be interleaved: `ReadInterval` is a critical section of
its own, `ForwardBegin` takes the lock, `Retrieve`, `FilterFamilies` and `Send` are
the steps of `forward` between which a network call takes time, `ForwardEnd` is its
return with the release of the lock and the retry after a minute, and the three
`Select...` actions are the cases of the select. `BuildConfig` is `New` inside
`Reconfigure`, before the lock; `Install` is the rest, with the goroutine that wants
to send counted in `signals`. `BuildFails` and `HupReturns` end the SIGHUP actor,
`Cancel` is the run group's interrupt. A configuration is its number and the version
of the files it was read from; `overlap` and `reloaded` are history variables; what the pipeline does with metrics is `Scrape`.

### Benchmark
A generation is the set of workers under one context. `Spawn` is the critical section
of `Run`, `SelectDone` and the receiving half of `ReconfigureSend` are its select.
`ReconfigureSend` is one action because the lock is held from the send to the return,
and nobody can see the steps between. The run group (`ActorReturns`, `GroupStop`,
`GroupClose`, `SigReturns`, `GroupExits`) interrupts the actors in the order they were
added. Of the HTTP server in the group, only its failing (`ServeFails`) and its reload
handler are modelled: it ends as soon as its listener is closed.

### MetricFamily, Upload, Scrape
A family is a name, a type and a sequence of metrics with label pairs, a timestamp and
the kind of value set; numbers, help texts and encodings are left out. A transformer
is an operator that returns the changed family and a verdict: kept, dropped, an error
the server answers with 400, another error, or a panic. A label pair is a pointer in the code;
pairs the label transformer inserts are marked `shared`, which is what matters to a
transformer that writes through them. Texts carry how often they were hashed. What the
code does by moving elements forward in a slice is `Squeeze`, which keeps the elements at
a set of positions in their order.

`Upload` takes one request through the chain of handlers, one action per handler and
one per family in `Filter`. The clock is read where the code reads it and may be set
in between; an upstream that answers with an error, or not in time, may have stored
everything or nothing (`Forward`); `flags` is how the server was started; `Second` makes explicit that timestamps are overwritten with whole
seconds. The rate limiter refuses at will here. The order in which required labels
are checked is the iteration order of a Go map and is chosen nondeterministically.
`Scrape` runs the client's transformers over what was scraped, one action per family,
with the label transformer's cache (`resolved`, `given`) and a token that is renewed. Its
names differ from those of `Upload`, so that one module of proofs can extend both.

### MetricsClient, Session
`MetricsClient` is `withCancel` with its goroutine. `Do` and `DoFails` are the two ways
`client.Do` returns; `FnRetrieve`, `FnDecode`, `FnBreaks` and `FnSend`, `FnDrain` are
what the goroutine does, `SelectDone`, `SelectExpired` and `WaitDone` what the caller
does meanwhile, and `Expire` is the timeout. Bytes are counted in families, which is
enough to see a body end before, at or after the limit (`TooLong` is `LimitedReader`).
`Retrieve` returns one more family than it decoded, an empty one, because it appends
before it decodes; the client's first transformer drops it.

`Session` composes these calls with the Worker's timer on one side and the limiter on
the other. `Forward`, `Sleep`, `Wake`, `Reload`, `RetrieveReturns` and `SendReturns` are
`Run` and `forward`; `LimitUpload`, `HandleUpload` and `RefuseToken` are the server.
`GiveUp` may leave an upload on its way, which `LateUpload` delivers or loses;
`ClientRestart` and `ServerRestart` can come at any time until `Heal`. Time is relative
to the present. `woken`, `cause` and `refusals` are history variables.

### Receive
One request through the handlers of `/metrics/v1/receive`, one action per handler. The two
nested loops of `TransformAndValidateWriteRequest` overwrite their arrays in place, as in
the code: `TransformSeries` begins a round of the outer one over `series`, `CopyLabel` is
a round of the inner one over the labels (`lbls`, read at `look`, written at `fill`), and
`KeepSeries` sorts what was copied and writes the series back. `mount` is how a server mounts the endpoint: telemeter-server
behind the token check, with the cluster label required; rhelemeter-server behind a
proxy that passes the subject of the client certificate in a header
(`ClientCertInfoAsHeaders`), or with TLS of its own (`VerifiedByTLS`), with its subject
label. A label is a name, a number in the order of sorting, and a value; samples,
encodings and the content of matchers beyond equality are left out. A request carries
what its headers say; `Authorize` chooses the outcome of the token check at will.
`SortLabels` is the set of results `sort.Sort` may have, which has one member, since the
names that are left are different; were it empty, the run would deadlock.

### AuthCache, AuthLease
A handler decodes its token (`Arrive`, `ArriveMalformed`), reads the cache (`RLock`, then
`GetHit`, `GetMiss` or `GetFails`), asks the service (`UpstreamAnswers`, which is
external, then `ReceiveReply` or `UpstreamFails`) and stores a 2xx (`RLock`, `SetDone`)
before it returns it. `RefreshTick`, `RefreshLock` and `Refresh` are the goroutine that
renews the memcached client; it may find another server or none. `Grant` and `Revoke`
change what the service thinks, `Evict` and `Tick` what memcached holds, `Restart` loses
the handlers and keeps memcached. Deadlines and ages count in ticks; `CacheWait` is the
longest an operation on the cache takes. The service answers 200 (or 201) only for a token
that it grants and refuses only one that it does not; a 429, an error, no answer at all or
another 2xx can meet any token. `age`, `odd` and `cause` are history variables.
`AuthLease` says who may be served: a token that is granted, or was revoked less than
`Lease` = `Expire` + `Timeout` + 2 `CacheWait` ago.

## 3. Runs

Sizes are distinct states.

| Run | States | What it shows |
|---|---|---|
| `rate_limiter` | 1.9 M | spacing, free refusals, exact summary, refinement of `UploadQuota`; 2 clusters, 2 handlers, limit 2 on a clock up to 4, so that stamps race, cross the limit and coincide |
| `token_store` | 94 k | safety with `RefusedTokenLeaves` and `CallReturns`; 2 callers, 2 tokens, 2 keys, servers with tokens that rotate and with tokens that do not, each with labels of its own; margin and timeout of one tick and no leeway, so that a token which looks valid is accepted with nothing to spare (the proofs have every value) |
| `forwarder` | 19 k | safety and liveness with both reloaders, one reader, 2 file versions, 2 installed configurations: one can be installed while the signal of another is pending |
| `session` | 789 k | a limit of 2 families and answers of 0 to 3; interval and limit 4, retry after 1, so that up to four retries fall into the limit; faults until `Heal` |
| `auth_cache` | 265 k | 2 handlers, one token, 2 memcached servers, an item that lives one tick and a service that may take one to answer |
| `receive` | 18 k | three mounts; every series of up to three labels with own, foreign, empty and duplicate ones, and requests of two and three typical series, which is what it takes for a dropped series to lie before a kept one |
| `pipelines` | 485 k | on the server, isolation with the operator's labels, all or nothing, server time, with and without `--label` and `--elide-label` (where `Label` panics, nothing is forwarded); on the client, what is sent is accepted, anonymized once, and complete, with timestamps and labels. The two share no state, so that a behaviour runs one of them |
| `benchmark` | 471 | one reload with interrupt and shutdown |
| `upload_panic`, `scrape_rotation`, `receive_metadata`, `benchmark_reload` | violated | the findings below |

`CHECK_DEADLOCK FALSE` is set for Benchmark only: there the process does exit.

**Bounds.** Every bound is a constant named `Max...` in a guard. The tokens, installs,
reloads and rotations that are bounded are what repeats in the system; each run has
enough of them for one to be under way while another is complete. The bodies of
`MCUpload` and `MCScrape` have up to two families of up to two metrics with up to two
labels, which is what it takes for one to be bad next to a good one, for duplicate
labels and for unsorted metrics. Bodies do not contain label pairs named `__name__`.
`benchmark` is bounded to a single reload on purpose: with two, `ReloadReturns` is
false, as `benchmark_reload` shows. One token is enough for `auth_cache`, since tokens
share nothing but the lock, which two handlers contend for. In `Session` nothing is
bounded but the history (`refusals` stops one above its bound): time is relative and the
limiter's stamp is kept no further back than a full bucket.

**Fairness.** `sync.Mutex` passes itself to a waiter that has waited a millisecond, so
taking the lock is strongly fair. `Retrieve`, `Send` and the token exchange end by
their timeouts and are weakly fair, in whatever way they end. Go's `select` picks
uniformly among ready cases, hence strong fairness for the case of a context that
stays cancelled. An `RWMutex` lets blocked readers in before the next writer and keeps new readers out
while a writer waits. Nothing is assumed of timers, signals, requests, file changes or
server restarts: they may never come. In particular `ConfigApplied` holds however
long the interval is. `Session`, which is about durations, has time go on and every side
take the steps it can; its `DeliveryResumes` is about behaviours in which faults end
(`Heal`), and says nothing of the others.

### Findings
Details and quotations are in `PROJECT.json`.

1. `benchmark_reload`: two reloads in a row can block the load generator for ever,
   since `Reconfigure` sends with the lock held that `Run` needs to get to the receive.
2. `upload_panic`: telemeter-server with `--label` panics on a family of which the
   whitelist admits only some metrics.
3. `scrape_rotation`: the labels the server asks for are fetched once per configuration
   and not renewed with the token.
4. `receive_metadata`: a remote-write request of metadata alone is answered 200, where the
   repository's README says 400. (`AnswerTrue` is about requests with series.)

### Observations
Noted while modelling; the models behave in the same way, and no run is about them.

* *Load generator.* A `Stop` between `Reconfigure`'s return and `Run`'s next
  `b.lock.Lock()` (`benchmark.go:210-213`, `:245`) cancels the generation that is already
  cancelled; the next one is started, and if the group's own `Stop` falls into the same
  gap an interrupted process does not exit.
* *Anonymizing.* A label set by `--label` and named in `--anonymize-labels` is one pair
  shared by the metrics of a family (`label.go:57`, `:63`) and is hashed once for each of them.
* *v2 authorization.* `authorize/handler.go:125` says that unhandled codes "result in 500s
  to the client"; that holds for v1, while `NewHandler` answers 401 for every error, also
  for a timeout of the service, an error of memcached, or a memcached client left without
  servers by a failed look-up (`memcached.go:40`). A remote-write sender drops what is
  answered 4xx. A 2xx other than 200 and 201 is cached (`cache.go:68`) and refused from the
  cache until it expires; `RefusalCaused` names it as the one refusal that the cache
  prolongs. `cache.go:69` says
  "don't block", but the deferred `Set` runs before `RoundTrip` returns.
  Memcached takes an expiration of 0 as never and one of more than 30 days as a date.
* *v2 requests.* A required label may be empty, and is then removed. The whitelist looks
  at labels that are dropped as duplicates afterwards. `LimitBodySize` reads the whole body
  and refuses one of exactly the limit, though its comment says "not bigger than".
  rhelemeter-server without the header configuration refuses every series that carries the
  subject label, because nothing puts the certificate's subject into the context. Both
  servers go on with a nil receiver when `receive.NewHandler` fails.
* *Rate limit.* An upload is charged before it is validated and forwarded: after a failed
  one the client, which retries every minute, is refused until the limit has passed.

## 4. Proofs

All theorems hold for every value of the constants under the named assumptions of the
modules: number types, distinct null values, margin below the shortest rotated lifetime,
the SIGHUP actor being a reloader, finite label maps, requests and bodies that are
sequences of families, metrics and labels. No size is bounded by them. `Scrape` also
assumes that the decoder yields no nil metric and label pairs of their own, that the
values of `--label` are in clear, and that the server asserts no label which it would
itself refuse for its length: that is what its `--required-label` and cluster IDs must
satisfy for any upload to be accepted.

* **RateLimiterProofs.** `TypeCorrect`; `BucketSummary`, that a limiter summarises the
  history of its cluster, which is inductive together with types; from it
  `QuotaImplemented`, the refinement of `UploadQuota` (a critical section is a `Pass`
  or a `Refuse`, everything else stutters), and `QuotaKept`, the spacing of uploads.
  The step that matters is `DecidesLikeHistory`: with an empty bucket as of the latest
  passed stamp, the bucket allows a stamp exactly when the whole history does.
* **TokenStoreProofs.** `Invariance` proves the inductive invariant `IInv`: who is in
  an exchange holds the lock and is within the timeout (`HolderInv`), a caller's token
  was issued, and refused before it is invalidated (`CallerInv`), the store's expiry
  exceeds the server's by at most timeout minus margin (`StoreInv`), a live token is in
  the store or in the one reply under way (`LiveInv`). `OneExchange`, `LabelsOfNewest`,
  `UsableAccepted` and `OnlyRefusedDropped` follow. None of these properties is
  inductive without the lock invariant: two exchanges at once would break them all.
* **ForwarderProofs.** `IInv` says that a forward holds the lock and what it has read
  is current (`LockInv`), and that from reading the interval to the sleep a replaced
  interval means a pending signal (`SignalInv`). `ForwardWhole` and `SleepIsWoken`
  follow; `ReloadsInOrder` needs an ordering invariant of its own (`OrderInv`): while
  reloads do not overlap there is one under way at most, and it is not older than what
  is installed.
* **BenchmarkProofs.** `GenerationsReplaced` (`OneLiveGeneration`) needs to know where
  `Run` is: before `Spawn` the current generation is cancelled already, and generations
  not yet started have no workers (`GenerationInv`). That only one `Reconfigure` sends
  (`OneSender`) is the lock invariant; the rendezvous with `Run` rests on it.
* **AuthCacheProofs.** `LeaseImplemented` is the refinement of `AuthLease`, the abstract
  promise of the token check. The invariant bounds what is left of the life of
  everything that can still let a token in by the time since its revocation: an item in
  memcached (`ItemInv`), a reply under way and an answer that is about to be stored
  (`AnswerInv`), with the time an operation may still take (`LeftInv`). Revocation, the
  two operations on the cache, the reply and the item's expiry each add their share, and
  the sum is `Lease`. `RefusalsCaused` is an action property of the step that answers a
  request. It rests on `CauseInv`, that a refusal or an error under way has its cause
  since the request arrived, and on bounds for a 202, in memcached or about to be stored,
  by the time since the service gave it (`odd`), like those for a 200.
* **SessionProofs.** `AnswersWhole` follows from `CallInv`, which relates where the caller
  and the goroutine of `withCancel` are to what has been read. `RefusalsCaused` and
  `RefusalsFit` are about time: `CauseInv` says that without a cause the timer expires no
  sooner than the limiter's bucket is full again, `RefusalInv` that every refusal in a row
  has used up a retry's worth of the limit. Neither property mentions the timer or the
  bucket, so neither is inductive.
* **ReceiveProofs.** The loop that compacts the series in place (`LoopInv`) has put the
  i-th series, if it is whitelisted, where as many whitelisted ones come before it as
  among the first i of the request, and not touched those ahead. The loop over the labels
  has an invariant of its own (`LabelInv`): what it has copied to the front of the array
  are, of the names read so far, the first labels that are not empty (`Firsts`), each name
  once, and what it has not read is as it came. `CopyStep` is a round of it, `SortSound`
  that sorting what it leaves changes nothing but the order; with them `SeriesSanitized`
  is `DeliveredSanitized`. `AnswersTrue` counts by the same invariant, and `SubjectsBound`
  needs in addition that every series written has been compared with the subject
  (`SubjectInv`).
* **PipelineProofs, server.** `ClustersIsolated` is `Isolation`, that no client writes under
  another's labels, for bodies of any number of families, metrics and labels, any label
  map in the token and any `--label` and `--elide-label`. Lemmas say what each transformer
  guarantees of what it lets pass, and `Validated` chains them: the first label of each
  asserted name has the asserted value, and stays the first when labels are overridden,
  elided and, if empty, skipped (`FirstSqueezed`, `LabelsAppended`, `OwnedIsIsolated`),
  whatever order the label maps are iterated in. The invariant carries this from `Filter`
  (families before `next` are `Clean`) through `Pack` and the conversion to the series
  (`SeriesInv`). `SamplesStamped` (`ServerTime`) goes along the same way. What `FlattenSeq`
  and `Squeeze` return for a sequence of any length is proved in `Flattened` and `Squeezed`,
  by taking the least position at which they would be wrong (`Least`).

  `UploadsWhole` (`WholeOrNothing`) needs a second invariant, `LineageInv`: what `Filter`
  has kept so far, what `Pack` leaves and what has been converted each correspond one to
  one to the metrics of the body that the whitelist admits. `Flattened` and `Squeezed`
  yield such a bijection for one step, and they are composed from the body to the series.
* **PipelineProofs, client.** `ScrapeInv` says of every family before `cursor` that it was
  dropped and held no good sample, or that it is ready to be sent and holds all of them
  (`FamilyConfigured`, `FamilySorted`, `FamilyReady`, for each stage of the
  transformers); and that no family has been kept before the server was asked for its labels. Time may pass
  between two families, so a sample is good as of now: the good samples only get fewer,
  which is why the invariant survives `Tick`. `ForwardsAccepted` is then that a
  family which is ready passes each check of the server (`ReadyAccepted`), `LabelsAnonymized`
  that it was hashed once, and `SamplesKept` that `Pack` leaves every family with metrics.
  None of the three is inductive: each speaks of `send`, when `Filter` is over.

Only model-checked:

* all liveness, out of the prover's reach, as is ENABLED: `RefusedTokenLeaves`,
  `CallReturns`, `ConfigApplied`, `RunExits`, `CallsReturn`, `DeliveryResumes`,
  `EverybodyProceeds`, `ReloadReturns`, `StopHolds`, `ReconfigureTakesEffect`.

Every invariant and every safety property that a passing run checks has a theorem.

`RefusedOnlyForPassed` of `RateLimiter` is proved (in `QuotaKept`) and no run lists it:
`ImplementsQuota` contains it. `MaxBytes` = 1 leaves Prometheus no acceptable answer in
`Session`; the safety theorems hold there too, and the run has a larger one.

## 5. Not modelled

Cryptography, TLS, encodings and compression; values of samples; counters, logs and
traces; flag parsing; byte limits other than the client's and that of v2 (reading a body
fails or not); the development server `cmd/authorization-server`; clocks of client and
server that disagree, so that a sample at the age limit of 24 h passes the client and
costs the whole upload at the server; the unused
transformers (`drop_unsorted.go`, `drop_timestamp.go`, `expired.go`, `count.go`,
`none.go`, `MergeSortedWithTimestamps`); the components listed as not modelled in
`PROJECT.json`.

## 6. Plan

Done, in this order: `RateLimiter`/`UploadQuota`, `TokenStore`, `Forwarder`,
`Benchmark`, `MetricFamily` with `Upload` and `Scrape`, and the proofs of the first
three; then `Receive`, `AuthCache`/`AuthLease`, `MetricsClient` and `Session`; then the
proofs of `Benchmark`, `AuthCache`, `Session`, `Receive`, `Upload` and `Scrape`.

Worth adding when the code around it changes: client and server with separate clocks,
for the samples at the age limit; tollbooth behind v1 authorization.
