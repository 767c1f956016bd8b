# A TLA+ model of Teecryptor

Teecryptor is a decryption service that runs in a TDX enclave: it
reconstructs an FHE key at boot, and then decrypts ciphertexts by handle for callers whom the
host chain's ACL allows, if the ciphertext's bytes are the ones committed on a registry chain.
This directory models the parts of it in which order, concurrency, failure or limits matter,
checks them with TLC on small instances, and proves the central properties with TLAPS for
every instance. Paths below are relative to the repository; line numbers are in `PROJECT.json`
(`map`), which also lists the hazards the properties are aimed at.

## 1. Inventory

| Component | State | Operations | Hard behaviour |
|---|---|---|---|
| Commitment verifier, `src/commitment.rs` | LRU cache of positive answers with a TTL, behind a mutex | `fetch_commitment`, `refresh_commitment`, boot probe | lookups of several requests, a registry that is wiped and redeployed under a live process, and answers that arrive late all interleave at the one `await`; capacity; expiry |
| Request path, `src/http.rs` | admission semaphore, two v2 poll caches, per-request locals | `/decrypt`, `/sealoutput`, `/v2/...` submit and poll | two gates run concurrently; a cached hash is second-guessed after the ciphertext arrived; a future may be dropped at any `await`; every early return must release what it holds |
| CPU gate, `src/cpu.rs` | semaphore with a FIFO of waiters, blocking pool | `run_gated` | cancellation while waiting and while running, panics |
| ACP verifier, `src/permit.rs` | TaskManager address per chain | `verify_via_taskmanager`, `verify_publicly_allowed`, `resolve`, `probe` | the ACL changes under the request; retries at boot; zero address |
| ct-server client, `src/ct_source.rs` | a buffer per fetch | `fetch`, `probe` | a server that declares, delimits and cuts its body as it likes, breaks off or goes silent; one timer over headers and body; a cap on what is buffered; untrusted metadata |
| Boot, `src/main.rs`, `boot.rs`, `key_source.rs`, `env_policy.rs` | what has been validated, resolved, federated, loaded, installed | `from_env`, `resolve_acp`, `load_partner_tokens`, `load_keys`, `serve` | fail closed on every misconfiguration; tolerate some partners; never hang |
| Dependency health, `src/metrics/health.rs` | one atomic per dependency | `probe_dependencies`, `healthy` | probes write while a collection reads one atomic after another |
| Request metrics, `src/http.rs`, `metrics/decrypt.rs`, `metrics/http.rs` | per-request sink of write-once labels, two metric families | `track_metrics`, `observe` | labels are earned between awaits; a dropped future takes its recording with it; preflights and scanners reach the same layer |
| OTLP push, `src/metrics/mod.rs`, `otlp_http_client.rs`, `otlp_split.rs` | pipeline, one export in flight | build with fallback, collect, token, post in pieces | the metadata server or the API fails between two pieces; an export of exactly the cap, or one point more |
| Decryption, sealing, signing, `src/direct_decrypt.rs`, `decrypt.rs`, `keys.rs`, `seal.rs`, `signing/` | immutable keys | pure functions | word arithmetic; rounding at the boundary between plaintexts; forged envelopes; preimages that must be unambiguous; parity after low-S |
| Field parsing, `src/http.rs`, `permit.rs`, `commitment.rs`, `signing/service.rs` | none | handle, address, word, list, version | several parsers read the same text and must agree; padding; limits |
| Attestation and token clients, `src/tdx_common/` | none | HTTP over a socket | failure and timeout only |

Interactions: a request handler calls the ACP verifier and the commitment verifier (both
remote calls, concurrently), then ct-server, possibly the commitment verifier once more, then
the CPU gate. All requests share the commitment cache, both semaphores and the poll caches.
Boot decides which gates a process has. The probe loop runs beside the requests and shares
only the clients with them. The metrics layer wraps every route; a reader thread collects the
metrics and the health atomics, and pushes them.

What makes each correct:
* cache: bounded; coherent with the registry while the registry is write-once; bounded
  staleness across redeployments; absent answers neither cached nor able to push others out;
* request path: nothing is decrypted unless authorised within the request's own life, and (gate
  enforcing) only bytes the request's own lookup vouches for, of the handle's own type and zone;
  no mismatch is decided by a cached hash alone; a denial is never masked by
  a retryable answer; permits are conserved on every way out; every request ends;
* boot: ready implies gated; keys imply a quorum; retries exact; no hang;
* ct-server client: bounded memory; refuses only for a cause; always ends;
* health: never healthy unearned; the dashboard converges on the truth;
* metrics: every response of a decrypting route counted once, with the labels it earned; a
  duration only where a decrypt ran; no exported success hides a hole;
* pure functions: the plaintext comes out; nothing wider than its type; a signature stands for
  one answer; all parsers agree on a handle.

## 2. Modules

| Module | Models | Extends |
|---|---|---|
| `CommitmentCache` | `commitment.rs` | |
| `CommitmentStaleness` | the same with history variables | `CommitmentCache` |
| `DecryptPath` | `http.rs`, `cpu.rs`, the verdicts of `permit.rs` and `ct_source.rs` | `CommitmentCache` |
| `Decryptor` | what a client is promised, with no code in it | |
| `DecryptRefinement` | the refinement mapping from the request path to `Decryptor` | `DecryptPath` |
| `RequestMetrics` | `track_metrics` of `http.rs`, `metrics/decrypt.rs`, `metrics/http.rs` | `DecryptPath` |
| `CtFetch` | `ct_source.rs` | |
| `Boot` | `main.rs`, `boot.rs`, `key_source.rs`, `env_policy.rs`, `resolve` of `permit.rs` | |
| `Health` | `metrics/health.rs`, the probe loop of `main.rs` | |
| `Telemetry` | `metrics/mod.rs`, `metrics/otlp_http_client.rs` | `Health`, `OtlpSplit` |
| `OtlpSplit` | `metrics/otlp_split.rs` | |
| `DirectDecrypt` | `direct_decrypt.rs`, the key store of `keys.rs` | |
| `Answers` | `decrypt.rs` (encoding), `seal.rs`, `signing/` | |
| `WireFields` | the parsers of handles, ACP fields, versions | |
| `Algorithms` | one call of one of the pure functions per behaviour | `OtlpSplit`, `DirectDecrypt`, `Answers`, `WireFields` |
| `MC*` | instances for TLC | the module named |
| `SequenceLemmas` | induction and recursion up to a number; what `RemoveFirst`, `Front`, `Append`, `FlattenSeq` and maps do to a sequence | |
| `SplitLemmas` | what `OtlpSplit` computes, for every request and cap | `SequenceLemmas`, `OtlpSplit` |
| `CommitmentCacheProofs` | proofs of `CommitmentCache` and `CommitmentStaleness` | |
| `DecryptPathProofs` | proofs of `DecryptPath` | `CommitmentCacheProofs` |
| `DecryptorProofs` | the refinement of `Decryptor`, proofs of `RequestMetrics` | `DecryptPathProofs` |
| `BootProofs` | proofs of `Boot` | |
| `ClientProofs` | proofs of `Health`, `Telemetry` and `CtFetch` | `SplitLemmas` |
| `AlgorithmsProofs` | proofs of `Algorithms` | `SplitLemmas` |

Definitions commented "Faulty variant" are what a plausible bug would make of the
definition after them; they are used by no specification and exist to show that each property
can fail.

### CommitmentCache

`cache` and `lru` are the `LruCache` (map and recency order), `registry` the contract,
`call[t]` the one lookup a request has under way or has finished. `fetch_commitment` is
everything up to the `await`: a live entry is served and touched, an expired one popped.
`getCommitment` is the instant the node reads the chain, `Reconcile` the code after the
`await`; between the two anything may happen. `CallFails`, `CallTimesOut` and `Abandon` (the
future is dropped) are the other ways a call ends. Time is relative: entries and calls carry
ages that stop growing at the value beyond which the code cannot tell them apart, so no clock
has to be bounded. `Redeploy` wipes the registry; between wipes it is write-once.

### CommitmentStaleness

Adds `gone[h][v]`, how long ago `v` was the commitment of `h`, and `posted[t]`, whether a
commitment was on chain when the lookup began. `HistoryOnlyObserves` proves that this is the
same system.

### DecryptPath

One process per request; `pc` names the `await` it is at: `gates`, `ct`, `refresh`, `cpuwait`,
`cpu`, `joined` (the blocking task is done, the handler not yet polled). A step is all the code
between two awaits: `CtArrives`, for example, is the envelope checks, the hash comparison, and
then either the start of the re-read, the refusal, or the metadata checks and the entry into the
CPU queue. `Answer` is a return from `fetch_decrypt`, with which the admission permit is
dropped. `Respond` is the rest of the handler, which has no `await`: seal, sign, remember.
`Disconnect` is the drop of the future at any of these awaits: the admission permit, the place
in the queue and the lookup go with it, the blocking work does not.

A request's commitment lookups are `fetch_commitment` and `refresh_commitment` of
`CommitmentCache`; `PathImplementsCache` proves that the request path takes no step the cache's
specification does not have, so what is proved about the cache holds here.

`allowed` is what the ACLs hold; `AclChange` changes it at any time. `authorised` is history.
Bodies (`Inputs`), rows (`Replies`) and failures (`Faults`) are constants, so that a run can
restrict them to what it asks about. The handlers of v1 and v2 differ in layout, status codes
and the poll cache; only the last is modelled. Codes stand for the `code` of a response.

### Decryptor and DecryptRefinement

`Decryptor` is the service as a client may think of it: a request is asked, is open, and ends
answered (told the bytes' plaintext, or refused) or gone. `RevealTo` has the two conditions that
matter: the ACL allowed the request at some instant while it was open, and the bytes are those
the registry holds at that instant (before any wipe, if the gate enforces). The mapping makes
one open phase of all the awaits and one refusal of all the error codes; `authorised` is
`entitled`. `ImplementsDecryptor` is both checked by TLC and proved.

### RequestMetrics

Every step of a request also writes the labels it earns (`WriteLabels`: chain and permission on
entry, the width when both metadata checks have passed) and, if it produces the response, runs
the end of `track_metrics`. A dropped future records nothing. `Visit` is the traffic that
reaches the layer and no decrypting handler: other routes, wrong methods, preflights, unmatched
paths. The families are bags of label sets, so that double counting shows. `CountedOnce` names the
outcome each response deserves, but takes no side on a preflight to a decrypting route (section
4): it may count as `ok` or as `rejected`, once. `StatusOf` gives the
status of a code; its 400 for a body the extractor refuses stands for the 400, 415 or 422 of the
framework. The HTTP family is kept as the set of its series.

### CtFetch

One `fetch`: `Headers` (status, then declared length), `Chunk`, `BodyEnds`, `BodyBreaks`,
`TimesOut`. A body is delimited by a length, by chunked encoding or by the end of the
connection; only the last can be cut off unnoticed by HTTP, and is then no JSON. `late` is
history. `DecryptPath` uses the results of a fetch as its `CtFaults` and `Replies`.

### Boot

`stage` is the program counter of `main`; a step is one remote call with its timeout. `dep` is
the deployment: baked policy plus environment variables, with one bit for the variables whose
only check is that they parse. `book`, `share` and `secret` are the world outside: address
books (their owner may change them at any time), partners' shares, and what they reconstruct
to. `Retries` is one number although each chain can have its own. The reconstruction itself is
the library's: it is modelled by the contract its caller relies on (bad shares are dropped, a
threshold of good ones is needed).

### Health

The probe loop probes the named dependencies in order and then the chains in any order, and
stores each result; a collection loads one atomic per step. `lastUp` and `seenUp` are history.

### Telemetry and OtlpSplit

`with_otlp` is one metadata read of the build of the pipeline, which falls back to scraping if
one fails. The reader thread collects (`Collect`, `CollectStep`, the steps of `Health`), asks for
a token (`access_token`), and posts the pieces of the split in order (`send_bytes`); the first
failure ends the export. `Taken` is external: the API takes a request whole or, over its cap,
rejects it whole. `shown` is the verdict a dashboard has. Probing and collecting are steps of
`Health`: `TelemetryImplementsHealth` proves it.

`split_request` is `OtlpSplit`'s fold over the slices of the metrics, with the resource and scope
shells reopened where a piece was closed.

### Algorithms

Each behaviour is one call of one pure function with one of the given arguments, and the
invariants compare the result with what it should be: `fn` is the function called, `call` its
arguments. `DirectDecrypt` computes modulo `2^Word` as the code does with 64-bit words; `Pow2`,
`Total` and `Radix` are shifts, sums and positional numbers, written as recursive functions so
that they can be reasoned about. `Encryption` says when a ciphertext is one of the engine's
(external: blocks that hold the digits of the plaintext under a mask, with noise of at most half
a step); a call with a `plaintext` is assumed to be one, and TLC evaluates this assumption of
every ciphertext of the run. `Answers` keeps the byte layout of the two signed
preimages, because that they can be told apart depends on it; `to_be_bytes` gives all bytes of a
number, by repeated division, and a call is assumed to have numbers that fit their fields
(`Fits`), as the code's types do. The recovery id has both its bits, the parity of y and the
reduction of x. The box, nonces and keys are runs of bytes of the right lengths.

`deserialize` and `try_from` take a permission with all its eleven fields from the body to the
tuple the contract is asked about: what serde converts (numbers, `revokerData`, signatures), then
what `TryFrom` does. A text of `WireFields` is a prefix and characters: all hexadecimal
digits of either case, the `X` of a prefix that is not stripped, and a letter that is no digit. `Number` and
`Value` are what digits and bytes stand for.

## 3. Runs

| Run | Instance | Shows |
|---|---|---|
| `CommitmentLookups` | 2 requests, 1 handle on 2 chains, 2 hashes, capacity 1, TTL 2, timeout 1, 1 wipe, fairness | `CacheWellFormed`, `CacheAgreesWithRegistry`, `BoundedStaleness`, `NoLostCommitment`, `WarmEntriesSurvive`, `LookupEnds`, `StaleEntriesDie` |
| `CommitmentPermanent` | 1 request, 2 chains, room for both | violated: `PositivesPermanent` |
| `DecryptGates` | 2 requests with and without a permission, right and wrong bytes, 1 wipe | `TypeOK`, `AuthorisedOnly`, `CommittedOnly`, `RefusedRightly`, `DenialWins`, `ImplementsDecryptor` |
| `DecryptPool` | 3 requests, 2 admission permits, 1 CPU permit, poll caches of 1, gates off | `AdmitConserved`, `CpuCapped`, `QueueExact`, `PollsOwnResult` |
| `DecryptBodies` | 1 request with the metrics layer, every body, every label, every fault, 1 visit of other traffic | `MetadataBound`, `CountedOnce`, `DurationsMeanDecrypts` |
| `DecryptLive` | 2 requests, 1 CPU permit, warn-only, a ct-server that may time out, fairness | `WarnOnlyAllows`, `RequestEnds` |
| `DecryptFreshRefusal` | as `DecryptGates` | violated: `RefusedOnFreshHash` |
| `CtFetch` | cap of 3, bodies of up to 5, timeout 2, fairness | `BufferBounded`, `RefusedForCause`, `FetchEnds` |
| `Boot` | 21 deployments, 2 chains, 3 partners, 2 retries | `BootTypeOK`, `ReadyMeansGated`, `KeysNeedQuorum`, `RetriesExact`, `PartnersTolerated`, `BootEnds` |
| `Telemetry` | 2 named dependencies, 1 chain, a cap of 5 points, 1 series to be added, fairness | `HealthyIsEarned`, `ExportsWhole`, `DashboardConverges` |
| `Algorithms` | 10-bit words, keys of 2 coefficients, digits of 2 and 3 bits, words of 4 hexadecimal digits, addresses of 2, lists of up to 3 against a limit of 2, caps of 1 to 3 | `SplitExact`, `DecryptsPlaintext`, `WidthHolds`, `SignaturesBindAnswer`, `HandlesAgree`, `FieldsKeepValue` |
| `UnusedAddress` | as `Algorithms` | violated: `ZeroMeansUnused` |

Why the bounds are enough. The cache's hazards take two lookups that overlap, a second key to
evict the first, one wipe and a second hash to be stale about, and a TTL longer than a timeout;
that is the instance of `CommitmentLookups`. The handle is one and the chains two because the
cache is keyed by both and the registry by the handle alone: the two keys compete for the slot. Two
requests are enough for one to warm the
cache and the other to meet a stale entry; three for one to run, one to wait and one to be shed
or to wait behind a ghost. Requests do not interact otherwise; the metrics of one request do
not depend on another's, so one request and one visit meet every pair of label sets. The cap of
`CtFetch` can be missed, met and passed by a length, in one chunk or in several. The export of
`Telemetry` is exactly the cap before a series is added and one point over it after. In
`Algorithms` the modulus leaves a step of four between plaintexts, so that noise reaches both
ends of the half-open interval that rounds to one; a text can be one digit too long; a number can
be the largest of its field or one more, and each field of a permission is broken in turn. `MAX_U64`
is 1000 there, above the largest u8 and below the largest word, so that a `revokerData` in a text
can pass it as it can in the code. The bounds
on behaviour are `MaxRedeploys`, `MaxVisits` and `MaxSeries`; everything else that is bounded is
bounded in the code, or is a bound on inputs. Symmetry is over requests, which nothing tells
apart, and is not used where liveness is checked. The deadlock check is on, except in `CtFetch`,
`Algorithms` and `UnusedAddress`, where a call returns once and that is the end.

Fairness. `CCFairness` and `Fairness` assume that tokio fires timers and polls a task whose
future is ready, that remote calls end by their timeouts and that a decrypt terminates. Nothing
is assumed of the registry's node, of clients, or of the ACL. `BootFairness` assumes the same
of each stage except the key reader, whose calls this repository does not bound: `BootEnds`
therefore admits a boot that stays in stage `read`. `TelemetryFairness` is about the build of
the pipeline, the timer of the probe task, and the reader thread of a process that pushes, whose
calls all have timeouts; nothing is assumed of scrapes or of the services pushed to.
`FetchSpec` assumes that time passes and the client's timer fires; ct-server owes nothing.

## 4. Findings

* `DecryptFreshRefusal`: the documentation of `enforce_commitment_integrity` says "only a fresh
  on-chain hash that still disagrees refuses" (`src/http.rs:1231`), and that of
  `refresh_commitment` that "a decrypt is only refused on a hash the chain confirms right now"
  (`src/commitment.rs:412`). If the re-read fails, the code judges on the cached hash and
  answers a terminal `commitment_mismatch` (`src/http.rs:1296`). The comment at that branch
  says so and calls it failing closed; the two documentation comments do not.
* `UnusedAddress`: the documentation of a permission's fields says "Use `0x0` if unused" of the
  recipient (`src/permit.rs:221`) and "Use `0x0` to disable the revocation check" of the revoker
  contract (`src/permit.rs:238`). `parse_addr` (`src/permit.rs:297`) takes the empty text and a
  bare `0x` for the zero address and passes everything else to a parser that wants forty digits,
  so a permission with `0x0` is refused as malformed. No test sends it. `FieldsKeepValue` takes
  no side: it says nothing of an address with too few digits except that, if taken, it keeps its
  number.
* `CommitmentPermanent`: `SECURITY-OVERVIEW.md:227` says positive results are cached
  permanently; `get_from_cache` expires them after `COMMITMENT_CACHE_TTL_SECS`.

Smaller things met while modelling, which the models follow as the code has them and no run is
about:

* a preflight to a decrypting route is answered by the CORS layer and counted with the outcome
  `ok`, although `metrics/decrypt.rs:30` reserves it for "a response that carries a result" and
  218-220 say the same; `RequestMetrics` follows the code, and `CountedOnce` admits either outcome
  for a preflight, so that it holds whichever is meant;
* a fetch whose timer fires while the body is arriving is a `BadResponse`, hence 502
  `ct_source_error`, although `CtFetchError::Timeout` is "The request exceeded the configured
  timeout" (`src/ct_source.rs:46`);
* `0X` is accepted before a handle and before `revokerData` and refused in the other fields of a
  permission; a bare `10` is sixteen to `parse_b32` and ten to `u256_flex`;
* the width check bounds a value to whole digits, so for a digit width that does not divide the
  type's (none in production) a value may exceed the type by part of a digit: `WidthHolds` says
  exactly this;
* the field `gzipped` of `FheCiphertext` is documented as "expected `false`"
  (`src/ct_source.rs:33`) where the module's documentation and `http.rs` require true, and
  `seal.rs:16` says that responses are not signed, which they are;
* `GETCT_TIMEOUT_MS=0` is accepted, and `SigningMessageBuilder` is called by nothing.

## 5. Proofs

Every safety property that a run checks is also a theorem, for every value of the constants that
satisfies the named assumptions:
`CacheAssumption`, `PathAssumption`, `BootAssumption`, `HealthAssumption`, `CtFetchAssumption`
(positive capacity, TTL, timeouts and permits, which boot enforces or clamps; a hash that does not
collide on the bytes considered; finitely many requests and partners);
`MetricsAssumption`, `TelemetryAssumption` (bounds are numbers, the cap is positive);
`DirectDecryptAssumption`, `WireAssumption` (a word has bits, 32 bytes have an even number of
digits, the largest u64 is a number); and what `Algorithms` assumes of its arguments: that they have
the types the code's deserializers give them, that the numbers to be signed fit their fields, that the key's moduli are positive, that no two resources of an export are
equal, that the signer's `s` is a scalar of its group, and that what is called an encryption is one.

* `CommitmentCacheProofs`. `CCInv` adds to the type invariant and `CacheWellFormed` that a
  positive answer on its way, while no wipe happened, is what the registry holds, and that no
  entry is ZERO. Without the answers in flight, coherence
  of the cache is not inductive: `Reconcile` stores what was read earlier.
  For the history variables, `SInv` bounds how long ago an answer in flight was on chain by
  how long its call has run (`AnswersRecent`), hence an entry's by its age plus one timeout
  (`EntriesRecent`).
* `DecryptPathProofs`. First the refinement `Spec => CCSpec`. Then `PathInv`: what each `pc`
  implies about the request's body, gates, ciphertext, lookup and membership in the queue and
  the blocking set. The counting properties follow from the cardinality theorems of finite sets,
  the queue from `SequenceLemmas`.
  `AllCommitted` carries the result of the lookup a request passed on to the bytes it decrypts.
  Past the comparison the lookup is finished and vouches for the bytes (`Vouched`), which no wipe
  changes; while none happened its hash is the one the registry still holds, by the coherence
  proved of the cache. A mismatch is answered only if a lookup that read the registry contradicts
  the bytes or failed (`Contradicted`): for that the invariant keeps that a request in its re-read
  has left the cached answer behind.
* `BootProofs`. `BootInv` says what each stage leaves behind for the next: the deployment was
  accepted, chains not pending are resolved, tokens and failed partners partition the partners,
  and the retry counter is the number of failures of the one chain being resolved.
* `DecryptorProofs`. `PathImplementsDecryptor`: each step of the request path is a step of
  `Decryptor` or leaves what a client sees alone. The step that matters is the one that answers
  `ok`: that it is a `RevealTo` needs `AuthorisedOnly` and `AllCommitted` of the proofs above.
  `MetricsOnlyObserve` shows that the metrics layer adds no behaviour to the path, so that all
  of this holds of the process with its metrics. `PollsAreOwn` needs that an entry of a poll
  cache is of a request that ended `ok`, with that request's operation; `WarnOnlyRefusesNothing`
  is that in warn-only mode no commitment code is ever an outcome.
  `CountedOnce` and `DurationsMeanDecrypts` follow from `MetricsInv`: for every label set, the
  count in the bag is the number of answered requests that deserve it plus the number of visits
  that do (`Counts`), and until a request ends its sink holds what its `pc` has earned
  (`SinkInv`). Without the sinks this is not inductive: the step that answers reads the labels
  earlier steps wrote.
* `ClientProofs`. `HealthInv`: an atomic is UP only if the dependency answered its last probe,
  and everything the scan has passed was up at an instant of it. `TelemetryImplementsHealth`
  maps the push to `Health`, and `PushedVerdictIsEarned` follows. `FetchInv`: what is buffered is
  what was sent, and within the cap; every error is then the one its cause has. `ExportInv`: what
  the API has received, followed by the pieces still to be posted, is what the body holds. That
  it holds when posting begins is `SplitLemmas`.
* `SplitLemmas`. `PackOk` is the invariant of the loop of `split_request`: the closed chunks and
  the open one hold the points of the slices taken so far, in order; closed chunks are within the
  cap, and none could have taken in the next.
* `AlgorithmsProofs`. `CallInv` says that a call returns what its function computes, so each
  theorem is one about the function. `SignaturesAreBinding` reads each field of a preimage back by
  its place, and the number from its bytes: dividing by 256 and reading to the base 256 are
  inverse on numbers that fit (`BytesAreRead`). `HandlesAreOne` and `FieldsAreKept` go through `RadixOfPairs` (a number is the same
  read by digits and by bytes) and `RadixOfPadded` (zeros in front change nothing).
  `WidthsHold`: digits below `2^p` make a number below `2^(p * n)` (`DigitsFit`), and `n` is
  bounded by `TooWide`. `DecryptionIsCorrect`: the wrapping subtraction leaves the step and the
  noise (`Unmasked`), rounding takes the noise away (`Rounds`), so that a block decodes to its
  cleartext (`BlockDecodes`); the digits are then those of the plaintext (`DigitsDecode`), and
  partial sums are its remainders by powers of two (`PositionalIs`).

Induction over data is done with sets: `UpTo` derives from the least counterexample that a set
with 0 and closed under successor holds every number up to n, and `Recursion` that a function
defined step by step exists. A recursive definition is then shown to be what any function that
satisfies its equations ends with (`FlattenBy`, `RadixBy`, `TotalBy`, `Pow2Is`).

Type correctness is proved of every specification with an invariant proof (`CacheTyping`,
`StalenessTyping`, `PathTyping`, `BootTyping`, `HealthTyping`).

Only model-checked: the liveness properties `LookupEnds`, `StaleEntriesDie`, `RequestEnds`,
`BootEnds`, `FetchEnds` and `DashboardConverges`; liveness under fairness is beyond the proof
system used.

## 6. Not modelled, and the plan

Not modelled: the layout of requests and responses, logging, CORS headers, TLS, protobuf, the
text exposition and the buckets of histograms; the read-only `/signerAddress`; the insides of
`crypto_box`, ECDSA and keccak, and the EIP-712 hashing of `verify_local`, which only tests
call; `VersionStatus` (a log line); the
`legacy-plain-decrypt` feature and the mock build, which the attested build compiles out; the
attestation and token clients of `src/tdx_common/`, single calls whose failure is `PartnerFails`
of `Boot`; Terraform, CI and tools.

What is left:
1. `Service`: `Boot` and `DecryptPath` composed, with the gates of the request path taken from
   what boot installed, and the zero ciphertext timeout boot accepts;
2. theorems that combine modules: `CtFetch`'s results as the faults of the request path, and the
   decryption of `DirectDecrypt` under the value the request path reveals.
