# A TLA+ verification of humanymous

humanymous is a bot-detection engine (the *Core*, `cmd/server`) and a reverse proxy that enforces its
verdicts (the *Gate*, `cmd/gate`). This directory models the parts of it whose correctness depends on
the order of events: crashes between two writes, handlers that interleave with tickers, nodes that
share a store. TLC checks the models on small instances; TLAPS proves the central results for every
value of the constants. `PROJECT.json` maps every definition to the lines it models.

## The system

| Part | Source | Model |
|---|---|---|
| Audit log: hash chain, write-ahead log, signed tree heads, witness, verifier, effects behind records | `internal/audit` chain, record, sink_wal, sink, verifier, witness | `AuditLog`, `AuditLedger` |
| Pseudonym vault, sealed keystore | `internal/audit` pseudonym, keystore | `Erasure` |
| Dual-control approvals, erasure queue, shred ticker, shutdown and boot of the Gate | `internal/gate` approval, erasure, adminauth, gate; `cmd/gate/main.go` | `Erasure` |
| Sticky verdicts, shared through Redis | `internal/gate` redisledger, enforce; `internal/redis` | `FleetVerdicts` |
| Ban ledger, rate limits, shared through Redis | `internal/gate` ban, redisledger, redisratelimit; `internal/abuse` | `FleetBans`, `RateLimit` |
| Settings overlay: propose, classify, compare-and-swap, expiry, rollback, file store | `internal/gate` admin_settings, settings_*; `internal/gate/settings` | `SettingsPolicy`, `AdminPlane` |
| Operators: roles, approvals, kill switch, bans | `internal/gate` admin, adminauth, approval | `Approvals`, `AdminPlane`, `AdminApi` |
| Request pipeline, route policies, injecting reader | `internal/gate` gate, gates, config, enforce, smuggle, inject | `GatePipeline`, `Injector` |
| Beacons of the control plane | `internal/gate` control, control_collect, settings_engine | `ControlPlane` |
| Verdict tokens, epochs, step-up, single use | `internal/gate` token, epoch, privacypass, webauthn, webbotauth | `TrustTokens`, `SingleUse` |
| Core sessions, integrity token, proof of work | `internal/collector`, `integrity`, `pow`; `cmd/server` | `SessionCore`, `SessionScoring` |
| Pass challenge, attestation | `internal/pass`, `attestation`; `cmd/server` pass_* | `PassChallenge` |
| Signals, score combination, hard rules, trace | `internal/signals`, `internal/scoring` | `Signals`, `Scoring` |
| Merkle tree and proofs | `internal/audit` merkle, proofs | `Merkle` |
| Admission, canary and rollback of behavioural models | `internal/mlcorrect`, `mlserve`; `cmd/server` ml_setup, mlcorrect_ops | `ModelCanary` |
| Traffic log, fingerprint correlation | `internal/trafficguard`, `correlation`, `anomaly` | `TrafficLog`, `Correlation` |
| Live feed | `internal/livefeed`; `cmd/server/playground.go` | `LiveFeed` |
| Fingerprint parsers, watermark codecs, model numerics, browser collectors, logger, reports, red-team tools | `internal/network`, `watermark`, `resource`, `mltrain`, `detect`, `logger`, `report`; `cmd/redteam`, ... | not modelled, see the end |

A browser sends beacons to the Core or to the control plane of a Gate, where they are merged into a session
(`SessionCore`, `ControlPlane`), enriched with what the traffic log and the correlation registry know
(`TrafficLog`, `Correlation`) and scored (`Scoring`). The verdict becomes sticky (`FleetVerdicts`) and, on
ALLOW, a token (`TrustTokens`); the edge applies both to every request (`GatePipeline`), together with bans
and rate limits (`FleetBans`, `RateLimit`). A visitor in doubt proves themself with a Pass
(`PassChallenge`); its outcome also feeds the canary of the behavioural model (`ModelCanary`). Operators
change policies and bans under dual control (`AdminPlane`, `AdminApi`).
The Gate asks the audit log to seal a record before every effect (`EmitAndAct`), so every other
component of the Gate stands on `AuditLog`. The vault supplies the pseudonyms in those records; an
erasure destroys one key of it and leaves the chain verifiable.

## AuditLog

**State.** On disk: the record lines of all segments (`wal`), how many of them fsync made durable
(`synced`), the last segment, a segment that ends in a partial line (`torn`), and the checkpoint
sidecar (`cpFile`). In the process: the fields of `Log` and `Witness`, where `Append` is (`pc`), the
sticky error of the `bufio.Writer` (`stuck`), and the records whose effect has not run (`pending`).

**Actions.** `Append` runs under `l.mu`; it is split where a crash or an I/O error can part its work:
`AppendWrite` (seal, rotate if due, flush), `AppendCommit` (fsync, commit, ring trim, tree head and
counter-signature when due) and `AppendCheckpoint` (the sidecar line). `AppendWriteFails` and
`AppendSyncFails` are its panics. `Act` is the effect of `EmitAndAct`. `ReadAll` truncates a torn
tail, `Crash` keeps any prefix that contains what was synced, and `Boot` replays.

**Abstraction.** Cryptography is ideal: a hash is a fresh number, a Merkle root is its sequence of
leaves, a signature is the chain of heads it covers. Files are sequences of lines.

**Constants.** `CheckpointEvery`, `RingCap`, `RotateLines` are the configured sizes; `MaxRecords` bounds
the records sealed; `Faults` says which faults may occur besides a crash: a failed flush (`write`), a
failed fsync (`sync`), a lost (`cpLost`) or torn (`cpTorn`) checkpoint line.

`AuditLedger` is the abstract promise: an append-only ledger, and effects only for what it holds.

## Erasure

**State.** The vault (`keys`, reverse `index`, tombstones `shredded`), the handlers in flight
(`collecting`, `granting`), the in-memory stores (`pending`, `scheduled`), what the ticker holds
(`running`, `certifying`), the shutdown's copy of the vault, the keystore file, the audit records of
erasures (`certificates`).

**Actions.** `Pseudonymize` and `LinkHandle` are the two locked steps of a collect request.
`RequestErasure`, `ListApprovals`, `Approve`, `Schedule`/`GrantFails` and `Cancel` are the admin
handlers, split where another goroutine can run. `Due`, `RunShred` and `EmitCertificate` are the ticker.
`Drain`, `TakeSnapshot`, `BeginSeal` and `EndSeal` are the clean shutdown: the ticker is not stopped,
so its actions stay enabled, and `os.WriteFile` truncates before it writes. `Crash` also stands for a
seal that fails and for a panic in the ticker. `Boot` refuses a torn keystore, so the system may stop
for good: deadlock is not checked in these runs.

**Abstraction.** A key is a fresh number that also names the handle derived from it. A request names a
subject or a handle; a handle the index no longer knows is taken as a raw subject, as in the code.

**Fairness.** Time passes (`Tick`), and the ticker goroutine makes progress while the process runs
(`Due`, `RunShred`, `EmitCertificate`): `main` starts it unconditionally and nothing blocks it but
mutexes held for bounded work. No fairness is assumed of operators, clients, shutdown or boot.

## FleetVerdicts

**State.** One session's verdict, which is the time of its scoring: the key in Redis (`store`), the SETs
sent (`written`), and per node the mirror (`local`), the high-water mark (`hwm`), the Gets in flight
(`reading`) and the last verdict a Get took from the store (`returned`, an auxiliary variable).

**Actions.** `Set` writes the mirror (a full one does not track a new session) and sends a SET whose
error is dropped. `Ask`, `Reply`/`ReplyEmpty` and `Judge` are Get: the request's clock, the command, and
the comparison under `l.mu`; other handlers and the sweep run in between. `GC` is the periodic sweep.
`StoreTakes` and `StoreDrops` are Redis: it takes any SET that was sent at any time, in any order and
again (a failover), or loses the key.

**Abstraction.** Values are sealed for their key, so the store returns what a node wrote or nothing. The
breaker of the client is the choice between `Reply` and `ReplyEmpty`. What Get returns from the mirror
is not followed: the properties are about verdicts of the store.

**Fairness.** Time passes, the minute ticker of `main` sweeps every node, and a Get ends: the client
sets deadlines and the rest of Get only takes mutexes. Nothing is assumed of Set or of Redis.

## The parts of a Gate node

Every module below has its own variables, with a prefix, so that `MCGatePlane` and `MCCorePlane` can extend
several. Where two parts do interact, one module has the interaction: a beacon's scoring and its sticky
verdict in `ControlPlane`, the Pass receipt and the proof at the edge in `TrustTokens`, the overlay and the
limiter in `AdminPlane`, a session and the scoring engine in `SessionScoring`.

**FleetBans.** One key in a fleet. State: the entry in Redis and the commands that may still reach it, and per
node the mirror, the strikes, the remembered lift, the request that has read the clock and the lift under
way. `Request` to `AutoBan` are the ban gate, split where `BanStore` gives up its lock; `Lift` and
`LiftEpoch` are the two halves of an operator's lift; `RedisTakes` and `RedisDrops` are the store, as in
`FleetVerdicts`. `bansChain` is a history variable.

**RateLimit.** The hits of one key on every node and in Redis (`ObserveShared` is the Lua script,
`ObserveLocal` the fallback), trimmed by the window of whoever calls; `Configure` changes a node's window
while others still have the old one. `Above` is the trimming loop; the live feed replays its ring with the same.

**SettingsPolicy, Approvals, AdminPlane, AdminApi.** `SettingsPolicy` has the pure functions: `Validate`,
`Classify`, `Resolve` and the hash that names a posture (the set of fields it covers; a hash is
ideal). `AdminPlane` has the approval store, the handlers between their steps (a proposal is classed against
the posture it read, `Propose`, and meets the kill switch afterwards, `ProposeDecided`; check of the parent
version, store, limiter), the active and last-known-good files, a write that fails or is torn by a
restart, and lazy expiry. `adAgreed` is a history variable: the demotions two persons agreed to. `AdminApi` has authentication, roles, and the three ways into the ban ledger.

**GatePipeline.** One request from `ServeHTTP` to the response, one action per gate in the order of
`gates.go`. What a gate reads of other components is chosen when it reads it; the kill switch, which is read
several times on the way, is a variable that operators flip. A path is a sequence of segments, and
`NormalizeMatchPath` and `ResolveConfig` are the functions of `config.go`.

**TrustTokens.** Minting, presentation and the two readings of the epoch in between; receipts of solved
Passes and their redemption. `Payload` is what the MAC covers, as the fields the verifiers split it into.
The separator is not escaped and the three kinds share a key, so the kind of a token is determined only
for session ids without the separator (`Plain`); the properties and theorems are about those.

**ControlPlane.** Two overlapping beacons of one session, one step per call of the session store. All beacons
configure and read one engine without a lock: its fields are written and read one at a time, in any order,
so a score may be of a mixture of two configurations.

**Injector.** The look-ahead reader; a page is a sequence of fragments, cut so that tags and the marker can be
split, and the origin may cut it anywhere and end it with or after its last bytes. Pages have their tags in
the order of HTML (`InDocumentOrder`): of a page with `<body` before `<head` the reader takes whichever its
look-ahead holds first, so there the cut of the body does move the snippet.

## The parts of the Core

**Signals, Scoring.** The registry with every id, layer, weight and group; derived signals, cross checks, caps,
damping, the ordered hard rules with their modes, thresholds, and the trace the observatory shows. Scores
are exact integers, products are rounded down to 1/40000; the code folds floats in the order of the
contributions, and no property depends on a difference that small. Counts that the code compares stay numbers; other
measurements are the facts (a threshold was crossed) that the rules look at.

**SessionCore.** One session under concurrent requests: session, collect, proof of work, CSP reports, the
writes of the Pass handlers and the sweep. The store locks each call, so a handler is one step per call. The
engine is a constant of the module, a function from what a report holds to the score and the challenge it
leads to; `SessionScoring` supplies the function that `Scoring` computes, and is what TLC runs.

**PassChallenge.** `/new`, `/pow`, `/attest` and `/solve`, one step per critical section, with the placement
arithmetic, the difficulty functions, and the registry of used motor traces with its retention, its sweep and
its cap.

**Merkle.** The recursive tree, the two proof generators and the two verifiers on symbolic hashes, and the
endpoint that reads a signed head and then computes a proof over a log that may have grown. A consistency
proof may be any sequence of hashes of subtrees, honest or not.

**ModelCanary.** Staging of a bundle (its file may be replaced between the two reads), the serving seam, and
feeds of Pass outcomes that pass through the monitors in separate critical sections, one step for every
time a monitor's lock is taken. A moving average is
the side of its limit it is on.

**SingleUse.** The registries of beacon nonces, agent nonces, private tokens, motor traces and WebAuthn
counters; callers read the clock before the lock. An agent's signature also declares when it was created and
when it expires, and is refused outside that life but for the skew. One without a nonce is honoured every
time (`webbotauth.go:149`): only its life bounds it.

**TrafficLog, Correlation, LiveFeed.** The two halves of a traffic record; registries of two nodes with the
coordinator's script, its failures and the local fallback; the broadcast hub with clients that come back.

No fairness is assumed in these modules: their properties are safety properties. What could be asked for
instead (a lifted ban reaches every node, an overlay expires) the code does not promise: the shared store
may stay away for ever and expiry is lazy.

## Runs

| Run | Shows | Bounds |
|---|---|---|
| `audit_log` | `NoSeqGap`, `SelfVerifies`, `RecentIsTail`, `AnchoredWithinCadence` under crashes, failed flushes, torn sidecar lines | 6 records: three segments, three heads, two trims of a ring of 1, with crashes anywhere; 33 350 states |
| `audit_log_all_faults` | `EffectsDurable`, `ReplaySucceeds`, and the refinement of `AuditLedger`, under every fault | 5 records; 29 111 states |
| `audit_log_failed_sync` | **violated**: `NoSeqGap` when an fsync fails behind a flush | finding |
| `audit_log_lost_head` | **violated**: `SelfVerifies` when a checkpoint line is lost | finding |
| `audit_log_torn_head` | **violated**: `CheckpointsSurvive` when a crash tears a checkpoint line | finding |
| `erasure` | `ErasedIsUnlinkable`, `ErasureIsDeliberate`, `TombstonesPersist`, `ErasureCompletes` | one subject, two keys (so it can be minted again after a crash), two erasures, one restart; 257 678 states |
| `erasure_undone` | **violated**: `ErasureIrreversible` across shutdown and boot | finding |
| `fleet_verdicts` | `MarkGuards`, `NoRollback`, `Reclaimed` | two writing nodes, one reading with two concurrent Gets, three write times, TTL 1; 241 371 states |
| `fleet_verdicts_own` | **violated**: `OwnVerdictKept` after a SET that did not take effect | finding; TTL 2, so that an older verdict is still fresh when a Get follows the newer one |
| `gate_plane` | the eleven properties of the Gate's parts, below | 578 709 states, all parts together |
| `core_plane` | the fourteen properties of the Core's parts, below | 790 831 states, all parts together |
| `shared_address` | **violated**: `RotationIsReal` for two visitors behind one address | finding |

In `fleet_verdicts` the clock runs past `LastWrite + TTL`, so verdicts expire and are swept while replies
are still in flight. `MaxTime = 2` with `TTL = Hold = 1` lets an approval expire and an erasure pass its hold window. The
`erasure` run was also completed once with two subjects (3 961 026 states, no error); that instance is
too slow to keep.

`gate_plane` and `core_plane` follow one part per behaviour (`part`): the parts share no variables, so their
state spaces add up. A behaviour ends when its bounds are used up or its request is answered, so deadlock is
not checked.

| Part | Properties | The instance, and why it is enough |
|---|---|---|
| `bans` | `NoResurrection`, `LadderEnds` | a node with requests and lifts, another that adds bans; four strikes, so that the ladder reaches its last step; a lift is forgotten one tick later, so that remembering and forgetting both happen |
| `rate` | `CountIsWindow` | two nodes with windows 1 and 2, clock to 4: hits fall out of both windows and Redis expires the key |
| `admin` | `Governed` | an approver and a DPO, three changes, two handlers in flight, one restart; a tightening, a loosening and an integrity change; two boot configurations |
| `api` | `BansGoverned` | an approver and a DPO, all three routes, an approval that expires |
| `pipeline` | `OriginEarned`, `SpellingIrrelevant` | an attested, a strict, a monitored and the default route, five paths, two flips of the kill switch |
| `tokens` | `StepUpEarned`, `OneGraceBucket` | two sessions, two sockets, tokens that outlive an epoch, one manual advance |
| `control` | `ScoresBelong` | two overlapping beacons, two kinds of client and network, two policies, an engine of two fields |
| `injector` | `InjectionChunkingBlind` | pages with every kind of insertion point and with none, and the same pages injected once; look-ahead of 8 fragments, reads of up to 3 |
| `scoring` | `TraceAgrees`, `PrivacyNeverAccuses` | 1 312 reports (up to three accusing signals with and without privacy claims; contradicting layers) under two configurations |
| `session` | `TokensNotReplayed`, `EvidenceKept`, `ChallengeHonoured` | two handlers, three requests, a sweep after two ticks |
| `pass` | `GrantsEarned`, `AttemptsBounded` | two handlers, two instances, two traces, a retry cap of two, four requests; a trace is forgotten after one tick and swept while a solve is under way. The registry at its cap is in the `singleuse` part and in the proof |
| `merkle` | `InclusionDecides`, `ConsistencyDecides` | trees of up to five leaves over two record contents: all shapes with one and two odd levels, and every rewritten log of the same size; against a rewritten log of up to four leaves, every proof of up to three hashes of subtrees of either tree |
| `canary` | `ProbationHolds` | two feeds, two humans, a deploy during staging; signed, stale and unsigned bundles |
| `singleuse` | `HonouredOnce` | a registry with room for one, two nonces and a signature without one, two callers, retention 2 |
| `traffic` | `RotationObserved` | a shared address and a private one, two handlers, three requests, a ring of two |
| `correlation` | `FanoutReal` | two nodes, three subnets, two callers, windows that pass |
| `feed` | `FeedAccounted` | six events, three connections, a ring of two and a channel of one |

What the properties say, in the words of the modules: no lifted ban is enforced again from the store; the
temporary bans of a key end; a rate is counted over its window whoever trims it; what is in force was agreed
by two principals; a request at the origin earned it; spelling does not
choose a policy; a step-up was earned by a Pass; a token has one grace bucket; a score stands beside the
evidence it was computed from; the snippet does not depend on how the body is cut; the trace agrees with the
engine; privacy tools never raise a score; a request token is not replayed; settled evidence stays; a
challenge is verified at the difficulty that was handed out; a Pass is paid for and attempted within its cap;
proofs verify for exactly what they prove; a bad model is rolled back once; what was used once is not
honoured again in its retention; a session alone on its address is charged only with rotations it made; a
reported fan-out happened; every event of the feed is delivered or accounted for.

Some properties except what the code does not promise, and say so where they are stated: `ErasureCompletes` a
stop of the process, `TokensNotReplayed` requests already in progress when the token was first accepted,
`OriginEarned` requests that met the kill switch, `ProbationHolds` (its half about verification) a bundle
replaced between the two reads, `EvidenceKept` merges that overlap, `NoResurrection` a request that read
the clock before the lift. `FanoutReal` is about callers with a subnet; one without adds nothing to a count.

## Findings

1. **Failed fsync** (`chain.go:207`). The flushed line stays in the segment while `seq` does not move:
   the next record repeats the number, against the comment at `chain.go:203`.
2. **Lost checkpoint line** (`chain.go:266`). Its error is dropped; the next persisted head names the
   lost one, and after a restart `SelfVerify` fails for good, against the comment at `chain.go:263`.
3. **Torn checkpoint line** (`sink_wal.go:155`). One line that does not parse drops every checkpoint.
4. **Erasure undone** (`cmd/gate/main.go:707`). The vault is persisted only by a clean shutdown that
   does not stop the shred ticker; a certified erasure can be missing from the sealed vault.
5. **Own verdict passed over** (`redisledger.go:111`). `Set` does not raise the high-water mark; when its
   SET is lost, a later Get returns an older verdict of the store instead of the newer one in the
   node's own mirror, against the comment at `redisledger.go:148`.

6. **Shared address** (`cmd/server/server.go:172`). Handshakes are filed by client IP without the port and
   attached in a second critical section, so of two visitors behind one address who are served at once, one is
   recorded with the other's TLS engine and denied for a rotation (HR-14) that did not happen.
   `RotationObserved` is what does hold.

Observed while modelling, without a run of their own:

- A page that was already injected gets a second snippet when its marker arrives in the read that also
  returns `io.EOF` (`inject.go:91`): that path does not look for the marker, although `inject.go:14` calls the
  reader idempotent. `InjectionChunkingBlind` therefore speaks of the snippet's place only for pages without
  the marker.
- Strikes are per node (`redisledger.go:245`), and a manual ban overwrites a permanent one (`ban.go:142`).
- A request that read the clock before a lift and breaches after it puts the ban back into its own mirror;
  `NoResurrection` excepts it.
- An overlay that was rolled back returns from the last-known-good file when the active file is torn
  (`store_file.go:67`), and an expired one stays while the kill switch is on (`admin_settings.go:466`).
- No lock spans the check of an overlay's parent version and its store (`admin_settings.go:398`): a loosening overlay
  that was checked with the kill switch off is put in force after the switch was approved on, although a
  proposal made by then is refused with "loosening overlays blocked" (`admin_settings.go:79`).
- A proposal is classed against the posture in force (`classify.go:75`), so a demotion in force can be proposed again
  by one person as class A, which is applied at once and without an end (`admin_settings.go:353`), while
  `admin_settings.go:29` has caps for classes B and C. `Governed` says what does hold: two persons agreed to it once.
- The keystore is written in place (`keystore.go:74`), so a crash inside the write leaves a file no boot opens; the
  queue of erasures is in memory only (`erasure.go:27`), and a restart forgets it without a record.
- A session's `solved` flag may be set on a newer Pass instance than the one that was solved
  (`pass_handler.go:307`); two overlapping collects may hand out two proof-of-work difficulties; signals
  appended while the first collect is under way can be lost.
- The nonce of an agent signature is kept for 3600 s, while a signature that lives for the maximum of 3600 s
  is accepted for up to 60 s of skew more; `HonouredOnce` speaks of the life the signature declares.
- Event ids of the live feed restart with the process, so a client that reconnects after a restart skips
  events up to its old id.

## Proofs

All theorems are for arbitrary constants satisfying the named assumption of their module, and for any number
of nodes, handlers, subjects, sessions or requests.

`AuditProofs`:
- `TypeCorrect`: `Spec => []TypeOK`. The subtraction in replay makes it more than a type check:
  `CountInv` says that every line that can end up last, and `log.seq`, has reached the size of every
  head in the sidecar and in memory.
- `AuditBeforeEffect` and `ReplayNeverPanics`: from the inductive invariant `DurableInv` (what is
  released is synced, what is synced is on disk, the torn line is in the last segment and then the
  writer is stuck or the process is down).
- `Refinement`: `Spec => Ledger!Spec`; each action maps to a ledger step or a stutter.

With the set of faults restricted:
- `ChainHasNoGap`, if `"sync" \notin Faults`: the lines, the flushed-but-uncommitted one included, extend
  the chain that `log` remembers.
- `NoFalseAlarm` and `CadenceHolds`, if also `"cpLost" \notin Faults`: the invariant ties the sidecar, the
  heads in memory and the witness to prefixes of the record chain.

The restrictions are necessary: the violation runs are the counterexamples without them.

`RecentIsTailAlways`, again under every fault: the ring is the end of the leaves, and shorter than its
capacity only while it holds them all (`WindowInv`); the trim and the replay keep it.

`ErasureProofs`:
- `ErasureTypes`: the type invariant, with the fact that the ticker holds one shred at a time.
- `ErasureUnlinkable` and `TombstonesSurvive` from `VaultInv`: beside the two properties, a collect handler
  between its two steps holds the key its subject has now unless the subject was erased meanwhile, a process
  that is down holds nothing, and one that writes the keystore has truncated it.
- `ErasureDeliberate` from `QueueInv`: an erasure is in one place at a time (approval store, approve handler,
  queue, or what the ticker took), a cancelled one in none, and past the approval it has its second principal.

`GateProofs`, the enforcement side of a Gate and its administration:
- `LedgerInvariant`: `TypeOK /\ MarkGuards` is inductive. The step that needs care is `GC`: it sweeps a mark
  only when the verdict under it is stale, by the same comparison that Get uses.
- `LedgerNoRollback`: an accepted reply is at or above the mark, and the mark is the last verdict returned.
- `LiftsHold` and `LadderBounded` from `BansInv`: within its retention the lift a node remembers is its last one
  (`LiftKept`), a mirror holds only what its node put there (`MirrorOwn`), and a run of temporary bans has a
  strike for each, counted from the same moment (`ChainCounted`).
- `OriginEarnedAlways` from `GpInv`: up to the upgrade gate a request has learnt nothing in its favour, and one
  that is enforced and reaches the verdict without a token is no upgrade (`LearntInv`); enforcement is what
  was read at every gate so far, however often operators flip the kill switch in between.
- `ScoresBelongAlways` from `CpInv`, whatever mixture of configurations the engine holds: the stored report belongs to its score unless some beacon is about to store
  it anew, and the sticky verdict is audited unless the beacon that set it, or one that will, is in progress.
- `InForceIsGoverned` from `AdminInv`: whatever is pending, in flight, in the active file or in the last-known-good
  file is lawful already (`Lawful`: what weakens the defaults has its two persons and an end, what demotes was
  agreed to at some time). The point of the argument is that an overlay's class is judged against the posture
  that its parent version names, and the check of that version makes it the posture in force
  (`VersionJudges`); what is demoted by an overlay of class A is demoted in that posture
  (`TighteningDemotes`), and so was agreed to. `BroadBansGoverned` is the same for the ban routes.

`RequestProofs`, what a Gate reads in a path and in a page:
- `DetourChangesNothing`: the loop of the normal form is brought into two equations, for the empty path and for
  one segment more (`CleanEmpty`, `CleanAppend`); a detour put in anywhere leaves the loop where it was, and what
  follows leads on from there. `SpellingIrrelevantAlways` adds that a policy depends on a path only through its
  normal form.
- `InjectionChunkingBlindAlways` from `InjInv`: while nothing is decided, the look-ahead and the rest of the body
  are the page; once it is, what was returned, held back and still to come is the page with or without its
  snippet (`Settled`). The step that needs care is the decision on a part of the page: a point found in a prefix
  is that of the page because its tags come in order (`PointInPrefix`, from `PagesAssumption`), and a point that
  lies a marker's length within a prefix is found in it (`PointWithinReach`).

`TokenProofs`, what a client may present:
- `HonouredOnceAlways` from `SuInv`: what was honoured is still in its registry, recorded at most `MaxLate`
  before, or both its retention and the life its signature declares have ended (`RegistryInv`); counters of an
  authenticator only grow (`CounterInv`). A signature without a nonce leaves the registry as it is
  (`SuUnnamed`); for it the theorem says only that it is honoured within its life.
- `OneSolution` (exactly one offset aligns a row, the computed one) and `DifficultyMonotone` are facts of the
  pure functions of the Pass; `SolvesAreEarned` and `SolvesAreBounded` follow from `PassInv`, which follows the
  paid work, the demanded token, the attempts and the reserved trace through the session and every handler's
  snapshot. A trace that a handler has reserved, or that was granted, is in the registry or its retention is
  over (`ReservedKept`), so no trace solves twice within it.
- `StepUpIsEarned` and `TokensExpire` from `TokensInv`: receipts and step-up proofs belong to sessions that
  solved a Pass, what a payload of a plain session id spells tells its kind (`KindTold`), and neither a token nor a request in progress has seen a later clock or epoch than the
  present one.

`SessionProofs`, for any engine: `TokensNotReplayedAlways`, `EvidenceKeptAlways` and `ChallengeHonouredAlways` are
conjuncts or consequences of one invariant, `SeInv`. Its parts say what each handler may hold of a session that
others write meanwhile: a counter it read is not ahead of the session's (`Judging`), a token that was accepted
is behind the counter or its time bucket has passed (`UsedOK`), every snapshot contains the settled evidence
(`Holding`), and a difficulty that is about to be delivered by the only active request is the session's
(`Answering`). One lemma per kind of store call (`Follows`) makes the twenty steps of the handlers short.
`TraceAgreesAlways` is about the engine of `Scoring`: the trace caps each layer as production does (`SameRisk`),
and the rule it marks, found by another test of the modes, is the one production took (`SameWinner`). The two
tests agree on the modes that validation admits (`ModesAssumption`) and on no others.

`ObserverProofs`, what the Core observes:
- `ProbationHoldsAlways` from `MlInv`: at most one feed runs the rollback and only of a tripped guard
  (`RollbackInv`), a feed judges with a count of humans that is not ahead of the calibration's (`JudgeInv`), and
  the model that serves was verified unless its file was replaced between the two reads (`ServedInv`).
- `RotationObservedAlways` from `TlInv`: a handshake filed under an address was brought by a request of the
  address, and every record of a session is sound in that sense.
- `FanoutRealAlways` from `CoInv`: the arrivals an entry remembers can be matched one to one with subnets that
  were really seen at those times (`Arrived`), so their number within a window is at most the number of
  subnets of that window widened by the lateness of the callers.

`WindowProofs`, what is kept of a stream of events. Both results rest on `Above`, the loop that keeps what lies
above a bound: its equations (`AboveEmpty`, `AboveAppend`), what it keeps (`AboveIsPart`), and how it counts
when a list was trimmed before (`CountTrimmed`).
- `CountIsWindowAlways` from `RateInv`: a counter never holds more above a bound than it was given, and not less
  above any bound that the narrowest window up to its latest hit respects (`CounterOK`). What GC and Redis
  drop lies below all those bounds, because a key is kept at least two windows after its last hit (six in
  the code) and a request's clock is at most one tick late.
- `FeedAccountedAlways` from `LfInv`: what a client received, its backlog and its channel, put together, are in
  order, no newer than the last event, and complete but for what was missed (`Complete`). Writing an event
  moves it within that sequence; a lost connection cuts it after what was received.

Induction over data is done without induction schemes, whose operator parameter the provers cannot
instantiate: from the least element of a set of naturals (`LeastOf`), and over lists with a set in place of
the predicate (`SequencesGrow`), in `WindowProofs` and in `RequestProofs`.

Only model-checked: liveness (`ErasureCompletes`, `Reclaimed`, out of the prover's reach); `PrivacyNeverAccuses`,
because the rounded products of the model depend on an order in which the fold takes the contributions; `Merkle`
(`InclusionDecides`, `ConsistencyDecides`), which is recursive over trees.

## Not modelled, and why

- Of the audit log: at-rest edits of its files (detection by signatures is assumed ideal); the ignored error of
  the `Sync` in `rotateLocked`; the loss of the directory entry of a new segment; `Log.Checkpoint()` on demand
  (tests only); the asynchronous projections, retention and node registry, which nothing reads back.
- Of the vault: the keys of operator names, the migration that adds a witness seed, key stretching.
- Of the Gate: the PROXY protocol parser, incident lookup, the settings dry run and schema, listings, the
  console, and the shadow detectors, which only observe.
- Of the Core: rendering, flags, labels, `ObserveJA4Fanout` (a second registry of the same shape as
  `Observe`), shadow model statistics.
- Parsers and fingerprints over packets (`internal/network`, the h1/h2/TLS captures), watermark codecs, signed
  resource URLs, the browser's collectors (`internal/detect`, `cmd/wasm`): functions of bytes without state of
  their own; their inputs are far beyond a bounded instance, and unit tests with captures suit them better.
- Model inference and training: floating point.
- The operational logger, reports, `cmd/redteam`, `cmd/tlsparrot`: tooling.
