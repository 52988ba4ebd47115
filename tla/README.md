# Formal model of the grin-pool stratum pool controller

This directory has a TLA+ model of `src/stratum/src/pool/pool.rs`. It contains an abstract specification of what the pool promises about the shares it credits, and TLC configurations that check the model on small instances (safety, liveness under fairness, and refinement). It also has TLAPS proofs, for every value of the constants, of type correctness, of its main safety properties and of the refinement.

## The system

`pool.rs` is the controller of a Grin mining pool. It sits between miners, which are stratum workers on TCP, and an upstream Grin node. It has two threads.

- **The accept thread** (`accept_workers`, lines 40-93). It accepts TCP connections and wraps each one in a `Worker`. It inserts the worker into the shared registry `HashMap<String, Worker>` under a random `u32` placeholder key. It takes the registry mutex only for that insert.
- **The control loop** (`Pool::run`, lines 137-190). Each tick runs these phases in a fixed order:
  1. `server.connect()`: reconnect upstream, or sleep and restart the tick.
  2. `process_server_messages`: the upstream session may receive a new template.
  3. `accept_new_job`: a new `pre_pow` becomes the pool's job.
     - The job id gets the prefix `height*1000`.
     - The job is broadcast to authenticated workers.
     - On a height change, the duplicate map and `job_versions` are cleared.
     - The new `job_id -> pre_pow` pair is recorded.
  4. `process_worker_messages`: each worker reads its messages (login, getjob, submit).
     - A worker whose full id changed is re-keyed under `login-rig_id`.
  5. `process_shares`: each queued share goes through the validation pipeline in this order:
     - duplicate, size, stale
     - job version lookup, then header rebuild and `verify_size`
     - low difficulty, pool difficulty
     - accept, and `server.submit_share` with `job_id % height`
  6. `send_jobs`: workers that need a job get the current one.
  7. `clean_workers`: workers in error are removed.

`Server`, `Worker` and `JobTemplate` are defined outside `src/`. What they do is modelled from `spec.md`:
- the upstream template sequence
- the worker's login, job requests, queued shares, error flag and counters

## Modules

| Module | What it is |
|---|---|
| `Pool.tla` | The controller: its state, one action per phase or per message/share, the properties. |
| `MC_Pool.tla` | Model values and symmetry for TLC; the `ControlView` view. |
| `PoolProofs.tla` | TLAPS lemmas and the theorems `TypeCorrect` and `NoDoubleAcceptCorrect`. |
| `PoolCreditProofs.tla` | TLAPS: `NoForgedForwardCorrect`, `VersionsCompleteCorrect` and the action property `VersionsStableCorrect`. |
| `PoolCounterProofs.tla` | TLAPS: `AcceptedIsForwardedCorrect` (the per-worker accepted counter). |

### State (Pool.tla)

| Variable | Code |
|---|---|
| `pc` | the phase of `Pool::run` the tick is in |
| `connected`, `srvJob` | `server` connected / `server.job` |
| `job` | `Pool.job` (job id already prefixed) |
| `duplicates` | the keys of `Pool.duplicates` |
| `versions` | `Pool.job_versions` |
| `reg` | `Pool.workers`: key -> connection |
| `wk` | per-connection `Worker` state (login, authenticated, needs_job, error, share queue, counters) |
| `cur` | the worker whose shares `process_shares` is working through (a worker's shares are all taken before the next's) |
| `locked` | the control loop holds the registry mutex across a multi-step phase (lines 221 and 287 to the end of the function) |
| `issued`, `forwarded` | history: jobs sent to workers, shares passed to `server.submit_share` |
| `nShares` | number of shares submitted, bounded by `MaxShares` |

### Data abstraction

- A `pre_pow` is the pair `<<height, upstream id>>`, which is unique per template.
- A proof of work is `[pre, sol]`: the `pre_pow` it was really solved on, and which of a few solutions it is.
- `block_header` + `verify_size` succeed exactly when `job_versions[share.job_id]` is the `pre_pow` the proof was solved on.
- The unscaled difficulty of a proof is `SolDiff[sol]`.
- Hex and byte encodings, log lines and sleeps are left out.

### Actions

- `AcceptWorker(c, k)`: the insert at line 72.
  - It is enabled whenever the control loop does not hold the registry lock (`~locked`).
  - The first message read of `process_worker_messages` and the first share of `process_shares` take the lock.
  - `EndMessages` and `EndShares` release it.
  - This way the acceptor can insert in the window before either function locks, but never between two messages or two shares.
- `Connect`, `ProcessServerMessages`, `AcceptNewJob`, `SendJobs`, `CleanWorkers`: one phase each.
- `ReadMessage(c)`: one message of the first loop of `process_worker_messages`.
- `EndMessages`: the end of that loop, i.e. the `reset_worker_shares` of changed ids and the rehash loop.
  - The rehash removes only placeholders and inserts only logins, so its outcome does not depend on interleaving removes and inserts.
  - The outcome is the registry without the changed keys, with each new full id bound to whichever of its claimants moved last. The model takes that last mover as a nondeterministic choice, because HashMap iteration order is unspecified.
- `ProcessShare(c)`: one share through the whole pipeline. Its outcome is `Outcome(s)`, a CASE in the order of the code's early `continue`s. The action does all of the following together:
  - counters and reply (`Counted`)
  - duplicate-map insert
  - the submit upstream (`SubmitsUpstream`, `Upstream`)
- `EndShares`: the end of `process_shares`, once every queue is empty.
- `UpstreamDrop`: the upstream connection is lost (Server, from the spec).

Small definitions factor out the decisions that the properties are about. Each keeps the source's meaning:
- `ServedJob`: `send_job` + `reset_worker_shares`.
- `NewTemplate`: the `pre_pow` comparison at line 263.
- `JobId`: the `height*1000` prefix at line 268.
- `SharesDone`: the `get_shares` loop over all workers.

### No abstract specification

`Pool` is not shown to refine a more abstract specification. A specification that only sends jobs and credits fresh proofs solved on a sent job's `pre_pow` says nothing new: crediting a proof at that level adds nothing to `NoDoubleAccept` and `NoForgedForward`. The send side only checked that job ids carry the `height*1000` prefix, which just restates line 268. An abstract specification that promised the node more would have to say that the id forwarded upstream names the template the proof was solved on. The code keeps that promise only when the upstream id is below the height, so that question is the violation run pool_upstream_id.

### Fairness (liveness)

`FairSpec == Spec /\ WF_vars(ControlLoop)`. `Pool::run` (lines 154-189) is an unconditional `loop` of non-blocking calls, so the thread keeps taking steps.

A failed `server.connect()` sleeps and restarts the tick. The model treats it as a stutter, so weak fairness also assumes that the upstream node is eventually reachable.

These get no fairness, because nothing in the code obliges them to act:
- the accept thread;
- the miners' messages;
- the upstream templates and drops.

Each phase the loop passes through is finite in the model:
- messages are bounded by `MaxShares`, by one login and by `needsJob`;
- shares are bounded by the queues.

So the loop cannot be kept busy forever inside a tick.

## Runs

| Run | cfg | Expect | What it shows |
|---|---|---|---|
| pool_dedup | `MC_Pool.cfg` | pass | `TypeOK`, `NoDoubleAccept`, `VersionsComplete`, `NoForgedForward`, and the action property `VersionsStable` (no step at one height rebinds or drops a key of `job_versions`) |
| pool_liveness | `MC_Pool_liveness.cfg` | pass | Under `FairSpec`: `JobReachesNeedyWorker`, `SharesDrained`, `PoolFollowsUpstream` |
| pool_pipeline | `MC_Pool_pipeline.cfg` | pass | `AcceptedIsForwarded`, with every pipeline stage reachable |
| pool_upstream_id | `MC_Pool_ForwardedIdIsUpstreamId.cfg` | violation | `job_id % height` is the upstream id only when that id is below the height |
| pool_unanswered | `MC_Pool_EveryShareAnswered.cfg` | violation | an unknown job id is rejected silently |
| pool_tally | `MC_Pool_TallyCountsEveryShare.cfg` | violation | an invalid-size share is missing from the tally |
| pool_eviction | `MC_Pool_NoSilentEviction.cfg` | violation | a registry insert replaces a live worker |

Bounds and why they are enough:
- **Connections, placeholders, logins:** 2 of each, under symmetry. Two connections are needed for collisions and for a login claimed twice.
- **Heights:** `MaxHeight = 2`, so the pool sees a height change after a real job.
- **Versions:** `MaxVersion = 1`, i.e. two template versions per height. Versions at one height are what `job_versions` exists for.
- **Shares:** `MaxShares = 2` in pool_dedup, enough for a resubmitted proof. The pipeline run uses 1 share with every edge size and solution difficulty, so every stage is reached.
- **Liveness:** pool_liveness has no symmetry and no view, because TLC's liveness checking is unsound under either. It uses 1 placeholder, 1 share and heights up to 1 with two versions. That is enough for a version change at one height (what `PoolFollowsUpstream` is about), a re-request of a job, and a queued share.
- **`ControlView`:** pool_dedup drops the counters from the fingerprint. This is sound because no guard reads a counter, and none of that run's properties mention one.

Each property of a passing run has a mutant in `Pool.tla`, defined just before what it mutates. TLC finds each mutant violated:
- `EpochDuplicatesEveryJob`
- `JobVersionsClearedAfter`
- `OutcomeCurrentPre`
- `IdChangedNoLoginCheck`
- `SubmitsUpstreamPastGate`
- `JobIdHeightOnly` (breaks `VersionsStable`: every version of a height gets the same id)
- `EndSharesSkipsSend`, `SharesDoneCurrent`, `NewTemplateHeightOnly`: each breaks one liveness property. `EndSharesSkipsSend` drops the `send_jobs` call from `run`, so a worker that logs in after the last broadcast never gets a job.

## Findings

1. `share.job_id % share.height` (line 397) is meant to recover the upstream id (spec section 3, and the comment at the submit). But `(H*1000+U) % H = U % H`, which is `U` only when `U < H`. At the heights of a live chain the upstream id is always below the height. At the first heights it is not: for example, job 1001 at height 1 is submitted as 0. The spec flags `U >= H` as an open edge case (sections 8 and 9), and the violation run shows where it bites.
2. A share whose job id is not in `job_versions` is counted as rejected but never answered (lines 331-334). The empty job that `send_jobs` hands out before the first upstream template (line 256) leads there.
3. `add_shares` is commented out on the invalid-size path (line 315).
4. `HashMap::insert` replaces a live worker in two cases. Such a worker leaves the registry without ever being in error, and is never dropped cleanly.
   - A random placeholder collides with an existing key (line 72).
   - Two connections log in with the same login-rig id (line 237).

   TLC's shortest trace is the placeholder collision. In the model that has even odds, but a real pool draws random `u32` keys, so a collision has odds of about 2^-32 per pair. The login collision is the one a real pool meets.

## Proofs (PoolProofs.tla, PoolCreditProofs.tla, PoolCounterProofs.tla)

Every theorem is proved for every value of the constants that satisfies `ConstantsAssumption`, checked with `tlapm` on each proof module.

- **`TypeCorrect == Spec => []TypeOK`.**
  - `TypeOK` alone is not inductive. The id sent upstream, `share.job_id % share.height`, is an integer only if the height is not 0.
  - The strengthening `TypeInv == TypeOK /\ JobShape` adds four facts:
    - only the empty template has height 0;
    - the pool's job never runs ahead of the upstream one;
    - a height-0 job has the empty `pre_pow`;
    - `job_versions` is empty until a job of height at least 1 has been taken.
  - A share reaches the submit only when its height is the job's and its id is in `job_versions`, so its height is at least 1.
  - The proof has one lemma per action and lemmas about worker-record updates (`CounterUpdate`, `FlagUpdate`, `ResetType`, `CountedType`).
- **`NoDoubleAcceptCorrect == Spec => []NoDoubleAccept`.** The strengthening `DupInv` adds two facts:
  - every forwarded share has a height at most the job's (`ForwardedBelow`);
  - every share forwarded at the job's height is in the duplicate map (`ForwardedSeen`).

  Only two actions can disturb these facts:
  - `AcceptNewJob` empties the map only when the height strictly rises, because the job never runs ahead of `srvJob`. After that, no share is forwarded at the new height.
  - `ProcessShare` forwards a pow only if it is not in the map, while every earlier share at that height is.

  TLC checked `DupInv` as an invariant of the pool_dedup instance before it was proved.
- **`NoForgedForwardCorrect == Spec => []NoForgedForward`** (PoolCreditProofs.tla). The inductive invariant `CredInv` adds these facts to `DupInv`:
  - `JobsPrefixed`: the pool's job and every sent job are in `PrefixedJobs`.
  - `VersionsPrefixed`: every key of `job_versions` is `h*1000 + u` for the `<<h, u>>` it is bound to, and `h` is the current height.
  - `QueuedFromIssued`: every queued share names the id of a sent job.

  A share that passes the pipeline names an id in `job_versions` whose `pre_pow` is the proof's. A sent job has the same id. Because upstream ids are below 1000 (`ConstantsAssumption`), the two ids can only be equal when the jobs have the same height and `pre_pow`. That gives `NoForgedForward`.

  TLC checked `CredInv` as an invariant (1.7M states) before it was proved.
- **`VersionsCompleteCorrect == Spec => []VersionsComplete`** (PoolCreditProofs.tla). `VerInv` adds two facts to `CredInv`:
  - `IssuedBelow`: no sent job is above the pool's job height.
  - `JobInVersions`: the pool's job, once real, is in `job_versions`.

  On a new height, every sent job is below it, so clearing `job_versions` loses nothing that the property speaks of. At the same height, the new prefixed id can only equal an old one for the same template (`PrefixedSameId`).

- **`VersionsStableCorrect == Spec => VersionsStable`** (PoolCreditProofs.tla), an action property. From `CredInv`, every step that keeps the job height keeps every binding of `job_versions`. Only `accept_new_job` writes the map. At the same height it inserts `height*1000 + id` bound to `<<height, id>>`. By `VersionsPrefixed`, a key already bound with that value is bound to that same pair, so the insert rebinds nothing.
- **`AcceptedIsForwardedCorrect == Spec => []AcceptedIsForwarded`** (PoolCounterProofs.tla). The property says that each worker's `accepted` counter equals the number of history entries `forwarded[i]` with `conn = c`. It is stated as the cardinality of the index set `ForwardedBy(c)`. Stating it as `Len(SelectSeq(forwarded, ...))` means the same thing, but `SelectSeq` is a recursive operator, and what it computes over every sequence needs induction over data, which the provers cannot do. Two lemmas carry the proof:
  - `ForwardedByAppend`: appending a share adds one index to the set of its own connection and none to any other;
  - `AcceptedKeptByOthers`: every step other than `ProcessShare` leaves the history and every counter alone. `send_jobs`, the share drain and the rehash copy a worker's record without touching `accepted`.

  The invariant `AccInv == TypeInv /\ AcceptedIsForwarded` is inductive as it stands.

Only model-checked:
- the liveness properties of pool_liveness;
- the four violations.

Liveness, ENABLED and induction over data are out of reach of the installed provers.

## Not modelled

- The banned-IP map: it is never filled.
- Byte-level header encoding.
- The Server's RPC framing and the results of submits.
- A node that, after a reconnect (line 158), restarts its per-height ids with a new `pre_pow` under an id already in `job_versions`. The model's templates have `pre = <<height, id>>`, so an id is never reused for another template. The pool keeps `job_versions` and the duplicate map across the drop, and no property reaches this.
- Worker message parsing and reply wording.
- Logging, sleeps and configuration beyond the port difficulty.
- Liveness that depends on Worker and Server internals, which are outside `src/`: a reply reaching the miner, a submit reaching the node.

## Plan for later sittings

- A finer model of the rehash loop that removes and inserts one key at a time, checked against the atomic `EndMessages`.
- Larger liveness instances (two heights) once the state space allows.
