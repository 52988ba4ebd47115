-------------------------------- MODULE Pool --------------------------------
(***************************************************************************)
(* The pool controller of grin-pool's stratum proxy                       *)
(* (src/stratum/src/pool/pool.rs): the worker registry shared by the       *)
(* accept thread and the control loop, the job template and its versions,  *)
(* the share validation pipeline and the control loop that runs them in a *)
(* fixed order, one tick after another.                                    *)
(*                                                                         *)
(* Data is abstracted to what the properties tell apart:                   *)
(*  - a template's pre_pow is the pair <<height, upstream id>>, which is   *)
(*    unique per template;                                                 *)
(*  - a proof-of-work vector is a record [pre, sol]: the template it was   *)
(*    really solved on and which of a few solutions it is.  Rebuilding the *)
(*    header and verify_size succeed exactly when the pre_pow stored for   *)
(*    the share's job id is the one the proof was solved on;               *)
(*  - the unscaled difficulty of a proof is SolDiff[sol].                  *)
(* The Worker, Server and JobTemplate types live outside src/; what they   *)
(* do is modelled from the spec (Server: the upstream template sequence;   *)
(* Worker: login, job requests, queued shares, replies).                  *)
(***************************************************************************)
EXTENDS Integers, Sequences, FiniteSets, Functions

CONSTANTS
    Conns,          \* TCP connections the accept thread may take
    Placeholders,   \* random initial registry keys (rng.gen::<u32>())
    Logins,         \* full ids a worker may log in as (login-rig_id)
    None,           \* sentinel: no login yet / no worker being processed
    MaxHeight,      \* the upstream node produces heights 1..MaxHeight
    MaxVersion,     \* upstream job ids 0..MaxVersion at each height
    Sols,           \* distinct solutions a miner may find for a template
    SolDiff,        \* unscaled difficulty of each solution
    EdgeBits,       \* edge bits miners may send
    PoolDifficulty, \* config.workers.port_difficulty.difficulty
    MaxShares       \* bound on the shares submitted in a behaviour

ASSUME ConstantsAssumption ==
    /\ MaxHeight \in Nat \ {0}
    /\ MaxVersion \in Nat
    /\ MaxVersion < 1000
    /\ SolDiff \in [Sols -> Nat]
    /\ EdgeBits \subseteq Nat
    /\ PoolDifficulty \in Nat
    /\ MaxShares \in Nat
    /\ None \notin Conns \cup Placeholders \cup Logins
    /\ Placeholders \cap Logins = {}

VARIABLES
    pc,          \* the control loop's position in its tick (Pool::run)
    connected,   \* the upstream session is connected (Server)
    srvJob,      \* the template the upstream session last received (server.job)
    job,         \* the pool's current job (Pool.job)
    duplicates,  \* pow vectors seen at this height (Pool.duplicates)
    versions,    \* job id -> pre_pow of every job of this height (Pool.job_versions)
    reg,         \* the registry: key -> connection (Pool.workers)
    wk,          \* per-connection Worker state
    cur,         \* worker whose shares process_shares is working through
    locked,      \* the control loop holds the registry mutex across a phase
    issued,      \* history: every job sent to some worker
    forwarded,   \* history: every share submitted upstream, in order
    nShares      \* shares submitted so far (bounded by MaxShares)

vars == <<pc, connected, srvJob, job, duplicates, versions, reg, wk,
          cur, locked, issued, forwarded, nShares>>

-----------------------------------------------------------------------------
(* Data *)

Heights == 0 .. MaxHeight
Pre == Heights \X (0 .. MaxVersion)
Template(h, u) == [height |-> h, id |-> u, pre |-> <<h, u>>]
Templates == {t \in [height : Heights, id : 0 .. MaxVersion, pre : Pre] :
                 t.pre = <<t.height, t.id>>}
\* JobTemplate::new(): height 0, id 0, empty pre_pow
EmptyJob == Template(0, 0)
\* A pool job: the template with job_id = height * 1000 + upstream id.
PoolJobs == [height : Heights, id : Nat, pre : Pre]
Pow == [pre : Pre, sol : Sols]
Share == [job : Nat, height : Heights, edge : EdgeBits, pow : Pow]
Keys == Placeholders \cup Logins
Phases == {"connect", "server", "newjob", "msgs", "shares", "send", "clean"}

Worker == [state : {"idle", "open"}, login : Logins \cup {None},
           auth : BOOLEAN, needsJob : BOOLEAN, error : BOOLEAN,
           queue : Seq(Share),
           accepted : Nat, rejected : Nat, stale : Nat,
           answered : Nat, tally : Nat, since : Nat]

\* Worker::new followed by set_difficulty: nothing known, nothing counted.
NewWorker == [state |-> "idle", login |-> None, auth |-> FALSE,
              needsJob |-> FALSE, error |-> FALSE, queue |-> << >>,
              accepted |-> 0, rejected |-> 0, stale |-> 0,
              answered |-> 0, tally |-> 0, since |-> 0]

\* HashMap::insert: adds k, replacing whatever k was bound to.
MapInsert(f, k, v) == [x \in DOMAIN f \cup {k} |-> IF x = k THEN v ELSE f[x]]

Registered == Range(reg)

\* reset_worker_shares: the per-height share tally starts again.
ResetShares(w) == [w EXCEPT !.tally = 0, !.since = 0]

Inc(b) == IF b THEN 1 ELSE 0

-----------------------------------------------------------------------------
(* The upstream session (Server, outside src/: modelled from the spec).    *)
(* Within a height the node numbers its templates 0, 1, ...; a new height  *)
(* starts again at 0.                                                      *)

UpstreamSuccessors(t) ==
    {n \in Templates : \/ (n.height = t.height /\ t.height > 0 /\ n.id = t.id + 1)
                      \/ (n.height = t.height + 1 /\ n.id = 0)}

\* The connection to the node is lost.
UpstreamDrop ==
    /\ connected
    /\ connected' = FALSE
    /\ UNCHANGED <<pc, srvJob, job, duplicates, versions, reg, wk,
                   cur, locked, issued, forwarded, nShares>>

-----------------------------------------------------------------------------
(* accept_workers: runs in its own thread and takes the registry lock only *)
(* for the insert, so it interleaves with the control loop wherever that   *)
(* loop does not hold the lock.                                            *)

AcceptWorker(c, k) ==
    /\ ~locked
    /\ wk[c].state = "idle"
    /\ reg' = MapInsert(reg, k, c)
    /\ wk' = [wk EXCEPT ![c].state = "open"]
    /\ UNCHANGED <<pc, connected, srvJob, job, duplicates, versions,
                   cur, locked, issued, forwarded, nShares>>

-----------------------------------------------------------------------------
(* The control loop, Pool::run.                                            *)

\* server.connect(): (re)connects and logs in; on failure the loop sleeps
\* and starts the tick again, a step that changes nothing.
Connect ==
    /\ pc = "connect"
    /\ connected' = TRUE
    /\ pc' = "server"
    /\ UNCHANGED <<srvJob, job, duplicates, versions, reg, wk,
                   cur, locked, issued, forwarded, nShares>>

\* process_server_messages: a job notification may carry the next template.
ProcessServerMessages ==
    /\ pc = "server"
    /\ srvJob' \in {srvJob} \cup (IF connected THEN UpstreamSuccessors(srvJob) ELSE {})
    /\ pc' = "newjob"
    /\ UNCHANGED <<connected, job, duplicates, versions, reg, wk,
                   cur, locked, issued, forwarded, nShares>>

\* worker.send_job then reset_worker_shares: the worker has a job and its
\* per-height tally starts again.
ServedJob(w) == ResetShares([w EXCEPT !.needsJob = FALSE])

\* broadcast_job: every authenticated worker gets the job and its tally is
\* reset.
Broadcast(w, newJob) ==
    [c \in Conns |-> IF c \in Registered /\ w[c].auth THEN ServedJob(w[c]) ELSE w[c]]

NoVersions == [x \in {} |-> EmptyJob.pre]

\* Mutant: the duplicate map cleared on every new template.
EpochDuplicatesEveryJob(newHeight) == {}

\* The duplicate map after a new job: emptied when the height moved.
EpochDuplicates(newHeight) == IF newHeight THEN {} ELSE duplicates

\* Mutant: job_versions cleared after the new job's entry is inserted.
JobVersionsClearedAfter(newHeight, newJob) ==
    IF newHeight THEN NoVersions ELSE MapInsert(versions, newJob.id, newJob.pre)

\* job_versions after a new job: emptied when the height moved, then the
\* new job id bound to its pre_pow (whether or not the height moved).
JobVersions(newHeight, newJob) ==
    MapInsert(IF newHeight THEN NoVersions ELSE versions, newJob.id, newJob.pre)

\* Mutant: a new template is taken only when its height differs.
NewTemplateHeightOnly == job.height # srvJob.height

\* The upstream template is not the pool's job: its pre_pow differs.
NewTemplate == job.pre # srvJob.pre

\* Mutant: the upstream job id dropped, only the height prefix kept.
JobIdHeightOnly(t) == t.height * 1000

\* new_job.job_id = new_job.height * 1000 + new_job.job_id ("bminer wants this").
JobId(t) == t.height * 1000 + t.id

\* accept_new_job: on a new pre_pow take the template, prefix its id with
\* the height, broadcast it, start a new epoch if the height changed, and
\* remember which pre_pow the job id stands for.
AcceptNewJob ==
    /\ pc = "newjob"
    /\ pc' = "msgs"
    /\ IF NewTemplate
         THEN LET newHeight == job.height # srvJob.height
                  newJob == [srvJob EXCEPT !.id = JobId(srvJob)]
              IN /\ job' = newJob
                 /\ wk' = Broadcast(wk, newJob)
                 /\ issued' = issued \cup
                      {j \in {newJob} : \E c \in Registered : wk[c].auth}
                 /\ duplicates' = EpochDuplicates(newHeight)
                 /\ versions' = JobVersions(newHeight, newJob)
         ELSE UNCHANGED <<job, wk, issued, duplicates, versions>>
    /\ UNCHANGED <<connected, srvJob, reg, cur, locked, forwarded, nShares>>

(* process_worker_messages, first loop: worker.process_messages() reads    *)
(* what the connection sent.  One step per message; the first takes the   *)
(* registry lock, which the function holds to its end.                    *)

\* login: the worker names itself and asks for work.
Login(c, l) ==
    /\ wk[c].login = None
    /\ wk' = [wk EXCEPT ![c].login = l, ![c].auth = TRUE, ![c].needsJob = TRUE]

\* getjobtemplate
GetJob(c) ==
    /\ wk[c].auth /\ ~wk[c].needsJob
    /\ wk' = [wk EXCEPT ![c].needsJob = TRUE]

\* submit: the share is queued for process_shares.  A miner submits against
\* a job it was sent, names that job's height or the current one, and
\* sends a proof solved on that job or on the current one.
SubmitShares ==
    UNION {{[job |-> j.id, height |-> h, edge |-> e, pow |-> [pre |-> p, sol |-> x]] :
              h \in {j.height, job.height}, e \in EdgeBits,
              p \in {j.pre, job.pre}, x \in Sols} : j \in issued}

Submit(c, s) ==
    /\ wk[c].auth
    /\ nShares < MaxShares
    /\ wk' = [wk EXCEPT ![c].queue = Append(@, s)]

\* the connection failed
Close(c) ==
    /\ wk' = [wk EXCEPT ![c].error = TRUE]

ReadMessage(c) ==
    /\ pc = "msgs"
    /\ c \in Registered
    /\ ~wk[c].error
    /\ \/ \E l \in Logins : Login(c, l) /\ UNCHANGED nShares
       \/ GetJob(c) /\ UNCHANGED nShares
       \/ \E s \in SubmitShares : Submit(c, s) /\ nShares' = nShares + 1
       \/ Close(c) /\ UNCHANGED nShares
    /\ locked' = TRUE
    /\ UNCHANGED <<pc, connected, srvJob, job, duplicates, versions, reg,
                   cur, issued, forwarded>>

\* Mutant: every key whose worker's full id differs is moved, logged in or not.
IdChangedNoLoginCheck(k) == wk[reg[k]].login # k

\* A key whose worker now calls itself something else: it just logged in.
IdChanged(k) == wk[reg[k]].login \notin {None, k}

\* End of the first loop: the changed keys are collected and those workers'
\* tallies reset (reset_worker_shares).  The second loop then removes each
\* changed key and inserts its worker under its full id, in HashMap order.
\* The keys it removes are placeholders and the ones it inserts are logins,
\* so a remove never meets an insert of the same loop: the outcome is the
\* registry without the changed keys, each new full id bound to whichever
\* of the workers claiming it was moved last.
EndMessages ==
    /\ pc = "msgs"
    /\ LET changed == {k \in DOMAIN reg : IdChanged(k)}
           movers == {reg[k] : k \in changed}
           newIds == {wk[c].login : c \in movers}
       IN /\ \E last \in [newIds -> movers] :
                /\ \A l \in newIds : wk[last[l]].login = l
                /\ reg' = [x \in (DOMAIN reg \ changed) \cup newIds |->
                             IF x \in newIds THEN last[x] ELSE reg[x]]
          /\ wk' = [c \in Conns |-> IF c \in movers THEN ResetShares(wk[c])
                                                   ELSE wk[c]]
    /\ pc' = "shares"
    /\ cur' = None
    /\ locked' = FALSE
    /\ UNCHANGED <<connected, srvJob, job, duplicates, versions, issued,
                   forwarded, nShares>>

(* process_shares: the validation pipeline, one share per step; a worker's *)
(* shares are all taken (get_shares) before the next worker's.  The lock   *)
(* is taken at the first share and held until the loop ends.              *)

\* Mutant: the proof checked against the current pre_pow instead of the
\* version the share's job id names.
OutcomeCurrentPre(s) ==
    CASE s.pow \in duplicates                -> "duplicate"
      [] s.edge < 29 \/ s.edge = 30          -> "size"
      [] s.height # job.height               -> "stale"
      [] s.job \notin DOMAIN versions        -> "unknown"
      [] job.pre # s.pow.pre                 -> "invalid"
      [] SolDiff[s.pow.sol] < 1              -> "low"
      [] SolDiff[s.pow.sol] < PoolDifficulty -> "below"
      [] OTHER                               -> "ok"

\* The pipeline's stages in order; the first that rejects decides.
Outcome(s) ==
    CASE s.pow \in duplicates                -> "duplicate"
      [] s.edge < 29 \/ s.edge = 30          -> "size"
      [] s.height # job.height               -> "stale"
      [] s.job \notin DOMAIN versions        -> "unknown"
      [] versions[s.job] # s.pow.pre         -> "invalid"
      [] SolDiff[s.pow.sol] < 1              -> "low"
      [] SolDiff[s.pow.sol] < PoolDifficulty -> "below"
      [] OTHER                               -> "ok"

\* The Invalid POW size path leaves add_shares commented out; the unknown
\* job path sends no error to the worker.
Counted(w, o) ==
    [w EXCEPT !.queue = Tail(@),
              !.accepted = @ + Inc(o = "ok"),
              !.stale = @ + Inc(o = "stale"),
              !.rejected = @ + Inc(o \notin {"ok", "stale"}),
              !.tally = @ + Inc(o # "size"),
              !.since = @ + 1,
              !.answered = @ + Inc(o # "unknown")]

\* The share as server.submit_share gets it: the job id with its height
\* prefix removed by share.job_id % share.height.
Upstream(s, c) ==
    [job |-> s.job, upstream |-> s.job % s.height, height |-> s.height,
     pow |-> s.pow, conn |-> c]

\* Mutant: no continue after the below-difficulty rejection, so the share
\* falls through to server.submit_share.
SubmitsUpstreamPastGate(o) == o \in {"ok", "below"}

\* The share reaches server.submit_share: it passed every stage.
SubmitsUpstream(o) == o = "ok"

ProcessShare(c) ==
    /\ pc = "shares"
    /\ c \in Registered
    /\ cur \in {None, c}
    /\ wk[c].queue # << >>
    /\ LET s == Head(wk[c].queue)
           o == Outcome(s)
       IN /\ duplicates' = duplicates \cup {s.pow}
          /\ wk' = [wk EXCEPT ![c] = Counted(@, o)]
          /\ forwarded' = IF SubmitsUpstream(o) THEN Append(forwarded, Upstream(s, c))
                                      ELSE forwarded
    /\ cur' = IF Len(wk[c].queue) = 1 THEN None ELSE c
    /\ locked' = TRUE
    /\ UNCHANGED <<pc, connected, srvJob, job, versions, reg,
                   issued, nShares>>

\* Mutant: process_shares returns once the worker in hand is done.
SharesDoneCurrent == cur = None

\* The loop over the workers has taken every queued share.
SharesDone == \A c \in Registered : wk[c].queue = << >>

\* Mutant: run() no longer calls send_jobs after process_shares.
EndSharesSkipsSend ==
    /\ pc = "shares"
    /\ SharesDone
    /\ pc' = "clean"
    /\ locked' = FALSE
    /\ UNCHANGED <<connected, srvJob, job, duplicates, versions, reg, wk,
                   cur, issued, forwarded, nShares>>

EndShares ==
    /\ pc = "shares"
    /\ SharesDone
    /\ pc' = "send"
    /\ locked' = FALSE
    /\ UNCHANGED <<connected, srvJob, job, duplicates, versions, reg, wk,
                   cur, issued, forwarded, nShares>>

\* send_jobs: authenticated workers that need a job get the current one,
\* with their tally reset.
SendJobs ==
    /\ pc = "send"
    /\ LET needy == {c \in Registered : wk[c].needsJob /\ wk[c].auth}
       IN /\ wk' = [c \in Conns |-> IF c \in needy
                       THEN ServedJob(wk[c])
                       ELSE wk[c]]
          /\ issued' = issued \cup {j \in {job} : needy # {}}
    /\ pc' = "clean"
    /\ UNCHANGED <<connected, srvJob, job, duplicates, versions, reg,
                   cur, locked, forwarded, nShares>>

\* clean_workers: every key whose worker is in error is removed.
CleanWorkers ==
    /\ pc = "clean"
    /\ reg' = Restrict(reg, {k \in DOMAIN reg : ~wk[reg[k]].error})
    /\ pc' = "connect"
    /\ UNCHANGED <<connected, srvJob, job, duplicates, versions, wk,
                   cur, locked, issued, forwarded, nShares>>

-----------------------------------------------------------------------------

Init ==
    /\ pc = "connect"
    /\ connected = FALSE
    /\ srvJob = EmptyJob
    /\ job = EmptyJob
    /\ duplicates = {}
    /\ versions = NoVersions
    /\ reg = [k \in {} |-> CHOOSE c \in Conns : TRUE]
    /\ wk = [c \in Conns |-> NewWorker]
    /\ cur = None
    /\ locked = FALSE
    /\ issued = {}
    /\ forwarded = << >>
    /\ nShares = 0

ControlLoop ==
    \/ Connect \/ ProcessServerMessages \/ AcceptNewJob
    \/ \E c \in Conns : ReadMessage(c)
    \/ EndMessages
    \/ \E c \in Conns : ProcessShare(c)
    \/ EndShares \/ SendJobs \/ CleanWorkers

Next ==
    \/ ControlLoop
    \/ \E c \in Conns, k \in Placeholders : AcceptWorker(c, k)
    \/ UpstreamDrop

Spec == Init /\ [][Next]_vars

-----------------------------------------------------------------------------
(* Properties *)

Forward == [job : Nat, upstream : Int, height : Heights, pow : Pow, conn : Conns]

\* Every variable holds a value of the kind the code gives it.
TypeOK ==
    /\ pc \in Phases
    /\ connected \in BOOLEAN
    /\ srvJob \in Templates
    /\ job \in PoolJobs
    /\ duplicates \subseteq Pow
    /\ DOMAIN versions \subseteq Nat
    /\ versions \in [DOMAIN versions -> Pre]
    /\ DOMAIN reg \subseteq Keys
    /\ reg \in [DOMAIN reg -> Conns]
    /\ wk \in [Conns -> Worker]
    /\ cur \in Conns \cup {None}
    /\ locked \in BOOLEAN
    /\ issued \subseteq PoolJobs
    /\ forwarded \in Seq(Forward)
    /\ nShares \in 0 .. MaxShares

\* Facts about the job heights that the type of a submitted share rests
\* on: only the empty template has height 0, the pool's job never runs
\* ahead of the upstream one, and job_versions is empty until a real job
\* has been taken (so process_shares never reduces a job id modulo 0).
JobShape ==
    /\ srvJob.height = 0 => srvJob.id = 0
    /\ job.height <= srvJob.height
    /\ job.height = 0 => job.pre = <<0, 0>>
    /\ DOMAIN versions # {} => job.height >= 1

TypeInv == TypeOK /\ JobShape

\* No proof is credited twice at one height: the duplicate map, cleared
\* by accept_new_job only when the height moves, keeps process_shares from
\* forwarding the same pow vector upstream twice, whichever workers send it
\* and however many template versions the height goes through.
NoDoubleAccept ==
    \A i, j \in DOMAIN forwarded :
        (i # j /\ forwarded[i].height = forwarded[j].height)
            => forwarded[i].pow # forwarded[j].pow

\* No constructed solution is forwarded: every share process_shares sends
\* upstream was solved on exactly the pre_pow of the job it names, a job
\* the pool sent out at that height.
NoForgedForward ==
    \A i \in DOMAIN forwarded :
        \E j \in issued : /\ j.id = forwarded[i].job
                          /\ j.height = forwarded[i].height
                          /\ j.pre = forwarded[i].pow.pre

\* Every upstream job sent to the workers at the current height can still
\* be resolved in job_versions to the pre_pow it was sent with, so an
\* honest share for an older version of this height's template is not
\* rejected.  (send_jobs may also hand out JobTemplate::new() before the
\* first upstream job arrives; that one is never in job_versions.)
VersionsComplete ==
    \A j \in issued :
        j.height = job.height /\ j.pre # EmptyJob.pre =>
            j.id \in DOMAIN versions /\ versions[j.id] = j.pre

\* A step that stays at one height keeps every binding of job_versions.
VersionsKept ==
    job'.height = job.height =>
        \A x \in DOMAIN versions : x \in DOMAIN versions' /\ versions'[x] = versions[x]

\* Within a height, accept_new_job never rebinds a job id in job_versions:
\* an id a miner may still hold keeps the pre_pow it was sent with, however
\* many template versions arrive before the height moves.
VersionsStable == [][VersionsKept]_vars

\* The positions in the submit history of the shares connection c sent.
ForwardedBy(c) == {i \in DOMAIN forwarded : forwarded[i].conn = c}

\* The pool submits upstream exactly the shares it credits: for every
\* connection, the accepted counter of process_shares equals the number of
\* its shares handed to server.submit_share.  A share that fails a later
\* stage must not fall through to the submit below the gates.
AcceptedIsForwarded ==
    \A c \in Conns : wk[c].accepted = Cardinality(ForwardedBy(c))

\* Spec section 3 and the comment "remove the block height prefix from the
\* job_id" at the submit: the id sent upstream is the upstream job id the
\* pool prefixed with height * 1000 in accept_new_job.  The code computes
\* job_id % height, which is that id only when it is below the height.
ForwardedIdIsUpstreamId ==
    \A i \in DOMAIN forwarded :
        forwarded[i].upstream = forwarded[i].job - forwarded[i].height * 1000

\* Spec section 7: every rejected share is reported to its worker with an
\* RPC error, and every accepted one acknowledged; process_shares answers
\* each share it takes from a worker.
EveryShareAnswered ==
    \A c \in Conns :
        wk[c].answered = wk[c].accepted + wk[c].rejected + wk[c].stale

\* Spec section 4.3: every terminal outcome of the pipeline is counted in
\* the worker's per-height tally (add_shares) since its last reset.
TallyCountsEveryShare ==
    \A c \in Conns : wk[c].tally = wk[c].since

\* Spec section 3: a worker record leaves the registry only when the
\* control loop sees it in error (clean_workers); no open connection is
\* dropped from the registry while healthy.
NoSilentEviction ==
    \A c \in Conns :
        (wk[c].state = "open" /\ c \notin Registered) => wk[c].error

-----------------------------------------------------------------------------
(* Job ids.  The jobs accept_new_job makes carry the id                    *)
(* height * 1000 + upstream id.                                             *)

PrefixedJobs ==
    {[height |-> h, id |-> h * 1000 + u, pre |-> <<h, u>>] :
        h \in Heights, u \in 0 .. MaxVersion}

-----------------------------------------------------------------------------
(* Liveness.  Pool::run is one thread in an endless loop whose calls never *)
(* block (the worker sockets are non-blocking, a failed connect sleeps and *)
(* starts the tick again): weak fairness of its steps says the thread keeps *)
(* being scheduled and the upstream node is eventually reachable.  The     *)
(* accept thread, the miners and the upstream node's templates and drops   *)
(* are the environment and get no fairness.                                *)

Fairness == WF_vars(ControlLoop)

FairSpec == Spec /\ Fairness

\* An authenticated worker that asks for work (login, getjobtemplate) is
\* eventually sent a job by send_jobs or broadcast_job, unless it leaves the
\* registry first.
JobReachesNeedyWorker ==
    \A c \in Conns :
        (c \in Registered /\ wk[c].auth /\ wk[c].needsJob)
            ~> (~wk[c].needsJob \/ c \notin Registered)

\* Every share a registered worker has queued is eventually taken by
\* process_shares: the loop over the workers does not end before all of
\* their queues are empty, and the worker in hand releases its turn.
SharesDrained ==
    \A c \in Conns :
        (c \in Registered /\ wk[c].queue # << >>)
            ~> (wk[c].queue = << >> \/ c \notin Registered)

\* The pool's job has caught up with template t: it is t or a later one.
CaughtUp(t) ==
    \/ job.height > t.height
    \/ job.height = t.height /\ job.pre[2] >= t.id

\* Every template the upstream session receives, including a new version
\* at the same height, eventually becomes the pool's job or is overtaken
\* by a later one (accept_new_job compares pre_pows, not heights).
PoolFollowsUpstream ==
    \A t \in Templates : (srvJob = t) ~> CaughtUp(t)

=============================================================================
