----------------------------- MODULE PoolProofs -----------------------------
(***************************************************************************)
(* Proofs about the pool controller of Pool.tla, for every value of the    *)
(* constants that satisfies ConstantsAssumption.                           *)
(***************************************************************************)
EXTENDS Pool, SequenceTheorems, TLAPS

USE ConstantsAssumption

-----------------------------------------------------------------------------
(* Lemmas about the registry helpers.                                      *)

\* HashMap::insert keeps a map from keys to connections one.
LEMMA MapInsertType ==
    ASSUME NEW f, NEW K, NEW V, NEW k \in K, NEW v \in V,
           DOMAIN f \subseteq K, f \in [DOMAIN f -> V]
    PROVE  /\ DOMAIN MapInsert(f, k, v) \subseteq K
           /\ MapInsert(f, k, v) \in [DOMAIN MapInsert(f, k, v) -> V]
BY DEF MapInsert

\* Restrict keeps a map from keys to connections one.
LEMMA RestrictType ==
    ASSUME NEW f, NEW K, NEW V, NEW S \in SUBSET DOMAIN f,
           DOMAIN f \subseteq K, f \in [DOMAIN f -> V]
    PROVE  /\ DOMAIN Restrict(f, S) \subseteq K
           /\ Restrict(f, S) \in [DOMAIN Restrict(f, S) -> V]
BY DEF Restrict

-----------------------------------------------------------------------------
(* Lemmas about updates of a Worker record and of the per-connection map.  *)

\* Setting one of the counters of a worker to a natural number keeps it a
\* worker (the counters that process_shares and reset_worker_shares move).
LEMMA CounterUpdate ==
    ASSUME NEW r \in Worker, NEW n \in Nat
    PROVE  /\ [r EXCEPT !.accepted = n] \in Worker
           /\ [r EXCEPT !.rejected = n] \in Worker
           /\ [r EXCEPT !.stale = n] \in Worker
           /\ [r EXCEPT !.answered = n] \in Worker
           /\ [r EXCEPT !.tally = n] \in Worker
           /\ [r EXCEPT !.since = n] \in Worker
BY DEF Worker

\* The updates that the message handlers, the accept thread, send_jobs and
\* broadcast_job make to a worker keep it a worker.
LEMMA FlagUpdate ==
    ASSUME NEW r \in Worker
    PROVE  /\ [r EXCEPT !.state = "open"] \in Worker
           /\ [r EXCEPT !.needsJob = TRUE] \in Worker
           /\ [r EXCEPT !.needsJob = FALSE] \in Worker
           /\ [r EXCEPT !.error = TRUE] \in Worker
           /\ \A l \in Logins :
                 [r EXCEPT !.login = l, !.auth = TRUE, !.needsJob = TRUE] \in Worker
           /\ \A s \in Share : [r EXCEPT !.queue = Append(@, s)] \in Worker
BY AppendProperties DEF Worker

\* reset_worker_shares keeps a worker a worker.
LEMMA ResetType ==
    ASSUME NEW r \in Worker
    PROVE  ResetShares(r) \in Worker
<1>1. [r EXCEPT !.tally = 0] \in Worker
    BY CounterUpdate
<1> QED
    BY <1>1, CounterUpdate DEF ResetShares

\* Taking a share off the queue and counting its outcome keeps a worker a
\* worker.  The record is rebuilt one field at a time.
LEMMA CountedType ==
    ASSUME NEW w \in Worker, w.queue # << >>, NEW o
    PROVE  Counted(w, o) \in Worker
<1> DEFINE w1 == [w EXCEPT !.queue = Tail(w.queue)]
           w2 == [w1 EXCEPT !.accepted = w.accepted + Inc(o = "ok")]
           w3 == [w2 EXCEPT !.stale = w.stale + Inc(o = "stale")]
           w4 == [w3 EXCEPT !.rejected = w.rejected + Inc(o \notin {"ok", "stale"})]
           w5 == [w4 EXCEPT !.tally = w.tally + Inc(o # "size")]
           w6 == [w5 EXCEPT !.since = w.since + 1]
           w7 == [w6 EXCEPT !.answered = w.answered + Inc(o # "unknown")]
<1>1. Tail(w.queue) \in Seq(Share)
    BY HeadTailProperties DEF Worker
<1>2. /\ w.accepted + Inc(o = "ok") \in Nat
      /\ w.stale + Inc(o = "stale") \in Nat
      /\ w.rejected + Inc(o \notin {"ok", "stale"}) \in Nat
      /\ w.tally + Inc(o # "size") \in Nat
      /\ w.since + 1 \in Nat
      /\ w.answered + Inc(o # "unknown") \in Nat
    BY DEF Inc, Worker
<1>3. w1 \in Worker  BY <1>1 DEF Worker
<1>4. w2 \in Worker  BY <1>2, <1>3, CounterUpdate
<1>5. w3 \in Worker  BY <1>2, <1>4, CounterUpdate
<1>6. w4 \in Worker  BY <1>2, <1>5, CounterUpdate
<1>7. w5 \in Worker  BY <1>2, <1>6, CounterUpdate
<1>8. w6 \in Worker  BY <1>2, <1>7, CounterUpdate
<1>9. w7 \in Worker  BY <1>2, <1>8, CounterUpdate
<1> QED
    BY <1>9 DEF Counted

-----------------------------------------------------------------------------
(* Type correctness.  TypeOK alone is not inductive: the upstream id of a  *)
(* forwarded share is share.job_id % share.height, an integer only because *)
(* the height is not 0, which JobShape provides.                           *)

\* The numeric facts about the two templates that the steps below use.
LEMMA JobFacts ==
    ASSUME TypeOK
    PROVE  /\ srvJob.height \in Nat /\ srvJob.id \in Nat
           /\ srvJob.pre = <<srvJob.height, srvJob.id>>
           /\ job.height \in Nat /\ job.id \in Nat /\ job.pre \in Pre
BY DEF TypeOK, Templates, PoolJobs, Heights

\* Every forwarded share has a height that is a natural number.
LEMMA ForwardedHeights ==
    ASSUME TypeOK
    PROVE  \A i \in DOMAIN forwarded : forwarded[i].height \in Nat
<1> SUFFICES ASSUME NEW i \in DOMAIN forwarded
             PROVE  forwarded[i].height \in Nat
    OBVIOUS
<1>1. forwarded[i] \in Forward
    BY DEF TypeOK
<1> QED
    BY <1>1 DEF Forward, Heights

LEMMA InitTypeInv == Init => TypeInv
<1> SUFFICES ASSUME Init PROVE TypeInv
    OBVIOUS
<1>1. wk \in [Conns -> Worker]
    BY DEF Init, NewWorker, Worker
<1>2. srvJob \in Templates /\ job \in PoolJobs
    BY DEF Init, EmptyJob, Template, Templates, PoolJobs, Heights, Pre
<1>3. forwarded \in Seq(Forward)
    BY EmptySeq DEF Init
<1>4. /\ DOMAIN versions = {} /\ versions \in [DOMAIN versions -> Pre]
      /\ DOMAIN reg = {} /\ reg \in [DOMAIN reg -> Conns]
    BY DEF Init, NoVersions
<1>5. JobShape
    BY <1>4 DEF Init, JobShape, EmptyJob, Template
<1>6. /\ pc \in Phases /\ connected \in BOOLEAN /\ duplicates \subseteq Pow
      /\ cur \in Conns \cup {None} /\ locked \in BOOLEAN /\ issued \subseteq PoolJobs
    BY DEF Init, Phases
<1>7. nShares \in 0 .. MaxShares
    BY DEF Init
<1> QED
    BY <1>1, <1>2, <1>3, <1>4, <1>5, <1>6, <1>7 DEF TypeInv, TypeOK

LEMMA UpstreamDropTypeInv == TypeInv /\ UpstreamDrop => TypeInv'
BY DEF TypeInv, TypeOK, JobShape, UpstreamDrop

LEMMA AcceptWorkerTypeInv ==
    ASSUME TypeInv, NEW c \in Conns, NEW k \in Placeholders, AcceptWorker(c, k)
    PROVE  TypeInv'
<1>1. DOMAIN reg' \subseteq Keys /\ reg' \in [DOMAIN reg' -> Conns]
    BY MapInsertType DEF AcceptWorker, TypeInv, TypeOK, Keys
<1>2. wk' \in [Conns -> Worker]
    <2>1. wk[c] \in Worker
        BY DEF TypeInv, TypeOK
    <2>2. [wk[c] EXCEPT !.state = "open"] \in Worker
        BY <2>1 DEF Worker
    <2> QED
        BY <2>2 DEF AcceptWorker, TypeInv, TypeOK
<1>3. UNCHANGED <<pc, connected, srvJob, job, duplicates, versions, cur, locked,
                  issued, forwarded, nShares>>
    BY DEF AcceptWorker
<1> QED
    BY <1>1, <1>2, <1>3 DEF TypeInv, TypeOK, JobShape

LEMMA ConnectTypeInv == TypeInv /\ Connect => TypeInv'
BY DEF TypeInv, TypeOK, JobShape, Connect, Phases

LEMMA ProcessServerMessagesTypeInv ==
    TypeInv /\ ProcessServerMessages => TypeInv'
<1> SUFFICES ASSUME TypeInv, ProcessServerMessages PROVE TypeInv'
    OBVIOUS
<1>1. srvJob' \in Templates /\ srvJob'.height >= srvJob.height
      /\ (srvJob'.height = 0 => srvJob'.id = 0)
    <2>1. CASE srvJob' = srvJob
        BY <2>1 DEF TypeInv, TypeOK, JobShape, Templates, Heights
    <2>2. CASE srvJob' \in UpstreamSuccessors(srvJob)
        BY <2>2 DEF UpstreamSuccessors, TypeInv, TypeOK, Templates, Heights
    <2> QED
        BY <2>1, <2>2 DEF ProcessServerMessages
<1>2. UNCHANGED <<connected, job, duplicates, versions, reg, wk, cur, locked,
                  issued, forwarded, nShares>> /\ pc' \in Phases
    BY DEF ProcessServerMessages, Phases
<1>3. TypeOK'
    BY <1>1, <1>2 DEF TypeInv, TypeOK
<1>4. JobShape'
    <2>1. srvJob'.height \in Nat /\ srvJob.height \in Nat /\ job.height \in Nat
        BY <1>1, JobFacts DEF TypeInv, Templates, Heights
    <2> QED
        BY <1>1, <1>2, <2>1 DEF TypeInv, JobShape
<1> QED
    BY <1>3, <1>4 DEF TypeInv

LEMMA AcceptNewJobTypeInv ==
    TypeInv /\ AcceptNewJob => TypeInv'
<1> SUFFICES ASSUME TypeInv, AcceptNewJob PROVE TypeInv'
    OBVIOUS
<1>0. TypeOK /\ JobShape
    BY DEF TypeInv
<1>1. UNCHANGED <<connected, srvJob, reg, cur, locked, forwarded, nShares>>
      /\ pc' \in Phases
    BY DEF AcceptNewJob, Phases
<1>2. CASE job.pre = srvJob.pre
    <2>1. UNCHANGED <<job, wk, issued, duplicates, versions>>
        BY <1>2 DEF AcceptNewJob, NewTemplate
    <2> QED
        BY <1>0, <1>1, <2>1 DEF TypeInv, TypeOK, JobShape
<1>3. CASE job.pre # srvJob.pre
    <2> DEFINE newHeight == job.height # srvJob.height
               newJob == [srvJob EXCEPT !.id = JobId(srvJob)]
    <2>1. /\ job' = newJob
          /\ wk' = Broadcast(wk, newJob)
          /\ issued' = issued \cup {j \in {newJob} : \E c \in Registered : wk[c].auth}
          /\ duplicates' = EpochDuplicates(newHeight)
          /\ versions' = JobVersions(newHeight, newJob)
        BY <1>3 DEF AcceptNewJob, NewTemplate
    \* The pool's job differs from the upstream one only once a real
    \* template has arrived: the empty template has height 0 and id 0.
    <2>2. srvJob.height >= 1
        BY <1>0, <1>3, JobFacts DEF JobShape
    <2>3. /\ newJob.height = srvJob.height /\ newJob.id \in Nat
          /\ newJob.pre = srvJob.pre /\ newJob \in PoolJobs
        <3>1. srvJob \in [height : Heights, id : 0 .. MaxVersion, pre : Pre]
            BY <1>0 DEF TypeOK, Templates
        <3>2. JobId(srvJob) \in Nat
            BY <1>0, JobFacts DEF JobId
        <3> QED
            BY <3>1, <3>2 DEF PoolJobs
    <2>4. wk' \in [Conns -> Worker]
        <3>1. \A c \in Conns : ResetShares([wk[c] EXCEPT !.needsJob = FALSE]) \in Worker
            BY <1>0, FlagUpdate, ResetType DEF TypeOK
        <3> QED
            BY <1>0, <2>1, <3>1 DEF TypeOK, Broadcast, ServedJob
    <2>5. /\ DOMAIN versions' \subseteq Nat
          /\ versions' \in [DOMAIN versions' -> Pre]
          /\ DOMAIN versions' # {}
        BY <1>0, <2>1, <2>3, JobFacts DEF TypeOK, JobVersions, MapInsert, NoVersions, Templates
    <2>6. issued' \subseteq PoolJobs /\ duplicates' \subseteq Pow
        <3>1. issued \subseteq PoolJobs /\ duplicates \subseteq Pow
            BY <1>0 DEF TypeOK
        <3>2. issued' \subseteq PoolJobs
            BY <2>1, <2>3, <3>1
        <3>3. duplicates' \subseteq Pow
            BY <2>1, <3>1 DEF EpochDuplicates
        <3> QED
            BY <3>2, <3>3
    <2>7. TypeOK'
        <3>1. /\ pc' \in Phases /\ connected' \in BOOLEAN /\ srvJob' \in Templates
              /\ DOMAIN reg' \subseteq Keys /\ reg' \in [DOMAIN reg' -> Conns]
              /\ cur' \in Conns \cup {None} /\ locked' \in BOOLEAN
              /\ forwarded' \in Seq(Forward) /\ nShares' \in 0 .. MaxShares
            BY <1>0, <1>1 DEF TypeOK
        <3>2. job' \in PoolJobs
            BY <2>1, <2>3
        <3> QED
            BY <2>4, <2>5, <2>6, <3>1, <3>2 DEF TypeOK
    <2>8. JobShape'
        BY <1>1, <2>1, <2>2, <2>3, JobFacts DEF TypeInv, JobShape
    <2> QED
        BY <2>7, <2>8 DEF TypeInv
<1> QED
    BY <1>2, <1>3

\* A miner only submits shares of the kind Worker::process_messages
\* parses: a job id, a height, edge bits and a proof.
LEMMA SubmitSharesType ==
    ASSUME TypeOK
    PROVE  SubmitShares \subseteq Share
<1> SUFFICES ASSUME NEW j \in issued, NEW h \in {j.height, job.height},
                    NEW e \in EdgeBits, NEW p \in {j.pre, job.pre}, NEW x \in Sols
             PROVE  [job |-> j.id, height |-> h, edge |-> e,
                     pow |-> [pre |-> p, sol |-> x]] \in Share
    BY DEF SubmitShares
<1>1. j \in PoolJobs /\ job \in PoolJobs
    BY DEF TypeOK
<1> QED
    BY <1>1 DEF PoolJobs, Share, Pow

LEMMA ReadMessageTypeInv ==
    ASSUME TypeInv, NEW c \in Conns, ReadMessage(c)
    PROVE  TypeInv'
<1>0. TypeOK /\ JobShape /\ wk[c] \in Worker
    BY DEF TypeInv, TypeOK
<1>1. UNCHANGED <<pc, connected, srvJob, job, duplicates, versions, reg,
                  cur, issued, forwarded>> /\ locked' = TRUE
    BY DEF ReadMessage
<1>2. /\ wk' \in [Conns -> Worker]
      /\ nShares' \in 0 .. MaxShares
    <2>1. CASE \E l \in Logins : Login(c, l) /\ UNCHANGED nShares
        <3>1. PICK l \in Logins : Login(c, l) /\ UNCHANGED nShares
            BY <2>1
        <3>2. wk' = [wk EXCEPT ![c] = [wk[c] EXCEPT !.login = l, !.auth = TRUE,
                                                   !.needsJob = TRUE]]
            BY <3>1 DEF Login
        <3>3. [wk[c] EXCEPT !.login = l, !.auth = TRUE, !.needsJob = TRUE] \in Worker
            BY <1>0, FlagUpdate
        <3> QED
            BY <1>0, <3>1, <3>2, <3>3 DEF TypeOK
    <2>2. CASE GetJob(c) /\ UNCHANGED nShares
        BY <1>0, <2>2, FlagUpdate DEF GetJob, TypeOK
    <2>3. CASE \E s \in SubmitShares : Submit(c, s) /\ nShares' = nShares + 1
        <3>1. PICK s \in SubmitShares : Submit(c, s) /\ nShares' = nShares + 1
            BY <2>3
        <3>2. s \in Share
            BY <1>0, SubmitSharesType
        <3>3. wk' = [wk EXCEPT ![c] = [wk[c] EXCEPT !.queue = Append(@, s)]]
            BY <3>1 DEF Submit
        <3>4. [wk[c] EXCEPT !.queue = Append(@, s)] \in Worker
            BY <1>0, <3>2, FlagUpdate
        <3>5. nShares < MaxShares
            BY <3>1 DEF Submit
        <3> QED
            BY <1>0, <3>1, <3>3, <3>4, <3>5 DEF TypeOK
    <2>4. CASE Close(c) /\ UNCHANGED nShares
        BY <1>0, <2>4, FlagUpdate DEF Close, TypeOK
    <2> QED
        BY <2>1, <2>2, <2>3, <2>4 DEF ReadMessage
<1> QED
    BY <1>0, <1>1, <1>2 DEF TypeInv, TypeOK, JobShape

\* The rehash at the end of process_worker_messages only ever inserts
\* logins, and only binds keys to connections the registry held.
LEMMA EndMessagesTypeInv ==
    TypeInv /\ EndMessages => TypeInv'
<1> SUFFICES ASSUME TypeInv, EndMessages PROVE TypeInv'
    OBVIOUS
<1>0. TypeOK /\ JobShape
    BY DEF TypeInv
<1> DEFINE changed == {k \in DOMAIN reg : IdChanged(k)}
           movers == {reg[k] : k \in changed}
           newIds == {wk[c].login : c \in movers}
<1>1. movers \subseteq Conns
    BY <1>0 DEF TypeOK
<1>2. newIds \subseteq Logins
    <2> SUFFICES ASSUME NEW k \in changed PROVE wk[reg[k]].login \in Logins
        OBVIOUS
    <2>1. wk[reg[k]] \in Worker
        BY <1>0 DEF TypeOK
    <2>2. wk[reg[k]].login \notin {None, k}
        BY DEF IdChanged
    <2> QED
        BY <2>1, <2>2 DEF Worker
<1>3. PICK last \in [newIds -> movers] :
          reg' = [x \in (DOMAIN reg \ changed) \cup newIds |->
                    IF x \in newIds THEN last[x] ELSE reg[x]]
    BY DEF EndMessages
<1>4. DOMAIN reg' \subseteq Keys /\ reg' \in [DOMAIN reg' -> Conns]
    BY <1>0, <1>1, <1>2, <1>3 DEF TypeOK, Keys
<1>5. wk' \in [Conns -> Worker]
    <2>1. wk' = [c \in Conns |-> IF c \in movers THEN ResetShares(wk[c]) ELSE wk[c]]
        BY DEF EndMessages
    <2>2. \A c \in Conns : ResetShares(wk[c]) \in Worker
        BY <1>0, ResetType DEF TypeOK
    <2> QED
        BY <1>0, <2>1, <2>2 DEF TypeOK
<1>6. /\ pc' \in Phases /\ cur' \in Conns \cup {None} /\ locked' = FALSE
      /\ UNCHANGED <<connected, srvJob, job, duplicates, versions, issued,
                     forwarded, nShares>>
    BY DEF EndMessages, Phases
<1> QED
    BY <1>0, <1>4, <1>5, <1>6 DEF TypeInv, TypeOK, JobShape

\* A share that reaches server.submit_share has the current height and a
\* job id found in job_versions, so its height is not 0 and the
\* share.job_id % share.height of the submit is defined.
LEMMA ProcessShareTypeInv ==
    ASSUME TypeInv, NEW c \in Conns, ProcessShare(c)
    PROVE  TypeInv'
<1>0. TypeOK /\ JobShape /\ wk[c] \in Worker
    BY DEF TypeInv, TypeOK
<1> DEFINE s == Head(wk[c].queue)
           o == Outcome(s)
<1>1. wk[c].queue # << >> /\ wk[c].queue \in Seq(Share)
    BY <1>0 DEF ProcessShare, Worker
<1>2. s \in Share
    BY <1>1, HeadTailProperties
<1>3. /\ duplicates' = duplicates \cup {s.pow}
      /\ wk' = [wk EXCEPT ![c] = Counted(@, o)]
      /\ forwarded' = IF SubmitsUpstream(o) THEN Append(forwarded, Upstream(s, c))
                                            ELSE forwarded
      /\ cur' \in Conns \cup {None} /\ locked' = TRUE
      /\ UNCHANGED <<pc, connected, srvJob, job, versions, reg, issued, nShares>>
    BY DEF ProcessShare
<1>4. wk' \in [Conns -> Worker]
    BY <1>0, <1>1, <1>3, CountedType DEF TypeOK
<1>5. duplicates' \subseteq Pow
    BY <1>0, <1>2, <1>3 DEF TypeOK, Share
<1>6. forwarded' \in Seq(Forward)
    <2>1. CASE SubmitsUpstream(o)
        <3>1. s.height = job.height /\ s.job \in DOMAIN versions
            BY <2>1 DEF SubmitsUpstream, Outcome
        <3>2. s.height \in Nat \ {0}
            BY <1>0, <1>2, <3>1, JobFacts DEF JobShape, Share, Heights
        <3>3. Upstream(s, c) \in Forward
            BY <1>2, <3>2 DEF Upstream, Forward, Share
        <3> QED
            BY <1>0, <1>3, <2>1, <3>3, AppendProperties DEF TypeOK
    <2>2. CASE ~SubmitsUpstream(o)
        BY <1>0, <1>3, <2>2 DEF TypeOK
    <2> QED
        BY <2>1, <2>2
<1> QED
    BY <1>0, <1>3, <1>4, <1>5, <1>6 DEF TypeInv, TypeOK, JobShape

LEMMA EndSharesTypeInv == TypeInv /\ EndShares => TypeInv'
BY DEF TypeInv, TypeOK, JobShape, EndShares, Phases

\* send_jobs resets the tallies of the workers it serves and hands out
\* the current job.
LEMMA SendJobsTypeInv == TypeInv /\ SendJobs => TypeInv'
<1> SUFFICES ASSUME TypeInv, SendJobs PROVE TypeInv'
    OBVIOUS
<1>0. TypeOK /\ JobShape
    BY DEF TypeInv
<1>1. \A c \in Conns : ResetShares([wk[c] EXCEPT !.needsJob = FALSE]) \in Worker
    BY <1>0, FlagUpdate, ResetType DEF TypeOK
<1>2. wk' \in [Conns -> Worker] /\ issued' \subseteq PoolJobs
    BY <1>0, <1>1 DEF SendJobs, ServedJob, TypeOK
<1>3. pc' \in Phases /\ UNCHANGED <<connected, srvJob, job, duplicates, versions,
                                   reg, cur, locked, forwarded, nShares>>
    BY DEF SendJobs, Phases
<1> QED
    BY <1>0, <1>2, <1>3 DEF TypeInv, TypeOK, JobShape

\* clean_workers only removes keys.
LEMMA CleanWorkersTypeInv == TypeInv /\ CleanWorkers => TypeInv'
<1> SUFFICES ASSUME TypeInv, CleanWorkers PROVE TypeInv'
    OBVIOUS
<1>0. TypeOK /\ JobShape
    BY DEF TypeInv
<1>1. DOMAIN reg' \subseteq Keys /\ reg' \in [DOMAIN reg' -> Conns]
    <2>1. reg' = Restrict(reg, {k \in DOMAIN reg : ~wk[reg[k]].error})
        BY DEF CleanWorkers
    <2>2. /\ DOMAIN reg \subseteq Keys /\ reg \in [DOMAIN reg -> Conns]
          /\ {k \in DOMAIN reg : ~wk[reg[k]].error} \in SUBSET DOMAIN reg
        BY <1>0 DEF TypeOK
    <2> QED
        BY <2>1, <2>2, RestrictType
<1>2. pc' \in Phases /\ UNCHANGED <<connected, srvJob, job, duplicates, versions, wk,
                                   cur, locked, issued, forwarded, nShares>>
    BY DEF CleanWorkers, Phases
<1> QED
    BY <1>0, <1>1, <1>2 DEF TypeInv, TypeOK, JobShape

LEMMA NextTypeInv == TypeInv /\ [Next]_vars => TypeInv'
<1> SUFFICES ASSUME TypeInv, [Next]_vars PROVE TypeInv'
    OBVIOUS
<1>1. CASE Connect                BY <1>1, ConnectTypeInv
<1>2. CASE ProcessServerMessages  BY <1>2, ProcessServerMessagesTypeInv
<1>3. CASE AcceptNewJob           BY <1>3, AcceptNewJobTypeInv
<1>4. CASE \E c \in Conns : ReadMessage(c)
    BY <1>4, ReadMessageTypeInv
<1>5. CASE EndMessages            BY <1>5, EndMessagesTypeInv
<1>6. CASE \E c \in Conns : ProcessShare(c)
    BY <1>6, ProcessShareTypeInv
<1>7. CASE EndShares              BY <1>7, EndSharesTypeInv
<1>8. CASE SendJobs               BY <1>8, SendJobsTypeInv
<1>9. CASE CleanWorkers           BY <1>9, CleanWorkersTypeInv
<1>10. CASE \E c \in Conns, k \in Placeholders : AcceptWorker(c, k)
    BY <1>10, AcceptWorkerTypeInv
<1>11. CASE UpstreamDrop          BY <1>11, UpstreamDropTypeInv
<1>12. CASE UNCHANGED vars
    BY <1>12 DEF vars, TypeInv, TypeOK, JobShape
<1> QED
    BY <1>1, <1>2, <1>3, <1>4, <1>5, <1>6, <1>7, <1>8, <1>9, <1>10, <1>11,
       <1>12 DEF Next, ControlLoop

\* Type correctness of the pool controller: in every reachable state of
\* Pool::run interleaved with accept_workers every variable holds a value
\* of the kind the code gives it; in particular every share passed to
\* server.submit_share has a well-defined upstream job id.
THEOREM TypeCorrect == Spec => []TypeOK
<1>1. Init => TypeInv
    BY InitTypeInv
<1>2. TypeInv /\ [Next]_vars => TypeInv'
    BY NextTypeInv
<1>3. TypeInv => TypeOK
    BY DEF TypeInv
<1> QED
    BY <1>1, <1>2, <1>3, PTL DEF Spec

-----------------------------------------------------------------------------
(* No double accept.  NoDoubleAccept alone is not inductive: a step of     *)
(* process_shares forwards a pow vector that is not in the duplicate map,  *)
(* which says nothing of the shares forwarded before unless every share    *)
(* forwarded at the current height is in the map, and accept_new_job may   *)
(* empty the map only because no share was forwarded at the new, higher,  *)
(* height.                                                                 *)

\* Every forwarded share is of the current height or a lower one.
ForwardedBelow ==
    \A i \in DOMAIN forwarded : forwarded[i].height <= job.height

\* Every share forwarded at the current height is in the duplicate map.
ForwardedSeen ==
    \A i \in DOMAIN forwarded :
        forwarded[i].height = job.height => forwarded[i].pow \in duplicates

DupInv == TypeInv /\ ForwardedBelow /\ ForwardedSeen /\ NoDoubleAccept

\* A step that leaves the job, the duplicate map and the forwarded shares
\* alone keeps the three facts.
LEMMA DupFrame ==
    ASSUME ForwardedBelow, ForwardedSeen, NoDoubleAccept,
           UNCHANGED <<job, duplicates, forwarded>>
    PROVE  ForwardedBelow' /\ ForwardedSeen' /\ NoDoubleAccept'
BY DEF ForwardedBelow, ForwardedSeen, NoDoubleAccept

\* accept_new_job: a new height is higher than every forwarded share, so
\* emptying the duplicate map forgets none that matters.
LEMMA AcceptNewJobDupInv ==
    ASSUME DupInv, AcceptNewJob
    PROVE  ForwardedBelow' /\ ForwardedSeen' /\ NoDoubleAccept'
<1>0. TypeOK /\ JobShape /\ ForwardedBelow /\ ForwardedSeen /\ NoDoubleAccept
    BY DEF DupInv, TypeInv
<1>1. forwarded' = forwarded
    BY DEF AcceptNewJob
<1>2. CASE job.pre = srvJob.pre
    BY <1>0, <1>2, DupFrame DEF AcceptNewJob, NewTemplate
<1>3. CASE job.pre # srvJob.pre
    <2>1. srvJob \in [height : Heights, id : 0 .. MaxVersion, pre : Pre]
        BY <1>0 DEF TypeOK, Templates
    <2>2. /\ job'.height = srvJob.height
          /\ duplicates' = EpochDuplicates(job.height # srvJob.height)
        BY <1>3, <2>1 DEF AcceptNewJob, NewTemplate
    <2>3. CASE job.height = srvJob.height
        <3>1. job'.height = job.height /\ duplicates' = duplicates
            BY <2>2, <2>3 DEF EpochDuplicates
        <3>2. ForwardedBelow'
            BY <1>0, <1>1, <3>1 DEF ForwardedBelow
        <3>3. ForwardedSeen'
            BY <1>0, <1>1, <3>1 DEF ForwardedSeen
        <3>4. NoDoubleAccept'
            BY <1>0, <1>1 DEF NoDoubleAccept
        <3> QED
            BY <3>2, <3>3, <3>4
    <2>4. CASE job.height # srvJob.height
        <3>1. job.height < job'.height /\ job'.height \in Nat
            BY <1>0, <2>2, <2>4, JobFacts DEF JobShape
        <3>2. \A i \in DOMAIN forwarded : /\ forwarded[i].height \in Nat
                                          /\ forwarded[i].height < job'.height
            <4> SUFFICES ASSUME NEW i \in DOMAIN forwarded
                         PROVE  /\ forwarded[i].height \in Nat
                                /\ forwarded[i].height < job'.height
                OBVIOUS
            <4>1. forwarded[i].height \in Nat /\ forwarded[i].height <= job.height
                BY <1>0, ForwardedHeights DEF ForwardedBelow
            <4> QED
                BY <3>1, <4>1, JobFacts, <1>0
        <3>3. ForwardedBelow'
            BY <1>1, <3>1, <3>2 DEF ForwardedBelow
        <3>4. ForwardedSeen'
            BY <1>1, <3>2 DEF ForwardedSeen
        <3>5. NoDoubleAccept'
            BY <1>0, <1>1 DEF NoDoubleAccept
        <3> QED
            BY <3>3, <3>4, <3>5
    <2> QED
        BY <2>3, <2>4
<1> QED
    BY <1>2, <1>3

\* process_shares: a forwarded share was not in the duplicate map and is
\* put there, while every share forwarded before at this height already is.
LEMMA ProcessShareDupInv ==
    ASSUME DupInv, NEW c \in Conns, ProcessShare(c)
    PROVE  ForwardedBelow' /\ ForwardedSeen' /\ NoDoubleAccept'
<1>0. TypeOK /\ ForwardedBelow /\ ForwardedSeen /\ NoDoubleAccept
    BY DEF DupInv, TypeInv
<1> DEFINE s == Head(wk[c].queue)
           o == Outcome(s)
           u == Upstream(s, c)
<1>1. /\ duplicates' = duplicates \cup {s.pow}
      /\ forwarded' = IF SubmitsUpstream(o) THEN Append(forwarded, u) ELSE forwarded
      /\ job' = job
    BY DEF ProcessShare
<1>2. CASE ~SubmitsUpstream(o)
    BY <1>0, <1>1, <1>2 DEF ForwardedBelow, ForwardedSeen, NoDoubleAccept
<1>3. CASE SubmitsUpstream(o)
    <2>1. s.pow \notin duplicates /\ s.height = job.height
        BY <1>3 DEF SubmitsUpstream, Outcome
    <2>2. u.height = job.height /\ u.pow = s.pow
        BY <2>1 DEF Upstream
    <2>3. forwarded \in Seq(Forward)
        BY <1>0 DEF TypeOK
    <2>4. /\ forwarded' = Append(forwarded, u)
          /\ DOMAIN forwarded' = 1 .. Len(forwarded) + 1
          /\ forwarded'[Len(forwarded) + 1] = u
          /\ \A i \in DOMAIN forwarded : forwarded'[i] = forwarded[i]
        BY <1>1, <1>3, <2>3, AppendProperties
    <2>5. DOMAIN forwarded = 1 .. Len(forwarded)
        BY <2>3
    <2>6. ForwardedBelow'
        BY <1>0, <1>1, <2>2, <2>4, <2>5, JobFacts DEF ForwardedBelow
    <2>7. ForwardedSeen'
        BY <1>0, <1>1, <2>2, <2>4, <2>5 DEF ForwardedSeen
    <2>8. NoDoubleAccept'
        <3> SUFFICES ASSUME NEW i \in DOMAIN forwarded', NEW j \in DOMAIN forwarded',
                            i # j, forwarded'[i].height = forwarded'[j].height
                     PROVE  forwarded'[i].pow # forwarded'[j].pow
            BY DEF NoDoubleAccept
        <3>1. CASE i \in DOMAIN forwarded /\ j \in DOMAIN forwarded
            BY <1>0, <2>4, <3>1 DEF NoDoubleAccept
        <3>2. CASE i = Len(forwarded) + 1 /\ j \in DOMAIN forwarded
            BY <1>0, <2>1, <2>2, <2>4, <3>2 DEF ForwardedSeen
        <3>3. CASE j = Len(forwarded) + 1 /\ i \in DOMAIN forwarded
            BY <1>0, <2>1, <2>2, <2>4, <3>3 DEF ForwardedSeen
        <3> QED
            BY <2>4, <2>5, <3>1, <3>2, <3>3
    <2> QED
        BY <2>6, <2>7, <2>8
<1> QED
    BY <1>2, <1>3


LEMMA InitDupInv == Init => DupInv
<1> SUFFICES ASSUME Init PROVE DupInv
    OBVIOUS
<1>1. TypeInv
    BY InitTypeInv
<1>2. DOMAIN forwarded = {}
    BY DEF Init
<1> QED
    BY <1>1, <1>2 DEF DupInv, ForwardedBelow, ForwardedSeen, NoDoubleAccept

LEMMA NextDupInv == DupInv /\ [Next]_vars => DupInv'
<1> SUFFICES ASSUME DupInv, [Next]_vars PROVE DupInv'
    OBVIOUS
<1>0. TypeInv /\ ForwardedBelow /\ ForwardedSeen /\ NoDoubleAccept
    BY DEF DupInv
<1>1. TypeInv'
    BY <1>0, NextTypeInv
<1>2. CASE AcceptNewJob
    BY <1>1, <1>2, AcceptNewJobDupInv DEF DupInv
<1>3. CASE \E c \in Conns : ProcessShare(c)
    BY <1>1, <1>3, ProcessShareDupInv DEF DupInv
<1>4. CASE ~AcceptNewJob /\ ~\E c \in Conns : ProcessShare(c)
    <2>1. UNCHANGED <<job, duplicates, forwarded>>
        BY <1>4 DEF Next, ControlLoop, vars, Connect, ProcessServerMessages,
                    ReadMessage, EndMessages, EndShares, SendJobs, CleanWorkers,
                    AcceptWorker, UpstreamDrop
    <2> QED
        BY <1>0, <1>1, <2>1, DupFrame DEF DupInv
<1> QED
    BY <1>2, <1>3, <1>4

\* No double accept: in every reachable state no pow vector has been
\* submitted upstream twice at one height by process_shares, whatever the
\* interleaving of workers, template versions and accepted connections.
THEOREM NoDoubleAcceptCorrect == Spec => []NoDoubleAccept
<1>1. Init => DupInv
    BY InitDupInv
<1>2. DupInv /\ [Next]_vars => DupInv'
    BY NextDupInv
<1>3. DupInv => NoDoubleAccept
    BY DEF DupInv
<1> QED
    BY <1>1, <1>2, <1>3, PTL DEF Spec


=============================================================================
