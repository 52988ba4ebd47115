--------------------------- MODULE PoolCreditProofs ---------------------------
(***************************************************************************)
(* Proofs that every share the controller submits upstream was solved on  *)
(* the pre_pow of a job it sent (NoForgedForward), that job_versions       *)
(* resolves every job sent at the current height (VersionsComplete), and  *)
(* that no step at one height rebinds a key of job_versions              *)
(* (VersionsStable).                                                      *)
(***************************************************************************)
EXTENDS PoolProofs

\* The job ids in hand: the ids of the jobs sent to workers.
IssuedIds == {j.id : j \in issued}

\* accept_new_job prefixes every id with its height: the pool's job and
\* every job sent out carry the id height * 1000 + upstream id.
JobsPrefixed == job \in PrefixedJobs /\ issued \subseteq PrefixedJobs

\* job_versions binds only ids of the current height, each to the pre_pow
\* the id was made from.
VersionsPrefixed ==
    \A x \in DOMAIN versions :
        /\ versions[x][1] = job.height
        /\ x = versions[x][1] * 1000 + versions[x][2]

\* A queued share names the id of a job that was sent out.
QueuedFromIssued ==
    \A c \in Conns : \A i \in 1 .. Len(wk[c].queue) : wk[c].queue[i].job \in IssuedIds

CredInv == DupInv /\ JobsPrefixed /\ VersionsPrefixed /\ QueuedFromIssued /\ NoForgedForward

CredFacts == JobsPrefixed /\ VersionsPrefixed /\ QueuedFromIssued /\ NoForgedForward

-----------------------------------------------------------------------------
(* Lemmas about the data *)

\* The worker updates of the control loop other than process_shares leave
\* the share queue alone.
LEMMA ServedQueue ==
    ASSUME NEW w \in Worker
    PROVE  /\ ServedJob(w).queue = w.queue
           /\ ResetShares(w).queue = w.queue
BY DEF ServedJob, ResetShares, Worker

\* A step that keeps every queue and drops no sent job keeps the queued
\* shares naming sent jobs.
LEMMA QueueFrame ==
    ASSUME QueuedFromIssued, issued \subseteq issued',
           \A c \in Conns : wk'[c].queue = wk[c].queue
    PROVE  QueuedFromIssued'
BY DEF QueuedFromIssued, IssuedIds

\* A step that touches neither the jobs nor the forwarded shares, and keeps
\* every queue, keeps all the facts.
LEMMA CredFrame ==
    ASSUME CredFacts, UNCHANGED <<job, issued, versions, forwarded>>,
           \A c \in Conns : wk'[c].queue = wk[c].queue
    PROVE  CredFacts'
<1>1. QueuedFromIssued'
    BY QueueFrame DEF CredFacts
<1> QED
    BY <1>1 DEF CredFacts, JobsPrefixed, VersionsPrefixed, NoForgedForward

LEMMA InitCredInv == Init => CredInv
<1> SUFFICES ASSUME Init PROVE CredInv
    OBVIOUS
<1>1. DupInv
    BY InitDupInv
<1>2. job \in PrefixedJobs
    <2>1. 0 \in Heights /\ 0 \in 0 .. MaxVersion
        BY ConstantsAssumption DEF Heights
    <2> QED
        BY <2>1 DEF Init, EmptyJob, Template, PrefixedJobs
<1>3. issued = {} /\ DOMAIN versions = {} /\ DOMAIN forwarded = {}
    BY DEF Init, NoVersions
<1>4. \A c \in Conns : wk[c].queue = << >>
    BY DEF Init, NewWorker
<1> QED
    BY <1>1, <1>2, <1>3, <1>4 DEF CredInv, JobsPrefixed, VersionsPrefixed,
                                  QueuedFromIssued, NoForgedForward

-----------------------------------------------------------------------------
(* One lemma per action that can disturb the facts *)

\* The pool's job and every job sent out stay well formed, and
\* job_versions keeps binding prefixed ids of the current height.
LEMMA AcceptNewJobCred ==
    ASSUME CredInv, AcceptNewJob
    PROVE  CredFacts'
<1>0. TypeOK /\ CredFacts
    BY DEF CredInv, DupInv, TypeInv, CredFacts
<1>1. forwarded' = forwarded
    BY DEF AcceptNewJob
<1>2. CASE ~NewTemplate
    <2>1. UNCHANGED <<job, wk, issued, versions>>
        BY <1>2 DEF AcceptNewJob
    <2> QED
        BY <1>0, <1>1, <2>1, CredFrame
<1>3. CASE NewTemplate
    <2> DEFINE newHeight == job.height # srvJob.height
               newJob == [srvJob EXCEPT !.id = JobId(srvJob)]
    <2>1. /\ job' = newJob
          /\ wk' = Broadcast(wk, newJob)
          /\ issued' = issued \cup {j \in {newJob} : \E c \in Registered : wk[c].auth}
          /\ versions' = JobVersions(newHeight, newJob)
        BY <1>3 DEF AcceptNewJob
    <2>2. srvJob \in [height : Heights, id : 0 .. MaxVersion, pre : Pre]
          /\ srvJob.pre = <<srvJob.height, srvJob.id>>
        BY <1>0 DEF TypeOK, Templates
    <2>3. /\ newJob = [height |-> srvJob.height, id |-> srvJob.height * 1000 + srvJob.id,
                       pre |-> <<srvJob.height, srvJob.id>>]
          /\ newJob \in PrefixedJobs
        BY <2>2 DEF JobId, PrefixedJobs
    <2>4. JobsPrefixed'
        BY <1>0, <2>1, <2>3 DEF CredFacts, JobsPrefixed
    <2>5. VersionsPrefixed'
        <3>1. /\ DOMAIN versions' = (IF newHeight THEN {} ELSE DOMAIN versions) \cup {newJob.id}
              /\ \A x \in DOMAIN versions' :
                    versions'[x] = IF x = newJob.id THEN newJob.pre ELSE versions[x]
            BY <2>1 DEF JobVersions, MapInsert, NoVersions
        <3>2. ~newHeight => job.height = newJob.height
            BY <2>3
        <3> QED
            BY <1>0, <2>1, <2>3, <3>1, <3>2 DEF CredFacts, VersionsPrefixed
    <2>6. QueuedFromIssued'
        <3>1. \A c \in Conns : wk'[c].queue = wk[c].queue
            BY <1>0, <2>1, ServedQueue DEF TypeOK, Broadcast
        <3> QED
            BY <1>0, <2>1, <3>1, QueueFrame DEF CredFacts
    <2>7. NoForgedForward'
        BY <1>0, <1>1, <2>1 DEF CredFacts, NoForgedForward
    <2> QED
        BY <2>4, <2>5, <2>6, <2>7 DEF CredFacts
<1> QED
    BY <1>2, <1>3

\* send_jobs hands out the pool's job, which is well formed.
LEMMA SendJobsCred ==
    ASSUME CredInv, SendJobs
    PROVE  CredFacts'
<1>0. TypeOK /\ CredFacts
    BY DEF CredInv, DupInv, TypeInv, CredFacts
<1>1. /\ issued' \subseteq issued \cup {job}
      /\ UNCHANGED <<job, versions, forwarded>>
      /\ \A c \in Conns : wk'[c].queue = wk[c].queue
    BY <1>0, ServedQueue DEF SendJobs, TypeOK
<1>2. JobsPrefixed'
    BY <1>0, <1>1 DEF CredFacts, JobsPrefixed
<1>3. QueuedFromIssued'
    <2>1. issued \subseteq issued'
        BY DEF SendJobs
    <2> QED
        BY <1>0, <1>1, <2>1, QueueFrame DEF CredFacts
<1>4. NoForgedForward'
    <2>1. issued \subseteq issued'
        BY DEF SendJobs
    <2> QED
        BY <1>0, <1>1, <2>1 DEF CredFacts, NoForgedForward
<1> QED
    BY <1>0, <1>1, <1>2, <1>3, <1>4 DEF CredFacts, VersionsPrefixed

\* A miner submits against a job it was sent.
LEMMA SubmitJob ==
    ASSUME NEW s \in SubmitShares
    PROVE  s.job \in IssuedIds
BY DEF SubmitShares, IssuedIds

\* Of the messages a worker reads, only a submit touches a queue, and it
\* appends a share naming a sent job.
LEMMA ReadMessageCred ==
    ASSUME CredInv, NEW c \in Conns, ReadMessage(c)
    PROVE  CredFacts'
<1>0. TypeOK /\ CredFacts /\ wk[c] \in Worker
    BY DEF CredInv, DupInv, TypeInv, CredFacts, TypeOK
<1>1. UNCHANGED <<job, issued, versions, forwarded>>
    BY DEF ReadMessage
<1>2. CASE \/ \E l \in Logins : Login(c, l) /\ UNCHANGED nShares
           \/ GetJob(c) /\ UNCHANGED nShares
           \/ Close(c) /\ UNCHANGED nShares
    <2>1. \A d \in Conns : wk'[d].queue = wk[d].queue
        <3>1. CASE \E l \in Logins : Login(c, l)
            <4>1. PICK l \in Logins : Login(c, l)
                BY <3>1
            <4>2. wk' = [wk EXCEPT ![c] = [wk[c] EXCEPT !.login = l, !.auth = TRUE,
                                                       !.needsJob = TRUE]]
                BY <4>1 DEF Login
            <4> QED
                BY <1>0, <4>2 DEF TypeOK, Worker
        <3>2. CASE GetJob(c)
            <4>1. wk' = [wk EXCEPT ![c] = [wk[c] EXCEPT !.needsJob = TRUE]]
                BY <3>2 DEF GetJob
            <4> QED
                BY <1>0, <4>1 DEF TypeOK, Worker
        <3>3. CASE Close(c)
            <4>1. wk' = [wk EXCEPT ![c] = [wk[c] EXCEPT !.error = TRUE]]
                BY <3>3 DEF Close
            <4> QED
                BY <1>0, <4>1 DEF TypeOK, Worker
        <3> QED
            BY <1>2, <3>1, <3>2, <3>3
    <2> QED
        BY <1>0, <1>1, <2>1, CredFrame
<1>3. CASE \E s \in SubmitShares : Submit(c, s) /\ nShares' = nShares + 1
    <2>1. PICK s \in SubmitShares : Submit(c, s)
        BY <1>3
    <2>2. wk' = [wk EXCEPT ![c] = [wk[c] EXCEPT !.queue = Append(@, s)]]
        BY <2>1 DEF Submit
    <2>3. wk[c].queue \in Seq(Share)
        BY <1>0 DEF Worker
    <2>4. /\ wk'[c].queue = Append(wk[c].queue, s)
          /\ \A d \in Conns \ {c} : wk'[d] = wk[d]
        BY <1>0, <2>2 DEF TypeOK
    <2>5. /\ Len(wk'[c].queue) = Len(wk[c].queue) + 1
          /\ wk'[c].queue[Len(wk[c].queue) + 1] = s
          /\ \A i \in 1 .. Len(wk[c].queue) : wk'[c].queue[i] = wk[c].queue[i]
        BY <2>3, <2>4, AppendProperties
    <2>6. s.job \in IssuedIds
        BY SubmitJob
    <2>7. QueuedFromIssued'
        <3> SUFFICES ASSUME NEW d \in Conns, NEW i \in 1 .. Len(wk'[d].queue)
                     PROVE  wk'[d].queue[i].job \in IssuedIds'
            BY DEF QueuedFromIssued
        <3>1. IssuedIds' = IssuedIds
            BY <1>1 DEF IssuedIds
        <3>2. \A e \in Conns : \A n \in 1 .. Len(wk[e].queue) : wk[e].queue[n].job \in IssuedIds
            BY <1>0 DEF CredFacts, QueuedFromIssued
        <3>3. CASE d = c /\ i = Len(wk[c].queue) + 1
            BY <2>5, <2>6, <3>1, <3>3
        <3>4. CASE d = c /\ i # Len(wk[c].queue) + 1
            <4>1. i \in 1 .. Len(wk[c].queue)
                BY <2>3, <2>5, <3>4
            <4> QED
                BY <2>5, <3>1, <3>2, <3>4, <4>1
        <3>5. CASE d # c
            BY <2>4, <3>1, <3>2, <3>5
        <3> QED
            BY <3>3, <3>4, <3>5
    <2> QED
        BY <1>0, <1>1, <2>7 DEF CredFacts, JobsPrefixed, VersionsPrefixed, NoForgedForward
<1> QED
    BY <1>2, <1>3 DEF ReadMessage

LEMMA AcceptWorkerCred ==
    ASSUME CredInv, NEW c \in Conns, NEW k \in Placeholders, AcceptWorker(c, k)
    PROVE  CredFacts'
<1>0. TypeOK /\ CredFacts
    BY DEF CredInv, DupInv, TypeInv, CredFacts
<1>1. \A d \in Conns : wk'[d].queue = wk[d].queue
    BY <1>0 DEF AcceptWorker, TypeOK, Worker
<1> QED
    BY <1>0, <1>1, CredFrame DEF AcceptWorker

LEMMA EndMessagesCred ==
    ASSUME CredInv, EndMessages
    PROVE  CredFacts'
<1>0. TypeOK /\ CredFacts
    BY DEF CredInv, DupInv, TypeInv, CredFacts
<1>1. \A d \in Conns : wk'[d].queue = wk[d].queue
    BY <1>0, ServedQueue DEF EndMessages, TypeOK
<1> QED
    BY <1>0, <1>1, CredFrame DEF EndMessages

\* A share that passes every stage of process_shares names the current
\* height, an id job_versions knows, and the pre_pow stored for that id.
LEMMA OkShare ==
    ASSUME NEW s, SubmitsUpstream(Outcome(s))
    PROVE  /\ s.pow \notin duplicates
           /\ s.height = job.height
           /\ s.job \in DOMAIN versions
           /\ versions[s.job] = s.pow.pre
BY DEF SubmitsUpstream, Outcome

\* The share in hand is solved on the pre_pow of the sent job its id names:
\* job_versions and the sent jobs use the same prefixed ids, and a prefixed
\* id determines its height and upstream id.
LEMMA OkShareIssued ==
    ASSUME TypeOK, CredFacts, NEW s, s.job \in IssuedIds, SubmitsUpstream(Outcome(s))
    PROVE  \E j \in issued : /\ j.id = s.job
                             /\ j.height = s.height
                             /\ j.pre = s.pow.pre
<1>1. /\ s.height = job.height
      /\ s.job \in DOMAIN versions
      /\ versions[s.job] = s.pow.pre
    BY OkShare
<1>2. PICK j \in issued : j.id = s.job
    BY DEF IssuedIds
<1>3. PICK h \in Heights, v \in 0 .. MaxVersion :
          j = [height |-> h, id |-> h * 1000 + v, pre |-> <<h, v>>]
    BY <1>2 DEF CredFacts, JobsPrefixed, PrefixedJobs
<1> DEFINE w == versions[s.job]
<1>4. /\ w \in Heights \X (0 .. MaxVersion)
      /\ w[1] = job.height
      /\ s.job = w[1] * 1000 + w[2]
    BY <1>1 DEF TypeOK, Pre, CredFacts, VersionsPrefixed
<1>5. h = w[1] /\ v = w[2]
    <2>1. h \in Nat /\ w[1] \in Nat /\ w[2] \in 0 .. MaxVersion
        BY <1>3, <1>4 DEF Heights
    <2>2. h * 1000 + v = w[1] * 1000 + w[2]
        BY <1>2, <1>3, <1>4
    <2> QED
        BY <1>3, <2>1, <2>2, ConstantsAssumption
<1>6. j.height = s.height /\ j.pre = s.pow.pre
    BY <1>1, <1>3, <1>4, <1>5
<1> QED
    BY <1>2, <1>6

\* process_shares takes the head of the queue and forwards it only when
\* it passed every stage.
LEMMA ProcessShareCred ==
    ASSUME CredInv, NEW c \in Conns, ProcessShare(c)
    PROVE  CredFacts'
<1>0. /\ TypeOK /\ CredFacts
      /\ wk[c] \in Worker
      /\ wk[c].queue # << >>
    BY DEF CredInv, DupInv, TypeInv, CredFacts, TypeOK, ProcessShare
<1> DEFINE q == wk[c].queue
           s == Head(q)
           o == Outcome(s)
           u == Upstream(s, c)
<1>1. /\ UNCHANGED <<job, issued, versions>>
      /\ wk' = [wk EXCEPT ![c] = Counted(wk[c], o)]
      /\ forwarded' = IF SubmitsUpstream(o) THEN Append(forwarded, u) ELSE forwarded
    BY DEF ProcessShare
<1>2. q \in Seq(Share) /\ Len(q) >= 1
    BY <1>0 DEF Worker
<1>3. /\ wk'[c].queue = Tail(q)
      /\ \A d \in Conns \ {c} : wk'[d] = wk[d]
    BY <1>0, <1>1 DEF Counted, TypeOK
<1>4. /\ Len(Tail(q)) = Len(q) - 1
      /\ \A i \in 1 .. Len(Tail(q)) : Tail(q)[i] = q[i + 1]
      /\ s = q[1]
    BY <1>0, <1>2, HeadTailProperties
<1>5. \A d \in Conns : \A n \in 1 .. Len(wk[d].queue) : wk[d].queue[n].job \in IssuedIds
    BY <1>0 DEF CredFacts, QueuedFromIssued
<1>6. IssuedIds' = IssuedIds
    BY <1>1 DEF IssuedIds
<1>7. QueuedFromIssued'
    <2> SUFFICES ASSUME NEW d \in Conns, NEW i \in 1 .. Len(wk'[d].queue)
                 PROVE  wk'[d].queue[i].job \in IssuedIds'
        BY DEF QueuedFromIssued
    <2>1. CASE d = c
        <3>0. i \in 1 .. Len(Tail(q)) /\ wk'[d].queue[i] = Tail(q)[i]
            BY <1>3, <2>1
        <3>1. i + 1 \in 1 .. Len(q) /\ wk'[d].queue[i] = q[i + 1]
            BY <1>2, <1>4, <3>0
        <3> QED
            BY <1>5, <1>6, <2>1, <3>1
    <2>2. CASE d # c
        BY <1>3, <1>5, <1>6, <2>2
    <2> QED
        BY <2>1, <2>2
<1>8. NoForgedForward'
    <2>1. CASE ~SubmitsUpstream(o)
        BY <1>0, <1>1, <2>1 DEF CredFacts, NoForgedForward
    <2>2. CASE SubmitsUpstream(o)
        <3>1. s.job \in IssuedIds
            BY <1>2, <1>4, <1>5
        <3>2. PICK j \in issued : /\ j.id = s.job
                                  /\ j.height = s.height
                                  /\ j.pre = s.pow.pre
            BY <1>0, <2>2, <3>1, OkShareIssued
        <3>3. u.job = s.job /\ u.height = s.height /\ u.pow = s.pow
            BY DEF Upstream
        <3>4. /\ forwarded' = Append(forwarded, u)
              /\ DOMAIN forwarded' = 1 .. Len(forwarded) + 1
              /\ forwarded'[Len(forwarded) + 1] = u
              /\ \A i \in DOMAIN forwarded : forwarded'[i] = forwarded[i]
              /\ DOMAIN forwarded = 1 .. Len(forwarded)
            BY <1>0, <1>1, <2>2, AppendProperties DEF TypeOK
        <3> SUFFICES ASSUME NEW i \in DOMAIN forwarded'
                     PROVE  \E k \in issued' : /\ k.id = forwarded'[i].job
                                              /\ k.height = forwarded'[i].height
                                              /\ k.pre = forwarded'[i].pow.pre
            BY DEF NoForgedForward
        <3>5. issued' = issued
            BY <1>1
        <3>6. CASE i \in DOMAIN forwarded
            <4>1. \E k \in issued : /\ k.id = forwarded[i].job
                                   /\ k.height = forwarded[i].height
                                   /\ k.pre = forwarded[i].pow.pre
                BY <1>0, <3>6 DEF CredFacts, NoForgedForward
            <4> QED
                BY <3>4, <3>5, <3>6, <4>1
        <3>7. CASE i = Len(forwarded) + 1
            BY <3>2, <3>3, <3>4, <3>5, <3>7
        <3> QED
            BY <3>4, <3>6, <3>7
    <2> QED
        BY <2>1, <2>2
<1> QED
    BY <1>0, <1>1, <1>7, <1>8 DEF CredFacts, JobsPrefixed, VersionsPrefixed

LEMMA NextCredInv == CredInv /\ [Next]_vars => CredInv'
<1> SUFFICES ASSUME CredInv, [Next]_vars PROVE CredInv'
    OBVIOUS
<1>0. DupInv /\ CredFacts /\ TypeOK
    BY DEF CredInv, CredFacts, DupInv, TypeInv
<1>1. DupInv'
    BY <1>0, NextDupInv
<1>2. CredFacts'
    <2>1. CASE AcceptNewJob
        BY <2>1, AcceptNewJobCred
    <2>2. CASE SendJobs
        BY <2>2, SendJobsCred
    <2>3. CASE \E c \in Conns : ReadMessage(c)
        BY <2>3, ReadMessageCred
    <2>4. CASE \E c \in Conns : ProcessShare(c)
        BY <2>4, ProcessShareCred
    <2>5. CASE \E c \in Conns, k \in Placeholders : AcceptWorker(c, k)
        BY <2>5, AcceptWorkerCred
    <2>6. CASE EndMessages
        BY <2>6, EndMessagesCred
    <2>7. CASE \/ Connect \/ ProcessServerMessages \/ EndShares \/ CleanWorkers
               \/ UpstreamDrop \/ UNCHANGED vars
        <3>1. UNCHANGED <<job, issued, versions, forwarded, wk>>
            BY <2>7 DEF Connect, ProcessServerMessages, EndShares, CleanWorkers,
                        UpstreamDrop, vars
        <3> QED
            BY <1>0, <3>1, CredFrame
    <2> QED
        BY <2>1, <2>2, <2>3, <2>4, <2>5, <2>6, <2>7 DEF Next, ControlLoop
<1> QED
    BY <1>1, <1>2 DEF CredInv, CredFacts

\* No forged forward: in every reachable state, every share process_shares
\* has handed to server.submit_share names a job the pool sent out, at that
\* job's height, and was solved on that job's pre_pow; job_versions never
\* resolves an id to another template's pre_pow, across template versions
\* and heights.
THEOREM NoForgedForwardCorrect == Spec => []NoForgedForward
<1>1. Init => CredInv
    BY InitCredInv
<1>2. CredInv /\ [Next]_vars => CredInv'
    BY NextCredInv
<1>3. CredInv => NoForgedForward
    BY DEF CredInv
<1> QED
    BY <1>1, <1>2, <1>3, PTL DEF Spec

-----------------------------------------------------------------------------
(* job_versions resolves every job sent at the current height              *)

\* No job sent out is of a height above the pool's job.
IssuedBelow == \A j \in issued : j.height <= job.height

\* The pool's job, once it is a real template, is in job_versions.
JobInVersions ==
    job.pre # EmptyJob.pre => job.id \in DOMAIN versions /\ versions[job.id] = job.pre

VerInv == CredInv /\ IssuedBelow /\ JobInVersions /\ VersionsComplete

VerFacts == IssuedBelow /\ JobInVersions /\ VersionsComplete

\* Two prefixed jobs with the same id are the same template.
LEMMA PrefixedSameId ==
    ASSUME NEW j \in PrefixedJobs, NEW k \in PrefixedJobs, j.id = k.id
    PROVE  j.height = k.height /\ j.pre = k.pre
<1>1. PICK h1 \in Heights, u1 \in 0 .. MaxVersion :
          j = [height |-> h1, id |-> h1 * 1000 + u1, pre |-> <<h1, u1>>]
    BY DEF PrefixedJobs
<1>2. PICK h2 \in Heights, u2 \in 0 .. MaxVersion :
          k = [height |-> h2, id |-> h2 * 1000 + u2, pre |-> <<h2, u2>>]
    BY DEF PrefixedJobs
<1>3. h1 * 1000 + u1 = h2 * 1000 + u2
    BY <1>1, <1>2
<1>4. h1 = h2 /\ u1 = u2
    BY <1>1, <1>2, <1>3, ConstantsAssumption DEF Heights
<1> QED
    BY <1>1, <1>2, <1>4

\* accept_new_job: on a new height every job sent so far is below it, so
\* clearing job_versions forgets none of this height; at the same height
\* the new id is bound to the new pre_pow and no earlier id is rebound.
LEMMA AcceptNewJobVer ==
    ASSUME VerInv, AcceptNewJob
    PROVE  VerFacts'
<1>0. /\ TypeOK /\ JobShape /\ CredFacts /\ VerFacts
    BY DEF VerInv, CredInv, CredFacts, DupInv, TypeInv, VerFacts
<1>1. CASE ~NewTemplate
    <2>1. UNCHANGED <<job, issued, versions>>
        BY <1>1 DEF AcceptNewJob
    <2> QED
        BY <1>0, <2>1 DEF VerFacts, IssuedBelow, JobInVersions, VersionsComplete
<1>2. CASE NewTemplate
    <2> DEFINE newHeight == job.height # srvJob.height
               newJob == [srvJob EXCEPT !.id = JobId(srvJob)]
    <2>1. /\ job' = newJob
          /\ issued' \subseteq issued \cup {newJob}
          /\ versions' = JobVersions(newHeight, newJob)
        BY <1>2 DEF AcceptNewJob
    <2>2. srvJob \in [height : Heights, id : 0 .. MaxVersion, pre : Pre]
          /\ srvJob.pre = <<srvJob.height, srvJob.id>>
        BY <1>0 DEF TypeOK, Templates
    <2>3. /\ newJob = [height |-> srvJob.height, id |-> srvJob.height * 1000 + srvJob.id,
                       pre |-> <<srvJob.height, srvJob.id>>]
          /\ newJob \in PrefixedJobs
        BY <2>2 DEF JobId, PrefixedJobs
    <2>4. /\ job.height <= newJob.height
          /\ newHeight => job.height < newJob.height
          /\ ~newHeight => job.height = newJob.height
        BY <1>0, <2>2, <2>3, JobFacts DEF JobShape, Heights
    <2>5. /\ DOMAIN versions' = (IF newHeight THEN {} ELSE DOMAIN versions) \cup {newJob.id}
          /\ \A x \in DOMAIN versions' :
                versions'[x] = IF x = newJob.id THEN newJob.pre ELSE versions[x]
        BY <2>1 DEF JobVersions, MapInsert, NoVersions
    <2>6. IssuedBelow'
        <3>1. \A j \in issued : j.height \in Nat
            BY <1>0 DEF TypeOK, PoolJobs, Heights
        <3> QED
            BY <1>0, <2>1, <2>3, <2>4, <3>1, JobFacts DEF VerFacts, IssuedBelow
    <2>7. JobInVersions'
        BY <2>1, <2>5 DEF JobInVersions
    <2>8. VersionsComplete'
        <3> SUFFICES ASSUME NEW j \in issued',
                            j.height = newJob.height, j.pre # EmptyJob.pre
                     PROVE  j.id \in DOMAIN versions' /\ versions'[j.id] = j.pre
            BY <2>1 DEF VersionsComplete
        <3>1. CASE j = newJob
            BY <2>5, <3>1
        <3>2. CASE j # newJob
            <4>1. j \in issued /\ j.height <= job.height /\ j \in PrefixedJobs
                BY <1>0, <2>1, <3>2 DEF VerFacts, IssuedBelow, CredFacts, JobsPrefixed
            <4>2. ~newHeight /\ j.height = job.height
                <5>1. j.height \in Nat /\ job.height \in Nat /\ newJob.height \in Nat
                    BY <1>0, <2>3, <4>1, JobFacts DEF TypeOK, PoolJobs, Heights
                <5> QED
                    BY <2>4, <4>1, <5>1
            <4>3. j.id \in DOMAIN versions /\ versions[j.id] = j.pre
                BY <1>0, <4>1, <4>2 DEF VerFacts, VersionsComplete
            <4>4. j.id = newJob.id => j.pre = newJob.pre
                BY <2>3, <4>1, PrefixedSameId
            <4> QED
                BY <2>5, <4>2, <4>3, <4>4
        <3> QED
            BY <3>1, <3>2
    <2> QED
        BY <2>6, <2>7, <2>8 DEF VerFacts
<1> QED
    BY <1>1, <1>2

\* send_jobs sends the job in hand, which job_versions resolves.
LEMMA SendJobsVer ==
    ASSUME VerInv, SendJobs
    PROVE  VerFacts'
<1>0. VerFacts /\ TypeOK
    BY DEF VerInv, CredInv, DupInv, TypeInv, VerFacts
<1>1. /\ issued' \subseteq issued \cup {job}
      /\ UNCHANGED <<job, versions>>
    BY DEF SendJobs
<1>2. job.height \in Nat
    BY <1>0, JobFacts DEF TypeOK, PoolJobs, Heights
<1> QED
    BY <1>0, <1>1, <1>2 DEF VerFacts, IssuedBelow, JobInVersions, VersionsComplete

LEMMA NextVerInv == VerInv /\ [Next]_vars => VerInv'
<1> SUFFICES ASSUME VerInv, [Next]_vars PROVE VerInv'
    OBVIOUS
<1>1. CredInv'
    BY NextCredInv DEF VerInv
<1>2. VerFacts'
    <2>1. CASE AcceptNewJob
        BY <2>1, AcceptNewJobVer
    <2>2. CASE SendJobs
        BY <2>2, SendJobsVer
    <2>3. CASE ~AcceptNewJob /\ ~SendJobs
        <3>1. UNCHANGED <<job, issued, versions>>
            BY <2>3 DEF Next, ControlLoop, vars, Connect, ProcessServerMessages,
                        ReadMessage, EndMessages, ProcessShare, EndShares,
                        CleanWorkers, AcceptWorker, UpstreamDrop
        <3> QED
            BY <3>1 DEF VerInv, VerFacts, IssuedBelow, JobInVersions, VersionsComplete
    <2> QED
        BY <2>1, <2>2, <2>3
<1> QED
    BY <1>1, <1>2 DEF VerInv, VerFacts

LEMMA InitVerInv == Init => VerInv
<1> SUFFICES ASSUME Init PROVE VerInv
    OBVIOUS
<1>1. CredInv
    BY InitCredInv
<1>2. issued = {} /\ job = EmptyJob
    BY DEF Init
<1> QED
    BY <1>1, <1>2 DEF VerInv, IssuedBelow, JobInVersions, VersionsComplete

\* Versions complete: in every reachable state, every job sent to workers at
\* the current height, other than the empty job, is resolved by
\* job_versions to the pre_pow it was sent with, so accept_new_job's clear
\* on a new height and its insert of each new version lose no job a miner
\* may still be working on.
THEOREM VersionsCompleteCorrect == Spec => []VersionsComplete
<1>1. Init => VerInv
    BY InitVerInv
<1>2. VerInv /\ [Next]_vars => VerInv'
    BY NextVerInv
<1>3. VerInv => VersionsComplete
    BY DEF VerInv
<1> QED
    BY <1>1, <1>2, <1>3, PTL DEF Spec

-----------------------------------------------------------------------------
(* job_versions never rebinds an id within a height                        *)

\* accept_new_job at the same height binds the new prefixed id to its own
\* pre_pow; an id already bound is the same id only for the same template,
\* because VersionsPrefixed ties every key to the pre_pow it is bound to.
LEMMA AcceptNewJobKept ==
    ASSUME CredInv, AcceptNewJob
    PROVE  VersionsKept
<1>0. TypeOK /\ VersionsPrefixed
    BY DEF CredInv, DupInv, TypeInv
<1>1. CASE ~NewTemplate
    BY <1>1 DEF AcceptNewJob, VersionsKept
<1>2. CASE NewTemplate
    <2> DEFINE newHeight == job.height # srvJob.height
               newJob == [srvJob EXCEPT !.id = JobId(srvJob)]
    <2> SUFFICES ASSUME job'.height = job.height, NEW x \in DOMAIN versions
                 PROVE  x \in DOMAIN versions' /\ versions'[x] = versions[x]
        BY DEF VersionsKept
    <2>1. /\ job' = newJob
          /\ versions' = JobVersions(newHeight, newJob)
        BY <1>2 DEF AcceptNewJob
    <2>2. srvJob \in [height : Heights, id : 0 .. MaxVersion, pre : Pre]
          /\ srvJob.pre = <<srvJob.height, srvJob.id>>
        BY <1>0 DEF TypeOK, Templates
    <2>3. newJob = [height |-> srvJob.height, id |-> srvJob.height * 1000 + srvJob.id,
                    pre |-> <<srvJob.height, srvJob.id>>]
        BY <2>2 DEF JobId
    <2>4. ~newHeight
        BY <2>1, <2>3
    <2>5. /\ DOMAIN versions' = DOMAIN versions \cup {newJob.id}
          /\ versions'[x] = IF x = newJob.id THEN newJob.pre ELSE versions[x]
        BY <2>1, <2>4 DEF JobVersions, MapInsert
    <2>6. x = newJob.id => versions[x] = newJob.pre
        <3> SUFFICES ASSUME x = newJob.id PROVE versions[x] = newJob.pre
            OBVIOUS
        <3> DEFINE w == versions[x]
        <3>1. /\ w \in Heights \X (0 .. MaxVersion)
              /\ w[1] = job.height
              /\ x = w[1] * 1000 + w[2]
            BY <1>0 DEF TypeOK, Pre, VersionsPrefixed
        <3>2. w[1] = srvJob.height
            BY <2>3, <2>4, <3>1
        <3>3. w[2] = srvJob.id
            <4>1. w[2] \in 0 .. MaxVersion /\ srvJob.id \in 0 .. MaxVersion
                  /\ srvJob.height \in Nat
                BY <2>2, <3>1 DEF Heights
            <4> QED
                BY <2>3, <3>1, <3>2, <4>1
        <3> QED
            BY <2>3, <3>1, <3>2, <3>3
    <2> QED
        BY <2>5, <2>6
<1> QED
    BY <1>1, <1>2

\* Only accept_new_job writes job_versions.
LEMMA NextKept ==
    ASSUME CredInv, [Next]_vars
    PROVE  VersionsKept
<1>1. CASE AcceptNewJob
    BY <1>1, AcceptNewJobKept
<1>2. CASE ~AcceptNewJob
    <2>1. versions' = versions
        BY <1>2 DEF Next, ControlLoop, vars, Connect, ProcessServerMessages,
                    ReadMessage, EndMessages, ProcessShare, EndShares, SendJobs,
                    CleanWorkers, AcceptWorker, UpstreamDrop
    <2> QED
        BY <2>1 DEF VersionsKept
<1> QED
    BY <1>1, <1>2

\* Versions stable: in every behaviour, no step at one height rebinds or
\* drops a job id of job_versions, so a share for an earlier template
\* version of this height is checked against the pre_pow it was solved for.
THEOREM VersionsStableCorrect == Spec => VersionsStable
<1>1. Init => CredInv
    BY InitCredInv
<1>2. CredInv /\ [Next]_vars => CredInv'
    BY NextCredInv
<1>3. CredInv /\ [Next]_vars => VersionsKept
    BY NextKept
<1> QED
    BY <1>1, <1>2, <1>3, PTL DEF Spec, VersionsStable

=============================================================================
