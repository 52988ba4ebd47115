-------------------------- MODULE PoolCounterProofs --------------------------
(***************************************************************************)
(* Proof that the accepted counter process_shares keeps for each worker    *)
(* counts exactly that worker's shares handed to server.submit_share.      *)
(***************************************************************************)
EXTENDS PoolProofs, FiniteSetTheorems

AccInv == TypeInv /\ AcceptedIsForwarded

-----------------------------------------------------------------------------
(* Lemmas about the counter and the submit history *)

\* Only process_shares moves the accepted counter: sending a job and the
\* tally reset leave it alone.
LEMMA AcceptedKept ==
    ASSUME NEW w \in Worker
    PROVE  /\ ServedJob(w).accepted = w.accepted
           /\ ResetShares(w).accepted = w.accepted
BY DEF ServedJob, ResetShares, Worker

\* The shares of one connection are a finite set of positions.
LEMMA ForwardedByFinite ==
    ASSUME forwarded \in Seq(Forward), NEW c
    PROVE  IsFiniteSet(ForwardedBy(c))
<1>1. IsFiniteSet(1 .. Len(forwarded)) /\ DOMAIN forwarded = 1 .. Len(forwarded)
    BY FS_Interval
<1>2. ForwardedBy(c) \subseteq 1 .. Len(forwarded)
    BY <1>1 DEF ForwardedBy
<1> QED
    BY <1>1, <1>2, FS_Subset

\* Appending a share to the submit history adds one to the count of the
\* connection that sent it and leaves the others' counts alone.
LEMMA ForwardedByAppend ==
    ASSUME forwarded \in Seq(Forward), NEW f \in Forward,
           forwarded' = Append(forwarded, f), NEW c
    PROVE  Cardinality(ForwardedBy(c)') = Cardinality(ForwardedBy(c)) + Inc(f.conn = c)
<1> DEFINE n == Len(forwarded)
<1>1. /\ n \in Nat
      /\ DOMAIN forwarded = 1 .. n
      /\ DOMAIN forwarded' = 1 .. n + 1
      /\ forwarded'[n + 1] = f
      /\ \A i \in 1 .. n : forwarded'[i] = forwarded[i]
    BY AppendProperties, LenProperties
<1>2. ForwardedBy(c)' = ForwardedBy(c) \cup (IF f.conn = c THEN {n + 1} ELSE {})
    BY <1>1 DEF ForwardedBy
<1>3. n + 1 \notin ForwardedBy(c)
    BY <1>1 DEF ForwardedBy
<1>4. IsFiniteSet(ForwardedBy(c)) /\ Cardinality(ForwardedBy(c)) \in Nat
    BY ForwardedByFinite, FS_CardinalityType
<1>5. CASE f.conn = c
    <2>1. ForwardedBy(c)' = ForwardedBy(c) \cup {n + 1}
        BY <1>2, <1>5
    <2>2. Cardinality(ForwardedBy(c) \cup {n + 1}) = Cardinality(ForwardedBy(c)) + 1
        BY <1>3, <1>4, FS_AddElement
    <2> QED
        BY <1>5, <2>1, <2>2 DEF Inc
<1>6. CASE f.conn # c
    <2>1. ForwardedBy(c)' = ForwardedBy(c)
        BY <1>2, <1>6
    <2> QED
        BY <1>4, <1>6, <2>1 DEF Inc
<1> QED
    BY <1>5, <1>6

\* A step that submits nothing and keeps every accepted counter keeps the
\* counters equal to the counts.
LEMMA AcceptedFrame ==
    ASSUME AcceptedIsForwarded, forwarded' = forwarded,
           \A c \in Conns : wk'[c].accepted = wk[c].accepted
    PROVE  AcceptedIsForwarded'
BY DEF AcceptedIsForwarded, ForwardedBy

-----------------------------------------------------------------------------
(* The actions *)

\* Every step but a share's keeps every worker's accepted counter.
LEMMA AcceptedKeptByOthers ==
    ASSUME TypeOK, [Next]_vars, ~\E c \in Conns : ProcessShare(c)
    PROVE  /\ forwarded' = forwarded
           /\ \A c \in Conns : wk'[c].accepted = wk[c].accepted
<1>1. forwarded' = forwarded
    BY DEF Next, ControlLoop, vars, Connect, ProcessServerMessages, AcceptNewJob,
           ReadMessage, EndMessages, EndShares, SendJobs, CleanWorkers,
           AcceptWorker, UpstreamDrop
<1>2. \A c \in Conns : wk[c] \in Worker
    BY DEF TypeOK
<1>3. CASE AcceptNewJob
    BY <1>2, <1>3, AcceptedKept DEF AcceptNewJob, Broadcast
<1>4. CASE SendJobs
    BY <1>2, <1>4, AcceptedKept DEF SendJobs
<1>5. CASE EndMessages
    BY <1>2, <1>5, AcceptedKept DEF EndMessages
<1>6. CASE \E c \in Conns, k \in Placeholders : AcceptWorker(c, k)
    BY <1>2, <1>6 DEF AcceptWorker, TypeOK, Worker
<1>7. CASE \E c \in Conns : ReadMessage(c)
    <2>1. PICK c \in Conns : ReadMessage(c)
        BY <1>7
    <2>2. CASE \E l \in Logins : Login(c, l)
        <3>1. PICK l \in Logins : Login(c, l)
            BY <2>2
        <3>2. wk' = [wk EXCEPT ![c] = [wk[c] EXCEPT !.login = l, !.auth = TRUE,
                                                   !.needsJob = TRUE]]
            BY <3>1 DEF Login
        <3> QED
            BY <1>1, <1>2, <3>2 DEF TypeOK, Worker
    <2>3. CASE GetJob(c)
        <3>1. wk' = [wk EXCEPT ![c] = [wk[c] EXCEPT !.needsJob = TRUE]]
            BY <2>3 DEF GetJob
        <3> QED
            BY <1>1, <1>2, <3>1 DEF TypeOK, Worker
    <2>4. CASE \E sh \in SubmitShares : Submit(c, sh)
        <3>1. PICK sh \in SubmitShares : Submit(c, sh)
            BY <2>4
        <3>2. wk' = [wk EXCEPT ![c] = [wk[c] EXCEPT !.queue = Append(@, sh)]]
            BY <3>1 DEF Submit
        <3> QED
            BY <1>1, <1>2, <3>2 DEF TypeOK, Worker
    <2>5. CASE Close(c)
        <3>1. wk' = [wk EXCEPT ![c] = [wk[c] EXCEPT !.error = TRUE]]
            BY <2>5 DEF Close
        <3> QED
            BY <1>1, <1>2, <3>1 DEF TypeOK, Worker
    <2> QED
        BY <2>1, <2>2, <2>3, <2>4, <2>5 DEF ReadMessage
<1>8. CASE \/ Connect \/ ProcessServerMessages \/ EndShares \/ CleanWorkers
           \/ UpstreamDrop \/ UNCHANGED vars
    BY <1>8 DEF Connect, ProcessServerMessages, EndShares, CleanWorkers,
                UpstreamDrop, vars
<1> QED
    BY <1>1, <1>3, <1>4, <1>5, <1>6, <1>7, <1>8 DEF Next, ControlLoop

\* process_shares raises the accepted counter of the worker in hand exactly
\* when it hands the share to server.submit_share, and touches no other
\* worker's counter.
LEMMA ProcessShareAccepted ==
    ASSUME AccInv, NEW c \in Conns, ProcessShare(c)
    PROVE  AcceptedIsForwarded'
<1>0. TypeOK /\ AcceptedIsForwarded /\ wk[c] \in Worker
    BY DEF AccInv, TypeInv, TypeOK
<1> DEFINE s == Head(wk[c].queue)
           o == Outcome(s)
           u == Upstream(s, c)
<1>1. /\ wk' = [wk EXCEPT ![c] = Counted(wk[c], o)]
      /\ forwarded' = IF SubmitsUpstream(o) THEN Append(forwarded, u) ELSE forwarded
    BY DEF ProcessShare
<1>2. /\ wk'[c].accepted = wk[c].accepted + Inc(o = "ok")
      /\ \A d \in Conns \ {c} : wk'[d] = wk[d]
    BY <1>0, <1>1 DEF Counted, TypeOK
<1>3. CASE ~SubmitsUpstream(o)
    <2>1. forwarded' = forwarded /\ Inc(o = "ok") = 0
        BY <1>1, <1>3 DEF SubmitsUpstream, Inc
    <2>2. \A d \in Conns : wk'[d].accepted = wk[d].accepted
        BY <1>0, <1>2, <2>1 DEF Worker
    <2> QED
        BY <1>0, <2>1, <2>2, AcceptedFrame
<1>4. CASE SubmitsUpstream(o)
    <2>1. u \in Forward
        <3>1. wk[c].queue \in Seq(Share) /\ wk[c].queue # << >>
            BY <1>0 DEF Worker, ProcessShare
        <3>2. s \in Share
            BY <3>1, HeadTailProperties
        <3>3. s.height = job.height /\ DOMAIN versions # {}
            BY <1>4 DEF SubmitsUpstream, Outcome
        <3>4. s.height \in Nat \ {0}
            BY <1>0, <3>2, <3>3 DEF AccInv, TypeInv, JobShape, Share, Heights
        <3>5. s.job % s.height \in Int
            BY <3>2, <3>4 DEF Share
        <3> QED
            BY <3>2, <3>4, <3>5 DEF Upstream, Forward, Share
    <2>2. forwarded' = Append(forwarded, u) /\ u.conn = c /\ Inc(o = "ok") = 1
        BY <1>1, <1>4 DEF SubmitsUpstream, Upstream, Inc
    <2>3. forwarded \in Seq(Forward)
        BY <1>0 DEF TypeOK
    <2>4. \A d \in Conns :
             Cardinality(ForwardedBy(d)') = Cardinality(ForwardedBy(d)) + Inc(c = d)
        BY <2>1, <2>2, <2>3, ForwardedByAppend
    <2>5. \A d \in Conns : wk'[d].accepted = wk[d].accepted + Inc(c = d)
        <3>1. wk'[c].accepted = wk[c].accepted + Inc(c = c)
            BY <1>2, <2>2 DEF Inc
        <3>2. \A d \in Conns \ {c} : wk'[d].accepted = wk[d].accepted + Inc(c = d)
            <4>1. \A d \in Conns : wk[d].accepted \in Nat
                BY <1>0 DEF TypeOK, Worker
            <4> QED
                BY <1>2, <4>1 DEF Inc
        <3> QED
            BY <3>1, <3>2
    <2> SUFFICES ASSUME NEW d \in Conns
                 PROVE  wk'[d].accepted = Cardinality(ForwardedBy(d)')
        BY DEF AcceptedIsForwarded
    <2>6. wk[d].accepted = Cardinality(ForwardedBy(d))
        BY <1>0 DEF AcceptedIsForwarded
    <2> QED
        BY <2>4, <2>5, <2>6
<1> QED
    BY <1>3, <1>4

LEMMA InitAccInv == Init => AccInv
<1> SUFFICES ASSUME Init PROVE AccInv
    OBVIOUS
<1>1. TypeInv
    BY InitTypeInv
<1>2. \A c \in Conns : ForwardedBy(c) = {} /\ wk[c].accepted = 0
    BY DEF Init, ForwardedBy, NewWorker
<1> QED
    BY <1>1, <1>2, FS_EmptySet DEF AccInv, AcceptedIsForwarded

LEMMA NextAccInv == AccInv /\ [Next]_vars => AccInv'
<1> SUFFICES ASSUME AccInv, [Next]_vars PROVE AccInv'
    OBVIOUS
<1>0. TypeInv /\ TypeOK /\ AcceptedIsForwarded
    BY DEF AccInv, TypeInv
<1>1. TypeInv'
    BY <1>0, NextTypeInv
<1>2. CASE \E c \in Conns : ProcessShare(c)
    <2>1. PICK c \in Conns : ProcessShare(c)
        BY <1>2
    <2> QED
        BY <1>1, <2>1, ProcessShareAccepted DEF AccInv
<1>3. CASE ~\E c \in Conns : ProcessShare(c)
    <2>1. /\ forwarded' = forwarded
          /\ \A c \in Conns : wk'[c].accepted = wk[c].accepted
        BY <1>0, <1>3, AcceptedKeptByOthers
    <2> QED
        BY <1>0, <1>1, <2>1, AcceptedFrame DEF AccInv
<1> QED
    BY <1>1, <1>2, <1>3 DEF AccInv

\* Accepted is forwarded: in every reachable state, each worker's accepted
\* counter equals the number of its shares that process_shares handed to
\* server.submit_share: no stage after the counter rises lets a share
\* escape the submit, and no share reaches the submit uncounted.
THEOREM AcceptedIsForwardedCorrect == Spec => []AcceptedIsForwarded
<1>1. Init => AccInv
    BY InitAccInv
<1>2. AccInv /\ [Next]_vars => AccInv'
    BY NextAccInv
<1>3. AccInv => AcceptedIsForwarded
    BY DEF AccInv
<1> QED
    BY <1>1, <1>2, <1>3, PTL DEF Spec

=============================================================================
