------------------------------ MODULE MC_Pool ------------------------------
(* Small instances of Pool for TLC. *)
EXTENDS Pool, TLC

CONSTANTS c1, c2, k1, k2, l1, l2, s1, s2, s3

MCConns == {c1, c2}
MCPlaceholders == {k1, k2}
MCLogins == {l1, l2}
\* three solutions: too easy for any difficulty, below the pool's, good
MCSols == {s1, s2, s3}
MCSolDiff == [x \in MCSols |-> CASE x = s1 -> 0 [] x = s2 -> 1 [] x = s3 -> 2]

MCSols3 == {s3}
MCSolDiff3 == [x \in MCSols3 |-> 2]

\* One placeholder: the liveness runs need no key collision.
MCPlaceholders1 == {k1}

Symmetry == Permutations(MCConns) \cup Permutations(MCPlaceholders) \cup Permutations(MCLogins)
\* The share counters are never read by a guard; runs whose properties do
\* not mention them leave them out of the state fingerprint.
ControlView ==
    <<pc, connected, srvJob, job, duplicates, versions, reg,
      [c \in MCConns |-> [f \in {"state", "login", "auth", "needsJob", "error", "queue"} |-> wk[c][f]]],
      cur, locked, issued, forwarded, nShares>>
=============================================================================
