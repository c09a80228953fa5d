----------------------- MODULE PrefixCacheProperties ------------------------
(* What the way to a session's first snapshot must get right. *)
EXTENDS PrefixCache

TypeOK ==
  /\ disk \in Nat /\ fingerprint \in Nat
  /\ cache \in Seq(Step)
  /\ call \in Call \union {Idle}
  /\ base \in Base \union {NoBase}

\* A session works behind its prefix and nothing else: what was executed to get
\* to its first snapshot, cached or not, is the text make_session was given.
BaseIsGenuine == base # NoBase => TextsOf(base.st) = base.prefix

\* No session begins with the contents of a .vo file that was out of date when
\* make_session began, though the snapshots may have been cached before.
BaseIsFresh ==
  base # NoBase =>
    \A i \in DOMAIN base.st : base.st[i].text \in Import => base.st[i].version >= base.since

\* A session opened for a theorem is at that theorem: its statement is the last
\* sentence of the prefix, and its proof is open.
OpensAtTarget ==
  base # NoBase /\ base.target # NoTarget =>
    /\ base.prefix # <<>> /\ base.prefix[Len(base.prefix)] = base.target
    /\ ProofOpen(base.st)

\* The prefix open puts together of pieces, with broken proofs admitted, is
\* accepted by the prover from the beginning: no session is lost over it.
OpenedPrefixRuns == call # Idle /\ call.making /\ call.target # NoTarget => ~Rejected

\* A shorter execution of what is cached (make_session's after open's, or a failed
\* open) does not truncate the cache; only a changed .vo file empties it.
WarmCacheIsKept ==
  [][IsStrictPrefix(TextsOf(cache'), TextsOf(cache)) => cache' = <<>> /\ fingerprint' # fingerprint]_vars

----
\* "Every theorem is reachable" (description of open): when open gives up, its
\* file has no such theorem.
EveryTheoremReachable ==
  [][call # Idle /\ ~call.making /\ call' = Idle =>
       \A i \in DOMAIN call.file : call.file[i] # call.target]_vars

----
\* What makes the cache safe: no file begins with a sentence that, in this or
\* another file, follows a proof.  (Imports first, and nowhere else.)
NoLateHeads ==
  \A s1, s2 \in Source : \A j \in 2..Len(s2) :
    s1 # <<>> /\ s2[j - 1] \in {Qed, Admitted} => s2[j] # s1[1]
=============================================================================
