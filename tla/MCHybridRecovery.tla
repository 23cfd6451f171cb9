-------------------------- MODULE MCHybridRecovery --------------------------
(* Instances of HybridRecovery for TLC. *)
EXTENDS HybridRecovery, TLC

CONSTANTS s1, s2, s3

\* A site whose call is made to return an error, one whose recovery action can
\* itself fail (close, munmap, rmdir ...), and one with no recovery action.
RetUndoFail == s1 :> "RET" @@ s2 :> "UNDO" @@ s3 :> "FAIL"

RetUndo == s1 :> "RET" @@ s2 :> "UNDO"

\* A non-faultable call whose result is not used stands before the call of s2 in
\* its basic block.
HookErased == {<<"undo", s2>>}

\* Bound for the runs that count transactions, below the counters' width.
HitsBound == \A s \in Sites : hits[s] < CounterMod - 1

=============================================================================
