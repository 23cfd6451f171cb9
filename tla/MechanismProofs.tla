--------------------------- MODULE MechanismProofs ---------------------------
(***************************************************************************)
(* Theorems about the fork mechanism (module ForkCheckpoint), for every    *)
(* number of processes and clones, and the type correctness of a program   *)
(* linked with any of the mechanisms.                                      *)
(***************************************************************************)
EXTENDS BitmapProofs, PageProofs

(* What is assumed of the constants of the fork mechanism. *)
LEMMA ForkConstants == Zero \in Val /\ 0 \notin Clone
  BY MechanismAssumption

-----------------------------------------------------------------------------
(* Clones and the processes that hold their ids. *)

\* Who holds the id of a clone made it, or inherited the id.
Held ==
  \A p \in Proc : pid[p] # 0 =>
     /\ clones[pid[p]] # "none"
     /\ p = parent[pid[p]] \/ p \in heirs[pid[p]]

ForkInv ==
  /\ Fork!ForkTypeOK
  /\ Held
  /\ Fork!ForkRecoverable
  /\ Fork!ForkNoOrphans

(* The first process starts without a clone. *)
LEMMA ForkInitInv == Fork!Init => ForkInv
  BY ForkConstants
     DEF Fork!Init, ForkInv, Fork!ForkTypeOK, Held, Fork!ForkRecoverable, Fork!ForkNoOrphans

(* The clones after a kill, or after a process is gone, are still clones, and only
   clones of that process or that clone have changed. *)
LEMMA KilledFacts ==
  ASSUME Fork!ForkTypeOK, NEW p \in Proc, NEW c \in Clone
  PROVE  /\ Fork!KilledBy(p, c) \in [Clone -> {"none", "paused", "zombie", "reaped"}]
         /\ Fork!KilledBy(p, c)[c] \in {"zombie", "reaped"}
         /\ \A d \in Clone \ {c} : Fork!KilledBy(p, c)[d] = clones[d]
  BY DEF Fork!KilledBy, Fork!ForkTypeOK

(* init reaps zombies and leaves the other clones alone. *)
LEMMA OrphanedFacts ==
  ASSUME NEW p \in Proc, NEW cs \in [Clone -> {"none", "paused", "zombie", "reaped"}]
  PROVE  /\ Fork!Orphaned(p, cs) \in [Clone -> {"none", "paused", "zombie", "reaped"}]
         /\ \A d \in Clone : cs[d] # "zombie" => Fork!Orphaned(p, cs)[d] = cs[d]
         /\ \A d \in Clone : cs[d] = "zombie" => Fork!Orphaned(p, cs)[d] \in {"zombie", "reaped"}
  BY DEF Fork!Orphaned

\* cs are the clones once p has let go of its own.
Released(p, cs) ==
  /\ cs \in [Clone -> {"none", "paused", "zombie", "reaped"}]
  /\ \A d \in Clone : /\ cs[d] = "none" <=> clones[d] = "none"
                      /\ cs[d] = "paused" <=> clones[d] = "paused" /\ d # pid[p]

(* The hooks release the clone of their process before they go on. *)
LEMMA HooksRelease ==
  ASSUME ForkInv, NEW p \in Proc
  PROVE  /\ pid[p] = 0 => Released(p, clones)
         /\ pid[p] # 0 /\ clones[pid[p]] # "reaped" => Released(p, Fork!KilledBy(p, pid[p]))
         /\ pid[p] # 0 /\ clones[pid[p]] = "reaped" => Released(p, clones)
<1>1. Fork!ForkTypeOK /\ pid[p] \in Clone \cup {0} /\ Held
  BY DEF ForkInv, Fork!ForkTypeOK
<1>2. pid[p] = 0 => Released(p, clones)
  BY <1>1, ForkConstants DEF Released, Fork!ForkTypeOK
<1>3. pid[p] # 0 /\ clones[pid[p]] # "reaped" => Released(p, Fork!KilledBy(p, pid[p]))
  BY <1>1, KilledFacts DEF Released, Held
<1>4. pid[p] # 0 /\ clones[pid[p]] = "reaped" => Released(p, clones)
  BY <1>1 DEF Released, Fork!ForkTypeOK
<1> QED BY <1>2, <1>3, <1>4

(* A process that is gone, with its clone released, leaves the invariant in place. *)
LEMMA GoneKeeps ==
  ASSUME ForkInv, NEW p \in Proc, NEW cs, Released(p, cs),
         NEW s \in {"exited", "crashed", "panic"},
         state[p] = "live", state' = [state EXCEPT ![p] = s],
         clones' = Fork!Orphaned(p, cs),
         UNCHANGED <<data, taken, pid, parent, image, heirs>>
  PROVE  ForkInv'
<1>1. /\ clones' \in [Clone -> {"none", "paused", "zombie", "reaped"}]
      /\ \A d \in Clone : /\ clones'[d] = "none" <=> clones[d] = "none"
                          /\ clones'[d] = "paused" <=> clones[d] = "paused" /\ d # pid[p]
  BY OrphanedFacts DEF Released
<1>2. Fork!ForkTypeOK'
  BY <1>1 DEF ForkInv, Fork!ForkTypeOK
<1>3. Held'
  BY <1>1 DEF ForkInv, Held, Fork!ForkTypeOK
<1>4. ASSUME NEW q \in Proc, state'[q] = "live", pid[q] # 0, heirs[pid[q]] = {}
      PROVE  clones'[pid[q]] = "paused" /\ parent[pid[q]] = q /\ image[pid[q]] = taken[q]
  <2>1. q # p /\ state[q] = "live" /\ pid[q] \in Clone
    BY <1>4 DEF ForkInv, Fork!ForkTypeOK
  <2>2. clones[pid[q]] = "paused" /\ parent[pid[q]] = q /\ image[pid[q]] = taken[q]
    BY <1>4, <2>1 DEF ForkInv, Fork!ForkRecoverable
  <2>3. pid[p] # pid[q]
    BY <1>4, <2>1, <2>2 DEF ForkInv, Held
  <2> QED BY <1>1, <2>1, <2>2, <2>3
<1>5. ASSUME NEW d \in Clone, clones'[d] = "paused"
      PROVE  \E q \in Proc : pid[q] = d /\ state'[q] \in {"live", "crashed"}
  <2>1. clones[d] = "paused" /\ d # pid[p]
    BY <1>1, <1>5
  <2>2. PICK q \in Proc : pid[q] = d /\ state[q] \in {"live", "crashed"}
    BY <2>1 DEF ForkInv, Fork!ForkNoOrphans
  <2> QED BY <2>1, <2>2 DEF ForkInv, Fork!ForkTypeOK
<1> QED BY <1>2, <1>3, <1>4, <1>5 DEF ForkInv, Fork!ForkRecoverable, Fork!ForkNoOrphans

(* A process that crashes leaves its clone behind, and nothing else changes. *)
LEMMA CrashKeeps ==
  ASSUME ForkInv, NEW p \in Proc, Fork!Crash(p)
  PROVE  ForkInv'
<1>1. /\ state[p] = "live" /\ state' = [state EXCEPT ![p] = "crashed"]
      /\ clones' = Fork!Orphaned(p, clones)
      /\ UNCHANGED <<data, taken, pid, parent, image, heirs>>
  BY DEF Fork!Crash
<1>2. /\ clones' \in [Clone -> {"none", "paused", "zombie", "reaped"}]
      /\ \A d \in Clone : /\ clones'[d] = "none" <=> clones[d] = "none"
                          /\ clones'[d] = "paused" <=> clones[d] = "paused"
  BY <1>1, OrphanedFacts DEF ForkInv, Fork!ForkTypeOK
<1>3. Fork!ForkTypeOK' /\ Held'
  BY <1>1, <1>2 DEF ForkInv, Fork!ForkTypeOK, Held
<1>4. Fork!ForkRecoverable'
  BY <1>1, <1>2 DEF ForkInv, Fork!ForkTypeOK, Fork!ForkRecoverable
<1>5. Fork!ForkNoOrphans'
  BY <1>1, <1>2 DEF ForkInv, Fork!ForkTypeOK, Fork!ForkNoOrphans
<1> QED BY <1>3, <1>4, <1>5 DEF ForkInv

(* clone(): the new clone is nobody's yet, so only p holds it. *)
LEMMA NewCloneKeeps ==
  ASSUME ForkInv, NEW p \in Proc, NEW cs, Released(p, cs), state[p] = "live",
         Fork!NewClone(p, cs), UNCHANGED <<data, heirs>>
  PROVE  ForkInv'
<1>1. CASE /\ state' = [state EXCEPT ![p] = "crashed"]
           /\ clones' = Fork!Orphaned(p, cs)
           /\ UNCHANGED <<parent, image, taken, pid>>
  BY <1>1, GoneKeeps
<1>2. ASSUME NEW c \in Clone, cs[c] = "none", clones' = [cs EXCEPT ![c] = "paused"],
             parent' = [parent EXCEPT ![c] = p], image' = [image EXCEPT ![c] = data[p]],
             taken' = [taken EXCEPT ![p] = data[p]], pid' = [pid EXCEPT ![p] = c],
             UNCHANGED state
      PROVE  ForkInv'
  <2>0. /\ Fork!ForkTypeOK /\ Held /\ c # 0
        /\ \A q \in Proc : pid[q] # c
    BY <1>2, ForkConstants DEF ForkInv, Held, Released
  <2>1. Fork!ForkTypeOK'
    BY <1>2, <2>0 DEF Fork!ForkTypeOK, Released
  <2>2. ASSUME NEW q \in Proc \ {p}, pid[q] # 0
        PROVE  /\ pid'[q] = pid[q] /\ pid[q] \in Clone \ {c}
               /\ clones'[pid[q]] = cs[pid[q]] /\ parent'[pid[q]] = parent[pid[q]]
               /\ image'[pid[q]] = image[pid[q]] /\ taken'[q] = taken[q]
    BY <1>2, <2>0, <2>2 DEF Fork!ForkTypeOK, Released
  <2>3. /\ pid'[p] = c /\ clones'[c] = "paused" /\ parent'[c] = p
        /\ image'[c] = data[p] /\ taken'[p] = data[p]
    BY <1>2, <2>0 DEF Fork!ForkTypeOK, Released
  <2>4. Held'
    <3>1. ASSUME NEW q \in Proc \ {p}, pid'[q] # 0
          PROVE  /\ clones'[pid'[q]] # "none"
                 /\ q = parent'[pid'[q]] \/ q \in heirs'[pid'[q]]
      <4>1. pid'[q] = pid[q] /\ pid[q] # 0
        BY <1>2, <2>0, <3>1 DEF Fork!ForkTypeOK
      <4> QED BY <2>0, <2>2, <4>1 DEF Held, Released
    <3> QED BY <2>0, <2>3, <3>1 DEF Held
  <2>5. ASSUME NEW q \in Proc, state'[q] = "live", pid'[q] # 0, heirs'[pid'[q]] = {}
        PROVE  /\ clones'[pid'[q]] = "paused" /\ parent'[pid'[q]] = q
               /\ image'[pid'[q]] = taken'[q]
    <3>1. CASE q = p
      BY <2>3, <3>1
    <3>2. CASE q # p
      <4>1. pid'[q] = pid[q] /\ state[q] = "live" /\ heirs[pid[q]] = {}
        BY <1>2, <2>0, <2>5, <3>2 DEF Fork!ForkTypeOK
      <4>2. clones[pid[q]] = "paused" /\ parent[pid[q]] = q /\ image[pid[q]] = taken[q]
        BY <2>5, <4>1 DEF ForkInv, Fork!ForkRecoverable
      <4>3. pid[p] # pid[q]
        BY <2>0, <2>5, <3>2, <4>1, <4>2 DEF Held
      <4> QED BY <2>2, <2>5, <3>2, <4>1, <4>2, <4>3 DEF Released
    <3> QED BY <3>1, <3>2
  <2>6. ASSUME NEW d \in Clone, clones'[d] = "paused"
        PROVE  \E q \in Proc : pid'[q] = d /\ state'[q] \in {"live", "crashed"}
    <3>1. CASE d = c
      BY <1>2, <2>3, <3>1
    <3>2. CASE d # c
      <4>1. clones[d] = "paused" /\ d # pid[p]
        BY <1>2, <2>6, <3>2 DEF Released
      <4>2. PICK q \in Proc : pid[q] = d /\ state[q] \in {"live", "crashed"}
        BY <4>1 DEF ForkInv, Fork!ForkNoOrphans
      <4> QED BY <1>2, <2>0, <4>1, <4>2 DEF Fork!ForkTypeOK
    <3> QED BY <3>1, <3>2
  <2> QED BY <2>1, <2>4, <2>5, <2>6 DEF ForkInv, Fork!ForkRecoverable, Fork!ForkNoOrphans
<1> QED BY <1>1, <1>2 DEF Fork!NewClone

(* A forked process becomes an heir of the clone whose id it inherits. *)
LEMMA ForkKeeps ==
  ASSUME ForkInv, NEW p \in Proc, NEW q \in Proc, Fork!Fork(p, q)
  PROVE  ForkInv'
<1>1. /\ state[p] = "live" /\ state[q] = "none" /\ state' = [state EXCEPT ![q] = "live"]
      /\ data' = [data EXCEPT ![q] = data[p]] /\ taken' = [taken EXCEPT ![q] = taken[p]]
      /\ pid' = [pid EXCEPT ![q] = pid[p]]
      /\ heirs' = IF pid[p] = 0 THEN heirs ELSE [heirs EXCEPT ![pid[p]] = @ \cup {q}]
      /\ UNCHANGED <<clones, parent, image>>
  BY DEF Fork!Fork
<1>2. Fork!ForkTypeOK /\ Held
  BY DEF ForkInv
<1>3. Fork!ForkTypeOK'
  BY <1>1, <1>2 DEF Fork!ForkTypeOK
<1>4. /\ \A c \in Clone : heirs[c] \subseteq heirs'[c]
      /\ pid[p] # 0 => q \in heirs'[pid[p]]
      /\ pid'[q] = pid[p] /\ \A r \in Proc \ {q} : pid'[r] = pid[r] /\ taken'[r] = taken[r]
      /\ \A r \in Proc : pid[r] \in Clone \cup {0}
  BY <1>1, <1>2 DEF Fork!ForkTypeOK
<1>5. Held'
  BY <1>1, <1>2, <1>4 DEF Held
<1>6. ASSUME NEW r \in Proc, state'[r] = "live", pid'[r] # 0, heirs'[pid'[r]] = {}
      PROVE  clones[pid'[r]] = "paused" /\ parent[pid'[r]] = r /\ image[pid'[r]] = taken'[r]
  <2>1. r # q
    BY <1>4, <1>6
  <2>2. state[r] = "live" /\ pid'[r] = pid[r] /\ taken'[r] = taken[r] /\ heirs[pid[r]] = {}
    BY <1>1, <1>2, <1>4, <1>6, <2>1 DEF Fork!ForkTypeOK
  <2> QED BY <1>6, <2>2 DEF ForkInv, Fork!ForkRecoverable
<1>7. ASSUME NEW d \in Clone, clones[d] = "paused"
      PROVE  \E r \in Proc : pid'[r] = d /\ state'[r] \in {"live", "crashed"}
  <2>1. PICK r \in Proc : pid[r] = d /\ state[r] \in {"live", "crashed"}
    BY <1>7 DEF ForkInv, Fork!ForkNoOrphans
  <2> QED BY <1>1, <1>2, <1>4, <2>1 DEF Fork!ForkTypeOK
<1> QED
  BY <1>1, <1>3, <1>5, <1>6, <1>7 DEF ForkInv, Fork!ForkRecoverable, Fork!ForkNoOrphans

(* Every step keeps the invariant; one case per action. *)
LEMMA ForkNextInv == ForkInv /\ Fork!Next => ForkInv'
<1> SUFFICES ASSUME ForkInv, Fork!Next PROVE ForkInv'
  OBVIOUS
<1>0. PICK p \in Proc : \/ \E v \in Val : Fork!Store(p, v)
                        \/ Fork!top_of_the_loop(p)
                        \/ \E q \in Proc : Fork!Fork(p, q)
                        \/ Fork!before_exit(p)
                        \/ Fork!Crash(p)
  BY DEF Fork!Next
<1>1. ASSUME NEW v \in Val, Fork!Store(p, v) PROVE ForkInv'
  BY <1>1 DEF Fork!Store, ForkInv, Fork!ForkTypeOK, Held, Fork!ForkRecoverable, Fork!ForkNoOrphans
<1>2. CASE Fork!top_of_the_loop(p)
  <2>0. state[p] = "live" /\ UNCHANGED <<data, heirs>>
    BY <1>2 DEF Fork!top_of_the_loop
  <2>1. CASE pid[p] = 0 /\ Fork!NewClone(p, clones)
    BY <2>0, <2>1, HooksRelease, NewCloneKeeps
  <2>2. CASE /\ pid[p] # 0 /\ clones[pid[p]] # "reaped"
             /\ Fork!NewClone(p, Fork!KilledBy(p, pid[p]))
    BY <2>0, <2>2, HooksRelease, NewCloneKeeps
  <2>3. CASE /\ pid[p] # 0 /\ clones[pid[p]] = "reaped"
             /\ state' = [state EXCEPT ![p] = "panic"]
             /\ clones' = Fork!Orphaned(p, clones)
             /\ UNCHANGED <<taken, pid, parent, image>>
    BY <2>0, <2>3, HooksRelease, GoneKeeps
  <2> QED BY <1>2, <2>1, <2>2, <2>3 DEF Fork!top_of_the_loop
<1>3. ASSUME NEW q \in Proc, Fork!Fork(p, q) PROVE ForkInv'
  BY <1>3, ForkKeeps
<1>4. CASE Fork!before_exit(p)
  <2> DEFINE cs == IF pid[p] # 0 /\ clones[pid[p]] # "reaped"
                     THEN Fork!KilledBy(p, pid[p]) ELSE clones
  <2>1. Released(p, cs)
    BY HooksRelease
  <2>2. /\ state[p] = "live" /\ state' = [state EXCEPT ![p] = "exited"]
        /\ clones' = Fork!Orphaned(p, cs)
        /\ UNCHANGED <<data, taken, pid, parent, image, heirs>>
    BY <1>4 DEF Fork!before_exit
  <2> HIDE DEF cs
  <2> QED BY <2>1, <2>2, GoneKeeps
<1>5. CASE Fork!Crash(p)
  BY <1>5, CrashKeeps
<1> QED BY <1>0, <1>1, <1>2, <1>3, <1>4, <1>5

LinkedForkInv == method = "fork" => ForkInv

(* The steps of the other methods are not steps of a program with clones. *)
LEMMA LinkedFork ==
  /\ Init => LinkedForkInv
  /\ LinkedForkInv /\ [Next]_vars => LinkedForkInv'
<1>1. Init => LinkedForkInv
  BY ForkInitInv DEF Init, LinkedForkInv
<1>2. ASSUME LinkedForkInv, Next PROVE LinkedForkInv'
  <2>1. CASE method = "fork" /\ Fork!Next /\ UNCHANGED method
    BY <1>2, <2>1, ForkNextInv DEF LinkedForkInv
  <2>2. CASE method # "fork" /\ UNCHANGED method
    BY <2>2 DEF LinkedForkInv
  <2> QED BY <1>2, <2>1, <2>2 DEF Next
<1>3. ASSUME LinkedForkInv, UNCHANGED vars PROVE LinkedForkInv'
  BY <1>3
     DEF vars, forkVars, LinkedForkInv, ForkInv, Fork!ForkTypeOK, Held,
         Fork!ForkRecoverable, Fork!ForkNoOrphans
<1> QED BY <1>1, <1>2, <1>3

(* A clone whose id no forked process inherited is alive and holds the memory of its
   process's last checkpoint, whatever the hooks of the other processes kill. *)
THEOREM ForkKeepsCheckpoint == Spec => []ForkRecoverable
<1>1. LinkedForkInv => ForkRecoverable
  BY DEF LinkedForkInv, ForkInv, ForkRecoverable
<1> QED BY <1>1, LinkedFork, PTL DEF Spec

(* The hooks leave no clone behind: one that still waits is the clone of a process that
   lives or has crashed (LTCKPT_DECLARE_BEFORE_EXIT_HOOK). *)
THEOREM ForkLeavesNoOrphans == Spec => []ForkNoOrphans
<1>1. LinkedForkInv => ForkNoOrphans
  BY DEF LinkedForkInv, ForkInv, ForkNoOrphans
<1> QED BY <1>1, LinkedFork, PTL DEF Spec

-----------------------------------------------------------------------------
(* All mechanisms. *)

(* The state of whichever mechanism is linked keeps its type: the bitmap's epoch is
   never the mark of a region that was not saved, and no page list exceeds its table. *)
THEOREM MechanismTypeCorrect == Spec => []MechanismTypeOK
<1>1. LinkedBitmapInv /\ LinkedMprotectInv /\ LinkedSoftDirtyInv /\ LinkedForkInv => MechanismTypeOK
  BY DEF LinkedBitmapInv, BitmapInv, BitmapShape, LinkedMprotectInv, MprotectInv,
         LinkedSoftDirtyInv, SoftDirtyInv, LinkedForkInv, ForkInv, MechanismTypeOK
<1> QED
  BY <1>1, LinkedBitmap, LinkedMprotect, LinkedSoftDirty, LinkedFork, PTL DEF Spec

=============================================================================
