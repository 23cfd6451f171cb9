---------------------------- MODULE ForkCheckpoint ----------------------------
(***************************************************************************)
(* The fork mechanism, mechanisms/ltckpt_fork.c.  A checkpoint is a clone  *)
(* of the process that waits in pause(); the top-of-the-loop hook kills    *)
(* and reaps the last one and makes a new one, and so does the hook before *)
(* exit, without the new one.  The clone's id is in a static variable,     *)
(* which a process that the application forks inherits.                    *)
(***************************************************************************)
EXTENDS Mechanism

VARIABLES
  state,   \* of each process: "none", "live", "exited", "crashed", "panic"
  data,    \* its memory
  taken,   \* history: its memory at its last checkpoint
  pid,     \* its static variable: a clone, or 0
  clones,  \* of each clone: "none", "paused", "zombie", "reaped"
  parent,  \* the process that made it
  image,   \* its memory, the checkpoint
  heirs    \* history: the processes that inherited its id

vars == <<state, data, taken, pid, clones, parent, image, heirs>>

ForkTypeOK ==
  /\ state \in [Proc -> {"none", "live", "exited", "crashed", "panic"}]
  /\ data \in [Proc -> Val] /\ taken \in [Proc -> Val]
  /\ pid \in [Proc -> Clone \cup {0}]
  /\ clones \in [Clone -> {"none", "paused", "zombie", "reaped"}]
  /\ parent \in [Clone -> Proc]
  /\ image \in [Clone -> Val]
  /\ heirs \in [Clone -> SUBSET Proc]

Init ==
  /\ \E p \in Proc : /\ state = [q \in Proc |-> IF q = p THEN "live" ELSE "none"]
                     /\ parent = [c \in Clone |-> p]
  /\ data = [p \in Proc |-> Zero] /\ taken = data
  /\ pid = [p \in Proc |-> 0]
  /\ clones = [c \in Clone |-> "none"]
  /\ image = [c \in Clone |-> Zero]
  /\ heirs = [c \in Clone |-> {}]

Store(p, v) ==
  /\ state[p] = "live"
  /\ data' = [data EXCEPT ![p] = v]
  /\ UNCHANGED <<state, taken, pid, clones, parent, image, heirs>>

\* The clones after kill(c, SIGKILL) and waitpid(c, NULL, __WCLONE) by p: only
\* its parent can reap it, or init when the parent is gone.
KilledBy(p, c) ==
  [clones EXCEPT ![c] = IF parent[c] = p \/ state[parent[c]] # "live" THEN "reaped" ELSE "zombie"]

\* The clones when p is gone: init reaps its zombies.
Orphaned(p, cs) == [c \in Clone |-> IF parent[c] = p /\ cs[c] = "zombie" THEN "reaped" ELSE cs[c]]

\* Mutated NewClone: the id of the first clone is kept.
NewCloneKeepsId(p, cs) ==
  \E c \in Clone :
    /\ cs[c] = "none"
    /\ \A d \in Clone : d < c => cs[d] # "none"
    /\ clones' = [cs EXCEPT ![c] = "paused"]
    /\ parent' = [parent EXCEPT ![c] = p]
    /\ image' = [image EXCEPT ![c] = data[p]]
    /\ taken' = [taken EXCEPT ![p] = data[p]]
    /\ pid' = IF pid[p] = 0 THEN [pid EXCEPT ![p] = c] ELSE pid
    /\ UNCHANGED state

\* clone(): the new checkpoint, or, when there can be no more processes, a panic.
NewClone(p, cs) ==
  \/ \E c \in Clone :
       /\ cs[c] = "none"
       /\ \A d \in Clone : d < c => cs[d] # "none"
       /\ clones' = [cs EXCEPT ![c] = "paused"]
       /\ parent' = [parent EXCEPT ![c] = p]
       /\ image' = [image EXCEPT ![c] = data[p]]
       /\ taken' = [taken EXCEPT ![p] = data[p]]
       /\ pid' = [pid EXCEPT ![p] = c]
       /\ UNCHANGED state
  \/ /\ \A c \in Clone : cs[c] # "none"
     /\ state' = [state EXCEPT ![p] = "crashed"]
     /\ clones' = Orphaned(p, cs)
     /\ UNCHANGED <<parent, image, taken, pid>>

\* The top-of-the-loop hook, when a checkpoint is due: kill fails on a process
\* that does not exist any more, and the hook panics.
top_of_the_loop(p) ==
  /\ state[p] = "live"
  /\ \/ /\ pid[p] = 0
        /\ NewClone(p, clones)
     \/ /\ pid[p] # 0
        /\ clones[pid[p]] # "reaped"
        /\ NewClone(p, KilledBy(p, pid[p]))
     \/ /\ pid[p] # 0
        /\ clones[pid[p]] = "reaped"
        /\ state' = [state EXCEPT ![p] = "panic"]
        /\ clones' = Orphaned(p, clones)
        /\ UNCHANGED <<taken, pid, parent, image>>
  /\ UNCHANGED <<data, heirs>>

\* The application forks a process of its own.
Fork(p, q) ==
  /\ state[p] = "live" /\ state[q] = "none"
  /\ state' = [state EXCEPT ![q] = "live"]
  /\ data' = [data EXCEPT ![q] = data[p]]
  /\ taken' = [taken EXCEPT ![q] = taken[p]]
  /\ pid' = [pid EXCEPT ![q] = pid[p]]
  /\ heirs' = IF pid[p] = 0 THEN heirs ELSE [heirs EXCEPT ![pid[p]] = @ \cup {q}]
  /\ UNCHANGED <<clones, parent, image>>

\* Mutated before_exit: the clone is left behind.
before_exitKeepsClone(p) ==
  /\ state[p] = "live"
  /\ state' = [state EXCEPT ![p] = "exited"]
  /\ clones' = Orphaned(p, clones)
  /\ UNCHANGED <<data, taken, pid, parent, image, heirs>>

\* exit(), with the hook before it: here a failing kill is passed over.
before_exit(p) ==
  /\ state[p] = "live"
  /\ state' = [state EXCEPT ![p] = "exited"]
  /\ clones' = Orphaned(p, IF pid[p] # 0 /\ clones[pid[p]] # "reaped"
                             THEN KilledBy(p, pid[p]) ELSE clones)
  /\ UNCHANGED <<data, taken, pid, parent, image, heirs>>

\* A process dies without running the hook.
Crash(p) ==
  /\ state[p] = "live"
  /\ state' = [state EXCEPT ![p] = "crashed"]
  /\ clones' = Orphaned(p, clones)
  /\ UNCHANGED <<data, taken, pid, parent, image, heirs>>

Next ==
  \E p \in Proc :
    \/ \E v \in Val : Store(p, v)
    \/ top_of_the_loop(p)
    \/ \E q \in Proc : Fork(p, q)
    \/ before_exit(p)
    \/ Crash(p)

Spec == Init /\ [][Next]_vars

-----------------------------------------------------------------------------
(* A checkpoint whose id no forked process has inherited is there, and is the memory
   at the process's last top-of-the-loop, whatever the other processes do. *)
ForkRecoverable ==
  \A p \in Proc :
    (state[p] = "live" /\ pid[p] # 0 /\ heirs[pid[p]] = {}) =>
       /\ clones[pid[p]] = "paused"
       /\ parent[pid[p]] = p
       /\ image[pid[p]] = taken[p]

(* No clone waits in pause() for ever, but for those of a process that crashed
   (ltckpt_fork_child, LTCKPT_DECLARE_BEFORE_EXIT_HOOK). *)
ForkNoOrphans ==
  \A c \in Clone : clones[c] = "paused" =>
     \E p \in Proc : pid[p] = c /\ state[p] \in {"live", "crashed"}

=============================================================================
