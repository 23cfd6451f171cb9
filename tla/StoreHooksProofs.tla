--------------------------- MODULE StoreHooksProofs ---------------------------
(***************************************************************************)
(* The hooks of ltckptbasic, for every function: any control flow graph,   *)
(* any instructions, any number of blocks.                                 *)
(*                                                                         *)
(* The argument for the optimizations: when an instruction is reached, all *)
(* that dominates it has run (Passed), and a store that has lost its hook  *)
(* is dominated by one that saves its word (Covered).  For the first,      *)
(* paths are bounded in length, and a path of full length is cut where it  *)
(* meets a block twice (PathStep); for the second, dominance is an order   *)
(* on the instructions that can be reached, so that the leader of a chain  *)
(* dominates the whole chain in whatever order it was built (ChainInv).    *)
(***************************************************************************)
EXTENDS StoreHooks, FiniteSetTheorems, WellFoundedInduction, TLAPS

-----------------------------------------------------------------------------
(* Types, as far as the proofs need them. *)

TypeInv ==
  /\ prog \in Programs
  /\ pc \in {"compile", "aggregate", "run", "done"}
  /\ at \in Block \X (1 .. BlockLen + 1)
  /\ pc \in {"compile", "aggregate"} => at = <<1, 1>>
  /\ pc = "aggregate" => prog.option = "aggregate"

\* What is assumed of the size of a function.
LEMMA Bounds == NumBlocks \in Nat /\ NumBlocks >= 1 /\ BlockLen \in Nat /\ BlockLen >= 1
BY StoreHooksAssumption

\* Every place of a function that is compiled holds an instruction.
LEMMA Code ==
  ASSUME TypeInv  PROVE prog.code \in [Point -> Instr]
BY StoreHooksAssumption DEF TypeInv

\* The instruction that is running.
LEMMA RunningPoint ==
  ASSUME TypeInv, NEW op, Running(op)
  PROVE  /\ pc = "run"
         /\ at \in Point
         /\ prog.code[at] \in Instr /\ prog.code[at].op = op
         /\ <<at[1], at[2] + 1>> \in Block \X (1 .. BlockLen + 1)
<1>1. at[1] \in Block /\ at[2] \in 1 .. BlockLen + 1 /\ at = <<at[1], at[2]>>  BY DEF TypeInv
<1>2. at[2] <= BlockLen /\ pc = "run" /\ prog.code[at].op = op  BY DEF Running
<1>3. at[2] \in 1 .. BlockLen /\ at[2] + 1 \in 1 .. BlockLen + 1  BY <1>1, <1>2, Bounds
<1>4. at \in Point  BY <1>1, <1>3 DEF Point
<1>5. QED  BY <1>1, <1>2, <1>3, <1>4, Code

\* The pass and the run keep the types.
LEMMA TypeStep == TypeInv /\ [Next]_vars => TypeInv'
<1> SUFFICES ASSUME TypeInv, [Next]_vars PROVE TypeInv'  OBVIOUS
<1>1. CASE onFunction  BY <1>1 DEF onFunction, TypeInv
<1>2. ASSUME NEW s \in Point, addStore(s)  PROVE TypeInv'  BY <1>2 DEF addStore, TypeInv
<1>3. CASE dump  BY <1>3 DEF dump, TypeInv
<1>4. CASE Store  BY <1>4, RunningPoint DEF Store, NextPoint, TypeInv
<1>5. CASE top_of_the_loop  BY <1>5, RunningPoint DEF top_of_the_loop, NextPoint, TypeInv
<1>6. CASE Call  BY <1>6, RunningPoint DEF Call, NextPoint, TypeInv
<1>7. CASE Nop  BY <1>7, RunningPoint DEF Nop, NextPoint, TypeInv
<1>8. CASE Branch
  <2>1. at[1] \in Block  BY DEF TypeInv
  <2>2. PICK b \in Succ[at[1]] :
          IF b = 0 THEN pc' = "done" /\ UNCHANGED at ELSE at' = <<b, 1>> /\ UNCHANGED pc
    BY <1>8 DEF Branch
  <2>3. b \in Block \cup {0}  BY <2>1, StoreHooksAssumption
  <2>4. 1 \in 1 .. BlockLen + 1  BY Bounds
  <2>5. at' \in Block \X (1 .. BlockLen + 1)  BY <2>2, <2>3, <2>4 DEF TypeInv
  <2>6. pc = "run" /\ pc' \in {"run", "done"} /\ prog' = prog  BY <1>8, <2>2 DEF Branch
  <2>7. QED  BY <2>5, <2>6 DEF TypeInv
<1>9. CASE UNCHANGED vars  BY <1>9 DEF vars, TypeInv
<1>10. QED  BY <1>1, <1>2, <1>3, <1>4, <1>5, <1>6, <1>7, <1>8, <1>9 DEF Next

\* The types, in every state.
LEMMA Typed == Spec => []TypeInv
<1>1. Init => TypeInv
  <2>1. 1 \in Block /\ 1 \in 1 .. BlockLen + 1  BY Bounds DEF Block
  <2>2. QED  BY <2>1 DEF Init, TypeInv
<1>2. QED  BY <1>1, TypeStep, PTL DEF Spec

-----------------------------------------------------------------------------
(* Without the options: the window of a store that has no hook. *)

\* The hooks that onFunction places, and the windows it places them for: where
\* instrumentStores is false, a transaction runs or a called function began
\* the window.
WindowInv ==
  /\ (pc \in {"run", "done"} /\ prog.option = "none")
       => hooks = StoreHook(referencingInstructions)
  /\ (pc = "run" /\ InTransaction(at) /\ window = "LTCKPT") => callee

\* Past an instruction that is no hook, instrumentStores is what it was.
LEMMA PastInstruction ==
  ASSUME TypeInv, NEW op \in {"store", "call", "nop"}, Running(op), NextPoint, UNCHANGED prog
  PROVE  InTransaction(at)' => InTransaction(at)
<1>1. at[1] \in Block /\ at[2] \in Nat /\ at[2] >= 1 /\ at = <<at[1], at[2]>>
  BY RunningPoint DEF Point
<1>2. at'[1] = at[1] /\ at'[2] = at[2] + 1  BY DEF NextPoint
<1>3. prog.code[<<at[1], at[2]>>].op \notin {"tol"}  BY <1>1 DEF Running
<1>4. HAVE InTransaction(at)'
<1>5. PICK i \in 1 .. at[2] :
        /\ prog.code[<<at[1], i>>] = [op |-> "tol", type |-> "TSX"]
        /\ \A j \in i + 1 .. at[2] : prog.code[<<at[1], j>>].op # "tol"
  BY <1>1, <1>2, <1>4 DEF InTransaction
<1>6. i # at[2]  BY <1>3, <1>5
<1>7. i \in 1 .. at[2] - 1 /\ \A j \in i + 1 .. at[2] - 1 : j \in i + 1 .. at[2]
  BY <1>1, <1>6
<1>8. QED  BY <1>5, <1>7 DEF InTransaction

\* Past a hook, instrumentStores is false only if it begins a transaction.
LEMMA PastHook ==
  ASSUME TypeInv, Running("tol"), NextPoint, UNCHANGED prog
  PROVE  InTransaction(at)' => prog.code[at].type = "TSX"
<1>1. at[1] \in Block /\ at[2] \in Nat /\ at[2] >= 1 /\ at = <<at[1], at[2]>>
  BY RunningPoint DEF Point
<1>2. at'[1] = at[1] /\ at'[2] = at[2] + 1  BY DEF NextPoint
<1>3. prog.code[<<at[1], at[2]>>].op = "tol"  BY <1>1 DEF Running
<1>4. HAVE InTransaction(at)'
<1>5. PICK i \in 1 .. at[2] :
        /\ prog.code[<<at[1], i>>] = [op |-> "tol", type |-> "TSX"]
        /\ \A j \in i + 1 .. at[2] : prog.code[<<at[1], j>>].op # "tol"
  BY <1>1, <1>2, <1>4 DEF InTransaction
<1>6. i = at[2]  BY <1>1, <1>3, <1>5
<1>7. QED  BY <1>1, <1>5, <1>6

\* Every step of the pass and of the run keeps the window and the hooks in it.
LEMMA WindowStep == TypeInv /\ WindowInv /\ [Next]_vars => WindowInv'
<1> SUFFICES ASSUME TypeInv, WindowInv, [Next]_vars PROVE WindowInv'  OBVIOUS
<1>1. ASSUME UNCHANGED <<prog, hooks>>, pc \in {"run", "done"}
      PROVE  ((pc \in {"run", "done"} /\ prog.option = "none")
                => hooks = StoreHook(referencingInstructions))'
  BY <1>1 DEF WindowInv, StoreHook, referencingInstructions, IsStore, InTransaction
<1>2. CASE onFunction
  <2>1. pc' = "run" => ~InTransaction(at)'
    <3>1. at' = <<1, 1>>  BY <1>2 DEF onFunction, TypeInv
    <3>2. QED  BY <3>1 DEF InTransaction
  <2>2. (prog.option = "none")' => (hooks = StoreHook(referencingInstructions))'
    BY <1>2 DEF onFunction, StoreHook, referencingInstructions, IsStore, InTransaction
  <2>3. pc' # "done"  BY <1>2 DEF onFunction
  <2>4. QED  BY <2>1, <2>2, <2>3 DEF WindowInv
<1>3. ASSUME NEW s \in Point, addStore(s)  PROVE WindowInv'  BY <1>3 DEF addStore, WindowInv
<1>4. CASE dump
  <2>1. ~InTransaction(at)'
    <3>1. at' = <<1, 1>>  BY <1>4 DEF dump, TypeInv
    <3>2. QED  BY <3>1 DEF InTransaction
  <2>2. prog' = prog /\ prog.option = "aggregate"  BY <1>4 DEF dump, TypeInv
  <2>3. QED  BY <2>1, <2>2 DEF WindowInv
<1>5. CASE Store
  <2>1. InTransaction(at)' => InTransaction(at)  BY <1>5, PastInstruction DEF Store
  <2>2. UNCHANGED <<prog, hooks, pc, window, callee>> /\ pc = "run"
    BY <1>5 DEF Store, Running
  <2>3. QED  BY <1>1, <2>1, <2>2 DEF WindowInv
<1>6. CASE top_of_the_loop
  <2>1. InTransaction(at)' => window' = "TSX"
    <3>1. InTransaction(at)' => prog.code[at].type = "TSX"
      BY <1>6, PastHook DEF top_of_the_loop
    <3>2. QED  BY <1>6, <3>1 DEF top_of_the_loop
  <2>2. UNCHANGED <<prog, hooks, pc>> /\ pc = "run"  BY <1>6 DEF top_of_the_loop, Running
  <2>3. QED  BY <1>1, <2>1, <2>2 DEF WindowInv
<1>7. CASE Call
  <2>1. InTransaction(at)' => InTransaction(at)  BY <1>7, PastInstruction DEF Call
  <2>2. UNCHANGED <<prog, hooks, pc>> /\ pc = "run" /\ callee' = InTransaction(at)
    BY <1>7 DEF Call, Running
  <2>3. QED  BY <1>1, <2>1, <2>2 DEF WindowInv
<1>8. CASE Nop
  <2>1. InTransaction(at)' => InTransaction(at)  BY <1>8, PastInstruction DEF Nop
  <2>2. UNCHANGED <<prog, hooks, pc, window, callee>> /\ pc = "run"
    BY <1>8 DEF Nop, Running
  <2>3. QED  BY <1>1, <2>1, <2>2 DEF WindowInv
<1>9. CASE Branch
  <2>1. UNCHANGED <<prog, hooks>> /\ pc = "run" /\ pc' \in {"run", "done"}
    BY <1>9 DEF Branch
  <2>2. pc' = "run" => \E b : at' = <<b, 1>>  BY <1>9 DEF Branch
  <2>3. pc' = "run" => ~InTransaction(at)'  BY <2>2 DEF InTransaction
  <2>4. QED  BY <1>1, <2>1, <2>3 DEF WindowInv
<1>10. CASE UNCHANGED vars
  BY <1>10 DEF vars, WindowInv, StoreHook, referencingInstructions, IsStore, InTransaction
<1>11. QED  BY <1>2, <1>3, <1>4, <1>5, <1>6, <1>7, <1>8, <1>9, <1>10 DEF Next

(* A store in a window that only the undo log can roll back has a hook, along every path of
   every function, unless a called function began the window in a block where a transaction
   began before (LtCkptPassBasic::onFunction without the options). *)
THEOREM EveryStoreIsLogged == Spec => []StoresLogged
<1>1. Init => WindowInv  BY DEF Init, WindowInv
<1>2. ASSUME TypeInv, WindowInv, prog.option = "none", Unlogged  PROVE callee
  <2>1. pc = "run" /\ at \in Point /\ prog.code[at].op = "store" /\ window = "LTCKPT"
    BY <1>2, RunningPoint DEF Unlogged
  <2>2. hooks = StoreHook(referencingInstructions)  BY <1>2, <2>1 DEF WindowInv
  <2>3. at \notin referencingInstructions  BY <1>2, <2>1, <2>2 DEF Unlogged, StoreHook
  <2>4. InTransaction(at)  BY <2>1, <2>3 DEF referencingInstructions, IsStore
  <2>5. QED  BY <1>2, <2>1, <2>4 DEF WindowInv
<1>3. TypeInv /\ WindowInv => StoresLogged  BY <1>2 DEF StoresLogged
<1>4. QED  BY <1>1, <1>3, WindowStep, Typed, PTL DEF Spec

-----------------------------------------------------------------------------
(* Sets of numbers. *)

\* A nonempty set of numbers has a least one.
LEMMA LeastElement ==
  ASSUME NEW S, S \subseteq Nat, S # {}
  PROVE  \E x \in S : \A y \in S : x <= y
<1> DEFINE R == OpToRel(<, Nat)
<1>1. IsWellFoundedOn(R, Nat)  BY NatLessThanWellFounded
<1>2. \A x, y \in Nat : y < x => <<y, x>> \in R  BY DEF OpToRel
<1> HIDE DEF R
<1>3. PICK x \in S : \A y \in S : ~ (<<y, x>> \in R)  BY <1>1, WFMin
<1>4. \A y \in S : ~ (y < x)  BY <1>2, <1>3, Zenon
<1>5. \A y \in S : x <= y
  <2> HIDE <1>1
  <2>1. QED  BY <1>3, <1>4
<1>6. QED  BY <1>3, <1>5, Zenon

\* Were there none, the map to the next larger element would be one to one from
\* the set to the set without its least element.
LEMMA GreatestElement ==
  ASSUME NEW S, S \subseteq Nat, S # {}, IsFiniteSet(S)
  PROVE  \E x \in S : \A y \in S : y <= x
<1> SUFFICES ASSUME \A x \in S : \E y \in S : ~(y <= x) PROVE FALSE  OBVIOUS
<1>1. PICK m \in S : \A y \in S : m <= y  BY LeastElement
<1> DEFINE next(x) == {y \in S : x < y}
           f == [x \in S |-> CHOOSE y \in next(x) : \A z \in next(x) : y <= z]
<1>2. ASSUME NEW x \in S  PROVE /\ f[x] \in S /\ x < f[x]
                                /\ \A z \in S : x < z => f[x] <= z
  <2>1. next(x) \subseteq Nat  OBVIOUS
  <2>2. next(x) # {}
    <3>1. PICK y \in S : ~(y <= x)  OBVIOUS
    <3>2. y \in Nat /\ x \in Nat  OBVIOUS
    <3>3. x < y  BY <3>1, <3>2
    <3>4. QED  BY <3>3
  <2>3. \E y \in next(x) : \A z \in next(x) : y <= z
    <3> HIDE DEF next
    <3>1. QED  BY <2>1, <2>2, LeastElement
  <2>4. f[x] \in next(x) /\ \A z \in next(x) : f[x] <= z  BY <2>3
  <2>5. QED  BY <2>4
<1>3. f \in [S -> S \ {m}]
  <2>1. ASSUME NEW x \in S  PROVE f[x] \in S /\ f[x] # m
    <3>1. f[x] \in S /\ x < f[x] /\ m <= x  BY <1>1, <1>2
    <3> HIDE DEF f
    <3>2. m \in Nat /\ x \in Nat /\ f[x] \in Nat  BY <3>1
    <3>3. QED  BY <3>1, <3>2
  <2>2. QED  BY <2>1
<1> HIDE DEF f
<1>4. IsFiniteSet(S \ {m}) /\ Cardinality(S \ {m}) < Cardinality(S)
  <2>1. Cardinality(S) \in Nat  BY FS_CardinalityType
  <2>2. IsFiniteSet(S \ {m}) /\ Cardinality(S \ {m}) = Cardinality(S) - 1
    BY FS_RemoveElement
  <2>3. QED  BY <2>1, <2>2
<1>5. PICK x \in S, y \in S : x # y /\ f[x] = f[y]  BY <1>3, <1>4, FS_PigeonHole
<1>6. x \in Nat /\ y \in Nat /\ f[x] \in Nat  BY <1>2
<1>7. CASE x < y
  <2>1. f[x] <= y /\ y < f[y]  BY <1>2, <1>7
  <2>2. QED  BY <1>5, <1>6, <2>1
<1>8. CASE y < x
  <2>1. f[y] <= x /\ x < f[x]  BY <1>2, <1>8
  <2>2. QED  BY <1>5, <1>6, <2>1
<1>9. QED  BY <1>5, <1>6, <1>7, <1>8

-----------------------------------------------------------------------------
(* Dominance. *)

\* A path, without the sequence operators.
LEMMA PathIs ==
  ASSUME NEW b \in Block, NEW p
  PROVE  p \in Path(b) <=> \E k \in Block :
           /\ p \in [1 .. k -> Block] /\ p[1] = 1 /\ p[k] = b
           /\ \A i \in 1 .. k - 1 : p[i + 1] \in Succ[p[i]]
<1>1. ASSUME NEW k \in Block, p \in [1 .. k -> Block]  PROVE Len(p) = k
  <2>1. k \in Nat  BY DEF Block
  <2>2. QED  BY <1>1, <2>1
<1>2. QED  BY <1>1 DEF Path

\* The blocks of a path.
On(a, p) == \E i \in DOMAIN p : p[i] = a

\* Dominance of blocks, in terms of the blocks on a path.
LEMMA BlockDominatesIs ==
  ASSUME NEW a \in Block, NEW b \in Block
  PROVE  BlockDominates[<<a, b>>] <=> \A p \in Path(b) : On(a, p)
BY DEF BlockDominates, On

\* A path up to one of its blocks.
LEMMA PathPrefix ==
  ASSUME NEW b \in Block, NEW p \in Path(b), NEW n \in DOMAIN p
  PROVE  /\ p[n] \in Block
         /\ [i \in 1 .. n |-> p[i]] \in Path(p[n])
<1>1. PICK k \in Block :
        /\ p \in [1 .. k -> Block] /\ p[1] = 1 /\ p[k] = b
        /\ \A i \in 1 .. k - 1 : p[i + 1] \in Succ[p[i]]
  BY PathIs
<1>2. k \in Nat /\ n \in 1 .. k /\ n \in Nat /\ n \in Block
  BY <1>1, Bounds DEF Block
<1>3. p[n] \in Block  BY <1>1, <1>2
<1> DEFINE q == [i \in 1 .. n |-> p[i]]
<1>4. /\ q \in [1 .. n -> Block] /\ q[1] = 1 /\ q[n] = p[n]
      /\ \A i \in 1 .. n - 1 : q[i + 1] \in Succ[q[i]]
  BY <1>1, <1>2
<1> HIDE DEF q
<1>5. q \in Path(p[n])  BY <1>2, <1>3, <1>4, PathIs
<1>6. QED  BY <1>3, <1>5 DEF q

\* A path that is not the longest allowed, and one more block.
LEMMA PathAppend ==
  ASSUME NEW k \in Block, k < NumBlocks, NEW p \in [1 .. k -> Block], p[1] = 1,
         \A i \in 1 .. k - 1 : p[i + 1] \in Succ[p[i]],
         NEW c \in Block, c \in Succ[p[k]]
  PROVE  \E q \in Path(c) : \A a \in Block : On(a, q) => a = c \/ On(a, p)
<1>1. k \in Nat /\ k >= 1 /\ k + 1 \in Block  BY Bounds DEF Block
<1> DEFINE q == [i \in 1 .. k + 1 |-> IF i = k + 1 THEN c ELSE p[i]]
<1>2. q \in [1 .. k + 1 -> Block] /\ q[1] = 1 /\ q[k + 1] = c  BY <1>1
<1>3. ASSUME NEW i \in 1 .. (k + 1) - 1  PROVE q[i + 1] \in Succ[q[i]]
  <2>1. CASE i = k  BY <1>1, <2>1
  <2>2. CASE i # k  BY <1>1, <2>2
  <2>3. QED  BY <2>1, <2>2
<1>4. \A a \in Block : On(a, q) => a = c \/ On(a, p)  BY <1>1 DEF On
<1> HIDE DEF q
<1>5. q \in Path(c)  BY <1>1, <1>2, <1>3, PathIs
<1>6. QED  BY <1>4, <1>5

\* A path without the part between two visits of a block.
LEMMA PathCut ==
  ASSUME NEW k \in Block, NEW p \in [1 .. k -> Block], p[1] = 1,
         \A i \in 1 .. k - 1 : p[i + 1] \in Succ[p[i]],
         NEW m \in 1 .. k, NEW n \in 1 .. k, m < n, p[m] = p[n]
  PROVE  \E l \in Block : \E q \in [1 .. l -> Block] :
           /\ l < k /\ q[1] = 1 /\ q[l] = p[k]
           /\ \A i \in 1 .. l - 1 : q[i + 1] \in Succ[q[i]]
           /\ \A a \in Block : On(a, q) => On(a, p)
<1>1. k \in Nat /\ k <= NumBlocks /\ m \in Nat /\ n \in Nat /\ 1 <= m /\ n <= k
  BY Bounds DEF Block
<1> DEFINE l == k - (n - m)
           q == [i \in 1 .. l |-> IF i <= m THEN p[i] ELSE p[i + (n - m)]]
<1>2. l \in Nat /\ l \in Block /\ l < k /\ m <= l  BY <1>1, Bounds DEF Block
<1>3. \A i \in 1 .. l : i > m => i + (n - m) \in 1 .. k  BY <1>1, <1>2
<1>4. q \in [1 .. l -> Block]  BY <1>1, <1>2, <1>3
<1>5. q[1] = 1  BY <1>1, <1>2
<1>6. q[l] = p[k]
  <2>1. CASE n = k  BY <1>1, <1>2, <2>1
  <2>2. CASE n < k  BY <1>1, <1>2, <2>2
  <2>3. QED  BY <1>1, <2>1, <2>2
<1>7. ASSUME NEW i \in 1 .. l - 1  PROVE q[i + 1] \in Succ[q[i]]
  <2>1. CASE i < m
    <3>1. q[i] = p[i] /\ q[i + 1] = p[i + 1] /\ i \in 1 .. k - 1  BY <1>1, <1>2, <2>1
    <3>2. QED  BY <3>1
  <2>2. CASE i = m
    <3>1. q[i] = p[n] /\ q[i + 1] = p[n + 1] /\ n \in 1 .. k - 1  BY <1>1, <1>2, <2>2
    <3>2. QED  BY <3>1
  <2>3. CASE i > m
    <3>1. /\ q[i] = p[i + (n - m)] /\ q[i + 1] = p[(i + (n - m)) + 1]
          /\ i + (n - m) \in 1 .. k - 1
      BY <1>1, <1>2, <2>3
    <3>2. QED  BY <3>1
  <2>4. QED  BY <1>1, <2>1, <2>2, <2>3
<1>8. ASSUME NEW a \in Block, On(a, q)  PROVE On(a, p)
  <2>1. PICK i \in 1 .. l : q[i] = a  BY <1>8 DEF On
  <2>2. CASE i <= m
    <3>1. p[i] = a /\ i \in 1 .. k  BY <1>1, <1>2, <2>1, <2>2
    <3>2. QED  BY <3>1 DEF On
  <2>3. CASE i > m
    <3>1. p[i + (n - m)] = a /\ i + (n - m) \in 1 .. k  BY <1>1, <1>2, <1>3, <2>1, <2>3
    <3>2. QED  BY <3>1 DEF On
  <2>4. QED  BY <1>1, <2>1, <2>2, <2>3
<1> HIDE DEF l, q
<1>9. QED  BY <1>2, <1>4, <1>5, <1>6, <1>7, <1>8

\* An edge leads on from every path: the blocks of some path to its end are
\* those of a path to its start, and its end.  A longest path to the start either
\* meets the end already, or meets a block twice and can be cut.
LEMMA PathStep ==
  ASSUME NEW b \in Block, NEW p \in Path(b), NEW c \in Block, c \in Succ[b]
  PROVE  \E q \in Path(c) : \A a \in Block : On(a, q) => a = c \/ On(a, p)
<1>1. PICK k \in Block :
        /\ p \in [1 .. k -> Block] /\ p[1] = 1 /\ p[k] = b
        /\ \A i \in 1 .. k - 1 : p[i + 1] \in Succ[p[i]]
  BY PathIs
<1>2. k \in Nat /\ k <= NumBlocks /\ k >= 1  BY Bounds DEF Block
<1>3. CASE k < NumBlocks  BY <1>1, <1>3, PathAppend
<1>4. CASE On(c, p)
  <2>1. PICK n \in DOMAIN p : p[n] = c  BY <1>4 DEF On
  <2> DEFINE q == [i \in 1 .. n |-> p[i]]
  <2>2. q \in Path(c)  BY <2>1, PathPrefix
  <2>3. \A a \in Block : On(a, q) => On(a, p)  BY <1>1, <1>2, <2>1 DEF On
  <2>4. QED  BY <2>2, <2>3
<1>5. CASE k = NumBlocks /\ ~On(c, p)
  <2>1. p \in [1 .. k -> Block \ {c}]  BY <1>1, <1>5 DEF On
  <2>2. /\ IsFiniteSet(1 .. k) /\ Cardinality(1 .. k) = k
        /\ IsFiniteSet(Block) /\ Cardinality(Block) = NumBlocks
    BY <1>2, Bounds, FS_Interval DEF Block
  <2>3. IsFiniteSet(Block \ {c}) /\ Cardinality(Block \ {c}) = NumBlocks - 1
    BY <2>2, FS_RemoveElement
  <2>4. PICK x \in 1 .. k, y \in 1 .. k : x # y /\ p[x] = p[y]
    <3>1. Cardinality(Block \ {c}) < Cardinality(1 .. k)  BY <1>5, <2>2, <2>3, Bounds
    <3>2. QED  BY <2>1, <2>2, <2>3, <3>1, FS_PigeonHole
  <2>5. PICK m \in 1 .. k, n \in 1 .. k : m < n /\ p[m] = p[n]
    <3>1. x < y \/ y < x  BY <2>4, <1>2
    <3>2. QED  BY <2>4, <3>1
  <2> DEFINE Shorter(l, s) ==
           /\ l < k /\ s[1] = 1 /\ s[l] = p[k]
           /\ \A i \in 1 .. l - 1 : s[i + 1] \in Succ[s[i]]
           /\ \A a \in Block : On(a, s) => On(a, p)
  <2>0. PICK l \in Block : \E s \in [1 .. l -> Block] : Shorter(l, s)
    BY <1>1, <2>5, PathCut
  <2>6. PICK s \in [1 .. l -> Block] : Shorter(l, s)  BY <2>0
  <2>7. l < NumBlocks /\ c \in Succ[s[l]]  BY <1>1, <1>5, <2>6
  <2>8. PICK r \in Path(c) : \A a \in Block : On(a, r) => a = c \/ On(a, s)
    BY <2>6, <2>7, PathAppend
  <2>9. \A a \in Block : On(a, r) => a = c \/ On(a, p)  BY <2>6, <2>8
  <2>10. QED  BY <2>9
<1>6. k < NumBlocks \/ k = NumBlocks  BY <1>2, Bounds
<1>7. QED  BY <1>3, <1>4, <1>5, <1>6, Zenon

\* What dominates the end of an edge, other than the end, dominates its start.
LEMMA EdgeDominance ==
  ASSUME NEW a \in Block, NEW b \in Block, NEW c \in Block, c \in Succ[b], a # c,
         BlockDominates[<<a, c>>]
  PROVE  BlockDominates[<<a, b>>]
BY PathStep, BlockDominatesIs

Reachable(b) == Path(b) # {}

\* A successor of a reachable block is reachable.
LEMMA EdgeReachable ==
  ASSUME NEW b \in Block, NEW c \in Block, c \in Succ[b], Reachable(b)  PROVE Reachable(c)
BY PathStep DEF Reachable

\* Only the entry dominates the entry.
LEMMA EntryDominance ==
  /\ 1 \in Block /\ Reachable(1)
  /\ \A a \in Block : BlockDominates[<<a, 1>>] => a = 1
<1>1. 1 \in Block  BY Bounds DEF Block
<1> DEFINE p == [i \in 1 .. 1 |-> 1]
<1>2. p \in [1 .. 1 -> Block] /\ p[1] = 1 /\ \A i \in 1 .. 1 - 1 : p[i + 1] \in Succ[p[i]]
  BY <1>1
<1>3. \A a \in Block : On(a, p) => a = 1  BY DEF On
<1> HIDE DEF p
<1>4. p \in Path(1)  BY <1>1, <1>2, PathIs
<1>5. QED  BY <1>1, <1>3, <1>4, BlockDominatesIs DEF Reachable

\* Dominance of blocks is transitive.
LEMMA BlockTransitive ==
  ASSUME NEW a \in Block, NEW b \in Block, NEW c \in Block,
         BlockDominates[<<a, b>>], BlockDominates[<<b, c>>]
  PROVE  BlockDominates[<<a, c>>]
<1>1. SUFFICES ASSUME NEW p \in Path(c) PROVE On(a, p)  BY BlockDominatesIs
<1>2. PICK n \in DOMAIN p : p[n] = b  BY BlockDominatesIs DEF On
<1> DEFINE q == [i \in 1 .. n |-> p[i]]
<1>3. q \in Path(b)  BY <1>2, PathPrefix
<1>4. On(a, q)  BY <1>3, BlockDominatesIs
<1>5. PICK k \in Block : p \in [1 .. k -> Block]  BY PathIs
<1>6. k \in Nat /\ n \in 1 .. k  BY <1>5 DEF Block
<1>7. QED  BY <1>4, <1>5, <1>6 DEF On

\* Two blocks that can be reached do not dominate each other: the one that a
\* path meets first is met before the other.
LEMMA BlockAntisymmetric ==
  ASSUME NEW a \in Block, NEW b \in Block, Reachable(a),
         BlockDominates[<<a, b>>], BlockDominates[<<b, a>>]
  PROVE  a = b
<1> SUFFICES ASSUME a # b PROVE FALSE  OBVIOUS
<1>1. PICK p \in Path(a) : TRUE  BY DEF Reachable
<1>2. PICK k \in Block : p \in [1 .. k -> Block]  BY <1>1, PathIs
<1> DEFINE S == {i \in DOMAIN p : p[i] \in {a, b}}
<1>3. S \in SUBSET Nat /\ S # {}
  <2>1. On(b, p)  BY <1>1, BlockDominatesIs
  <2>2. k \in Nat /\ DOMAIN p = 1 .. k  BY <1>2 DEF Block
  <2>3. S \in SUBSET Nat  BY <2>2
  <2>4. S # {}  BY <2>1 DEF On
  <2>5. QED  BY <2>3, <2>4
<1>4. PICK n \in S : \A m \in S : n <= m
  <2> HIDE DEF S
  <2>1. QED  BY <1>3, LeastElement
<1> DEFINE q == [i \in 1 .. n |-> p[i]]
<1>5. q \in Path(p[n])  BY <1>4, PathPrefix
<1>6. On(a, q) /\ On(b, q)
  <2>1. p[n] = a \/ p[n] = b  BY <1>4
  <2>2. CASE p[n] = a
    <3>1. On(b, q)  BY <1>5, <2>2, BlockDominatesIs
    <3>2. q[n] = a /\ n \in DOMAIN q  BY <1>2, <1>4, <2>2 DEF Block
    <3>3. QED  BY <3>1, <3>2 DEF On
  <2>3. CASE p[n] = b
    <3>1. On(a, q)  BY <1>5, <2>3, BlockDominatesIs
    <3>2. q[n] = b /\ n \in DOMAIN q  BY <1>2, <1>4, <2>3 DEF Block
    <3>3. QED  BY <3>1, <3>2 DEF On
  <2>4. QED  BY <2>1, <2>2, <2>3
<1>7. PICK i \in 1 .. n, j \in 1 .. n : q[i] = a /\ q[j] = b  BY <1>6 DEF On
<1>8. k \in Nat /\ n \in 1 .. k  BY <1>2, <1>4 DEF Block
<1>9. i \in S /\ j \in S  BY <1>2, <1>7, <1>8
<1>10. i = n /\ j = n  BY <1>4, <1>7, <1>8, <1>9
<1>11. QED  BY <1>7, <1>10

-----------------------------------------------------------------------------
(* Dominance of instructions, also of the point past the end of a block. *)

Places == Block \X (1 .. BlockLen + 1)

\* An instruction is a place of its block; one more place is past the last.
LEMMA PointsArePlaces ==
  /\ Point \subseteq Places
  /\ \A s \in Point : s[1] \in Block /\ s[2] \in Nat /\ 1 <= s[2] /\ s[2] <= BlockLen
  /\ \A s \in Places : /\ s[1] \in Block /\ s[2] \in Nat /\ s = <<s[1], s[2]>>
                        /\ 1 <= s[2] /\ s[2] <= BlockLen + 1
BY Bounds DEF Point, Places

\* Dominance of instructions that can be reached is transitive.
LEMMA DominatesTransitive ==
  ASSUME NEW s \in Point, NEW t \in Point, NEW u \in Point, Reachable(u[1]),
         dominates(s, t), dominates(t, u)
  PROVE  dominates(s, u)
<1>1. /\ s[1] \in Block /\ t[1] \in Block /\ u[1] \in Block
      /\ s[2] \in Nat /\ t[2] \in Nat /\ u[2] \in Nat
  BY PointsArePlaces
<1>2. CASE s[1] = t[1] /\ t[1] = u[1]  BY <1>1, <1>2 DEF dominates
<1>3. CASE s[1] = t[1] /\ t[1] # u[1]  BY <1>1, <1>3 DEF dominates
<1>4. CASE s[1] # t[1] /\ t[1] = u[1]  BY <1>1, <1>4 DEF dominates
<1>5. CASE s[1] # t[1] /\ t[1] # u[1]
  <2>1. BlockDominates[<<s[1], t[1]>>] /\ BlockDominates[<<t[1], u[1]>>]
    BY <1>5 DEF dominates
  <2>2. s[1] # u[1]  BY <1>1, <1>5, <2>1, BlockAntisymmetric
  <2>3. BlockDominates[<<s[1], u[1]>>]  BY <1>1, <2>1, BlockTransitive
  <2>4. QED  BY <2>2, <2>3 DEF dominates
<1>6. QED  BY <1>2, <1>3, <1>4, <1>5

\* What dominates the next instruction: what dominated this one, and this one.
LEMMA DominatesNext ==
  ASSUME NEW s \in Point, NEW t \in Point, dominates(s, <<t[1], t[2] + 1>>)
  PROVE  s = t \/ dominates(s, t)
<1>1. /\ s[1] \in Block /\ s[2] \in Nat /\ s = <<s[1], s[2]>>
      /\ t[1] \in Block /\ t[2] \in Nat /\ t = <<t[1], t[2]>>
  BY PointsArePlaces
<1>2. CASE s[1] = t[1]
  <2>1. s[2] < t[2] + 1  BY <1>2 DEF dominates
  <2>2. s[2] = t[2] \/ s[2] < t[2]  BY <1>1, <2>1
  <2>3. QED  BY <1>1, <1>2, <2>2 DEF dominates
<1>3. CASE s[1] # t[1]  BY <1>3 DEF dominates
<1>4. QED  BY <1>2, <1>3

\* What dominates the first instruction of a block dominates the end of the
\* block that control comes from.
LEMMA DominatesBranch ==
  ASSUME NEW s \in Point, NEW t \in Places, t[2] = BlockLen + 1,
         NEW c \in Block, c \in Succ[t[1]], dominates(s, <<c, 1>>)
  PROVE  dominates(s, t)
<1>1. /\ s[1] \in Block /\ s[2] \in Nat /\ 1 <= s[2] /\ s[2] <= BlockLen /\ t[1] \in Block
  BY PointsArePlaces
<1>2. s[1] # c  BY <1>1 DEF dominates
<1>3. BlockDominates[<<s[1], t[1]>>]
  <2>1. BlockDominates[<<s[1], c>>]  BY <1>2 DEF dominates
  <2>2. QED  BY <1>1, <1>2, <2>1, EdgeDominance
<1>4. s[2] < t[2]  BY <1>1, Bounds
<1>5. QED  BY <1>3, <1>4 DEF dominates

\* Nothing dominates the first instruction of the entry block.
LEMMA DominatesEntry ==
  ASSUME NEW s \in Point  PROVE ~dominates(s, <<1, 1>>)
<1>1. s[1] \in Block /\ s[2] \in Nat /\ 1 <= s[2]  BY PointsArePlaces
<1>2. CASE s[1] = 1  BY <1>1, <1>2 DEF dominates
<1>3. CASE s[1] # 1  BY <1>1, <1>3, EntryDominance DEF dominates
<1>4. QED  BY <1>2, <1>3

-----------------------------------------------------------------------------
(* The optimizations.  What they promise is promised of functions in which no window
   begins, and of positive offsets only if the hooks are merged. *)

Promised ==
  /\ prog.option # "none" /\ OneWindow
  /\ prog.option = "aggregate" => \A s \in Point : IsStore(s) => prog.code[s].off > 0

Off(s) == prog.code[s].off

\* All stores are selected.
LEMMA AllStoresSelected ==
  ASSUME TypeInv, OneWindow  PROVE referencingInstructions = {s \in Point : IsStore(s)}
<1>1. ASSUME NEW s \in Point, InTransaction(s)  PROVE FALSE
  <2>1. PICK i \in 1 .. s[2] - 1 : prog.code[<<s[1], i>>] = [op |-> "tol", type |-> "TSX"]
    BY <1>1 DEF InTransaction
  <2>2. <<s[1], i>> \in Point  BY Bounds DEF Point
  <2>3. QED  BY <2>1, <2>2 DEF OneWindow
<1>2. QED  BY <1>1 DEF referencingInstructions

\* The word that a store writes is a number.
LEMMA OffsetIsNumber ==
  ASSUME TypeInv, NEW s \in Point, IsStore(s)  PROVE Off(s) \in Nat
<1>1. prog.code[s] \in Instr /\ prog.code[s].op = "store"  BY Code DEF IsStore
<1>2. prog.code[s] \in [op : {"store"}, off : Words]  BY <1>1 DEF Instr
<1>3. QED  BY <1>2, StoreHooksAssumption DEF Off

\* The range that instrumentRange is given covers the words of the chain.
LEMMA RangeCovers ==
  ASSUME TypeInv, NEW c \in Seq(Point), Len(c) > 0,
         \A i \in 1 .. Len(c) : Off(c[i]) \in Nat /\ Off(c[i]) > 0
  PROVE  Offsets(c) \subseteq RangeHook(c)
<1> DEFINE S == Offsets(c)
           f == [i \in 1 .. Len(c) |-> Off(c[i])]
<1>1. Len(c) \in Nat /\ DOMAIN c = 1 .. Len(c)  OBVIOUS
<1>2. S = {Off(c[i]) : i \in 1 .. Len(c)}  BY <1>1 DEF Offsets, Off
<1>3. S \subseteq Nat /\ \A x \in S : x > 0  BY <1>2
<1>4. S # {}  BY <1>1, <1>2
<1>5. IsFiniteSet(S)
  <2>1. IsFiniteSet(1 .. Len(c))  BY <1>1, FS_Interval
  <2>2. f \in Surjection(1 .. Len(c), S)  BY <1>2 DEF Surjection
  <2> HIDE DEF f, S
  <2>3. QED  BY <2>1, <2>2, FS_Surjection
<1> HIDE DEF S
<1>6. Min(S) \in S /\ \A y \in S : Min(S) <= y
  <2>1. \E x \in S : \A y \in S : x <= y  BY <1>3, <1>4, LeastElement
  <2>2. QED  BY <2>1 DEF Min
<1>7. Max(S) \in S /\ \A y \in S : y <= Max(S)
  <2>1. PICK x \in S : \A y \in S : y <= x  BY <1>3, <1>4, <1>5, GreatestElement
  <2>2. \A y \in S : x >= y  BY <1>3, <2>1
  <2>3. Max(S) \in S /\ \A y \in S : Max(S) >= y  BY <2>2 DEF Max
  <2>4. QED  BY <1>3, <2>3
<1>8. ASSUME NEW y \in S  PROVE y \in Min(S) .. (Min(S) + Max(S) - 1)
  <2>1. y \in Nat /\ Min(S) \in Nat /\ Max(S) \in Nat /\ Min(S) > 0  BY <1>3, <1>6, <1>7
  <2>2. Min(S) <= y /\ y <= Max(S)  BY <1>6, <1>7
  <2>3. QED  BY <2>1, <2>2
<1>9. QED  BY <1>8 DEF RangeHook, S

-----------------------------------------------------------------------------
(* aggregateStores. *)

\* s is t or dominates it, if t can be reached at all.
Leads(s, t) == s = t \/ dominates(s, t) \/ ~Reachable(t[1])

\* A chain of stores: its first one, whose hook covers the chain, leads to every other.
IsChain(c) ==
  /\ c \in Seq(Point) /\ Len(c) > 0
  /\ \A j \in 1 .. Len(c) : IsStore(c[j]) /\ Leads(c[1], c[j])

\* A store on its own is a chain.
LEMMA NewChain ==
  ASSUME NEW s \in Point, IsStore(s)  PROVE IsChain(<<s>>) /\ Contains(<<s>>, s)
BY DEF IsChain, Leads, Contains

\* A store that the leader dominates joins the chain at its end.
LEMMA ChainAppend ==
  ASSUME NEW c, IsChain(c), NEW s \in Point, IsStore(s), dominates(c[1], s)
  PROVE  /\ IsChain(Append(c, s)) /\ Contains(Append(c, s), s)
         /\ \A t : Contains(c, t) => Contains(Append(c, s), t)
<1> DEFINE d == Append(c, s)
<1>1. c \in Seq(Point) /\ Len(c) \in Nat /\ Len(c) > 0  BY DEF IsChain
<1>2. /\ d \in Seq(Point) /\ Len(d) = Len(c) + 1 /\ d[Len(c) + 1] = s
      /\ \A j \in 1 .. Len(c) : d[j] = c[j]
  BY <1>1
<1> HIDE DEF d
<1>3. d[1] = c[1]  BY <1>1, <1>2
<1>4. \A j \in 1 .. Len(d) : j \in 1 .. Len(c) \/ j = Len(c) + 1  BY <1>1, <1>2
<1>5. \A j \in 1 .. Len(d) : IsStore(d[j]) /\ Leads(d[1], d[j])
  BY <1>2, <1>3, <1>4 DEF IsChain, Leads
<1>6. IsChain(d)  BY <1>1, <1>2, <1>5 DEF IsChain
<1>7. Contains(d, s) /\ \A t : Contains(c, t) => Contains(d, t)
  BY <1>1, <1>2 DEF Contains
<1>8. QED  BY <1>6, <1>7 DEF d

\* A store that dominates the leader becomes the leader.
LEMMA ChainPrepend ==
  ASSUME NEW c, IsChain(c), NEW s \in Point, IsStore(s), dominates(s, c[1])
  PROVE  /\ IsChain(<<s>> \o c) /\ Contains(<<s>> \o c, s)
         /\ \A t : Contains(c, t) => Contains(<<s>> \o c, t)
<1> DEFINE d == <<s>> \o c
<1>1. c \in Seq(Point) /\ Len(c) \in Nat /\ Len(c) > 0  BY DEF IsChain
<1>2. /\ d \in Seq(Point) /\ Len(d) = Len(c) + 1 /\ d[1] = s
      /\ \A j \in 1 .. Len(c) : d[j + 1] = c[j]
  BY <1>1
<1> HIDE DEF d
<1>3. ASSUME NEW j \in 1 .. Len(d)  PROVE IsStore(d[j]) /\ Leads(d[1], d[j])
  <2>1. CASE j = 1  BY <1>2, <2>1 DEF Leads
  <2>2. CASE j # 1
    <3>1. j - 1 \in 1 .. Len(c) /\ d[j] = c[j - 1]
      <4>1. j - 1 \in 1 .. Len(c) /\ (j - 1) + 1 = j  BY <1>1, <1>2, <2>2
      <4>2. QED  BY <1>2, <4>1
    <3>2. IsStore(c[j - 1]) /\ Leads(c[1], c[j - 1])  BY <3>1 DEF IsChain
    <3>3. c[1] \in Point /\ c[j - 1] \in Point  BY <1>1, <3>1
    <3>4. CASE ~Reachable(c[j - 1][1])  BY <1>2, <3>1, <3>2, <3>4 DEF Leads
    <3>5. CASE c[1] = c[j - 1]  BY <1>2, <3>1, <3>2, <3>5 DEF Leads
    <3>6. CASE dominates(c[1], c[j - 1]) /\ Reachable(c[j - 1][1])
      <4>1. dominates(s, c[j - 1])  BY <3>3, <3>6, DominatesTransitive
      <4>2. QED  BY <1>2, <3>1, <3>2, <4>1 DEF Leads
    <3>7. QED  BY <3>2, <3>4, <3>5, <3>6, Zenon DEF Leads
  <2>3. QED  BY <2>1, <2>2
<1>4. IsChain(d)  BY <1>1, <1>2, <1>3 DEF IsChain
<1>5. Contains(d, s)  BY <1>1, <1>2 DEF Contains
<1>6. ASSUME NEW t, Contains(c, t)  PROVE Contains(d, t)
  <2>1. PICK j \in 1 .. Len(c) : c[j] = t  BY <1>6 DEF Contains
  <2>2. j + 1 \in 1 .. Len(d) /\ d[j + 1] = t  BY <1>1, <1>2, <2>1
  <2>3. QED  BY <2>2 DEF Contains
<1>7. QED  BY <1>4, <1>5, <1>6 DEF d

\* The chains, and the stores that are in none yet.
ChainInv ==
  /\ pc = "compile" => chains = <<>>
  /\ pc = "aggregate" =>
       /\ todo \subseteq {s \in Point : IsStore(s)}
       /\ chains \in Seq(Seq(Point))
       /\ \A i \in DOMAIN chains : IsChain(chains[i])
       /\ \A s \in Point :
            IsStore(s) => s \in todo \/ \E i \in DOMAIN chains : Contains(chains[i], s)

\* What addStore does to the chains: a new one, or a store more in one of them.
LEMMA AddStore ==
  ASSUME chains \in Seq(Seq(Point)), \A i \in DOMAIN chains : IsChain(chains[i]),
         NEW s \in Point, IsStore(s), addStore(s)
  PROVE  /\ chains' \in Seq(Seq(Point))
         /\ \A i \in DOMAIN chains' : IsChain(chains'[i])
         /\ \E i \in DOMAIN chains' : Contains(chains'[i], s)
         /\ \A i \in DOMAIN chains : \A t : Contains(chains[i], t) =>
              i \in DOMAIN chains' /\ Contains(chains'[i], t)
<1> DEFINE Related(i) == dominates(chains[i][1], s) \/ dominates(s, chains[i][1])
           first == CHOOSE i \in DOMAIN chains : Related(i) /\ \A j \in 1 .. i - 1 : ~Related(j)
<1>1. Len(chains) \in Nat /\ DOMAIN chains = 1 .. Len(chains)  OBVIOUS
<1>2. CASE \A i \in DOMAIN chains : ~Related(i)
  <2>1. chains' = Append(chains, <<s>>)  BY <1>2 DEF addStore
  <2>2. <<s>> \in Seq(Point)  OBVIOUS
  <2>3. /\ chains' \in Seq(Seq(Point)) /\ DOMAIN chains' = 1 .. Len(chains) + 1
        /\ chains'[Len(chains) + 1] = <<s>>
        /\ \A i \in 1 .. Len(chains) : chains'[i] = chains[i]
    BY <1>1, <2>1, <2>2
  <2>4. \A i \in DOMAIN chains' : i \in 1 .. Len(chains) \/ i = Len(chains) + 1
    BY <1>1, <2>3
  <2>5. IsChain(<<s>>) /\ Contains(<<s>>, s)  BY NewChain
  <2>6. \A i \in DOMAIN chains' : IsChain(chains'[i])  BY <1>1, <2>3, <2>4, <2>5
  <2>7. Len(chains) + 1 \in DOMAIN chains' /\ 1 .. Len(chains) \subseteq DOMAIN chains'
    BY <1>1, <2>3
  <2>8. QED  BY <1>1, <2>3, <2>5, <2>6, <2>7
<1>3. CASE ~(\A i \in DOMAIN chains : ~Related(i))
  <2>1. first \in DOMAIN chains /\ Related(first)
    <3> DEFINE S == {i \in DOMAIN chains : Related(i)}
    <3>1. S \subseteq Nat /\ S # {}  BY <1>1, <1>3
    <3> HIDE DEF S
    <3>2. PICK n \in S : \A m \in S : n <= m  BY <3>1, LeastElement
    <3>3. n \in DOMAIN chains /\ Related(n)  BY <3>2 DEF S
    <3>4. ASSUME NEW j \in 1 .. n - 1, Related(j)  PROVE FALSE
      <4>1. j \in DOMAIN chains /\ j \in Nat /\ n \in Nat /\ j < n  BY <1>1, <3>3
      <4>2. j \in S  BY <3>4, <4>1 DEF S
      <4>3. QED  BY <3>2, <4>1, <4>2
    <3> HIDE DEF Related
    <3>5. \E i \in DOMAIN chains : Related(i) /\ \A j \in 1 .. i - 1 : ~Related(j)
      BY <3>3, <3>4
    <3>6. QED  BY <3>5
  <2> DEFINE c == chains[first]
             d == IF dominates(c[1], s) THEN Append(c, s) ELSE <<s>> \o c
  <2>2. chains' = [chains EXCEPT ![first] = d]  BY <1>3 DEF addStore
  <2> HIDE DEF first
  <2>3. IsChain(c)  BY <2>1
  <2>4. /\ IsChain(d) /\ Contains(d, s)
        /\ \A t : Contains(c, t) => Contains(d, t)
    <3> HIDE DEF c
    <3>1. CASE dominates(c[1], s)  BY <2>3, <3>1, ChainAppend
    <3>2. CASE ~dominates(c[1], s)
      <4>1. dominates(s, c[1])  BY <2>1, <3>2 DEF c
      <4>2. QED  BY <2>3, <3>2, <4>1, ChainPrepend
    <3>3. QED  BY <3>1, <3>2
  <2> HIDE DEF d, Related
  <2>5. d \in Seq(Point)  BY <2>4 DEF IsChain
  <2>6. /\ chains' \in Seq(Seq(Point)) /\ DOMAIN chains' = DOMAIN chains
        /\ chains'[first] = d
        /\ \A i \in DOMAIN chains : i # first => chains'[i] = chains[i]
    BY <1>1, <2>1, <2>2, <2>5
  <2>7. \A i \in DOMAIN chains' : IsChain(chains'[i])  BY <2>4, <2>6
  <2>8. \E i \in DOMAIN chains' : Contains(chains'[i], s)  BY <2>1, <2>4, <2>6
  <2>9. ASSUME NEW i \in DOMAIN chains, NEW t, Contains(chains[i], t)
        PROVE  i \in DOMAIN chains' /\ Contains(chains'[i], t)
    <3>1. CASE i = first  BY <2>4, <2>6, <2>9, <3>1
    <3>2. CASE i # first  BY <2>6, <2>9, <3>2
    <3>3. QED  BY <3>1, <3>2
  <2>10. QED  BY <2>6, <2>7, <2>8, <2>9
<1>4. QED  BY <1>2, <1>3

\* Nothing of this depends on anything but the function.
LEMMA SameProgram ==
  ASSUME UNCHANGED prog
  PROVE  /\ \A s : IsStore(s)' <=> IsStore(s)
         /\ \A c : IsChain(c)' <=> IsChain(c)
         /\ Promised' <=> Promised
         /\ OneWindow' <=> OneWindow
BY DEF IsStore, IsChain, Promised, OneWindow

\* aggregate keeps chains that a leader covers, and every store that is done in one.
LEMMA ChainStep == Promised /\ TypeInv /\ ChainInv /\ [Next]_vars => ChainInv'
<1> SUFFICES ASSUME Promised, TypeInv, ChainInv, [Next]_vars PROVE ChainInv'  OBVIOUS
<1>1. CASE onFunction
  <2>1. referencingInstructions = {s \in Point : IsStore(s)}
    BY AllStoresSelected DEF Promised
  <2>2. UNCHANGED prog /\ chains' = <<>> /\ pc' \in {"aggregate", "run"}
    BY <1>1 DEF onFunction, ChainInv
  <2>3. pc' = "aggregate" => todo' = {s \in Point : IsStore(s)}  BY <1>1, <2>1 DEF onFunction
  <2>4. \A s : IsStore(s)' <=> IsStore(s)  BY <2>2, SameProgram
  <2>5. chains' \in Seq(Seq(Point)) /\ DOMAIN chains' = {}  BY <2>2
  <2>6. QED  BY <2>2, <2>3, <2>4, <2>5 DEF ChainInv
<1>2. ASSUME NEW s \in Point, addStore(s)  PROVE ChainInv'
  <2>1. /\ pc = "aggregate" /\ pc' = pc /\ prog' = prog
        /\ s \in todo /\ todo' = todo \ {s}
    BY <1>2 DEF addStore
  <2>2. /\ \A t : IsStore(t)' <=> IsStore(t)
        /\ \A c : IsChain(c)' <=> IsChain(c)
    BY <2>1, SameProgram
  <2>3. IsStore(s)  BY <2>1 DEF ChainInv
  <2>4. /\ chains' \in Seq(Seq(Point))
        /\ \A i \in DOMAIN chains' : IsChain(chains'[i])
        /\ \E i \in DOMAIN chains' : Contains(chains'[i], s)
        /\ \A i \in DOMAIN chains : \A t : Contains(chains[i], t) =>
             i \in DOMAIN chains' /\ Contains(chains'[i], t)
    BY <1>2, <2>1, <2>3, AddStore DEF ChainInv
  <2>5. (\A i \in DOMAIN chains : IsChain(chains[i]))'
    BY <2>1, <2>4 DEF IsChain, IsStore
  <2>6. (todo \subseteq {t \in Point : IsStore(t)})'  BY <2>1, <2>2 DEF ChainInv
  <2>7. ASSUME NEW t \in Point, IsStore(t)
        PROVE  t \in todo' \/ \E i \in DOMAIN chains' : Contains(chains'[i], t)
    <3>1. CASE t = s  BY <2>4, <3>1
    <3>2. CASE t # s /\ t \in todo  BY <2>1, <3>2
    <3>3. CASE \E i \in DOMAIN chains : Contains(chains[i], t)  BY <2>4, <3>3
    <3>4. QED  BY <2>1, <2>7, <3>1, <3>2, <3>3 DEF ChainInv
  <2>8. (\A t \in Point :
           IsStore(t) => t \in todo \/ \E i \in DOMAIN chains : Contains(chains[i], t))'
    BY <2>2, <2>7 DEF Contains
  <2>9. QED  BY <2>1, <2>4, <2>5, <2>6, <2>8 DEF ChainInv
<1>3. ASSUME pc' \notin {"compile", "aggregate"}  PROVE ChainInv'  BY <1>3 DEF ChainInv
<1>4. CASE dump  BY <1>3, <1>4 DEF dump
<1>5. CASE Store  BY <1>3, <1>5 DEF Store, Running
<1>6. CASE top_of_the_loop  BY <1>3, <1>6 DEF top_of_the_loop, Running
<1>7. CASE Call  BY <1>3, <1>7 DEF Call, Running
<1>8. CASE Nop  BY <1>3, <1>8 DEF Nop, Running
<1>9. CASE Branch
  <2>1. pc' \in {"run", "done"}  BY <1>9 DEF Branch
  <2>2. QED  BY <1>3, <2>1
<1>10. CASE UNCHANGED vars  BY <1>10 DEF vars, ChainInv, IsChain, IsStore, Contains
<1>11. QED  BY <1>1, <1>2, <1>4, <1>5, <1>6, <1>7, <1>8, <1>9, <1>10 DEF Next

-----------------------------------------------------------------------------
(* The instrumented function. *)

\* Words that are saved once s has run, for sure.
Saves(s) == hooks[s] \cup (IF IsStore(s) THEN {Off(s)} ELSE {})

\* What the pass achieves: a store has its hook, or one that dominates it saves
\* its word.
Covered ==
  /\ \A s \in Point : ~IsStore(s) => hooks[s] = {}
  /\ \A t \in Point : (IsStore(t) /\ Reachable(t[1])) =>
       \/ Off(t) \in hooks[t]
       \/ \E s \in Point : dominates(s, t) /\ Off(t) \in Saves(s)

\* What holds at each instruction: all that dominates it has run.
Passed == \A s \in Point : dominates(s, at) => Saves(s) \subseteq saved

RunInv == pc = "run" => Covered /\ Passed /\ Reachable(at[1])

\* The word of the store that runs has been saved, or is by its own hook.
LEMMA CoveredStore ==
  ASSUME TypeInv, RunInv, Running("store")  PROVE Off(at) \in saved \cup hooks[at]
<1>1. at \in Point /\ IsStore(at) /\ pc = "run"  BY RunningPoint DEF IsStore
<1>2. Covered /\ Passed /\ Reachable(at[1])  BY <1>1 DEF RunInv
<1>3. CASE Off(at) \in hooks[at]  BY <1>3
<1>4. CASE \E s \in Point : dominates(s, at) /\ Off(at) \in Saves(s)
  BY <1>2, <1>4 DEF Passed
<1>5. QED  BY <1>1, <1>2, <1>3, <1>4 DEF Covered

\* The hooks of eliminateDoubleStores.
LEMMA DoubleStoresCovered ==
  ASSUME Promised, TypeInv, onFunction, pc' = "run"  PROVE Covered'
<1>1. referencingInstructions = {s \in Point : IsStore(s)}  BY AllStoresSelected DEF Promised
<1>2. prog' = prog /\ prog.option = "double_stores"
  <2>1. prog.option \in {"none", "double_stores", "aggregate"}
    BY StoreHooksAssumption DEF TypeInv
  <2>2. QED  BY <2>1 DEF onFunction, Promised
<1>3. hooks' = StoreHook(referencingInstructions \ DoubleStores)  BY <1>2 DEF onFunction
<1>4. \A s \in Point :
        hooks'[s] = IF s \in referencingInstructions \ DoubleStores THEN {Off(s)} ELSE {}
  BY <1>3 DEF StoreHook, Off
<1>5. ASSUME NEW s \in Point, ~IsStore(s)  PROVE hooks'[s] = {}  BY <1>1, <1>4, <1>5
<1>6. ASSUME NEW t \in Point, IsStore(t)
      PROVE  \/ Off(t) \in hooks'[t]
             \/ \E s \in Point : dominates(s, t) /\ IsStore(s) /\ Off(s) = Off(t)
  <2>1. CASE t \notin DoubleStores  BY <1>1, <1>4, <1>6, <2>1
  <2>2. CASE t \in DoubleStores
    <3>1. PICK s \in referencingInstructions : dominates(s, t) /\ Off(s) = Off(t)
      BY <2>2 DEF DoubleStores, Off
    <3>2. QED  BY <1>1, <3>1
  <2>3. QED  BY <2>1, <2>2
<1>7. QED  BY <1>2, <1>5, <1>6 DEF Covered, Saves, IsStore, Off

\* The hooks of aggregateStores.
LEMMA ChainsCovered ==
  ASSUME Promised, TypeInv, ChainInv, dump  PROVE Covered'
<1>1. /\ prog' = prog /\ pc = "aggregate" /\ todo = {} /\ prog.option = "aggregate"
  BY DEF dump, TypeInv
<1>2. /\ \A i \in DOMAIN chains : IsChain(chains[i])
      /\ \A t \in Point : IsStore(t) => \E i \in DOMAIN chains : Contains(chains[i], t)
  BY <1>1 DEF ChainInv
<1> DEFINE words(i) == IF Len(chains[i]) > 1 THEN RangeHook(chains[i]) ELSE Offsets(chains[i])
<1>3. \A s \in Point :
        hooks'[s] = UNION {words(i) : i \in {j \in DOMAIN chains : chains[j][1] = s}}
  BY DEF dump
<1>4. ASSUME NEW i \in DOMAIN chains  PROVE Offsets(chains[i]) \subseteq words(i)
  <2>1. IsChain(chains[i])  BY <1>2
  <2>2. chains[i] \in Seq(Point) /\ Len(chains[i]) > 0  BY <2>1 DEF IsChain
  <2>3. ASSUME NEW j \in 1 .. Len(chains[i])
        PROVE  Off(chains[i][j]) \in Nat /\ Off(chains[i][j]) > 0
    <3>1. chains[i][j] \in Point /\ IsStore(chains[i][j])  BY <2>1, <2>2 DEF IsChain
    <3>2. QED  BY <1>1, <3>1, OffsetIsNumber DEF Promised, Off
  <2>4. Offsets(chains[i]) \subseteq RangeHook(chains[i])  BY <2>2, <2>3, RangeCovers
  <2>5. QED  BY <2>4
<1> HIDE DEF words
<1>5. ASSUME NEW s \in Point, ~IsStore(s)  PROVE hooks'[s] = {}
  <2>1. \A j \in DOMAIN chains : chains[j][1] # s
    <3>1. ASSUME NEW j \in DOMAIN chains  PROVE IsStore(chains[j][1])
      <4>1. IsChain(chains[j])  BY <1>2
      <4>2. 1 \in 1 .. Len(chains[j])  BY <4>1 DEF IsChain
      <4>3. QED  BY <4>1, <4>2 DEF IsChain
    <3>2. QED  BY <1>5, <3>1
  <2>2. QED  BY <1>3, <2>1
<1>6. ASSUME NEW t \in Point, IsStore(t), Reachable(t[1])
      PROVE  \/ Off(t) \in hooks'[t]
             \/ \E s \in Point : dominates(s, t) /\ Off(t) \in hooks'[s]
  <2>1. PICK i \in DOMAIN chains : Contains(chains[i], t)  BY <1>2, <1>6
  <2>2. PICK j \in 1 .. Len(chains[i]) : chains[i][j] = t  BY <2>1 DEF Contains
  <2>3. IsChain(chains[i])  BY <1>2
  <2>4. chains[i] \in Seq(Point) /\ 1 \in 1 .. Len(chains[i]) /\ j \in DOMAIN chains[i]
    BY <2>3 DEF IsChain
  <2>5. chains[i][1] \in Point  BY <2>4
  <2>6. chains[i][1] = t \/ dominates(chains[i][1], t)  BY <1>6, <2>2, <2>3 DEF IsChain, Leads
  <2>7. Off(t) \in Offsets(chains[i])  BY <2>2, <2>4 DEF Offsets, Off
  <2>8. Off(t) \in hooks'[chains[i][1]]  BY <1>3, <1>4, <2>5, <2>7
  <2>9. QED  BY <2>5, <2>6, <2>8
<1>7. QED  BY <1>1, <1>5, <1>6 DEF Covered, Saves, IsStore, Off

\* At the entry of the function nothing has been passed.
LEMMA RunStart ==
  ASSUME at' = <<1, 1>>, Covered'  PROVE RunInv'
<1>1. Passed'  BY DominatesEntry DEF Passed
<1>2. Reachable(at[1])'  BY EntryDominance DEF Reachable
<1>3. QED  BY <1>1, <1>2 DEF RunInv

\* Every step keeps the words of the hooks passed among the saved ones.
LEMMA RunStep == Promised /\ TypeInv /\ ChainInv /\ RunInv /\ [Next]_vars => RunInv'
<1> SUFFICES ASSUME Promised, TypeInv, ChainInv, RunInv, [Next]_vars PROVE RunInv'  OBVIOUS
<1>1. CASE onFunction
  <2>1. at' = <<1, 1>>  BY <1>1 DEF onFunction, TypeInv
  <2>2. CASE pc' = "run"  BY <1>1, <2>1, <2>2, DoubleStoresCovered, RunStart
  <2>3. CASE pc' # "run"  BY <2>3 DEF RunInv
  <2>4. QED  BY <2>2, <2>3
<1>2. ASSUME NEW s \in Point, addStore(s)  PROVE RunInv'  BY <1>2 DEF addStore, RunInv
<1>3. CASE dump
  <2>1. at' = <<1, 1>>  BY <1>3 DEF dump, TypeInv
  <2>2. QED  BY <1>3, <2>1, ChainsCovered, RunStart
<1>4. ASSUME UNCHANGED <<prog, hooks>>, Covered  PROVE Covered'
  BY <1>4 DEF Covered, Saves, IsStore, Off
<1>5. ASSUME NEW op \in {"store", "nop"}, Running(op), NextPoint, UNCHANGED <<prog, hooks>>,
             saved \subseteq saved', Saves(at) \subseteq saved'
      PROVE  RunInv'
  <2>1. at \in Point /\ pc = "run" /\ at' = <<at[1], at[2] + 1>>
    BY <1>5, RunningPoint DEF NextPoint
  <2>2. Covered /\ Passed /\ Reachable(at[1])  BY <2>1 DEF RunInv
  <2>3. \A s \in Point : Saves(s)' = Saves(s)  BY <1>5 DEF Saves, IsStore, Off
  <2>4. ASSUME NEW s \in Point, dominates(s, at')  PROVE Saves(s) \subseteq saved'
    <3>1. s = at \/ dominates(s, at)  BY <2>1, <2>4, DominatesNext
    <3>2. QED  BY <1>5, <2>2, <3>1 DEF Passed
  <2>5. Passed'  BY <2>3, <2>4 DEF Passed, dominates
  <2>6. at'[1] = at[1]  BY <2>1
  <2>7. Reachable(at[1])'  BY <2>2, <2>6 DEF Reachable
  <2>8. QED  BY <1>4, <1>5, <2>2, <2>5, <2>7 DEF RunInv
<1>6. CASE Store
  <2>1. Running("store") /\ NextPoint /\ UNCHANGED <<prog, hooks>> /\ saved' = saved \cup hooks[at]
    BY <1>6 DEF Store
  <2>2. Off(at) \in saved \cup hooks[at]  BY <2>1, CoveredStore
  <2>3. saved \subseteq saved' /\ Saves(at) \subseteq saved'  BY <2>1, <2>2 DEF Saves
  <2>4. QED  BY <1>5, <2>1, <2>3
<1>7. CASE Nop
  <2>1. Running("nop") /\ NextPoint /\ UNCHANGED <<prog, hooks>> /\ saved' = saved
    BY <1>7 DEF Nop
  <2>2. at \in Point /\ pc = "run" /\ ~IsStore(at)  BY <2>1, RunningPoint DEF IsStore
  <2>3. Saves(at) = {}  BY <2>2 DEF RunInv, Covered, Saves
  <2>4. QED  BY <1>5, <2>1, <2>3
<1>8. CASE top_of_the_loop
  <2>1. at \in Point /\ prog.code[at].op = "tol"  BY <1>8, RunningPoint DEF top_of_the_loop
  <2>2. QED  BY <2>1 DEF Promised, OneWindow
<1>9. CASE Call
  <2>1. at \in Point /\ prog.code[at].op = "call"  BY <1>9, RunningPoint DEF Call
  <2>2. QED  BY <2>1 DEF Promised, OneWindow
<1>10. CASE Branch
  <2>1. /\ pc = "run" /\ at[2] = BlockLen + 1 /\ UNCHANGED <<prog, hooks, saved>>
    BY <1>10 DEF Branch
  <2>2. Covered /\ Passed /\ Reachable(at[1])  BY <2>1 DEF RunInv
  <2>3. PICK c \in Succ[at[1]] :
          IF c = 0 THEN pc' = "done" /\ UNCHANGED at ELSE at' = <<c, 1>> /\ UNCHANGED pc
    BY <1>10 DEF Branch
  <2>4. CASE c = 0  BY <2>3, <2>4 DEF RunInv
  <2>5. CASE c # 0
    <3>1. at \in Places /\ at[1] \in Block  BY DEF TypeInv, Places
    <3>2. c \in Block  BY <2>5, <3>1, StoreHooksAssumption
    <3>3. at' = <<c, 1>> /\ at'[1] = c  BY <2>3, <2>5
    <3>4. \A s \in Point : Saves(s)' = Saves(s)  BY <2>1 DEF Saves, IsStore, Off
    <3>5. ASSUME NEW s \in Point, dominates(s, at')  PROVE Saves(s) \subseteq saved
      <4>1. dominates(s, at)  BY <2>1, <3>1, <3>2, <3>3, <3>5, DominatesBranch
      <4>2. QED  BY <2>2, <4>1 DEF Passed
    <3>6. Passed'  BY <2>1, <3>4, <3>5 DEF Passed, dominates
    <3>7. Reachable(at'[1])  BY <2>2, <3>1, <3>2, <3>3, EdgeReachable
    <3>8. QED  BY <1>4, <2>1, <2>2, <3>6, <3>7 DEF RunInv, Reachable
  <2>6. QED  BY <2>4, <2>5
<1>11. CASE UNCHANGED vars
  BY <1>11 DEF vars, RunInv, Covered, Passed, Saves, IsStore, Off, Reachable, dominates
<1>12. QED  BY <1>1, <1>2, <1>3, <1>6, <1>7, <1>8, <1>9, <1>10, <1>11 DEF Next

OptInv == Promised => ChainInv /\ RunInv

(* Dropping the hook of a store that another store to the same word dominates, and merging
   the hooks of a chain of stores into one before the store that dominates them, leave every
   store logged along every path of every function without a window of its own; the second
   if no store is to the first word of the object (eliminateDoubleStores, aggregateStores). *)
THEOREM OptimizationsKeepStoresLogged == Spec => []OptimizedStoresLogged
<1>1. Init => OptInv  BY DEF Init, OptInv, ChainInv, RunInv
<1>2. ASSUME TypeInv, OptInv, [Next]_vars  PROVE OptInv'
  <2>1. prog' = prog
    BY <1>2 DEF Next, vars, onFunction, addStore, dump, Store, top_of_the_loop, Call, Nop, Branch
  <2>2. Promised' <=> Promised  BY <2>1, SameProgram
  <2>3. CASE Promised
    <3>1. ChainInv /\ RunInv  BY <1>2, <2>3 DEF OptInv
    <3>2. ChainInv' /\ RunInv'  BY <1>2, <2>3, <3>1, ChainStep, RunStep
    <3>3. QED  BY <3>2 DEF OptInv
  <2>4. CASE ~Promised  BY <2>2, <2>4 DEF OptInv
  <2>5. QED  BY <2>3, <2>4
<1>3. ASSUME TypeInv, OptInv, Promised  PROVE ~Unlogged
  <2>1. RunInv  BY <1>3 DEF OptInv
  <2>2. QED  BY <1>3, <2>1, CoveredStore DEF Unlogged, Off
<1>4. TypeInv /\ OptInv => OptimizedStoresLogged
  BY <1>3 DEF OptimizedStoresLogged, Promised
<1>5. QED  BY <1>1, <1>2, <1>4, Typed, PTL DEF Spec

=============================================================================
