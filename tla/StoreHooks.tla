------------------------------ MODULE StoreHooks ------------------------------
(***************************************************************************)
(* Which stores of a function get a hook: the ltckptbasic pass,            *)
(* llvm/passes/ltckpt/ltCkptPassBasic.cpp, with its options to drop the    *)
(* hooks of double stores and to merge the hooks of stores to one object.  *)
(*                                                                         *)
(* A function is a graph of basic blocks of instructions: a store to one   *)
(* of the 8-byte words of an object, a call of a top-of-the-loop hook, or  *)
(* a call of a function that runs one, or none.  The pass instruments the  *)
(* function, then it is executed along any path; a mechanism with store    *)
(* hooks has saved just the words its hooks were told of.                  *)
(***************************************************************************)
EXTENDS Integers, Sequences, FiniteSets, SequencesExt

CONSTANTS
  NumBlocks, BlockLen,  \* blocks of a function and instructions of a block
  Succ,                 \* successors of a block; block 1 is the entry, 0 the return
  Words,                \* words of the object the function stores to
  Programs              \* functions and options they are compiled with: [code, option]

Block == 1 .. NumBlocks
Point == Block \X (1 .. BlockLen)

Instr == [op : {"store"}, off : Words] \cup
         [op : {"tol", "call"}, type : {"LTCKPT", "TSX"}] \cup [op : {"nop"}]

ASSUME StoreHooksAssumption ==
  /\ NumBlocks \in Nat \ {0} /\ BlockLen \in Nat \ {0}
  /\ Words \subseteq Nat
  /\ Succ \in [Block -> SUBSET (Block \cup {0})]
  /\ \A b \in Block : 1 \notin Succ[b] /\ Succ[b] # {}
  /\ \A p \in Programs : /\ p.code \in [Point -> Instr]
                         /\ p.option \in {"none", "double_stores", "aggregate"}

\* Dominance: a block lies on each path from the entry.  A path without
\* repetition is enough.
Path(b) == {p \in UNION {[1 .. k -> Block] : k \in Block} :
              /\ p[1] = 1 /\ p[Len(p)] = b
              /\ \A i \in 1 .. Len(p) - 1 : p[i + 1] \in Succ[p[i]]}

BlockDominates ==
  [e \in Block \X Block |-> \A p \in Path(e[2]) : \E i \in DOMAIN p : p[i] = e[1]]

\* Mutated dominates: the order of blocks in the function decides.
dominatesByOrder(s, t) == s[1] < t[1] \/ (s[1] = t[1] /\ s[2] < t[2])

\* DominatorTree::dominates, for instructions.
dominates(s, t) ==
  IF s[1] = t[1] THEN s[2] < t[2] ELSE BlockDominates[<<s[1], t[1]>>]

-----------------------------------------------------------------------------
VARIABLES
  prog,       \* the function
  hooks,      \* of each point, the words the hook before it saves
  todo,       \* stores that aggregateStores has not seen yet
  chains,     \* the domination chains of the object
  pc,         \* "compile", "aggregate", "run", "done"
  at,         \* the next instruction
  window,     \* kind of the current window
  saved,      \* words saved in it
  callee      \* history: a function that was called began the window, after
              \*   a transaction began in the same block

vars == <<prog, hooks, todo, chains, pc, at, window, saved, callee>>

NoHooks == [s \in Point |-> {}]

Init ==
  /\ prog \in Programs
  /\ hooks = NoHooks /\ todo = {} /\ chains = <<>>
  /\ pc = "compile" /\ at = <<1, 1>>
  /\ window = "LTCKPT" /\ saved = {} /\ callee = FALSE

IsStore(s) == prog.code[s].op = "store"

\* Mutated InTransaction: instrumentStores is not set again by the hook of a
\* window with an undo log.
InTransactionSticky(s) ==
  \E i \in 1 .. s[2] - 1 :
    prog.code[<<s[1], i>>].op = "tol" /\ prog.code[<<s[1], i>>].type = "TSX"

\* instrumentStores is false: the last top-of-the-loop call before s in its
\* block begins a transaction.
InTransaction(s) ==
  \E i \in 1 .. s[2] - 1 :
    /\ prog.code[<<s[1], i>>] = [op |-> "tol", type |-> "TSX"]
    /\ \A j \in i + 1 .. s[2] - 1 : prog.code[<<s[1], j>>].op # "tol"

\* The stores that onFunction selects, less the double stores.
referencingInstructions == {s \in Point : IsStore(s) /\ ~InTransaction(s)}

DoubleStores ==
  {t \in referencingInstructions :
     \E s \in referencingInstructions :
        dominates(s, t) /\ prog.code[s].off = prog.code[t].off}

StoreHook(S) == [s \in Point |-> IF s \in S THEN {prog.code[s].off} ELSE {}]

\* LtCkptPassBasic::onFunction.
onFunction ==
  /\ pc = "compile"
  /\ IF prog.option = "aggregate"
       THEN todo' = referencingInstructions /\ pc' = "aggregate" /\ UNCHANGED hooks
       ELSE /\ hooks' = StoreHook(IF prog.option = "double_stores"
                                    THEN referencingInstructions \ DoubleStores
                                    ELSE referencingInstructions)
            /\ pc' = "run" /\ UNCHANGED todo
  /\ UNCHANGED <<prog, chains, at, window, saved, callee>>

\* ObjectStoreDomationMap::addStore, for the stores in any order (a set of
\* pointers): into the first chain whose leader dominates the store or is
\* dominated by it, or into a new one.
addStore(s) ==
  LET Related(i) == dominates(chains[i][1], s) \/ dominates(s, chains[i][1])
      first == CHOOSE i \in DOMAIN chains : Related(i) /\ \A j \in 1 .. i - 1 : ~Related(j)
  IN  /\ pc = "aggregate" /\ s \in todo
      /\ todo' = todo \ {s}
      /\ chains' = IF \A i \in DOMAIN chains : ~Related(i) THEN Append(chains, <<s>>)
                   ELSE [chains EXCEPT ![first] =
                           IF dominates(@[1], s) THEN Append(@, s) ELSE <<s>> \o @]
      /\ UNCHANGED <<prog, hooks, pc, at, window, saved, callee>>

Offsets(c) == {prog.code[c[i]].off : i \in DOMAIN c}

\* The words of the one hook of a chain: instrumentRange gets the smallest
\* offset, and the largest as the size.
RangeHook(c) == Min(Offsets(c)) .. (Min(Offsets(c)) + Max(Offsets(c)) - 1)

\* ObjectStoreDomationMap::dump and the end of aggregateStores: a chain of
\* several stores has a hook before its leader, the other stores have none.
dump ==
  /\ pc = "aggregate" /\ todo = {}
  /\ hooks' = [s \in Point |->
       UNION {IF Len(chains[i]) > 1 THEN RangeHook(chains[i]) ELSE Offsets(chains[i]) :
                i \in {j \in DOMAIN chains : chains[j][1] = s}}]
  /\ pc' = "run"
  /\ UNCHANGED <<prog, todo, chains, at, window, saved, callee>>

-----------------------------------------------------------------------------
(* The instrumented function runs. *)

Running(op) == pc = "run" /\ at[2] <= BlockLen /\ prog.code[at].op = op

NextPoint == at' = <<at[1], at[2] + 1>>

\* The hook, then the store.
Store ==
  /\ Running("store")
  /\ saved' = saved \cup hooks[at]
  /\ NextPoint
  /\ UNCHANGED <<prog, hooks, todo, chains, pc, window, callee>>

top_of_the_loop ==
  /\ Running("tol")
  /\ window' = prog.code[at].type
  /\ saved' = {} /\ callee' = FALSE
  /\ NextPoint
  /\ UNCHANGED <<prog, hooks, todo, chains, pc>>

\* A function that makes a library call begins a window.
Call ==
  /\ Running("call")
  /\ window' = prog.code[at].type
  /\ saved' = {} /\ callee' = InTransaction(at)
  /\ NextPoint
  /\ UNCHANGED <<prog, hooks, todo, chains, pc>>

Nop ==
  /\ Running("nop")
  /\ NextPoint
  /\ UNCHANGED <<prog, hooks, todo, chains, pc, window, saved, callee>>

Branch ==
  /\ pc = "run" /\ at[2] = BlockLen + 1
  /\ \E b \in Succ[at[1]] :
       IF b = 0 THEN pc' = "done" /\ UNCHANGED at
                ELSE at' = <<b, 1>> /\ UNCHANGED pc
  /\ callee' = FALSE
  /\ UNCHANGED <<prog, hooks, todo, chains, window, saved>>

Next == \/ onFunction \/ (\E s \in Point : addStore(s)) \/ dump
        \/ Store \/ top_of_the_loop \/ Call \/ Nop \/ Branch

Spec == Init /\ [][Next]_vars

-----------------------------------------------------------------------------
\* A store about to run without its word being saved, in a window that only
\* the undo log can roll back.
Unlogged ==
  /\ Running("store") /\ window = "LTCKPT"
  /\ prog.code[at].off \notin saved \cup hooks[at]

(* Without the options, a store in a logged window is logged, whatever windows came before
   and along any path; the one exception is a window that a called function began, in a
   block where a transaction began before (instrumentStores is decided per block by the
   hooks seen in it, ltCkptPassBasic.cpp:206-264). *)
StoresLogged == (prog.option = "none" /\ Unlogged) => callee

\* The window began before the function was called, and no other one begins in it.
OneWindow == \A s \in Point : prog.code[s].op \in {"store", "nop"}

(* Both optimizations leave each store logged on every path, if no window begins in between:
   dropping the hook of a store that another store to the same word dominates
   (eliminateDoubleStores), and merging the hooks of stores to one object into one before
   the store that dominates them, in whatever order they are visited (aggregateStores).
   The second only if the object's first word is not among those stored to: the range's
   size is the largest offset, not the distance to it (ltCkptPassBasic.cpp:104). *)
OptimizedStoresLogged ==
  (/\ prog.option # "none" /\ OneWindow
   /\ prog.option = "aggregate" => \A s \in Point : IsStore(s) => prog.code[s].off > 0)
  => ~Unlogged

=============================================================================
