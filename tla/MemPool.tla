------------------------------- MODULE MemPool -------------------------------
(***************************************************************************)
(* common/mem_pool.h: a pool of blocks that are handed out and given back  *)
(* in any order.  opt_mem_pool.h is the same without its ASSERTs.          *)
(*                                                                         *)
(* A block is known by its index.  The pool keeps the index of the block   *)
(* it will hand out next and looks for that block one allocation early, at *)
(* the end of allocate.                                                    *)
(***************************************************************************)
EXTENDS Integers

CONSTANT NumElems  \* num_elems of the constructor

ASSUME NumElemsAssumption == NumElems \in Nat \ {0}

Blocks == 0 .. NumElems - 1

VARIABLES
  is_free_,          \* ObjectBlock::is_free_ of every block of store_
  next_free_index_,
  out_of_space       \* the ASSERT of updateNextFreeIndex has ended the process

poolVars == <<is_free_, next_free_index_, out_of_space>>

PoolInit ==
  /\ is_free_ = [b \in Blocks |-> TRUE]
  /\ next_free_index_ = 0
  /\ out_of_space = FALSE

-----------------------------------------------------------------------------
(* How far the search of updateNextFreeIndex goes from block i to block j. *)
steps(i, j) == IF i <= j THEN j - i ELSE j - i + NumElems

(* Mutant: the search does not start again at the front of the store. *)
Mut_updateNextFreeIndexNoWrap(free) ==
  LET later == { b \in Blocks : free[b] /\ b >= next_free_index_ } IN
  IF later = {}
  THEN out_of_space' = TRUE /\ UNCHANGED next_free_index_
  ELSE /\ next_free_index_' \in later
       /\ \A b \in later : next_free_index_' <= b
       /\ UNCHANGED out_of_space

(* updateNextFreeIndex over the blocks that are free now: the first one    *)
(* from next_free_index_ on, or the end of the process.                    *)
updateNextFreeIndex(free) ==
  IF \A b \in Blocks : ~free[b]
  THEN out_of_space' = TRUE /\ UNCHANGED next_free_index_
  ELSE /\ next_free_index_' \in { b \in Blocks : free[b] }
       /\ \A b \in Blocks : free[b] =>
            steps(next_free_index_, next_free_index_') <= steps(next_free_index_, b)
       /\ UNCHANGED out_of_space

(* allocate, which hands out next_free_index_ *)
allocate ==
  /\ ~out_of_space
  /\ is_free_' = [is_free_ EXCEPT ![next_free_index_] = FALSE]
  /\ updateNextFreeIndex(is_free_')

(* deallocate, of a block in use *)
deallocate(b) ==
  /\ ~out_of_space
  /\ ~is_free_[b]
  /\ is_free_' = [is_free_ EXCEPT ![b] = TRUE]
  /\ UNCHANGED <<next_free_index_, out_of_space>>

PoolNext == allocate \/ \E b \in Blocks : deallocate(b)

PoolSpec == PoolInit /\ [][PoolNext]_poolVars

-----------------------------------------------------------------------------
(* Properties *)

PoolTypeOK ==
  /\ is_free_ \in [Blocks -> BOOLEAN]
  /\ next_free_index_ \in Blocks
  /\ out_of_space \in BOOLEAN

(* However blocks come and go, the block allocate is about to hand out is  *)
(* not in use (the ASSERT at its start), and "Memory Pool out of space"    *)
(* ends the process only when every single block has been handed out.      *)
PoolExhaustedOnlyWhenFull ==
  IF out_of_space THEN \A b \in Blocks : ~is_free_[b] ELSE is_free_[next_free_index_]
=============================================================================
