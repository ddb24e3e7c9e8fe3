------------------------------ MODULE MemPool ------------------------------
(***************************************************************************)
(* Common::MemPool (include/utils/containers/memory_pool.hpp): a store of  *)
(* blocks and the index of the block that the next allocation takes.       *)
(*                                                                         *)
(* An ASSERT that fails ends the process; ended tells which one.           *)
(***************************************************************************)
EXTENDS Integers

CONSTANT NumElems   \* store_.size()

VARIABLES is_free_,           \* of every block
          next_free_index_,
          live,               \* history: objects allocated and not deallocated
          ended               \* no; the ASSERT of allocate, deallocate or full

vars == <<is_free_, next_free_index_, live, ended>>

Blocks == 0 .. NumElems - 1

Init ==
  /\ is_free_ = [b \in Blocks |-> TRUE]
  /\ next_free_index_ = 0
  /\ live = {}
  /\ ended = "no"

\* The blocks that are passed on the way up from i to j, around the end.
Between(i, j) == {k \in Blocks : IF i < j THEN i < k /\ k < j ELSE i < k \/ k < j}

\* updateNextFreeIndex: the first free block after i, if there is one.
NextFree(f, i) == {j \in Blocks \ {i} : f[j] /\ \A k \in Between(i, j) : ~ f[k]}

\* The next block is taken and the one after it looked for: if there is none the
\* process ends before the object is handed out.
allocate ==
  /\ ended = "no"
  /\ is_free_[next_free_index_]
  /\ is_free_' = [is_free_ EXCEPT ![next_free_index_] = FALSE]
  /\ \/ /\ next_free_index_' \in NextFree(is_free_', next_free_index_)
        /\ live' = live \cup {next_free_index_}
        /\ UNCHANGED ended
     \/ /\ \A b \in Blocks : ~ is_free_'[b]
        /\ ended' = "full"
        /\ UNCHANGED <<next_free_index_, live>>

\* "Expected free ObjectBlock".
AllocateFails ==
  /\ ended = "no"
  /\ ~ is_free_[next_free_index_]
  /\ ended' = "allocate"
  /\ UNCHANGED <<is_free_, next_free_index_, live>>

\* next_free_index_ is left where it is.
deallocate(b) ==
  /\ ended = "no"
  /\ ~ is_free_[b]
  /\ is_free_' = [is_free_ EXCEPT ![b] = TRUE]
  /\ live' = live \ {b}
  /\ UNCHANGED <<next_free_index_, ended>>

\* The caller gives back a block that is free, or what is no block of the pool.
DeallocateFails ==
  /\ ended = "no"
  /\ ended' = "deallocate"
  /\ UNCHANGED <<is_free_, next_free_index_, live>>

Next ==
  \/ allocate \/ AllocateFails
  \/ \E b \in Blocks : deallocate(b)
  \/ DeallocateFails

Spec == Init /\ [][Next]_vars

-----------------------------------------------------------------------------
\* What the process relies on as long as it runs: the objects handed out are the
\* blocks in use, allocate() finds its block free, so that no object is built
\* over another, and there is room for all but one of NumElems objects: with the
\* last one the process ends.
PoolSound ==
  /\ ended # "allocate"
  /\ ended = "no" => /\ live = {b \in Blocks : ~ is_free_[b]}
                     /\ next_free_index_ \in Blocks \ live
  /\ ended = "full" => \A b \in Blocks : ~ is_free_[b]
=============================================================================
