----------------------------- MODULE CursorList -----------------------------
(***************************************************************************)
(* The doubly linked lists of utils/list.c as duplicate-free sequences of  *)
(* nodes, together with the one idiom the runtime builds on them: a cursor *)
(* that lives outside the loop (schedule.busy_iter, hook.it), already      *)
(* points at the NEXT node while the current one is being served, and has  *)
(* to be moved by whoever erases the node it points at.                    *)
(*                                                                         *)
(* A node is in at most one list, hence at most once in a sequence.  The   *)
(* links of an erased node are NULL (list.c:128), so that the successor of *)
(* a node that is in no list is NULL.                                      *)
(***************************************************************************)
EXTENDS Naturals, Sequences, SequencesExt

CONSTANT NULL      \* the null pointer

\* The position of node x in list q, 0 when it is not linked there.
Position(q, x) == SelectInSeq(q, LAMBDA y : y = x)

\* ev_list_begin
First(q) == IF q = <<>> THEN NULL ELSE q[1]

\* ev_list_next, for a node of q or an unlinked one
Successor(q, x) ==
    IF Position(q, x) \in 1 .. (Len(q) - 1)
    THEN q[Position(q, x) + 1]
    ELSE NULL

\* ev_list_erase
Erase(q, x) == RemoveFirst(q, x)

\* The fix every eraser applies to a foreign cursor `it` before it erases x.
SkipErased(q, it, x) == IF it = x THEN Successor(q, x) ELSE it

\* The nodes a loop with cursor `it` has still to visit if nobody interferes.
Ahead(q, it) ==
    {y \in ToSet(q) : \E i, j \in DOMAIN q : i <= j /\ q[i] = it /\ q[j] = y}
=============================================================================
