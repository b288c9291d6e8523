------------------------------- MODULE EvList -------------------------------
(***************************************************************************)
(* The intrusive doubly linked lists of utils/list.c, pointer by pointer.  *)
(* links holds the fields of all lists and nodes: a node has one pair of   *)
(* links, whichever list it is in.  order is a history variable: the       *)
(* sequence each list stands for, which is how CursorList and the modules  *)
(* above it see a list.                                                    *)
(*                                                                         *)
(* Clients respect the warnings of auto_api_list_t: an inserted node is in *)
(* no list, an erased one is in the list it is erased from.                *)
(***************************************************************************)
EXTENDS Naturals, Sequences

CONSTANTS NULL,
          Node,     \* addresses of auto_list_node_t
          List      \* addresses of auto_list_t

ASSUME NodeAssumption == NULL \notin Node

VARIABLES links, order

listVars == <<links, order>>

EmptyLists == [head |-> [l \in List |-> NULL], tail |-> [l \in List |-> NULL],
               size |-> [l \in List |-> 0],
               after |-> [n \in Node |-> NULL], before |-> [n \in Node |-> NULL]]

SetOnce(s, l, n) ==
    [s EXCEPT !.head[l] = n, !.tail[l] = n, !.size[l] = 1,
              !.after[n] = NULL, !.before[n] = NULL]

PushBack(s, l, n) ==
    IF s.head[l] = NULL THEN SetOnce(s, l, n)
    ELSE [s EXCEPT !.after = [@ EXCEPT ![n] = NULL, ![s.tail[l]] = n],
                   !.before[n] = s.tail[l], !.tail[l] = n, !.size[l] = @ + 1]

PushFront(s, l, n) ==
    IF s.head[l] = NULL THEN SetOnce(s, l, n)
    ELSE [s EXCEPT !.before = [@ EXCEPT ![n] = NULL, ![s.head[l]] = n],
                   !.after[n] = s.head[l], !.head[l] = n, !.size[l] = @ + 1]

InsertBefore(s, l, pos, n) ==
    IF s.head[l] = pos THEN PushFront(s, l, n)
    ELSE [s EXCEPT !.before = [@ EXCEPT ![n] = s.before[pos], ![pos] = n],
                   !.after = [@ EXCEPT ![n] = pos, ![s.before[pos]] = n],
                   !.size[l] = @ + 1]

InsertAfter(s, l, pos, n) ==
    IF s.tail[l] = pos THEN PushBack(s, l, n)
    ELSE [s EXCEPT !.after = [@ EXCEPT ![n] = s.after[pos], ![pos] = n],
                   !.before = [@ EXCEPT ![n] = pos, ![s.after[pos]] = n],
                   !.size[l] = @ + 1]

\* The four cases of ev_list_erase; the links of the node are cleared last.
Unchain(s, l, n) ==
    CASE s.head[l] = n /\ s.tail[l] = n ->
             [s EXCEPT !.head[l] = NULL, !.tail[l] = NULL]
      [] s.head[l] = n /\ s.tail[l] # n ->
             [s EXCEPT !.before[s.after[n]] = NULL, !.head[l] = s.after[n]]
      [] s.head[l] # n /\ s.tail[l] = n ->
             [s EXCEPT !.after[s.before[n]] = NULL, !.tail[l] = s.before[n]]
      [] OTHER ->
             [s EXCEPT !.after[s.before[n]] = s.after[n], !.before[s.after[n]] = s.before[n]]

\* Mutant of EraseLink: the links of the erased node stay as they are.
EraseKeepsLinks(s, l, n) == Unchain([s EXCEPT !.size[l] = @ - 1], l, n)

EraseLink(s, l, n) ==
    [Unchain([s EXCEPT !.size[l] = @ - 1], l, n) EXCEPT !.after[n] = NULL, !.before[n] = NULL]

PopFront(s, l) == IF s.head[l] = NULL THEN s ELSE EraseLink(s, l, s.head[l])
PopBack(s, l) == IF s.tail[l] = NULL THEN s ELSE EraseLink(s, l, s.tail[l])

Migrate(s, dst, src) ==
    IF s.head[src] = NULL THEN s
    ELSE LET moved == IF s.tail[dst] = NULL
                      THEN [s EXCEPT !.head[dst] = s.head[src], !.tail[dst] = s.tail[src],
                                     !.size[dst] = s.size[src]]
                      ELSE [s EXCEPT !.after[s.tail[dst]] = s.head[src],
                                     !.before[s.head[src]] = s.tail[dst],
                                     !.tail[dst] = s.tail[src],
                                     !.size[dst] = @ + s.size[src]]
         IN  [moved EXCEPT !.head[src] = NULL, !.tail[src] = NULL, !.size[src] = 0]
-----------------------------------------------------------------------------
In(l, n) == \E i \in DOMAIN order[l] : order[l][i] = n
Free(n) == \A l \in List : ~In(l, n)

\* q without its i-th element, q with n put at position i
Without(q, i) == SubSeq(q, 1, i - 1) \o SubSeq(q, i + 1, Len(q))
PutAt(q, i, n) == SubSeq(q, 1, i - 1) \o <<n>> \o SubSeq(q, i, Len(q))

ListInit == links = EmptyLists /\ order = [l \in List |-> <<>>]

CallPushBack(l, n) ==
    /\ Free(n)
    /\ links' = PushBack(links, l, n)
    /\ order' = [order EXCEPT ![l] = Append(@, n)]

CallPushFront(l, n) ==
    /\ Free(n)
    /\ links' = PushFront(links, l, n)
    /\ order' = [order EXCEPT ![l] = <<n>> \o @]

CallInsertBefore(l, i, n) ==
    /\ Free(n)
    /\ links' = InsertBefore(links, l, order[l][i], n)
    /\ order' = [order EXCEPT ![l] = PutAt(@, i, n)]

CallInsertAfter(l, i, n) ==
    /\ Free(n)
    /\ links' = InsertAfter(links, l, order[l][i], n)
    /\ order' = [order EXCEPT ![l] = PutAt(@, i + 1, n)]

CallErase(l, i) ==
    /\ links' = EraseLink(links, l, order[l][i])
    /\ order' = [order EXCEPT ![l] = Without(@, i)]

CallPopFront(l) ==
    /\ links' = PopFront(links, l)
    /\ order' = [order EXCEPT ![l] = IF @ = <<>> THEN @ ELSE Tail(@)]

CallPopBack(l) ==
    /\ links' = PopBack(links, l)
    /\ order' = [order EXCEPT ![l] = IF @ = <<>> THEN @ ELSE Without(@, Len(@))]

CallMigrate(dst, src) ==
    /\ dst # src
    /\ links' = Migrate(links, dst, src)
    /\ order' = [order EXCEPT ![dst] = @ \o order[src], ![src] = <<>>]

ListStep ==
    \E l \in List :
        \/ CallPopFront(l) \/ CallPopBack(l)
        \/ \E n \in Node : CallPushBack(l, n) \/ CallPushFront(l, n)
        \/ \E i \in DOMAIN order[l] : CallErase(l, i)
        \/ \E i \in DOMAIN order[l], n \in Node :
               CallInsertBefore(l, i, n) \/ CallInsertAfter(l, i, n)
        \/ \E src \in List : CallMigrate(l, src)

ListSpec == ListInit /\ [][ListStep]_listVars
-----------------------------------------------------------------------------
(***************************************************************************)
(* Properties.                                                             *)
(***************************************************************************)

\* What the fields of list l have to be for it to stand for the sequence q.
Spells(s, l, q) ==
    /\ s.size[l] = Len(q)
    /\ s.head[l] = IF q = <<>> THEN NULL ELSE q[1]
    /\ s.tail[l] = IF q = <<>> THEN NULL ELSE q[Len(q)]
    /\ \A i \in DOMAIN q :
          /\ s.after[q[i]] = IF i = Len(q) THEN NULL ELSE q[i + 1]
          /\ s.before[q[i]] = IF i = 1 THEN NULL ELSE q[i - 1]

\* Whatever sequence of calls went before, each list spells its sequence, both
\* ways and with its size; and the links of a node that is in no list are NULL,
\* which is what ends a loop that stands on a node somebody erased
\* (utils/list.c:127-129).
LinksSpellOrder ==
    /\ \A l \in List : Spells(links, l, order[l])
    /\ \A n \in Node : Free(n) => links.after[n] = NULL /\ links.before[n] = NULL
=============================================================================
