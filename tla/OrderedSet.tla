----------------------------- MODULE OrderedSet -----------------------------
(***************************************************************************)
(* What include/autodo.h (auto_api_map_t) promises of a map: a set of      *)
(* nodes no two of which have the same key.  answer is what the last call  *)
(* returned.                                                               *)
(***************************************************************************)
CONSTANTS Nil, MapNode, KeyOf(_)

VARIABLES members, answer

Holders(n) == {m \in members : KeyOf(m) = KeyOf(n)}

Init == members = {} /\ answer = Nil

\* A new node is inserted, or the one that has its key is returned.
Insert(n) ==
    \/ Holders(n) = {} /\ members' = members \cup {n} /\ answer' = Nil
    \/ Holders(n) = {answer'} /\ UNCHANGED members

\* The new node is in the map afterwards, the one that had its key is not.
Replace(n) ==
    /\ members' = (members \ Holders(n)) \cup {n}
    /\ answer' \in IF Holders(n) = {} THEN {Nil} ELSE Holders(n)

Erase(n) == n \in members /\ members' = members \ {n} /\ answer' = Nil

Next ==
    \/ \E n \in MapNode \ members : Insert(n) \/ Replace(n)
    \/ \E n \in members : Erase(n)

Spec == Init /\ [][Next]_<<members, answer>>
=============================================================================
