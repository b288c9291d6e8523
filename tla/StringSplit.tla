---------------------------- MODULE StringSplit -----------------------------
(***************************************************************************)
(* auto.string_split (lua/string.c) on the match function of api/regex.c.  *)
(* A pattern is a sequence of alternatives, each of them a string; the     *)
(* empty string stands for a pattern that can match nothing, like "x*".    *)
(* Strings are sequences of characters, offsets 0-based.                   *)
(***************************************************************************)
EXTENDS Naturals, Sequences, SequencesExt

CONSTANTS Char, MaxLen, Pattern

ASSUME SplitAssumption == MaxLen \in Nat /\ Pattern \subseteq Seq(Seq(Char))

VARIABLES subject, pattern,
          offset,     \* helper.offset
          pieces,     \* the table that is returned
          returned    \* the call is over

splitVars == <<subject, pattern, offset, pieces, returned>>

\* pcre2_match: the leftmost match from an offset on, of the first alternative
\* that has one there; [from, to) or an empty set.
MatchesAt(i) ==
    {a \in DOMAIN pattern :
        /\ i + Len(pattern[a]) <= Len(subject)
        /\ SubSeq(subject, i + 1, i + Len(pattern[a])) = pattern[a]}
Starts == {i \in offset .. Len(subject) : MatchesAt(i) # {}}
Found == Starts # {}
From == CHOOSE i \in Starts : \A j \in Starts : i <= j
To == LET a == CHOOSE a \in MatchesAt(From) : \A b \in MatchesAt(From) : a <= b
      IN  From + Len(pattern[a])

Piece(from, to) == IF from < to THEN <<SubSeq(subject, from + 1, to)>> ELSE <<>>

SplitInit ==
    /\ subject \in SeqOf(Char, MaxLen) /\ pattern \in Pattern
    /\ offset = 0 /\ pieces = <<>> /\ returned = FALSE

\* Mutant of SplitAt: the offset is set to the start of the match.
SplitAtStart ==
    /\ ~returned /\ offset < Len(subject) /\ Found
    /\ pieces' = pieces \o Piece(offset, From)
    /\ offset' = From
    /\ UNCHANGED <<subject, pattern, returned>>

\* Mutant of SplitRest: the loop is over after any number of rounds.
SplitRestEarly ==
    /\ ~returned
    /\ pieces' = pieces \o Piece(offset, Len(subject))
    /\ returned' = TRUE
    /\ UNCHANGED <<subject, pattern, offset>>

\* A round of the loop, with _string_split_cb: empty pieces are skipped.
SplitAt ==
    /\ ~returned /\ offset < Len(subject) /\ Found
    /\ pieces' = pieces \o Piece(offset, From)
    /\ offset' = To
    /\ UNCHANGED <<subject, pattern, returned>>

\* Behind the loop: what is left after the last match.
SplitRest ==
    /\ ~returned
    /\ offset >= Len(subject) \/ ~Found
    /\ pieces' = pieces \o Piece(offset, Len(subject))
    /\ returned' = TRUE
    /\ UNCHANGED <<subject, pattern, offset>>

SplitStep == SplitAt \/ SplitRest

SplitSpec == SplitInit /\ [][SplitStep]_splitVars
-----------------------------------------------------------------------------
\* A part that is not empty and holds no match.
Indivisible(part) ==
    /\ part # <<>>
    /\ \A a \in DOMAIN pattern, i \in 1 .. Len(part) :
          LET end == i + Len(pattern[a]) - 1
          IN  end > Len(part) \/ SubSeq(part, i, end) # pattern[a]

\* The subject is split at "every position that match" (docs/string_split.md:13),
\* even though the search goes on behind each match and alternatives overlap.
PiecesIndivisible == \A k \in DOMAIN pieces : Indivisible(pieces[k])

\* A pattern that cannot match nothing lets the loop end, since each match then
\* moves the offset on (lua/string.c:31, 55).
SplitReturns == (\A a \in DOMAIN pattern : pattern[a] # <<>>) => <>returned
=============================================================================
