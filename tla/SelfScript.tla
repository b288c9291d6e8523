----------------------------- MODULE SelfScript -----------------------------
(***************************************************************************)
(* The script an executable carries behind its own code (utils.c), and the *)
(* start of the program that looks for it (runtime.c, main.c).             *)
(*                                                                         *)
(* A compiled executable is the code, the probe and the script, in this    *)
(* order.  At its start the program searches its own file for the probe    *)
(* with the Boyer-Moore search of utils.c; what follows is the script.     *)
(* Files are sequences of bytes; offsets are 0-based as in the code.       *)
(***************************************************************************)
EXTENDS Integers, Sequences, SequencesExt

CONSTANTS NoScript,  \* no script is carried
          Byte,      \* byte values that occur
          Unit,      \* the 16 bytes the probe repeats
          Repeats,   \* how often it does
          Code,      \* executables a build produces
          Script,    \* dumped scripts
          SearchKey  \* keys the search is compared with its reference for

Rotated(s, m) == SubSeq(s, m + 1, Len(s)) \o SubSeq(s, 1, m)

\* The unit does not repeat a shorter one: no rotation leaves it as it is.  Its
\* ends may agree, as those of 0, 128, "=AUTOMATION=", 128, 0 do.
ASSUME UnitAssumption ==
    /\ Unit \in Seq(Byte) /\ Unit # <<>>
    /\ \A m \in 1 .. Len(Unit) - 1 : Rotated(Unit, m) # Unit
    /\ Repeats \in Nat /\ Repeats >= 2

\* auto_init_probe: the first bytes, copied over the rest.
Probe == [i \in 1 .. Repeats * Len(Unit) |-> Unit[((i - 1) % Len(Unit)) + 1]]

Occurrences(data, key) ==
    {i \in 0 .. Len(data) - Len(key) : SubSeq(data, i + 1, i + Len(key)) = key}

\* The code holds no probe: auto_init_probe builds it at run time.  Nor does it
\* end in the start of one, as far as a unit; a zero at its end does no harm.
ASSUME CodeAssumption ==
    \A c \in Code :
        /\ c \in Seq(Byte) /\ c # <<>>
        /\ Occurrences(c, Probe) = {}
        /\ \A m \in Len(Unit) .. Len(Probe) - 1 : ~IsSuffix(SubSeq(Probe, 1, m), c)

ASSUME BytesAssumption == Script \subseteq Seq(Byte) /\ SearchKey \subseteq Seq(Byte) \ {<<>>}

VARIABLES program,   \* the bytes of the executable
          carried,   \* history: the script compiled into it, or NoScript
          outcome    \* how the last start of it went on

selfVars == <<program, carried, outcome>>
-----------------------------------------------------------------------------
(***************************************************************************)
(* aeda_find.                                                              *)
(***************************************************************************)
LeastOf(S) == CHOOSE x \in S : \A y \in S : x <= y
GreatestOf(S) == CHOOSE x \in S : \A y \in S : x >= y

\* _BINARY_BM_PreBmBc: how far a byte is from the end of the key.
BadChar(key) ==
    [c \in Byte |->
        LET at == {i \in 1 .. Len(key) - 1 : key[i] = c}
        IN  IF at = {} THEN Len(key) ELSE Len(key) - GreatestOf(at)]

IsPrefixAt(key, pos) == \A i \in 1 .. Len(key) - pos : key[i] = key[pos + i]

\* The longest suffix of the key that also ends at p, p itself at most.
SuffixLength(key, p) ==
    LeastOf({i \in 0 .. p : i = p \/ key[p - i + 1] # key[Len(key) - i]})

\* Mutant of GoodSuffix: the prefixes of the key are not looked for.
GoodSuffixGreedy(key) == [j \in 0 .. Len(key) - 1 |-> 2 * Len(key) - 1 - j]

\* _BINARY_BM_PreFSM: the first loop, then the writes of the second, of which
\* the last one to a place stays.
GoodSuffix(key) ==
    LET n == Len(key)
        nextPrefix(p) == LeastOf({q \in p + 1 .. n : IsPrefixAt(key, q)})
        writers(j) == {p \in 0 .. n - 2 : /\ SuffixLength(key, p) = n - 1 - j
                                          /\ key[p - (n - 1 - j) + 1] # key[j + 1]}
    IN  [j \in 0 .. n - 1 |->
            IF writers(j) = {} THEN (n - 1 - j) + nextPrefix(j)
            ELSE (n - 1 - GreatestOf(writers(j))) + (n - 1 - j)]

\* The inner loop: how many bytes agree, from the end of the window at i.
Agreeing(data, key, i) ==
    LET n == Len(key)
    IN  LeastOf({m \in 0 .. n : m = n \/ data[i - m + 1] # key[n - m]})

\* The search loop.  from[r] is what it returns once the window ends r bytes
\* before the end of the data; behind the end the loop is over.
FindFrom(data, key) ==
    LET n == Len(key)
        bc == BadChar(key)
        fsm == GoodSuffix(key)
        skip(i, k) == GreatestOf({bc[data[i - k + 1]], fsm[n - 1 - k]})
        from[r \in 1 .. Len(data) - (n - 1)] ==
            LET i == Len(data) - r
                k == Agreeing(data, key, i)
            IN  IF k = n THEN i - n + 1
                ELSE IF skip(i, k) - k < r THEN from[r - (skip(i, k) - k)] ELSE -1
    IN  from

Find(data, key) ==
    IF data = <<>> \/ key = <<>> \/ Len(key) > Len(data) THEN -1
    ELSE FindFrom(data, key)[Len(data) - (Len(key) - 1)]
-----------------------------------------------------------------------------
(***************************************************************************)
(* The executable.                                                         *)
(***************************************************************************)

\* atd_read_self_script; a file that cannot be read ends the program instead.
SelfScript(file) ==
    LET at == Find(file, Probe)
    IN  IF at < 0 THEN NoScript ELSE SubSeq(file, at + Len(Probe) + 1, Len(file))

\* Mutant of SelfCode: a script that is carried already stays.
SelfCodeWhole(file) == file

\* atd_read_self_exec: the file up to the probe.
SelfCode(file) ==
    LET at == Find(file, Probe) IN IF at > 0 THEN SubSeq(file, 1, at) ELSE file

\* Command lines: "help" is -h or --help, the others are names of files.
Arguments == SeqOf({"help", "file", "missing"}, 2)

SelfInit == program \in Code /\ carried = NoScript /\ outcome = "none"

\* atd_compile_script; the file it writes is the program from now on.
Compile(s) ==
    /\ program' = SelfCode(program) \o Probe \o s
    /\ carried' = s
    /\ UNCHANGED outcome

\* The arguments are looked at only when no script is carried: -h ends the
\* program, and so does the lack of a script; the last argument is its name.
\* A file that is missing, or empty (atd_readfile), is an error.
Chosen(args) ==
    CASE SelfScript(program) # NoScript -> "self"
      [] SelfScript(program) = NoScript /\ (args = <<>> \/ "help" \in ToSet(args)) -> "usage"
      [] OTHER -> IF Last(args) = "missing" THEN "error" ELSE "file"

Start(args) ==
    /\ outcome' = Chosen(args)
    /\ UNCHANGED <<program, carried>>

SelfStep ==
    \/ \E s \in Script : Compile(s)
    \/ \E args \in Arguments : Start(args)

SelfSpec == SelfInit /\ [][SelfStep]_selfVars
-----------------------------------------------------------------------------
FirstOccurrence(data, key) ==
    LET all == Occurrences(data, key) IN IF all = {} THEN -1 ELSE LeastOf(all)

\* The search returns the first occurrence of any key, whichever shifts its two
\* tables allow, at both ends of the data, too.
FindsFirst == \A key \in SearchKey : Find(program, key) = FirstOccurrence(program, key)

\* What was compiled into an executable is what it runs, whatever its
\* arguments and whatever bytes the script holds (a probe, too), and however
\* often the executable was compiled from one that carried a script already.
ScriptSurvives ==
    /\ SelfScript(program) = carried
    /\ carried # NoScript => \A args \in Arguments : Chosen(args) = "self"
=============================================================================
