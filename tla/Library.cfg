\* The building blocks, one at a time.
SPECIFICATION MCSpec
CONSTANTS
    NULL = NULL
    Node = {n1, n2, n3, n4}
    List = {a, b}
    Nil = Nil
    MapNode = {1, 2, 3, 4, 5, 6, 7, 8, 25}
    KeyOf <- MapKey
    MayReplace = FALSE
    NoScript = NoScript
    Byte = {0, 1}
    Unit <- MCUnit
    Repeats = 2
    Code <- MCCode
    Script <- MCScript
    SearchKey <- MCSearchKey
    Char = {"x", "y"}
    MaxLen = 4
    Pattern <- MCPattern
    Path <- MCPath
    MaxChanges = 1
    Jobs = {"iterdir", "delete", "mkdir"}
    FlagSets <- MCFlagSets
INVARIANTS LinksSpellOrder RedBlack WalkInOrder FindsFirst ScriptSurvives PiecesIndivisible
INVARIANTS OnceAndInOrder CompleteWalk DeleteTrueMeansGone MkdirTellsTruth
PROPERTIES ImplementsSet SplitReturns CallsEnd
CHECK_DEADLOCK FALSE
