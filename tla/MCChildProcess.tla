--------------------------- MODULE MCChildProcess ---------------------------
(* Instances of ChildProcess for TLC. *)
EXTENDS ChildProcess

AllCalls == {"spawn", "process", "read", "cin", "join", "kill", "collect",
             "yield", "return", "error"}
LiveCalls == {"spawn", "process", "read", "join", "collect", "yield", "return"}
ReadCalls == {"spawn", "process", "read", "join", "yield", "return"}

\* Scripts that enable at most one of the two streams.
OneStream == {{}, {"out"}, {"err"}}
BothStreams == {Streams}
=============================================================================
