--------------------------- MODULE MCLuaCoroutine ---------------------------
(* Instances of LuaCoroutine for TLC. *)
EXTENDS LuaCoroutine

AllCalls == {"spawn", "await", "suspend", "resume", "close", "sleep", "yield",
             "return", "error", "collect"}
AllRules == {"LiveTarget", "CloseLast", "NoEarlyWake", "AwaitOthers"}

\* Scripts that break one of the rules.
CloseAnyone == AllRules \ {"CloseLast"}
WakeAnyone == AllRules \ {"NoEarlyWake"}
TargetAnyone == AllRules \ {"LiveTarget"}

\* Scripts that resume whatever they have a handle of, sleepers, coroutines that
\* have finished and coroutines that were destroyed included.
ResumeAnyone == AllRules \ {"NoEarlyWake", "LiveTarget"}

\* Without the calls by which one coroutine stops another.
QuietCalls == {"spawn", "await", "resume", "sleep", "yield", "return", "collect"}

Symmetry == Permutations(Timer) \cup Permutations(Co \ {Main})
=============================================================================
