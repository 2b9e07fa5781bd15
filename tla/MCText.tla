------------------------------- MODULE MCText -------------------------------
(* Small sets of lines, arguments and commands for Wire. *)
EXTENDS Wire

AllCharacters == {CR, LF, BS, DQ, SQ, SP, "a", "b"}
Digits == {"1", "20"}
ShortLines == {<<>>, <<"a">>, <<CR, "a">>}
ShortArgs == UNION {[1 .. n -> {"a", SP, DQ, SQ, BS}] : n \in 0 .. 5}
ShortCommands ==
    {<<verb>> \o rest :
       verb \in {"version", "help", "status", "state", "log", "echo", "hold", "verb", "exit",
                 "nonsense"},
       rest \in UNION {[1 .. n -> {"on", "all", "20"}] : n \in 0 .. 2}}
=============================================================================
