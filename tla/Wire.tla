-------------------------------- MODULE Wire --------------------------------
(***************************************************************************)
(* The conversions of Text at work: OpenVPN writes lines, which reach the  *)
(* decoder in any chunks, over one connection after the other; and one     *)
(* argument and one command are chosen in the beginning.                   *)
(***************************************************************************)
EXTENDS Text, FiniteSets

CONSTANTS
    Characters, \* what text is made of
    Lines,      \* what OpenVPN writes in a line
    Args,       \* the arguments of commands
    Commands,   \* the commands
    TornLines,  \* a connection may be lost in the middle of a line
    MaxLines    \* bound on the lines of a connection

ASSUME CharactersAssumption == {CR, LF, BS, DQ, SQ, SP, "a", "b"} \subseteq Characters

(* A line has no line end inside, and none that begins at its last         *)
(* character.                                                              *)
ASSUME LinesAssumption ==
    \A line \in Lines :
      /\ line \in Seq(Characters)
      /\ \A i \in DOMAIN line : line[i] # LF
      /\ line # <<>> => line[Len(line)] # CR

(* A line end in an argument would end the command.                        *)
ASSUME ArgsAssumption == Args \subseteq Seq(Characters \ {CR, LF})

ASSUME CommandsAssumption == <<>> \notin Commands

VARIABLES sent, transit, buffer, decoded, connections, arg, command

Ends == {<<LF>>, <<CR, LF>>}

Pid == <<"pid">>

EndsInNumber(rest) == rest # <<>> /\ Seqs!Last(rest) \in Numbers
AsksForAll(rest) == "all" \in Seqs!ToSet(rest)

(* The commands that inferExpect takes for one whose reply ends with END,   *)
(* while the mock server does not write it: it has one line for `echo`,    *)
(* looks at the first word behind `state` and `log` where inferExpect      *)
(* looks at the last one, says nothing to `exit` and `quit`, and refuses   *)
(* what it does not know.                                                  *)
Unanswered(c) ==
    LET rest == Tail(c)
    IN  \/ c[1] = "echo" /\ (AsksForAll(rest) \/ EndsInNumber(rest))
        \/ /\ c[1] \in {"state", "log"}
           /\ ~AsksForAll(rest) /\ EndsInNumber(rest) /\ Head(rest) \notin Numbers
        \/ c[1] \notin Orders \cup Notifications \cup {"version", "help"}

Init ==
    /\ sent = <<>>
    /\ transit = <<>>
    /\ buffer = <<>>
    /\ decoded = <<>>
    /\ connections = 1
    /\ arg \in Args
    /\ command \in IF arg = <<>> THEN Commands \cup {Pid} ELSE {Pid}

Write(line, end) ==
    /\ arg = <<>>
    /\ command = Pid
    /\ Len(sent) < MaxLines
    /\ sent' = Append(sent, line)
    /\ transit' = transit \o line \o end
    /\ UNCHANGED <<buffer, decoded, connections, arg, command>>

Receive(n) ==
    /\ n <= Len(transit)
    /\ LET pushed == Push(buffer \o SubSeq(transit, 1, n))
       IN  /\ decoded' = decoded \o pushed.lines
           /\ buffer' = pushed.buffer
    /\ transit' = SubSeq(transit, n + 1, Len(transit))
    /\ UNCHANGED <<sent, connections, arg, command>>

(* The next connection has the same decoder. *)
NextConnection ==
    /\ connections = 1
    /\ TornLines \/ buffer = <<>>
    /\ connections' = 2
    /\ sent' = <<>>
    /\ transit' = <<>>
    /\ decoded' = <<>>
    /\ UNCHANGED <<buffer, arg, command>>

Next ==
    \/ \E line \in Lines, end \in Ends : Write(line, end)
    \/ \E n \in 1 .. Len(transit) : Receive(n)
    \/ NextConnection

vars == <<sent, transit, buffer, decoded, connections, arg, command>>
Spec == Init /\ [][Next]_vars

(* In whatever chunks they arrive and however they end, the lines that     *)
(* LineDecoder returns are the lines that were sent on this connection     *)
(* (codec.ts:8-30).                                                        *)
DecodedAreSent ==
    /\ Seqs!IsPrefix(decoded, sent)
    /\ transit = <<>> => decoded = sent /\ buffer = <<>>

(* The words OpenVPN reads when an argument stands inside a command. *)
Around(text) == Lex(<<"a", SP>> \o text \o <<SP, "b">>)
Expected == << <<"a">>, arg, <<"b">> >>

(* OpenVPN reads the argument that escapeArg was given (types.ts:76-95),   *)
(* and the one that a command of the server was given if it is not empty   *)
(* and has no backslash (server.ts:171-176).                               *)
ArgumentIsRead ==
    /\ Around(EscapeArg(arg)) = Expected
    /\ arg # <<>> /\ BS \notin Seqs!ToSet(arg) => Around(EscapeServerArg(arg)) = Expected

(* The mode that inferExpect gives a command never ends its reply before   *)
(* the last line, which would leave lines to the next command; and it ends *)
(* the reply with that line except for the commands listed in Unanswered,  *)
(* for which the client waits until its timer ends the command             *)
(* (client.ts:364-413, mock-server.ts:94-132).                             *)
ReplyEndsWithItsLastLine ==
    LET reply == DefaultMockResponse(command)
        closing == {i \in DOMAIN reply : reply[i] \in Closing(InferExpect(command))}
    IN  closing = IF Unanswered(command) THEN {} ELSE {Len(reply)}
=============================================================================
