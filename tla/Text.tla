-------------------------------- MODULE Text --------------------------------
(***************************************************************************)
(* The conversions of packages/core/src between text and what it stands    *)
(* for, as operators: splitting received text into lines, quoting the      *)
(* arguments of a command, and guessing how its reply ends.                *)
(*                                                                         *)
(* Text is a sequence of characters, which are strings of length one; the  *)
(* line ends and the backslash have names.  A command is a sequence of     *)
(* words.                                                                  *)
(***************************************************************************)
EXTENDS Naturals, Sequences

CONSTANT Numbers  \* the words that are made of digits

Seqs == INSTANCE SequencesExt

CR == "CR"
LF == "LF"
BS == "BS"
DQ == "DQ"
SQ == "SQ"
SP == " "  \* a space or a tab

----------------------------------------------------------------------------
\* codec.ts: LineDecoder

(* The length of the line end at position i, 0 if there is none. *)
LineEndNoCR(text, i) == IF text[i] = LF THEN 1 ELSE 0

LineEnd(text, i) ==
    IF text[i] = LF THEN 1
    ELSE IF text[i] = CR /\ i < Len(text) /\ text[i + 1] = LF THEN 2 ELSE 0

LineEnds(text) == {i \in DOMAIN text : LineEnd(text, i) # 0}

(* One iteration of the loop of push: the first line, if there is one,     *)
(* moves from the buffer to the lines.                                     *)
TakeLine(r) ==
    LET ends == LineEnds(r.buffer)
        i == CHOOSE i \in ends : \A j \in ends : i <= j
    IN  IF ends = {} THEN r
        ELSE [lines |-> Append(r.lines, SubSeq(r.buffer, 1, i - 1)),
              buffer |-> SubSeq(r.buffer, i + LineEnd(r.buffer, i), Len(r.buffer))]

(* push, with the chunk already behind the buffer: the complete lines, and *)
(* what stays in the buffer.  There are at most as many lines as there are *)
(* characters.                                                             *)
Push(text) ==
    LET after[n \in 0 .. Len(text)] ==
            IF n = 0 THEN [lines |-> <<>>, buffer |-> text] ELSE TakeLine(after[n - 1])
    IN  after[Len(text)]

----------------------------------------------------------------------------
\* types.ts and server.ts: arguments of commands

(* The text with a backslash before the characters of cs. *)
Escaped(text, cs) ==
    LET out[n \in 0 .. Len(text)] ==
            IF n = 0 THEN <<>>
            ELSE IF text[n] \in cs THEN out[n - 1] \o <<BS, text[n]>>
            ELSE Append(out[n - 1], text[n])
    IN  out[Len(text)]

Quoted(text) == <<DQ>> \o text \o <<DQ>>
NeedsQuotes(text) == \E i \in DOMAIN text : text[i] \in {SP, DQ, SQ, BS}

EscapeArgQuotesOnly(value) ==
    IF value = <<>> \/ NeedsQuotes(value) THEN Quoted(Escaped(value, {DQ})) ELSE value

EscapeArg(value) ==
    IF value = <<>> \/ NeedsQuotes(value) THEN Quoted(Escaped(value, {BS, DQ})) ELSE value

EscapeServerArgPlain(value) == IF NeedsQuotes(value) THEN Quoted(value) ELSE value

(* escapeServerArg: it replaces a backslash by itself. *)
EscapeServerArg(value) ==
    IF NeedsQuotes(value) THEN Quoted(Escaped(value, {DQ})) ELSE value

(* One character of the lexer with which OpenVPN reads a command: r.words  *)
(* are complete, r.word is being read, r.within says what it is within,    *)
(* and r.escape that a backslash came before.                              *)
LexChar(r, ch) ==
    LET finished == [r EXCEPT !.words = Append(@, r.word), !.word = <<>>, !.within = "space"]
        taken(within) == [r EXCEPT !.word = Append(@, ch), !.within = within, !.escape = FALSE]
    IN  IF r.within = "single" THEN IF ch = SQ THEN finished ELSE taken("single")
        ELSE IF r.escape THEN taken(IF r.within = "space" THEN "word" ELSE r.within)
        ELSE IF ch = BS THEN [r EXCEPT !.escape = TRUE]
        ELSE IF r.within = "double" THEN IF ch = DQ THEN finished ELSE taken("double")
        ELSE IF ch = SP THEN IF r.within = "word" THEN finished ELSE r
        ELSE IF r.within = "space" /\ ch \in {DQ, SQ}
             THEN [r EXCEPT !.within = IF ch = DQ THEN "double" ELSE "single"]
        ELSE taken("word")

Start == [words |-> <<>>, word |-> <<>>, within |-> "space", escape |-> FALSE]

(* The lexer after the characters of text. *)
Read(text) ==
    LET after[n \in 0 .. Len(text)] ==
            IF n = 0 THEN Start ELSE LexChar(after[n - 1], text[n])
    IN  after[Len(text)]

(* The words OpenVPN reads; none when a quote is not closed. *)
Lex(text) ==
    LET r == Read(Append(text, SP)) IN IF r.within = "space" THEN r.words ELSE <<>>

----------------------------------------------------------------------------
\* client.ts: inferExpect, and mock-server.ts: defaultMockResponse

Inquiries ==
    {"help", "status", "net", "test", "load-stats", "remote-entry-count", "remote-entry-get"}
Notifications == {"state", "log", "echo"}
Orders ==
    {"pid", "signal", "bytecount", "hold", "auth-retry", "verb", "mute", "username", "password",
     "needok", "needstr", "cr-response", "forget-passwords", "client-auth", "client-auth-nt",
     "client-deny", "client-pending-auth", "client-kill", "pk-sig", "rsa-sig", "certificate",
     "pkcs11-id-count", "pkcs11-id-get", "remote", "proxy", "push-update-broad",
     "push-update-cid"}

InferExpectOfVerb(command) ==
    IF command[1] \in Inquiries \cup Notifications \cup {"version"} THEN "end" ELSE "single"

(* How the reply to a command will end. *)
InferExpect(command) ==
    LET rest == Tail(command)
    IN  CASE command[1] \in Inquiries -> "end"
          [] command[1] = "version" -> IF rest = <<>> THEN "end" ELSE "single"
          [] command[1] \in Notifications ->
               IF "all" \in Seqs!ToSet(rest) \/ (rest # <<>> /\ Seqs!Last(rest) \in Numbers)
               THEN "end" ELSE "single"
          [] command[1] \in Orders -> "single"
          [] OTHER -> "end"

(* The kinds of the lines the mock server replies with. *)
DefaultMockResponse(command) ==
    LET rest == Tail(command)
    IN  CASE command[1] = "version" ->
               IF rest # <<>> THEN <<"success">> ELSE <<"data", "data", "end">>
          [] command[1] \in {"state", "log"} ->
               IF "all" \in Seqs!ToSet(rest) THEN <<"success", "data", "end">>
               ELSE IF rest # <<>> /\ Head(rest) \in Numbers THEN <<"data", "end">>
               ELSE <<"success">>
          [] command[1] \in {"echo", "bytecount", "hold", "pid", "signal"} -> <<"success">>
          [] command[1] = "help" -> <<"data", "data", "end">>
          [] command[1] \in {"exit", "quit"} -> <<>>
          [] OTHER -> <<"error">>

(* FrameParser.push: the lines with which a frame is complete. *)
Closing(mode) == IF mode = "end" THEN {"end"} ELSE {"end", "success", "error"}
=============================================================================
