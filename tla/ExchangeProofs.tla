---------------------------- MODULE ExchangeProofs ----------------------------
(***************************************************************************)
(* Theorems about Exchange, for any number of processes, requests, lost    *)
(* connections and clients.                                                *)
(***************************************************************************)
EXTENDS Exchange, SequenceTheorems, TLAPS

----------------------------------------------------------------------------
\* Short sequences and records

LEMMA Short ==
    ASSUME NEW x, NEW y
    PROVE  /\ <<x>> # <<>> /\ Head(<<x>>) = x /\ Tail(<<x>>) = <<>> /\ Append(<<>>, x) = <<x>>
           /\ <<x, y>> # <<>> /\ Head(<<x, y>>) = x /\ Tail(<<x, y>>) = <<y>>
           /\ Append(<<x>>, y) = <<x, y>> /\ <<>> \o <<x>> = <<x>> /\ <<>> \o <<>> = <<>>
<1>1. /\ <<x>> # <<>> /\ Head(<<x>>) = x /\ Append(<<>>, x) = <<x>>
      /\ <<x, y>> # <<>> /\ Head(<<x, y>>) = x
  OBVIOUS
<1>2. Tail(<<x>>) = <<>> /\ Tail(<<x, y>>) = <<y>> /\ Append(<<x>>, y) = <<x, y>>
  <2>1. Tail(<<x>>) = <<>>
    OBVIOUS
  <2>2. Tail(<<x, y>>) = <<y>>
    <3>1. <<y>> \in Seq({x, y}) /\ Len(<<y>>) = 1 /\ <<y>>[1] = y
      OBVIOUS
    <3>2. Tail(<<x, y>>) \in Seq({x, y}) /\ Len(Tail(<<x, y>>)) = 1 /\ Tail(<<x, y>>)[1] = y
      <4>1. Len(Tail(<<x, y>>)) = 1
        OBVIOUS
      <4>2. Tail(<<x, y>>)[1] = y
        OBVIOUS
      <4>3. Tail(<<x, y>>) \in Seq({x, y})
        OBVIOUS
      <4> QED
        BY <4>1, <4>2, <4>3
    <3> QED
      BY <3>1, <3>2, SeqEqual
  <2>3. Append(<<x>>, y) = <<x, y>>
    <3>1. /\ Append(<<x>>, y) \in Seq({x, y}) /\ Len(Append(<<x>>, y)) = 2
          /\ Append(<<x>>, y)[1] = x /\ Append(<<x>>, y)[2] = y
      <4>1. Append(<<x>>, y) \in Seq({x, y})
        OBVIOUS
      <4>2. Len(Append(<<x>>, y)) = 2
        OBVIOUS
      <4>3. Append(<<x>>, y)[1] = x /\ Append(<<x>>, y)[2] = y
        OBVIOUS
      <4> QED
        BY <4>1, <4>2, <4>3
    <3>2. <<x, y>> \in Seq({x, y}) /\ Len(<<x, y>>) = 2 /\ <<x, y>>[1] = x /\ <<x, y>>[2] = y
      <4>1. <<x, y>> \in Seq({x, y})
        OBVIOUS
      <4>2. Len(<<x, y>>) = 2 /\ <<x, y>>[1] = x /\ <<x, y>>[2] = y
        OBVIOUS
      <4> QED
        BY <4>1, <4>2
    <3>3. \A i \in 1 .. 2 : i = 1 \/ i = 2
      OBVIOUS
    <3>4. \A i \in 1 .. Len(Append(<<x>>, y)) : Append(<<x>>, y)[i] = <<x, y>>[i]
      BY <3>1, <3>2, <3>3, Zenon
    <3> QED
      BY <3>1, <3>2, <3>4, SeqEqual, Zenon
  <2> QED
    BY <2>1, <2>2, <2>3
<1>3. <<>> \o <<x>> = <<x>> /\ <<>> \o <<>> = <<>>
  OBVIOUS
<1> QED
  BY <1>1, <1>2, <1>3

LEMMA LineKinds ==
    /\ \A k, n : Line(k, n).kind = k /\ Line(k, n).of = n
    /\ Reply.kind = "reply" /\ \A n : Line("ask", n) # Reply
    /\ \A w, n : Command(w, n).what = w /\ Command(w, n).of = n
BY DEF Line, Reply, Command

LEMMA TailLines ==
    ASSUME NEW T, NEW s \in Seq(T), s # <<>>
    PROVE  /\ Head(s) = s[1] /\ 1 \in DOMAIN s
           /\ \A i \in DOMAIN Tail(s) : i \in Nat \ {0} /\ i + 1 \in DOMAIN s /\ Tail(s)[i] = s[i + 1]
           /\ \A i \in DOMAIN s : i + 1 \in DOMAIN s => i \in DOMAIN Tail(s)
           /\ \A j \in DOMAIN Tail(s) : \A i \in 1 .. j - 1 : i \in DOMAIN Tail(s)
           /\ (2 \in DOMAIN s => Tail(s) # <<>> /\ Tail(s)[1] = s[2])
<1>1. Len(s) \in Nat /\ Len(s) > 0 /\ DOMAIN s = 1 .. Len(s) /\ Head(s) = s[1]
  BY EmptySeq, LenProperties
<1>2. /\ Len(Tail(s)) = Len(s) - 1 /\ Tail(s) \in Seq(T)
      /\ \A i \in 1 .. Len(Tail(s)) : Tail(s)[i] = s[i + 1]
  BY HeadTailProperties
<1>3. DOMAIN Tail(s) = 1 .. (Len(s) - 1)
  BY <1>2, LenProperties
<1>4. 2 \in DOMAIN s => Tail(s) # <<>> /\ Tail(s)[1] = s[2]
  <2> SUFFICES ASSUME 2 \in DOMAIN s PROVE Tail(s) # <<>> /\ Tail(s)[1] = s[2]
    OBVIOUS
  <2>1. 1 \in 1 .. Len(Tail(s)) /\ Len(Tail(s)) # 0
    BY <1>1, <1>2
  <2>2. Tail(s)[1] = s[1 + 1] /\ 1 + 1 = 2
    BY <1>2, <2>1
  <2>3. Tail(s) # <<>>
    <3>1. Len(<<>>) = 0
      OBVIOUS
    <3> QED
      BY <2>1, <3>1, Zenon
  <2> QED
    BY <2>2, <2>3
<1> QED
  BY <1>1, <1>2, <1>3, <1>4

LEMMA AppendLines ==
    ASSUME NEW T, NEW s \in Seq(T), NEW x \in T
    PROVE  /\ Append(s, x) # <<>>
           /\ \A i \in DOMAIN Append(s, x) : i \in Nat \ {0} /\ (i \in DOMAIN s \/ Append(s, x)[i] = x)
           /\ \A i \in DOMAIN s : i \in DOMAIN Append(s, x) /\ Append(s, x)[i] = s[i]
           /\ \A i \in DOMAIN Append(s, x) : \A j \in 1 .. i - 1 : j \in DOMAIN s
<1>1. Len(s) \in Nat /\ DOMAIN s = 1 .. Len(s)
  BY LenProperties
<1>2. /\ Append(s, x) \in Seq(T) /\ Append(s, x) # <<>> /\ Len(Append(s, x)) = Len(s) + 1
      /\ \A i \in 1 .. Len(s) : Append(s, x)[i] = s[i]
      /\ Append(s, x)[Len(s) + 1] = x
  BY AppendProperties
<1>3. DOMAIN Append(s, x) = 1 .. (Len(s) + 1)
  BY <1>2, LenProperties
<1> QED
  BY <1>1, <1>2, <1>3

----------------------------------------------------------------------------
\* Types

LEMMA LineTypes ==
    /\ \A w \in {"username", "password"} \cup Written, n \in Calls : Command(w, n) \in Commands
    /\ \A v \in Verdicts, c \in Clients : Command(v, c) \in Commands
    /\ \A r \in Requests : Line("ask", r) \in Lines
    /\ Reply \in Lines
    /\ \A k \in {"CONNECT", "ESTABLISHED", "DISCONNECT", "ENV", "END"}, c \in Clients :
           Line(k, c) \in Lines
BY DEF Command, Commands, Line, Lines, Reply

LEMMA WhatIsSent ==
    /\ \A c \in Commands : c.what \in {"username", "password"} \cup Written => c.of \in Calls
    /\ \A c \in Commands : c.what \in Verdicts => c.of \in Clients
    /\ \A l \in Lines : l.kind = "ask" => l.of \in Requests
    /\ \A l \in Lines : l.kind \in {"CONNECT", "ESTABLISHED", "DISCONNECT", "ENV", "END"} => l.of \in Clients
BY DEF Commands, Lines, Verdicts, Written

LEMMA PumpTypes ==
    ASSUME NEW q \in Seq(Commands), NEW b \in BOOLEAN, NEW out \in Seq(Commands),
           link' \in BOOLEAN, b => link' /\ q # <<>>, Pump(q, b, out)
    PROVE  /\ queue' \in Seq(Commands) /\ toPeer' \in Seq(Commands)
           /\ busy' \in BOOLEAN /\ (busy' => link' /\ queue' # <<>>)
<1>1. queue' = q /\ busy' = (b \/ (link' /\ q # <<>>))
  BY DEF Pump
<1>2. toPeer' \in Seq(Commands)
  <2>1. CASE link' /\ ~b /\ q # <<>>
    <3>1. Head(q) \in Commands
      BY <2>1, HeadTailProperties
    <3> QED
      BY <2>1, <3>1 DEF Pump
  <2>2. CASE ~(link' /\ ~b /\ q # <<>>)
    BY <2>2 DEF Pump
  <2> QED
    BY <2>1, <2>2
<1> QED
  BY <1>1, <1>2

LEMMA TypeSession == TypeOK /\ Session => TypeOK'
<1> SUFFICES ASSUME TypeOK, Session PROVE TypeOK'
  OBVIOUS
<1> USE DEF sessionVars, linkVars, clientVars, channelVars, askVars, callVars, collectorVars, serverVars
<1>1. CASE Connect
  <2>1. process' \in Processes /\ management' \in Processes
    BY <1>1, BoundsAssumption DEF Connect, TypeOK, Processes
  <2>2. link' = TRUE /\ busy' = busy /\ queue' = queue
    BY <1>1 DEF Connect
  <2>3. peer' \in [Clients -> Peers]
    BY <1>1 DEF Connect, Peers
  <2> QED
    BY <1>1, <2>1, <2>2, <2>3 DEF Connect, TypeOK
<1>2. CASE Disconnect
  <2>1. stage' \in [Calls -> Stages]
    BY <1>2 DEF Disconnect, RejectAllPending, TypeOK, Stages
  <2> QED
    <3>1. queue' \in Seq(Commands) /\ busy' = FALSE /\ toPeer' \in Seq(Commands) /\ toClient' \in Seq(Lines)
      BY <1>2 DEF Disconnect, RejectAllPending
    <3>2. overtaken' \in BOOLEAN
      BY <1>2 DEF Disconnect
    <3>3. management' = 0 /\ link' = FALSE /\ request' = 0 /\ held' = 0
      BY <1>2 DEF Disconnect
    <3> QED
      BY <1>2, <2>1, <3>1, <3>2, <3>3 DEF Disconnect, TypeOK
<1>3. CASE Lose
  <2>1. stage' \in [Calls -> Stages]
    BY <1>3 DEF Lose, RejectAllPending, TypeOK, Stages
  <2>2. losses' \in 0 .. MaxLosses
    BY <1>3, BoundsAssumption DEF Lose, TypeOK
  <2> QED
    <3>1. queue' \in Seq(Commands) /\ busy' = FALSE /\ toPeer' \in Seq(Commands) /\ toClient' \in Seq(Lines)
      BY <1>3 DEF Lose, RejectAllPending
    <3>2. overtaken' \in BOOLEAN /\ link' = FALSE
      BY <1>3 DEF Lose
    <3> QED
      BY <1>3, <2>1, <2>2, <3>1, <3>2 DEF Lose, TypeOK
<1>4. CASE Reconnect
  <2>1. /\ queue' \in Seq(Commands) /\ toPeer' \in Seq(Commands)
        /\ busy' \in BOOLEAN /\ (busy' => link' /\ queue' # <<>>)
    <3>1. <<>> \in Seq(Commands) /\ link' \in BOOLEAN /\ queue \in Seq(Commands)
      BY <1>4 DEF Reconnect, TypeOK
    <3>2. Pump(queue, FALSE, <<>>)
      BY <1>4 DEF Reconnect
    <3> QED
      BY <3>1, <3>2, PumpTypes
  <2>2. toClient' \in Seq(Lines)
    <3>1. CASE request = 0
      BY <1>4, <3>1 DEF Reconnect
    <3>2. CASE request # 0
      <4>1. Line("ask", request) \in Lines /\ toClient' = <<Line("ask", request)>>
        BY <1>4, <3>2, LineTypes DEF Reconnect, TypeOK
      <4> QED
        BY <4>1
    <3> QED
      BY <3>1, <3>2
  <2> QED
    BY <1>4, <2>1, <2>2 DEF Reconnect, TypeOK
<1>5. ASSUME NEW n \in Calls, Expire(n) PROVE TypeOK'
  <2>1. queue' \in Seq(Commands)
    <3>1. PICK i \in DOMAIN queue : queue' = Seqs!RemoveAt(queue, i)
      BY <1>5 DEF Expire
    <3>2. queue \in Seq(Commands) /\ i \in 1 .. Len(queue) /\ Len(queue) \in Nat
      BY DEF TypeOK
    <3>3. SubSeq(queue, 1, i - 1) \in Seq(Commands) /\ SubSeq(queue, i + 1, Len(queue)) \in Seq(Commands)
      BY <3>2, SubSeqProperties
    <3> QED
      BY <3>1, <3>3, ConcatProperties DEF Seqs!RemoveAt
  <2>2. stage' \in [Calls -> Stages]
    BY <1>5 DEF Expire, TypeOK, Stages
  <2> QED
    BY <1>5, <2>1, <2>2 DEF Expire, TypeOK
<1> QED
  BY <1>1, <1>2, <1>3, <1>4, <1>5 DEF Session

LEMMA TypeHandle == TypeOK /\ Handle => TypeOK'
<1> SUFFICES ASSUME TypeOK, Handle PROVE TypeOK'
  OBVIOUS
<1> USE DEF sessionVars, linkVars, clientVars, channelVars, askVars, callVars, collectorVars, serverVars
<1>0. toClient # <<>> /\ Head(toClient) \in Lines /\ Tail(toClient) \in Seq(Lines)
  <2>1. toClient # <<>> /\ toClient \in Seq(Lines)
    BY DEF Handle, HandleRequest, HandleReply, HandleClientLine, TypeOK
  <2> QED
    BY <2>1, HeadTailProperties
<1>1. CASE HandleRequest
  <2>1. call' \in Seq(Requests)
    <3>1. Head(toClient).of \in Requests
      BY <1>0, <1>1, WhatIsSent DEF HandleRequest
    <3> QED
      BY <1>1, <3>1, AppendProperties DEF HandleRequest, TypeOK
  <2>2. stage' \in [Calls -> Stages]
    BY <1>1 DEF HandleRequest, TypeOK, Stages
  <2> QED
    BY <1>0, <1>1, <2>1, <2>2 DEF HandleRequest, TypeOK
<1>2. CASE HandleReply
  <2>1. Tail(queue) \o Continuation(Head(queue)) \in Seq(Commands)
    <3>1. Head(queue) \in Commands /\ Tail(queue) \in Seq(Commands)
      BY <1>2, HeadTailProperties DEF HandleReply, TypeOK
    <3>2. Continuation(Head(queue)) \in Seq(Commands)
      <4>1. CASE Head(queue).what = "username"
        <5>1. Command("password", Head(queue).of) \in Commands
          BY <3>1, <4>1, WhatIsSent, LineTypes
        <5> QED
          BY <4>1, <5>1 DEF Continuation
      <4>2. CASE Head(queue).what # "username"
        BY <4>2 DEF Continuation
      <4> QED
        BY <4>1, <4>2
    <3> QED
      BY <3>1, <3>2, ConcatProperties
  <2>2. stage' \in [Calls -> Stages]
    <3>1. stage' = [n \in Calls |->
             CASE Head(queue) = Command("username", n) -> "password"
               [] Head(queue) = Command("password", n) -> "over"
               [] OTHER -> stage[n]]
      BY <1>2 DEF HandleReply
    <3> QED
      BY <3>1 DEF TypeOK, Stages
  <2>3. /\ queue' \in Seq(Commands) /\ toPeer' \in Seq(Commands)
        /\ busy' \in BOOLEAN /\ (busy' => link' /\ queue' # <<>>)
    <3>1. /\ link' \in BOOLEAN /\ toPeer \in Seq(Commands)
          /\ Pump(Tail(queue) \o Continuation(Head(queue)), FALSE, toPeer)
      BY <1>2 DEF HandleReply, TypeOK
    <3> QED
      BY <2>1, <3>1, PumpTypes
  <2> QED
    BY <1>0, <1>2, <2>2, <2>3 DEF HandleReply, TypeOK
<1>3. CASE HandleClientLine
  <2>1. CollectorPush(Head(toClient))
    BY <1>3 DEF HandleClientLine
  <2>2. Head(toClient).of \in Clients
    BY <1>0, <2>1, WhatIsSent DEF CollectorPush
  <2>3. pending' \in Blocks \cup {NoBlock}
    <3>1. CASE pending' = [cid |-> {Head(toClient).of}, env |-> {}]
      BY <2>2, <3>1 DEF Blocks
    <3>2. CASE pending # NoBlock /\ pending' = Merged(pending, Head(toClient).of)
      BY <2>2, <3>2 DEF Blocks, Merged, TypeOK
    <3>3. CASE pending' = pending \/ pending' = NoBlock
      BY <3>3 DEF TypeOK
    <3> QED
      BY <2>1, <3>1, <3>2, <3>3 DEF CollectorPush, AfterEnd
  <2>4. events' \in Seq(Events)
    <3>1. CASE \E c \in pending.cid : Emit("connect-env", c, pending.env)
      <4>1. PICK c \in pending.cid : Emit("connect-env", c, pending.env)
        BY <3>1
      <4>2. pending \in Blocks
        BY <4>1 DEF TypeOK, NoBlock
      <4>3. [type |-> "connect-env", cid |-> c, env |-> pending.env] \in Events
        BY <4>1, <4>2 DEF Blocks, Events
      <4> QED
        BY <4>1, <4>3, AppendProperties DEF Emit, TypeOK
    <3>2. CASE \E t \in {"disconnect", "established"} : Emit(t, Head(toClient).of, {})
      <4>1. PICK t \in {"disconnect", "established"} : Emit(t, Head(toClient).of, {})
        BY <3>2
      <4>2. [type |-> t, cid |-> Head(toClient).of, env |-> {}] \in Events
        BY <2>2 DEF Events
      <4> QED
        BY <4>1, <4>2, AppendProperties DEF Emit, TypeOK
    <3>3. CASE events' = events
      BY <3>3 DEF TypeOK
    <3> QED
      BY <2>1, <3>1, <3>2, <3>3 DEF CollectorPush
  <2> QED
    BY <1>0, <1>3, <2>3, <2>4 DEF HandleClientLine, TypeOK
<1> QED
  BY <1>1, <1>2, <1>3 DEF Handle

LEMMA TypeApplication == TypeOK /\ Application => TypeOK'
<1> SUFFICES ASSUME TypeOK, Application PROVE TypeOK'
  OBVIOUS
<1> USE DEF sessionVars, linkVars, clientVars, channelVars, askVars, callVars, collectorVars, serverVars
<1>1. ASSUME NEW n \in Calls, AnswerCredentials(n) PROVE TypeOK'
  <2>1. stage' \in [Calls -> Stages]
    BY <1>1 DEF AnswerCredentials, TypeOK, Stages
  <2>2. link' = link
    BY <1>1 DEF AnswerCredentials
  <2>3. /\ queue' \in Seq(Commands) /\ toPeer' \in Seq(Commands)
        /\ busy' \in BOOLEAN /\ (busy' => link' /\ queue' # <<>>)
    <3>1. CASE UNCHANGED <<queue, busy, toPeer>>
      BY <2>2, <3>1 DEF TypeOK
    <3>2. CASE Pump(Append(queue, FirstCommand(n)), busy, toPeer)
      <4>1. FirstCommand(n) \in Commands
        BY LineTypes DEF FirstCommand
      <4>2. Append(queue, FirstCommand(n)) \in Seq(Commands) /\ Append(queue, FirstCommand(n)) # <<>>
        <5>1. queue \in Seq(Commands)
          BY DEF TypeOK
        <5> QED
          BY <4>1, <5>1, AppendProperties
      <4> QED
        BY <2>2, <3>2, <4>2, PumpTypes DEF TypeOK
    <3> QED
      BY <1>1, <3>1, <3>2 DEF AnswerCredentials
  <2> QED
    BY <1>1, <2>1, <2>2, <2>3 DEF AnswerCredentials, TypeOK
<1>2. ASSUME NEW n \in Calls, AnswerWritten(n) PROVE TypeOK'
  <2>1. stage' \in [Calls -> Stages]
    BY <1>2 DEF AnswerWritten, TypeOK, Stages
  <2>2. toPeer' \in Seq(Commands)
    <3>1. Command(KindOf(n), n) \in Commands
      BY <1>2, LineTypes DEF AnswerWritten
    <3> QED
      BY <1>2, <3>1, AppendProperties DEF AnswerWritten, WriteMultiline, TypeOK
  <2> QED
    BY <1>2, <2>1, <2>2 DEF AnswerWritten, WriteMultiline, TypeOK
<1>3. ASSUME NEW c \in Clients, NEW v \in Verdicts, Decide(c, v) PROVE TypeOK'
  <2>1. link' = link /\ decided' \subseteq Clients \X Verdicts
    BY <1>3 DEF Decide, TypeOK
  <2>2. Append(queue, Command(v, c)) \in Seq(Commands) /\ Append(queue, Command(v, c)) # <<>>
    BY LineTypes, AppendProperties DEF TypeOK
  <2>3. /\ queue' \in Seq(Commands) /\ toPeer' \in Seq(Commands)
        /\ busy' \in BOOLEAN /\ (busy' => link' /\ queue' # <<>>)
    <3>1. Pump(Append(queue, Command(v, c)), busy, toPeer)
      BY <1>3 DEF Decide
    <3> QED
      BY <2>1, <2>2, <3>1, PumpTypes DEF TypeOK
  <2> QED
    BY <1>3, <2>1, <2>3 DEF Decide, TypeOK
<1> QED
  BY <1>1, <1>2, <1>3 DEF Application, Answer

LEMMA TypeOpenVPN == TypeOK /\ OpenVPN => TypeOK'
<1> SUFFICES ASSUME TypeOK, OpenVPN PROVE TypeOK'
  OBVIOUS
<1> USE DEF sessionVars, linkVars, clientVars, channelVars, askVars, callVars, collectorVars, serverVars
<1>1. ASSUME NEW k \in Kinds, Ask(k) PROVE TypeOK'
  <2>1. asked' \in Seq(Kinds) /\ Len(asked') = Len(asked) + 1 /\ Len(asked) \in Nat
    BY <1>1, AppendProperties DEF Ask, TypeOK
  <2>2. request' \in Requests
    BY <1>1, <2>1, BoundsAssumption DEF Ask, Requests
  <2>3. toClient' \in Seq(Lines)
    BY <1>1, <2>2, LineTypes, AppendProperties DEF Ask, TypeOK
  <2> QED
    BY <1>1, <2>1, <2>2, <2>3 DEF Ask, TypeOK
<1>2. CASE Execute
  <2>1. toPeer' \in Seq(Commands) /\ Head(toPeer) \in Commands
    BY <1>2, HeadTailProperties DEF Execute, TypeOK
  <2>2. toClient' \in Seq(Lines)
    BY <1>2, LineTypes, AppendProperties DEF Execute, TypeOK
  <2>3. CASE TakeAnswer(Head(toPeer))
    <3>1. Head(toPeer).of \in Calls
      BY <2>1, <2>3, WhatIsSent DEF TakeAnswer
    <3>2. request' \in Requests \cup {0} /\ held' \in Calls \cup {0}
      BY <2>3, <3>1 DEF TakeAnswer, TypeOK
    <3>3. used' \subseteq [request : Requests, user : Calls \cup {0}, answer : Calls, late : BOOLEAN]
      <4>1. CASE used' = used
        BY <4>1 DEF TypeOK
      <4>2. CASE /\ request # 0
                 /\ used' = used \cup {[request |-> request, answer |-> Head(toPeer).of,
                        user |-> IF Head(toPeer).what = "password" THEN held ELSE Head(toPeer).of,
                        late |-> overtaken]}
        BY <3>1, <4>2 DEF TypeOK
      <4> QED
        BY <2>3, <4>1, <4>2 DEF TakeAnswer, Wanted
    <3> QED
      BY <1>2, <2>1, <2>2, <2>3, <3>2, <3>3 DEF Execute, TakeAnswer, TypeOK
  <2>4. CASE TakeVerdict(Head(toPeer))
    <3>1. peer' \in [Clients -> Peers]
      BY <2>4 DEF TakeVerdict, TypeOK, Peers
    <3> QED
      BY <1>2, <2>1, <2>2, <2>4, <3>1 DEF Execute, TakeVerdict, TypeOK
  <2> QED
    BY <1>2, <2>3, <2>4 DEF Execute
<1>3. ASSUME NEW c \in Clients, NEW m \in Moves, ClientMoves(c, m) PROVE TypeOK'
  <2>1. m[2] \in Peers /\ m[3] \in {"CONNECT", "ESTABLISHED", "DISCONNECT"}
    BY DEF Moves, Peers
  <2>2. peer' \in [Clients -> Peers]
    BY <1>3, <2>1 DEF ClientMoves, TypeOK
  <2>3. toClient' \in Seq(Lines)
    <3>1. Line(m[3], c) \in Lines /\ Line("ENV", c) \in Lines /\ Line("END", c) \in Lines
      BY <2>1, LineTypes
    <3>2. <<Line(m[3], c), Line("ENV", c), Line("END", c)>> \in Seq(Lines)
      BY <3>1
    <3> QED
      BY <1>3, <3>2, ConcatProperties DEF ClientMoves, TypeOK
  <2> QED
    BY <1>3, <2>2, <2>3 DEF ClientMoves, TypeOK
<1> QED
  BY <1>1, <1>2, <1>3 DEF OpenVPN

LEMMA TypeInit == Init => TypeOK
<1> SUFFICES ASSUME Init PROVE TypeOK
  OBVIOUS
<1>1. stage \in [Calls -> Stages] /\ peer \in [Clients -> Peers] /\ losses \in 0 .. MaxLosses
  BY BoundsAssumption DEF Init, Stages, Peers
<1>2. /\ queue \in Seq(Commands) /\ toPeer \in Seq(Commands) /\ toClient \in Seq(Lines)
      /\ asked \in Seq(Kinds) /\ call \in Seq(Requests) /\ events \in Seq(Events)
  BY DEF Init
<1> QED
  BY <1>1, <1>2 DEF Init, TypeOK

(* Every variable keeps its type, for every number of clients, requests,   *)
(* processes and lost connections.                                         *)
THEOREM TypeCorrect == Spec => []TypeOK
<1>1. TypeOK /\ UNCHANGED vars => TypeOK'
  BY DEF TypeOK, vars, sessionVars, linkVars, clientVars, channelVars, askVars, callVars,
     collectorVars, serverVars
<1>2. TypeOK /\ [Next]_vars => TypeOK'
  BY <1>1, TypeSession, TypeHandle, TypeApplication, TypeOpenVPN DEF Next
<1> QED
  BY <1>2, TypeInit, PTL DEF Spec

----------------------------------------------------------------------------
\* A tunnel whose providers do not outlive their connection

(* The latest call of a provider. *)
Latest == Len(call)

Still == queue = <<>> /\ ~busy /\ toPeer = <<>>

(* OpenVPN may have asked, but there is no connection to say so. *)
Resting ==
    /\ Still /\ toClient = <<>> /\ Active = {}
    /\ link => request = 0

Asking ==
    /\ Still /\ toClient = <<Line("ask", request)>> /\ Active = {}
    /\ link /\ request # 0

(* The latest call is for the request that OpenVPN waits for. *)
Due == link /\ request # 0 /\ Latest \in Calls /\ call[Latest] = request

Providing ==
    /\ Still /\ toClient = <<>> /\ Due
    /\ Active = {Latest} /\ stage[Latest] = "provider"

Writing ==
    /\ queue = <<>> /\ ~busy /\ toClient = <<>> /\ Active = {} /\ Due
    /\ KindOf(Latest) \in Written
    /\ toPeer = <<Command(KindOf(Latest), Latest)>>

(* One command of submitCredentials() is under way. *)
Submitted(what) ==
    /\ link /\ busy /\ Latest \in Calls
    /\ Active = {Latest} /\ stage[Latest] = what
    /\ queue = <<Command(what, Latest)>>

Naming ==
    /\ Submitted("username") /\ Due /\ KindOf(Latest) = "auth"
    /\ \/ toPeer = queue /\ toClient = <<>>
       \/ toPeer = <<>> /\ toClient = <<Reply>> /\ held = Latest

Confirming ==
    /\ Submitted("password") /\ Due /\ KindOf(Latest) = "auth"
    /\ toPeer = queue /\ toClient = <<>> /\ held = Latest

(* OpenVPN has what it needs and may have asked for something else. *)
Confirmed ==
    /\ Submitted("password") /\ toPeer = <<>>
    /\ \/ request = 0 /\ toClient = <<Reply>>
       \/ request # 0 /\ toClient = <<Reply, Line("ask", request)>>

Phase == Resting \/ Asking \/ Providing \/ Writing \/ Naming \/ Confirming \/ Confirmed

(* The bounds of what is counted. *)
Counted ==
    /\ asked \in Seq(Kinds) /\ Len(asked) <= MaxRequests
    /\ losses \in 0 .. MaxLosses
    /\ request \in {0} \cup DOMAIN asked
    /\ call \in Seq(Requests) /\ Latest <= MaxCalls
    /\ stage \in [Calls -> Stages]
    /\ link \in BOOLEAN
    /\ process \in Nat
    /\ management = 0 => ~link /\ request = 0

(* What OpenVPN went on with came from one call, made for that request,    *)
(* unless a late answer may have been under way.                           *)
Matched ==
    \A u \in used :
        ~u.late => /\ u.answer \in DOMAIN call
                   /\ u.user = u.answer /\ call[u.answer] = u.request

(* A tunnel is told of no clients. *)
OnlyAsked ==
    /\ events = <<>>
    /\ \A i \in DOMAIN toClient : toClient[i].kind \in {"ask", "reply"}

TunnelInv == Counted /\ Phase /\ Matched /\ events = <<>>

(* A server is asked nothing. *)
AnswersInv ==
    /\ role = "tunnel" => Counted /\ Matched /\ OnlyAsked /\ (~overtaken => Phase)
    /\ role # "tunnel" => used = {} /\ request = 0

----------------------------------------------------------------------------
\* What the phases have in common

(* A request is handled when nothing else is under way. *)
LEMMA AskedIsAsking ==
    ASSUME Phase, toClient # <<>>, Head(toClient).kind = "ask"
    PROVE  Asking
BY Short, LineKinds DEF Phase, Resting, Providing, Writing, Naming, Confirming, Confirmed

(* A reply answers one of the two commands of submitCredentials(). *)
LEMMA RepliedIsSubmitted ==
    ASSUME Phase, toClient # <<>>, Head(toClient) = Reply
    PROVE  \/ Naming /\ toPeer = <<>> /\ toClient = <<Reply>> /\ held = Latest
           \/ Confirmed
BY Short, LineKinds
DEF Phase, Resting, Asking, Providing, Writing, Naming, Confirming, Confirmed

(* What arrives at OpenVPN is an answer to the request it waits for. *)
LEMMA SentIsDue ==
    ASSUME Phase, toPeer # <<>>
    PROVE  Writing \/ (Naming /\ toPeer = queue /\ toClient = <<>>) \/ Confirming
BY DEF Phase, Resting, Asking, Providing, Naming, Confirmed, Still

(* At most one call is under way. *)
LEMMA ProviderIsLatest ==
    ASSUME Phase, NEW n \in Calls, stage[n] = "provider"
    PROVE  Providing /\ n = Latest
<1>1. n \in Active
  BY DEF Active
<1> QED
  BY <1>1 DEF Phase, Resting, Asking, Providing, Writing, Naming, Confirming, Confirmed, Submitted

LEMMA NoClientLines ==
    ASSUME Phase, toClient # <<>>
    PROVE  Head(toClient).kind \in {"ask", "reply"}
BY Short, LineKinds
DEF Phase, Resting, Asking, Providing, Writing, Naming, Confirming, Confirmed

----------------------------------------------------------------------------
\* The steps of a tunnel

(* The calls that are not with their provider are rejected with the queue. *)
LEMMA AllOver ==
    ASSUME AtWork = {}, stage \in [Calls -> Stages],
           stage' = [n \in Calls |-> IF n \in Submitting THEN "over" ELSE stage[n]]
    PROVE  Active' = {} /\ stage' \in [Calls -> Stages]
BY DEF AtWork, Active, Submitting, Stages

LEMMA SessionKeeps ==
    ASSUME TunnelInv, ~overtaken', Session
    PROVE  TunnelInv'
<1> USE DEF Latest, sessionVars, linkVars, clientVars, channelVars, askVars, callVars, collectorVars,
        serverVars
<1>0. Counted /\ Phase /\ Matched /\ events = <<>>
  BY DEF TunnelInv
<1>1. CASE Connect
  <2>1. Resting /\ request = 0 /\ UNCHANGED <<queue, busy, request, asked, losses, call, stage, used>>
    BY <1>0, <1>1 DEF Connect, Counted, Phase, Resting, Asking, Providing, Writing, Naming,
       Confirming, Confirmed, Submitted, Due
  <2>2. Resting'
    BY <1>1, <2>1 DEF Connect, Resting, Still, Active
  <2>3. Counted' /\ Matched' /\ events' = <<>>
    <3>1. Counted'
      <4>1. management' # 0 /\ link' = TRUE
        BY <1>0, <1>1 DEF Connect, Counted
      <4>2. process' \in Nat
        BY <1>0, <1>1 DEF Connect, Counted
      <4> QED
        BY <1>0, <2>1, <4>1, <4>2 DEF Counted
    <3>2. Matched'
      BY <1>0, <1>1, <2>1 DEF Matched
    <3> QED
      BY <1>0, <1>1, <2>1, <3>1, <3>2 DEF Connect
  <2> QED
    BY <2>2, <2>3 DEF TunnelInv, Phase
<1>2. CASE Disconnect
  <2>1. AtWork = {} /\ UNCHANGED <<asked, losses, call, used, events, process>>
        /\ request' = 0 /\ link' = FALSE
    BY <1>2 DEF Disconnect
  <2>2. Active' = {} /\ stage' \in [Calls -> Stages]
    <3>1. stage' = [n \in Calls |-> IF n \in Submitting THEN "over" ELSE stage[n]]
      BY <1>2 DEF Disconnect, RejectAllPending
    <3>2. stage \in [Calls -> Stages]
      BY <1>0 DEF Counted
    <3> QED
      BY <2>1, <3>1, <3>2, AllOver
  <2>3. Resting'
    BY <1>2, <2>1, <2>2 DEF Disconnect, RejectAllPending, Resting, Still
  <2>4. Counted'
    BY <1>0, <2>1, <2>2 DEF Counted
  <2>5. Matched' /\ events' = <<>>
    BY <1>0, <2>1 DEF Matched
  <2> QED
    BY <2>3, <2>4, <2>5 DEF TunnelInv, Phase
<1>3. CASE Lose
  <2>1. AtWork = {} /\ UNCHANGED <<process, asked, request, management, call, used, events>>
        /\ link' = FALSE
    BY <1>3 DEF Lose
  <2>2. Active' = {} /\ stage' \in [Calls -> Stages]
    <3>1. stage' = [n \in Calls |-> IF n \in Submitting THEN "over" ELSE stage[n]]
      BY <1>3 DEF Lose, RejectAllPending
    <3>2. stage \in [Calls -> Stages]
      BY <1>0 DEF Counted
    <3> QED
      BY <2>1, <3>1, <3>2, AllOver
  <2>3. losses' \in 0 .. MaxLosses
    <3>1. losses' = losses + 1 /\ losses < MaxLosses /\ losses \in 0 .. MaxLosses
      BY <1>0, <1>3 DEF Lose, Counted
    <3> QED
      BY <3>1, BoundsAssumption
  <2>4. Resting'
    BY <1>3, <2>1, <2>2 DEF Lose, RejectAllPending, Resting, Still
  <2>5. Counted'
    BY <1>0, <2>1, <2>2, <2>3 DEF Counted
  <2>6. Matched' /\ events' = <<>>
    BY <1>0, <2>1 DEF Matched
  <2> QED
    BY <2>4, <2>5, <2>6 DEF TunnelInv, Phase
<1>4. CASE Reconnect
  <2>1. Resting /\ link' /\ UNCHANGED <<asked, losses, request, management, call, stage, used, events>>
    BY <1>0, <1>4 DEF Reconnect, Phase, Resting, Asking, Providing, Writing, Naming,
       Confirming, Confirmed, Submitted, Due
  <2>2. queue' = <<>> /\ ~busy' /\ toPeer' = <<>>
    BY <1>4, <2>1 DEF Reconnect, Pump, Resting, Still
  <2>3. Resting' \/ Asking'
    BY <1>4, <2>1, <2>2 DEF Reconnect, Resting, Asking, Still, Active, Line
  <2>4. Counted' /\ Matched' /\ events' = <<>>
    BY <1>0, <1>4, <2>1 DEF Reconnect, Counted, Matched
  <2> QED
    BY <2>3, <2>4 DEF TunnelInv, Phase
<1>5. ASSUME NEW n \in Calls, Expire(n) PROVE TunnelInv'
  <2>1. ~link /\ n \in Active
    BY <1>5 DEF Expire, Submitting, Active
  <2> QED
    BY <1>0, <2>1 DEF Phase, Resting, Asking, Providing, Writing, Naming, Confirming, Confirmed,
       Submitted, Due
<1> QED
  BY <1>1, <1>2, <1>3, <1>4, <1>5 DEF Session

LEMMA HandleRequestKeeps ==
    ASSUME TunnelInv, HandleRequest
    PROVE  TunnelInv'
<1> USE DEF Latest, sessionVars, linkVars, clientVars, channelVars, askVars, callVars, collectorVars,
        serverVars
<1>0. Counted /\ Phase /\ Matched /\ events = <<>>
  BY DEF TunnelInv
<1>1. Asking
  BY <1>0, AskedIsAsking DEF HandleRequest
<1>2. /\ toClient' = <<>> /\ call' = Append(call, request)
      /\ stage' = [stage EXCEPT ![Len(call')] = "provider"]
      /\ UNCHANGED <<process, link, management, queue, busy, toPeer, request, asked, held, used, losses,
                     events>>
  BY <1>1, Short, LineKinds DEF HandleRequest, Asking
<1>3. request \in Requests /\ call \in Seq(Requests)
  <2>1. asked \in Seq(Kinds) /\ Len(asked) <= MaxRequests /\ request \in DOMAIN asked
    BY <1>0, <1>1 DEF Counted, Asking
  <2> QED
    BY <1>0, <2>1, BoundsAssumption DEF Counted, Requests
<1>4. /\ call' \in Seq(Requests) /\ Len(call') = Latest + 1 /\ call'[Latest + 1] = request
      /\ \A i \in DOMAIN call : i \in DOMAIN call' /\ call'[i] = call[i]
  BY <1>2, <1>3
<1>5. Latest + 1 \in Calls /\ Latest + 1 <= MaxCalls
  <2>1. Latest \in Nat /\ Latest < MaxCalls /\ MaxCalls \in Nat
    BY <1>3, BoundsAssumption DEF HandleRequest, MaxCalls
  <2> QED
    BY <2>1 DEF Calls
<1>6. stage' \in [Calls -> Stages] /\ Active' = {Latest + 1} /\ stage'[Latest + 1] = "provider"
  <2>1. stage' = [stage EXCEPT ![Latest + 1] = "provider"] /\ stage \in [Calls -> Stages]
    BY <1>0, <1>2, <1>4 DEF Counted
  <2>2. \A n \in Calls : stage'[n] = IF n = Latest + 1 THEN "provider" ELSE stage[n]
    BY <2>1
  <2>3. \A n \in Calls : stage[n] \notin {"provider", "username", "password"}
    BY <1>1 DEF Asking, Active
  <2> QED
    BY <1>5, <2>1, <2>2, <2>3 DEF Active, Stages
<1>7. Providing'
  BY <1>1, <1>2, <1>4, <1>5, <1>6 DEF Asking, Providing, Still, Due
<1>8. Counted' /\ Matched' /\ events' = <<>>
  <2>1. Len(call') <= MaxCalls
    BY <1>4, <1>5
  <2>2. Counted'
    BY <1>0, <1>2, <1>4, <1>6, <2>1 DEF Counted
  <2>3. Matched'
    BY <1>0, <1>2, <1>4 DEF Matched
  <2> QED
    BY <1>0, <1>2, <2>2, <2>3
<1> QED
  BY <1>7, <1>8 DEF TunnelInv, Phase

(* What a step that neither asks, calls nor connects keeps. *)
LEMMA CountedKept ==
    ASSUME Counted, stage' \in [Calls -> Stages], request' \in {0, request},
           UNCHANGED <<process, management, link, losses, asked, call>>
    PROVE  Counted'
<1>1. \/ request' = 0
      \/ request' = request
  OBVIOUS
<1> QED
  BY <1>1 DEF Counted, Latest

LEMMA KindIsKnown ==
    ASSUME Counted, Due
    PROVE  /\ KindOf(Latest) = asked[request] /\ management # 0
           /\ Latest \in DOMAIN call
BY DEF Counted, Due, KindOf, Calls, Latest

LEMMA AnswerKeeps ==
    ASSUME TunnelInv, NEW n \in Calls, Answer(n)
    PROVE  TunnelInv'
<1> USE DEF sessionVars, linkVars, clientVars, channelVars, askVars, callVars, collectorVars,
        serverVars
<1>0. Counted /\ Phase /\ Matched /\ events = <<>>
  BY DEF TunnelInv
<1>1. Providing /\ n = Latest
  BY <1>0, ProviderIsLatest DEF Answer, AnswerCredentials, AnswerWritten
<1>2. /\ link /\ ~busy /\ queue = <<>> /\ toPeer = <<>> /\ toClient = <<>> /\ Due
      /\ Active = {Latest} /\ management # 0
  BY <1>0, <1>1, KindIsKnown DEF Providing, Still, Due
<1>3. UNCHANGED <<process, management, link, losses, asked, call, request, used, events, toClient>>
  BY DEF Answer, AnswerCredentials, AnswerWritten
<1>4. Latest' = Latest /\ Due' /\ Matched'
  BY <1>0, <1>2, <1>3 DEF Latest, Due, Matched
<1>5. KindOf(Latest)' = KindOf(Latest)
  BY <1>3, <1>4 DEF KindOf
<1>6. CASE AnswerCredentials(n)
  <2>1. stage' = [stage EXCEPT ![n] = "username"] /\ KindOf(n) = "auth"
    BY <1>2, <1>6 DEF AnswerCredentials
  <2>2. Pump(<<Command("username", n)>>, busy, <<>>)
    <3>1. Pump(Append(queue, FirstCommand(n)), busy, toPeer)
      BY <1>2, <1>6 DEF AnswerCredentials
    <3>2. FirstCommand(n) = Command("username", n)
      BY DEF FirstCommand
    <3>3. Append(queue, FirstCommand(n)) = <<Command("username", n)>>
      BY <1>2, <3>2, Short
    <3> QED
      BY <1>2, <3>1, <3>3
  <2>3. queue' = <<Command("username", n)>> /\ busy' /\ toPeer' = queue'
    BY <1>2, <1>3, <2>2, Short DEF Pump
  <2>4. /\ stage' \in [Calls -> Stages] /\ stage'[n] = "username"
        /\ \A m \in Calls : m # n => stage'[m] = stage[m]
    BY <1>0, <2>1 DEF Counted, Stages
  <2>5. Active' = {Latest}
    BY <1>1, <1>2, <2>4 DEF Active
  <2>6. Naming'
    BY <1>1, <1>2, <1>3, <1>4, <1>5, <2>1, <2>3, <2>4, <2>5 DEF Naming, Submitted, Due
  <2> QED
    BY <1>0, <1>3, <1>4, <2>4, <2>6, CountedKept DEF TunnelInv, Phase
<1>7. CASE AnswerWritten(n)
  <2>1. stage' = [stage EXCEPT ![n] = "over"] /\ KindOf(n) \in Written
    BY <1>7 DEF AnswerWritten
  <2>2. queue' = <<>> /\ ~busy' /\ toPeer' = <<Command(KindOf(n), n)>>
    BY <1>2, <1>7, Short DEF AnswerWritten, WriteMultiline
  <2>3. /\ stage' \in [Calls -> Stages] /\ stage'[n] = "over"
        /\ \A m \in Calls : m # n => stage'[m] = stage[m]
    BY <1>0, <2>1 DEF Counted, Stages
  <2>4. Active' = {}
    BY <1>1, <1>2, <2>3 DEF Active
  <2>5. Writing'
    BY <1>1, <1>2, <1>3, <1>4, <1>5, <2>1, <2>2, <2>4 DEF Writing
  <2> QED
    BY <1>0, <1>3, <1>4, <2>3, <2>5, CountedKept DEF TunnelInv, Phase
<1> QED
  BY <1>6, <1>7 DEF Answer

LEMMA HandleReplyKeeps ==
    ASSUME TunnelInv, HandleReply
    PROVE  TunnelInv'
<1> USE DEF sessionVars, linkVars, clientVars, channelVars, askVars, callVars, collectorVars,
        serverVars
<1>0. Counted /\ Phase /\ Matched /\ events = <<>>
  BY DEF TunnelInv
<1>1. UNCHANGED <<process, management, link, losses, asked, call, request, held, used, events>>
  BY DEF HandleReply
<1>2. Latest' = Latest /\ Matched'
  BY <1>0, <1>1 DEF Latest, Matched
<1>3. /\ toClient' = Tail(toClient)
      /\ Pump(Tail(queue) \o Continuation(Head(queue)), FALSE, toPeer)
      /\ stage' = [n \in Calls |->
             CASE Head(queue) = Command("username", n) -> "password"
               [] Head(queue) = Command("password", n) -> "over"
               [] OTHER -> stage[n]]
  BY DEF HandleReply
<1>4. stage \in [Calls -> Stages]
  BY <1>0 DEF Counted
<1>5. CASE Naming /\ toPeer = <<>> /\ toClient = <<Reply>> /\ held = Latest
  <2>1. /\ link /\ Latest \in Calls /\ Active = {Latest} /\ Due /\ KindOf(Latest) = "auth"
        /\ queue = <<Command("username", Latest)>>
    BY <1>5 DEF Naming, Submitted
  <2>2. Head(queue) = Command("username", Latest) /\ Tail(queue) = <<>>
    BY <2>1, Short
  <2>3. Continuation(Head(queue)) = <<Command("password", Latest)>>
    BY <2>2, LineKinds DEF Continuation
  <2>4. Pump(<<Command("password", Latest)>>, FALSE, <<>>)
    BY <1>3, <1>5, <2>2, <2>3, Short
  <2>5. queue' = <<Command("password", Latest)>> /\ busy' /\ toPeer' = queue'
    BY <1>1, <2>1, <2>4, Short DEF Pump
  <2>6. toClient' = <<>>
    BY <1>3, <1>5, Short
  <2>7. /\ stage' \in [Calls -> Stages] /\ stage'[Latest] = "password"
        /\ \A n \in Calls : n # Latest => stage'[n] = stage[n]
    BY <1>3, <1>4, <2>1, <2>2 DEF Command, Stages
  <2>8. Active' = {Latest}
    BY <2>1, <2>7 DEF Active
  <2>9. Confirming'
    BY <1>1, <1>2, <1>5, <2>1, <2>5, <2>6, <2>7, <2>8 DEF Confirming, Submitted, Due, KindOf
  <2> QED
    BY <1>0, <1>1, <1>2, <2>7, <2>9, CountedKept DEF TunnelInv, Phase
<1>6. CASE Confirmed
  <2>1. /\ link /\ Latest \in Calls /\ Active = {Latest} /\ toPeer = <<>>
        /\ queue = <<Command("password", Latest)>>
    BY <1>6 DEF Confirmed, Submitted
  <2>2. Head(queue) = Command("password", Latest) /\ Tail(queue) = <<>>
    BY <2>1, Short
  <2>3. Continuation(Head(queue)) = <<>>
    BY <2>2, LineKinds DEF Continuation
  <2>4. Pump(<<>>, FALSE, <<>>)
    BY <1>3, <2>1, <2>2, <2>3, Short
  <2>5. queue' = <<>> /\ ~busy' /\ toPeer' = <<>>
    BY <2>4 DEF Pump
  <2>6. /\ stage' \in [Calls -> Stages] /\ stage'[Latest] = "over"
        /\ \A n \in Calls : n # Latest => stage'[n] = stage[n]
    BY <1>3, <1>4, <2>1, <2>2 DEF Command, Stages
  <2>7. Active' = {}
    BY <2>1, <2>6 DEF Active
  <2>8. CASE request = 0 /\ toClient = <<Reply>>
    <3>1. toClient' = <<>>
      BY <1>3, <2>8, Short
    <3>2. Resting'
      BY <1>1, <2>1, <2>5, <2>7, <2>8, <3>1 DEF Resting, Still
    <3> QED
      BY <1>0, <1>1, <1>2, <2>6, <3>2, CountedKept DEF TunnelInv, Phase
  <2>9. CASE request # 0 /\ toClient = <<Reply, Line("ask", request)>>
    <3>1. toClient' = <<Line("ask", request)>>
      BY <1>3, <2>9, Short
    <3>2. Asking'
      BY <1>1, <1>2, <2>1, <2>5, <2>7, <2>9, <3>1 DEF Asking, Still, Line
    <3> QED
      BY <1>0, <1>1, <1>2, <2>6, <3>2, CountedKept DEF TunnelInv, Phase
  <2> QED
    BY <1>6, <2>8, <2>9 DEF Confirmed
<1> QED
  BY <1>0, <1>5, <1>6, RepliedIsSubmitted DEF HandleReply

LEMMA AskKeeps ==
    ASSUME TunnelInv, NEW k \in Kinds, Ask(k)
    PROVE  TunnelInv'
<1> USE DEF sessionVars, linkVars, clientVars, channelVars, askVars, callVars, collectorVars,
        serverVars
<1>0. Counted /\ Phase /\ Matched /\ events = <<>>
  BY DEF TunnelInv
<1>1. /\ UNCHANGED <<process, management, link, losses, queue, busy, toPeer, call, stage, used, events>>
      /\ management # 0 /\ request = 0 /\ Len(asked) < MaxRequests
      /\ asked' = Append(asked, k) /\ request' = Len(asked')
      /\ toClient' = IF link THEN Append(toClient, Line("ask", request')) ELSE toClient
  BY DEF Ask
<1>2. /\ asked' \in Seq(Kinds) /\ Len(asked') = Len(asked) + 1 /\ Len(asked) \in Nat
      /\ request' \in DOMAIN asked' /\ request' # 0 /\ Len(asked') <= MaxRequests
  BY <1>0, <1>1, BoundsAssumption DEF Counted
<1>3. Latest' = Latest
  BY <1>1 DEF Latest
<1>4. Counted'
  BY <1>0, <1>1, <1>2, <1>3 DEF Counted
<1>5. Matched' /\ events' = <<>> /\ Active' = Active
  BY <1>0, <1>1 DEF Matched, Active
<1>6. Resting \/ Confirmed
  BY <1>0, <1>1 DEF Phase, Asking, Providing, Writing, Naming, Confirming, Due
<1>7. CASE Resting
  <2>1. Still' /\ Active' = {} /\ toClient = <<>>
    BY <1>1, <1>5, <1>7 DEF Resting, Still
  <2>2. CASE link
    <3>1. toClient' = <<Line("ask", request')>>
      BY <1>1, <2>1, <2>2, Short
    <3>2. Asking'
      BY <1>1, <1>2, <1>3, <2>1, <2>2, <3>1 DEF Asking, Line
    <3> QED
      BY <1>4, <1>5, <3>2 DEF TunnelInv, Phase
  <2>3. CASE ~link
    <3>1. Resting'
      BY <1>1, <1>3, <2>1, <2>3 DEF Resting
    <3> QED
      BY <1>4, <1>5, <3>1 DEF TunnelInv, Phase
  <2> QED
    BY <2>2, <2>3
<1>8. CASE Confirmed
  <2>1. Submitted("password") /\ toPeer = <<>> /\ toClient = <<Reply>> /\ link
    BY <1>1, <1>8 DEF Confirmed, Submitted
  <2>2. toClient' = <<Reply, Line("ask", request')>>
    BY <1>1, <2>1, Short
  <2>3. Submitted("password")' /\ toPeer' = <<>>
    BY <1>1, <1>3, <1>5, <2>1 DEF Submitted
  <2>4. toClient' = <<Reply', Line("ask", request)'>>
    BY <2>2 DEF Reply, Line
  <2>5. Confirmed'
    BY <1>1, <1>2, <1>3, <2>3, <2>4 DEF Confirmed
  <2> QED
    BY <1>4, <1>5, <2>5 DEF TunnelInv, Phase
<1> QED
  BY <1>6, <1>7, <1>8

(* OpenVPN goes on with what the latest call made it send. *)
LEMMA UsedMatches ==
    ASSUME Matched, Due, Counted, UNCHANGED call,
           used' = used \cup {[request |-> request, answer |-> Latest, user |-> Latest,
                               late |-> overtaken]}
    PROVE  Matched'
BY KindIsKnown DEF Matched, Due

LEMMA ExecuteKeeps ==
    ASSUME TunnelInv, Execute
    PROVE  TunnelInv'
<1> USE DEF sessionVars, linkVars, clientVars, channelVars, askVars, callVars, collectorVars,
        serverVars
<1>0. Counted /\ Phase /\ Matched /\ events = <<>>
  BY DEF TunnelInv
<1>1. /\ UNCHANGED <<process, management, link, losses, queue, busy, asked, call, stage, events>>
      /\ toPeer # <<>> /\ toPeer' = Tail(toPeer)
      /\ TakeAnswer(Head(toPeer)) \/ TakeVerdict(Head(toPeer))
      /\ toClient' = IF Head(toPeer).what \in Written THEN toClient ELSE Append(toClient, Reply)
  BY DEF Execute
<1>2. Latest' = Latest /\ Active' = Active /\ stage' \in [Calls -> Stages]
  BY <1>0, <1>1 DEF Latest, Active, Counted
<1>3. Due /\ KindOf(Latest) = asked[request]
  BY <1>0, <1>1, SentIsDue, KindIsKnown DEF Writing, Naming, Confirming
<1>4. CASE Writing
  <2>1. /\ Head(toPeer) = Command(KindOf(Latest), Latest) /\ Tail(toPeer) = <<>>
        /\ KindOf(Latest) \in Written
    BY <1>4, Short DEF Writing
  <2>2. Head(toPeer).what = KindOf(Latest) /\ Head(toPeer).of = Latest
    BY <2>1, LineKinds
  <2>3. Wanted(Head(toPeer)) /\ Head(toPeer).what \notin {"username", "password"} \cup Verdicts
    BY <1>3, <2>1, <2>2 DEF Wanted, Due, Written, Verdicts
  <2>4. /\ request' = 0
        /\ used' = used \cup {[request |-> request, answer |-> Latest, user |-> Latest,
                               late |-> overtaken]}
    BY <1>1, <2>2, <2>3 DEF TakeAnswer, TakeVerdict
  <2>5. toClient' = <<>> /\ toPeer' = <<>>
    BY <1>1, <1>4, <2>1, <2>2 DEF Writing
  <2>6. Resting'
    BY <1>1, <1>2, <1>3, <1>4, <2>4, <2>5 DEF Writing, Resting, Still, Due
  <2> QED
    BY <1>0, <1>1, <1>2, <1>3, <2>4, <2>6, CountedKept, UsedMatches DEF TunnelInv, Phase
<1>5. CASE Naming /\ toPeer = queue /\ toClient = <<>>
  <2>1. /\ link /\ busy /\ Latest \in Calls /\ Active = {Latest} /\ stage[Latest] = "username"
        /\ queue = <<Command("username", Latest)>> /\ KindOf(Latest) = "auth"
    BY <1>5 DEF Naming, Submitted
  <2>2. Head(toPeer) = Command("username", Latest) /\ Tail(toPeer) = <<>>
    BY <1>5, <2>1, Short
  <2>3. Head(toPeer).what = "username" /\ Head(toPeer).of = Latest
    BY <2>2, LineKinds
  <2>4. Wanted(Head(toPeer))
    BY <1>3, <2>1, <2>3 DEF Wanted, Due, Written
  <2>5. request' = request /\ used' = used /\ held' = Latest
    BY <1>1, <2>3, <2>4 DEF TakeAnswer, TakeVerdict, Written, Verdicts
  <2>6. toClient' = <<Reply>> /\ toPeer' = <<>>
    BY <1>1, <1>5, <2>2, <2>3, Short DEF Written
  <2>7. Naming'
    <3>1. Due' /\ KindOf(Latest)' = "auth"
      BY <1>1, <1>2, <1>3, <2>1, <2>5 DEF Due, KindOf
    <3>2. Submitted("username")'
      BY <1>1, <1>2, <2>1 DEF Submitted
    <3> QED
      BY <1>2, <2>5, <2>6, <3>1, <3>2 DEF Naming, Reply, Line
  <2>8. Matched'
    BY <1>0, <1>1, <2>5 DEF Matched
  <2> QED
    BY <1>0, <1>1, <1>2, <2>5, <2>7, <2>8, CountedKept DEF TunnelInv, Phase
<1>6. CASE Confirming
  <2>1. /\ link /\ busy /\ Latest \in Calls /\ Active = {Latest} /\ stage[Latest] = "password"
        /\ queue = <<Command("password", Latest)>> /\ KindOf(Latest) = "auth"
        /\ toPeer = queue /\ toClient = <<>> /\ held = Latest
    BY <1>6 DEF Confirming, Submitted
  <2>2. Head(toPeer) = Command("password", Latest) /\ Tail(toPeer) = <<>>
    BY <2>1, Short
  <2>3. Head(toPeer).what = "password" /\ Head(toPeer).of = Latest
    BY <2>2, LineKinds
  <2>4. Wanted(Head(toPeer))
    BY <1>3, <2>1, <2>3 DEF Wanted, Due, Written
  <2>5. /\ request' = 0
        /\ used' = used \cup {[request |-> request, answer |-> Latest, user |-> Latest,
                               late |-> overtaken]}
    BY <1>1, <2>1, <2>3, <2>4 DEF TakeAnswer, TakeVerdict, Written, Verdicts
  <2>6. toClient' = <<Reply>> /\ toPeer' = <<>>
    BY <1>1, <2>1, <2>2, <2>3, Short DEF Written
  <2>7. Confirmed'
    <3>1. Submitted("password")'
      BY <1>1, <1>2, <2>1 DEF Submitted
    <3> QED
      BY <2>5, <2>6, <3>1 DEF Confirmed, Reply, Line
  <2> QED
    BY <1>0, <1>1, <1>2, <1>3, <2>5, <2>7, CountedKept, UsedMatches DEF TunnelInv, Phase
<1> QED
  BY <1>0, <1>1, <1>4, <1>5, <1>6, SentIsDue

(* A tunnel has no clients. *)
LEMMA NextKeeps ==
    ASSUME TunnelInv, role = "tunnel", ~overtaken', [Next]_vars
    PROVE  TunnelInv'
<1>1. CASE Session
  BY <1>1, SessionKeeps
<1>2. CASE Handle
  <2>1. CASE HandleClientLine
    <3>1. toClient # <<>> /\ CollectorPush(Head(toClient)) /\ Phase
      BY <2>1 DEF HandleClientLine, TunnelInv
    <3>2. Head(toClient).kind \in {"CONNECT", "ENV", "END", "ESTABLISHED", "DISCONNECT"}
      BY <3>1 DEF CollectorPush
    <3> QED
      BY <3>1, <3>2, NoClientLines
  <2> QED
    BY <1>2, <2>1, HandleRequestKeeps, HandleReplyKeeps DEF Handle
<1>3. CASE Application
  <2>1. ASSUME NEW c \in Clients, NEW v \in Verdicts, Decide(c, v) PROVE FALSE
    <3>1. events = <<>> /\ \E i \in DOMAIN events : events[i].type = "connect-env"
      BY <2>1 DEF Decide, TunnelInv
    <3> QED
      BY <3>1
  <2> QED
    BY <1>3, <2>1, AnswerKeeps DEF Application
<1>4. CASE OpenVPN
  BY <1>4, AskKeeps, ExecuteKeeps DEF OpenVPN, ClientMoves
<1>5. CASE UNCHANGED vars
  <2> USE DEF vars, sessionVars, linkVars, clientVars, channelVars, askVars, callVars,
          collectorVars, serverVars
  <2>1. Counted' /\ Matched' /\ events' = <<>>
    BY <1>5 DEF TunnelInv, Counted, Matched, Latest
  <2>2. Phase'
    <3>1. UNCHANGED <<Active, Latest, Still, Due, KindOf(Latest)>>
      BY <1>5 DEF Active, Latest, Still, Due, KindOf
    <3> QED
      BY <1>5, <3>1 DEF TunnelInv, Phase, Resting, Asking, Providing, Writing, Naming, Confirming,
         Confirmed, Submitted, Reply, Line
  <2> QED
    BY <2>1, <2>2 DEF TunnelInv
<1> QED
  BY <1>1, <1>2, <1>3, <1>4, <1>5 DEF Next

----------------------------------------------------------------------------
\* The steps when late answers may be under way

LEMMA NamesRequest ==
    ASSUME TypeOK, toClient # <<>>, Head(toClient).kind = "ask"
    PROVE  Head(toClient).of \in Requests
<1>1. Head(toClient) \in Lines
  BY HeadTailProperties DEF TypeOK
<1> QED
  BY <1>1 DEF Lines

(* The bounds, whoever answers. *)
LEMMA CountedNext ==
    ASSUME TypeOK, TypeOK', Counted, [Next]_vars
    PROVE  Counted'
<1> USE DEF Latest, sessionVars, linkVars, clientVars, channelVars, askVars, callVars, collectorVars,
        serverVars
<1> SUFFICES /\ Len(asked') <= MaxRequests /\ request' \in {0} \cup DOMAIN asked'
             /\ Len(call') <= MaxCalls
             /\ management' = 0 => ~link' /\ request' = 0
  BY BoundsAssumption DEF Counted, TypeOK, Processes
<1> DEFINE Same == UNCHANGED <<asked, request, call>>
<1>1. CASE Session
  <2>1. CASE Connect
    <3>1. management' # 0
      BY <2>1 DEF Connect, TypeOK, Processes
    <3> QED
      BY <2>1, <3>1 DEF Connect, Counted
  <2>2. CASE Disconnect
    BY <2>2 DEF Disconnect, Counted
  <2>3. CASE Lose
    BY <2>3 DEF Lose, Counted
  <2>4. CASE Reconnect
    BY <2>4 DEF Reconnect, Counted
  <2>5. ASSUME NEW n \in Calls, Expire(n) PROVE Same /\ UNCHANGED <<management, link>>
    BY <2>5 DEF Expire
  <2> QED
    BY <1>1, <2>1, <2>2, <2>3, <2>4, <2>5 DEF Session, Counted
<1>2. CASE Handle
  <2>1. CASE HandleRequest
    <3>1. Head(toClient).of \in Requests
      BY <2>1, NamesRequest DEF HandleRequest
    <3>2. Len(call') = Len(call) + 1 /\ Len(call) < MaxCalls /\ Len(call) \in Nat
      BY <2>1, <3>1, AppendProperties DEF HandleRequest, TypeOK
    <3>3. Len(call') <= MaxCalls
      BY <3>2, BoundsAssumption DEF MaxCalls
    <3>4. UNCHANGED <<asked, request, management, link>>
      BY <2>1 DEF HandleRequest
    <3> QED
      BY <3>3, <3>4 DEF Counted
  <2>2. CASE HandleReply \/ HandleClientLine
    <3>1. UNCHANGED <<asked, request, call, management, link>>
      BY <2>2 DEF HandleReply, HandleClientLine
    <3> QED
      BY <3>1 DEF Counted
  <2> QED
    BY <1>2, <2>1, <2>2 DEF Handle
<1>3. CASE Application
  BY <1>3 DEF Application, Answer, AnswerCredentials, AnswerWritten, Decide, Counted
<1>4. CASE OpenVPN
  <2>1. ASSUME NEW k \in Kinds, Ask(k)
        PROVE  /\ Len(asked') <= MaxRequests /\ request' \in DOMAIN asked'
               /\ UNCHANGED <<call, management>> /\ management # 0
    <3>1. /\ Len(asked') = Len(asked) + 1 /\ Len(asked) \in Nat /\ Len(asked) < MaxRequests
          /\ asked' \in Seq(Kinds)
      BY <2>1, AppendProperties DEF Ask, TypeOK
    <3>2. request' \in DOMAIN asked'
      BY <2>1, <3>1, LenProperties DEF Ask
    <3>3. Len(asked') <= MaxRequests
      BY <3>1, BoundsAssumption
    <3> QED
      BY <2>1, <3>2, <3>3 DEF Ask
  <2>2. CASE Execute
    <3>1. request' \in {0, request}
      BY <2>2 DEF Execute, TakeAnswer, TakeVerdict
    <3> QED
      BY <2>2, <3>1 DEF Execute, Counted
  <2>3. ASSUME NEW c \in Clients, NEW m \in Moves, ClientMoves(c, m)
        PROVE  Same /\ UNCHANGED <<management, link>>
    BY <2>3 DEF ClientMoves
  <2> QED
    BY <1>4, <2>1, <2>2, <2>3 DEF OpenVPN, Counted
<1>5. CASE UNCHANGED vars
  BY <1>5 DEF vars, Counted
<1> QED
  BY <1>1, <1>2, <1>3, <1>4, <1>5 DEF Next

(* A tunnel is told nothing but requests and replies. *)
LEMMA OnlyAskedNext ==
    ASSUME TypeOK, TypeOK', OnlyAsked, role = "tunnel", [Next]_vars
    PROVE  OnlyAsked'
<1> USE DEF sessionVars, linkVars, clientVars, channelVars, askVars, callVars, collectorVars,
        serverVars
<1>1. ASSUME toClient' = toClient \/ toClient' = <<>>, events' = <<>> PROVE OnlyAsked'
  BY <1>1 DEF OnlyAsked
<1>2. ASSUME toClient # <<>>, toClient' = Tail(toClient), events' = <<>> PROVE OnlyAsked'
  <2>1. \A i \in DOMAIN toClient' : i + 1 \in DOMAIN toClient /\ toClient'[i] = toClient[i + 1]
    BY <1>2, TailLines DEF TypeOK
  <2> QED
    BY <1>2, <2>1 DEF OnlyAsked
<1>3. ASSUME NEW l \in Lines, l.kind \in {"ask", "reply"}, toClient' = Append(toClient, l), events' = <<>>
      PROVE  OnlyAsked'
  <2>1. \A i \in DOMAIN toClient' : i \in DOMAIN toClient \/ toClient'[i] = l
    BY <1>3, AppendLines DEF TypeOK
  <2>2. \A i \in DOMAIN toClient : toClient'[i] = toClient[i]
    BY <1>3, AppendLines DEF TypeOK
  <2> QED
    BY <1>3, <2>1, <2>2 DEF OnlyAsked
<1>4. events = <<>>
  BY DEF OnlyAsked
<1>5. CASE Session
  <2>1. CASE Connect \/ Disconnect \/ Lose
    BY <1>1, <1>4, <2>1 DEF Connect, Disconnect, Lose
  <2>2. CASE Reconnect
    <3>1. CASE request = 0
      BY <1>1, <1>4, <2>2, <3>1 DEF Reconnect
    <3>2. CASE request # 0
      <4>1. toClient' = <<Line("ask", request)>> /\ events' = <<>>
        BY <1>4, <2>2, <3>2 DEF Reconnect
      <4>2. \A i \in DOMAIN toClient' : toClient'[i] = Line("ask", request)
        BY <4>1
      <4> QED
        BY <4>1, <4>2, LineKinds DEF OnlyAsked
    <3> QED
      BY <3>1, <3>2
  <2>3. ASSUME NEW n \in Calls, Expire(n) PROVE OnlyAsked'
    BY <1>1, <1>4, <2>3 DEF Expire
  <2> QED
    BY <1>5, <2>1, <2>2, <2>3 DEF Session
<1>6. CASE Handle
  <2>1. CASE HandleRequest \/ HandleReply
    BY <1>2, <1>4, <2>1 DEF HandleRequest, HandleReply
  <2>2. CASE HandleClientLine
    <3>1. toClient # <<>> /\ Head(toClient).kind \notin {"ask", "reply"}
      BY <2>2 DEF HandleClientLine, CollectorPush
    <3>2. Head(toClient) = toClient[1] /\ 1 \in DOMAIN toClient
      BY <3>1, TailLines DEF TypeOK
    <3> QED
      BY <3>1, <3>2 DEF OnlyAsked
  <2> QED
    BY <1>6, <2>1, <2>2 DEF Handle
<1>7. CASE Application
  BY <1>1, <1>4, <1>7 DEF Application, Answer, AnswerCredentials, AnswerWritten, Decide
<1>8. CASE OpenVPN
  <2>1. ASSUME NEW k \in Kinds, Ask(k) PROVE OnlyAsked'
    <3>1. CASE ~link
      BY <1>1, <1>4, <2>1, <3>1 DEF Ask
    <3>2. CASE link
      <4>1. request' \in Requests
        <5>1. Len(asked') = Len(asked) + 1 /\ Len(asked) \in Nat /\ Len(asked) < MaxRequests
          BY <2>1, AppendProperties DEF Ask, TypeOK
        <5> QED
          BY <2>1, <5>1, BoundsAssumption DEF Ask, Requests
      <4>2. Line("ask", request') \in Lines /\ Line("ask", request').kind = "ask"
        BY <4>1, LineTypes, LineKinds
      <4> QED
        BY <1>3, <1>4, <2>1, <3>2, <4>2 DEF Ask
    <3> QED
      BY <3>1, <3>2
  <2>2. CASE Execute
    <3>1. Reply \in Lines /\ Reply.kind = "reply"
      BY LineTypes, LineKinds
    <3>2. toClient' = toClient \/ toClient' = Append(toClient, Reply)
      BY <2>2 DEF Execute
    <3>3. events' = <<>>
      BY <1>4, <2>2 DEF Execute
    <3> QED
      BY <1>1, <1>3, <3>1, <3>2, <3>3
  <2> QED
    BY <1>8, <2>1, <2>2 DEF OpenVPN, ClientMoves
<1>9. CASE UNCHANGED vars
  BY <1>1, <1>4, <1>9 DEF vars
<1> QED
  BY <1>5, <1>6, <1>7, <1>8, <1>9 DEF Next

(* No answer is used, or one of which nothing is claimed. *)
LEMMA MatchedLate ==
    ASSUME TypeOK, Matched, overtaken \/ ~Execute, [Next]_vars
    PROVE  Matched'
<1> USE DEF sessionVars, linkVars, clientVars, channelVars, askVars, callVars, collectorVars,
        serverVars
<1>1. CASE used' = used /\ call' = call
  BY <1>1 DEF Matched
<1>2. CASE HandleRequest
  <2>1. Head(toClient).of \in Requests
    BY <1>2, NamesRequest DEF HandleRequest
  <2>2. used' = used /\ \A i \in DOMAIN call : i \in DOMAIN call' /\ call'[i] = call[i]
    BY <1>2, <2>1, AppendLines DEF HandleRequest, TypeOK
  <2> QED
    BY <2>2 DEF Matched
<1>3. CASE Execute
  <2>1. call' = call /\ \A u \in used' : u \in used \/ u.late
    <3>1. CASE used' = used
      BY <1>3, <3>1 DEF Execute
    <3>2. PICK r : r = [request |-> request, answer |-> Head(toPeer).of,
                        user |-> IF Head(toPeer).what = "password" THEN held ELSE Head(toPeer).of,
                        late |-> overtaken]
      OBVIOUS
    <3>3. used' = used \/ used' = used \cup {r}
      BY <1>3, <3>2 DEF Execute, TakeAnswer, TakeVerdict
    <3>4. r.late
      BY <1>3, <3>2, Zenon
    <3> QED
      BY <1>3, <3>1, <3>3, <3>4 DEF Execute
  <2> QED
    BY <2>1 DEF Matched
<1>4. Next => Execute \/ HandleRequest \/ (used' = used /\ call' = call)
  <2>1. Session => used' = used /\ call' = call
    BY DEF Session, Connect, Disconnect, Lose, Reconnect, Expire
  <2>2. Handle => HandleRequest \/ (used' = used /\ call' = call)
    BY DEF Handle, HandleReply, HandleClientLine
  <2>3. Application => used' = used /\ call' = call
    BY DEF Application, Answer, AnswerCredentials, AnswerWritten, Decide
  <2>4. OpenVPN => Execute \/ (used' = used /\ call' = call)
    BY DEF OpenVPN, Ask, ClientMoves
  <2> QED
    BY <2>1, <2>2, <2>3, <2>4 DEF Next
<1> QED
  BY <1>1, <1>2, <1>3, <1>4 DEF vars

(* Providers outlive a connection when it is lost or replaced, until       *)
(* OpenVPN asks when all is over; and what it runs as does not change.     *)
LEMMA NextRemembers ==
    ASSUME Next
    PROVE  /\ role' = role
           /\ \/ overtaken' <=> overtaken
              \/ overtaken' /\ ~Execute
              \/ Quiet /\ \E k \in Kinds : Ask(k)
<1> USE DEF sessionVars, askVars
<1>1. role' = role
  <2>1. Session => role' = role
    BY DEF Session, Connect, Disconnect, Lose, Reconnect, Expire
  <2>2. Handle => role' = role
    BY DEF Handle, HandleRequest, HandleReply, HandleClientLine
  <2>3. Application => role' = role
    BY DEF Application, Answer, AnswerCredentials, AnswerWritten, Decide
  <2>4. OpenVPN => role' = role
    BY DEF OpenVPN, Ask, Execute, ClientMoves
  <2> QED
    BY <2>1, <2>2, <2>3, <2>4 DEF Next
<1>2. CASE Execute
  BY <1>1, <1>2 DEF Execute
<1>3. ASSUME NEW k \in Kinds, Ask(k) PROVE overtaken' = (overtaken /\ ~Quiet)
  BY <1>3 DEF Ask
<1>4. Disconnect \/ Lose => overtaken' = (overtaken \/ AtWork # {})
  BY DEF Disconnect, Lose
<1>5. Next => Disconnect \/ Lose \/ (\E k \in Kinds : Ask(k)) \/ overtaken' = overtaken
  <2>1. Session => Disconnect \/ Lose \/ overtaken' = overtaken
    BY DEF Session, Connect, Reconnect, Expire
  <2>2. Handle => overtaken' = overtaken
    BY DEF Handle, HandleRequest, HandleReply, HandleClientLine
  <2>3. Application => overtaken' = overtaken
    BY DEF Application, Answer, AnswerCredentials, AnswerWritten, Decide
  <2>4. OpenVPN => (\E k \in Kinds : Ask(k)) \/ overtaken' = overtaken
    BY DEF OpenVPN, Execute, ClientMoves
  <2> QED
    BY <2>1, <2>2, <2>3, <2>4 DEF Next
<1> HIDE DEF sessionVars, askVars
<1>6. CASE Disconnect \/ Lose
  <2>1. overtaken' = (overtaken \/ AtWork # {})
    BY <1>4, <1>6
  <2>2. CASE overtaken \/ AtWork # {}
    BY <1>1, <1>2, <2>1, <2>2, Zenon
  <2>3. CASE ~overtaken /\ AtWork = {}
    <3>1. ~overtaken'
      BY <2>1, <2>3, Zenon
    <3> QED
      BY <1>1, <2>3, <3>1
  <2> QED
    BY <2>2, <2>3
<1>7. ASSUME NEW k \in Kinds, Ask(k)
      PROVE  (overtaken' <=> overtaken) \/ (Quiet /\ \E j \in Kinds : Ask(j))
  <2>1. CASE Quiet
    BY <1>7, <2>1
  <2>2. CASE ~Quiet
    BY <1>3, <1>7, <2>2, Zenon
  <2> QED
    BY <2>1, <2>2
<1> QED
  BY <1>1, <1>5, <1>6, <1>7

(* Nothing is asked of a server, so that it uses no answer. *)
LEMMA ServerKeeps ==
    ASSUME role # "tunnel", used = {}, request = 0, Next
    PROVE  used' = {} /\ request' = 0
<1> USE DEF askVars
<1>1. CASE Session
  BY <1>1 DEF Session, Connect, Disconnect, Lose, Reconnect, Expire
<1>2. CASE Handle
  BY <1>2 DEF Handle, HandleRequest, HandleReply, HandleClientLine
<1>3. CASE Application
  BY <1>3 DEF Application, Answer, AnswerCredentials, AnswerWritten, Decide
<1>4. CASE OpenVPN
  <2>1. CASE Execute
    BY <2>1 DEF Execute, TakeAnswer, TakeVerdict, Wanted
  <2>2. ASSUME NEW c \in Clients, NEW m \in Moves, ClientMoves(c, m)
        PROVE  used' = {} /\ request' = 0
    BY <2>2 DEF ClientMoves
  <2> QED
    BY <1>4, <2>1, <2>2 DEF OpenVPN, Ask
<1> QED
  BY <1>1, <1>2, <1>3, <1>4 DEF Next

LEMMA InitAnswers == Init => AnswersInv
<1> SUFFICES ASSUME Init PROVE AnswersInv
  OBVIOUS
<1>1. Active = {}
  BY DEF Init, Active
<1>2. Counted
  <2>1. asked = <<>> /\ call = <<>> /\ losses = 0 /\ Len(asked) = 0 /\ Len(call) = 0
    BY DEF Init
  <2>2. asked \in Seq(Kinds) /\ call \in Seq(Requests)
    BY <2>1
  <2>3. stage \in [Calls -> Stages]
    BY DEF Init, Stages
  <2>4. request = 0 /\ link = FALSE /\ process = 0
    BY DEF Init
  <2>5. Len(asked) <= MaxRequests /\ losses \in 0 .. MaxLosses /\ Len(call) <= MaxCalls
    BY <2>1, BoundsAssumption DEF MaxCalls
  <2> QED
    BY <2>2, <2>3, <2>4, <2>5 DEF Counted, Latest
<1>3. Resting
  BY <1>1 DEF Init, Resting, Still
<1> QED
  BY <1>2, <1>3 DEF Init, AnswersInv, Phase, Matched, OnlyAsked

(* A step of a tunnel. *)
LEMMA TunnelNext ==
    ASSUME AnswersInv, role = "tunnel", TypeOK, TypeOK', [Next]_vars
    PROVE  Counted' /\ Matched' /\ OnlyAsked' /\ (~overtaken' => Phase')
<1>1. Counted /\ Matched /\ OnlyAsked /\ (~overtaken => Phase) /\ events = <<>>
  BY DEF AnswersInv, OnlyAsked
<1>2. Counted' /\ OnlyAsked'
  BY <1>1, CountedNext, OnlyAskedNext
<1>3. ASSUME ~overtaken, ~overtaken' PROVE Phase' /\ Matched'
  BY <1>1, <1>3, NextKeeps DEF TunnelInv
<1>4. ASSUME Quiet, NEW k \in Kinds, Ask(k) PROVE Phase' /\ Matched'
  <2>1. management # 0 /\ request = 0
    BY <1>4 DEF Ask
  <2>2. Resting
    BY <1>4, <2>1 DEF Quiet, Resting, Still
  <2>3. TunnelInv
    BY <1>1, <2>2 DEF TunnelInv, Phase
  <2>4. TunnelInv'
    BY <1>4, <2>3, AskKeeps
  <2> QED
    BY <2>4 DEF TunnelInv
<1>5. ASSUME overtaken \/ ~Execute PROVE Matched'
  BY <1>1, <1>5, MatchedLate
<1>6. CASE UNCHANGED vars
  <2>1. overtaken' = overtaken
    BY <1>6 DEF vars, askVars
  <2> QED
    BY <1>2, <1>3, <1>5, <2>1
<1>7. CASE Next
  <2>1. \/ overtaken' <=> overtaken
        \/ overtaken' /\ ~Execute
        \/ Quiet /\ \E k \in Kinds : Ask(k)
    BY <1>7, NextRemembers
  <2> QED
    BY <1>2, <1>3, <1>4, <1>5, <2>1
<1> QED
  BY <1>6, <1>7

LEMMA AnswersInvHolds == Spec => []AnswersInv
<1>1. AnswersInv /\ TypeOK /\ TypeOK' /\ [Next]_vars => AnswersInv'
  <2> SUFFICES ASSUME AnswersInv, TypeOK, TypeOK', [Next]_vars PROVE AnswersInv'
    OBVIOUS
  <2>1. role' = role
    BY NextRemembers DEF vars, sessionVars
  <2>2. role # "tunnel" => used' = {} /\ request' = 0
    BY ServerKeeps DEF AnswersInv, vars, askVars
  <2>3. role = "tunnel" => Counted' /\ Matched' /\ OnlyAsked' /\ (~overtaken' => Phase')
    BY TunnelNext
  <2> QED
    BY <2>1, <2>2, <2>3 DEF AnswersInv
<1> QED
  BY <1>1, InitAnswers, TypeCorrect, PTL DEF Spec

----------------------------------------------------------------------------
\* Results

(* OpenVPN goes on with the user name and the password of one answer and   *)
(* with the answer to the request it made, whatever connections are lost   *)
(* or replaced, unless a provider was at work on a lost or replaced        *)
(* connection and OpenVPN has not made a request since with everything     *)
(* before it over: a late answer spoils no request but those made while it *)
(* or its consequences are under way (index.ts:192-195, 274-312).          *)
THEOREM AnswersMatch == Spec => []AnswersMatchRequests
<1>1. AnswersInv => AnswersMatchRequests
  BY DEF AnswersInv, Matched, AnswersMatchRequests
<1> QED
  BY <1>1, AnswersInvHolds, PTL

----------------------------------------------------------------------------
\* What is said of a client, and in which order

Headers == {"CONNECT", "ESTABLISHED", "DISCONNECT"}

Told(c) == \E i \in DOMAIN events : events[i].cid = c

(* Is line i about client c? *)
Reports(i, c) == toClient[i].of = c /\ toClient[i].kind \notin {"ask", "reply"}

(* Every block is whole. *)
Framed ==
    \A i \in DOMAIN toClient :
        /\ toClient[i].kind \in Headers =>
               i + 1 \in DOMAIN toClient /\ toClient[i + 1] = Line("ENV", toClient[i].of)
        /\ toClient[i].kind = "ENV" =>
               i + 1 \in DOMAIN toClient /\ toClient[i + 1] = Line("END", toClient[i].of)

(* What the collector holds is continued by the next line. *)
Continued(c) ==
    /\ toClient # <<>>
    /\ \/ pending = [cid |-> {c}, env |-> {}] /\ toClient[1] = Line("ENV", c)
       \/ pending = [cid |-> {c}, env |-> {c}] /\ toClient[1] = Line("END", c)

Collecting ==
    management # 0 /\ pending # NoBlock => \E c \in Clients : Continued(c)

(* A client that is not there yet was never heard of. *)
Unknown ==
    \A c \in Clients : peer[c] = "absent" =>
        /\ ~Told(c) /\ c \notin pending.cid
        /\ \A i \in DOMAIN toClient : ~Reports(i, c)

(* The first report about a client is the CONNECT block. *)
Announced ==
    \A j \in DOMAIN toClient : toClient[j].kind = "CONNECT" =>
        /\ ~Told(toClient[j].of) /\ toClient[j].of \notin pending.cid
        /\ \A i \in 1 .. j - 1 : ~Reports(i, toClient[j].of)

Untold == \A c \in pending.cid : ~Told(c)

Silent ==
    /\ management = 0 => ~link
    /\ ~link => toClient = <<>> /\ toPeer = <<>>

ReportsInv ==
    /\ Framed /\ Collecting /\ Unknown /\ Announced /\ Untold /\ ClientConnectIsGenuine

----------------------------------------------------------------------------
\* Lines that are taken off the front and put at the end

LEMMA BlockLines ==
    ASSUME NEW T, NEW s \in Seq(T), NEW x \in T, NEW y \in T, NEW z \in T
    PROVE  LET t == s \o <<x, y, z>>
           IN  /\ t # <<>> /\ DOMAIN t = 1 .. (Len(s) + 3) /\ DOMAIN s = 1 .. Len(s) /\ Len(s) \in Nat
               /\ \A i \in 1 .. Len(s) : t[i] = s[i]
               /\ t[Len(s) + 1] = x /\ t[Len(s) + 2] = y /\ t[Len(s) + 3] = z
<1> DEFINE b == <<x, y, z>>
<1>1. b \in Seq(T) /\ Len(b) = 3 /\ b[1] = x /\ b[2] = y /\ b[3] = z
  <2>1. b \in Seq(T)
    OBVIOUS
  <2>2. Len(b) = 3 /\ b[1] = x /\ b[2] = y /\ b[3] = z
    OBVIOUS
  <2> QED
    BY <2>1, <2>2
<1>2. Len(s) \in Nat /\ DOMAIN s = 1 .. Len(s)
  BY LenProperties
<1> HIDE DEF b
<1>3. /\ s \o b \in Seq(T) /\ Len(s \o b) = Len(s) + 3
      /\ \A i \in 1 .. Len(s) + 3 : (s \o b)[i] = IF i <= Len(s) THEN s[i] ELSE b[i - Len(s)]
  <2>1. /\ s \o b \in Seq(T) /\ Len(s \o b) = Len(s) + Len(b)
        /\ \A i \in 1 .. Len(s) + Len(b) : (s \o b)[i] = IF i <= Len(s) THEN s[i] ELSE b[i - Len(s)]
    BY <1>1, ConcatProperties
  <2> QED
    BY <1>1, <2>1
<1>4. DOMAIN (s \o b) = 1 .. (Len(s) + 3) /\ s \o b # <<>>
  BY <1>2, <1>3, LenProperties, EmptySeq
<1>5. /\ \A i \in 1 .. Len(s) : (s \o b)[i] = s[i]
      /\ (s \o b)[Len(s) + 1] = x /\ (s \o b)[Len(s) + 2] = y /\ (s \o b)[Len(s) + 3] = z
  BY <1>1, <1>2, <1>3
<1> QED
  BY <1>2, <1>4, <1>5 DEF b

LEMMA LineOfKind ==
    /\ \A l \in Lines : l.kind \in {"ask", "reply"} \cup Headers \cup {"ENV", "END"}
    /\ \A l \in Lines : l.kind \in Headers \cup {"ENV", "END"} => l.of \in Clients
BY DEF Lines, Headers

----------------------------------------------------------------------------
\* Steps that handle no report about a client

LEMMA UnchangedKeeps ==
    ASSUME ReportsInv, UNCHANGED <<management, toClient, pending, events, peer>>
    PROVE  ReportsInv'
BY DEF ReportsInv, Framed, Collecting, Continued, Unknown, Announced, Untold, ClientConnectIsGenuine,
   Told, Reports, Line

(* Everything on its way is dropped between two blocks, or by an end. *)
LEMMA DropKeeps ==
    ASSUME ReportsInv, toClient' = <<>>, UNCHANGED <<pending, events, peer>>,
           management' = 0 \/ pending = NoBlock
    PROVE  ReportsInv'
<1>1. DOMAIN toClient' = {}
  OBVIOUS
<1>2. Framed' /\ Announced'
  BY <1>1 DEF Framed, Announced
<1>3. Unknown' /\ Untold' /\ ClientConnectIsGenuine'
  BY <1>1 DEF ReportsInv, Unknown, Untold, ClientConnectIsGenuine, Told
<1>4. Collecting'
  BY DEF Collecting
<1> QED
  BY <1>2, <1>3, <1>4 DEF ReportsInv

(* A line that reports nothing is taken off the front. *)
LEMMA PopKeeps ==
    ASSUME ReportsInv, toClient \in Seq(Lines), toClient # <<>>, management # 0,
           toClient' = Tail(toClient), Head(toClient).kind \in {"ask", "reply"},
           UNCHANGED <<management, pending, events, peer>>
    PROVE  ReportsInv'
<1>1. /\ toClient[1].kind \in {"ask", "reply"}
      /\ \A i \in DOMAIN toClient' : i \in Nat \ {0} /\ i + 1 \in DOMAIN toClient
                                       /\ toClient'[i] = toClient[i + 1]
      /\ \A i \in DOMAIN toClient : i + 1 \in DOMAIN toClient => i \in DOMAIN toClient'
  BY TailLines
<1>2. pending = NoBlock
  BY <1>1, LineKinds DEF ReportsInv, Collecting, Continued
<1>3. Framed'
  BY <1>1 DEF ReportsInv, Framed, Line
<1>4. Collecting' /\ Untold' /\ ClientConnectIsGenuine'
  BY <1>2 DEF ReportsInv, Collecting, Untold, ClientConnectIsGenuine, Told
<1>5. Unknown'
  BY <1>1 DEF ReportsInv, Unknown, Told, Reports
<1>6. Announced'
  <2> SUFFICES ASSUME NEW j \in DOMAIN toClient', toClient'[j].kind = "CONNECT"
               PROVE  /\ \A e \in DOMAIN events' : events'[e].cid # toClient'[j].of
                      /\ toClient'[j].of \notin pending'.cid
                      /\ \A i \in 1 .. j - 1 : toClient'[i].of = toClient'[j].of
                                                    => toClient'[i].kind \in {"ask", "reply"}
    BY DEF Announced, Told, Reports
  <2>1. /\ j \in Nat \ {0} /\ j + 1 \in DOMAIN toClient /\ toClient'[j] = toClient[j + 1]
    BY <1>1
  <2>2. /\ ~Told(toClient'[j].of) /\ toClient'[j].of \notin pending.cid
        /\ \A i \in 1 .. (j + 1) - 1 : ~Reports(i, toClient'[j].of)
    BY <2>1 DEF ReportsInv, Announced
  <2>3. \A i \in 1 .. j - 1 : i + 1 \in 1 .. (j + 1) - 1
    BY <2>1
  <2>4. \A i \in 1 .. j - 1 : i \in DOMAIN toClient'
    BY TailLines
  <2> QED
    <3>1. \A i \in 1 .. j - 1 : toClient'[i] = toClient[i + 1] /\ ~Reports(i + 1, toClient'[j].of)
      BY <1>1, <2>2, <2>3, <2>4
    <3> QED
      BY <2>2, <3>1 DEF Told, Reports
<1> QED
  BY <1>3, <1>4, <1>5, <1>6 DEF ReportsInv

(* A line that reports nothing is put at the end. *)
LEMMA AddKeeps ==
    ASSUME ReportsInv, toClient \in Seq(Lines), NEW x \in Lines, x.kind \in {"ask", "reply"},
           toClient' = Append(toClient, x), UNCHANGED <<management, pending, events>>,
           \A c \in Clients : peer'[c] = "absent" => peer[c] = "absent"
    PROVE  ReportsInv'
<1>1. /\ toClient' # <<>>
      /\ \A i \in DOMAIN toClient' : i \in Nat \ {0} /\ (i \in DOMAIN toClient \/ toClient'[i] = x)
      /\ \A i \in DOMAIN toClient : i \in DOMAIN toClient' /\ toClient'[i] = toClient[i]
      /\ \A i \in DOMAIN toClient' : \A j \in 1 .. i - 1 : j \in DOMAIN toClient
  BY AppendLines
<1>2. Framed'
  <2> SUFFICES ASSUME NEW i \in DOMAIN toClient'
               PROVE  /\ toClient'[i].kind \in Headers =>
                             i + 1 \in DOMAIN toClient' /\ toClient'[i + 1] = Line("ENV", toClient'[i].of)
                      /\ toClient'[i].kind = "ENV" =>
                             i + 1 \in DOMAIN toClient' /\ toClient'[i + 1] = Line("END", toClient'[i].of)
    BY DEF Framed, Line
  <2>1. CASE i \in DOMAIN toClient
    BY <1>1, <2>1 DEF ReportsInv, Framed
  <2>2. CASE toClient'[i] = x
    BY <2>2 DEF Headers
  <2> QED
    BY <1>1, <2>1, <2>2
<1>3. Collecting'
  <2>1. toClient # <<>> => 1 \in DOMAIN toClient
    BY EmptySeq, LenProperties
  <2> QED
    BY <1>1, <2>1 DEF ReportsInv, Collecting, Continued, Line
<1>4. Untold' /\ ClientConnectIsGenuine'
  BY DEF ReportsInv, Untold, ClientConnectIsGenuine, Told
<1>5. Unknown'
  BY <1>1 DEF ReportsInv, Unknown, Told, Reports
<1>6. Announced'
  <2> SUFFICES ASSUME NEW j \in DOMAIN toClient', toClient'[j].kind = "CONNECT"
               PROVE  /\ \A e \in DOMAIN events' : events'[e].cid # toClient'[j].of
                      /\ toClient'[j].of \notin pending'.cid
                      /\ \A i \in 1 .. j - 1 : toClient'[i].of = toClient'[j].of
                                                    => toClient'[i].kind \in {"ask", "reply"}
    BY DEF Announced, Told, Reports
  <2>1. j \in DOMAIN toClient /\ toClient'[j] = toClient[j]
    BY <1>1
  <2>2. \A i \in 1 .. j - 1 : toClient'[i] = toClient[i]
    BY <1>1, <2>1
  <2> QED
    BY <2>1, <2>2 DEF ReportsInv, Announced, Told, Reports
<1> QED
  BY <1>2, <1>3, <1>4, <1>5, <1>6 DEF ReportsInv

----------------------------------------------------------------------------
\* Steps that report something about a client

(* A whole block is put at the end. *)
LEMMA ClientMovesKeeps ==
    ASSUME ReportsInv, TypeOK, link, NEW c \in Clients, NEW m \in Moves, ClientMoves(c, m)
    PROVE  ReportsInv'
<1> DEFINE n == Len(toClient)
<1>1. /\ toClient' = toClient \o <<Line(m[3], c), Line("ENV", c), Line("END", c)>>
      /\ peer[c] = m[1] /\ peer' = [peer EXCEPT ![c] = m[2]]
      /\ UNCHANGED <<management, pending, events>>
  BY DEF ClientMoves, linkVars, collectorVars
<1>2. /\ m[3] \in Headers /\ m[2] # "absent"
      /\ m[3] = "CONNECT" => m[1] = "absent"
  BY DEF Moves, Headers
<1>3. /\ toClient \in Seq(Lines) /\ Line(m[3], c) \in Lines /\ Line("ENV", c) \in Lines
      /\ Line("END", c) \in Lines
  BY <1>2, LineTypes DEF TypeOK, Headers
<1>4. /\ toClient' # <<>> /\ DOMAIN toClient' = 1 .. (n + 3) /\ DOMAIN toClient = 1 .. n /\ n \in Nat
      /\ \A i \in 1 .. n : toClient'[i] = toClient[i]
      /\ toClient'[n + 1] = Line(m[3], c) /\ toClient'[n + 2] = Line("ENV", c)
      /\ toClient'[n + 3] = Line("END", c)
  BY <1>1, <1>3, BlockLines
<1> HIDE DEF n
<1>5. \A i \in DOMAIN toClient' : i \in 1 .. n \/ i = n + 1 \/ i = n + 2 \/ i = n + 3
  BY <1>4
<1>6. Framed'
  <2> SUFFICES ASSUME NEW i \in DOMAIN toClient'
               PROVE  /\ toClient'[i].kind \in Headers =>
                             i + 1 \in DOMAIN toClient' /\ toClient'[i + 1] = Line("ENV", toClient'[i].of)
                      /\ toClient'[i].kind = "ENV" =>
                             i + 1 \in DOMAIN toClient' /\ toClient'[i + 1] = Line("END", toClient'[i].of)
    BY DEF Framed, Line
  <2>1. CASE i \in 1 .. n
    <3>1. toClient'[i] = toClient[i] /\ i \in DOMAIN toClient
      BY <1>4, <2>1
    <3>2. i + 1 \in DOMAIN toClient => i + 1 \in DOMAIN toClient' /\ toClient'[i + 1] = toClient[i + 1]
      BY <1>4, <2>1
    <3> QED
      BY <3>1, <3>2 DEF ReportsInv, Framed
  <2>2. CASE i = n + 1
    <3>1. i + 1 = n + 2 /\ n + 2 \in DOMAIN toClient'
      BY <1>4, <2>2
    <3> QED
      BY <1>2, <1>4, <2>2, <3>1, LineKinds DEF Headers
  <2>3. CASE i = n + 2
    <3>1. i + 1 = n + 3 /\ n + 3 \in DOMAIN toClient'
      BY <1>4, <2>3
    <3> QED
      BY <1>4, <2>3, <3>1, LineKinds DEF Headers
  <2>4. CASE i = n + 3
    BY <1>4, <2>4, LineKinds DEF Headers
  <2> QED
    BY <1>5, <2>1, <2>2, <2>3, <2>4
<1>7. Collecting'
  <2>1. toClient # <<>> => toClient'[1] = toClient[1]
    <3>1. toClient # <<>> => Len(toClient) # 0
      BY <1>3, EmptySeq
    <3> QED
      BY <1>4, <3>1 DEF n
  <2> QED
    BY <1>1, <1>4, <2>1 DEF ReportsInv, Collecting, Continued, Line
<1>8. Untold' /\ ClientConnectIsGenuine'
  BY <1>1 DEF ReportsInv, Untold, ClientConnectIsGenuine, Told
<1>9. \A i \in DOMAIN toClient' : i \in DOMAIN toClient \/ toClient'[i].of = c
  BY <1>4, <1>5, LineKinds
<1>10. Unknown'
  <2> SUFFICES ASSUME NEW d \in Clients, peer'[d] = "absent"
               PROVE  /\ \A e \in DOMAIN events' : events'[e].cid # d
                      /\ d \notin pending'.cid
                      /\ \A i \in DOMAIN toClient' : toClient'[i].of = d => toClient'[i].kind \in {"ask", "reply"}
    BY DEF Unknown, Told, Reports
  <2>1. d # c /\ peer[d] = "absent"
    BY <1>1, <1>2 DEF TypeOK
  <2> QED
    BY <1>1, <1>4, <1>9, <2>1 DEF ReportsInv, Unknown, Told, Reports
<1>11. Announced'
  <2> SUFFICES ASSUME NEW j \in DOMAIN toClient', toClient'[j].kind = "CONNECT"
               PROVE  /\ \A e \in DOMAIN events' : events'[e].cid # toClient'[j].of
                      /\ toClient'[j].of \notin pending'.cid
                      /\ \A i \in 1 .. j - 1 : toClient'[i].of = toClient'[j].of
                                                    => toClient'[i].kind \in {"ask", "reply"}
    BY DEF Announced, Told, Reports
  <2>1. CASE j \in 1 .. n
    <3>1. j \in DOMAIN toClient /\ toClient'[j] = toClient[j]
      BY <1>4, <2>1
    <3>2. \A i \in 1 .. j - 1 : toClient'[i] = toClient[i]
      BY <1>4, <2>1
    <3> QED
      BY <1>1, <3>1, <3>2 DEF ReportsInv, Announced, Told, Reports
  <2>2. CASE j = n + 1
    <3>1. toClient'[j].of = c /\ peer[c] = "absent"
      BY <1>1, <1>2, <1>4, <2>2, LineKinds
    <3>2. \A i \in 1 .. j - 1 : i \in DOMAIN toClient /\ toClient'[i] = toClient[i]
      BY <1>4, <2>2
    <3> QED
      BY <1>1, <3>1, <3>2 DEF ReportsInv, Unknown, Told, Reports
  <2>3. j # n + 2 /\ j # n + 3
    BY <1>4, LineKinds
  <2> QED
    BY <1>5, <2>1, <2>2, <2>3
<1> QED
  BY <1>6, <1>7, <1>8, <1>10, <1>11 DEF ReportsInv

(* The next line of a block, or the whole of one, is handled. *)
LEMMA HandleClientLineKeeps ==
    ASSUME ReportsInv, TypeOK, Silent, HandleClientLine
    PROVE  ReportsInv'
<1> DEFINE l == toClient[1]
           c == l.of
<1>1. /\ toClient \in Seq(Lines) /\ toClient # <<>> /\ toClient' = Tail(toClient) /\ management # 0
      /\ UNCHANGED <<management, peer>>
  BY DEF HandleClientLine, TypeOK, Silent, linkVars, serverVars
<1>2. /\ Head(toClient) = l /\ 1 \in DOMAIN toClient
      /\ \A i \in DOMAIN toClient' : i \in Nat \ {0} /\ i + 1 \in DOMAIN toClient
                                       /\ toClient'[i] = toClient[i + 1]
      /\ \A i \in DOMAIN toClient : i + 1 \in DOMAIN toClient => i \in DOMAIN toClient'
      /\ \A j \in DOMAIN toClient' : \A i \in 1 .. j - 1 : i \in DOMAIN toClient'
      /\ (2 \in DOMAIN toClient => toClient' # <<>> /\ toClient'[1] = toClient[2])
  BY <1>1, TailLines
<1>3. CollectorPush(l)
  BY <1>2 DEF HandleClientLine
<1>4. /\ l.kind \in Headers \cup {"ENV", "END"} /\ c \in Clients
      /\ Reports(1, c)
  <2>1. l \in Lines
    BY <1>1, <1>2, LenProperties, ElementOfSeq
  <2>2. l.kind \in Headers \cup {"ENV", "END"}
    BY <1>3 DEF CollectorPush, Headers
  <2> QED
    BY <2>1, <2>2, LineOfKind DEF Reports, Headers
<1>5. Framed'
  BY <1>2 DEF ReportsInv, Framed, Line
<1>6. /\ l.kind \in Headers => toClient' # <<>> /\ toClient'[1] = Line("ENV", c)
      /\ l.kind = "ENV" => toClient' # <<>> /\ toClient'[1] = Line("END", c)
  <2>1. 1 + 1 = 2
    OBVIOUS
  <2> QED
    BY <1>2, <2>1 DEF ReportsInv, Framed
<1>7. pending # NoBlock => \/ pending = [cid |-> {c}, env |-> {}] /\ l.kind = "ENV"
                           \/ pending = [cid |-> {c}, env |-> {c}] /\ l.kind = "END"
  BY <1>1, LineKinds DEF ReportsInv, Collecting, Continued
<1> HIDE DEF l, c
<1>8. \A d \in Clients : peer[d] = "absent" => d # c
  BY <1>2, <1>4 DEF ReportsInv, Unknown
<1>9. ASSUME \A d \in pending'.cid : d = c,
             \A e \in DOMAIN events' : \/ events'[e].cid = c
                                       \/ \E k \in DOMAIN events : events'[e].cid = events[k].cid
      PROVE  Unknown' /\ Announced'
  <2>1. Unknown'
    <3> SUFFICES ASSUME NEW d \in Clients, peer'[d] = "absent"
                 PROVE  /\ \A e \in DOMAIN events' : events'[e].cid # d
                        /\ d \notin pending'.cid
                        /\ \A i \in DOMAIN toClient' : toClient'[i].of = d
                                                       => toClient'[i].kind \in {"ask", "reply"}
      BY DEF Unknown, Told, Reports
    <3>1. d # c /\ peer[d] = "absent"
      BY <1>1, <1>8
    <3>2. ~Told(d) /\ \A i \in DOMAIN toClient : ~Reports(i, d)
      BY <3>1 DEF ReportsInv, Unknown
    <3>3. \A i \in DOMAIN toClient' : toClient'[i].of = d => toClient'[i].kind \in {"ask", "reply"}
      BY <1>2, <3>2 DEF Reports
    <3> QED
      BY <1>9, <3>1, <3>2, <3>3 DEF Told
  <2>2. Announced'
    <3> SUFFICES ASSUME NEW j \in DOMAIN toClient', toClient'[j].kind = "CONNECT"
                 PROVE  /\ \A e \in DOMAIN events' : events'[e].cid # toClient'[j].of
                        /\ toClient'[j].of \notin pending'.cid
                        /\ \A i \in 1 .. j - 1 : toClient'[i].of = toClient'[j].of
                                                      => toClient'[i].kind \in {"ask", "reply"}
      BY DEF Announced, Told, Reports
    <3>1. /\ j \in Nat \ {0} /\ j + 1 \in DOMAIN toClient /\ toClient'[j] = toClient[j + 1]
      BY <1>2
    <3>2. /\ ~Told(toClient'[j].of)
          /\ \A i \in 1 .. (j + 1) - 1 : ~Reports(i, toClient'[j].of)
      BY <3>1 DEF ReportsInv, Announced
    <3>3. 1 \in 1 .. (j + 1) - 1 /\ \A i \in 1 .. j - 1 : i + 1 \in 1 .. (j + 1) - 1
      BY <3>1
    <3>4. toClient'[j].of # c
      BY <1>4, <3>2, <3>3
    <3>5. \A i \in 1 .. j - 1 : toClient'[i] = toClient[i + 1] /\ ~Reports(i + 1, toClient'[j].of)
      BY <1>2, <3>2, <3>3
    <3> QED
      BY <1>9, <3>2, <3>4, <3>5 DEF Told, Reports
  <2> QED
    BY <2>1, <2>2
<1>10. CASE l.kind = "CONNECT"
  <2>1. pending' = [cid |-> {c}, env |-> {}] /\ events' = events
    BY <1>3, <1>10 DEF CollectorPush, c
  <2>2. Collecting'
    BY <1>4, <1>6, <1>10, <2>1 DEF Collecting, Continued, Headers, Line
  <2>3. ~Told(c)
    BY <1>2, <1>10 DEF ReportsInv, Announced, c, l
  <2>4. Untold' /\ ClientConnectIsGenuine'
    BY <2>1, <2>3 DEF ReportsInv, Untold, ClientConnectIsGenuine, Told
  <2> QED
    BY <1>5, <1>9, <2>1, <2>2, <2>4 DEF ReportsInv
<1>11. CASE l.kind = "ENV"
  <2>1. events' = events
    BY <1>3, <1>11 DEF CollectorPush
  <2>2. CASE pending = NoBlock
    <3>1. pending' = NoBlock
      BY <1>3, <1>11, <2>2 DEF CollectorPush
    <3> QED
      BY <1>5, <1>9, <2>1, <2>2, <3>1
      DEF ReportsInv, Collecting, Untold, ClientConnectIsGenuine, Told, NoBlock
  <2>3. CASE pending # NoBlock
    <3>1. pending = [cid |-> {c}, env |-> {}]
      BY <1>7, <1>11, <2>3
    <3>2. pending' = [cid |-> {c}, env |-> {c}]
      BY <1>3, <1>11, <2>3, <3>1 DEF CollectorPush, Merged, c
    <3>3. Collecting'
      BY <1>4, <1>6, <1>11, <3>2 DEF Collecting, Continued, Line
    <3>4. Untold' /\ ClientConnectIsGenuine'
      BY <2>1, <3>1, <3>2 DEF ReportsInv, Untold, ClientConnectIsGenuine, Told
    <3> QED
      BY <1>5, <1>9, <2>1, <3>2, <3>3, <3>4 DEF ReportsInv
  <2> QED
    BY <2>2, <2>3
<1>12. CASE l.kind = "END" /\ pending = NoBlock
  <2>1. pending' = NoBlock /\ events' = events
    BY <1>3, <1>12 DEF CollectorPush, AfterEnd, NoBlock
  <2> QED
    BY <1>5, <1>9, <2>1 DEF ReportsInv, Collecting, Untold, ClientConnectIsGenuine, Told, NoBlock
<1>13. ASSUME NEW x \in Events, x.cid = c, events' = Append(events, x), pending' = NoBlock,
              x.type = "connect-env" => x.env = {c} /\ ~Told(c)
       PROVE  ReportsInv'
  <2>1. /\ \A i \in DOMAIN events' : i \in DOMAIN events \/ events'[i] = x
        /\ \A i \in DOMAIN events : i \in DOMAIN events' /\ events'[i] = events[i]
        /\ \A i \in DOMAIN events' : \A j \in 1 .. i - 1 : j \in DOMAIN events
    BY <1>13, AppendLines DEF TypeOK
  <2>2. ClientConnectIsGenuine'
    BY <1>13, <2>1 DEF ReportsInv, ClientConnectIsGenuine, Told
  <2>3. Untold' /\ Collecting'
    BY <1>13 DEF Untold, Collecting, NoBlock
  <2>4. Unknown' /\ Announced'
    BY <1>9, <1>13, <2>1 DEF NoBlock
  <2> QED
    BY <1>5, <2>2, <2>3, <2>4 DEF ReportsInv
<1>14. CASE l.kind = "END" /\ pending # NoBlock
  <2>1. pending = [cid |-> {c}, env |-> {c}]
    BY <1>7, <1>14
  <2>2. /\ pending' = NoBlock
        /\ events' = Append(events, [type |-> "connect-env", cid |-> c, env |-> {c}])
    BY <1>3, <1>14, <2>1 DEF CollectorPush, AfterEnd, Emit
  <2>3. [type |-> "connect-env", cid |-> c, env |-> {c}] \in Events
    BY <1>4 DEF Events
  <2>4. ~Told(c)
    BY <2>1 DEF ReportsInv, Untold
  <2> QED
    BY <1>13, <2>2, <2>3, <2>4
<1>15. CASE l.kind \in {"ESTABLISHED", "DISCONNECT"}
  <2>1. PICK t \in {"established", "disconnect"} :
            events' = Append(events, [type |-> t, cid |-> c, env |-> {}])
    BY <1>3, <1>15 DEF CollectorPush, Emit, c
  <2>2. [type |-> t, cid |-> c, env |-> {}] \in Events
    BY <1>4 DEF Events
  <2>3. pending' = NoBlock
    BY <1>3, <1>7, <1>15 DEF CollectorPush
  <2> QED
    BY <1>13, <2>1, <2>2, <2>3
<1> QED
  BY <1>4, <1>10, <1>11, <1>12, <1>14, <1>15 DEF Headers

----------------------------------------------------------------------------
\* The invariant

LEMMA SilentKept ==
    ASSUME TypeOK, Silent, [Next]_vars
    PROVE  Silent'
<1> USE DEF sessionVars, linkVars, clientVars, channelVars, askVars, callVars, collectorVars, serverVars
<1>1. CASE Session
  <2>1. CASE Connect
    BY <2>1, BoundsAssumption DEF Connect, TypeOK, Processes, Silent
  <2>2. CASE Disconnect
    BY <2>2 DEF Disconnect, Silent
  <2>3. CASE Lose
    BY <2>3 DEF Lose, Silent
  <2>4. CASE Reconnect
    BY <2>4 DEF Reconnect, Silent
  <2>5. ASSUME NEW n \in Calls, Expire(n) PROVE Silent'
    BY <2>5 DEF Expire, Silent
  <2> QED
    BY <1>1, <2>1, <2>2, <2>3, <2>4, <2>5 DEF Session
<1>2. CASE Handle
  <2>1. link /\ management # 0
    BY <1>2 DEF Handle, HandleRequest, HandleReply, HandleClientLine, Silent
  <2>2. UNCHANGED <<link, management>>
    BY <1>2 DEF Handle, HandleRequest, HandleReply, HandleClientLine
  <2> QED
    BY <2>1, <2>2 DEF Silent
<1>3. CASE Application
  <2>1. UNCHANGED <<link, management, toClient>> /\ (~link => toPeer' = toPeer)
    BY <1>3 DEF Application, Answer, AnswerCredentials, AnswerWritten, WriteMultiline, Decide, Pump
  <2> QED
    BY <2>1 DEF Silent
<1>4. CASE OpenVPN
  <2>1. UNCHANGED <<link, management>> /\ (~link => UNCHANGED <<toClient, toPeer>>)
    BY <1>4 DEF OpenVPN, Ask, Execute, ClientMoves, Silent
  <2> QED
    BY <2>1 DEF Silent
<1>5. CASE UNCHANGED vars
  BY <1>5 DEF vars, Silent
<1> QED
  BY <1>1, <1>2, <1>3, <1>4, <1>5 DEF Next

LEMMA ReportsKept ==
    ASSUME ~TornBlocks, ReportsInv, TypeOK, Silent, [Next]_vars
    PROVE  ReportsInv'
<1> USE DEF sessionVars, linkVars, clientVars, channelVars, askVars, callVars, collectorVars, serverVars
<1>1. CASE Session
  <2>1. CASE Connect
    <3>1. /\ toClient' = <<>> /\ events' = <<>> /\ pending' = NoBlock
          /\ DOMAIN toClient' = {} /\ DOMAIN events' = {} /\ NoBlock.cid = {}
      BY <2>1 DEF Connect, NoBlock
    <3> QED
      BY <3>1 DEF ReportsInv, Framed, Collecting, Unknown, Announced, Untold, ClientConnectIsGenuine, Told
  <2>2. CASE Disconnect \/ Lose
    BY <2>2, DropKeeps DEF Disconnect, Lose
  <2>3. CASE Reconnect
    <3>1. toClient = <<>> /\ pending = NoBlock
      BY <2>3 DEF Reconnect, Silent, ReportsInv, Collecting, Continued
    <3>2. CASE toClient' = <<>>
      BY <2>3, <3>1, <3>2, DropKeeps DEF Reconnect
    <3>3. CASE toClient' # <<>>
      <4>1. toClient' = <<Line("ask", request)>> /\ request \in Requests
        BY <2>3, <3>3 DEF Reconnect, TypeOK
      <4>2. toClient' = Append(toClient, Line("ask", request))
        BY <3>1, <4>1, Short
      <4>3. Line("ask", request) \in Lines /\ Line("ask", request).kind = "ask"
        BY <4>1, LineTypes, LineKinds
      <4> QED
        BY <2>3, <4>2, <4>3, AddKeeps DEF Reconnect, TypeOK
    <3> QED
      BY <3>2, <3>3
  <2>4. ASSUME NEW n \in Calls, Expire(n) PROVE ReportsInv'
    BY <2>4, UnchangedKeeps DEF Expire
  <2> QED
    BY <1>1, <2>1, <2>2, <2>3, <2>4 DEF Session
<1>2. CASE Handle
  <2>1. CASE HandleRequest \/ HandleReply
    <3>1. toClient \in Seq(Lines) /\ toClient # <<>> /\ management # 0
      BY <2>1 DEF HandleRequest, HandleReply, TypeOK, Silent
    <3>2. Head(toClient).kind \in {"ask", "reply"}
      BY <2>1, LineKinds DEF HandleRequest, HandleReply
    <3> QED
      BY <2>1, <3>1, <3>2, PopKeeps DEF HandleRequest, HandleReply
  <2> QED
    BY <1>2, <2>1, HandleClientLineKeeps DEF Handle
<1>3. CASE Application
  BY <1>3, UnchangedKeeps DEF Application, Answer, AnswerCredentials, AnswerWritten, Decide
<1>4. CASE OpenVPN
  <2>1. ASSUME NEW k \in Kinds, Ask(k) PROVE ReportsInv'
    <3>1. Line("ask", request') \in Lines /\ Line("ask", request').kind = "ask"
      <4>1. TypeOK'
        BY <1>4, TypeOpenVPN
      <4>2. request' # 0
        BY <2>1, AppendProperties DEF Ask, TypeOK
      <4> QED
        BY <4>1, <4>2, LineTypes, LineKinds DEF TypeOK
    <3>2. CASE link
      BY <2>1, <3>1, <3>2, AddKeeps DEF Ask, TypeOK
    <3>3. CASE ~link
      BY <2>1, <3>3, UnchangedKeeps DEF Ask
    <3> QED
      BY <3>2, <3>3
  <2>2. CASE Execute
    <3>1. \A c \in Clients : peer'[c] = "absent" => peer[c] = "absent"
      BY <2>2 DEF Execute, TakeAnswer, TakeVerdict, TypeOK
    <3>2. CASE toClient' = Append(toClient, Reply)
      BY <2>2, <3>1, <3>2, LineTypes, LineKinds, AddKeeps DEF Execute, TypeOK
    <3>3. CASE toClient' = toClient /\ Head(toPeer).what \in Written
      <4>1. peer' = peer
        BY <2>2, <3>3 DEF Execute, TakeAnswer, TakeVerdict, Written, Verdicts
      <4> QED
        BY <2>2, <3>3, <4>1, UnchangedKeeps DEF Execute
    <3> QED
      BY <2>2, <3>2, <3>3 DEF Execute
  <2>3. ASSUME NEW c \in Clients, NEW m \in Moves, ClientMoves(c, m) PROVE ReportsInv'
    <3>1. CASE link
      BY <2>3, <3>1, ClientMovesKeeps
    <3>2. CASE ~link
      <4>1. toClient' = toClient /\ \A d \in Clients : peer'[d] = "absent" => peer[d] = "absent"
        BY <2>3, <3>2 DEF ClientMoves, Moves, TypeOK
      <4>2. UNCHANGED <<management, pending, events>>
        BY <2>3 DEF ClientMoves
      <4> QED
        BY <4>1, <4>2 DEF ReportsInv, Framed, Collecting, Continued, Unknown, Announced, Untold,
           ClientConnectIsGenuine, Told, Reports, Line
    <3> QED
      BY <3>1, <3>2
  <2> QED
    BY <1>4, <2>1, <2>2, <2>3 DEF OpenVPN
<1>5. CASE UNCHANGED vars
  BY <1>5, UnchangedKeeps DEF vars
<1> QED
  BY <1>1, <1>2, <1>3, <1>4, <1>5 DEF Next

LEMMA InitReports == Init => ReportsInv /\ Silent
<1> SUFFICES ASSUME Init PROVE ReportsInv /\ Silent
  OBVIOUS
<1>1. /\ toClient = <<>> /\ events = <<>> /\ pending = NoBlock /\ DOMAIN toClient = {}
      /\ DOMAIN events = {} /\ NoBlock.cid = {}
  BY DEF Init, NoBlock
<1>2. ReportsInv
  BY <1>1 DEF ReportsInv, Framed, Collecting, Unknown, Announced, Untold, ClientConnectIsGenuine, Told
<1> QED
  BY <1>2 DEF Init, Silent

----------------------------------------------------------------------------
\* Results

(* 'client-connect' comes with the environment of its own client and       *)
(* before every other event of that client, for any number of clients,     *)
(* unless a connection is lost inside a >CLIENT block (server.ts:25-77).   *)
THEOREM ClientConnectsAreGenuine ==
    ASSUME ~TornBlocks
    PROVE  Spec => []ClientConnectIsGenuine
<1>1. ReportsInv /\ TypeOK /\ Silent /\ [Next]_vars => ReportsInv' /\ Silent'
  BY SilentKept, ReportsKept
<1>2. ReportsInv => ClientConnectIsGenuine
  BY DEF ReportsInv
<1> QED
  BY <1>1, <1>2, InitReports, TypeCorrect, PTL DEF Spec
===============================================================================
