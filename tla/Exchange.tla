------------------------------ MODULE Exchange ------------------------------
(***************************************************************************)
(* What OpenVPN asks over the management interface and what the SDK        *)
(* answers: the request handlers of packages/openvpn-sdk/src/index.ts, the *)
(* answers that bypass the command queue, and OpenVpnServer with the       *)
(* ClientEnvCollector of packages/core/src/server.ts.                      *)
(*                                                                         *)
(* A tunnel asks for credentials, signatures and certificates; a server    *)
(* reports its clients, on which the application decides.  Every call of a *)
(* provider is numbered, and its number stands for what it returns.        *)
(*                                                                         *)
(* ManagementClient is reduced to what its own module shows of it: one     *)
(* command in flight, replies in order, and a rejected queue when the      *)
(* connection is lost.  connect() and disconnect() are one step each, as   *)
(* OpenVpnClient has them in detail.                                       *)
(***************************************************************************)
EXTENDS Naturals, Sequences, FiniteSets

Seqs == INSTANCE SequencesExt

CONSTANTS
    Roles,         \* "tunnel", "server"
    Kinds,         \* what a tunnel may ask for
    Clients,       \* the clients of a server
    TornBlocks,    \* the connection may be lost inside a >CLIENT block
    MaxProcesses,  \* bound on the number of OpenVPN processes
    MaxRequests,   \* bound on the number of requests
    MaxLosses      \* bound on the number of connections lost

Written == {"sign", "certificate"}
\* A provider is called for each request, and again for each repetition of one.
MaxCalls == MaxRequests + MaxLosses
Calls == 1 .. MaxCalls
Requests == 1 .. MaxRequests
Processes == 1 .. MaxProcesses

ASSUME RolesAssumption == Roles \subseteq {"tunnel", "server"} /\ TornBlocks \in BOOLEAN
ASSUME KindsAssumption == Kinds \subseteq {"auth"} \cup Written
ASSUME BoundsAssumption ==
    MaxProcesses \in Nat \ {0} /\ MaxRequests \in Nat \ {0} /\ MaxLosses \in Nat

VARIABLES
    role,        \* what OpenVPN runs as
    process,     \* the OpenVPN process, 0 before the first
    management,  \* the process this.management is connected to, 0 for null
    link,        \* is there a connection?
    queue,       \* ManagementClient.queue
    busy,        \* ManagementClient.busy
    toPeer,      \* commands on their way to OpenVPN
    toClient,    \* lines on their way to the SDK
    request,     \* the request OpenVPN waits to be answered, 0 for none
    asked,       \* the kinds of the requests made so far, in order
    held,        \* whose user name OpenVPN holds for the request, 0 for none
    used,        \* the answers OpenVPN went on with
    call,        \* the request each call of a provider is for
    stage,       \* how far each call got
    overtaken,   \* may a provider outlive the connection it was called for?
    losses,      \* the number of connections lost
    peer,        \* how OpenVPN stands to each client
    pending,     \* ClientEnvCollector.pending
    events,      \* the client events emitted, in order
    decided      \* what the application decided on which client

sessionVars == <<role, process>>
linkVars == <<management, link, losses>>
clientVars == <<queue, busy>>
channelVars == <<toPeer, toClient>>
askVars == <<request, asked, held, used, overtaken>>
callVars == <<call, stage>>
collectorVars == <<pending, events>>
serverVars == <<peer, decided>>
vars == <<sessionVars, linkVars, clientVars, channelVars, askVars, callVars,
          collectorVars, serverVars>>

----------------------------------------------------------------------------
\* Types and initial state

Verdicts == {"approve", "deny", "kill"}
Commands == [what : {"username", "password"} \cup Written, of : Calls]
            \cup [what : Verdicts, of : Clients]
Lines == [kind : {"ask"}, of : Requests] \cup {[kind |-> "reply", of |-> 0]}
         \cup [kind : {"CONNECT", "ESTABLISHED", "DISCONNECT", "ENV", "END"}, of : Clients]
Stages == {"none", "provider", "username", "password", "over"}
Peers == {"absent", "waiting", "approved", "denied", "established", "killed", "gone"}
NoBlock == [cid |-> {}, env |-> {}]
Blocks == [cid : {{c} : c \in Clients}, env : SUBSET Clients]
Events == [type : {"connect-env", "established", "disconnect"}, cid : Clients, env : SUBSET Clients]
Command(w, n) == [what |-> w, of |-> n]
Line(k, n) == [kind |-> k, of |-> n]
Reply == Line("reply", 0)

TypeOK ==
    /\ role \in Roles
    /\ process \in Processes \cup {0}
    /\ management \in Processes \cup {0}
    /\ link \in BOOLEAN
    /\ queue \in Seq(Commands)
    /\ busy \in BOOLEAN
    /\ busy => link /\ queue # <<>>
    /\ toPeer \in Seq(Commands)
    /\ toClient \in Seq(Lines)
    /\ request \in Requests \cup {0}
    /\ asked \in Seq(Kinds)
    /\ held \in Calls \cup {0}
    /\ used \subseteq [request : Requests, user : Calls \cup {0}, answer : Calls, late : BOOLEAN]
    /\ call \in Seq(Requests)
    /\ stage \in [Calls -> Stages]
    /\ overtaken \in BOOLEAN
    /\ losses \in 0 .. MaxLosses
    /\ peer \in [Clients -> Peers]
    /\ pending \in Blocks \cup {NoBlock}
    /\ events \in Seq(Events)
    /\ decided \subseteq Clients \X Verdicts

Init ==
    /\ role \in Roles
    /\ process = 0
    /\ management = 0
    /\ link = FALSE
    /\ queue = <<>>
    /\ busy = FALSE
    /\ toPeer = <<>>
    /\ toClient = <<>>
    /\ request = 0
    /\ asked = <<>>
    /\ held = 0
    /\ used = {}
    /\ call = <<>>
    /\ stage = [n \in Calls |-> "none"]
    /\ overtaken = FALSE
    /\ losses = 0
    /\ peer = [c \in Clients |-> "absent"]
    /\ pending = NoBlock
    /\ events = <<>>
    /\ decided = {}

Active == {n \in Calls : stage[n] \in {"provider", "username", "password"}}
KindOf(n) == asked[call[n]]

(* A provider is at work: when its connection is lost or replaced, it is   *)
(* not told, and what it returns goes to the connection there is then.     *)
AtWork == {n \in Calls : stage[n] = "provider"}

(* Nothing that was asked or answered before is under way any more.        *)
Quiet == queue = <<>> /\ ~busy /\ toPeer = <<>> /\ toClient = <<>> /\ Active = {}

----------------------------------------------------------------------------
\* The command queue of ManagementClient

(* pumpQueue, with q for the queue, b for the busy flag and out for the    *)
(* commands on their way.                                                  *)
Pump(q, b, out) ==
    /\ queue' = q
    /\ busy' = (b \/ (link' /\ q # <<>>))
    /\ toPeer' = IF link' /\ ~b /\ q # <<>> THEN Append(out, Head(q)) ELSE out

(* The calls whose username or password command is in the queue. *)
Submitting == {n \in Calls : stage[n] \in {"username", "password"}}

RejectKeepingQueue ==
    /\ UNCHANGED queue
    /\ busy' = FALSE
    /\ stage' = [n \in Calls |-> IF n \in Submitting THEN "over" ELSE stage[n]]

(* rejectAllPending: submitCredentials() rejects with its command, and the *)
(* handler emits 'error'.                                                  *)
RejectAllPending ==
    /\ queue' = <<>>
    /\ busy' = FALSE
    /\ stage' = [n \in Calls |-> IF n \in Submitting THEN "over" ELSE stage[n]]

----------------------------------------------------------------------------
\* connect(), disconnect() and the connection

(* connect() starts a process and a new ManagementClient for it, with a    *)
(* ClientEnvCollector of its own.                                          *)
Connect ==
    /\ management = 0
    /\ process < MaxProcesses
    /\ process' = process + 1
    /\ management' = process'
    /\ link' = TRUE
    /\ toPeer' = <<>>
    /\ toClient' = <<>>
    /\ pending' = NoBlock
    /\ peer' = [c \in Clients |-> "absent"]
    /\ events' = <<>>
    /\ decided' = {}
    /\ UNCHANGED <<role, losses, clientVars, askVars, callVars>>

(* disconnect(): the process ends and its requests with it. *)
Disconnect ==
    /\ management # 0
    /\ management' = 0
    /\ link' = FALSE
    /\ RejectAllPending
    /\ toPeer' = <<>>
    /\ toClient' = <<>>
    /\ request' = 0
    /\ held' = 0
    /\ overtaken' = (overtaken \/ AtWork # {})
    /\ UNCHANGED <<sessionVars, losses, asked, used, call, collectorVars,
                   serverVars>>

(* The connection is lost with everything on its way.  The collector is a  *)
(* field of the client and keeps what it has.                              *)
Lose ==
    /\ link
    /\ losses < MaxLosses
    /\ TornBlocks \/ pending = NoBlock
    /\ losses' = losses + 1
    /\ link' = FALSE
    /\ RejectAllPending
    /\ toPeer' = <<>>
    /\ toClient' = <<>>
    /\ overtaken' = (overtaken \/ AtWork # {})
    /\ UNCHANGED <<sessionVars, management, request, asked, held, used, call,
                   collectorVars, serverVars>>

(* The automatic reconnection.  OpenVPN repeats the request it waits for.  *)
Reconnect ==
    /\ management # 0
    /\ ~link
    /\ link' = TRUE
    /\ Pump(queue, FALSE, <<>>)
    /\ toClient' = IF request = 0 THEN <<>> ELSE <<Line("ask", request)>>
    /\ UNCHANGED <<sessionVars, management, losses, askVars, callVars,
                   collectorVars, serverVars>>

(* The timer of a command that is queued without a connection. *)
Expire(n) ==
    /\ ~link
    /\ n \in Submitting
    /\ \E i \in DOMAIN queue :
           /\ queue[i].what \in {"username", "password"} /\ queue[i].of = n
           /\ queue' = Seqs!RemoveAt(queue, i)
    /\ stage' = [stage EXCEPT ![n] = "over"]
    /\ UNCHANGED <<sessionVars, linkVars, busy, channelVars, askVars, call,
                   collectorVars, serverVars>>

----------------------------------------------------------------------------
\* The handlers of a tunnel's requests

(* >PASSWORD:Need, >PK_SIGN and >NEED-CERTIFICATE: the provider is called, *)
(* or the application is told and will call submit...() itself.            *)
HandleRequest ==
    /\ toClient # <<>>
    /\ Head(toClient).kind = "ask"
    /\ Len(call) < MaxCalls
    /\ toClient' = Tail(toClient)
    /\ call' = Append(call, Head(toClient).of)
    /\ stage' = [stage EXCEPT ![Len(call')] = "provider"]
    /\ UNCHANGED <<sessionVars, linkVars, clientVars, toPeer, askVars,
                   collectorVars, serverVars>>

PasswordFirst(n) == Command("password", n)

FirstCommand(n) == Command("username", n)

(* The provider of credentials has returned: submitCredentials().          *)
AnswerCredentials(n) ==
    /\ stage[n] = "provider"
    /\ KindOf(n) = "auth"
    /\ UNCHANGED link
    /\ \/ /\ management = 0
          /\ stage' = [stage EXCEPT ![n] = "over"]
          /\ UNCHANGED <<queue, busy, toPeer>>
       \/ /\ management # 0
          /\ stage' = [stage EXCEPT ![n] = "username"]
          /\ Pump(Append(queue, FirstCommand(n)), busy, toPeer)
    /\ UNCHANGED <<sessionVars, management, losses, toClient, askVars, call,
                   collectorVars, serverVars>>

WriteQueued(n) == Pump(Append(queue, Command(KindOf(n), n)), busy, toPeer)

(* writeMultiline: the lines go out at once, past the queue, because       *)
(* OpenVPN does not reply to them; without a socket they are dropped.      *)
WriteMultiline(n) ==
    /\ toPeer' = IF link THEN Append(toPeer, Command(KindOf(n), n)) ELSE toPeer
    /\ UNCHANGED <<queue, busy>>

(* The signer or the provider of certificates has returned. *)
AnswerWritten(n) ==
    /\ stage[n] = "provider"
    /\ KindOf(n) \in Written
    /\ UNCHANGED link
    /\ stage' = [stage EXCEPT ![n] = "over"]
    /\ WriteMultiline(n)
    /\ UNCHANGED <<sessionVars, management, losses, toClient, askVars, call,
                   collectorVars, serverVars>>

(* The next command of submitCredentials() when the first is answered,     *)
(* whatever the answer was.                                                *)
Continuation(c) == IF c.what = "username" THEN <<Command("password", c.of)>> ELSE <<>>

(* completeCurrent: the next command is written first, then the promise of *)
(* the completed one continues.                                            *)
HandleReply ==
    /\ toClient # <<>>
    /\ Head(toClient) = Reply
    /\ toClient' = Tail(toClient)
    /\ UNCHANGED link
    /\ queue # <<>>
    /\ Pump(Tail(queue) \o Continuation(Head(queue)), FALSE, toPeer)
    /\ stage' = [n \in Calls |->
           CASE Head(queue) = Command("username", n) -> "password"
             [] Head(queue) = Command("password", n) -> "over"
             [] OTHER -> stage[n]]
    /\ UNCHANGED <<sessionVars, management, losses, askVars, call, collectorVars,
                   serverVars>>

----------------------------------------------------------------------------
\* OpenVpnServer and ClientEnvCollector

Merged(block, c) == [block EXCEPT !.env = @ \cup {c}]

AfterEndKept == pending

(* What ENV,END leaves behind. *)
AfterEnd == NoBlock

Emit(t, c, env) == events' = Append(events, [type |-> t, cid |-> c, env |-> env])

(* ClientEnvCollector.push, and the event OpenVpnServer emits for it.      *)
(* ADDRESS and CR_RESPONSE lines make events in the way of ESTABLISHED.    *)
CollectorPush(line) ==
    \/ /\ line.kind = "CONNECT"
       /\ pending' = [cid |-> {line.of}, env |-> {}]
       /\ UNCHANGED events
    \/ /\ line.kind = "ENV"
       /\ pending' = IF pending = NoBlock THEN NoBlock ELSE Merged(pending, line.of)
       /\ UNCHANGED events
    \/ /\ line.kind = "END"
       /\ pending' = AfterEnd
       /\ \/ /\ pending = NoBlock
             /\ UNCHANGED events
          \/ \E c \in pending.cid : Emit("connect-env", c, pending.env)
    \/ /\ line.kind \in {"ESTABLISHED", "DISCONNECT"}
       /\ UNCHANGED pending
       /\ Emit(IF line.kind = "DISCONNECT" THEN "disconnect" ELSE "established", line.of, {})

HandleClientLine ==
    /\ toClient # <<>>
    /\ toClient' = Tail(toClient)
    /\ CollectorPush(Head(toClient))
    /\ UNCHANGED <<sessionVars, linkVars, clientVars, toPeer, askVars, callVars,
                   serverVars>>

(* The application decides on a client that was announced: approveClient() *)
(* or denyClient() once, and killClient() once.                            *)
Decide(c, verdict) ==
    /\ management # 0
    /\ \A v \in Verdicts : <<c, v>> \in decided => v # verdict /\ "kill" \in {v, verdict}
    /\ \E i \in DOMAIN events : events[i].type = "connect-env" /\ events[i].cid = c
    /\ decided' = decided \cup {<<c, verdict>>}
    /\ UNCHANGED link
    /\ Pump(Append(queue, Command(verdict, c)), busy, toPeer)
    /\ UNCHANGED <<sessionVars, management, losses, toClient, askVars, callVars,
                   collectorVars, peer>>

----------------------------------------------------------------------------
\* The environment: OpenVPN

(* OpenVPN needs something and waits for it. *)
Ask(kind) ==
    /\ role = "tunnel"
    /\ management # 0
    /\ request = 0
    /\ Len(asked) < MaxRequests
    /\ asked' = Append(asked, kind)
    /\ request' = Len(asked')
    /\ held' = 0
    /\ overtaken' = (overtaken /\ ~Quiet)
    /\ toClient' = IF link THEN Append(toClient, Line("ask", request')) ELSE toClient
    /\ UNCHANGED <<sessionVars, linkVars, clientVars, toPeer, used, callVars,
                   collectorVars, serverVars>>

(* Does OpenVPN wait for this command? *)
Wanted(c) ==
    /\ request # 0
    /\ asked[request] = IF c.what \in Written THEN c.what ELSE "auth"

(* A user name is kept until the password comes; a password, a signature   *)
(* or a certificate ends the request.  What OpenVPN does not wait for, it  *)
(* refuses.                                                                *)
TakeAnswer(c) ==
    /\ c.what \in {"username", "password"} \cup Written
    /\ \/ /\ ~Wanted(c)
          /\ UNCHANGED <<request, held, used>>
       \/ /\ Wanted(c)
          /\ c.what = "username"
          /\ held' = c.of
          /\ UNCHANGED <<request, used>>
       \/ /\ Wanted(c)
          /\ c.what # "username"
          /\ used' = used \cup {[request |-> request, answer |-> c.of,
                                 user |-> IF c.what = "password" THEN held ELSE c.of,
                                 late |-> overtaken]}
          /\ request' = 0
          /\ held' = 0
    /\ UNCHANGED peer

TakeVerdict(c) ==
    /\ c.what \in Verdicts
    /\ peer' = [peer EXCEPT ![c.of] =
           CASE c.what = "approve" /\ @ = "waiting" -> "approved"
             [] c.what = "deny" /\ @ = "waiting" -> "denied"
             [] c.what = "kill" /\ @ \in {"waiting", "approved", "established"} -> "killed"
             [] OTHER -> @]
    /\ UNCHANGED <<request, held, used>>

Execute ==
    /\ toPeer # <<>>
    /\ toPeer' = Tail(toPeer)
    /\ TakeAnswer(Head(toPeer)) \/ TakeVerdict(Head(toPeer))
    /\ toClient' = IF Head(toPeer).what \in Written THEN toClient ELSE Append(toClient, Reply)
    /\ UNCHANGED <<sessionVars, linkVars, clientVars, asked, overtaken, callVars,
                   collectorVars, decided>>

(* What may become of a client, and the header of the block it is reported *)
(* with.                                                                   *)
Moves == {<<"absent", "waiting", "CONNECT">>, <<"approved", "established", "ESTABLISHED">>}
         \cup {<<p, "gone", "DISCONNECT">> : p \in {"waiting", "denied", "established", "killed"}}

(* A block is written in one go; without a connection nobody is told. *)
ClientMoves(c, move) ==
    /\ role = "server"
    /\ management # 0
    /\ peer[c] = move[1]
    /\ peer' = [peer EXCEPT ![c] = move[2]]
    /\ toClient' = IF link THEN toClient \o <<Line(move[3], c), Line("ENV", c), Line("END", c)>>
                           ELSE toClient
    /\ UNCHANGED <<sessionVars, linkVars, clientVars, toPeer, askVars, callVars,
                   collectorVars, decided>>

----------------------------------------------------------------------------
\* The specification

Session == Connect \/ Disconnect \/ Lose \/ Reconnect \/ \E n \in Calls : Expire(n)

Answer(n) == AnswerCredentials(n) \/ AnswerWritten(n)

Handle == HandleRequest \/ HandleReply \/ HandleClientLine

Application ==
    \/ \E n \in Calls : Answer(n)
    \/ \E c \in Clients, v \in Verdicts : Decide(c, v)

OpenVPN ==
    \/ \E k \in Kinds : Ask(k)
    \/ Execute
    \/ \E c \in Clients, m \in Moves : ClientMoves(c, m)

Next == Session \/ Handle \/ Application \/ OpenVPN

Spec == Init /\ [][Next]_vars

(* Lines arrive, OpenVPN reads its commands, providers return and the      *)
(* client reconnects by itself.                                            *)
Fairness ==
    /\ WF_vars(Handle)
    /\ WF_vars(Execute)
    /\ WF_vars(Reconnect)
    /\ \A n \in Calls : WF_vars(Answer(n))

FairSpec == Spec /\ Fairness

----------------------------------------------------------------------------
\* Properties

(* OpenVPN goes on with the user name and the password of one answer, and  *)
(* with the answer to the request it made, whatever connections are lost   *)
(* or replaced and whichever commands are rejected with them, unless a     *)
(* provider was at work then: nothing in the handlers (index.ts:192-195,   *)
(* 274-312) ties an answer to its request or its connection, so that a     *)
(* late answer is mixed with others and goes to whatever OpenVPN asked     *)
(* last.  The damage ends with the first request that OpenVPN makes when   *)
(* everything before it is over.                                           *)
AnswersMatchRequests ==
    \A u \in used : u.late \/ (u.user = u.answer /\ call[u.answer] = u.request)

(* No answer is used for two requests, late or not: what was sent on a     *)
(* connection that is lost is rejected and not sent again on the next one  *)
(* (client.ts:322-329), where OpenVPN may have asked for something else.   *)
AnswersUsedOnce == \A u, v \in used : u.answer = v.answer => u = v

(* Whatever is lost, dropped or mixed up, a request does not stay open:    *)
(* the last connection repeats it and gets an answer through the queue     *)
(* (credentials, index.ts:192-195) or past it (writeMultiline,             *)
(* client.ts:114-121).                                                     *)
EveryRequestAnswered == (request # 0) ~> (request = 0)

(* 'client-connect' is emitted "after the >CLIENT:ENV block completes"     *)
(* (README.md:151): it comes with the environment of its own client, and   *)
(* no other event of that client precedes it.                              *)
ClientConnectIsGenuine ==
    \A i \in DOMAIN events : events[i].type = "connect-env" =>
        /\ events[i].env = {events[i].cid}
        /\ \A j \in 1 .. i - 1 : events[j].cid # events[i].cid
=============================================================================
