--------------------------- MODULE CommandService ---------------------------
(***************************************************************************)
(* What the management client promises to the callers of `send`:          *)
(*                                                                         *)
(*   - every submitted command is settled at most once, either resolved    *)
(*     with a result or rejected;                                          *)
(*   - a command is written to OpenVPN at most once, and only while it is  *)
(*     the oldest unsettled one;                                           *)
(*   - a command is resolved only if OpenVPN executed it and it is the     *)
(*     oldest unsettled one, so results come in submission order;          *)
(*   - a rejected command may or may not have been executed.               *)
(*                                                                         *)
(* Sockets, connection attempts, frames and timers do not appear: they are *)
(* the business of ManagementClient, which implements this specification.  *)
(***************************************************************************)
EXTENDS Naturals, Sequences

CONSTANT Commands   \* every command a client may ever submit

VARIABLES
    pending,       \* the unsettled commands, oldest first
    outcome,       \* how the promise of each command stands
    transmitted,   \* the commands that were written to the connection
    executed       \* the commands OpenVPN carried out

vars == <<pending, outcome, transmitted, executed>>

Outcomes == {"new", "pending", "resolved", "rejected"}

TypeOK ==
    /\ pending \in Seq(Commands)
    /\ outcome \in [Commands -> Outcomes]
    /\ transmitted \subseteq Commands
    /\ executed \subseteq Commands

Init ==
    /\ pending = <<>>
    /\ outcome = [c \in Commands |-> "new"]
    /\ transmitted = {}
    /\ executed = {}

----------------------------------------------------------------------------
(* After any change of `pending` the service may transmit its oldest       *)
(* command, unless that was done before.                                   *)
MayTransmitHead ==
    \/ UNCHANGED transmitted
    \/ /\ pending' # <<>>
       /\ Head(pending') \notin transmitted
       /\ transmitted' = transmitted \cup {Head(pending')}

Submit(c) ==
    /\ outcome[c] = "new"
    /\ pending' = Append(pending, c)
    /\ outcome' = [outcome EXCEPT ![c] = "pending"]
    /\ MayTransmitHead
    /\ UNCHANGED executed

Execute(c) ==
    /\ c \in transmitted \ executed
    /\ executed' = executed \cup {c}
    /\ UNCHANGED <<pending, outcome, transmitted>>

(* The oldest command gets its result.  *)
Resolve ==
    /\ pending # <<>>
    /\ Head(pending) \in executed
    /\ pending' = Tail(pending)
    /\ outcome' = [outcome EXCEPT ![Head(pending)] = "resolved"]
    /\ MayTransmitHead
    /\ UNCHANGED executed

(* The result of the oldest command makes its caller submit the next one,  *)
(* which is what the initialisation loop of the client does.               *)
ResolveAndSubmit(c) ==
    /\ pending # <<>>
    /\ Head(pending) \in executed
    /\ outcome[c] = "new"
    /\ pending' = Append(Tail(pending), c)
    /\ outcome' = [outcome EXCEPT ![Head(pending)] = "resolved", ![c] = "pending"]
    /\ MayTransmitHead
    /\ UNCHANGED executed

(* One command, at any position, is given up. *)
Expire(i) ==
    /\ pending' = SubSeq(pending, 1, i - 1) \o SubSeq(pending, i + 1, Len(pending))
    /\ outcome' = [outcome EXCEPT ![pending[i]] = "rejected"]
    /\ UNCHANGED <<transmitted, executed>>

(* The connection is lost and every unsettled command is given up. *)
Abandon ==
    /\ pending' = <<>>
    /\ outcome' = [c \in Commands |->
                     IF \E i \in DOMAIN pending : pending[i] = c
                     THEN "rejected" ELSE outcome[c]]
    /\ UNCHANGED <<transmitted, executed>>

Next ==
    \/ \E c \in Commands : Submit(c) \/ Execute(c) \/ ResolveAndSubmit(c)
    \/ Resolve
    \/ \E i \in DOMAIN pending : Expire(i)
    \/ Abandon

Spec == Init /\ [][Next]_vars
=============================================================================
