# Verification of the OpenVPN SDK

This directory holds TLA+ specifications of the SDK in `src/`, the TLC
configurations that check them on small instances, and proofs that the TLA+
proof system (TLAPS) checks for every instance. `PROJECT.json` lists the
components, runs, mutants, findings, hazards and theorems, and maps every
definition that stands for code to the lines it stands for.

    tlc -config MCClientFaults.cfg MCManagementClient     # a run
    tlapm ManagementClientProofs.tla                      # the proofs

## 1. The system

The SDK starts an OpenVPN process, talks to it over its management interface and,
on Windows, prepares the TAP adapter it needs. It is single-threaded JavaScript:
what makes it hard is not parallelism but everything that may happen between two
turns of the event loop — between an `await` and its continuation, a timer and
its expiry, a `destroy()` and the `close` event. Beside the library there are the
maintainer's scripts, which keep their state in files and may die between any two
of them.

| Component | State | Operations | Talks to |
|---|---|---|---|
| `ManagementClient` (`core/client.ts`) | socket, command queue, busy flag, reconnect timer and attempt counter, the promise of the attempt under way, welcome timer, frame parser | `connect`, `attachSocket`, `disconnect`, `send`, `sendMultiline`, `writeMultiline`; socket events; timers | OpenVPN over a socket; emits events |
| `LineDecoder`, `FrameParser` (`core/codec.ts`) | partial line; partial frame | `push`, `flush` | called by `ManagementClient` |
| `OpenVpnClient` (`openvpn-sdk/index.ts`) | child, management client, temporary directory, adapter GUID, tunnel state, waiters, the running cleanup | `connect`, `disconnect`, `waitFor`, `sendManagement`; handlers of password, signature and certificate requests | process, management client, adapter manager, file system, the application's providers |
| `OpenVpnServer` (`openvpn-sdk/index.ts`) | as `OpenVpnClient`, and a block collector per management client | client events and decisions, status | as `OpenVpnClient` |
| `ClientEnvCollector` (`core/server.ts`) | the block being received | `push` | called by `ManagementClient` |
| `ProcessManager` (`process/index.ts`) | child, output | `start`, `killTree`, `stop`; port and path probes | the operating system |
| `AdapterManager` (`tap/index.ts`) | reference counts | `ensure`, `release`, `list`, `create`, `delete` | `tapctl.exe`, `OpenvpnServiceClient` |
| `OpenvpnServiceClient` (`tap/openvpnserv.ts`) | — | `createAdapter` | the interactive service, over a pipe |
| `ManagementServer` (`core/management-server.ts`) | listening server, set of clients | `start`, `stop`, `accept` | one `ManagementClient` per connection |
| text helpers (`core/types.ts`, `core/server.ts`, `core/external-key.ts`) | — | pure functions | |
| `BinaryManager` (`binary`) | — | search for a binary | file system, platform packages |
| release scripts (`scripts/`) | `openvpn-binaries.json`, `platform-packages/`, `dist/`, `vendor/`, the published manifest | fetch, build, prepare, verify, publish | the files, in turn |
| `OvpnConfig` (`config`) | the configuration lines | parse, get, set, format | |
| `MockManagementServer`, playground | test double and examples, outside the library | | |

What is hard, and what correctness means there (the hazards in `PROJECT.json` give the lines):

* **ManagementClient.** Commands have no identifiers on the wire: a reply belongs
  to whoever heads the queue. Every loss, timeout and reconnection must therefore
  keep wire and queue in step. Closed sockets report late and their handlers act on
  the *current* state of the client. Every promise must settle; a lost connection
  must be replaced unless the application closed the client; nothing may be sent
  twice.
* **OpenVpnClient.** `connect` and `disconnect` check `this.child`,
  `this.management`, `this.tempDir` before an `await` and use them after; the
  process can exit at each of them, or go on after `disconnect` has returned; any
  step can fail. No directory may be forgotten, `disconnect` must let go of all the
  client holds, every call must return.
* **Requests and answers.** OpenVPN asks and waits; a provider of the application
  answers much later, perhaps over another connection or to another process.
  Credentials are two commands in the queue, signatures and certificates go past
  it. Answers must meet their requests, and no request may stay open.
* **Client blocks.** A server's notifications are assembled line by line from
  `>CLIENT` blocks of which only one kind is wanted; `client-connect` must be of one
  client, with its own environment.
* **AdapterManager.** Reference counts are read and written around external
  commands. No adapter may go while it is held, and none may be left over.
* **ManagementServer.** Connections close, time out or are disconnected at any
  point of their handshake, `stop()` among them: it must reach each of them.
* **Release.** Scripts are run in any order, fail or are killed half way, and the
  next script looks only for files. What is published must be whole and say the
  truth about the binaries in it.
* **Text.** Lines arrive in any chunks; arguments with quotes and backslashes go
  through OpenVPN's lexer; the end of a reply is guessed from the command.

## 2. Modules

| Module | Models | Checked by | Proved in |
|---|---|---|---|
| `CommandService` | what callers of `send` may rely on (abstract) | — | — |
| `ManagementClient` | `core/client.ts` with `FrameParser`; implements `CommandService` | `MCManagementClient` | `ManagementClientProofs`, `CommandServiceProofs` |
| `OpenVpnClient` | `openvpn-sdk/index.ts` with process, adapter and management client as it sees them | `MCOpenVpnClient` | `OpenVpnClientProofs` |
| `Exchange` | the request handlers of `openvpn-sdk/index.ts`, `OpenVpnServer`, `core/server.ts`, `writeMultiline` | `MCExchange` | `ExchangeProofs` |
| `ManagementServer` | `core/management-server.ts` | itself | `ManagementServerProofs` |
| `AdapterManager` | `tap/index.ts`, several users of one manager | `MCAdapterManager` | `AdapterManagerProofs` |
| `BinaryManager` | the search of `binary/index.ts`, as operators | through `Release` | `ReleaseProofs` |
| `Release` | `scripts/`: fetch, build-single, prepare-release, verify, the checks of publish; extends `BinaryManager` | `MCRelease` | `ReleaseProofs` |
| `Text` | `LineDecoder`, `escapeArg`, `escapeServerArg`, `inferExpect`, with OpenVPN's lexer and the mock's replies as references | through `Wire` | `TextProofs` |
| `Wire` | the conversions of `Text` at work: lines in chunks over two connections, an argument, a command; extends `Text` | `MCText` | `TextProofs` |

Several modules carry, right before a definition, variants of it that contain a
plausible bug (`DestroyedNever`, `CleanupForgetsDir`, ...). No specification uses
them: `PROJECT.json` substitutes each for its original to confirm that the named
property notices.

### ManagementClient

An action is one turn of the event loop with the promise continuations it
releases: an application call, a socket event, one received line, a timer.

* Commands are the application's or `<<a, k>>`, step `k` of the initialisation
  that attempt `a` runs. Attempts and sockets share a number, since every attempt
  opens one socket (`attachSocket` is handed one). `handshake[a]` follows the
  promise of attempt `a`; `readyOwner` says which attempt `readyResolve` and
  `readyReject` belong to, and being overwritten is part of the model.
* `toPeer[s]` and `toClient[s]` are what is in flight on socket `s`. Lines are
  atomic (`Text` has the chunks); `frame` is the state of `FrameParser`, which the
  client never resets.
* `conn[s]` goes from `live` to `destroyed` (by `destroy()`, an error, or the
  peer) to `closed`, when the `close` handler runs. The handler acts on the client's
  current state, whichever socket it belongs to. The model lets the close event
  of an old socket come later than node would usually deliver it.
* OpenVPN greets a connection, carries out commands in order and answers each; a
  command expected to end with `END` may be refused by a bare `ERROR:` line.
* Faults (connection error, end of connection, slow answers that let a timer
  expire, bare errors) are bounded by `MaxFaults`; with reconnection `MaxSockets` is
  one more than that, so that it never binds. The fault `welcome` is not counted:
  with it the banner of any connection may be late or never come.
* `Reuse` allows `connect()` and `disconnect()` in any order on one client. No part
  of this repository does that: `OpenVpnClient` and `ManagementServer` make a client
  for every connection. The runs have `Reuse = FALSE`; four theorems hold without
  it.
* Not modelled: the emitted events (an `error` event without listener throws), the
  delay of a reconnect (only its exponent).

### OpenVpnClient

An action is the code between two awaits. `connectPc[k]` and `disconnectPc[d]` say
what call `k` or `d` waits for; the process, directory and management client of a
`connect()` carry its number, so `child = 2` reads "`this.child` is the process
that call 2 started".

* `Cleanup` is `cleanup()` up to the first await of `doCleanup()`, including that a
  removal under way is joined (`cleanupPromise ??=`). `this.configFile` is always
  set and cleared with `this.tempDir` and has no variable of its own.
* `getFreePort()` is merged with the await after it: nothing is read or written in between.
* `windows` selects the platform; outside Windows `killTree` only sends SIGTERM.
* `Faults` are the ways the environment may fail, each possible at every
  opportunity: the adapter, the directory, the configuration file, the port, the
  handshake, a crash, an unanswered signal, a slow exit, a process that ignores
  SIGTERM, taskkill, the release, the removal.
* `Overlap = FALSE` is an application that makes a call when the earlier ones have
  returned (`Patient`); a process may still be going down then and a directory being
  removed, which `index.ts` gives it no way to know. `Overlap = TRUE` is any
  application.
* A process ends with an exit code (`exited`) or by a signal (`killed`):
  `isChildRunning()` looks at `exitCode` only and takes the second for running.
* `slowrm` is a removal that is still under way when the child of a later
  `connect()` exits (`RemovalOutlasts`). Without it the exit of an earlier process,
  and `disconnect()`, may still join a removal.
* Tunnel states are abstracted to `TunnelStates`, the one waited for is `CONNECTED`.
* Not modelled here: the handlers that are in `Exchange`; the `error` event of a child
  that could not be started, which nobody listens to; the text of errors.

### Exchange

OpenVPN runs as a tunnel, which asks for credentials, signatures and certificates,
or as a server, which reports its clients. `ManagementClient` is reduced to its
queue: one command in flight, replies in order, everything rejected with the
connection. Calls of providers are numbered, and the number of a call stands for
what it returns: `used` can then say whose user name, password or signature OpenVPN
went on with, for which request.

* `HandleRequest` calls the provider; `AnswerCredentials` is `submitCredentials()`
  up to its first await, `HandleReply` continues it. `WriteMultiline` goes straight
  to the wire, or nowhere.
* `Lose` and `Reconnect` are the connection going and coming back; OpenVPN repeats
  the request it waits for, so that two calls of a provider can be under way for it.
* `CollectorPush` is `ClientEnvCollector.push` with the event `OpenVpnServer` emits.
  `ADDRESS` and `CR_RESPONSE` make events in the way of `ESTABLISHED` and are left out.
* `overtaken` remembers that a connection was lost or closed while a provider was at
  work. The code can then pair the user name of one call with the password of
  another, and answer the requests of the next process with the answers to the last:
  nothing in the handlers ties an answer to its request. All this is in the model.
  `overtaken` ends when OpenVPN asks while nothing of what was before is under way
  (`Quiet`), and `used` notes for each answer whether it was set (`late`):
  `AnswersMatchRequests` excuses those, and no other. `AnswersUsedOnce` excuses none.
* A provider is called at most once for each request and each repetition of one, so
  that the bound `MaxCalls` never binds; the theorem `AnswersMatch` counts on it only
  to number the calls.
* Not modelled: `pendingAuthClient`, `killByCommonName`, `getStatus`, which are one
  command each; a provider that rejects, after which its request stays open.

### ManagementServer

A connection and its client share a number. `accept[i]` is how far `accept()` got:
waiting for the banner, initialising, ready or failed. `Stop` is `stop()` up to
`server.close()`, whose callback (`ServerClosed`) needs all sockets closed. A client
that was disconnected while it waited for the banner is ended by the close handler of its
socket (`client.ts:213-214`) or by its welcome timer, because `disconnect()` rejects
commands but not the promise of the attempt; whichever it is, `accept()` ends then.
Listeners run inside `accept()`: a listener of `connection` that disconnects its
client there is not modelled (it disconnects nothing, and the handshake goes on).

### AdapterManager

A command run by `tapctl.exe` takes effect while the caller waits, so the effect
(`TapctlList`, `TapctlCreate`, `TapctlDelete`) and the handling of its answer
(`Listed`, `Created`, `CreateRefused`) are separate actions. Each user calls
`ensure()` and, if it was given a GUID, `release()`. `overlap` and `elevated` are
chosen at the start. The interactive service does not say which adapter it made.
Adapters removed or made by other programs are not modelled.

### Release and BinaryManager

A step is one file written or one check; the files are the variables. The contents
of a file are the number of the OpenVPN release it comes from, 0 for a missing and
`Torn` for a cut-off file. `step`, `job` and `todo` are the script that runs, one at
a time. `Interrupt` kills it anywhere, also in the middle of a binary.

* `BinaryManager!Resolve` takes what is on a machine as a record and returns what
  `resolve()` returns; `Machines(t, e)` are the machines that have the published
  package installed, with other binaries, environment variables and a platform
  package present or not.
* `publish.mjs` changes nothing, so it is the predicate `Publishable`;
  `verify-platform-packages.mjs` likewise is `VerifySucceeds`. It wants the metadata of
  pending platforms to match too, though the fetch refuses a pending platform
  without `--source`.
* `rmSync(vendor)` deletes file by file, in any order (`WipeFile`, `WipeJson`,
  `WipeEnd`). A build killed in it, or one that cannot delete a file, may leave
  `openvpn.json` without the binaries it names, and `publish.mjs` lets that through:
  `cut` marks this state until a later build has deleted the rest, and the
  properties excuse it. `Interrupt` also cuts the other steps short (`CutShort`).
* `--verify-only` is described as writing nothing
  (`fetch-openvpn-binaries.mjs:12`), but its path goes through line 225, which writes
  the metadata: in the model every fetch does.
* A file counts as there whatever is in it, as it does for the scripts: "whole" means
  that all files exist. What a binary prints is `BundledIsExact`.
* `unchecked` is a self check that is skipped (`--no-exec`, or a spawn that is
  blocked): then the recorded version may be false, and the run leaves it out.
* Not modelled: hashes (a wrong one refuses the fetch), the text that is rewritten
  in compiled modules and manifests, the copy of the documents.

### Text

`Text` has the conversions, `Wire` puts them to work: lines with LF or CR LF that
arrive in any chunks over two connections, one argument, one command. `Lex` is
OpenVPN's lexer, `DefaultMockResponse` the mock server's replies: the two references
the conversions are compared with. The loops of the code (`push`, the escaping, the
lexer) are recursive functions on the number of iterations or characters. A verb of
each kind is tried with up to two words behind it, a number among them; the theorem
`RepliesEnd` is for all verbs and words. `Unanswered` describes the commands for which
`inferExpect` waits for an END that the mock server does not write, and
`ReplyEndsWithItsLastLine` says that these are all, and that no reply ends early. A space
stands for a space and a tab; an argument has no line end, which would end its command,
and OpenVPN's limit on the length of an argument is left out.

## 3. Runs

| Run | What it asks | Bounds |
|---|---|---|
| `client_faults` | all safety of a client connected once, and `CommandService` | a single-line and an END command, 2-step initialisation, 2 faults, 3 sockets |
| `client_liveness` | every command and attempt settles; the client ends up initialised | one END command, else as above |
| `client_oneshot` | a client without reconnection, connecting or attached, also when the banner never comes: its attempt ends | 2 commands, 2-step initialisation, 2 faults, 1 socket |
| `client_stale_frame` | finding: a cut reply turns up in the next result | 1 lost connection, 2 sockets |
| `session` | calls made when the earlier ones have returned, two connects and disconnects, all faults but those named below | 2 connects, 2 disconnects, 1 wait |
| `session_overlap` | calls that overlap in any way, all faults: every call returns | 2 connects, 1 disconnect |
| `session_exit_then_disconnect` | finding: a self-ended process leaves client and adapter behind | 1 connect, 1 disconnect |
| `exchange` | answers meet their requests and are used once, no request stays open, `client-connect` is genuine | 2 processes, 2 requests, 2 lost connections, 2 clients |
| `server` | the set of clients, `stop()` and what it leaves | 3 connections, 2 starts |
| `adapters` | counts, drivers, leaks and termination, calls serial or overlapping | 3 users, 1 adapter before, 4 in all |
| `release` | what can be published, and what its user gets, with scripts cut short anywhere | 2 platforms (one pending at first) with one file each, 2 releases; any number of script runs |
| `text` | lines, arguments and the ends of replies, early or missing ones included | 3 lines, 2 connections, arguments of up to 5 characters of 5 kinds |

Why the bounds suffice to meet the hard cases:

* Client: two faults give a loss during the recovery from a loss, a timeout behind
  a command in flight, and a stale reply with a command of the new connection; two
  commands put one behind the one in flight; two initialisation steps distinguish
  first, next and last.
* Session: two `connect()` calls are enough for state of one session to reach the next.
* Adapters: with three users one can create while the second finds and the third deletes.
* Exchange: two requests and two losses give two calls of a provider for one request
  (the second after the repetition) beside one for another; two clients let one
  block follow, and differ from, another.
* Server: three connections can be one that waits, one that initialises and one that
  is ready when `stop()` comes, and a second start shows what the first left.
* Release: two platforms that ship have two files to copy, which is all that
  libraries beside the executable would add; two releases make a stale file. The
  theorems are for any number of both.
* Text: two lines around a chunk boundary and one before; five characters hold a
  quote inside quotes after a backslash, and a space.

Deadlock is checked in the client, server and release runs. Elsewhere
(`CHECK_DEADLOCK FALSE`) applications, users and OpenVPN make a bounded number of
calls, requests or lines and then stop.

What the runs leave out, because the code does not keep the property:

* `session`: a failed `writeFile` or spawn (the directory stays in `tempDir` and is
  forgotten by the next `connect()`), a failed second `rm` (it is ignored on
  purpose), and a removal that outlasts the next process (`slowrm`: the exit that
  joins it leaves `child` and `tempDir` set). `session_overlap` has them, for
  `CallsSettle`.
* No run asks for one process at a time. Overlapping `connect()` calls start two; and
  with calls in sequence `disconnect()` can return while its process is going down,
  whose late exit handler takes away the child and the directory of the next
  `connect()`. Both are in the runs, for the properties that hold in spite of them.
* `client_faults`, `client_liveness`: the welcome timeout. It rejects the attempt but
  keeps the socket and arms no reconnect, so the client can stay uninitialised, and
  its timer can reject a later attempt.
* `exchange`: the match of requests made while a late answer is under way, as above.
* `exchange`: a connection lost inside a block (`TornBlocks`). The collector keeps
  the half, and the code can emit a `client-connect` made of two clients.
* `text`: a connection lost inside a line (`TornLines`). The decoder is the client's
  and keeps the half: the next banner is glued to it and not recognised.
  `escapeServerArg` doubles no backslash and drops an empty argument; `ArgumentIsRead`
  asks this of `escapeArg` only.
* `adapters`: `ensure()` can return an adapter that an overlapping `release()` is
  deleting; `HeldAdapterFits` asks for its presence only when calls do not overlap.
* `release`: a deletion of `vendor/` that was cut short, as above. A build that failed
  or was killed can also leave a `dist/` that is incomplete or still imports
  workspace packages beside the `vendor/` of an earlier one, and publish lets it
  through; no property speaks of what is in `dist/`.

**Fairness.** Weak fairness only, of actions that the event loop or the operating
system performs; nothing is assumed of the application's calls or of faults.

* Client: received lines are handled, close events follow `destroy()`, timers fire,
  OpenVPN answers, and greets unless the fault `welcome` lets it stay silent. The
  timer of a command is only assumed to fire when
  the queue has stalled, which is when nothing else will settle the command
  (`QueueMovesByItself` says when that is on a usable connection).
* Session and adapters: awaited system calls return, a process told to end ends
  (unless `stubborn`), timers fire, `tapctl` ends.
* Exchange: lines arrive (`Handle`), OpenVPN reads its commands (`Execute`), the client
  reconnects by itself (`Reconnect`), providers return (`Answer`). The last is the one
  assumption about the application.
* Server: the close event follows a destroyed socket, the callback the last of them,
  and the timers of `accept()` fire. OpenVPN need not close anything.

## 4. Properties

The abstract `CommandService` says: commands are settled once and in order of
submission, a command is transmitted at most once and only as the oldest, and
resolved only after OpenVPN executed it. `ImplementsService` says that
`ManagementClient` implements it with `pending <- queue` and
`transmitted <- {c : writes[c] > 0}`.

| Of | Safety | Of a step | Live |
|---|---|---|---|
| a client | `OneLiveSocket`, `PipelineMatchesQueue` (wire and queue in step), `ResolvedByOwnReply`, `WrittenAtMostOnce`, `ReadyMeansInitialised`, `ReconnectArmedWhenLost`, `BackoffCountsFailures` | `NoSocketAfterDisconnect`, `ImplementsService` | `EveryCommandSettles`, `EveryAttemptSettles`, `EventuallyReady` |
| a session | `NoDirForgotten`, `ManagementUsable` | `DisconnectedMeansClean` | `CallsSettle`, `DirRemovedAfterExit` |
| the exchange | `AnswersMatchRequests`, `AnswersUsedOnce`, `ClientConnectIsGenuine` | | `EveryRequestAnswered` |
| a server | `ClientsHaveSockets` | `NoClientReadyAfterStop` | `StopSettles` |
| adapters | `CountMatchesHolders`, `HeldAdapterFits`, `NothingLeaks` | | `CallsSettle` |
| a release | `PublishedIsWhole`, `BundledIsExact` | | |
| text | `DecodedAreSent`, `ArgumentIsRead`, `ReplyEndsWithItsLastLine` | | |

Each is stated in words above its definition. The two findings, runs that TLC
refutes against a quoted line, are in `PROJECT.json`. Beside them the models
document, without a run of their own, what section 3 leaves out, and: a second
`connect()` on Windows counts an adapter it never releases; `disconnect()` outside
Windows never sends SIGKILL; `waitFor()` resolves for a state reported by the previous
tunnel; a `connect()` on a client that has a socket is rejected by the close event of
the old one.

The fetch writes `os` and `cpu` into the metadata of the platform packages, of which
`verify-platform-packages.mjs:105-107` says that they break `npm install`; its line 194
uses `platformDirName`, which is declared nowhere. Both are outside the model, which
knows of the metadata only the version.

## 5. Proofs

TLAPS checks these for every value of the constants under the assumptions named in
the modules (`CommandsAssumption`, `OptionsAssumption`, `BoundsAssumption`, ...).

| Theorem | States |
|---|---|
| `ManagementClientProofs!TypeCorrect` | `TypeOK` |
| `OneSocketAtATime` | `OneLiveSocket` |
| `NoSocketOpensAfterDisconnect` | `NoSocketAfterDisconnect` |
| `RepliesStayPaired` | `PipelineMatchesQueue`, assuming `~Reuse` |
| `CommandServiceProofs!ImplementsCommandService` | `ImplementsService`, assuming `~Reuse` |
| `NothingWrittenTwice` | `WrittenAtMostOnce`, assuming `~Reuse` |
| `OwnReplies` | `ResolvedByOwnReply`, assuming `~Reuse` |
| `ReadyAfterInitialisation` | `ReadyMeansInitialised`, assuming `~Reuse` |
| `DelayCountsLosses` | `BackoffCountsFailures`, assuming `~Reuse` |
| `LossesAreRepaired` | `ReconnectArmedWhenLost` |
| `QueueMovesByItself` | `StopsOnlyWhenRefused`: what a usable connection needs a command timer for, assuming `~Reuse` and no welcome timeout (`"welcome" \notin Faults`) |
| `OpenVpnClientProofs!TypeCorrect` | `TypeOK`, whatever the calls and faults |
| `ManagementStaysUsable` | `ManagementUsable`, whatever the calls and faults |
| `NoDirIsForgotten` | `NoDirForgotten`, assuming `Orderly` |
| `DisconnectLeavesNothing` | `DisconnectedMeansClean`, assuming `Orderly` |
| `ExchangeProofs!TypeCorrect` | `TypeOK` |
| `AnswersMatch` | `AnswersMatchRequests`, late answers included as the property says |
| `ClientConnectsAreGenuine` | `ClientConnectIsGenuine`, assuming `~TornBlocks` |
| `AdapterManagerProofs!TypeCorrect` | `TypeOK` |
| `CountsMatch` | `CountMatchesHolders` |
| `AdaptersFit` | `HeldAdapterFits` |
| `NoAdapterLeaks` | `NothingLeaks` |
| `ManagementServerProofs!TypeCorrect` | `TypeOK` |
| `ClientsMatchSockets` | `ClientsHaveSockets` |
| `NothingReadyAfterStop` | `NoClientReadyAfterStop` |
| `TextProofs!WireInvariant` | the lines decoded are the first that were sent, the others are pending |
| `LinesComeOut` | `DecodedAreSent`, on the first connection, and on the next one assuming `~TornLines` |
| `ArgumentsComeOut` | `ArgumentIsRead` |
| `RepliesEnd` | `ReplyEndsWithItsLastLine`, for every command but the empty one |
| `ReleaseProofs!TypeCorrect` | `TypeOK` |
| `PublishedPackageIsWhole` | `PublishedIsWhole` |
| `BundledVersionIsExact` | `BundledIsExact`, assuming `Checked` |

**The wire of a client.** `OneLiveSocket` is inductive together with the fact that
sockets beyond `opened` are unused (`Numbered`); `NoSocketAfterDisconnect` follows from
`TimerInv`: an armed reconnect timer means that the application has not closed the
client. `PipelineMatchesQueue` is not inductive: a late event of another socket could clear
`busy` or empty the queue under a command in flight. `WireInv` adds that a socket
whose close event is still to come is the current one, if there is a current one, and
that a reconnect is armed only when the current socket is closed (`CloseInv`), that a
busy client has a command and a socket not yet closed (`BusyInv`), and that a line
which ends a reply is the last one in flight, with nothing sent before the banner or
on a socket not opened yet (`LinesInv`). `~Reuse` is needed for `CloseInv`: with a second
`connect()` the late close event of the first socket clears `busy` under the new one's
command.

**The commands of a client.** `CommandServiceProofs` first classifies the steps by what
they do to the commands (`CommandStep`: nothing, one is enqueued, the head is resolved
by its own reply, and perhaps followed by the next step of the initialisation, one
expires, all are abandoned), which is where the wire invariant is used. Each class is
an action of `CommandService`. On top of it `HistoryInv` says

* `QueueInv`: a command is queued once, pending while it is, and unwritten unless it is
  the oldest and in flight or its socket is going down. The exception is what
  `rejectAllPending` relies on: a timer clears `busy` and destroys the socket, and
  the close event comes before anything can be written again;
* `StepsInv`: a queued step of the initialisation belongs to the newest socket, the steps
  before it were answered there, those after it not submitted;
* `BodyInv`: the body of a reply that ends with END is in the frame or on the wire
  before it, also when the frame still holds lines of a lost connection;
* `ExecutedInv`: what is on the wire was written, what comes back was executed;
* `LostInv`, `BackoffInv`: a lost socket has a timer, and the exponent of the delay is
  the distance to the latest attempt that saw a banner.

`QueueMovesByItself` is the safety part of `EveryCommandSettles`: on a usable socket the
command in flight is on its way to OpenVPN, or the line that ends its reply is on its
way back, and when nothing is in flight the handshake under way will write the first
command (`MovesInv`). The queue of a usable connection stops, and needs a command timer,
in two cases only. OpenVPN refused a multi-line command by a bare `ERROR:` line, which
`FrameParser` keeps waiting for `END`. Or commands were queued before `connect()` and the
initialisation sequence is empty: nothing calls `pumpQueue` after the banner until the
next `send()`. An expired welcome timer is a third case, hence the assumption: the
socket stays open after it, and nobody runs the initialisation that would write.

**A session.** `Orderly` is what the run `session` assumes: calls made when the
earlier ones have returned, and none of the faults `config`, `rm` and `slowrm`, under
which the code does not keep these properties. Processes may go on after
`disconnect()` has returned and exit at any later await. The invariant says that one
call is under way (`OneCall`); that the child has not ended, that a `connect()` before
its start has none, and that a `disconnect()` past the exit joins no removal while
there is a child (`ChildKnown`); that without a child there is no directory but the
one whose file is being written, which the late exit of an earlier process may take
away (`DirKnown`); and what a `disconnect()` that waits for the adapter or the removal
has already given up (`LetGoOf`). `NoDirForgotten` needs `DirKnown`, so that no
`connect()` overwrites `tempDir`; `DisconnectedMeansClean` needs `LetGoOf` for the call
that joins a removal which an exit handler began.

**The exchange.** Nothing in the handlers ties an answer to its request, so the
invariant has to follow a request through all its phases: OpenVPN asks, a provider
works, the answer is written or the two commands of `submitCredentials()` go out one
after the other, OpenVPN goes on and perhaps asks again before the last reply is read
(`Phase`). In each phase it fixes the queue, both channels and the one call under way,
and that this call is for the request OpenVPN waits for (`Due`). `Phase` is required
only while `~overtaken`: a connection lost while a provider is at work sets
`overtaken`, in the other phases everything on its way may go. What holds even then
(`Counted`, `Matched` for the answers that are not late, `OnlyAsked`) is enough to
enter a phase again when OpenVPN asks with everything over (`AllOver`). The number of
calls never exceeds the requests made and the connections lost, which is why `Calls` is large enough. For a server the invariant says
that blocks arrive whole (`Framed`), that what the collector holds is continued by the
next line (`Collecting`), and that the first a `CONNECT` block says of a client is
the first ever said of it (`Unknown`, `Announced`, `Untold`); a torn block breaks
`Collecting`.

**Adapters.** The invariant says that each call refers to adapters that
exist or existed (`Indexed`), that the candidate index of a call stays in range
(`Trying`), what a successful create answered (`Making`), and, for calls that do not
overlap, that at most one is under way and its view of the system is current
(`Serial`). `CountMatchesHolders` carries `NothingLeaks`: a count above 1 guarantees
another holder. The lemmas on `Holders` use the finiteness of `Users`.

**A server.** No client becomes ready after `stop()` because none has an open socket
(`NothingOpenAfterStop`), and that follows from `ClientsHaveSockets`: `stop()`
disconnects `this.clients`, which must therefore be all of them.

**Text.** The theorems are for text of any length. What a recursive function computes is
proved in two stages: `PushLoop`, `EscapedLoop` and `ReadLoop` show that a function
with the recursive equation exists, and the others go by induction over the length
(`Induction`, from the well-foundedness of `<`). The lexer reads a quoted argument in
step with the escaping: after the first n characters of the argument and what `Escaped`
made of them it is inside quotes and has these n characters as its word
(`EscapedIsRead`). For lines the inductive invariant says that what the buffer and the
connection hold is a sequence of the lines not decoded yet, each with one of its ends
(`Pending`), and that the buffer has no line end (`Decoding`). `PushTakes` keeps it: the
first line end of pending text is that of its first line (`FirstLineEnd`), also when a
chunk ended between CR and LF, where the part that has arrived shows no line end yet
(`EndsOfPrefix`). `LinesAssumption` is needed for that: a line that ended with CR could
not be told from one that ends with CR LF.

**A release.** `Vendored` says what `openvpn.json` promises of the files beside it;
`Vendoring` makes it inductive: while files are copied there is no `openvpn.json`, and
each file is either there or still to be copied. `Vendored` is suspended while the
old `vendor/` is deleted, and after a deletion that was cut short until the next one
ends (`cut`). `FetchedIsPinned` and `Fetching` carry the
version from the self check into the package. `Checked` excludes the skipped self
check, without which `BundledIsExact` is false.

Only model-checked: all liveness, since fairness is out of the prover's reach;
`AnswersUsedOnce`; and sessions whose calls overlap, of which `TypeOK` and
`ManagementUsable` are proved.

## 6. Not modelled

* `OvpnConfig`: a parser and formatter of lines without state or concurrency; what
  could be said of it is about characters, and unit tests say it better.
* `ProcessManager.stop`, which the SDK does not call, and the probes for ports and paths,
  which are one await of `connect()`.
* `parseStatusText`, `parseAdapterList`, `decodeTapctl`, `parsePkSignRequest`, `splitBase64`,
  `parseState` and its like: fields of a line. The command builders of `core/server.ts`
  concatenate.
* `MockManagementServer` but for its replies, which `Text` uses, and the playground: a
  test double and example programs that call the SDK in a fixed order.
* The scripts that keep no state of the release, and of those in `Release` the text they
  rewrite and the hashes they compare.
