# Portix in TLA+

Portix is a desktop client for SSH, SFTP and RDP: a Flutter application
(`portix_app`) over two Rust libraries that do the networking, `portix_serv`
(SSH and SFTP, on russh) and `portix_rdp` (RDP, on IronRDP). This project models
the parts of the Rust libraries, and of the dialogs that drive them, where
concurrency, failure and ordering decide whether the program is right. TLC
checks the modules on small instances, and TLAPS proves the main safety
properties for every value of the constants.

Contents: [inventory](#1-inventory), [plan](#2-plan),
[the modules](#3-the-modules), [runs](#4-runs),
[fairness](#5-fairness), [proofs](#6-proofs),
[disagreements](#7-where-the-code-and-its-text-disagree),
[not modelled](#8-not-modelled).

## 1. Inventory

All paths are under `src/`. The libraries run on tokio; every bridge call from
Dart is a task of its own, so calls interleave with each other and with the
spawned session tasks at every `await`.

| Component | State it keeps | Operations | Hard behaviour | What makes it correct |
|---|---|---|---|---|
| SSH session manager (`portix_serv/src/application/session_manager.rs`) and runtime (`infrastructure/ssh_client.rs`, `SshRuntime::run`) | map of sessions with command senders and cached platform; per session a command channel (512), an exec channel (64), a task | connect, disconnect, send input, resize, remote system snapshot; the runtime's `select!` loop | a run that ends while calls look up, wait for room or wait for an answer; a full exec channel that stops the loop; three separate sends for one end | events tell one story; whoever learns of the end finds the session gone; commands in order; no caller waits for ever |
| Exec worker (`ssh_client.rs`, `run_exec_worker`, `run_exec`) | request channel, one connection handle | connect, reconnect, run a command, run it again, answer, exit | a connection that dies unnoticed; a re-run of a command the server may have started; the order of Eof, exit status and Close | FIFO, one answer each, no command run twice, one fault never shown |
| Host keys (`infrastructure/host_keys.rs`, `widget/remote/host_key_dialog.dart`) | known_hosts, `PENDING` | verify, remember, forget, pending, trust; the dialog | attempts that share one pending key; a file read outside the lock; a dialog that stays open while the key is replaced | only what the user confirmed for that host is trusted |
| Keyboard-interactive (`infrastructure/keyboard_interactive.rs`, `auth_prompt_dialog.dart`) | `PENDING`, `ANSWERS`, a lock each | take, replay, record, answer; the dialog | two maps, two locks, several tabs; a round that disappears while the user types | an answer is in one place at a time, keeps its order and goes to the host that asked |
| RDP session manager (`portix_rdp/src/application/session_manager.rs`) and task (`infrastructure/rdp_client.rs`) | sessions and profile_index behind a mutex each; per session a channel (32) and a cancellation token | connect with reuse, disconnect, disconnect_all, send_*; the run | a lock held over a channel send; a task spawned before it is registered; index entries removed by whoever ends | no session out of reach, one final status, no disconnected session reused, no deadlock |
| Port forwarding (`infrastructure/port_forward.rs`, the forwarded channels in `ssh_client.rs`) | `ACTIVE` tunnels with their task and SSH handle; per tunnel a listener and its connections | start a local forward, a SOCKS5 proxy or a remote forward; register, serve, stop; the SOCKS5 handshake | a task that removes itself while register inserts it and stop aborts it; an SSH connection that drops under a listening port | no tunnel listens that cannot be listed and stopped; a stopped or dropped one gives back its port and connections; a SOCKS client is told what became of its channel |
| SFTP client and manager (`infrastructure/sftp_client.rs`, `application/sftp_manager.rs`) | connections by id, part files | transfer with resume and cancellation; write, create, chmod, rename, recursive remove and copy | a drop between any two requests, above all between removing the target and renaming the part file; symbolic links; names in white space; a source that changes | the target is the old or a whole new content and no file is lost; removal stays inside, a copy overwrites nothing |
| RDP client runtime (`portix_rdp/src/infrastructure/rdp_client.rs`) with profile (`domain/profile.rs`) and license cache (`license_cache.rs`) | the profile, the license cache to use, frame_dirty | connect in stages, one retry with a stub license, repair of a license PDU, the session loop | a failure that must not weaken the security of the next attempt; cancellation anywhere; ticks and updates that share a flag | NLA exactly as configured; cancelled sessions end; the last update is shown |
| Clipboard (`portix_rdp/src/infrastructure/clipboard.rs`) | last text that crossed the channel | poll of the local clipboard, events of the channel | crossing copies, late answers, a write that fails | a text does not bounce back, both sides come to agree |
| Connection manager of the app (`connection_manager.dart`, `rust_bridge_backend.dart`) | tabs, map of backend ids, heartbeat | open, close, reconnect, status events | events before the id is mapped, a 40 s timeout against a late success, statuses after death | every Rust session has a tab or is closed |
| RDP backend service, SSH/RDP blocs, SFTP workspace, terminal panel (Dart) | UI state over the above | | late events | the view follows the backend |
| Bridge APIs (`api/*.rs`) | none | thin calls; forwarding of broadcast streams | a lagging receiver loses events | |
| Profiles, `.rdp` parser, credentials, Kubernetes/Kibana views, terminal emulator, generated code | | | | |

How they interact. The app calls the bridge APIs, which call the managers. A
manager talks to a session's task over a bounded channel and is told nothing
back: the task writes status, output and error events to broadcast channels that
the bridge forwards to the app. The SSH runtime hands exec commands to its exec
worker over a second channel, and the worker answers the caller over a oneshot
channel. Host keys and keyboard-interactive never call back into the app: a
refused key or an unanswered round is left in a global map, the connection fails,
the dialog of the failed tab looks for it, writes the user's decision back, and
the tab connects again. That makes both maps shared state between all tabs,
tunnels and panels that go to the same host.

`PROJECT.json` lists the components with their status, and under `hazards` the
places where this goes wrong most easily, each with the properties that watch it.

## 2. Plan

Order: first what every session depends on, then what shares state across
sessions, then transfers and tunnels. All of it is there:

1. `SshSession` + `SessionLifecycle`, with proofs
2. `Logins` + `HostKeys`, with proofs
3. `KeyboardInteractive`, with proofs
4. `ExecWorker` + `ExecService`, with proofs; `SshSession` uses the worker through
   what `ExecService` states
5. `RdpSession`, the manager's side of RDP, with proofs
6. `RdpRuntime` + `ClipboardSync`, the inside of one RDP session, with proofs
7. `SftpTransfer` and `SftpTree`, with proofs
8. `PortForward`, with proofs

Every safety property of the runs is proved; section 6 says why the liveness
properties are left to TLC. Section 8 says what stays outside the model.

Bounds: one or two actors more than the shortest race needs, channels small enough
to be full often, one session where sessions do not interact.

## 3. The modules

Every module keeps all of the control (each state change, guard, early return,
error path and await that lets another task in) and abstracts the data. A
definition named `X_Something` is a deliberately broken variant of `X` and is used
by no specification; it shows that the property it is paired with can fail.

`MC*` modules add model values, inputs, symmetry sets and, where the whole
behaviour is too large for TLC, say which part of it a run takes:

- `MCLogin` and `MCSftp` put two modules that share no state side by side, `HostKeys`
  and `KeyboardInteractive`, `SftpTransfer` and `SftpTree`; a variable (`phase`,
  `focus`) says which of the two moves, the other keeps its initial state.
- `MCSshSession` takes one order of the callers' operations for all (`OneOrder`):
  calls are interchangeable, and a resize takes the steps of an input.
- `MCRdpRuntime` gives screen updates only to sessions without the clipboard
  (`OneArm`): the two arms share nothing but the connection.
- `MCRdpSession` has a `View` that leaves out what a call had in hand when it
  returned. No action and no property of the run reads it.

### SshSession

`sessions` are the keys of the manager's map; `task[s]` is the program point of
the task `connect` spawns, `commands[s]` and `execs[s]` its two channels, `held`
the exec request the loop waits to forward, `worker`/`serving` its exec worker.
A caller `c` is one API call: `op` and `sid` say what it asks of which session,
`pc` how far it is. `events`, `accepted` and `handled` are histories.

| Code | Actions |
|---|---|
| `connect` | `Connect` |
| `SshRuntime::run`, up to the shell | `ConnectSucceeds`, `ConnectFails` |
| the `select!` loop | `WriteToChannel`, `WriteFails`, `TakeExec`, `ForwardExec`, `HandleDisconnect`, `ChannelData`, `ChannelCloses` |
| return from `run` | `RunReturns`/`DropReceiver`: what is left in the channel is dropped, and a dropped Exec fails its caller |
| rest of the spawned task | `ReportError`, `RemoveSession`, `EmitFinal` |
| worker, as its callers see it | `WorkerTake`, `WorkerAnswer`, `WorkerExit` |
| API calls | `Begin`, `LookupFound`/`LookupMissing`, `Send`/`SendFails`; `Detected` is the middle of `remote_system_snapshot` |

`Connect` is one step because nobody knows the id before it is announced.
`Quiescent` is the stutter of a system at rest, so that deadlock checking means
something. Abstracted: bytes, terminal size, what a snapshot prints; of the
platform only whether one is cached.

`SessionLifecycle` is the promise to the user interface: a session is announced,
perhaps established, leaves the map, and only then ends, as `disconnected` only if
it was connected. `SshSession!PhaseOf` maps the last status to a phase.

### HostKeys

An attempt is a tab, panel or tunnel with a chain of hosts, jump hosts first
(`Logins`, which `KeyboardInteractive` extends as well).
`Start` forgets the pending keys of the chain (`connect_forwarding_to` recurses
before it dials). `VerifyAccepts` and `VerifyRefuses` are the read of
known_hosts, without the lock; `Remember` is what follows under the lock, a step
of its own. `Fail` is every other end of a dial: no route, its timeout, a login
that is refused. The dialog asks for each hop in turn (`LookFinds`,
`LookMisses`), then `Dismiss` or `Confirm`, then `TrustLearns`/`TrustFails`, which
hold the lock. A key that replaces a recorded one is offered to the user only to
be refused (`changed`, which is what known_hosts said when the key was refused).
`RemoveEntry` is the user's `ssh-keygen -R`. A server may offer any key at any time.
A key stands for its fingerprint.

### KeyboardInteractive

`openRounds` (`PENDING`) and `answers` are the two maps. `take_answers` and
`answer_pending` use their locks one after the other, so each is two actions (`TakePending`,
`TakeAnswers`; `AnswerPending`, `StoreAnswers`). Before the exchange, an attempt
dials and tries what its profile has, in the code's order: a key
(`KeyUnreadable`), then the agent (`AskAgent`), each accepted
(`PrimaryAccepted`), refused, or failing (`PrimaryFails`); an accepted hop goes on
to the next one of the chain. An answer is a serial number, the host that asked
and the number of the round the dialog showed. Prompts' text is abstracted. Rounds
the program answers itself (no prompts, or a lone password prompt and a saved
password) touch no state and are stutters.

### ExecWorker and ExecService

`pc` follows `run_exec_worker` (`starting`, `idle`, `connect`, `retry`,
`reconnect`, `reply`) and inside it `run_exec` (`open`, `send`, `input`, `wait`).
`conn` is the worker's handle to a live or dead connection; `remote` is what the
server does with the command. `Drop` kills the connection at any point, and the
worker notices only where the code would: `Sent` succeeds on a dead connection,
because russh queues it; `SendBreaks` is the case where the session task has gone
by then. `SeeStatus`, `WaitEnds` and `EarlyEof` are the ways through the read
loop. `runs` and `faults` are histories. The map of profile workers
(`PROFILE_EXEC`) is a family of independent workers, each closed never; the
terminal's is closed with its session (`Close`).

`ExecService`: one command at a time, in the order accepted, exactly one answer
each, and a worker that stops when no more can come. `SshSession`'s worker actions
are this interface.

### RdpSession

`sessions` and `index` are the two maps. Only sends keep the lock on `sessions`
over an await, so only that is state (`locked`); every other use of a lock is
within one action, guarded by `Unlocked`. `run[s]` is the task, spawned by
`Spawn` before `InsertSession` and `InsertIndex` register it. `disconnect` is
`BeginDisconnect`, `Cancel`, `Tell`, `Forget`; `disconnect_all` is
`BeginDisconnectAll`, `Drain`/`DrainTell`, `ClearIndex`; the four `send_*` are
`BeginSend`, `Send`/`SendFails`. The task reports (`EmitFinal`) before it takes
itself out of the maps (`Unlist`, `Unindex`). `SeeCancelled` has both outcomes:
the task's `select!` sees the token, or `run` sees it first and returns an error.
A run that has taken an input, or the Disconnect, writes to the server without a
timeout (`writing`, `closing`) and goes on when the server took it (`Written`).
A run also answers the server by itself (`Respond`), which is such a write too.

### RdpRuntime and ClipboardSync

One session after the manager has spawned it. `profile` comes from the app's
editor or from a file as the app parses it (`AppParse`; what the Rust parser makes
of the file is dropped by the bridge). `TryConnect` records an attempt and what it
uses (`credssp`, `stub` license cache, `bypass` of the license exchange);
`StageDone`/`StageFails` are the five stages, each an await with a timeout;
`Finalize(license)` and `LicenseFails(license)` are the license exchange with its
repair and the one retry. `Cancel` is the manager's token and `SeeCancelled` where
the code looks at it. In the loop, `GraphicsUpdate` decodes and marks,
`FrameTick` shows (`EmitFullFrame`) and unmarks; `image` and `shown` count updates. A
desktop without pixels (`drawable` is false) shows nothing, but is unmarked.

The clipboard half composes `ClipboardSync` (two pure operators, `OnLocalText`
and `OnRemoteEvent`, that say what to remember and what to do) with the loop that
applies its decisions (`ClipboardTick`, `ClipboardPdu`, `Apply`), the server's end
of the channel (`ServerTakes`, `RemotePaste`; external) and a user on each side
(`LocalCopy`, `RemoteCopy`). A clipboard records where its text came from.
Three things may fail, and the code forgets each failure: reading the local
clipboard (`Readings`), writing it (`WriteLocal`; `writeFailed` is a history of it)
and building a message (`SendMessage`; `unsent` is one of that).

### SftpTransfer

One target, transferred again and again: a job is one call of `sftp_download` or
`sftp_upload` on one of the manager's connections, which come and go (`Connect`,
`Drop`, `Disconnect`, `Close`). A job is stepped call by call: `Stat` of the
source, `ReadPart` and `ResumeOffset` for where to resume, `OpenPart`, a
`CopyBlock` per buffer, `EndOfSource` or `Cancel`, and then for an upload
`StatTarget`, `KeepMode`, `RemoveTarget`, and `Rename`. `Fail` is a failing call
at any of them. `ChangeSource` gives the source another version. Names and files
are apart: a job goes on writing to the file it opened after another renamed it.
A content is a sequence of blocks that know their version, so a mixed or
truncated file can be told from a whole one.

### SftpTree

Every other call that changes the server's tree: `write`, `create_dir`,
`create_file`, `chmod`, `rename`, `remove`, `copy`. The tree maps paths to
folders, files and symbolic links, and `IsTree` says which maps are trees: every
entry is in a folder, up to the root, and a link may point anywhere, at nothing or
in a circle. `Real` follows links as the server does.
`RemotePath` is `remote_path`: white space at the end of a path goes (`Trim` says what
is left of a name), and a path that was nothing else is the login folder. A call
keeps the paths it was given; `Source` and `Target` are what it makes of them. `List`
trims again what read_dir gave it (`Trimmed`), as the recursion of `copy` does, while
that of `remove` does not.
A call is a stack of requests (`call.todo`), each action makes the first one,
and what the recursion in the code does next is put before the rest (`Empty`,
`Rmdir`, `List`, `Create`, `Fill`). `Fails` ends the call at any request. The
calls that only read (`list`, `read`, `stat` for the panel) are left out.

### PortForward

A tunnel is one call of a start function and the task that `register` spawns.
Ports are bound per side, this machine's and the server's. A local tunnel binds
before it connects (`StartLocal`, `StartBusy`), a remote one asks the server after
it connected (`ServerListens`). `Register` takes the lock and spawns, `Insert`
inserts and unlocks, so the task may already run or end in between. The task ends
by its liveness tick (`LivenessTick`, then `Unlist` under the lock) or by an
abort (`Stop`, `AbortTakes`); the SSH connection closes with its last handle
(`HandleDropped`) or by itself (`SshCloses`). A connection goes through the SOCKS5
handshake (`Greeting`, `Request`) to the await that opens its channel (`Opened`,
`Refused`) and from there to the one that tells the client (`Reply`); in between the
channel, the SSH connection or the tunnel may end, so `channel` is `none`, `open` or
`ended`. `HangUp` is every early end, `Reap` the abort of a connection whose tunnel's
JoinSet was dropped. Connections of a remote tunnel (`Forwarded`, `Dialled`) are in no
JoinSet. Addresses and their types, reply codes and the bytes copied are abstracted.

## 4. Runs

| Run | States | Properties |
|---|---|---|
| `ssh_session` | 131 232 | `TypeOK`, `EventOrder`, `FinalMeansGone`, `CommandsInOrder`, `AnswerOwed`, `ImplementsLifecycle`, `EveryCallReturns`, `DisconnectEnds` |
| `login` | 1 270 827 | `TypeOK`, `NothingTrustedSilently`, `RecordedNeverJoined`; `KeyboardTypeOK`, `AnswersInOnePlace`, `ReplayedInOrder`, `AnswersStayWithHost` |
| `exec_worker` | 227 576 | `TypeOK`, `NoBlindRerun`, `OneFaultHidden`, `ImplementsService` (with its liveness) |
| `rdp_session` | 1 950 677 | `TypeOK`, `StatusTold`, `NoOrphan`, `ReusedIsLive` |
| `rdp_session_live` | 23 657 | `EveryCallReturns`, `DisconnectEnds` |
| `rdp_runtime` | 269 343 | `NlaNeverDropped`, `CancelRespected`, `NoBounce`, `Converges`, `FramesShown` |
| `sftp` | 444 274 | `TargetSafe`, `ModeKept`, `DoneDelivers`; `RemoveExact`, `CopyExact` |
| `port_forward` | 340 876 | `TypeOK`, `NoHiddenTunnel`, `ListedRuns`, `SocksSound`, `TunnelsEnd` |
| `host_keys_changed`, `rdp_dedup`, `sftp_remove`, `remote_forward_stop` | | counterexamples, section 7 |

What the properties say, each with the cases it leaves out:

- `TypeOK` of `ssh_session` also says that no channel holds more than its capacity;
  that of `HostKeys`, that a key that is refused or shown is in hand and that only a
  key the user has just confirmed, and none marked as changed, is about to be trusted;
  `KeyboardTypeOK`, that an attempt has answers in hand only in the login that took
  them and in the dialog that is storing them (`EmptyHands`).
- `EventOrder`: connecting first and once, output only after connected, a final
  status last, and an error exactly when an error event came before.
- `FinalMeansGone`: once the final status is out, the session is in no map and its
  channel takes nothing.
- `CommandsInOrder`: commands are handled in the order accepted, none twice, none
  after a Disconnect.
- `AnswerOwed`: a caller that awaits an exec answer has its request in a channel
  that is still read, in the runtime's hand or with a live worker.
- `NothingTrustedSilently`: no connection gets past a key unless it was recorded
  from the start or the user was shown it for that very host and said yes.
- `RecordedNeverJoined`: what known_hosts holds for a host was all there from the
  start, or the user confirmed all of it. A key that was recorded from the start is
  thus never joined by another; once every recorded key was confirmed, a second one
  can be added (`ChangedNeverTrusted`, section 7).
- `AnswersInOnePlace`: what the user typed is in one place at a time: no two logins
  that run at the same time can send it, nor one login while a dialog still stores
  it. A login that meets one more round puts what it has sent back into `PENDING`,
  from where a later one sends it again; that is allowed.
- `ReplayedInOrder`, `AnswersStayWithHost`: answers keep the order in which they
  were typed and go to the host that asked.
- `NoBlindRerun`: only a command that feeds stdin may ever start twice.
- `OneFaultHidden`: a connection error as an answer has two faults behind it.
- `StatusTold`: an RDP session ends with exactly one final status.
- `NoOrphan`: a running RDP session is registered, cancelled, or in the hand of a
  call that is about to do one of the two.
- `ReusedIsLive`: the session connect finds for its profile and returns is one that
  nobody has disconnected. Of the session it has just spawned, which a
  `disconnect_all` may meet between the two maps, the property says nothing.
- `EveryCallReturns`, `DisconnectEnds`: no call hangs on a full channel or a held
  lock, and a disconnected session ends; for RDP, as long as the servers read
  (section 5).
- `NlaNeverDropped`: at most two attempts, each with NLA exactly if the profile
  asks for it; a license is repaired only for a profile without it, in the second
  attempt. What profile an imported file becomes is not its subject (section 7).
- `CancelRespected`: a cancelled session dials no more and ends.
- `NoBounce`: a text that came from the remote clipboard and is still on the local one
  is not announced to the remote, except after a text that could not be written
  locally, until the next text crosses.
- `Converges`: once nobody copies any more both clipboards hold the same text, or one
  of them holds none; a message that could not be built is not made up for, and
  after it the property says nothing until the next one that is.
- `FramesShown`: every decoded update is shown or the session ends, unless the
  desktop has no pixels.
- `TargetSafe`: the target is the old file or a whole version of the source, and
  while it is missing during a replacement the part file holds all of the source.
  `DoneDelivers`: success means that the target holds what the source does. Both only
  as long as no two transfers overlapped and the source did not change while there
  was a part (`Undisturbed`): a part is trusted by its size, and shared.
- `ModeKept`: whichever attempt completes an upload, the replaced file's
  permissions survive, unless transfers overlap.
- `RemoveExact`, `CopyExact`: a removal touches nothing outside its `Source`, however
  links lead, and a successful one leaves nothing of it; a copy changes nothing that
  was there, and a successful one is complete. `Source` and `Target` are what
  `remote_path` makes of the given paths: another entry, if the path ends in white
  space (section 7). Only of a copy whose source holds a link into the place it goes
  to (`LeadsIntoCopy`) the second half says nothing: the link led nowhere before, and
  the order of the entries decides what it finds there.
- `NoHiddenTunnel`: whoever listens is a call that has not returned, a tunnel that
  can be listed and stopped, or one that was stopped and is about to end.
- `ListedRuns`: no listed tunnel's task is over.
- `SocksSound`: a SOCKS client gets the method and at most one outcome, the one its
  channel had, whatever ends between its opening and the reply: success only if it
  was opened, a refusal only if it was not; nothing is copied before success is told.
  An open channel has its SSH connection.
- `TunnelsEnd`: a tunnel that was stopped or whose SSH connection closed leaves the
  list and gives back its port; a local forward and a SOCKS proxy also end their
  connections. Those of a remote forward stay (`StopClosesConnections`, section 7).

Bounds, and why they are enough:

- Capacities: `CommandCap` 2 (512 in the code), so that commands in the channel have
  an order and three callers fill it, `ExecCap` 1 (64); RDP's `CommandCap` 1 (32), as
  only whether it is full matters there; `Cap` 2 (64 or 16).
- One SSH session: `SshSession`'s sessions share only the map, whose entries do
  not interact. Three callers make any two calls race while a third waits for room;
  a snapshot sends up to three commands. `MaxOutput` 1 lets output come before,
  between and after commands.
- Two attempts, two hosts (a jump host and a target, the target also dialled
  directly) and two keys: a race for a host's pending key or round needs two; the
  jump host makes hop and profile differ. `MaxTries` 2 (host keys) is a failed
  attempt and the one after the dialog. `MaxLogins` 3 and `MaxTyped` 3 (keyboard)
  allow a login with two rounds in one tab and one in the other.
- Three requests, one with stdin: one served, two queued; both kinds of re-run.
- Two RDP sessions of one profile, two clients: a session and its successor, and
  any two calls against each other. The third session of `rdp_dedup` is the
  duplicate. With two profiles the index entries do not interact.
  `rdp_session_live` has one session and two clients: one that sends and one that
  waits for the lock.
- `rdp_runtime`: two texts and two copies (`MaxCopies`) make copies cross in both
  directions and repeat a text; three updates (`MaxUpdates`) come before, between and
  after effective ticks. Profiles with and without NLA, of a gateway and not, with
  and without clipboard, and an imported file that says nothing of NLA.
- `sftp`, transfers: three calls (`MaxJobs`), two at once (`MaxAtOnce`), on two
  connections (`MaxConns`): a failed transfer, its retry and one beside them; the
  third only as long as none has overlapped, since the properties say nothing
  afterwards. The source has two blocks, or one after it changed, so a part can be
  empty, half, whole or too long.
- `sftp`, tree: trees of two plain names and two levels (`PlainTrees`), with links to
  the top folders, including links to a parent of theirs, and from one of them into
  the other; and trees that hold `b` and `b ` side by side, and a file whose name is
  blank (`PaddedTrees`). Calls are made with the paths `Given` and `GivenTo`, among
  them a blank one. `MaxDepth` 3 leaves room for one level more to be created.
- `port_forward`: two tunnels of any kinds, two connections and one port per side,
  so that tunnels compete for the port and connections for the tunnel.

Symmetry is used for attempts, RDP sessions and clients, in runs without liveness;
identities are never compared by order. Deadlock checking is off where the system
may stop: an exec worker, an RDP session or a call on the tree ends, the tabs of
`login`, the jobs and the tunnels run out, and an RDP connect that needs an id
beyond `Sessions` waits.

## 5. Fairness

Nothing obliges a user to connect, to disconnect, to stop or to answer, nor a
server to send, to close or to send Eof early: these actions have no fairness.

- `SshSession`: weak fairness of each runtime, worker and call. tokio runs every
  ready task. Connecting ends because dialling and authentication have timeouts of
  15 s each (`CONNECT_TIMEOUT`, `AUTH_TIMEOUT`). Two things are *assumed*, as the code
  has no timeout for them: that remote commands end (`WorkerAnswer`), and that a write
  to the terminal ends, well or badly (`channel.data().await`, `ssh_client.rs:185`,
  which waits while the server's window is full).
- `ExecWorker`: weak fairness of the worker, of the server's answer to a request,
  and of the command's exit, the same assumption. A dead connection is noticed
  within the 30 s `inactivity_timeout`.
- `RdpSession`: strong fairness of each call in progress and each task, as they
  compete for a lock that other calls keep taking; tokio's `Mutex` is FIFO, so a
  waiter gets it. Every await of `try_connect` has a 20 s timeout. The writes of the
  loop have none (`rdp_client.rs:400`, `:448`, `:460`, `:484`, `:498`, `:518`, `:985`), so
  that they end is an assumption of its own about the servers, `ServersRead`. Without
  it a server that does not read fills the session's channel, a send waits for
  room with the lock on all sessions, and every other call waits for that.
  A cancelled run ends even in the middle of a write, but its task takes the same
  lock to clean up, which a send to another session may hold.
- `RdpRuntime`: weak fairness of connecting (the same timeouts) and of each arm of
  the loop's `select!`, which picks among the ready ones at random. Reading the local
  clipboard is assumed to succeed at some time, and the server to read its end of the
  clipboard channel.
- `PortForward`: weak fairness of the start calls (they connect under timeouts), of
  the tunnel's task, whose interval ticks, and of aborts. Nothing is assumed of a
  client in the middle of its SOCKS handshake, of the server or of a target.

## 6. Proofs

The theorems say `Spec => []P` for an invariant, `Spec => [][A]_v` for an action
property and `Spec => Abstract` for a refinement. They hold for any constants that
satisfy the module's assumptions, each evaluated by TLC in the runs, and are
checked by tlapm in full. The assumptions say no more than: capacities are
positive and bounds natural numbers, chains are non-empty sequences of hosts
(`ChainsAssumption`, `Logins`), the model values ("no request", "no file") are not members of the sets they stand
outside of, sizes are natural numbers and versions positive ones
(`SizeAssumption`), a profile's NLA flag is a Boolean (`InputsAssumption`, `RdpRuntime`),
trimming a name leaves a name or nothing (`NamesAssumption`), and the server's tree is
one, over finitely many names and with a longest path (`TreesAssumption`).

**SshSession_proofs.**
- `TypeCorrect`: `TypeOK`, with the bounds of the channels, is inductive by itself.
- `AnswerAlwaysOwed` (`AnswerOwed`): through `OwedInv`, which adds that a
  connected runtime has a live worker and none exists before (`WorkerAlive`; else
  a forwarded request could go to nobody), that a runtime holds at most one request
  (`HoldsOne`; else forwarding one could lose another) and that only exec callers
  wait (`OnlyExecWaits`; else taking an input could strand its caller). The step
  lemma has one case per action.
- `EventsOrdered`, `FinalSessionsGone`: through `StoryInv`, which says of each
  task's program point what has been told and whether the session is registered.
  Neither property is inductive: `EmitFinal` may be the last event only because
  the point `closing` is reached after `connected` was told and `failing` after
  the error event.
- `CommandsTakenInOrder` (`CommandsInOrder`): through `OrderInv`. That a Disconnect
  is the last command handled is not inductive: `OrderOf` adds that a runtime
  which still receives has handled none.
- `LifecycleImplemented` (`ImplementsLifecycle`): each action is a step of
  `SessionLifecycle` or leaves its variables alone (`LifecycleStep`). `StoryInv`
  supplies the phase a session is in at each program point; `PhaseFrom` and the
  `Phase*` lemmas say what appending an event does to the phase it is mapped to.

**HostKeys_proofs.**
- `TypeCorrect`, `LearnedKeysConfirmed`, `NoSilentTrust`: through `KeyInv`. Types alone do
  not say that what is remembered was offered, which is `KeysInHand`. The heart is
  `ConfirmedInHand`: while an attempt is at `trusting`, the key it was shown is
  confirmed for the host it is at. With the fingerprint comparison of
  `trust_pending_host_key` that makes a replaced pending key harmless.
- `RecordedKeysNeverJoined`: a pending key that is not marked as changed was
  offered when known_hosts had nothing for its host; by the time it is trusted,
  other dialogs may have filled the entry, but only with confirmed keys, because
  nothing else is ever added. (So a second confirmed key can join a first:
  `RecordedNeverJoined` is what is left of the comment's claim.) `NewStep` carries that fact through the reads and the
  pending map, `JoinStep` uses it where a key is learned.

**ExecWorker_proofs.**
- `TypeCorrect` includes that no command starts more than twice or meets more than
  three faults, so it needs all of `ExecInv`.
- `CommandsRunOnce` (`NoBlindRerun`) rests on `RunsInv`: a plain command has been
  started once exactly when the server's current state says so, which holds because
  every way to a re-run comes before the request was sent.
- `SingleFaultHidden` (`OneFaultHidden`) rests on `FaultsInv`, the number of
  faults met at each program point. `QueueInv` and `FreshInv` make these counts
  those of the current request only; `PlaceInv` ties the program point to what is
  in hand.
- `ServiceImplemented`: the safety part of `ImplementsService`, from `PlaceInv`: the
  worker has a request in hand exactly between `Take` and `Answer`, so `Take` finds
  `serving` empty and `Exit` leaves none unanswered. The fairness conjunct of
  `ExecService!Spec` is left to TLC.
- `NoSecondAnswer`: no caller is answered twice, by the refinement: the service
  answers only what it serves, and by `QueueInv` that has no answer yet.

**PortForward_proofs.**
- `TypeCorrect`: `TypeOK` with the lock, which the inserting call and no other
  holds, is inductive by itself. `ConnStep` is the part about connections.
- `NoTunnelHidden`, `ListedTunnelsRun`: through `TunnelInv`, that is `Phases` (how
  call, task, list and aborts of a tunnel go together: while a call inserts, its
  tunnel cannot have been unlisted, because `Unlist` needs the lock) and
  `Listeners` (who may still listen at which point: nobody whose task is `ending`,
  a remote tunnel only while its SSH connection is up). A step is a tunnel's or
  leaves all tunnels alone (`StepKinds`); `ReleaseOnly` and `BindOnly` say what
  happens to the ports.
- `SocksRepliesSound` (`SocksSound`): through `Conversation`, what has been sent at
  each point of the handshake and what its channel was by then: opened before the
  point `accepting`, never opened at `refusing`, whatever ended it since. It also says
  that a connection's tunnel has got past connecting, which is needed because a
  failing start closes the SSH connection without ending channels.

**KeyboardInteractive_proofs**, about `KeyboardSpec`.
- `TypeCorrect` needs `AskedRound`: types alone do not say that a dialog that is open
  shows a round, which numbers the answer.
- `AnswersKeptApart`, `AnswersInOrder`, `AnswersReachTheirHost`: through
  `PlaceInv`. An answer is in a map, in a login or on its way into a map, and
  `GoodPlace` says of each place that its answers were typed for the host the
  place belongs to, in rising order. `EmptyHands` says which program points hold
  none; without it a login that moves to the next hop would bring its answers
  along. A step leaves answers where they are or drops them (`KeptBy`), or moves
  all of one place to one that is empty.

**RdpSession_proofs.**
- `TypeCorrect` with `HandsFull`: a call past a lookup has a session in hand.
- `StatusAlwaysTold`: through `StoryInv`, what has been told at each point of the
  task.
- `NoSessionOrphaned`, `ReusedSessionsLive`: through `StageInv`. `NoOrphan` is not
  inductive, because a session leaves the map in several ways. `OneStage` says that
  a session is entering the map, in it, or leaving it, and that one call at most
  inserts it; `Spawned` that only spawned sessions are at any of these stages;
  `StaleIsOver` that what `connect` removes as stale no longer receives; `DrainOwns`
  that `disconnect_all` begins with nothing in hand, so that it cannot forget any.
  `ReusedIsLive` is about the reuse path, in the model and in the proof.

**RdpRuntime_proofs.**
- `SecurityKept` (`NlaNeverDropped`): through `ConnInv`: `Counted` ties the number of
  attempts to the program point and to a pending retry, `SameSecurity` says that the
  retry as well has the profile's security and that only the second attempt may
  leave the license exchange out. Nothing is proved of how a file becomes a profile.
- `NoDialAfterCancel`: the first half of `CancelRespected`, that no attempt is added
  once the token is cancelled. The second half is liveness.
- `TextsDoNotBounce` (`NoBounce`): through `ClipInv`: a text on the local clipboard that
  came from the remote is the one `ClipboardSync` remembers (`Remembered`), and the
  server asks for the first announcement before any text of its own can have
  arrived (`AskedFirst`; that announcement is the one made without a comparison).
  Both are only claimed while `writeFailed` does not hold: a failed write breaks them,
  and the next text that crosses restores them.

**Sftp_proofs, first part: SftpTransfer.** An `Effect` lemma per action says what it does to its job
and the files; everything else is argued from these.
- `BaseInv` is common to all three theorems: types, that a job has what its program
  point needs (`Equipped`), that the part is never the target and no file exists
  before its job opened it (`Apart`), and that jobs that do not overlap are alone
  (`Alone`).
- `PermissionsSurvive` (`ModeKept`): through `ModeInv`. When the target is removed
  the property says nothing, so it is not inductive: `ModePlace` says the part then
  has the mode, and `Carries` that a job past `StatTarget` does.
- `TargetNeverBroken` (`TargetSafe`), `SuccessDelivers` (`DoneDelivers`): through
  `TargetInv`. The part is the first n blocks of the source (`PartSound`), and a job
  that copies is at block n exactly (`Knows`); `PartNext` says that appending and
  writing at the offset then come to the same. Both need that nobody else moves and
  that the source stays as it is while there is a part (`OthersRest`, `Undisturbed`) and
  are false without it.

**Sftp_proofs, second part: SftpTree** (whose specification is `TreeSpec`, so that one
module can extend both).
- Where a path leads (`Real`) is recursive in the number of links. `Least` (every
  non-empty set of numbers has a least one, from the well-foundedness of `<`) does
  for induction: `Climb` takes a set of numbers from 0 up to n, `RealFix` says that a
  path no link leads away from is its own canonical form, `EntryClean` that what is there has no link on its way,
  `RealBelow` that the canonical form of a path begins with that of its folder.
- `RemovesExactly` (`RemoveExact`): for any `Trim`; where `remote_path` leads is where the
  removal begins (`Source`), and from there on names are not trimmed. Through `RemoveInv`. The property is not inductive,
  because what the stack of requests still does is not in it. `Shrunk` and `Tidy`
  say what went away so far; `Aimed` that each request is for a path under the one
  that was resolved, with no link on its way, so that neither lstat nor read_dir
  leaves the folder (with `metadata` for `symlink_metadata` it would); `Covered` that
  whatever is left has a request that will take it, so that an empty stack means an
  empty folder. `Covered` passes from a folder to its entries in `Empty`, where
  `SetToSeqsFacts` says that read_dir gives every one.
- `CopiesExactly` (`CopyExact`): only for trees in which no name ends in white space
  (`PlainNames`, the theorem's hypothesis); with padded names the property is only
  model-checked (`PaddedTrees`). Under it the paths given and those asked for are the
  same (`SamePaths`, `TrimmedPlain`). Through `CopyInv`, about the *set* of the requests to be
  made, as nothing in it depends on their order. `Harmless` holds of every copy:
  only entries that are no links were added, below a target that was free (`Grown`),
  hence no path leads elsewhere than before (`FollowSame`, `RealSame`, `LRealSame`),
  and a request writes only to what the copy made (`Fit`). `OnCourse` says what a
  copy is on its way to, and has three cases. One is `LeadsIntoCopy`. In the second a
  folder is being copied to a place inside it (`Trapped`): that never ends well,
  because every such request leads to another one, until the path is too long. In
  the third (`Orderly`) requests read only what was there before (`Sound`), what was
  made is like what it was made from but for a pending request that will see to it
  (`Alike`), and what is still to be made has its request (`Makes`). With no request
  left only the first and the third remain, and the third is the property
  (`CopyEnds`). `HarmlessStep`, `CourseStep` and `OrderlyStep` reduce each action to
  what it does at one place.

Only model-checked: liveness under fairness, and ENABLED, which are out of the
prover's reach: `EveryCallReturns` and `DisconnectEnds` of both managers,
`TunnelsEnd`, `Converges`, `FramesShown`, the second half of `CancelRespected`, the
fairness of `ExecService`, and `CopyExact` for padded names. What a recursive operator computes for every input is
proved only where, as in `SftpTree`, a least counterexample takes the place of an
induction.

## 7. Where the code and its text disagree

Four runs end with a counterexample; `PROJECT.json` quotes the lines.

- `host_keys_changed`: two attempts read a known_hosts that has nothing for a host and
  are refused with different keys; the user confirms both in turn, and the second is
  learned beside the first, although a changed key "is never trusted here"
  (`host_keys.rs:95`). Whether a key is new is decided when it is refused (`:24`), and
  the file is not read again when it is trusted (`:114`). `RecordedNeverJoined` is what
  does hold.
- `rdp_dedup`: a session's task that ends late removes its successor's index entry,
  and the next connect starts a second session for the profile. One client that
  makes its calls one after another is enough.
- `sftp_remove`: removing a symbolic link deletes what it points to and leaves the
  link, because `remove` resolves the path first (`sftp_client.rs:188`, against the
  comment three lines above).
- `remote_forward_stop`: stopping a remote forward "closes its listener and
  connections" (`port_forward.rs:292`), but the copies to the local target are in no
  JoinSet (`ssh_client.rs:106`) and last until the target hangs up.

In the models, and contradicted by no property because each states the exception:

- Logins. `answer_pending` answers whichever round is pending when the dialog closes
  (`keyboard_interactive.rs:43`), not the one that was shown, if another tab has
  dropped or replaced it meanwhile. A login that meets one more round puts the answers
  it has sent back into `PENDING` (`:101`), and the next login, even of another tab,
  sends them again, although "nothing is kept after a login ends" (`:5`).
- Commands. Eof before the exit status, or a connection that died unnoticed, ends
  `run_exec`'s loop without a status, which counts as success
  (`ssh_client.rs:269`, `:274`), although `exec_on_profile` "fails [...] when the
  command exits non-zero" (`api/ssh.rs:44`).
- RDP sessions. A `disconnect_all` between `connect`'s two insertions cancels the
  session that `connect` then returns; one before the first insertion misses it; and a
  task that ends before it is inserted leaves a dead entry, until the next connect
  finds it stale. A server that does not read makes a send keep the lock on all
  sessions, and every call waits (section 5).
- RDP profiles. The bridge parses an imported `.rdp` file and drops the profile
  (`portix_rdp/src/application/session_manager.rs:67`); the app's parser makes the
  one that connects. It looks for `EnableCredSspSupport` in exactly that spelling,
  takes a missing one for off where the Rust parser takes it for on, and never
  forces it on for PSM, as `domain/profile.rs:207-209` says must be. This is a
  disagreement of two readings of one file, with no behaviour in it for a run to
  find.
- Clipboard. After a remote text that could not be put on the local clipboard the
  older local one looks new (`rdp_client.rs:957`) and is announced, even to the side it
  came from, although `clipboard.rs:111-112` says that a value does not bounce back. An
  announcement or request that could not be built is logged and never made again
  (`rdp_client.rs:974-984`), as `last_text` already has the text. A text that is on its
  way overwrites a local copy made in the meantime.
- Transfers. Two transfers to one target share its part file, and a part is trusted
  by its size: a part that another transfer writes, or one of an earlier content of
  the source, can end as a success with a mixed file (`sftp_client.rs:350`). For the
  changed source the comment on `resume_offset` concedes it, for the overlap nothing
  does.
- Trees. `remote_path` trims (`sftp_client.rs:30-36`), so that removing `x ` deletes its
  sibling `x`, removing a blank name the folder it is in, and an empty path the login
  folder; `list` returns such names (`:103-107`). A copy trims again at every level
  (`:230`): copying `x ` succeeds with the content of `x`, and an entry below the source
  whose name ends in white space makes the copy fail.
- Tunnels. A SOCKS4 client is hung up on without a reply, although it should "get a
  protocol error reply" (`port_forward.rs:235`).

Met while reading, and outside the models: a failed platform probe is cached as
Unix for the life of the session (`session_manager.rs:242`); the pending key that a
dialog shows may come from an earlier attempt than the one that failed
(`host_keys.rs:36`, against `:80`); answers stay in `ANSWERS` after a login that
did not need them (`ssh_client.rs:528`, against `keyboard_interactive.rs:5`); the
dialog of a tab may ask a round that another tab's attempt left
(`auth_prompt_dialog.dart:22`). A copy of a folder that holds a link into its target
finds there what it has copied so far, in the order of `read_dir`
(`sftp_client.rs:234`), where a dangling link alone would have made it fail.

## 8. Not modelled

- The app's own state (Dart): `ConnectionManager`, `RdpBackendService`, the blocs,
  the SFTP workspace with its transfer queue, the terminal panel. It is driven by
  streams that the bridge forwards, and a forwarder that lags loses events; the
  models end at the Rust API and at the two dialogs that write back into it.
- Thin or generated code: the bridge functions that only pass a call on (they are
  part of the action of the call), the forwarding of broadcast streams,
  `frb_generated.rs`.
- The Rust parser of `.rdp` files: the bridge drops what it makes of a file, and the
  app's parser, of which `AppParse` is what matters here, makes the profile.
- `FileLicenseCache`: nothing in the program creates one. The stub cache that is
  used keeps no state; which attempt uses it is in `RdpRuntime`.
- Data: addresses and sizes in profiles and files, frames, input encoding, the
  bytes of terminals, tunnels and commands, the wording of prompts and errors
  (except what tells a license error). The Kubernetes and Kibana views format the
  output of commands.
- SFTP calls that only read, and buffered writes inside tokio: a block is in the
  file when `CopyBlock` has written it.
- The agent forwarding channel: it copies bytes and keeps no state.
- The protocols: russh, IronRDP, the terminal emulator (a patched third-party
  package). They are modelled by the outcomes the code handles.
- Keepalives: they change no state of the program.
