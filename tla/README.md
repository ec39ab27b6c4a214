# claude-share: a TLA+ model

claude-share lets a user work in a local project with a `claude` process that
runs on another machine. The client uploads the project, the server rebuilds it
in a workspace, runs `claude` there, and after every turn sends back what
changed. This directory holds TLA+ modules of that system, TLC configurations
that check them on small instances, and TLAPS proofs of what matters most for
every instance. Line numbers refer to the files under `src/`.

## 1. The system

| Component | State | Operations | Talks to |
|---|---|---|---|
| Session service `internal/core/app/session.go` | manifest, ws, agent, preTurn, turnDone (channel of 1), a mutex for some of them | StartSession, PutBlob, SyncDone, HandlePrompt, Interrupt, Close, and the `pump` goroutine with finishTurn | called by dispatch; calls blob store, workspace, agent, notifier |
| Server `transport/ws/server.go` | slots (channel), one handler goroutine per connection | NewServer, handle, dispatch, checkBind | one goroutine per prompt calls HandlePrompt |
| Client application `core/clientapp`, `cmd/client` | manifest, hash index, four channels of 1 | Run (handshake), repl, readLoop, applyChange | transport, local project, terminal |
| Agent adapter `agent/claudecli` | the subprocess, its pipes, event channel of 64 | Start, Send, Close, readLoop, parseLine | the external `claude` process |
| File trees `fsutil`, `domain` | none | WalkManifest, Diff, SafeJoin, HashContent | |
| Workspace `workspace/fsstore/workspace.go` | a directory per session | NewWorkspace, Materialize, Snapshot, ReadFile, Remove | blob store |
| Blob store `workspace/fsstore/blobstore.go` | a directory of files named by SHA-256, shared by all sessions | Has, Put, Get | |
| Local project `localfs` | the user's directory, ignore rules | Open, Manifest, ReadFile, Apply | |
| Connection `transport/ws/codec.go`, `client.go`, `notifier.go`, `protocol` | write mutex, stream ids, half-received content streams | SendEnvelope, SendContent, ReadMessage | noise channel, WebSocket |
| Noise channel, passphrase, terminal, version, commands | cipher states; none | Handshake, Seal, Open; Generate; output; wiring | |

What is hard about it, and what makes it correct:

* **Goroutines that share the Service.** The handler, one goroutine per prompt
  and the pump use the same fields, some without the mutex. Correct means: no
  leak of workspace or process whatever fails where, no use of a workspace that
  is gone, no completion signal counted twice.
* **The order in which a turn comes home.** File changes, `turn.done` and the
  completion signal travel through pump, connection, readLoop and REPL. Correct
  means: at the prompt, both trees hold the same files.
* **The tree algebra.** What Snapshot leaves out, what Diff lists, in which
  order, and what Apply does about directories must fit together.
* **Failure.** A connection lost anywhere, disk errors on both sides, an agent
  that dies, a client that is killed, edits of the project during the upload.
* **Waiting.** claude waits on its pipe, readLoop on the event channel, pump on
  the connection, Close on claude, the REPL on `turn.done`.
* **A client that does not keep to the protocol's order.** dispatch takes every
  message in every state.
* **One connection, several writers.** Records are sealed under a running nonce and
  content streams interleave. Correct means: what arrives is what was sent, whole,
  in order, once, and a frame that was touched ends the connection.
* **Several sessions, one store, one process.** Sessions compete for slots and store
  the same blobs at the same time; the process ends at any point and another one
  takes over its directory. Correct means: the cap holds for agents and not only for
  connections, slots come back, and the store has what it said it has.
* **Files written by more than one system call.** Apply and Put may be cut off
  between any two. Correct means: a reader sees the old file or the new one.

`PROJECT.json` lists the hazards one by one, at their lines.

## 2. The modules

| Module | Models | Kind |
|---|---|---|
| `FileTree` | trees, manifests, WalkManifest, Diff, Materialize, Apply | operators |
| `TurnSync` | what a session promises about files, turn by turn, without threads | state machine, EXTENDS FileTree |
| `LocalFs` | Apply as its system calls, with errors and a killed client | state machine, shown to implement TurnSync |
| `Link` | what a connection promises: two bounded queues that may be cut off | state and operations |
| `Wire` | Link with the protocol's messages | operators, EXTENDS Link |
| `SecureConn` | handshake, sealed records, chunks, several writers, a faulty network | state machine, shown to implement Link |
| `Agent` | claudecli and the external process | state and actions |
| `Session` | dispatch, Close, HandlePrompt and pump for one connection | state and actions, EXTENDS Wire, Agent |
| `AnyClient` | Session under a client that may send anything at any time | specification |
| `ClientApp` | the shipped client, two goroutines and the user | state and actions, EXTENDS Wire |
| `ClaudeShare` | Session and ClientApp together | specification, shown to implement AnyClient |
| `BlobStore` | Has, Put as its system calls, Get, for several users | state and actions |
| `Server` | slots, handshakes, several sessions on one store, shutdown, restart | state machine, EXTENDS BlobStore |
| `MCTurnSync`, `MCLocalFs`, `MCSecureConn`, `MCAnyClient`, `MCClaudeShare`, `MCServer` | constants for TLC | |
| `FileTreeProofs` | lemmas about the tree algebra | proofs |
| `TurnSyncProofs`, `LocalFsProofs`, `SecureConnProofs`, `ServerProofs` | the theorems about the module they are named after | proofs |
| `SessionProofs` | what every step of the server's side keeps, whichever client it has | proofs, EXTENDS Session |
| `AnyClientProofs` | theorems about the server's side under every client | proofs, EXTENDS SessionProofs |
| `ClaudeShareProofs` | theorems about client and server together | proofs, EXTENDS SessionProofs |

How they fit together. `ClaudeShare` uses three simplifications, and each has a
module that justifies it: messages travel whole and in order (`SecureConn`
implements `Link`), Apply is one step (`LocalFs` implements `TurnSync`, whose steps
use the same `FileTree!Apply`), and the blob store is a map that changes one entry
at a time (`BlobStore!StoreIsMap`, in `Server`). `AnyClient` in turn frees `Session`
of the shipped client.

Definitions marked *mutant* are plausible bugs; each is used to make sure that
the property named beside it in `PROJECT.json` can fail.

### How the code appears in them

**Data.** A tree is a partial function from paths to `[content, mode]`, a
manifest one to `[hash, mode]`. A path is an opaque value with the set of its
directories (`AncestorsOf`) and its place in string order (`Rank`); the only
fact used about strings is that a directory sorts before what is below it. The
hash is an injective function. `Umask` is what `os.WriteFile` leaves of a mode
on the server; the client's `Chmod` is exact, which is why `Agrees` has two
cases. File sizes are left out; exceeding a limit is a walk that fails.

**Disk of the client.** `[files, dirs]`, because Apply creates directories and
never removes one by intent: `Remove` deletes an empty directory, `Write` fails
below a file or onto a directory, both as the system calls do.

**Handler.** `handler` is the program counter of `Server.handle` after the
handshake. An action reads one message and does all that dispatch does with it
up to the next point where another goroutine can observe it. `SyncDone` has four
outcomes, one of them with only part of the manifest written. Close takes the
fields under the mutex, then closes stdin, waits, and removes.

**HandlePrompt.** `hp[i]` is goroutine i: read the fields under the mutex,
snapshot, store the baseline, drain, send, wait; each is a step of its own,
because none of them holds a lock.

**pump.** Receive and forward; snapshot; diff; push one change after another in
path order, reading each file again; advance; `turn.done`; signal. `Service.ws`
is read without the mutex at each use, and a nil one is a panic, which takes the
process down (`panicked`) and leaves the subprocess to itself.

**Agent.** The channel and the pipe have capacities; readLoop blocks on the one,
claude on the other. A line is known by its kind, for parseLine, and by whether
its event fits one protocol record. claude is external: it takes a prompt, edits
one file at a time, prints, ends the turn with a result, exits when stdin is
closed and it is idle.

`proc` stands for claude together with the children that keep its stdout or stderr open:
`cmd.Wait` waits for the copy of stderr into the ring buffer too, so that the process
counts as exited when the last of them has let go.

**Link and Wire.** A message is there when its last chunk is. A writer blocks when
`WireCap` messages are in flight. After the connection is down, what was sent may be
read or lost. A message that does not decode is `malformed`.

**Secure connection.** `writer[e][w]` is a goroutine in `SendEnvelope` or
`SendContent`: it seals under the mutex, writes, unlocks, and goes on to its next
chunk, so that two messages interleave record by record. `ReadMessage` is one
action per record, with the errors of Read, Open and an unknown stream; those of decoding
(codec.go:113, 118) need a peer with the key that seals something else than a record. A frame is a record
with the key and the nonce it was sealed with, and opens under nothing else; that is
all that is assumed of Noise. The network alters, drops, repeats or swaps a frame,
or drops the connection. The nonce has no width here: 2^64 records are out of reach.

**Server and store.** `pc[c]` is the handler of connection c from Accept to its
return; the session inside is reduced to the order in which it takes and gives back
slot, workspace and agent and to its use of the store, one `Has`, `Put` call or
`Get` at a time. The clients here upload what they were asked for before they send
`sync.done`, as the shipped one does (`AnyClient` has the others). When the process
ends, its sessions are gone, its temporary files, workspaces and agents stay, and
the store is what the next process finds.

**Apply's system calls.** `ap` is the call under way. Any of its calls may fail, the
deferred removal too. A killed client leaves its temporary file; the next session
lists it as a file of the project. The names of temporary files are paths like any
other, so that they meet `Rank`, manifests and turns as the code's do; the agent does
not create files of that name.

**Client.** `client` is the main goroutine, the channels are variables, readLoop is
`ReaderStep`. `lost` in `TurnSync` and `LocalFs` is what the renderer was told.
Interrupting the client ends it; a signal while the REPL reads the terminal closes the
connection at once and the process a little later, which is the same as `ConnLost`
followed by a send that fails.

**History variables** `sent`, `finished`, `hp[i].turn` are only read
by properties (and by each other).

## 3. The runs

All bounds are constants of the `.cfg` files.

| Run | Instance | Checks | Result |
|---|---|---|---|
| `turn_sync` | 5 paths (a file and a directory competing for `a`, an ignored path, a default-ignored directory), 2 contents, 2 modes, any number of turns | `TypeOK`, `Synced`, `NeverSynced` | hold |
| `local_apply` | a file and a directory competing for `a`, 2 temporary names in each directory, 2 contents, 2 modes, any number of turns, 1 failing call, 1 kill | `TypeOK`, `NoSilentLoss`, `TempsCleaned`, `RefinesTurnSync` | hold |
| `any_client` | 1 path, 1 content and a hash nobody can upload, 1 prompt, all capacities 1, disk errors, crash, oversize lines, background writes | `TypeOK`, `NoLeak`, `AgentHasWorkspace`, `OnlyAgentEdits`, `StartsFromManifest` | hold |
| `session_sync` | 3 paths (a file and a directory competing for `a`, an ignored path), 1 content, 2 turns, connection may be lost, client may be interrupted; `ClearSpec` | `ClientTypeOK`, `SyncedAtPrompt`, `NoBaselineRace`, `OneReturnPerTurn`, `ImplementsAnyClient` | hold |
| `session_live` | 1 path, 2 contents, 1 turn with up to 3 lines before the result, an empty store, all capacities 1, one edit by the user, disk errors on both sides, interrupt, lost connection | `StartsFromListed`, `HandshakeEnds`, `SessionEnds` | hold |
| `turn_ends` | 1 path, 2 turns with a line before each result, all capacities 1, oversize lines, server disk errors, crash, interrupt, lost connection | `TurnEnds` | hold |
| `secure_conn` | 2 keys, 1 writer at the client and 2 at the server, 1 and 2 messages, content of no byte, one chunk and more, 2 frames in flight, 1 fault | `TypeOK`, `NoFalseAlarm`, `Authenticated`, `RefinesLink`, `Settles` | hold |
| `server` | 3 clients, 2 slots, 2 blobs, disk errors, 1 end of the process | `TypeOK`, `AgentsBounded`, `BlobsThere`, `TempsOwned`, `StoreIsMap`, `SlotsComeBack` | hold |
| `pump_stops` | 1 turn, oversize lines | `PumpStopsWhenClientGone` | violated |
| `pump_panics` | 1 turn | `NoPanic` | violated |
| `prompt_returns` | 2 turns | `ReturnsAfterTurn` | violated |
| `agent_close` | 1 turn with 3 lines, capacities 1 | `CloseReturns` | violated |

Why the bounds are enough for the questions asked. The interesting cases of the tree
algebra need a path below another, one ignored on each side and two contents; any number
of turns is explored. The races of the service need at most two prompts and two turns:
with one there is no stale signal, with two there is. With capacities of 1 every queue
fills and every writer blocks, provided that there is enough to put into it: one line
and the result, over two turns, fill pipe and event channel of `turn_ends`;
`session_live` and `agent_close` need one more line than pipe and channel hold, because
there nobody empties them, and have three. The limits of the code are 64 events and 64
KiB of pipe, and a turn of claude's prints more than that easily. The safety proofs hold
for every capacity and every number of lines; the liveness runs show the cases in which
the queues do fill. Two writers are enough to interleave two streams, and one fault is
enough to show what the reader does about it, since any error ends the connection. Three
clients for two slots make one wait for a slot that is being given back. One failing
call and one kill reach every error path of Apply, in two sessions.

The violated properties are what comments say of the program; `PROJECT.json` quotes the
line for each. In short: pump gives up on an event that does not fit a record as if the
client had gone; a session closed while a result that was forwarded is being handled
panics the server; HandlePrompt may return on the previous turn's signal; Close never
kills a process.

`turn_sync` leaves out turns that put a file where the project has a directory. There
the code does not synchronise: Diff sorts the create of `a` before the delete of `a/b`,
and Apply's rename onto the directory fails. What is left of the promise is
`NoSilentLoss`, which `local_apply` checks and TLAPS proves without that restriction:
the user was told. `turn_sync` also leaves out turns that write a path that ignore files
exclude. The server does not know these rules: such a file is pushed, and Apply
writes it. No document promises that it is not (README.md:161 is about what is
uploaded), and no property states it. For the directories that are ignored by default,
fsutil.go:18 does say that they are never synced: `NeverSynced`, in `turn_sync` with an
agent that writes into them, and proved for every agent, also one that makes a file of
such a name, and every failure of the client's disk. `session_sync` leaves out the same
turns as `turn_sync`, by its specification `ClearSpec`: a step after which pump holds
the snapshot of such a turn is not taken. Turns that replace a file by a directory stay,
and so do ignored files of the project. `ClearSpec` restricts nothing else; the other
runs of `ClaudeShare` use `Spec`.

**Deadlock** is checked in `turn_sync` and `local_apply`. A session, a connection and
a server with a bounded number of clients end, so the others switch it off;
`HandshakeEnds`, `TurnEnds`, `SessionEnds`, `Settles` and `SlotsComeBack` say where
stopping would be wrong.

**Fairness.** `ClaudeShare!Fairness`: weak fairness of every goroutine of server and
client; the Go scheduler runs what can run, and a read from a closed connection returns.
The REPL waiting for the user is exempt: nothing obliges anyone to type. In
`ClaudeShare`, claude is assumed to take up a prompt, to end its turn if it can print,
and to exit with its children at the end of its input; that is the contract of its
stream-json mode, and a claude that hangs does hang the session. A claude whose output
nobody reads can do none of this, and the model lets it wait for ever. Nothing is
assumed of the network, the user, or claude's chatter and edits. `SecureConn!Fairness`:
every goroutine at the mutex, the handshake and both readers; Go's mutex hands itself to
a goroutine that has waited too long. `Server!Fairness`: every handler, once its client
has gone or nothing is asked of it, and nothing of claude, since `Server` has no pipes
and cannot tell a claude that may exit from one that is blocked.

`TurnEnds` is as strong as the code lets it be. While the connection is up, four failures
can keep the user waiting: claude has died in a turn (no message is sent at all); pump has
given up on an event that does not fit a record (`pump_stops`); a HandlePrompt has failed,
of itself or because finishTurn did (an error is shown, `turn.done` never comes); or the
error of finishTurn was dropped because the signal of an earlier turn filled the channel.
The last needs two goroutines of HandlePrompt between `Send` and their select, since one
that has reached it is handed the signal at once; Go's scheduler allows it, and then the
user sees neither `turn.done` nor an error (session.go:123). The property names these four
and excludes every other, a slow client with every queue full among them. Without any one
of the four exceptions TLC finds a counterexample in `turn_ends`. The client's own disk is
reliable there: an error of Apply is shown and passed over and takes no part in the
waiting.

`SessionEnds` and `SlotsComeBack` cannot promise more than Close does. Close waits for
claude and kills nothing (`agent_close`), so `SessionEnds` excepts one state: Close
waiting for a claude in a turn, with pipe and event channel full and pump gone; without
the exception TLC reaches it in `session_live`. `SlotsComeBack` says that with all
clients gone the slots in use are those of sessions whose claude still runs and for
which Close waits: no other way out of a handler keeps a slot.

`NoLeak` takes the removal of the workspace itself to succeed: Close reports an
error of `RemoveAll` and nobody tries again.

## 4. The proofs

All proofs hold for every value of the constants that satisfies the assumptions
named in the modules: `PathAssumption` (directories sort before what is below
them, no two paths share a rank), `HashAssumption` (no two contents share a
hash), `ModeAssumption`, `ConnAssumption` (each end has finitely many goroutines
that write; a message is an envelope or content cut into chunks),
`PromptAssumption` (the bound on prompts at the server is not below the one at the
client, so that it never stops a prompt the user typed), and that capacities and
bounds are natural numbers.

| Theorem | States | From |
|---|---|---|
| `TurnSyncProofs!TypeCorrect` | `FaultySpec => []TypeOK` | `TypeInv`: what is pending to be written is in the workspace |
| `TurnSyncProofs!NoSilentLossCorrect` | `FaultySpec => []NoSilentLoss` | `LossInv` |
| `TurnSyncProofs!SyncCorrect` | `Spec => []Synced`, when no turn replaces a directory or writes an ignored path | `SyncInv` |
| `TurnSyncProofs!NeverSyncedCorrect` | `FaultySpec => NeverSynced` | `SkipInv` |
| `LocalFsProofs!TypeCorrect`, `TempsCleanedCorrect` | `Spec => []TypeOK`, `Spec => []TempsCleaned` | `FsInv` |
| `LocalFsProofs!Refinement` | `Spec => RefinesTurnSync` | `FsInv`, one lemma per system call |
| `LocalFsProofs!NoSilentLossCorrect` | `Spec => []NoSilentLoss` | `FsInv` and TurnSync's `LossInv` through the refinement |
| `SecureConnProofs!TypeCorrect`, `AuthenticatedCorrect`, `NoFalseAlarmCorrect` | `Spec => []TypeOK` and so on | `ConnInv` |
| `SecureConnProofs!Refinement` | `Spec => RefinesLink` | `ConnInv` |
| `ServerProofs!TypeCorrect`, `AgentsBoundedCorrect`, `BlobsThereCorrect`, `TempsOwnedCorrect`, `StoreIsMapCorrect` | `Spec => []TypeOK` and so on | `ServerInv` |
| `AnyClientProofs!AnyClientTypeCorrect` | `Spec => []TypeOK` | inductive as it is |
| `AnyClientProofs!OneReturnPerTurnCorrect` | `Spec => []OneReturnPerTurn` | `ReturnInv` |
| `AnyClientProofs!NoLeakCorrect`, `WorkspaceCorrect` | `Spec => []NoLeak`, `Spec => []AgentHasWorkspace` | `CloseInv` |
| `AnyClientProofs!OnlyAgentEditsCorrect` | `Spec => OnlyAgentEdits` | `CloseInv` |
| `AnyClientProofs!StartsFromManifestCorrect` | `Spec => StartsFromManifest` | `Intact(blobs)` |
| `ClaudeShareProofs!ClientTypeCorrect` | `Spec => [](TypeOK /\ ClientTypeOK)` | inductive as it is |
| `ClaudeShareProofs!NoBaselineRaceCorrect` | `Spec => []NoBaselineRace` | `SessionInv` |
| `ClaudeShareProofs!StartsFromListedCorrect` | `Spec => StartsFromListed` | `SessionInv`, `Intact(blobs)` |
| `ClaudeShareProofs!ImplementsAnyClientCorrect` | `Spec => ImplementsAnyClient` | `SessionInv` |
| `ClaudeShareProofs!SyncedAtPromptCorrect` | `ClearSpec => []SyncedAtPrompt`, when the client's disk does not fail and nothing writes to the workspace between turns | `SyncInv`: `SessionInv`, `CopyInv` and what they need |
| `ClaudeShareProofs!DisksCorrect` | `Spec => []DiskInv`: both copies are trees, and blobs are intact | `SessionInv` |
| `ClaudeShareProofs!ReadyHasAgentCorrect` | `Spec => []UpInv`: a client that has seen `session.ready` has an agent | `SessionInv` |

### Files

*`InSync`.* The relation that both proofs of synchronisation are about
(`FileTreeProofs`). `InSync(d, m, C)`: the project `d` holds what the manifest `m` says
at every path that both sides can see, but for those that the changes `C` still have to
settle, and each of these is what `m` calls for. A workspace materialised from the
project's own manifest is in sync with it (`SyncStarts`); a turn makes the diff the
changes to settle (`SyncTurns`); applying the change that comes first settles it
(`SyncApplies`); and with nothing left to settle the files are the same (`SyncEnds`).

*`SyncInv`.* `Synced` speaks only of moments when nothing is pending. The
invariant of `TurnSyncProofs` is `InSync` with the pending changes; it says of every path without a pending change that project and workspace
agree about it already, and of every pending change that it is the one the
workspace calls for. Applying the first change in path order settles its path:
a delete always does; a write does unless a file is above it or a directory in
its place. A file above it sorts before it, so it has no pending change, so the
workspace has it too, which contradicts the workspace being a tree. A directory
in its place is excluded by the invariant's last part, which is where the
hypothesis about replaced directories enters.

*`LossInv`.* `FaultySpec` adds a disk that refuses any change and drops the
restrictions on the agent. The invariant says of every pending change that it is the
one the workspace calls for, and of every path neither pending nor reported that both
sides agree. A change that Apply carries out settles
its path and touches no other; one that it refuses (`Refused`, by the disk's shape) or
that the disk fails moves its path to `lost`; a later change of the same path that
succeeds takes it out again.

*`SkipInv`.* No pending change is at a path that the server's walk skips, because both
snapshots that a turn compares skip it. A path below a default-ignored directory is such a
path for both sides, and Apply changes no file but the one it is given, also when it
removes a path that is a directory of the client's (`ApplyOthers`): hence `NeverSynced`.

*`FsInv`.* The project that TurnSync sees is the disk without the temporary file of
the call under way, without those left behind in this session, and without the
directories that MkdirAll has made for a file not yet there. The invariant says where
the call is (`ApInv`: which of these exist, what the temporary file holds by the time
it is renamed) and that the pending changes describe the workspace (`PendingInv`).
Every system call before the rename then leaves TurnSync's project as it is, the
rename is its one step, and a failing call is the change that its disk fails.
`Refinement` is a refinement session by session: a client that is killed and opened
again is a new initial state of TurnSync, which is what `RefinesTurnSync` says.

### The connection

*`ConnInv`.* `RefinesLink` needs to know which records are under way, and the state
has only frames that the network may have touched. The invariant says, for each
direction, that there *is* a sequence `Q` of records, written by one end and not yet
opened by the other, that explains the state (`Carries`): the next nonces are theirs
(`SealsInOrder`); each frame in the network is one of them under its own nonce, a
handshake message, or what the network made of a frame (`FramesGenuine`); those that
end a message end the messages that were sent and not yet given to the application, in
that order, which the counts `D` spell out (`CompletesInOrder`); each is the first of
its stream, or goes on where the one before it or the half-received stream of the
reader stops (`StreamsInTurn`); and stream ids are fresh (`StreamIDs`). While the
network has tampered with nothing, the frames are exactly those of `Q` (`Untouched`).
A record written under the mutex is appended to `Q`, and a frame that opens under the
expected nonce can only be the first of `Q`, so the reader knows its stream: this is
`NoFalseAlarm`, and with the counts it is `RefinesLink`. `HandshakeInv` says who has
written nothing yet, and gives `Authenticated`.

### Server and store

*`ServerInv`.* Three independent parts. Slots: `slots` is the number of handlers
between Accept and return, and an agent runs only under such a handler, so that agents
never outnumber slots. Sessions (`SyncInv`): at every stage of the sync, what the
manifest needs is stored or missing or not yet asked about; it survives the steps of
other sessions because the store only grows. Store (`StoreInv`): a temporary file
belongs to one call, and when it is renamed it holds the content of that call; from
which `StoreIsMap`. The store is what makes the process's end harmless: it keeps no
state beside the files.

### One session

*`CloseInv`.* `NoLeak` is about the end. The invariant says who is answerable for
workspace and process at each moment: the Service until Close takes them, then
Close's local copies, and that nothing is answered for by nobody. Every step of
SyncDone that fails leaves the workspace with the Service; Close reaches `remove`
only when the process has exited and `returned` only when the directory is gone.

*`Intact(blobs)`.* Every blob has the hash it is stored under, since Put compares
them; Materialize therefore writes the contents the manifest lists, even with a
client that uploads something else.

*`ReturnInv`.* A balance: calls that have returned without error, plus the signal in
the channel, plus the one in pump's hand, never exceed the finished turns. Each
finishTurn adds one to both sides; every other step moves a signal or loses it. It
holds although HandlePrompt may take the signal of another turn (`prompt_returns`).

*`SessionInv`.* `NoBaselineRace` is about a lock that is not there: HandlePrompt
writes `preTurn` and finishTurn uses it, and only the protocol keeps them apart. The
reason is that a session has one turn at a time. `Turns` collects every place where a
turn can be: a prompt on its way, a HandlePrompt before it has written, stdin, a busy
claude, a result line in the pipe, a result event in the channel, a finishTurn under
way, a `turn.done` on its way, and the signal to the REPL. `TurnInv` says that there
is at most one turn in all these places together, and none unless the client waits for
it. Every step of the system takes the turn from its place to the next one or drops
it; that the REPL sends no prompt while it waits closes the circle. The part about the
handshake (`StartInv`, `ReadyInv`) says that there is one `session.start`, that the
server's manifest is the client's from the sync request on, and that once
`session.ready` is under way the server has read everything, which is also why a
prompt always finds room (`ImplementsAnyClient`). With another client none of this
holds, and `any_client` does not check it.

*`CopyInv`.* `SyncedAtPrompt` joins the two lines of argument: the one turn there may be
(`TurnInv`) and what holds of the files at each stage of it (`InSync`). Between turns
(`Quiet`) the project is in sync with the workspace and no change is under way; the
baseline that HandlePrompt takes then (`Prepared`) is the workspace, so that while
claude edits, and until pump has compared (`AtWork`), the project is in sync with
`preTurn`; the snapshot that pump compares with it is still the workspace when its
changes are pushed; and from then until the client takes `turn.done` (`Pushing`) the
project is in sync with the workspace but for the changes in `Flight`, which are those
in pump's list and on the connection together. `InOrder` says that the ones on the
connection come in the order of their paths, before every one still in the list and
before any `turn.done`, and that each carries the content the workspace has. So what
readLoop applies is always the smallest change, as `SyncApplies` needs, and when
`turn.done` comes to the front of the connection there is none left. `TurnInv` is what
separates the stages: pump never compares while claude edits, and no baseline is taken
while changes are under way. `UpInv` says when there is an agent, `ListedInv` that the
files have not changed since the client listed them, `DiskInv` and `TodoInv` that both
copies are trees and that a turn leaves nothing in pump's list; the first and the third
hold under `Spec`, without conditions, and are theorems of their own.

The conditions of `SyncedAtPromptCorrect` are those under which the code synchronises.
A change that the client's disk refuses is shown and passed over (clientapp.go,
applyChange), a file written between two turns is in no turn's diff (session.go,
HandlePrompt), and the turns that `ClearSpec` leaves out are not synchronised (see
section 3). Errors of the server's disk, a lost connection, a crash of claude, oversize
lines and an interrupted client need no condition: none of them lets a `turn.done`
through from which a change is missing.

By `ImplementsAnyClientCorrect`, what is proved of `AnyClient` holds for the server's
side of `ClaudeShare`; by `Refinement` in `SecureConnProofs` and `LocalFsProofs` and
by `StoreIsMapCorrect` the three simplifications of `ClaudeShare` are proved ones.

### Only model-checked

The liveness properties `HandshakeEnds`, `TurnEnds`, `SessionEnds`, `Settles` and
`SlotsComeBack` (fairness and ENABLED are beyond this prover). Every safety property
that a run finds to hold is also proved. The properties that are violated are false and
have no proof.

## 5. Not modelled

Not modelled: the strength of the cryptography, key derivation and passphrases
(no state machine; a key is a value); the terminal's output, flags and banner of the
commands; `SafeJoin`, `checkBind` and `validHash` (checks of a string's form, and
paths, addresses and hashes have no characters here; every path of the model is one
that `SafeJoin` accepts); the matching of ignore patterns (a constant set); symbolic
links (skipped by the walk); a manifest that lists a path twice, which no walk yields
(`AnyClient` sends functions from paths, domain.go has a slice); file sizes beyond the limits; a power failure (the disk
keeps what was written to it; neither Put nor Apply syncs before the rename).

`ClaudeShare` is not shown to implement `TurnSync` as a whole, although the two proofs
share `InSync` and its lemmas: TurnSync's turn changes the workspace in one step, claude
a file at a time, and a session that ends goes on deleting the workspace, so that the
mapping would need a history variable for the files of the last finished turn. What
TurnSync promises of a session at rest is `SyncedAtPromptCorrect`.
