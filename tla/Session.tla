------------------------------- MODULE Session -------------------------------
(***************************************************************************)
(* The server's side of one client connection, from the end of the         *)
(* handshake on: the handler goroutine (server.go: dispatch, then the      *)
(* deferred svc.Close), one HandlePrompt goroutine per prompt, and the     *)
(* pump goroutine that forwards agent events and finishes turns            *)
(* (session.go).  The three share the Service's fields and the turnDone    *)
(* channel; only some of the fields are read under its mutex.              *)
(*                                                                         *)
(* Each action is a step between two points at which another goroutine,    *)
(* the agent or the peer can be observed to act.                           *)
(***************************************************************************)
EXTENDS Wire, Agent, FiniteSets

CONSTANTS
    MaxPrompts,     \* prompts one connection sends
    IOErrors        \* may the server fail to make, write or read files? (Removing the
                    \* workspace is taken to succeed: no later step retries it.)

ASSUME SessionAssumption ==
    /\ MaxPrompts \in Nat
    /\ IOErrors \in BOOLEAN

VARIABLES
    handler,        \* the handler goroutine, see HandlerStates
    manifest,       \* Service.manifest
    svcWs,          \* Service.ws is set
    svcAgent,       \* Service.agent is set
    preTurn,        \* Service.preTurn
    turnDone,       \* Service.turnDone, a channel of capacity 1
    closeWs,        \* the ws local to Close
    closeAgent,     \* the agent local to Close
    blobs,          \* the content-addressed store, hash to content
    prompts,        \* HandlePrompt goroutines started
    hp,             \* HandlePrompt: [pc, snap, turn] of each goroutine
    pump,           \* the pump goroutine: [pc, after, todo, err]
    panicked,       \* a goroutine dereferenced nil and took the process down
    sent,           \* history: prompts written to the agent
    finished        \* history: turns whose finishTurn has returned

svcVars == <<manifest, svcWs, svcAgent, blobs>>
closeVars == <<closeWs, closeAgent>>
turnVars == <<preTurn, turnDone>>
promptVars == <<prompts, hp, sent>>
pumpVars == <<pump, finished>>
sessionVars == <<handler, svcVars, turnVars, closeVars, promptVars, pumpVars, panicked>>
serverVars == <<wireVars, agentVars, sessionVars>>

HandlerStates ==
    {"dispatch",    \* reading messages
     "ready",       \* SyncDone has returned, session.ready is to be sent
     "hangup",      \* dispatch has returned, the WebSocket is to be closed
     "close",       \* svc.Close is to take agent and workspace
     "stop",        \* agent.Close is to close stdin
     "wait",        \* agent.Close waits for the process
     "remove",      \* ws.Remove
     "returned"}    \* the slot is free and the request context cancelled

PromptStates == {"off", "start", "snap", "base", "drain", "send", "wait", "ok", "failed"}
PumpStates == {"off", "recv", "snap", "diff", "push", "turndone", "signal", "stopped", "done"}

SessionInit ==
    /\ handler = "dispatch"
    /\ manifest = NoFiles
    /\ svcWs = FALSE
    /\ svcAgent = FALSE
    /\ preTurn = NoFiles
    /\ turnDone = "empty"
    /\ closeWs = FALSE
    /\ closeAgent = FALSE
    /\ blobs \in Blobs
    /\ Intact(blobs)
    /\ prompts = 0
    /\ hp = [i \in 1..MaxPrompts |-> [pc |-> "off", snap |-> NoFiles, turn |-> 0]]
    /\ pump = [pc |-> "off", after |-> NoFiles, todo |-> {}, err |-> FALSE]
    /\ panicked = FALSE
    /\ sent = 0
    /\ finished = 0

-----------------------------------------------------------------------------
(* The handler goroutine: dispatch *)

ErrorMsg == [type |-> "error"]

\* dispatch reports an error to the client and returns.
DispatchFails ==
    /\ ServerTries(ErrorMsg)
    /\ handler' = "hangup"

Missing(m) == {m[p].hash : p \in DOMAIN m} \ DOMAIN blobs

\* StartSession and the answer.
DispatchStart ==
    /\ handler = "dispatch"
    /\ ServerReads("session.start")
    /\ manifest' = Head(c2s).manifest
    /\ \/ /\ ServerSends([type |-> "sync.request", missing |-> Missing(manifest')])
          /\ UNCHANGED handler
       \/ /\ ~connUp
          /\ handler' = "hangup"
          /\ UNCHANGED s2c
       \/ IOErrors /\ DispatchFails
    /\ UNCHANGED <<connUp, svcWs, svcAgent, blobs, turnVars, closeVars, promptVars,
                   pumpVars, panicked, agentVars>>

\* PutBlob: the store refuses content that does not have the claimed hash.
DispatchBlobUnchecked ==    \* mutant: Put does not compare the hashes
    /\ handler = "dispatch"
    /\ ServerReads("blob")
    /\ blobs' = Put(blobs, Head(c2s).hash, Head(c2s).content)
    /\ UNCHANGED <<s2c, connUp, handler, manifest, svcWs, svcAgent, turnVars, closeVars,
                   promptVars, pumpVars, panicked, agentVars>>

DispatchBlob ==
    /\ handler = "dispatch"
    /\ ServerReads("blob")
    /\ \/ /\ Hash[Head(c2s).content] = Head(c2s).hash
          /\ blobs' = Put(blobs, Head(c2s).hash, Head(c2s).content)
          /\ UNCHANGED <<s2c, handler>>
       \/ /\ Hash[Head(c2s).content] # Head(c2s).hash \/ IOErrors
          /\ DispatchFails
          /\ UNCHANGED blobs
    /\ UNCHANGED <<connUp, manifest, svcWs, svcAgent, turnVars, closeVars, promptVars,
                   pumpVars, panicked, agentVars>>

\* SyncDone when the agent runs already: a repeated sync.done changes nothing.
SyncDoneAgain ==
    /\ svcAgent
    /\ handler' = "ready"
    /\ UNCHANGED <<s2c, svcWs, svcAgent, pump, agentVars>>

SyncDoneRestarts ==     \* mutant: SyncDone does not look whether an agent runs
    /\ CanMaterialize(manifest, blobs)
    /\ svcWs' = TRUE
    /\ wsExists' = TRUE
    /\ files' = Materialize(manifest, blobs)
    /\ svcAgent' = TRUE
    /\ StartProcess
    /\ pump' = [pump EXCEPT !.pc = "recv"]
    /\ handler' = "ready"
    /\ UNCHANGED s2c

\* SyncDone: workspace, agent and pump all come up.
SyncDoneStarts ==
    /\ ~svcAgent
    /\ CanMaterialize(manifest, blobs)
    /\ svcWs' = TRUE
    /\ wsExists' = TRUE
    /\ files' = Materialize(manifest, blobs)
    /\ svcAgent' = TRUE
    /\ StartProcess
    /\ pump' = [pump EXCEPT !.pc = "recv"]
    /\ handler' = "ready"
    /\ UNCHANGED s2c

\* SyncDone fails in NewWorkspace, and nothing has come up.
SyncDoneNoWorkspace ==
    /\ ~svcAgent
    /\ IOErrors
    /\ DispatchFails
    /\ UNCHANGED <<svcWs, svcAgent, pump, agentVars>>

SyncDoneForgets ==      \* mutant: s.ws is set only once everything has come up
    /\ ~svcAgent
    /\ \E S \in SUBSET {p \in DOMAIN manifest : manifest[p].hash \in DOMAIN blobs} :
        files' = Restrict(Materialize(manifest, blobs), S)
    /\ ~CanMaterialize(manifest, blobs)
    /\ wsExists' = TRUE
    /\ DispatchFails
    /\ UNCHANGED <<svcWs, svcAgent, pump, procVars, streamVars>>

\* SyncDone fails in Materialize, with some entries written, or in Agent.Start;
\* the workspace exists and is remembered, so that Close removes it.
SyncDoneNoAgent ==
    /\ ~svcAgent
    /\ \E S \in SUBSET {p \in DOMAIN manifest : manifest[p].hash \in DOMAIN blobs} :
        /\ Consistent(S)
        /\ files' = Restrict(Materialize(manifest, blobs), S)
    /\ \/ IOErrors
       \/ ~CanMaterialize(manifest, blobs)
    /\ svcWs' = TRUE
    /\ wsExists' = TRUE
    /\ DispatchFails
    /\ UNCHANGED <<svcAgent, pump, procVars, streamVars>>

DispatchSyncDone ==
    /\ handler = "dispatch"
    /\ ServerReads("sync.done")
    /\ SyncDoneAgain \/ SyncDoneStarts \/ SyncDoneNoWorkspace \/ SyncDoneNoAgent
    /\ UNCHANGED <<connUp, manifest, blobs, turnVars, closeVars, promptVars, finished,
                   panicked>>

DispatchReady ==
    /\ handler = "ready"
    /\ \/ /\ ServerSends([type |-> "session.ready"])
          /\ handler' = "dispatch"
       \/ /\ ~connUp
          /\ handler' = "hangup"
          /\ UNCHANGED s2c
    /\ UNCHANGED <<c2s, connUp, svcVars, turnVars, closeVars, promptVars, pumpVars,
                   panicked, agentVars>>

\* Each prompt gets a goroutine of its own.
DispatchPrompt ==
    /\ handler = "dispatch"
    /\ prompts < MaxPrompts
    /\ ServerReads("prompt")
    /\ prompts' = prompts + 1
    /\ hp' = [hp EXCEPT ![prompts + 1].pc = "start"]
    /\ UNCHANGED <<s2c, connUp, handler, svcVars, turnVars, closeVars, sent, pumpVars,
                   panicked, agentVars>>

\* Interrupt is not supported by the agent: an error, once there is an agent.
DispatchInterrupt ==
    /\ handler = "dispatch"
    /\ ServerReads("interrupt")
    /\ \/ svcAgent /\ ServerTries(ErrorMsg)
       \/ ~svcAgent /\ UNCHANGED s2c
    /\ UNCHANGED <<connUp, handler, svcVars, turnVars, closeVars, promptVars, pumpVars,
                   panicked, agentVars>>

DispatchUnknown ==
    /\ handler = "dispatch"
    /\ ServerReads("unknown")
    /\ UNCHANGED <<s2c, connUp, handler, svcVars, turnVars, closeVars, promptVars,
                   pumpVars, panicked, agentVars>>

\* session.end, a record or payload that does not decode, or a read error once
\* the connection is down.
DispatchReturns ==
    /\ handler = "dispatch"
    /\ \/ ServerReads("session.end")
       \/ ServerReads("malformed")
       \/ ~connUp /\ UNCHANGED c2s
    /\ handler' = "hangup"
    /\ UNCHANGED <<s2c, connUp, svcVars, turnVars, closeVars, promptVars, pumpVars,
                   panicked, agentVars>>

-----------------------------------------------------------------------------
(* The handler goroutine: hanging up, and Service.Close *)

HangUp ==
    /\ handler = "hangup"
    /\ connUp' = FALSE
    /\ handler' = "close"
    /\ UNCHANGED <<c2s, s2c, svcVars, turnVars, closeVars, promptVars, pumpVars, panicked,
                   agentVars>>

\* Under the mutex; what follows uses the local copies.
CloseTakes ==
    /\ handler = "close"
    /\ closeAgent' = svcAgent
    /\ closeWs' = svcWs
    /\ svcAgent' = FALSE
    /\ svcWs' = FALSE
    /\ handler' = IF svcAgent THEN "stop" ELSE "remove"
    /\ UNCHANGED <<wireVars, manifest, blobs, turnVars, promptVars, pumpVars, panicked,
                   agentVars>>

CloseOnlyWaits ==       \* mutant: stdin stays open
    /\ handler = "stop"
    /\ handler' = "wait"
    /\ UNCHANGED <<wireVars, svcVars, turnVars, closeVars, promptVars, pumpVars, panicked,
                   agentVars>>

CloseStopsAgent ==
    /\ handler = "stop"
    /\ CloseStdin
    /\ handler' = "wait"
    /\ UNCHANGED <<wireVars, svcVars, turnVars, closeVars, promptVars, pumpVars, panicked,
                   streamVars, dirVars>>

CloseDoesNotWait ==     \* mutant: the workspace is removed without waiting
    /\ handler = "wait"
    /\ handler' = "remove"
    /\ UNCHANGED <<wireVars, svcVars, turnVars, closeVars, promptVars, pumpVars, panicked,
                   agentVars>>

CloseWaits ==
    /\ handler = "wait"
    /\ WaitReturns
    /\ handler' = "remove"
    /\ UNCHANGED <<wireVars, svcVars, turnVars, closeVars, promptVars, pumpVars, panicked,
                   procVars, dirVars>>

CloseRemoves ==
    /\ handler = "remove"
    /\ IF closeWs
       THEN wsExists' = FALSE /\ files' = NoFiles
       ELSE UNCHANGED dirVars
    /\ handler' = "returned"
    /\ UNCHANGED <<wireVars, svcVars, turnVars, closeVars, promptVars, pumpVars, panicked,
                   procVars, streamVars>>

HandlerStep ==
    \/ DispatchStart \/ DispatchBlob \/ DispatchSyncDone \/ DispatchReady
    \/ DispatchPrompt \/ DispatchInterrupt \/ DispatchUnknown \/ DispatchReturns
    \/ HangUp \/ CloseTakes \/ CloseStopsAgent \/ CloseWaits \/ CloseRemoves

-----------------------------------------------------------------------------
(* HandlePrompt, goroutine i *)

\* HandlePrompt returns an error, which its goroutine sends to the client.
PromptFails(i) ==
    /\ ServerTries(ErrorMsg)
    /\ hp' = [hp EXCEPT ![i].pc = "failed"]

\* The only fields read under the mutex.
PromptStart(i) ==
    /\ hp[i].pc = "start"
    /\ \/ /\ svcAgent /\ svcWs
          /\ hp' = [hp EXCEPT ![i].pc = "snap"]
          /\ UNCHANGED s2c
       \/ /\ ~(svcAgent /\ svcWs)
          /\ PromptFails(i)
    /\ UNCHANGED <<c2s, connUp, handler, svcVars, turnVars, closeVars, prompts, sent,
                   pumpVars, panicked, agentVars>>

PromptSnapshot(i) ==
    /\ hp[i].pc = "snap"
    /\ \/ /\ wsExists
          /\ hp' = [hp EXCEPT ![i].pc = "base", ![i].snap = Snapshot(files)]
          /\ UNCHANGED s2c
       \/ /\ ~wsExists \/ IOErrors
          /\ PromptFails(i)
    /\ UNCHANGED <<c2s, connUp, handler, svcVars, turnVars, closeVars, prompts, sent,
                   pumpVars, panicked, agentVars>>

\* Service.preTurn is written without the mutex, while the pump may be using it.
PromptBaseline(i) ==
    /\ hp[i].pc = "base"
    /\ preTurn' = hp[i].snap
    /\ hp' = [hp EXCEPT ![i].pc = "drain"]
    /\ UNCHANGED <<wireVars, handler, svcVars, turnDone, closeVars, prompts, sent,
                   pumpVars, panicked, agentVars>>

PromptDrain(i) ==
    /\ hp[i].pc = "drain"
    /\ turnDone' = "empty"
    /\ hp' = [hp EXCEPT ![i].pc = "send"]
    /\ UNCHANGED <<wireVars, handler, svcVars, preTurn, closeVars, prompts, sent,
                   pumpVars, panicked, agentVars>>

PromptSend(i) ==
    /\ hp[i].pc = "send"
    /\ \/ /\ SendPrompt
          /\ sent' = sent + 1
          /\ hp' = [hp EXCEPT ![i].pc = "wait", ![i].turn = sent + 1]
          /\ UNCHANGED s2c
       \/ /\ ~CanSend
          /\ PromptFails(i)
          /\ UNCHANGED <<procVars, sent>>
    /\ UNCHANGED <<c2s, connUp, handler, svcVars, turnVars, closeVars, prompts, pumpVars,
                   panicked, streamVars, dirVars>>

PromptPeeks(i) ==       \* mutant: the completion signal is not consumed
    /\ hp[i].pc = "wait"
    /\ turnDone = "ok"
    /\ hp' = [hp EXCEPT ![i].pc = "ok"]
    /\ UNCHANGED <<wireVars, handler, svcVars, turnVars, closeVars, prompts, sent,
                   pumpVars, panicked, agentVars>>

\* The completion signal, or the end of the request context.  "wait" begins when
\* Send returns; a goroutine that already waits in its select is handed a signal
\* at once, one that has not reached it finds the signal later or not at all.
PromptWait(i) ==
    /\ hp[i].pc = "wait"
    /\ \/ /\ turnDone = "ok"
          /\ turnDone' = "empty"
          /\ hp' = [hp EXCEPT ![i].pc = "ok"]
          /\ UNCHANGED s2c
       \/ /\ turnDone = "err"
          /\ turnDone' = "empty"
          /\ PromptFails(i)
       \/ /\ handler = "returned"
          /\ PromptFails(i)
          /\ UNCHANGED turnDone
    /\ UNCHANGED <<c2s, connUp, handler, svcVars, preTurn, closeVars, prompts, sent,
                   pumpVars, panicked, agentVars>>

PromptStep(i) ==
    \/ PromptStart(i) \/ PromptSnapshot(i) \/ PromptBaseline(i)
    \/ PromptDrain(i) \/ PromptSend(i) \/ PromptWait(i)

-----------------------------------------------------------------------------
(* pump and finishTurn *)

PumpGoes(pc) == pump' = [pump EXCEPT !.pc = pc]

\* finishTurn returns; pump is about to signal turnDone.
FinishTurn(failed) ==
    /\ pump' = [pump EXCEPT !.pc = "signal", !.err = failed, !.todo = {}]
    /\ finished' = finished + 1

\* A method call on the nil Service.ws takes the whole server process down.
Panic ==
    /\ panicked' = TRUE
    /\ connUp' = FALSE
    /\ stdinOpen' = FALSE

\* Receive an event and forward it; return for good if that fails.
PumpReceive ==
    /\ pump.pc = "recv"
    /\ \/ /\ events # <<>>
          /\ events' = Tail(events)
          /\ \/ /\ Head(events).fits
                /\ ServerSends([type |-> "stream.event"])
                /\ PumpGoes(IF Head(events).kind = "result" THEN "snap" ELSE "recv")
             \/ /\ ~connUp \/ ~Head(events).fits
                /\ PumpGoes("stopped")
                /\ UNCHANGED s2c
       \/ /\ events = <<>>
          /\ eventsClosed
          /\ PumpGoes("done")
          /\ UNCHANGED <<s2c, events>>
    /\ UNCHANGED <<c2s, connUp, handler, svcVars, turnVars, closeVars, promptVars, finished,
                   panicked, procVars, pipe, eventsClosed, dirVars>>

\* Service.ws is read without the mutex.
PumpSnapshot ==
    /\ pump.pc = "snap"
    /\ \/ /\ svcWs
          /\ pump' = [pump EXCEPT !.pc = "diff", !.after = Snapshot(files)]
          /\ UNCHANGED <<connUp, finished, panicked, stdinOpen>>
       \/ /\ svcWs /\ IOErrors
          /\ FinishTurn(TRUE)
          /\ UNCHANGED <<connUp, panicked, stdinOpen>>
       \/ /\ ~svcWs
          /\ Panic
          /\ UNCHANGED <<pump, finished>>
    /\ UNCHANGED <<c2s, s2c, handler, svcVars, turnVars, closeVars, promptVars,
                   proc, stdin, chatter, streamVars, dirVars>>

\* Service.preTurn is read without the mutex.
PumpDiff ==
    /\ pump.pc = "diff"
    /\ pump' = [pump EXCEPT !.pc = "push", !.todo = Diff(preTurn, pump.after)]
    /\ UNCHANGED <<wireVars, handler, svcVars, turnVars, closeVars, promptVars, finished,
                   panicked, agentVars>>

FileChangeMsg(ch) ==
    IF ch.op = "delete"
    THEN [type |-> "file.change", change |-> ch]
    ELSE [type |-> "file.change", change |-> ch, content |-> files[ch.path].content]

\* The next change in path order: read the file again, push it.
PumpPush ==
    /\ pump.pc = "push"
    /\ \E ch \in pump.todo :
        /\ \A d \in pump.todo : Rank[ch.path] <= Rank[d.path]
        /\ \/ /\ ch.op = "delete" \/ (svcWs /\ ch.path \in DOMAIN files)
              /\ ServerSends(FileChangeMsg(ch))
              /\ pump' = [pump EXCEPT !.todo = @ \ {ch}]
              /\ UNCHANGED <<connUp, finished, panicked, stdinOpen>>
           \/ /\ ch.op # "delete" => svcWs
              /\ \/ ~connUp
                 \/ ch.op # "delete" /\ (ch.path \notin DOMAIN files \/ IOErrors)
              /\ FinishTurn(TRUE)
              /\ UNCHANGED <<s2c, connUp, panicked, stdinOpen>>
           \/ /\ ch.op # "delete" /\ ~svcWs
              /\ Panic
              /\ UNCHANGED <<s2c, pump, finished>>
    /\ UNCHANGED <<c2s, handler, svcVars, turnVars, closeVars, promptVars,
                   proc, stdin, chatter, streamVars, dirVars>>

PumpSkips ==            \* mutant: the turn is over before every change is pushed
    /\ pump.pc = "push"
    /\ preTurn' = pump.after
    /\ PumpGoes("turndone")
    /\ UNCHANGED <<wireVars, handler, svcVars, turnDone, closeVars, promptVars, finished,
                   panicked, agentVars>>

PumpAdvanceLate ==      \* mutant: turn.done goes out before the baseline moves on
    /\ pump.pc = "push"
    /\ pump.todo = {}
    /\ \/ /\ ~pump.err
          /\ ServerSends([type |-> "turn.done"])
          /\ pump' = [pump EXCEPT !.err = TRUE]
          /\ UNCHANGED <<preTurn, finished>>
       \/ /\ pump.err
          /\ preTurn' = pump.after
          /\ FinishTurn(FALSE)
          /\ UNCHANGED s2c
    /\ UNCHANGED <<c2s, connUp, handler, svcVars, turnDone, closeVars, promptVars,
                   panicked, agentVars>>

\* Every change is pushed: the baseline moves on.
PumpAdvance ==
    /\ pump.pc = "push"
    /\ pump.todo = {}
    /\ preTurn' = pump.after
    /\ PumpGoes("turndone")
    /\ UNCHANGED <<wireVars, handler, svcVars, turnDone, closeVars, promptVars, finished,
                   panicked, agentVars>>

PumpTurnDone ==
    /\ pump.pc = "turndone"
    /\ \/ /\ ServerSends([type |-> "turn.done"])
          /\ FinishTurn(FALSE)
       \/ /\ ~connUp
          /\ FinishTurn(TRUE)
          /\ UNCHANGED s2c
    /\ UNCHANGED <<c2s, connUp, handler, svcVars, turnVars, closeVars, promptVars,
                   panicked, agentVars>>

PumpSignalsOk ==        \* mutant: finishTurn's error is not sent
    /\ pump.pc = "signal"
    /\ turnDone' = IF turnDone = "empty" /\ ~pump.err THEN "ok" ELSE turnDone
    /\ PumpGoes("recv")
    /\ UNCHANGED <<wireVars, handler, svcVars, preTurn, closeVars, promptVars, finished,
                   panicked, agentVars>>

\* A send that does not block: a signal nobody took stays in the channel.
PumpSignal ==
    /\ pump.pc = "signal"
    /\ turnDone' = CASE turnDone # "empty" -> turnDone
                     [] pump.err -> "err"
                     [] OTHER -> "ok"
    /\ PumpGoes("recv")
    /\ UNCHANGED <<wireVars, handler, svcVars, preTurn, closeVars, promptVars, finished,
                   panicked, agentVars>>

PumpStep ==
    \/ PumpReceive \/ PumpSnapshot \/ PumpDiff \/ PumpPush
    \/ PumpAdvance \/ PumpTurnDone \/ PumpSignal

-----------------------------------------------------------------------------
(* The server process, and its agent, which outlives a panic. *)

SubprocessStep == ClaudeStep /\ UNCHANGED <<wireVars, sessionVars>>

ServerStep ==
    /\ ~panicked
    /\ \/ HandlerStep
       \/ \E i \in 1..MaxPrompts : PromptStep(i)
       \/ PumpStep
       \/ ReadLoopStep /\ UNCHANGED <<wireVars, sessionVars>>

-----------------------------------------------------------------------------
PromptType == [pc : PromptStates, snap : Manifests, turn : Nat]
PumpType == [pc : PumpStates, after : Manifests, todo : SUBSET Changes, err : BOOLEAN]

SessionTypeOK ==
    /\ handler \in HandlerStates
    /\ manifest \in Manifests
    /\ svcWs \in BOOLEAN /\ svcAgent \in BOOLEAN
    /\ preTurn \in Manifests
    /\ turnDone \in {"empty", "ok", "err"}
    /\ closeWs \in BOOLEAN /\ closeAgent \in BOOLEAN
    /\ blobs \in Blobs
    /\ prompts \in 0..MaxPrompts
    /\ hp \in [1..MaxPrompts -> PromptType]
    /\ pump \in PumpType
    /\ panicked \in BOOLEAN
    /\ sent \in Nat /\ finished \in Nat

TypeOK == WireTypeOK /\ AgentTypeOK /\ SessionTypeOK

\* When the handler has returned and its slot is free, the session has left
\* nothing behind: its workspace is gone and its subprocess has exited, however
\* far the session came and wherever SyncDone failed.
NoLeak == handler = "returned" => ~wsExists /\ ~Running

\* The subprocess never runs in a workspace that has been removed.
AgentHasWorkspace == Running => wsExists

\* Once the agent has started, only the agent changes the workspace until the
\* session is torn down: a repeated sync.done never overwrites its work.
OnlyAgentEdits ==
    [][svcAgent /\ files' # files => Running /\ proc' = proc /\ svcAgent']_serverVars

\* The workspace an agent starts in holds exactly the files of the manifest, with
\* the contents it lists, whatever blobs the client uploaded.
StartsFromManifest ==
    [][~svcAgent /\ svcAgent' =>
        /\ DOMAIN files' = DOMAIN manifest
        /\ \A p \in DOMAIN manifest : Hash[files'[p].content] = manifest[p].hash]_serverVars

\* HandlePrompt calls return without error at most once per finished turn: no
\* completion signal is counted twice.
OneReturnPerTurn ==
    Cardinality({i \in 1..MaxPrompts : hp[i].pc = "ok"}) <= finished

(* What comments in session.go and ports.go say, and the code does not do. *)

\* pump stops forwarding before the agent's end only because the client is gone.
PumpStopsWhenClientGone == pump.pc = "stopped" => ~connUp

\* pump runs until the event channel closes: it never ends in a panic.
NoPanic == ~panicked

\* HandlePrompt returns without error only when its own turn has completed.
ReturnsAfterTurn == \A i \in 1..MaxPrompts : hp[i].pc = "ok" => hp[i].turn <= finished
=============================================================================
