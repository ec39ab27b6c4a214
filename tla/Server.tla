------------------------------- MODULE Server -------------------------------
(***************************************************************************)
(* The server process: connections that compete for session slots, each    *)
(* with its handler goroutine (server.go: handle), all of them storing and *)
(* reading blobs in one store; shutdown, a crash and a restart.  A session *)
(* is seen from outside: what Session says of it in detail is here the     *)
(* order in which it takes and gives back slot, workspace and agent.       *)
(***************************************************************************)
EXTENDS BlobStore, FiniteSets

CONSTANTS
    Projects,       \* the manifests of the clients, each the set of its hashes
    MaxSessions,    \* the slots; 0 for no limit
    MaxEnds         \* bound: times the server process ends

ASSUME ServerAssumption ==
    /\ Projects \subseteq SUBSET Range(Hash)
    /\ MaxSessions \in Nat
    /\ MaxEnds \in Nat

VARIABLES
    pc,         \* pc[c]: the handler of connection c
    here,       \* here[c]: the client of c is connected
    need,       \* need[c]: the hashes in the manifest
    todo,       \* todo[c]: those the loop under way has still to look at
    missing,    \* missing[c]: those the client was asked for and has not uploaded
    dir,        \* dir[c]: the workspace of c is on disk
    agent,      \* agent[c]: "none", "running", or "orphan" of a process that ended
    slots,      \* tokens in Server.slots; with no limit, handlers under way
    running,    \* the server process is up
    ends        \* times it has ended

connVars == <<pc, here, need, todo, missing, dir, agent>>
vars == <<connVars, slots, running, ends, storeVars>>

Conns == Users

\* The handler, in the order of Server.handle: waiting for a connection, the
\* Noise handshake, session.start, the loop over Has, uploads, the loop over
\* Get, prompts, Service.Close before and after the agent has ended, the end.
States == {"none", "handshake", "start", "has", "upload", "get", "prompts",
           "close", "remove", "returned"}

\* Where the handler waits for the client's next message.
Reading == {"handshake", "start", "upload", "prompts"}

Init ==
    /\ StoreInit
    /\ pc = [c \in Conns |-> "none"]
    /\ here = [c \in Conns |-> FALSE]
    /\ need = [c \in Conns |-> {}]
    /\ todo = [c \in Conns |-> {}]
    /\ missing = [c \in Conns |-> {}]
    /\ dir = [c \in Conns |-> FALSE]
    /\ agent = [c \in Conns |-> "none"]
    /\ slots = 0
    /\ running = TRUE
    /\ ends = 0

-----------------------------------------------------------------------------
(* Server.handle *)

Goes(c, from, to) == pc[c] = from /\ pc' = [pc EXCEPT ![c] = to]

\* A client connects; a slot is taken at once, or the connection is refused.
Accept(c) ==
    /\ running
    /\ IF MaxSessions > 0 /\ slots = MaxSessions
       THEN /\ Goes(c, "none", "returned")
            /\ UNCHANGED <<here, slots>>
       ELSE /\ Goes(c, "none", "handshake")
            /\ here' = [here EXCEPT ![c] = TRUE]
            /\ slots' = slots + 1
    /\ UNCHANGED <<need, todo, missing, dir, agent, running, ends, storeVars>>

\* The deferred calls that end handle: the slot is given back.
Return(c, from) ==
    /\ Goes(c, from, "returned")
    /\ here' = [here EXCEPT ![c] = FALSE]
    /\ slots' = slots - 1

HandshakeDone(c) ==
    /\ here[c]
    /\ Goes(c, "handshake", "start")
    /\ UNCHANGED <<here, need, todo, missing, dir, agent, slots, running, ends, storeVars>>

HandshakeForgets(c) ==      \* mutant: the early return does not give back the slot
    /\ Goes(c, "handshake", "returned")
    /\ here' = [here EXCEPT ![c] = FALSE]
    /\ UNCHANGED <<need, todo, missing, dir, agent, slots, running, ends, storeVars>>

\* The wrong key, or no connection.  There is no deadline: while the client is
\* there and silent, nothing happens.
HandshakeFails(c) ==
    /\ Return(c, "handshake")
    /\ UNCHANGED <<need, todo, missing, dir, agent, running, ends, storeVars>>

\* dispatch returns; the WebSocket is closed first, and the manifest is not used
\* again.
ToClose(c) ==
    /\ pc' = [pc EXCEPT ![c] = "close"]
    /\ here' = [here EXCEPT ![c] = FALSE]
    /\ need' = [need EXCEPT ![c] = {}]
    /\ todo' = [todo EXCEPT ![c] = {}]
    /\ missing' = [missing EXCEPT ![c] = {}]

\* dispatch returns: session.end, a message that does not decode, an error that
\* was reported, or the connection is gone.
DispatchReturns(c) ==
    /\ pc[c] \in Reading \ {"handshake"}
    /\ put[c] = NotPutting
    /\ ToClose(c)
    /\ UNCHANGED <<dir, agent, slots, running, ends, storeVars>>

CloseEarly(c) ==            \* mutant: the slot is given back before the agent ends
    /\ Return(c, "close")
    /\ UNCHANGED <<need, todo, missing, dir, agent, running, ends, storeVars>>

\* Service.Close waits for the agent ...
CloseWaits(c) ==
    /\ agent[c] # "running"
    /\ Goes(c, "close", "remove")
    /\ UNCHANGED <<here, need, todo, missing, dir, agent, slots, running, ends, storeVars>>

\* ... and removes the workspace.
CloseRemoves(c) ==
    /\ Return(c, "remove")
    /\ dir' = [dir EXCEPT ![c] = FALSE]
    /\ UNCHANGED <<need, todo, missing, agent, running, ends, storeVars>>

-----------------------------------------------------------------------------
(* The session's use of the store *)

\* session.start with a manifest of the hashes S.
StartSession(c, S) ==
    /\ here[c]
    /\ Goes(c, "start", "has")
    /\ need' = [need EXCEPT ![c] = S]
    /\ todo' = [todo EXCEPT ![c] = S]
    /\ UNCHANGED <<here, missing, dir, agent, slots, running, ends, storeVars>>

HasSoon(c) ==               \* mutant: a blob another session is storing counts as there
    /\ pc[c] = "has"
    /\ \E h \in todo[c] :
        /\ todo' = [todo EXCEPT ![c] = @ \ {h}]
        /\ missing' = [missing EXCEPT ![c] =
                IF Has(h) \/ \E u \in Users : put[u] # NotPutting /\ put[u].hash = h
                THEN @ ELSE @ \cup {h}]
    /\ UNCHANGED <<pc, here, need, dir, agent, slots, running, ends, storeVars>>

\* StartSession asks the store about one hash after another.
StartChecks(c) ==
    /\ pc[c] = "has"
    /\ \E h \in todo[c] :
        /\ todo' = [todo EXCEPT ![c] = @ \ {h}]
        /\ missing' = [missing EXCEPT ![c] = IF Has(h) THEN @ ELSE @ \cup {h}]
    /\ UNCHANGED <<pc, here, need, dir, agent, slots, running, ends, storeVars>>

\* Has fails: the error is reported, and dispatch returns.
StartFails(c) ==
    /\ pc[c] = "has"
    /\ DiskErrors
    /\ todo[c] # {}
    /\ ToClose(c)
    /\ UNCHANGED <<dir, agent, slots, running, ends, storeVars>>

StartAnswers(c) ==
    /\ todo[c] = {}
    /\ Goes(c, "has", "upload")
    /\ UNCHANGED <<here, need, todo, missing, dir, agent, slots, running, ends, storeVars>>

\* The client uploads a blob it was asked for; the file may have changed since.
Upload(c) ==
    /\ pc[c] = "upload"
    /\ here[c]
    /\ \E h \in missing[c], d \in Contents : BeginPut(c, h, d)
    /\ UNCHANGED <<connVars, slots, running, ends>>

Putting(c) ==
    /\ PutStep(c)
    /\ UNCHANGED <<connVars, slots, running, ends>>

\* An error of Put is reported, and dispatch returns.
Uploaded(c) ==
    /\ PutReturns(c)
    /\ IF put[c].ok
       THEN /\ missing' = [missing EXCEPT ![c] = @ \ {put[c].hash}]
            /\ UNCHANGED <<pc, here, need, todo>>
       ELSE ToClose(c)
    /\ UNCHANGED <<dir, agent, slots, running, ends>>

\* sync.done, from a client that has uploaded what it was asked for.
SyncDone(c) ==
    /\ here[c]
    /\ missing[c] = {}
    /\ Goes(c, "upload", "get")
    /\ todo' = [todo EXCEPT ![c] = need[c]]
    /\ dir' = [dir EXCEPT ![c] = TRUE]
    /\ UNCHANGED <<here, need, missing, agent, slots, running, ends, storeVars>>

\* Materialize gets one blob after another.
MaterializeGets(c) ==
    /\ pc[c] = "get"
    /\ \E h \in todo[c] :
        /\ Has(h)
        /\ todo' = [todo EXCEPT ![c] = @ \ {h}]
    /\ UNCHANGED <<pc, here, need, missing, dir, agent, slots, running, ends, storeVars>>

\* Materialize or Agent.Start fails.
SyncFails(c) ==
    /\ pc[c] = "get"
    /\ \/ DiskErrors
       \/ \E h \in todo[c] : ~Has(h)
    /\ ToClose(c)
    /\ UNCHANGED <<dir, agent, slots, running, ends, storeVars>>

AgentStarts(c) ==
    /\ todo[c] = {}
    /\ Goes(c, "get", "prompts")
    /\ agent' = [agent EXCEPT ![c] = "running"]
    /\ UNCHANGED <<here, need, todo, missing, dir, slots, running, ends, storeVars>>

-----------------------------------------------------------------------------
(* The world *)

\* A client goes away without a word.
ClientGone(c) ==
    /\ here[c]
    /\ here' = [here EXCEPT ![c] = FALSE]
    /\ UNCHANGED <<pc, need, todo, missing, dir, agent, slots, running, ends, storeVars>>

\* claude ends: its input is closed, by Close or with the server process, or it
\* dies.
AgentEnds(c) ==
    /\ agent[c] # "none"
    /\ agent' = [agent EXCEPT ![c] = "none"]
    /\ UNCHANGED <<pc, here, need, todo, missing, dir, slots, running, ends, storeVars>>

\* Shutdown closes the listener and main returns; nobody waits for the handlers.
\* A panic or a kill ends the process in the same way: workspaces and temporary
\* files stay on disk, agents are left to themselves.
ProcessEnds ==
    /\ running
    /\ ends < MaxEnds
    /\ ends' = ends + 1
    /\ running' = FALSE
    /\ slots' = 0
    /\ pc' = [c \in Conns |-> IF pc[c] = "none" THEN "none" ELSE "returned"]
    /\ here' = [c \in Conns |-> FALSE]
    /\ agent' = [c \in Conns |-> IF agent[c] = "running" THEN "orphan" ELSE agent[c]]
    /\ need' = [c \in Conns |-> {}]
    /\ todo' = [c \in Conns |-> {}]
    /\ missing' = [c \in Conns |-> {}]
    /\ StoreCrash
    /\ UNCHANGED dir

\* A new process on the same data directory.
Restart ==
    /\ ~running
    /\ running' = TRUE
    /\ UNCHANGED <<connVars, slots, ends, storeVars>>

-----------------------------------------------------------------------------
\* What handler c does on its own, once its client is gone or nothing is asked
\* of it.
HandlerStep(c) ==
    \/ ~here[c] /\ (HandshakeFails(c) \/ DispatchReturns(c))
    \/ CloseWaits(c) \/ CloseRemoves(c)
    \/ StartChecks(c) \/ StartFails(c) \/ StartAnswers(c)
    \/ Putting(c) \/ Uploaded(c)
    \/ MaterializeGets(c) \/ SyncFails(c) \/ AgentStarts(c)

ClientStep(c) ==
    \/ Accept(c) \/ HandshakeDone(c) \/ Upload(c) \/ SyncDone(c) \/ ClientGone(c)
    \/ here[c] /\ (HandshakeFails(c) \/ DispatchReturns(c))
    \/ \E S \in Projects : StartSession(c, S)

Next ==
    \/ \E c \in Conns : HandlerStep(c) \/ ClientStep(c) \/ AgentEnds(c)
    \/ ProcessEnds
    \/ Restart

\* Handlers are scheduled.  Nothing obliges a claude to end: Close only closes its
\* input and waits (claudecli.go:147).
Fairness == \A c \in Conns : WF_vars(HandlerStep(c))

Spec == Init /\ [][Next]_vars /\ Fairness

-----------------------------------------------------------------------------
TypeOK ==
    /\ pc \in [Conns -> States]
    /\ here \in [Conns -> BOOLEAN]
    /\ \A c \in Conns : todo[c] \subseteq need[c] /\ missing[c] \subseteq need[c]
    /\ need \in [Conns -> SUBSET Hashes]
    /\ dir \in [Conns -> BOOLEAN]
    /\ agent \in [Conns -> {"none", "running", "orphan"}]
    /\ slots \in Nat
    /\ running \in BOOLEAN /\ ends \in 0..MaxEnds
    /\ \E H \in SUBSET Hashes : stored \in [H -> Contents]

\* No more agents run than there are slots, sessions that are being torn down
\* included: a slot is free only once the agent of its session has ended
\* (README.md: "concurrent session cap").  Agents left by an earlier process are
\* on their own.
AgentsBounded ==
    MaxSessions > 0 => Cardinality({c \in Conns : agent[c] = "running"}) <= MaxSessions

\* Materialize finds every blob of the manifest once the client has uploaded what
\* StartSession said was missing, although other sessions store blobs between the
\* calls of Has, and processes end in the middle of storing them.
BlobsThere == \A c \in Conns : pc[c] = "get" => need[c] \subseteq DOMAIN stored

\* Slots come back: once every client has gone, the only slots that are not free again
\* are those of sessions whose claude has still not ended, for which Close is waiting.
SlotsComeBack ==
    (\A c \in Conns : ~here[c]) ~>
        \/ \E c \in Conns : here[c]
        \/ slots = Cardinality({c \in Conns : pc[c] = "close" /\ agent[c] = "running"})
=============================================================================
