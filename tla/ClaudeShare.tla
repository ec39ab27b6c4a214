----------------------------- MODULE ClaudeShare -----------------------------
(***************************************************************************)
(* The whole of one session: the shipped client (ClientApp), the           *)
(* connection (Wire), the server's side of it (Session) and the agent      *)
(* (Agent), each goroutine and process taking its steps independently.     *)
(***************************************************************************)
EXTENDS Session, ClientApp

ASSUME PromptAssumption == UserPrompts <= MaxPrompts

vars == <<serverVars, clientVars>>

Init == WireInit /\ AgentInit /\ SessionInit /\ ClientInit

Server == ServerStep /\ UNCHANGED clientVars
Subprocess == SubprocessStep /\ UNCHANGED clientVars
Client == ClientStep /\ UNCHANGED <<agentVars, sessionVars>>
Network == ConnLost /\ UNCHANGED <<agentVars, sessionVars, clientVars>>

Next == Server \/ Subprocess \/ Client \/ Network

Spec == Init /\ [][Next]_vars

\* A turn leaves no file where the project has a directory, and none that the
\* client ignores: where it does, Apply or the next walk cannot follow it
\* (TurnSync's AgentReplacesDirs and AgentWritesIgnored).
TurnsKeepClear ==
    pump.pc = "diff" =>
        /\ DOMAIN pump.after \cap local.dirs = {}
        /\ \A p \in DOMAIN pump.after : Visible(p, Ignored)

\* The sessions in which every turn does so.
ClearSpec == Init /\ [][Next /\ TurnsKeepClear']_vars

-----------------------------------------------------------------------------
(* Fairness.  Goroutines are scheduled; a read from a closed connection      *)
(* returns; claude, unless it crashes, takes up a prompt, ends its turn and  *)
(* exits at the end of its input.  Nothing obliges the user, the network or  *)
(* claude's chatter and edits.                                               *)

ServerGoes(A) == ~panicked /\ A /\ UNCHANGED clientVars
ClientGoes(A) == A /\ UNCHANGED <<agentVars, sessionVars>>
ClaudeGoes(A) == A /\ UNCHANGED <<wireVars, sessionVars, clientVars>>

Fairness ==
    /\ WF_vars(ServerGoes(HandlerStep))
    /\ \A i \in 1..MaxPrompts : WF_vars(ServerGoes(PromptStep(i)))
    /\ WF_vars(ServerGoes(PumpStep))
    /\ WF_vars(ServerGoes(ReadLoopStep /\ UNCHANGED <<wireVars, sessionVars>>))
    /\ WF_vars(ClientGoes(MainStep /\ client # "repl"))
    /\ WF_vars(ClientGoes(ReaderStep))
    /\ WF_vars(ClaudeGoes(ClaudeBegins))
    /\ WF_vars(ClaudeGoes(ClaudeEndsTurn))
    /\ WF_vars(ClaudeGoes(ClaudeExits))

FairSpec == Spec /\ Fairness

-----------------------------------------------------------------------------
AnyClientServer == INSTANCE AnyClient

\* The shipped client is one of the clients of AnyClient, so what is proved there
\* of the server's side holds here.
ImplementsAnyClient == AnyClientServer!Spec

\* When the client is back at its prompt, the local project and the server's
\* workspace hold the same files: the upload, every turn's diff and the order
\* in which changes, turn.done and the completion signal travel through pump,
\* connection, readLoop and REPL leave no change behind.
SyncedAtPrompt == client = "repl" /\ svcWs /\ edits = 0 => SameFiles(local, files)

\* Service.preTurn needs no lock with this client: HandlePrompt never writes the
\* baseline while finishTurn is between its snapshot and moving the baseline on,
\* because the next prompt waits for a turn.done that is sent after both.
NoBaselineRace ==
    \A i \in 1..MaxPrompts :
        hp[i].pc = "base" => pump.pc \notin {"snap", "diff", "push"}

\* The agent starts in exactly the project the client listed, whatever happened
\* to the local files between listing and uploading them.
StartsFromListed ==
    [][~svcAgent /\ svcAgent' =>
        /\ DOMAIN files' = DOMAIN listed
        /\ \A p \in DOMAIN listed : Hash[files'[p].content] = listed[p].hash]_vars

\* The sync handshake ends: every failure on either side reaches the client.
HandshakeEnds == client = "hello" ~> client \in {"repl", "exit"}

\* The error of a finishTurn found the completion channel full of an earlier turn's
\* signal, and pump dropped it: it is neither in the channel nor in pump's hand, nobody
\* has reported it, and while one HandlePrompt took that signal another still waits.
ErrorDropped ==
    /\ pump.err
    /\ pump.pc # "signal"
    /\ turnDone = "empty"
    /\ \A i \in 1..MaxPrompts : hp[i].pc # "failed"
    /\ \E i, j \in 1..MaxPrompts : hp[i].pc = "ok" /\ hp[j].pc = "wait"

\* A turn ends for the user: the client gets back to its prompt or exits.  While
\* the connection is up, only four failures can keep it waiting, because nothing
\* sends turn.done after them: claude has died, pump has given up on an event that
\* does not fit a record, a HandlePrompt has failed and said so, or its error was
\* dropped.  A slow pump or client, with every queue full, is not among them.
TurnEnds ==
    client = "turn" ~>
        \/ client \in {"repl", "exit"}
        \/ /\ connUp
           /\ \/ ~Running
              \/ pump.pc = "stopped"
              \/ \E i \in 1..MaxPrompts : hp[i].pc = "failed"
              \/ ErrorDropped

\* claude is in a turn and blocked on its output for good: the pipe is full, readLoop
\* waits for room in the event channel, and pump, its only reader, has returned.
OutputBlocked ==
    /\ proc = "busy"
    /\ Len(pipe) = PipeCap
    /\ Len(events) = EventCap
    /\ pump.pc = "stopped"

\* Once the client has gone, its session is torn down and its slot released, unless
\* the process dies of a panic, which ends every session, or Close waits for a
\* claude that nobody reads from any more.
SessionEnds ==
    client = "exit" ~>
        \/ handler = "returned"
        \/ panicked
        \/ handler = "wait" /\ OutputBlocked

(* What a comment in claudecli.go says, and the code does not do. *)

\* agent.Close does not wait forever for a subprocess that does not exit.
CloseReturns == handler = "wait" ~> handler # "wait" \/ panicked
=============================================================================
