--------------------------- MODULE AnyClientProofs ---------------------------
(***************************************************************************)
(* What the server's side of a connection guarantees under every client,   *)
(* for any number of prompts, channel sizes, files and contents.           *)
(***************************************************************************)
EXTENDS AnyClient, SessionProofs

(* Types *)

\* The client and the network keep the types.
LEMMA ClientTypes ==
    TypeOK /\ (ClientWrites \/ ClientTakes \/ ConnectionLost) => TypeOK'
<1> SUFFICES ASSUME TypeOK, ClientWrites \/ ClientTakes \/ ConnectionLost PROVE TypeOK'
  OBVIOUS
<1>1. AgentTypeOK' /\ SessionTypeOK'
  BY AgentSame, SessionSame DEF TypeOK, ClientWrites, ClientTakes, ConnectionLost
<1>2. WireTypeOK /\ WireCap \in Nat
  BY WireAssumption DEF TypeOK
<1>3. ASSUME ClientWrites PROVE WireTypeOK'
  <2>1. PICK m \in ClientMessages : Len(c2s) < WireCap /\ c2s' = Append(c2s, m)
    BY <1>3 DEF ClientWrites, ClientSends
  <2>2. c2s' \in Seq(ClientMessages) /\ Len(c2s') <= WireCap
    BY <1>2, <2>1, AppendBounded DEF WireTypeOK
  <2> QED BY <1>2, <1>3, <2>2 DEF ClientWrites, WireTypeOK
<1>4. ASSUME ClientTakes PROVE WireTypeOK'
  <2>1. s2c' \in Seq(ServerMessages) /\ Len(s2c') <= WireCap
    BY <1>2, <1>4, TailBounded DEF ClientTakes, WireTypeOK
  <2> QED BY <1>2, <1>4, <2>1 DEF ClientTakes, WireTypeOK
<1>5. ASSUME ConnectionLost PROVE WireTypeOK'
  <2>1. connUp' \in BOOLEAN /\ c2s' = c2s /\ s2c' = s2c
    BY <1>5 DEF ConnectionLost, ConnLost
  <2> QED BY <1>2, <2>1 DEF WireTypeOK
<1>6. WireTypeOK'
  BY <1>3, <1>4, <1>5
<1> QED BY <1>1, <1>6 DEF TypeOK

\* Every step keeps the types.
LEMMA NextTypes == TypeOK /\ [Next]_vars => TypeOK'
<1> SUFFICES ASSUME TypeOK, [Next]_vars PROVE TypeOK'
  OBVIOUS
<1>1. CASE UNCHANGED vars
  BY <1>1, WireSame, AgentSame, SessionSame DEF vars, serverVars, TypeOK
<1> QED BY <1>1, ServerTypes, ClientTypes DEF Next

\* Under any client, the queues stay within their capacities and everything in
\* flight, in the store and in the goroutines' hands has its type.
THEOREM AnyClientTypeCorrect == Spec => []TypeOK
<1>1. Init => TypeOK
  BY InitTypes DEF Init
<1> QED BY <1>1, NextTypes, PTL DEF Spec

\* Under any client, however many calls of HandlePrompt wait at the same time,
\* they return without error at most once for each turn that finishTurn finished.
THEOREM OneReturnPerTurnCorrect == Spec => []OneReturnPerTurn
<1>1. Init => ReturnInv
  BY InitReturns DEF Init
<1>2. TypeOK /\ ReturnInv /\ [Next]_vars => ReturnInv'
  <2> SUFFICES ASSUME TypeOK, ReturnInv, [Next]_vars PROVE ReturnInv'
    OBVIOUS
  <2>1. CASE ServerStep \/ SubprocessStep
    BY <2>1, ServerReturns
  <2>2. CASE ~(ServerStep \/ SubprocessStep)
    <3>1. UNCHANGED sessionVars
      BY <2>2 DEF Next, ClientWrites, ClientTakes, ConnectionLost, vars, serverVars
    <3>2. UNCHANGED <<hp, turnDone, pump, finished>>
      BY <3>1 DEF sessionVars, turnVars, promptVars, pumpVars
    <3> QED BY <3>2 DEF ReturnInv, Returned, Waiting, InHand
  <2> QED BY <2>1, <2>2
<1>3. TypeOK /\ ReturnInv => OneReturnPerTurn
  BY ReturnsBalance
<1> QED BY <1>1, <1>2, <1>3, AnyClientTypeCorrect, PTL DEF Spec

-----------------------------------------------------------------------------
(* Workspace and process *)

\* From the moment Close has taken agent and workspace.
Closing == {"stop", "wait", "remove", "returned"}

\* Who is answerable for the workspace and for the process.  While the session
\* lives it is the Service, from CloseTakes on it is Close, and nothing is
\* released before it has been disposed of.
CloseInv ==
    /\ svcWs \in BOOLEAN /\ svcAgent \in BOOLEAN
    /\ closeWs \in BOOLEAN /\ closeAgent \in BOOLEAN
    /\ wsExists \in BOOLEAN
    /\ wsExists => svcWs \/ closeWs
    /\ Running => (svcAgent \/ closeAgent) /\ wsExists
    /\ closeWs \/ closeAgent => handler \in Closing
    /\ handler \in Closing => ~svcWs /\ ~svcAgent
    /\ handler \in {"remove", "returned"} => ~Running
    /\ handler = "returned" => ~wsExists

\* The variables CloseInv is about.
ownVars == <<handler, svcWs, svcAgent, closeWs, closeAgent, wsExists, proc>>

\* A step that touches none of these variables keeps CloseInv.
LEMMA CloseInvUnchanged == CloseInv /\ UNCHANGED ownVars => CloseInv'
BY DEF CloseInv, ownVars, Running

\* dispatch moves between its own states without touching what Close is for.
LEMMA DispatchClose ==
    ASSUME CloseInv, handler \notin Closing, handler' \notin Closing,
           UNCHANGED <<svcWs, svcAgent, closeWs, closeAgent, wsExists, proc>>
    PROVE  CloseInv'
BY DEF CloseInv, Running, Closing

\* SyncDone gives what it brings up to the Service, also where it fails half-way.
LEMMA SyncDoneClose == CloseInv /\ DispatchSyncDone => CloseInv'
<1> SUFFICES ASSUME CloseInv, DispatchSyncDone PROVE CloseInv'
  OBVIOUS
<1>1. handler = "dispatch" /\ closeWs' = closeWs /\ closeAgent' = closeAgent
  BY DEF DispatchSyncDone, closeVars
<1>2. CASE SyncDoneAgain
  BY <1>1, <1>2, DispatchClose
     DEF SyncDoneAgain, Closing, agentVars, dirVars, procVars
<1>3. CASE SyncDoneStarts
  BY <1>1, <1>3 DEF SyncDoneStarts, StartProcess, CloseInv, Closing, Running
<1>4. CASE SyncDoneNoWorkspace
  BY <1>1, <1>4, DispatchClose
     DEF SyncDoneNoWorkspace, DispatchFails, Closing, agentVars, dirVars, procVars
<1>5. CASE SyncDoneNoAgent
  BY <1>1, <1>5 DEF SyncDoneNoAgent, DispatchFails, CloseInv, Closing, Running, procVars
<1> QED BY <1>2, <1>3, <1>4, <1>5 DEF DispatchSyncDone

\* The handler keeps CloseInv: dispatch, hanging up and Close.
LEMMA HandlerClose == CloseInv /\ HandlerStep => CloseInv'
<1> SUFFICES ASSUME CloseInv, HandlerStep PROVE CloseInv'
  OBVIOUS
<1> USE DEF svcVars, closeVars, agentVars, dirVars, procVars
<1>1. CASE DispatchStart
  BY <1>1, DispatchClose DEF DispatchStart, DispatchFails, Closing
<1>2. CASE DispatchBlob
  BY <1>2, DispatchClose DEF DispatchBlob, DispatchFails, Closing
<1>3. CASE DispatchSyncDone
  BY <1>3, SyncDoneClose
<1>4. CASE DispatchReady
  BY <1>4, DispatchClose DEF DispatchReady, Closing
<1>5. CASE DispatchPrompt
  BY <1>5, CloseInvUnchanged DEF DispatchPrompt, ownVars
<1>6. CASE DispatchInterrupt
  BY <1>6, CloseInvUnchanged DEF DispatchInterrupt, ownVars
<1>7. CASE DispatchUnknown
  BY <1>7, CloseInvUnchanged DEF DispatchUnknown, ownVars
<1>8. CASE DispatchReturns
  BY <1>8, DispatchClose DEF DispatchReturns, Closing
<1>9. CASE HangUp
  BY <1>9, DispatchClose DEF HangUp, Closing
<1>10. CASE CloseTakes
  BY <1>10 DEF CloseTakes, CloseInv, Closing, Running
<1>11. CASE CloseStopsAgent
  BY <1>11 DEF CloseStopsAgent, CloseStdin, CloseInv, Closing, Running
<1>12. CASE CloseWaits
  BY <1>12 DEF CloseWaits, WaitReturns, CloseInv, Closing, Running
<1>13. CASE CloseRemoves
  BY <1>13 DEF CloseRemoves, CloseInv, Closing, Running
<1> QED BY <1>1, <1>2, <1>3, <1>4, <1>5, <1>6, <1>7, <1>8, <1>9, <1>10, <1>11, <1>12,
           <1>13 DEF HandlerStep

\* HandlePrompt neither owns nor releases anything.
LEMMA PromptClose ==
    ASSUME NEW i \in 1..MaxPrompts
    PROVE  CloseInv /\ PromptStep(i) => CloseInv'
<1> SUFFICES ASSUME PromptStep(i) PROVE UNCHANGED ownVars
  BY CloseInvUnchanged
<1> USE DEF ownVars, svcVars, closeVars, agentVars, dirVars, procVars
<1>1. CASE PromptStart(i)
  BY <1>1 DEF PromptStart
<1>2. CASE PromptSnapshot(i)
  BY <1>2 DEF PromptSnapshot
<1>3. CASE PromptBaseline(i)
  BY <1>3 DEF PromptBaseline
<1>4. CASE PromptDrain(i)
  BY <1>4 DEF PromptDrain
<1>5. CASE PromptSend(i)
  BY <1>5 DEF PromptSend, SendPrompt
<1>6. CASE PromptWait(i)
  BY <1>6 DEF PromptWait
<1> QED BY <1>1, <1>2, <1>3, <1>4, <1>5, <1>6 DEF PromptStep

\* Nor does the pump, even where it panics.
LEMMA PumpClose == CloseInv /\ PumpStep => CloseInv'
<1> SUFFICES ASSUME PumpStep PROVE UNCHANGED ownVars
  BY CloseInvUnchanged
<1> USE DEF ownVars, svcVars, closeVars, agentVars, dirVars, procVars
<1>1. CASE PumpReceive
  BY <1>1 DEF PumpReceive
<1>2. CASE PumpSnapshot
  BY <1>2 DEF PumpSnapshot
<1>3. CASE PumpDiff
  BY <1>3 DEF PumpDiff
<1>4. CASE PumpPush
  BY <1>4 DEF PumpPush
<1>5. CASE PumpAdvance
  BY <1>5 DEF PumpAdvance
<1>6. CASE PumpTurnDone
  BY <1>6 DEF PumpTurnDone
<1>7. CASE PumpSignal
  BY <1>7 DEF PumpSignal
<1> QED BY <1>1, <1>2, <1>3, <1>4, <1>5, <1>6, <1>7 DEF PumpStep

\* The process only ever goes from idle to busy and back, or exits.
LEMMA ProcessClose ==
    CloseInv /\ (ClaudeStep \/ ReadLoopStep) /\ UNCHANGED sessionVars => CloseInv'
<1> SUFFICES ASSUME CloseInv, ClaudeStep \/ ReadLoopStep, UNCHANGED sessionVars
             PROVE  CloseInv'
  OBVIOUS
<1> USE DEF dirVars, procVars
<1>1. UNCHANGED <<handler, svcWs, svcAgent, closeWs, closeAgent>>
  BY DEF sessionVars, svcVars, closeVars
<1>2. wsExists' = wsExists
  BY DEF ClaudeStep, ReadLoopStep, ClaudeBegins, ClaudeEdits, BackgroundEdits, ClaudePrints,
         ClaudeEndsTurn, ClaudeExits, ClaudeCrashes, ReadLine, ReadEOF
<1>3. Running' => Running
  BY DEF ClaudeStep, ReadLoopStep, ClaudeBegins, ClaudeEdits, BackgroundEdits, ClaudePrints,
         ClaudeEndsTurn, ClaudeExits, ClaudeCrashes, ReadLine, ReadEOF, Running
<1> QED BY <1>1, <1>2, <1>3 DEF CloseInv

\* Nothing exists at the start, so nobody is answerable for anything.
LEMMA InitClose == Init => CloseInv
BY DEF Init, AgentInit, SessionInit, CloseInv, Closing, Running

\* CloseInv is inductive.
LEMMA NextClose == CloseInv /\ [Next]_vars => CloseInv'
<1> SUFFICES ASSUME CloseInv, [Next]_vars PROVE CloseInv'
  OBVIOUS
<1> USE DEF sessionVars, svcVars, closeVars, agentVars, dirVars, procVars
<1>1. CASE ServerStep
  BY <1>1, HandlerClose, PromptClose, PumpClose, ProcessClose DEF ServerStep
<1>2. CASE SubprocessStep
  BY <1>2, ProcessClose DEF SubprocessStep
<1>3. CASE ClientWrites
  BY <1>3, CloseInvUnchanged DEF ClientWrites, ownVars
<1>4. CASE ClientTakes
  BY <1>4, CloseInvUnchanged DEF ClientTakes, ownVars
<1>5. CASE ConnectionLost
  BY <1>5, CloseInvUnchanged DEF ConnectionLost, ownVars
<1>6. CASE UNCHANGED vars
  BY <1>6, CloseInvUnchanged DEF vars, serverVars, ownVars
<1> QED BY <1>1, <1>2, <1>3, <1>4, <1>5, <1>6 DEF Next

\* Whatever the client does and wherever SyncDone fails, when the handler of a
\* connection has returned its workspace is removed and its process has exited.
THEOREM NoLeakCorrect == Spec => []NoLeak
<1>1. CloseInv => NoLeak
  BY DEF CloseInv, NoLeak
<1> QED BY InitClose, NextClose, <1>1, PTL DEF Spec

\* The process never runs without the workspace it was started in: Close waits
\* for it before it removes the directory.
THEOREM WorkspaceCorrect == Spec => []AgentHasWorkspace
<1>1. CloseInv => AgentHasWorkspace
  BY DEF CloseInv, AgentHasWorkspace
<1> QED BY InitClose, NextClose, <1>1, PTL DEF Spec
-----------------------------------------------------------------------------
(* Only the agent edits, and it starts from the manifest. *)

\* The steps that change files while the Service has an agent are the agent's.
LEMMA EditsAreTheAgents ==
    CloseInv /\ Next => (svcAgent /\ files' # files => Running /\ proc' = proc /\ svcAgent')
<1> SUFFICES ASSUME CloseInv, Next, svcAgent, files' # files
             PROVE  Running /\ proc' = proc /\ svcAgent'
  OBVIOUS
<1> USE DEF svcVars, agentVars, dirVars, procVars, sessionVars
<1>1. CASE ServerStep
  <2>1. CASE HandlerStep
    BY <2>1 DEF HandlerStep, DispatchStart, DispatchBlob, DispatchSyncDone, DispatchReady,
         DispatchPrompt, DispatchInterrupt, DispatchUnknown, DispatchReturns, HangUp,
         CloseTakes, CloseStopsAgent, CloseWaits, CloseRemoves, SyncDoneAgain,
         SyncDoneStarts, SyncDoneNoWorkspace, SyncDoneNoAgent, CloseInv, Closing
  <2>2. ASSUME NEW i \in 1..MaxPrompts, PromptStep(i) PROVE files' = files
    BY <2>2 DEF PromptStep, PromptStart, PromptSnapshot, PromptBaseline, PromptDrain,
         PromptSend, PromptWait
  <2>3. CASE PumpStep
    BY <2>3 DEF PumpStep, PumpReceive, PumpSnapshot, PumpDiff, PumpPush, PumpAdvance,
         PumpTurnDone, PumpSignal
  <2>4. CASE ReadLoopStep
    BY <2>4 DEF ReadLoopStep, ReadLine, ReadEOF
  <2> QED BY <1>1, <2>1, <2>2, <2>3, <2>4 DEF ServerStep
<1>2. CASE SubprocessStep
  BY <1>2 DEF SubprocessStep, ClaudeStep, ClaudeBegins, ClaudeEdits, BackgroundEdits,
       ClaudePrints, ClaudeEndsTurn, ClaudeExits, ClaudeCrashes, Running
<1>3. CASE ClientWrites \/ ClientTakes \/ ConnectionLost
  BY <1>3 DEF ClientWrites, ClientTakes, ConnectionLost
<1> QED BY <1>1, <1>2, <1>3 DEF Next

\* While the Service has an agent, no message of the client and no step of the
\* server changes the workspace; in particular a repeated sync.done does not.
THEOREM OnlyAgentEditsCorrect == Spec => OnlyAgentEdits
<1>1. CloseInv /\ [Next]_vars
      => [svcAgent /\ files' # files => Running /\ proc' = proc /\ svcAgent']_serverVars
  BY EditsAreTheAgents DEF vars
<1> QED BY InitClose, NextClose, <1>1, PTL DEF Spec, OnlyAgentEdits

\* The store stays intact under any client.
LEMMA NextIntact == Intact(blobs) /\ [Next]_vars => Intact(blobs)'
<1> SUFFICES ASSUME Intact(blobs), [Next]_vars PROVE Intact(blobs')
  BY DEF Intact
<1>1. CASE ServerStep \/ SubprocessStep
  BY <1>1, StoreIntact DEF Intact
<1>2. CASE ClientWrites \/ ClientTakes \/ ConnectionLost \/ UNCHANGED vars
  BY <1>2 DEF ClientWrites, ClientTakes, ConnectionLost, vars, serverVars, sessionVars, svcVars
<1> QED BY <1>1, <1>2 DEF Next

\* An agent starts in exactly the files the manifest lists, whatever the client
\* uploaded: every blob of the store has the hash it is stored under.
THEOREM StartsFromManifestCorrect == Spec => StartsFromManifest
<1> DEFINE Listed ==
        ~svcAgent /\ svcAgent' =>
            /\ DOMAIN files' = DOMAIN manifest
            /\ \A p \in DOMAIN manifest : Hash[files'[p].content] = manifest[p].hash
<1>1. Init => Intact(blobs)
  BY DEF Init, SessionInit
<1>2. Intact(blobs) /\ [Next]_vars => Listed
  <2> SUFFICES ASSUME Intact(blobs), [Next]_vars, ~svcAgent, svcAgent' PROVE Listed
    OBVIOUS
  <2>1. CASE ServerStep \/ SubprocessStep
    BY <2>1, AgentStarts
  <2>2. CASE ClientWrites \/ ClientTakes \/ ConnectionLost \/ UNCHANGED vars
    BY <2>2 DEF ClientWrites, ClientTakes, ConnectionLost, vars, serverVars, sessionVars, svcVars
  <2> QED BY <2>1, <2>2 DEF Next
<1>3. Intact(blobs) /\ [Next]_vars => [Listed]_serverVars
  BY <1>2
<1> QED BY <1>1, <1>3, NextIntact, PTL DEF Spec, StartsFromManifest
=============================================================================
