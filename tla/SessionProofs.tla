---------------------------- MODULE SessionProofs ---------------------------
(***************************************************************************)
(* What the server's side of a connection keeps by itself, whatever the    *)
(* client sends: the types and capacities of its queues, channels and      *)
(* goroutines, and one return of HandlePrompt for each finished turn.      *)
(***************************************************************************)
EXTENDS Session, FileTreeProofs, FiniteSetTheorems

(* Queues *)

\* Appending to a queue that is not full keeps its type and its bound.
LEMMA AppendBounded ==
    ASSUME NEW S, NEW q \in Seq(S), NEW e \in S, NEW cap \in Nat, Len(q) < cap
    PROVE  Append(q, e) \in Seq(S) /\ Len(Append(q, e)) <= cap
OBVIOUS

\* So does taking the first element, which has the type of the elements.
LEMMA TailBounded ==
    ASSUME NEW S, NEW q \in Seq(S), NEW cap \in Nat, Len(q) <= cap, q # <<>>
    PROVE  Head(q) \in S /\ Tail(q) \in Seq(S) /\ Len(Tail(q)) <= cap
OBVIOUS

\* So does cutting the queue off.
LEMMA PrefixBounded ==
    ASSUME NEW S, NEW q \in Seq(S), NEW cap \in Nat, Len(q) <= cap, NEW n \in 0..Len(q)
    PROVE  SubSeq(q, 1, n) \in Seq(S) /\ Len(SubSeq(q, 1, n)) <= cap
OBVIOUS

(* What stays as it is stays well typed. *)

\* The connection.
LEMMA WireSame == WireTypeOK /\ UNCHANGED wireVars => WireTypeOK'
BY DEF WireTypeOK, wireVars

\* The agent.
LEMMA AgentSame == AgentTypeOK /\ UNCHANGED agentVars => AgentTypeOK'
BY DEF AgentTypeOK, agentVars, procVars, streamVars, dirVars

\* The service.
LEMMA SessionSame == SessionTypeOK /\ UNCHANGED sessionVars => SessionTypeOK'
BY DEF SessionTypeOK, sessionVars, svcVars, turnVars, closeVars, promptVars, pumpVars

(* The wire *)

\* error is a message of the protocol.
LEMMA ErrorIsMessage == ErrorMsg \in ServerMessages
BY DEF ErrorMsg, ServerMessages

\* Sending a message of the protocol, or losing it, keeps the connection typed.
LEMMA SendKeepsWire ==
    ASSUME WireTypeOK, NEW m \in ServerMessages, ServerTries(m), UNCHANGED <<c2s, connUp>>
    PROVE  WireTypeOK'
BY AppendBounded, WireAssumption DEF WireTypeOK, ServerTries, ServerSends

\* So does taking one.
LEMMA ReadKeepsWire ==
    ASSUME WireTypeOK, NEW t, ServerReads(t), UNCHANGED <<s2c, connUp>>
    PROVE  WireTypeOK'
BY TailBounded, WireAssumption DEF WireTypeOK, ServerReads

\* A message is taken and an answer sent in one step.
LEMMA AnswerKeepsWire ==
    ASSUME WireTypeOK, NEW t, ServerReads(t), NEW m \in ServerMessages, ServerTries(m),
           UNCHANGED connUp
    PROVE  WireTypeOK'
<1>1. c2s' \in Seq(ClientMessages) /\ Len(c2s') <= WireCap
  BY TailBounded, WireAssumption DEF WireTypeOK, ServerReads
<1>2. s2c' \in Seq(ServerMessages) /\ Len(s2c') <= WireCap
  BY AppendBounded, WireAssumption DEF WireTypeOK, ServerTries, ServerSends
<1> QED BY <1>1, <1>2 DEF WireTypeOK

\* A message taken off the connection has the fields of its type.
LEMMA MessageRead ==
    ASSUME WireTypeOK, NEW t, ServerReads(t)
    PROVE  /\ t = "session.start" => Head(c2s).manifest \in Manifests
           /\ t = "blob" => Head(c2s).hash \in Hashes /\ Head(c2s).content \in Contents
<1>1. Head(c2s) \in ClientMessages /\ Head(c2s).type = t
  BY TailBounded, WireAssumption DEF WireTypeOK, ServerReads
<1> QED BY <1>1 DEF ClientMessages

(* The goroutines' records *)

\* A HandlePrompt goroutine moves on.
LEMMA PromptPc ==
    ASSUME SessionTypeOK, NEW i \in 1..MaxPrompts, NEW x \in PromptStates,
           hp' = [hp EXCEPT ![i].pc = x]
    PROVE  hp' \in [1..MaxPrompts -> PromptType]
BY DEF SessionTypeOK, PromptType

\* The pump moves on.
LEMMA PumpPc ==
    ASSUME SessionTypeOK, NEW x \in PumpStates, PumpGoes(x)
    PROVE  pump' \in PumpType
BY DEF SessionTypeOK, PumpType, PumpGoes

\* finishTurn returns.
LEMMA FinishTurnType ==
    ASSUME SessionTypeOK, NEW b \in BOOLEAN, FinishTurn(b)
    PROVE  pump' \in PumpType /\ finished' \in Nat
<1>1. pump \in PumpType /\ finished \in Nat
  BY DEF SessionTypeOK
<1>2. /\ pump' = [pump EXCEPT !.pc = "signal", !.err = b, !.todo = {}]
      /\ finished' = finished + 1
  BY DEF FinishTurn
<1>3. "signal" \in PumpStates /\ {} \in SUBSET Changes
  BY DEF PumpStates
<1>4. pump' \in PumpType
  <2>1. pump' = [pc |-> "signal", after |-> pump.after, todo |-> {}, err |-> b]
    BY <1>1, <1>2 DEF PumpType
  <2>2. pump.after \in Manifests
    BY <1>1 DEF PumpType
  <2> QED BY <1>3, <2>1, <2>2 DEF PumpType
<1> QED BY <1>1, <1>2, <1>4

(* The trees *)

\* An edit of the agent yields a tree.
LEMMA EditType == files \in Trees /\ EditOne => files' \in Trees
<1> SUFFICES ASSUME files \in Trees, EditOne PROVE files' \in Trees
  OBVIOUS
<1>1. PICK p \in Paths : \/ \E f \in FileEntry : files' = Put(files, p, f)
                         \/ files' = Restrict(files, DOMAIN files \ {p})
  BY DEF EditOne
<1>2. ASSUME NEW f \in FileEntry PROVE Put(files, p, f) \in Trees
  BY PutType DEF Trees
<1>3. Restrict(files, DOMAIN files \ {p}) \in Trees
  BY RestrictType DEF Trees
<1> QED BY <1>1, <1>2, <1>3

\* Materialize yields a tree when the store has every blob.
LEMMA MaterializeAll ==
    ASSUME NEW m \in Manifests, NEW b \in Blobs, CanMaterialize(m, b)
    PROVE  Materialize(m, b) \in Trees
<1>1. Materialize(m, b) = Restrict(Materialize(m, b), DOMAIN m)
  BY DEF Materialize, Restrict
<1>2. \A p \in DOMAIN m : m[p].hash \in DOMAIN b
  BY DEF CanMaterialize
<1> QED BY <1>1, <1>2, MaterializeType

\* Snapshot yields a manifest.
LEMMA SnapshotType == files \in Trees => Snapshot(files) \in Manifests
BY WalkType DEF Snapshot
-----------------------------------------------------------------------------
(* The handler goroutine *)

\* SyncDone keeps the types, in each of its four outcomes.
LEMMA SyncDoneTypes == TypeOK /\ DispatchSyncDone => TypeOK'
<1> SUFFICES ASSUME TypeOK, DispatchSyncDone PROVE TypeOK'
  OBVIOUS
<1>1. WireTypeOK /\ AgentTypeOK /\ SessionTypeOK
  BY DEF TypeOK
<1>2. /\ ServerReads("sync.done") /\ UNCHANGED <<connUp, manifest, blobs>>
      /\ UNCHANGED <<turnVars, closeVars, promptVars, finished, panicked>>
  BY DEF DispatchSyncDone
<1>3. CASE SyncDoneAgain
  <2>1. WireTypeOK'
    BY <1>1, <1>2, <1>3, ReadKeepsWire DEF SyncDoneAgain
  <2>2. AgentTypeOK'
    BY <1>1, <1>3, AgentSame DEF SyncDoneAgain
  <2>3. handler' = "ready" /\ UNCHANGED <<svcWs, svcAgent, pump>>
    BY <1>3 DEF SyncDoneAgain
  <2>4. SessionTypeOK'
    BY <1>1, <1>2, <2>3 DEF SessionTypeOK, HandlerStates, turnVars, closeVars, promptVars
  <2> QED BY <2>1, <2>2, <2>4 DEF TypeOK
<1>4. CASE SyncDoneStarts
  <2>1. WireTypeOK'
    BY <1>1, <1>2, <1>4, ReadKeepsWire DEF SyncDoneStarts
  <2>2. files' \in Trees
    BY <1>1, <1>4, MaterializeAll DEF SyncDoneStarts, SessionTypeOK
  <2>3. AgentTypeOK'
    <3>1. StartProcess /\ wsExists' = TRUE
      BY <1>4 DEF SyncDoneStarts
    <3>2. <<>> \in Seq(Lines) /\ <<>> \in Seq(Events) /\ Len(<<>>) = 0
      OBVIOUS
    <3>3. EventCap \in Nat /\ PipeCap \in Nat /\ MaxChatter \in Nat
      BY AgentAssumption
    <3>4. /\ pipe' \in Seq(Lines) /\ Len(pipe') <= PipeCap
          /\ events' \in Seq(Events) /\ Len(events') <= EventCap
      BY <3>1, <3>2, <3>3 DEF StartProcess
    <3>5. stdin' \in Nat /\ chatter' \in 0..MaxChatter
      BY <3>1, <3>3 DEF StartProcess
    <3>6. stdinOpen' \in BOOLEAN /\ eventsClosed' \in BOOLEAN /\ wsExists' \in BOOLEAN
      BY <3>1 DEF StartProcess
    <3> QED BY <2>2, <3>1, <3>4, <3>5, <3>6 DEF StartProcess, AgentTypeOK
  <2>4. pump' \in PumpType
    BY <1>1, <1>4, PumpPc DEF SyncDoneStarts, PumpGoes, PumpStates
  <2>5. SessionTypeOK'
    BY <1>1, <1>2, <1>4, <2>4
       DEF SyncDoneStarts, SessionTypeOK, HandlerStates, turnVars, closeVars, promptVars
  <2> QED BY <2>1, <2>3, <2>5 DEF TypeOK
<1>5. CASE SyncDoneNoWorkspace
  <2>1. WireTypeOK'
    BY <1>1, <1>2, <1>5, AnswerKeepsWire, ErrorIsMessage DEF SyncDoneNoWorkspace, DispatchFails
  <2>2. AgentTypeOK'
    BY <1>1, <1>5, AgentSame DEF SyncDoneNoWorkspace
  <2>3. SessionTypeOK'
    BY <1>1, <1>2, <1>5
       DEF SyncDoneNoWorkspace, DispatchFails, SessionTypeOK, HandlerStates, turnVars,
           closeVars, promptVars
  <2> QED BY <2>1, <2>2, <2>3 DEF TypeOK
<1>6. CASE SyncDoneNoAgent
  <2>1. WireTypeOK'
    BY <1>1, <1>2, <1>6, AnswerKeepsWire, ErrorIsMessage DEF SyncDoneNoAgent, DispatchFails
  <2>2. files' \in Trees
    <3>1. PICK S \in SUBSET {p \in DOMAIN manifest : manifest[p].hash \in DOMAIN blobs} :
            files' = Restrict(Materialize(manifest, blobs), S)
      BY <1>6 DEF SyncDoneNoAgent
    <3>2. manifest \in Manifests /\ blobs \in Blobs
      BY <1>1 DEF SessionTypeOK
    <3>3. S \in SUBSET DOMAIN manifest /\ \A p \in S : manifest[p].hash \in DOMAIN blobs
      OBVIOUS
    <3> QED BY <3>1, <3>2, <3>3, MaterializeType
  <2>3. AgentTypeOK'
    BY <1>1, <1>6, <2>2 DEF SyncDoneNoAgent, AgentTypeOK, procVars, streamVars
  <2>4. SessionTypeOK'
    BY <1>1, <1>2, <1>6
       DEF SyncDoneNoAgent, DispatchFails, SessionTypeOK, HandlerStates, turnVars,
           closeVars, promptVars
  <2> QED BY <2>1, <2>3, <2>4 DEF TypeOK
<1> QED BY <1>3, <1>4, <1>5, <1>6 DEF DispatchSyncDone

\* The other messages keep the types.
LEMMA DispatchTypes ==
    /\ TypeOK
    /\ \/ DispatchStart \/ DispatchBlob \/ DispatchReady \/ DispatchPrompt
       \/ DispatchInterrupt \/ DispatchUnknown \/ DispatchReturns
    => TypeOK'
<1> SUFFICES ASSUME TypeOK,
                    \/ DispatchStart \/ DispatchBlob \/ DispatchReady \/ DispatchPrompt
                    \/ DispatchInterrupt \/ DispatchUnknown \/ DispatchReturns
             PROVE  TypeOK'
  OBVIOUS
<1>1. WireTypeOK /\ AgentTypeOK /\ SessionTypeOK
  BY DEF TypeOK
<1>2. AgentTypeOK'
  BY <1>1, AgentSame
     DEF DispatchStart, DispatchBlob, DispatchReady, DispatchPrompt, DispatchInterrupt,
         DispatchUnknown, DispatchReturns
<1> USE DEF svcVars, turnVars, closeVars, promptVars, pumpVars
<1>3. CASE DispatchStart
  <2>1. WireTypeOK'
    <3> DEFINE request == [type |-> "sync.request", missing |-> Missing(manifest')]
    <3>1. manifest' \in Manifests
      BY <1>1, <1>3, MessageRead DEF DispatchStart
    <3>2. Missing(manifest') \subseteq Hashes
      BY <3>1, ManifestElim DEF Missing
    <3>3. request \in ServerMessages
      BY <3>2 DEF ServerMessages
    <3> HIDE DEF request
    <3>4. CASE ServerTries(request) \/ ServerTries(ErrorMsg)
      BY <1>1, <1>3, <3>3, <3>4, AnswerKeepsWire, ErrorIsMessage DEF DispatchStart
    <3>5. CASE UNCHANGED s2c
      BY <1>1, <1>3, <3>5, ReadKeepsWire DEF DispatchStart
    <3> QED BY <1>3, <3>4, <3>5 DEF DispatchStart, DispatchFails, ServerTries, request
  <2>2. manifest' \in Manifests
    BY <1>1, <1>3, MessageRead DEF DispatchStart
  <2>3. SessionTypeOK'
    BY <1>1, <1>3, <2>2 DEF DispatchStart, DispatchFails, SessionTypeOK, HandlerStates
  <2> QED BY <1>2, <2>1, <2>3 DEF TypeOK
<1>4. CASE DispatchBlob
  <2>1. WireTypeOK'
    BY <1>1, <1>4, AnswerKeepsWire, ReadKeepsWire, ErrorIsMessage
       DEF DispatchBlob, DispatchFails
  <2>2. blobs' \in Blobs
    <3>1. Head(c2s).hash \in Hashes /\ Head(c2s).content \in Contents
      BY <1>1, <1>4, MessageRead DEF DispatchBlob
    <3>2. Put(blobs, Head(c2s).hash, Head(c2s).content) \in Blobs
      BY <1>1, <3>1, PutType DEF SessionTypeOK, Blobs
    <3> QED BY <1>1, <1>4, <3>2 DEF DispatchBlob, SessionTypeOK
  <2>3. SessionTypeOK'
    BY <1>1, <1>4, <2>2 DEF DispatchBlob, DispatchFails, SessionTypeOK, HandlerStates
  <2> QED BY <1>2, <2>1, <2>3 DEF TypeOK
<1>5. CASE DispatchReady
  <2>1. [type |-> "session.ready"] \in ServerMessages
    BY DEF ServerMessages
  <2>2. WireTypeOK'
    BY <1>1, <1>5, <2>1, SendKeepsWire DEF DispatchReady, ServerTries
  <2>3. SessionTypeOK'
    BY <1>1, <1>5 DEF DispatchReady, SessionTypeOK, HandlerStates
  <2> QED BY <1>2, <2>2, <2>3 DEF TypeOK
<1>6. CASE DispatchPrompt
  <2>1. WireTypeOK'
    BY <1>1, <1>6, ReadKeepsWire DEF DispatchPrompt
  <2>2. prompts' \in 0..MaxPrompts /\ prompts + 1 \in 1..MaxPrompts
    BY <1>1, <1>6, SessionAssumption DEF DispatchPrompt, SessionTypeOK
  <2>3. hp' \in [1..MaxPrompts -> PromptType]
    BY <1>1, <1>6, <2>2, PromptPc DEF DispatchPrompt, PromptStates
  <2>4. SessionTypeOK'
    BY <1>1, <1>6, <2>2, <2>3 DEF DispatchPrompt, SessionTypeOK
  <2> QED BY <1>2, <2>1, <2>4 DEF TypeOK
<1>7. CASE DispatchInterrupt
  <2>1. WireTypeOK'
    BY <1>1, <1>7, AnswerKeepsWire, ReadKeepsWire, ErrorIsMessage DEF DispatchInterrupt
  <2>2. SessionTypeOK'
    BY <1>1, <1>7 DEF DispatchInterrupt, SessionTypeOK
  <2> QED BY <1>2, <2>1, <2>2 DEF TypeOK
<1>8. CASE DispatchUnknown
  <2>1. WireTypeOK'
    BY <1>1, <1>8, ReadKeepsWire DEF DispatchUnknown
  <2>2. SessionTypeOK'
    BY <1>1, <1>8 DEF DispatchUnknown, SessionTypeOK
  <2> QED BY <1>2, <2>1, <2>2 DEF TypeOK
<1>9. CASE DispatchReturns
  <2>1. WireTypeOK'
    BY <1>1, <1>9, ReadKeepsWire, WireSame DEF DispatchReturns, wireVars
  <2>2. SessionTypeOK'
    BY <1>1, <1>9 DEF DispatchReturns, SessionTypeOK, HandlerStates
  <2> QED BY <1>2, <2>1, <2>2 DEF TypeOK
<1> QED BY <1>3, <1>4, <1>5, <1>6, <1>7, <1>8, <1>9
\* Hanging up and Close keep the types.
LEMMA CloseTypes ==
    /\ TypeOK
    /\ HangUp \/ CloseTakes \/ CloseStopsAgent \/ CloseWaits \/ CloseRemoves
    => TypeOK'
<1> SUFFICES ASSUME TypeOK,
                    HangUp \/ CloseTakes \/ CloseStopsAgent \/ CloseWaits \/ CloseRemoves
             PROVE  TypeOK'
  OBVIOUS
<1>1. WireTypeOK /\ AgentTypeOK /\ SessionTypeOK
  BY DEF TypeOK
<1> USE DEF svcVars, turnVars, closeVars, promptVars, pumpVars
<1>2. CASE HangUp
  <2>1. WireTypeOK'
    BY <1>1, <1>2 DEF HangUp, WireTypeOK
  <2>2. AgentTypeOK'
    BY <1>1, <1>2, AgentSame DEF HangUp
  <2>3. SessionTypeOK'
    BY <1>1, <1>2 DEF HangUp, SessionTypeOK, HandlerStates
  <2> QED BY <2>1, <2>2, <2>3 DEF TypeOK
<1>3. CASE CloseTakes
  <2>1. WireTypeOK' /\ AgentTypeOK'
    BY <1>1, <1>3, WireSame, AgentSame DEF CloseTakes
  <2>2. /\ svcWs' \in BOOLEAN /\ svcAgent' \in BOOLEAN
        /\ closeWs' \in BOOLEAN /\ closeAgent' \in BOOLEAN
        /\ handler' \in HandlerStates
    BY <1>1, <1>3 DEF CloseTakes, SessionTypeOK, HandlerStates
  <2>3. UNCHANGED <<manifest, blobs, turnVars, promptVars, pumpVars, panicked>>
    BY <1>3 DEF CloseTakes
  <2>4. SessionTypeOK'
    BY <1>1, <2>2, <2>3 DEF SessionTypeOK
  <2> QED BY <2>1, <2>4 DEF TypeOK
<1>4. CASE CloseStopsAgent
  <2>1. WireTypeOK'
    BY <1>1, <1>4, WireSame DEF CloseStopsAgent
  <2>2. AgentTypeOK'
    BY <1>1, <1>4 DEF CloseStopsAgent, CloseStdin, AgentTypeOK, streamVars, dirVars
  <2>3. SessionTypeOK'
    BY <1>1, <1>4 DEF CloseStopsAgent, SessionTypeOK, HandlerStates
  <2> QED BY <2>1, <2>2, <2>3 DEF TypeOK
<1>5. CASE CloseWaits
  <2>1. WireTypeOK'
    BY <1>1, <1>5, WireSame DEF CloseWaits
  <2>2. pipe' \in Seq(Lines) /\ Len(pipe') <= PipeCap
    BY <1>1, <1>5, PrefixBounded, AgentAssumption DEF CloseWaits, WaitReturns, AgentTypeOK
  <2>3. AgentTypeOK'
    BY <1>1, <1>5, <2>2 DEF CloseWaits, WaitReturns, AgentTypeOK, procVars, dirVars
  <2>4. SessionTypeOK'
    BY <1>1, <1>5 DEF CloseWaits, SessionTypeOK, HandlerStates
  <2> QED BY <2>1, <2>3, <2>4 DEF TypeOK
<1>6. CASE CloseRemoves
  <2>1. WireTypeOK'
    BY <1>1, <1>6, WireSame DEF CloseRemoves
  <2>2. NoFiles \in Trees
    BY NoFilesType DEF Trees
  <2>3. files' \in Trees /\ wsExists' \in BOOLEAN
    BY <1>1, <1>6, <2>2 DEF CloseRemoves, AgentTypeOK, dirVars
  <2>4. AgentTypeOK'
    BY <1>1, <1>6, <2>3 DEF CloseRemoves, AgentTypeOK, procVars, streamVars
  <2>5. SessionTypeOK'
    BY <1>1, <1>6 DEF CloseRemoves, SessionTypeOK, HandlerStates
  <2> QED BY <2>1, <2>4, <2>5 DEF TypeOK
<1> QED BY <1>2, <1>3, <1>4, <1>5, <1>6

-----------------------------------------------------------------------------
(* HandlePrompt *)

\* A HandlePrompt goroutine keeps the types.
LEMMA PromptTypes ==
    ASSUME TypeOK, NEW i \in 1..MaxPrompts, PromptStep(i)
    PROVE  TypeOK'
<1>1. WireTypeOK /\ AgentTypeOK /\ SessionTypeOK
  BY DEF TypeOK
<1>2. ASSUME PromptFails(i) PROVE hp' \in [1..MaxPrompts -> PromptType]
  BY <1>1, <1>2, PromptPc DEF PromptFails, PromptStates
<1>3. ASSUME PromptFails(i) \/ UNCHANGED s2c, UNCHANGED <<c2s, connUp>> PROVE WireTypeOK'
  BY <1>1, <1>3, SendKeepsWire, ErrorIsMessage, WireSame DEF PromptFails, wireVars
<1> USE DEF svcVars, turnVars, closeVars, promptVars, pumpVars
<1>4. CASE PromptStart(i)
  <2>1. hp' \in [1..MaxPrompts -> PromptType]
    BY <1>1, <1>2, <1>4, PromptPc DEF PromptStart, PromptStates
  <2>2. WireTypeOK' /\ AgentTypeOK'
    BY <1>1, <1>3, <1>4, AgentSame DEF PromptStart
  <2>3. UNCHANGED <<handler, svcVars, turnVars, closeVars, prompts, sent, pumpVars, panicked>>
    BY <1>4 DEF PromptStart
  <2>4. SessionTypeOK'
    BY <1>1, <2>1, <2>3 DEF SessionTypeOK
  <2> QED BY <2>2, <2>4 DEF TypeOK
<1>5. CASE PromptSnapshot(i)
  <2>1. hp' \in [1..MaxPrompts -> PromptType]
    <3>1. CASE hp' = [hp EXCEPT ![i].pc = "base", ![i].snap = Snapshot(files)]
      <4>1. Snapshot(files) \in Manifests
        BY <1>1, SnapshotType DEF AgentTypeOK
      <4> QED BY <1>1, <3>1, <4>1 DEF SessionTypeOK, PromptType, PromptStates
    <3> QED BY <1>2, <1>5, <3>1 DEF PromptSnapshot
  <2>2. WireTypeOK' /\ AgentTypeOK'
    BY <1>1, <1>3, <1>5, AgentSame DEF PromptSnapshot
  <2>3. SessionTypeOK'
    BY <1>1, <1>5, <2>1 DEF PromptSnapshot, SessionTypeOK
  <2> QED BY <2>2, <2>3 DEF TypeOK
<1>6. CASE PromptBaseline(i)
  <2>1. hp' \in [1..MaxPrompts -> PromptType]
    BY <1>1, <1>6, PromptPc DEF PromptBaseline, PromptStates
  <2>2. WireTypeOK' /\ AgentTypeOK'
    BY <1>1, <1>6, AgentSame, WireSame DEF PromptBaseline
  <2>3. preTurn' \in Manifests
    BY <1>1, <1>6 DEF PromptBaseline, SessionTypeOK, PromptType
  <2>4. SessionTypeOK'
    BY <1>1, <1>6, <2>1, <2>3 DEF PromptBaseline, SessionTypeOK
  <2> QED BY <2>2, <2>4 DEF TypeOK
<1>7. CASE PromptDrain(i)
  <2>1. hp' \in [1..MaxPrompts -> PromptType]
    BY <1>1, <1>7, PromptPc DEF PromptDrain, PromptStates
  <2>2. WireTypeOK' /\ AgentTypeOK'
    BY <1>1, <1>7, AgentSame, WireSame DEF PromptDrain
  <2>3. SessionTypeOK'
    BY <1>1, <1>7, <2>1 DEF PromptDrain, SessionTypeOK
  <2> QED BY <2>2, <2>3 DEF TypeOK
<1>8. CASE PromptSend(i)
  <2>1. hp' \in [1..MaxPrompts -> PromptType] /\ sent' \in Nat
    <3>1. CASE hp' = [hp EXCEPT ![i].pc = "wait", ![i].turn = sent + 1] /\ sent' = sent + 1
      <4> DEFINE n == sent + 1
      <4>1. n \in Nat /\ "wait" \in PromptStates /\ hp \in [1..MaxPrompts -> PromptType]
        BY <1>1 DEF SessionTypeOK, PromptStates
      <4>2. hp' = [hp EXCEPT ![i].pc = "wait", ![i].turn = n] /\ sent' = n
        BY <3>1
      <4> HIDE DEF n
      <4> QED BY <4>1, <4>2 DEF PromptType
    <3>2. CASE PromptFails(i) /\ sent' = sent
      BY <1>1, <1>2, <3>2 DEF SessionTypeOK
    <3> QED BY <1>8, <3>1, <3>2 DEF PromptSend
  <2>2. WireTypeOK'
    BY <1>3, <1>8 DEF PromptSend
  <2>3. AgentTypeOK'
    BY <1>1, <1>8 DEF PromptSend, SendPrompt, AgentTypeOK, procVars, streamVars, dirVars
  <2>4. SessionTypeOK'
    BY <1>1, <1>8, <2>1 DEF PromptSend, SessionTypeOK
  <2> QED BY <2>2, <2>3, <2>4 DEF TypeOK
<1>9. CASE PromptWait(i)
  <2>1. hp' \in [1..MaxPrompts -> PromptType]
    BY <1>1, <1>2, <1>9, PromptPc DEF PromptWait, PromptStates
  <2>2. WireTypeOK' /\ AgentTypeOK'
    BY <1>1, <1>3, <1>9, AgentSame DEF PromptWait
  <2>3. SessionTypeOK'
    BY <1>1, <1>9, <2>1 DEF PromptWait, SessionTypeOK
  <2> QED BY <2>2, <2>3 DEF TypeOK
<1> QED BY <1>4, <1>5, <1>6, <1>7, <1>8, <1>9 DEF PromptStep
-----------------------------------------------------------------------------
(* pump and finishTurn *)

\* The message of a change is one the protocol has.
LEMMA FileChangeType ==
    ASSUME files \in Trees, NEW ch \in Changes, ch.op # "delete" => ch.path \in DOMAIN files
    PROVE  FileChangeMsg(ch) \in ServerMessages
<1>1. CASE ch.op = "delete"
  <2>1. ch \in [op : {"delete"}, path : Paths]
    BY <1>1 DEF Changes
  <2> QED BY <1>1, <2>1 DEF FileChangeMsg, ServerMessages
<1>2. CASE ch.op # "delete"
  <2>1. files[ch.path].content \in Contents
    BY <1>2, TreeElim
  <2> QED BY <1>2, <2>1 DEF FileChangeMsg, ServerMessages
<1> QED BY <1>1, <1>2

\* Receiving and forwarding an event keeps the types.
LEMMA PumpReceiveTypes == TypeOK /\ PumpReceive => TypeOK'
<1> SUFFICES ASSUME TypeOK, PumpReceive PROVE TypeOK'
  OBVIOUS
<1>1. WireTypeOK /\ AgentTypeOK /\ SessionTypeOK
  BY DEF TypeOK
<1>2. /\ UNCHANGED <<c2s, connUp, procVars, pipe, eventsClosed, dirVars>>
      /\ UNCHANGED <<handler, svcVars, turnVars, closeVars, promptVars, finished, panicked>>
  BY DEF PumpReceive
<1>3. pump' \in PumpType
  BY <1>1, PumpPc DEF PumpReceive, PumpStates
<1>4. [type |-> "stream.event"] \in ServerMessages
  BY DEF ServerMessages
<1>5. WireTypeOK'
  BY <1>1, <1>2, <1>4, SendKeepsWire, WireSame DEF PumpReceive, ServerTries, wireVars
<1>6. events' \in Seq(Events) /\ Len(events') <= EventCap
  <2>1. events' = events \/ (events # <<>> /\ events' = Tail(events))
    BY DEF PumpReceive
  <2>2. events \in Seq(Events) /\ Len(events) <= EventCap /\ EventCap \in Nat
    BY <1>1, AgentAssumption DEF AgentTypeOK
  <2> QED BY <2>1, <2>2, TailBounded
<1>7. AgentTypeOK'
  BY <1>1, <1>2, <1>6 DEF AgentTypeOK, procVars, dirVars
<1>8. SessionTypeOK'
  BY <1>1, <1>2, <1>3 DEF SessionTypeOK, svcVars, turnVars, closeVars, promptVars
<1> QED BY <1>5, <1>7, <1>8 DEF TypeOK

\* The snapshot after a turn keeps the types, a panic included.
LEMMA PumpSnapshotTypes == TypeOK /\ PumpSnapshot => TypeOK'
<1> SUFFICES ASSUME TypeOK, PumpSnapshot PROVE TypeOK'
  OBVIOUS
<1>1. WireTypeOK /\ AgentTypeOK /\ SessionTypeOK
  BY DEF TypeOK
<1>2. /\ UNCHANGED <<c2s, s2c, proc, stdin, chatter, streamVars, dirVars>>
      /\ UNCHANGED <<handler, svcVars, turnVars, closeVars, promptVars>>
  BY DEF PumpSnapshot
<1>3. connUp' \in BOOLEAN /\ panicked' \in BOOLEAN /\ stdinOpen' \in BOOLEAN
  BY <1>1 DEF PumpSnapshot, Panic, WireTypeOK, AgentTypeOK, SessionTypeOK
<1>4. pump' \in PumpType /\ finished' \in Nat
  <2>1. CASE /\ pump' = [pump EXCEPT !.pc = "diff", !.after = Snapshot(files)]
             /\ finished' = finished
    <3>1. /\ Snapshot(files) \in Manifests /\ "diff" \in PumpStates
          /\ pump \in PumpType /\ finished \in Nat
      BY <1>1, SnapshotType DEF AgentTypeOK, SessionTypeOK, PumpStates
    <3> QED BY <2>1, <3>1 DEF PumpType
  <2>2. CASE FinishTurn(TRUE)
    BY <1>1, <2>2, FinishTurnType
  <2>3. CASE pump' = pump /\ finished' = finished
    BY <1>1, <2>3 DEF SessionTypeOK
  <2> QED BY <2>1, <2>2, <2>3 DEF PumpSnapshot
<1>5. WireTypeOK' /\ AgentTypeOK'
  BY <1>1, <1>2, <1>3 DEF WireTypeOK, AgentTypeOK, streamVars, dirVars
<1>6. SessionTypeOK'
  BY <1>1, <1>2, <1>3, <1>4 DEF SessionTypeOK, svcVars, turnVars, closeVars, promptVars
<1> QED BY <1>5, <1>6 DEF TypeOK

\* Pushing one change keeps the types, a panic included.
LEMMA PumpPushTypes == TypeOK /\ PumpPush => TypeOK'
<1> SUFFICES ASSUME TypeOK, PumpPush PROVE TypeOK'
  OBVIOUS
<1>1. WireTypeOK /\ AgentTypeOK /\ SessionTypeOK
  BY DEF TypeOK
<1>2. /\ UNCHANGED <<c2s, proc, stdin, chatter, streamVars, dirVars>>
      /\ UNCHANGED <<handler, svcVars, turnVars, closeVars, promptVars>>
  BY DEF PumpPush
<1>3. connUp' \in BOOLEAN /\ panicked' \in BOOLEAN /\ stdinOpen' \in BOOLEAN
  BY <1>1 DEF PumpPush, Panic, WireTypeOK, AgentTypeOK, SessionTypeOK
<1>4. PICK ch \in pump.todo :
        \/ /\ ch.op = "delete" \/ ch.path \in DOMAIN files
           /\ ServerSends(FileChangeMsg(ch))
           /\ pump' = [pump EXCEPT !.todo = @ \ {ch}]
           /\ finished' = finished
        \/ FinishTurn(TRUE) /\ s2c' = s2c
        \/ pump' = pump /\ finished' = finished /\ s2c' = s2c
  BY DEF PumpPush
<1>5. ch \in Changes
  BY <1>1 DEF SessionTypeOK, PumpType
<1>6. s2c' \in Seq(ServerMessages) /\ Len(s2c') <= WireCap
  <2>1. CASE s2c' = s2c
    BY <1>1, <2>1 DEF WireTypeOK
  <2>2. CASE ServerSends(FileChangeMsg(ch)) /\ (ch.op = "delete" \/ ch.path \in DOMAIN files)
    <3>1. FileChangeMsg(ch) \in ServerMessages
      BY <1>1, <1>5, <2>2, FileChangeType DEF AgentTypeOK
    <3> QED BY <1>1, <2>2, <3>1, AppendBounded, WireAssumption DEF WireTypeOK, ServerSends
  <2> QED BY <1>4, <2>1, <2>2
<1>7. pump' \in PumpType /\ finished' \in Nat
  <2>1. CASE pump' = [pump EXCEPT !.todo = @ \ {ch}] /\ finished' = finished
    <3>1. pump.todo \ {ch} \in SUBSET Changes /\ pump \in PumpType /\ finished \in Nat
      BY <1>1 DEF SessionTypeOK, PumpType
    <3> QED BY <2>1, <3>1 DEF PumpType
  <2>2. CASE FinishTurn(TRUE)
    BY <1>1, <2>2, FinishTurnType
  <2>3. CASE pump' = pump /\ finished' = finished
    BY <1>1, <2>3 DEF SessionTypeOK
  <2> QED BY <1>4, <2>1, <2>2, <2>3
<1>8. WireTypeOK' /\ AgentTypeOK'
  BY <1>1, <1>2, <1>3, <1>6 DEF WireTypeOK, AgentTypeOK, streamVars, dirVars
<1>9. SessionTypeOK'
  BY <1>1, <1>2, <1>3, <1>7 DEF SessionTypeOK, svcVars, turnVars, closeVars, promptVars
<1> QED BY <1>8, <1>9 DEF TypeOK
\* The rest of the pump keeps the types.
LEMMA PumpTypes == TypeOK /\ PumpStep => TypeOK'
<1> SUFFICES ASSUME TypeOK, PumpStep PROVE TypeOK'
  OBVIOUS
<1>1. WireTypeOK /\ AgentTypeOK /\ SessionTypeOK
  BY DEF TypeOK
<1> USE DEF svcVars, turnVars, closeVars, promptVars, pumpVars
<1>2. CASE PumpDiff
  <2>1. pump' \in PumpType
    <3>1. pump \in PumpType /\ pump.after \in Manifests /\ preTurn \in Manifests
      BY <1>1 DEF SessionTypeOK, PumpType
    <3>2. Diff(preTurn, pump.after) \in SUBSET Changes /\ "push" \in PumpStates
      BY <3>1, DiffType DEF PumpStates
    <3>3. pump' = [pump EXCEPT !.pc = "push", !.todo = Diff(preTurn, pump.after)]
      BY <1>2 DEF PumpDiff
    <3> QED BY <3>1, <3>2, <3>3 DEF PumpType
  <2>2. WireTypeOK' /\ AgentTypeOK'
    BY <1>1, <1>2, WireSame, AgentSame DEF PumpDiff
  <2>3. SessionTypeOK'
    BY <1>1, <1>2, <2>1 DEF PumpDiff, SessionTypeOK
  <2> QED BY <2>2, <2>3 DEF TypeOK
<1>3. CASE PumpAdvance
  <2>1. pump' \in PumpType
    BY <1>1, <1>3, PumpPc DEF PumpAdvance, PumpStates
  <2>2. preTurn' \in Manifests
    BY <1>1, <1>3 DEF PumpAdvance, SessionTypeOK, PumpType
  <2>3. WireTypeOK' /\ AgentTypeOK'
    BY <1>1, <1>3, WireSame, AgentSame DEF PumpAdvance
  <2>4. SessionTypeOK'
    BY <1>1, <1>3, <2>1, <2>2 DEF PumpAdvance, SessionTypeOK
  <2> QED BY <2>3, <2>4 DEF TypeOK
<1>4. CASE PumpTurnDone
  <2>1. pump' \in PumpType /\ finished' \in Nat
    BY <1>1, <1>4, FinishTurnType DEF PumpTurnDone
  <2>2. [type |-> "turn.done"] \in ServerMessages
    BY DEF ServerMessages
  <2>3. WireTypeOK' /\ AgentTypeOK'
    BY <1>1, <1>4, <2>2, SendKeepsWire, AgentSame DEF PumpTurnDone, ServerTries
  <2>4. SessionTypeOK'
    BY <1>1, <1>4, <2>1 DEF PumpTurnDone, SessionTypeOK
  <2> QED BY <2>3, <2>4 DEF TypeOK
<1>5. CASE PumpSignal
  <2>1. pump' \in PumpType
    BY <1>1, <1>5, PumpPc DEF PumpSignal, PumpStates
  <2>2. turnDone' \in {"empty", "ok", "err"}
    <3>1. turnDone \in {"empty", "ok", "err"}
      BY <1>1 DEF SessionTypeOK
    <3>2. turnDone' \in {turnDone, "ok", "err"}
      BY <1>5 DEF PumpSignal
    <3> QED BY <3>1, <3>2
  <2>3. WireTypeOK' /\ AgentTypeOK'
    BY <1>1, <1>5, WireSame, AgentSame DEF PumpSignal
  <2>4. SessionTypeOK'
    BY <1>1, <1>5, <2>1, <2>2 DEF PumpSignal, SessionTypeOK
  <2> QED BY <2>3, <2>4 DEF TypeOK
<1> QED BY <1>2, <1>3, <1>4, <1>5, PumpReceiveTypes, PumpSnapshotTypes, PumpPushTypes
        DEF PumpStep

-----------------------------------------------------------------------------
(* The subprocess, readLoop and the client *)

\* The lines the process prints, and the events parseLine makes of them.
LEMMA PrintedType == \A k \in LineKinds : \A line \in Printed(k) : line \in Lines
<1>1. {TRUE} \cup {~OversizeLines} \subseteq BOOLEAN
  BY Zenon
<1>2. \A k : \A line \in Printed(k) : \E b \in BOOLEAN : line = [kind |-> k, fits |-> b]
  BY <1>1 DEF Printed
<1> QED BY <1>2 DEF Lines

\* parseLine drops a line or makes one of the known events of it.
LEMMA ParseLineType ==
    ASSUME NEW line, ParseLine(line) # "dropped"
    PROVE  ParseLine(line) \in EventKinds
BY DEF ParseLine, EventKinds

\* The subprocess keeps the types.
LEMMA ClaudeTypes == AgentTypeOK /\ ClaudeStep => AgentTypeOK'
<1> SUFFICES ASSUME AgentTypeOK, ClaudeStep PROVE AgentTypeOK'
  OBVIOUS
<1> USE DEF procVars, streamVars, dirVars
<1>1. CASE ClaudeBegins
  BY <1>1, AgentAssumption DEF ClaudeBegins, AgentTypeOK
<1>2. CASE ClaudeEdits
  BY <1>2, EditType DEF ClaudeEdits, AgentTypeOK
<1>3. CASE BackgroundEdits
  BY <1>3, EditType DEF BackgroundEdits, AgentTypeOK
<1>4. CASE ClaudePrints
  <2>1. PICK line \in Lines : pipe' = Append(pipe, line)
    BY <1>4, PrintedType, AgentAssumption DEF ClaudePrints
  <2>2. pipe' \in Seq(Lines) /\ Len(pipe') <= PipeCap
    BY <1>4, <2>1, AppendBounded, AgentAssumption DEF ClaudePrints, AgentTypeOK
  <2>3. chatter' \in 0..MaxChatter
    BY <1>4, AgentAssumption DEF ClaudePrints, AgentTypeOK
  <2> QED BY <1>4, <2>2, <2>3 DEF ClaudePrints, AgentTypeOK
<1>5. CASE ClaudeEndsTurn
  <2>1. PICK line \in Lines : pipe' = Append(pipe, line)
    BY <1>5, PrintedType DEF ClaudeEndsTurn, LineKinds
  <2>2. pipe' \in Seq(Lines) /\ Len(pipe') <= PipeCap
    BY <1>5, <2>1, AppendBounded, AgentAssumption DEF ClaudeEndsTurn, AgentTypeOK
  <2> QED BY <1>5, <2>2 DEF ClaudeEndsTurn, AgentTypeOK
<1>6. CASE ClaudeExits
  BY <1>6 DEF ClaudeExits, AgentTypeOK
<1>7. CASE ClaudeCrashes
  BY <1>7 DEF ClaudeCrashes, AgentTypeOK
<1> QED BY <1>1, <1>2, <1>3, <1>4, <1>5, <1>6, <1>7 DEF ClaudeStep

\* readLoop keeps the types: it delivers only when the channel has room.
LEMMA ReadLoopTypes == AgentTypeOK /\ ReadLoopStep => AgentTypeOK'
<1> SUFFICES ASSUME AgentTypeOK, ReadLoopStep PROVE AgentTypeOK'
  OBVIOUS
<1> USE DEF procVars, dirVars
<1>1. CASE ReadLine
  <2>1. Head(pipe) \in Lines /\ pipe' \in Seq(Lines) /\ Len(pipe') <= PipeCap
    BY <1>1, TailBounded, AgentAssumption DEF ReadLine, AgentTypeOK
  <2>2. events' \in Seq(Events) /\ Len(events') <= EventCap
    <3> DEFINE ev == [kind |-> ParseLine(Head(pipe)), fits |-> Head(pipe).fits]
    <3>1. CASE ParseLine(Head(pipe)) # "dropped" /\ Len(events) < EventCap
               /\ events' = Append(events, ev)
      <4>1. ev \in Events
        BY <2>1, <3>1, ParseLineType DEF Events, Lines
      <4> HIDE DEF ev
      <4> QED BY <3>1, <4>1, AppendBounded, AgentAssumption DEF AgentTypeOK
    <3>2. CASE events' = events
      BY <3>2 DEF AgentTypeOK
    <3> QED BY <1>1, <3>1, <3>2 DEF ReadLine
  <2> QED BY <1>1, <2>1, <2>2 DEF ReadLine, AgentTypeOK
<1>2. CASE ReadEOF
  BY <1>2 DEF ReadEOF, AgentTypeOK
<1> QED BY <1>1, <1>2 DEF ReadLoopStep

-----------------------------------------------------------------------------
\* Every variable has its type at the start.
LEMMA InitTypes == WireInit /\ AgentInit /\ SessionInit => TypeOK
<1> SUFFICES ASSUME WireInit, AgentInit, SessionInit PROVE TypeOK
  OBVIOUS
<1>1. NoFiles \in Trees /\ NoFiles \in Manifests
  BY NoFilesType DEF Trees, Manifests
<1>2. WireTypeOK
  BY WireAssumption DEF WireInit, WireTypeOK
<1>3. AgentTypeOK
  <2>1. <<>> \in Seq(Lines) /\ <<>> \in Seq(Events) /\ Len(<<>>) = 0
    OBVIOUS
  <2>2. EventCap \in Nat /\ PipeCap \in Nat /\ MaxChatter \in Nat
    BY AgentAssumption
  <2>3. /\ pipe \in Seq(Lines) /\ Len(pipe) <= PipeCap
        /\ events \in Seq(Events) /\ Len(events) <= EventCap
    BY <2>1, <2>2 DEF AgentInit
  <2>4. stdinOpen \in BOOLEAN /\ eventsClosed \in BOOLEAN /\ wsExists \in BOOLEAN
    BY DEF AgentInit
  <2>5. stdin \in Nat /\ chatter \in 0..MaxChatter
    BY <2>2 DEF AgentInit
  <2> QED BY <1>1, <2>3, <2>4, <2>5 DEF AgentInit, AgentTypeOK
<1>4. SessionTypeOK
  <2>1. hp \in [1..MaxPrompts -> PromptType]
    BY <1>1 DEF SessionInit, PromptType, PromptStates
  <2>2. pump \in PumpType
    BY <1>1 DEF SessionInit, PumpType, PumpStates
  <2>3. /\ svcWs \in BOOLEAN /\ svcAgent \in BOOLEAN
        /\ closeWs \in BOOLEAN /\ closeAgent \in BOOLEAN
        /\ panicked \in BOOLEAN
    BY DEF SessionInit
  <2>4. prompts \in 0..MaxPrompts /\ sent \in Nat /\ finished \in Nat
    BY SessionAssumption DEF SessionInit
  <2> QED BY <1>1, <2>1, <2>2, <2>3, <2>4
          DEF SessionInit, SessionTypeOK, HandlerStates
<1> QED BY <1>2, <1>3, <1>4 DEF TypeOK

\* Every step of the server and of its agent keeps the types.
LEMMA ServerTypes == TypeOK /\ (ServerStep \/ SubprocessStep) => TypeOK'
<1> SUFFICES ASSUME TypeOK, ServerStep \/ SubprocessStep PROVE TypeOK'
  OBVIOUS
<1>1. CASE HandlerStep
  BY <1>1, SyncDoneTypes, DispatchTypes, CloseTypes DEF HandlerStep
<1>2. CASE ReadLoopStep /\ UNCHANGED <<wireVars, sessionVars>>
  BY <1>2, ReadLoopTypes, WireSame, SessionSame DEF TypeOK
<1>3. CASE SubprocessStep
  BY <1>3, ClaudeTypes, WireSame, SessionSame DEF SubprocessStep, TypeOK
<1> QED BY <1>1, <1>2, <1>3, PromptTypes, PumpTypes DEF ServerStep
-----------------------------------------------------------------------------
(* Completion signals *)

\* The calls of HandlePrompt that have returned without error.
Returned == {i \in 1..MaxPrompts : hp[i].pc = "ok"}

\* The signals that no call has taken: in the channel, and in pump's hand.
Waiting(t) == IF t = "ok" THEN 1 ELSE 0
InHand(p) == IF p.pc = "signal" /\ ~p.err THEN 1 ELSE 0

\* Each finished turn has given one signal, which is taken at most once.
ReturnInv == Cardinality(Returned) + Waiting(turnDone) + InHand(pump) <= finished

\* The calls can be counted.
LEMMA ReturnedFinite ==
    /\ IsFiniteSet(Returned) /\ Cardinality(Returned) \in Nat
    /\ Waiting(turnDone) \in {0, 1} /\ InHand(pump) \in {0, 1}
<1>1. IsFiniteSet(1..MaxPrompts)
  BY FS_Interval, SessionAssumption
<1>2. IsFiniteSet(Returned)
  BY <1>1, FS_Subset DEF Returned
<1> QED BY <1>2, FS_CardinalityType DEF Waiting, InHand

\* In the state after a step, too.
LEMMA ReturnedFiniteThen ==
    /\ IsFiniteSet(Returned') /\ Cardinality(Returned') \in Nat
    /\ Waiting(turnDone') \in {0, 1} /\ InHand(pump') \in {0, 1}
<1>1. (/\ IsFiniteSet(Returned) /\ Cardinality(Returned) \in Nat
       /\ Waiting(turnDone) \in {0, 1} /\ InHand(pump) \in {0, 1})'
  BY ReturnedFinite, PTL
<1> QED BY <1>1

\* A step that makes no call return and no signal keeps the balance.
LEMMA ReturnRests ==
    ASSUME SessionTypeOK, ReturnInv, Returned' \subseteq Returned,
           Waiting(turnDone') + InHand(pump') <= Waiting(turnDone) + InHand(pump),
           finished' = finished
    PROVE  ReturnInv'
<1>1. Cardinality(Returned') <= Cardinality(Returned)
  BY ReturnedFinite, FS_Subset
<1>2. finished \in Nat
  BY DEF SessionTypeOK
<1>3. PICK c, d, w, x, h, k :
        /\ c = Cardinality(Returned) /\ w = Waiting(turnDone) /\ h = InHand(pump)
        /\ d = Cardinality(Returned') /\ x = Waiting(turnDone') /\ k = InHand(pump')
  OBVIOUS
<1>4. /\ c \in Nat /\ d \in Nat /\ w \in Nat /\ x \in Nat /\ h \in Nat /\ k \in Nat
      /\ d <= c /\ x + k <= w + h /\ c + w + h <= finished
  BY <1>1, <1>3, ReturnedFinite, ReturnedFiniteThen DEF ReturnInv
<1>5. d + x + k <= finished'
  BY <1>2, <1>4
<1> QED BY <1>3, <1>5 DEF ReturnInv

\* What HandlePrompt and dispatch do to a goroutine does not make it return.
LEMMA PromptGoes ==
    ASSUME SessionTypeOK, NEW i \in 1..MaxPrompts, NEW x \in PromptStates, x # "ok",
           \/ hp' = [hp EXCEPT ![i].pc = x]
           \/ \E m \in Manifests : hp' = [hp EXCEPT ![i].pc = x, ![i].snap = m]
           \/ \E n \in Nat : hp' = [hp EXCEPT ![i].pc = x, ![i].turn = n]
    PROVE  Returned' \subseteq Returned
<1>1. hp \in [1..MaxPrompts -> PromptType]
  BY DEF SessionTypeOK
<1>2. hp'[i].pc = x /\ \A j \in 1..MaxPrompts : j # i => hp'[j] = hp[j]
  BY <1>1 DEF PromptType
<1> QED BY <1>2 DEF Returned

\* The handler makes neither a return nor a signal.
LEMMA HandlerReturns ==
    TypeOK /\ ReturnInv /\ HandlerStep => ReturnInv'
<1> SUFFICES ASSUME TypeOK, ReturnInv, HandlerStep PROVE ReturnInv'
  OBVIOUS
<1>1. SessionTypeOK
  BY DEF TypeOK
<1>2. turnDone' = turnDone /\ finished' = finished
  BY DEF HandlerStep, DispatchStart, DispatchBlob, DispatchSyncDone, DispatchReady,
         DispatchPrompt, DispatchInterrupt, DispatchUnknown, DispatchReturns, HangUp,
         CloseTakes, CloseStopsAgent, CloseWaits, CloseRemoves, turnVars, pumpVars
<1>3. pump' = pump \/ pump' = [pump EXCEPT !.pc = "recv"]
  BY DEF HandlerStep, DispatchStart, DispatchBlob, DispatchSyncDone, SyncDoneAgain,
         SyncDoneStarts, SyncDoneNoWorkspace, SyncDoneNoAgent, DispatchReady,
         DispatchPrompt, DispatchInterrupt, DispatchUnknown, DispatchReturns, HangUp,
         CloseTakes, CloseStopsAgent, CloseWaits, CloseRemoves, pumpVars
<1>4. Waiting(turnDone') = Waiting(turnDone) /\ (InHand(pump') = InHand(pump) \/ InHand(pump') = 0)
  <2>1. pump \in PumpType
    BY <1>1 DEF SessionTypeOK
  <2>2. pump' # pump => pump'.pc = "recv"
    BY <1>3, <2>1 DEF PumpType
  <2> QED BY <1>2, <2>2 DEF Waiting, InHand
<1>5. Returned' \subseteq Returned
  <2>1. CASE DispatchPrompt
    <3>1. prompts + 1 \in 1..MaxPrompts /\ hp' = [hp EXCEPT ![prompts + 1].pc = "start"]
      BY <1>1, <2>1, SessionAssumption DEF DispatchPrompt, SessionTypeOK
    <3> QED BY <1>1, <3>1, PromptGoes DEF PromptStates
  <2>2. CASE ~DispatchPrompt
    <3>1. hp' = hp
      BY <2>2 DEF HandlerStep, DispatchStart, DispatchBlob, DispatchSyncDone, DispatchReady,
             DispatchInterrupt, DispatchUnknown, DispatchReturns, HangUp,
             CloseTakes, CloseStopsAgent, CloseWaits, CloseRemoves, promptVars
    <3> QED BY <3>1 DEF Returned
  <2> QED BY <2>1, <2>2
<1>6. Waiting(turnDone') + InHand(pump') <= Waiting(turnDone) + InHand(pump)
  BY <1>4, ReturnedFinite
<1> QED BY <1>1, <1>2, <1>5, <1>6, ReturnRests

\* A call that returns takes the signal out of the channel.
LEMMA PromptReturns ==
    ASSUME TypeOK, ReturnInv, NEW i \in 1..MaxPrompts, PromptStep(i)
    PROVE  ReturnInv'
<1>1. SessionTypeOK /\ hp \in [1..MaxPrompts -> PromptType] /\ finished \in Nat
  BY DEF TypeOK, SessionTypeOK
<1>2. finished' = finished /\ pump' = pump
  BY DEF PromptStep, PromptStart, PromptSnapshot, PromptBaseline, PromptDrain, PromptSend,
         PromptWait, pumpVars
<1>3. InHand(pump') = InHand(pump)
  BY <1>2 DEF InHand
<1>4. CASE turnDone = "ok" /\ turnDone' = "empty" /\ hp' = [hp EXCEPT ![i].pc = "ok"]
  <2>1. \A j \in 1..MaxPrompts : j # i => hp'[j] = hp[j]
    BY <1>1, <1>4
  <2>2. Returned' \subseteq Returned \cup {i}
    BY <2>1 DEF Returned
  <2>3. IsFiniteSet(Returned \cup {i})
        /\ Cardinality(Returned \cup {i}) <= Cardinality(Returned) + 1
    <3>1. IsFiniteSet(Returned) /\ Cardinality(Returned) \in Nat
      BY ReturnedFinite
    <3>2. /\ IsFiniteSet(Returned \cup {i})
          /\ Cardinality(Returned \cup {i}) =
                IF i \in Returned THEN Cardinality(Returned) ELSE Cardinality(Returned) + 1
      BY <3>1, FS_AddElement, Zenon
    <3> QED BY <3>1, <3>2
  <2>4. Cardinality(Returned') <= Cardinality(Returned \cup {i})
        /\ Cardinality(Returned \cup {i}) \in Nat
    BY <2>2, <2>3, FS_Subset, FS_CardinalityType
  <2>5. Waiting(turnDone) = 1 /\ Waiting(turnDone') = 0
    BY <1>4 DEF Waiting
  <2> QED BY <1>1, <1>2, <1>3, <2>3, <2>4, <2>5, ReturnedFinite, ReturnedFiniteThen
          DEF ReturnInv
<1>5. CASE ~(turnDone = "ok" /\ turnDone' = "empty" /\ hp' = [hp EXCEPT ![i].pc = "ok"])
  <2>1. turnDone' = turnDone \/ turnDone' = "empty"
    BY DEF PromptStep, PromptStart, PromptSnapshot, PromptBaseline, PromptDrain, PromptSend,
           PromptWait, turnVars
  <2>2. Waiting(turnDone') = Waiting(turnDone) \/ Waiting(turnDone') = 0
    BY <2>1 DEF Waiting
  <2>3. Waiting(turnDone') + InHand(pump') <= Waiting(turnDone) + InHand(pump)
    BY <1>3, <2>2, ReturnedFinite
  <2>4. Returned' \subseteq Returned
    <3>1. \E x \in PromptStates \ {"ok"} :
            \/ hp' = [hp EXCEPT ![i].pc = x]
            \/ \E m \in Manifests : hp' = [hp EXCEPT ![i].pc = x, ![i].snap = m]
            \/ \E n \in Nat : hp' = [hp EXCEPT ![i].pc = x, ![i].turn = n]
      <4> USE DEF PromptStates
      <4>1. CASE PromptStart(i)
        BY <4>1 DEF PromptStart, PromptFails
      <4>2. CASE PromptSnapshot(i)
        <5>1. Snapshot(files) \in Manifests
          BY SnapshotType DEF TypeOK, AgentTypeOK
        <5> QED BY <4>2, <5>1 DEF PromptSnapshot, PromptFails
      <4>3. CASE PromptBaseline(i) \/ PromptDrain(i)
        BY <4>3 DEF PromptBaseline, PromptDrain
      <4>4. CASE PromptSend(i)
        <5>1. sent + 1 \in Nat
          BY <1>1 DEF SessionTypeOK
        <5> QED BY <4>4, <5>1 DEF PromptSend, PromptFails
      <4>5. CASE PromptWait(i)
        BY <1>5, <4>5 DEF PromptWait, PromptFails
      <4> QED BY <4>1, <4>2, <4>3, <4>4, <4>5 DEF PromptStep
    <3> QED BY <1>1, <3>1, PromptGoes
  <2> QED BY <1>1, <1>2, <2>3, <2>4, ReturnRests
<1> QED BY <1>4, <1>5

\* finishTurn counts the turn before pump signals, and pump signals once.
LEMMA PumpReturns == TypeOK /\ ReturnInv /\ PumpStep => ReturnInv'
<1> SUFFICES ASSUME TypeOK, ReturnInv, PumpStep PROVE ReturnInv'
  OBVIOUS
<1>1. SessionTypeOK /\ pump \in PumpType /\ finished \in Nat
  BY DEF TypeOK, SessionTypeOK
<1>2. Returned' = Returned
  <2>1. hp' = hp
    BY DEF PumpStep, PumpReceive, PumpSnapshot, PumpDiff, PumpPush, PumpAdvance,
           PumpTurnDone, PumpSignal, promptVars
  <2> QED BY <2>1 DEF Returned
<1>3. CASE PumpSignal
  <2>1. /\ pump.pc = "signal" /\ pump'.pc = "recv" /\ finished' = finished
        /\ turnDone' = (CASE turnDone # "empty" -> turnDone [] pump.err -> "err" [] OTHER -> "ok")
    BY <1>1, <1>3 DEF PumpSignal, PumpGoes, PumpType
  <2>2. InHand(pump') = 0 /\ Waiting(turnDone') <= Waiting(turnDone) + InHand(pump)
    <3>1. InHand(pump') = 0
      BY <2>1 DEF InHand
    <3>2. Waiting(turnDone') = 0 \/ turnDone = "ok" \/ (pump.pc = "signal" /\ ~pump.err)
      BY <2>1 DEF Waiting
    <3> QED BY <3>1, <3>2, ReturnedFinite, ReturnedFiniteThen DEF Waiting, InHand
  <2>3. Waiting(turnDone') + InHand(pump') <= Waiting(turnDone) + InHand(pump)
    <3>1. Waiting(turnDone') \in Nat /\ Waiting(turnDone') + 0 = Waiting(turnDone')
      BY ReturnedFiniteThen
    <3> QED BY <2>2, <3>1
  <2> QED BY <1>1, <1>2, <2>1, <2>3, ReturnRests
<1>4. CASE ~PumpSignal
  <2>1. turnDone' = turnDone /\ pump.pc # "signal"
    BY <1>4 DEF PumpStep, PumpReceive, PumpSnapshot, PumpDiff, PumpPush, PumpAdvance,
                PumpTurnDone, turnVars
  <2>2. Waiting(turnDone') = Waiting(turnDone) /\ InHand(pump) = 0
    BY <2>1 DEF Waiting, InHand
  <2>3. CASE finished' = finished + 1
    BY <1>1, <1>2, <2>2, <2>3, ReturnedFinite, ReturnedFiniteThen DEF ReturnInv
  <2>4. CASE finished' # finished + 1
    <3>1. finished' = finished /\ pump'.pc # "signal"
      BY <1>1, <1>4, <2>1, <2>4
         DEF PumpStep, PumpReceive, PumpSnapshot, PumpDiff, PumpPush, PumpAdvance,
             PumpTurnDone, FinishTurn, PumpGoes, PumpType
    <3>2. InHand(pump') = 0
      BY <3>1 DEF InHand
    <3>3. Waiting(turnDone') + InHand(pump') <= Waiting(turnDone) + InHand(pump)
      BY <2>2, <3>2, ReturnedFinite
    <3> QED BY <1>1, <1>2, <3>1, <3>3, ReturnRests
  <2> QED BY <2>3, <2>4
<1> QED BY <1>3, <1>4

\* The server and its agent keep the balance.
LEMMA ServerReturns ==
    TypeOK /\ ReturnInv /\ (ServerStep \/ SubprocessStep) => ReturnInv'
<1> SUFFICES ASSUME TypeOK, ReturnInv, ServerStep \/ SubprocessStep PROVE ReturnInv'
  OBVIOUS
<1>1. CASE UNCHANGED sessionVars
  <2>1. UNCHANGED <<hp, turnDone, pump, finished>>
    BY <1>1 DEF sessionVars, turnVars, promptVars, pumpVars
  <2> QED BY <2>1 DEF ReturnInv, Returned, Waiting, InHand
<1> QED BY <1>1, HandlerReturns, PromptReturns, PumpReturns DEF ServerStep, SubprocessStep

\* At the start nothing has returned and nothing has finished.
LEMMA InitReturns == SessionInit => ReturnInv
<1> SUFFICES ASSUME SessionInit PROVE ReturnInv
  OBVIOUS
<1>1. Returned = {} /\ Waiting(turnDone) = 0 /\ InHand(pump) = 0 /\ finished = 0
  BY DEF SessionInit, Returned, Waiting, InHand
<1>2. Cardinality(Returned) = 0
  BY <1>1, FS_EmptySet
<1> QED BY <1>1, <1>2 DEF ReturnInv

\* What the balance says of the calls that have returned.
LEMMA ReturnsBalance == TypeOK /\ ReturnInv => OneReturnPerTurn
<1> SUFFICES ASSUME TypeOK, ReturnInv PROVE OneReturnPerTurn
  OBVIOUS
<1>1. finished \in Nat
  BY DEF TypeOK, SessionTypeOK
<1>2. Cardinality(Returned) <= finished
  BY <1>1, ReturnedFinite DEF ReturnInv
<1> QED BY <1>2 DEF OneReturnPerTurn, Returned

-----------------------------------------------------------------------------
(* The store and the start of the agent *)

\* The store only ever holds content under its own hash: Put compares the two.
LEMMA StoreIntact == Intact(blobs) /\ (ServerStep \/ SubprocessStep) => Intact(blobs)'
<1> SUFFICES ASSUME Intact(blobs), ServerStep \/ SubprocessStep PROVE Intact(blobs')
  BY DEF Intact
<1> USE DEF svcVars, sessionVars
<1>1. CASE DispatchBlob
  <2>1. CASE blobs' = blobs
    BY <2>1
  <2>2. CASE blobs' # blobs
    <3> DEFINE h == Head(c2s).hash
               c == Head(c2s).content
    <3>1. Hash[c] = h /\ blobs' = Put(blobs, h, c)
      BY <1>1, <2>2 DEF DispatchBlob
    <3> HIDE DEF h, c
    <3> QED BY <3>1 DEF Put, Intact
  <2> QED BY <2>1, <2>2
<1>2. CASE ~DispatchBlob
  <2>1. CASE HandlerStep
    BY <1>2, <2>1 DEF HandlerStep, DispatchStart, DispatchSyncDone, DispatchReady,
         DispatchPrompt, DispatchInterrupt, DispatchUnknown, DispatchReturns, HangUp,
         CloseTakes, CloseStopsAgent, CloseWaits, CloseRemoves
  <2>2. ASSUME NEW i \in 1..MaxPrompts, PromptStep(i) PROVE blobs' = blobs
    BY <2>2 DEF PromptStep, PromptStart, PromptSnapshot, PromptBaseline, PromptDrain,
         PromptSend, PromptWait
  <2>3. CASE PumpStep
    BY <2>3 DEF PumpStep, PumpReceive, PumpSnapshot, PumpDiff, PumpPush, PumpAdvance,
         PumpTurnDone, PumpSignal
  <2>4. CASE SubprocessStep
    BY <2>4 DEF SubprocessStep
  <2> QED BY <2>1, <2>2, <2>3, <2>4 DEF ServerStep
<1> QED BY <1>1, <1>2

\* Only SyncDone gives the Service an agent, where everything comes up.
LEMMA AgentComesFromSyncDone ==
    (ServerStep \/ SubprocessStep) /\ ~svcAgent /\ svcAgent' =>
        ServerReads("sync.done") /\ SyncDoneStarts /\ UNCHANGED manifest
<1> SUFFICES ASSUME ServerStep \/ SubprocessStep, ~svcAgent, svcAgent'
             PROVE  ServerReads("sync.done") /\ SyncDoneStarts /\ UNCHANGED manifest
  OBVIOUS
<1> USE DEF svcVars, sessionVars
<1>1. CASE HandlerStep
  BY <1>1 DEF HandlerStep, DispatchStart, DispatchBlob, DispatchSyncDone, DispatchReady,
       DispatchPrompt, DispatchInterrupt, DispatchUnknown, DispatchReturns, HangUp,
       CloseTakes, CloseStopsAgent, CloseWaits, CloseRemoves, SyncDoneAgain,
       SyncDoneNoWorkspace, SyncDoneNoAgent
<1>2. ASSUME NEW i \in 1..MaxPrompts, PromptStep(i) PROVE svcAgent' = svcAgent
  BY <1>2 DEF PromptStep, PromptStart, PromptSnapshot, PromptBaseline, PromptDrain,
       PromptSend, PromptWait
<1>3. CASE PumpStep
  BY <1>3 DEF PumpStep, PumpReceive, PumpSnapshot, PumpDiff, PumpPush, PumpAdvance,
       PumpTurnDone, PumpSignal
<1>4. CASE SubprocessStep
  BY <1>4 DEF SubprocessStep
<1> QED BY <1>1, <1>2, <1>3, <1>4 DEF ServerStep

\* The files the agent starts in are those of the manifest.
LEMMA AgentStarts ==
    ASSUME Intact(blobs), ServerStep \/ SubprocessStep, ~svcAgent, svcAgent'
    PROVE  /\ DOMAIN files' = DOMAIN manifest
           /\ \A p \in DOMAIN manifest : Hash[files'[p].content] = manifest[p].hash
<1>1. files' = Materialize(manifest, blobs) /\ CanMaterialize(manifest, blobs)
  BY AgentComesFromSyncDone DEF SyncDoneStarts
<1>2. DOMAIN files' = DOMAIN manifest
  BY <1>1 DEF Materialize
<1>3. \A p \in DOMAIN manifest :
        files'[p].content = blobs[manifest[p].hash] /\ manifest[p].hash \in DOMAIN blobs
  BY <1>1 DEF Materialize, CanMaterialize
<1> QED BY <1>2, <1>3 DEF Intact
=============================================================================
