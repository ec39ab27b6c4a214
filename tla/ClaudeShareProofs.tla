-------------------------- MODULE ClaudeShareProofs --------------------------
(***************************************************************************)
(* What the shipped client and the server guarantee together, for any      *)
(* number of prompts, channel sizes, files and contents.                   *)
(***************************************************************************)
EXTENDS ClaudeShare, SessionProofs

(* Types *)

\* What the client leaves alone stays well typed.
LEMMA ClientSame == ClientTypeOK /\ UNCHANGED clientVars => ClientTypeOK'
BY DEF ClientTypeOK, clientVars, chanVars

\* Sending a message of the protocol keeps the connection well typed.
LEMMA ClientSendType ==
    ASSUME WireTypeOK, NEW m \in ClientMessages, ClientSends(m), UNCHANGED <<s2c, connUp>>
    PROVE  WireTypeOK'
BY AppendBounded, WireAssumption DEF WireTypeOK, ClientSends

\* The process ends.
LEMMA ExitType ==
    ASSUME WireTypeOK, ClientExits, UNCHANGED <<c2s, s2c>>
    PROVE  WireTypeOK' /\ client' \in ClientStates /\ reading' \in BOOLEAN
BY DEF WireTypeOK, ClientExits, ClientStates

\* A send either puts the message on the wire or ends the process.
LEMMA SendsOrType ==
    ASSUME WireTypeOK, reading \in BOOLEAN, NEW m \in ClientMessages, NEW s \in ClientStates,
           SendsOr(m, s) \/ TooLong, UNCHANGED s2c
    PROVE  WireTypeOK' /\ client' \in ClientStates /\ reading' \in BOOLEAN
<1>1. CASE ClientSends(m) /\ client' = s /\ UNCHANGED <<connUp, reading>>
  BY <1>1, ClientSendType
<1>2. CASE ClientExits /\ UNCHANGED c2s
  BY <1>2, ExitType
<1> QED BY <1>1, <1>2 DEF SendsOr, TooLong

\* The messages the client sends are the protocol's.
LEMMA SentTypes ==
    ASSUME ClientTypeOK
    PROVE  /\ [type |-> "session.start", manifest |-> listed] \in ClientMessages
           /\ [type |-> "sync.done"] \in ClientMessages
           /\ [type |-> "prompt"] \in ClientMessages
           /\ [type |-> "session.end"] \in ClientMessages
           /\ \A h \in toUpload : ByHash(h) \in DOMAIN local.files =>
                [type |-> "blob", hash |-> h, content |-> local.files[ByHash(h)].content]
                    \in ClientMessages
<1>1. listed \in Manifests /\ toUpload \subseteq Hashes /\ local.files \in Trees
  BY DEF ClientTypeOK
<1>2. \A p \in DOMAIN local.files : local.files[p].content \in Contents
  BY <1>1, TreeElim
<1>3. [type |-> "session.start", manifest |-> listed] \in ClientMessages
  BY <1>1 DEF ClientMessages
<1>4. ASSUME NEW h \in toUpload, ByHash(h) \in DOMAIN local.files
      PROVE  [type |-> "blob", hash |-> h, content |-> local.files[ByHash(h)].content]
                 \in ClientMessages
  <2>1. h \in Hashes /\ local.files[ByHash(h)].content \in Contents
    BY <1>1, <1>2, <1>4
  <2> QED BY <2>1 DEF ClientMessages
<1> QED BY <1>3, <1>4 DEF ClientMessages

\* The main goroutine keeps the types.
LEMMA MainTypes ==
    WireTypeOK /\ ClientTypeOK /\ (MainStep \/ ClientStops) => WireTypeOK' /\ ClientTypeOK'
<1> SUFFICES ASSUME WireTypeOK, ClientTypeOK, MainStep \/ ClientStops
             PROVE  WireTypeOK' /\ ClientTypeOK'
  OBVIOUS
<1> USE DEF chanVars
<1>1. CASE RunStart
  <2>1. WalkManifest(local.files, Ignored) \in Manifests
    BY WalkType DEF ClientTypeOK
  <2>2. listed' \in Manifests
    BY <1>1, <2>1 DEF RunStart, ClientTypeOK
  <2>3. client' \in ClientStates /\ reading' \in BOOLEAN
    BY <1>1 DEF RunStart, ClientExits, ClientStates, ClientTypeOK
  <2>4. connUp' \in BOOLEAN
    BY <1>1 DEF RunStart, ClientExits, WireTypeOK
  <2> QED BY <1>1, <2>2, <2>3, <2>4 DEF RunStart, ClientTypeOK, WireTypeOK
<1>2. CASE RunHello
  <2>1. WireTypeOK' /\ client' \in ClientStates /\ reading' \in BOOLEAN
    BY <1>2, SentTypes, SendsOrType DEF RunHello, ClientStates, ClientTypeOK
  <2> QED BY <1>2, <2>1 DEF RunHello, ClientTypeOK
<1>3. CASE RunSyncRequest
  BY <1>3, WireSame DEF RunSyncRequest, ClientTypeOK, ClientStates
<1>4. CASE RunUpload
  <2>1. WireTypeOK' /\ client' \in ClientStates /\ reading' \in BOOLEAN
    <3>1. CASE ClientExits /\ UNCHANGED c2s
      BY <1>4, <3>1, ExitType DEF RunUpload
    <3>2. CASE ~(ClientExits /\ UNCHANGED c2s)
      <4>1. PICK h \in toUpload :
              /\ ByHash(h) \in DOMAIN local.files
              /\ SendsOr([type |-> "blob", hash |-> h,
                          content |-> local.files[ByHash(h)].content], "upload")
        BY <1>4, <3>2 DEF RunUpload
      <4> QED BY <1>4, <4>1, SentTypes, SendsOrType DEF RunUpload, ClientStates, ClientTypeOK
    <3> QED BY <3>1, <3>2
  <2>2. toUpload' \subseteq Hashes
    BY <1>4 DEF RunUpload, ClientTypeOK
  <2> QED BY <1>4, <2>1, <2>2 DEF RunUpload, ClientTypeOK
<1>5. CASE RunSyncDone
  <2>1. WireTypeOK' /\ client' \in ClientStates /\ reading' \in BOOLEAN
    BY <1>5, SentTypes, SendsOrType DEF RunSyncDone, ClientStates, ClientTypeOK
  <2> QED BY <1>5, <2>1 DEF RunSyncDone, ClientTypeOK
<1>6. CASE RunReady
  BY <1>6, WireSame DEF RunReady, ClientTypeOK, ClientStates
<1>7. CASE ReplPrompt
  <2>1. WireTypeOK' /\ client' \in ClientStates /\ reading' \in BOOLEAN
    BY <1>7, SentTypes, SendsOrType DEF ReplPrompt, ClientStates, ClientTypeOK
  <2>2. typed' \in 0..UserPrompts
    BY <1>7, ClientAssumption DEF ReplPrompt, ClientTypeOK
  <2> QED BY <1>7, <2>1, <2>2 DEF ReplPrompt, ClientTypeOK
<1>8. CASE ReplTurnDone
  BY <1>8, WireSame DEF ReplTurnDone, ClientTypeOK, ClientStates
<1>9. CASE ReplEnd
  <2>1. WireTypeOK' /\ client' \in ClientStates /\ reading' \in BOOLEAN
    BY <1>9, SentTypes, SendsOrType DEF ReplEnd, ClientStates, ClientTypeOK
  <2> QED BY <1>9, <2>1 DEF ReplEnd, ClientTypeOK
<1>10. CASE MainReturns \/ WaitFails \/ ClientStops
  <2>1. WireTypeOK' /\ client' \in ClientStates /\ reading' \in BOOLEAN
    BY <1>10, ExitType DEF MainReturns, WaitFails, ClientStops
  <2> QED BY <1>10, <2>1 DEF MainReturns, WaitFails, ClientStops, ClientTypeOK
<1> QED BY <1>1, <1>2, <1>3, <1>4, <1>5, <1>6, <1>7, <1>8, <1>9, <1>10 DEF MainStep

\* Taking a message keeps the connection typed, and the message is one of the
\* protocol.
LEMMA ClientTakesType ==
    ASSUME WireTypeOK, NEW t, ClientReads(t), UNCHANGED <<c2s, connUp>>
    PROVE  WireTypeOK' /\ Head(s2c) \in ServerMessages /\ Head(s2c).type = t
BY TailBounded, WireAssumption DEF WireTypeOK, ClientReads

\* Apply keeps the type of the project.
LEMMA ApplyType ==
    ASSUME ClientTypeOK, NEW m \in ServerMessages, m.type = "file.change"
    PROVE  Apply(local, m.change, IF m.change.op = "delete" THEN NoFiles ELSE m.content)
               \in [files : Trees, dirs : SUBSET Paths]
<1>1. /\ local.files \in Trees /\ local.dirs \in SUBSET Paths
      /\ local \in [files : Trees, dirs : SUBSET Paths]
  BY DEF ClientTypeOK
<1>2. CASE m.change.op = "delete"
  <2>1. Restrict(local.files, DOMAIN local.files \ {m.change.path}) \in Trees
    BY <1>1, RestrictType DEF Trees
  <2> QED BY <1>1, <1>2, <2>1 DEF Apply, Remove
<1>3. CASE m.change.op # "delete"
  <2>1. /\ m.content \in Contents
        /\ m.change \in [op : {"create", "modify"}, path : Paths, hash : Hashes, mode : Modes]
    BY <1>3 DEF ServerMessages, Changes
  <2>2. [content |-> m.content, mode |-> EffectiveMode(m.change.mode)] \in FileEntry
    BY <2>1, ModeAssumption DEF FileEntry, EffectiveMode
  <2>3. Put(local.files, m.change.path,
            [content |-> m.content, mode |-> EffectiveMode(m.change.mode)]) \in Trees
    BY <1>1, <2>1, <2>2, PutType DEF Trees
  <2>4. AncestorsOf[m.change.path] \subseteq Paths
    BY <2>1, PathAssumption
  <2> QED BY <1>1, <1>3, <2>3, <2>4 DEF Apply, Write
<1> QED BY <1>2, <1>3

\* readLoop keeps the types.
LEMMA ReaderTypes ==
    WireTypeOK /\ ClientTypeOK /\ ReaderStep => WireTypeOK' /\ ClientTypeOK'
<1> SUFFICES ASSUME WireTypeOK, ClientTypeOK, ReaderStep PROVE WireTypeOK' /\ ClientTypeOK'
  OBVIOUS
<1>1. ASSUME ReadMessage PROVE WireTypeOK' /\ ClientTypeOK'
  <2>1. WireTypeOK'
    BY <1>1, ClientTakesType
       DEF ReadMessage, ReadSyncRequest, ReadReady, ReadShown, ReadFileChange, ReadTurnDone
  <2>2. CASE ReadSyncRequest
    <3>1. Head(s2c) \in ServerMessages /\ Head(s2c).type = "sync.request"
      BY <1>1, <2>2, ClientTakesType DEF ReadMessage, ReadSyncRequest
    <3>2. Head(s2c).missing \subseteq Hashes
      BY <3>1 DEF ServerMessages
    <3> QED BY <1>1, <2>1, <2>2, <3>2 DEF ReadMessage, ReadSyncRequest, ClientTypeOK
  <2>3. CASE ReadReady \/ ReadShown \/ ReadTurnDone
    BY <1>1, <2>1, <2>3 DEF ReadMessage, ReadReady, ReadShown, ReadTurnDone, ClientTypeOK
  <2>4. CASE ReadFileChange
    <3>1. Head(s2c) \in ServerMessages /\ Head(s2c).type = "file.change"
      BY <1>1, <2>4, ClientTakesType DEF ReadMessage, ReadFileChange
    <3>2. local' \in [files : Trees, dirs : SUBSET Paths]
      BY <2>4, <3>1, ApplyType DEF ReadFileChange, ClientTypeOK
    <3> QED BY <1>1, <2>1, <2>4, <3>2 DEF ReadMessage, ReadFileChange, ClientTypeOK
  <2> QED BY <1>1, <2>2, <2>3, <2>4 DEF ReadMessage
<1>2. ASSUME ReadFails PROVE WireTypeOK' /\ ClientTypeOK'
  BY <1>2, WireSame DEF ReadFails, ClientTypeOK
<1> QED BY <1>1, <1>2 DEF ReaderStep

\* The user's edits keep the types.
LEMMA UserTypes ==
    WireTypeOK /\ ClientTypeOK /\ UserEdits => WireTypeOK' /\ ClientTypeOK'
<1> SUFFICES ASSUME WireTypeOK, ClientTypeOK, UserEdits PROVE WireTypeOK' /\ ClientTypeOK'
  OBVIOUS
<1>1. /\ local.files \in Trees /\ local.dirs \in SUBSET Paths
      /\ local \in [files : Trees, dirs : SUBSET Paths]
  BY DEF ClientTypeOK
<1>2. PICK p \in Paths :
        local' \in {Remove(local, p)} \cup {Write(local, p, f) : f \in FileEntry}
  BY DEF UserEdits
<1>3. Remove(local, p) \in [files : Trees, dirs : SUBSET Paths]
  <2>1. Restrict(local.files, DOMAIN local.files \ {p}) \in Trees
    BY <1>1, RestrictType DEF Trees
  <2> QED BY <1>1, <2>1 DEF Remove
<1>4. ASSUME NEW f \in FileEntry
      PROVE  Write(local, p, f) \in [files : Trees, dirs : SUBSET Paths]
  <2>1. Put(local.files, p, f) \in Trees /\ AncestorsOf[p] \subseteq Paths
    BY <1>1, PutType, PathAssumption DEF Trees
  <2> QED BY <1>1, <2>1 DEF Write
<1>5. local' \in [files : Trees, dirs : SUBSET Paths]
  BY <1>2, <1>3, <1>4
<1>6. edits' \in 0..LocalEdits
  BY ClientAssumption DEF UserEdits, ClientTypeOK
<1> QED BY <1>5, <1>6, WireSame DEF UserEdits, ClientTypeOK, chanVars

\* Every step keeps the types.
LEMMA AllTypes == TypeOK /\ ClientTypeOK /\ [Next]_vars => TypeOK' /\ ClientTypeOK'
<1> SUFFICES ASSUME TypeOK, ClientTypeOK, [Next]_vars PROVE TypeOK' /\ ClientTypeOK'
  OBVIOUS
<1>1. CASE Server \/ Subprocess
  BY <1>1, ServerTypes, ClientSame DEF Server, Subprocess
<1>2. CASE Client
  <2>1. AgentTypeOK' /\ SessionTypeOK'
    BY <1>2, AgentSame, SessionSame DEF Client, TypeOK
  <2> QED BY <1>2, <2>1, MainTypes, ReaderTypes, UserTypes DEF Client, ClientStep, TypeOK
<1>3. CASE Network
  <2>1. AgentTypeOK' /\ SessionTypeOK' /\ ClientTypeOK'
    BY <1>3, AgentSame, SessionSame, ClientSame DEF Network, TypeOK
  <2> QED BY <1>3, <2>1 DEF Network, ConnLost, TypeOK, WireTypeOK
<1>4. CASE UNCHANGED vars
  BY <1>4, WireSame, AgentSame, SessionSame, ClientSame DEF vars, serverVars, TypeOK
<1> QED BY <1>1, <1>2, <1>3, <1>4 DEF Next

\* The client's variables have their types at the start.
LEMMA ClientInitTypes == ClientInit => ClientTypeOK
<1> SUFFICES ASSUME ClientInit PROVE ClientTypeOK
  OBVIOUS
<1>1. PICK f \in Trees : local = [files |-> f, dirs |-> DirsOf(DOMAIN f)]
  BY DEF ClientInit
<1>2. DOMAIN f \subseteq Paths
  BY TreeElim
<1>3. DirsOf(DOMAIN f) \subseteq Paths
  BY <1>2, PathAssumption DEF DirsOf
<1>4. NoFiles \in Manifests
  BY NoFilesType DEF Manifests
<1>5. local \in [files : Trees, dirs : SUBSET Paths]
  BY <1>1, <1>3
<1>6. client \in ClientStates /\ listed \in Manifests
  BY <1>4 DEF ClientInit, ClientStates
<1>7. {ready, turnOver, readErr, reading} \subseteq BOOLEAN
  BY DEF ClientInit
<1>8. typed \in 0..UserPrompts /\ edits \in 0..LocalEdits
  BY ClientAssumption DEF ClientInit
<1>9. toUpload \subseteq Hashes /\ syncReq \subseteq SUBSET Hashes
  BY DEF ClientInit
<1> QED BY <1>5, <1>6, <1>7, <1>8, <1>9 DEF ClientTypeOK

\* The client's files, messages and channels have their types in every state of a
\* session, and so has the server's side of it.
THEOREM ClientTypeCorrect == Spec => [](TypeOK /\ ClientTypeOK)
<1>1. Init => TypeOK /\ ClientTypeOK
  BY InitTypes, ClientInitTypes DEF Init
<1> QED BY <1>1, AllTypes, PTL DEF Spec

-----------------------------------------------------------------------------
(* What is in the queues *)

\* The positions of a queue of messages that hold one of type t, and of a queue
\* of lines or events that hold one of kind k.
Typed(q, t) == {n \in DOMAIN q : q[n].type = t}
OfKind(q, k) == {n \in DOMAIN q : q[n].kind = k}

\* Sending a message adds its position, if it is of the type.
LEMMA TypedAppend ==
    ASSUME NEW S, NEW q \in Seq(S), NEW m \in S, NEW t
    PROVE  Typed(Append(q, m), t) =
             IF m.type = t THEN Typed(q, t) \cup {Len(q) + 1} ELSE Typed(q, t)
<1> DEFINE r == Append(q, m)
<1>1. /\ DOMAIN q = 1..Len(q) /\ Len(q) \in Nat
      /\ DOMAIN r = 1..(Len(q) + 1)
      /\ \A n \in 1..Len(q) : r[n] = q[n]
      /\ r[Len(q) + 1] = m
  OBVIOUS
<1> HIDE DEF r
<1>2. \A n : n \in Typed(r, t) <=> n \in Typed(q, t) \/ (n = Len(q) + 1 /\ m.type = t)
  BY <1>1 DEF Typed
<1>3. Typed(r, t) = IF m.type = t THEN Typed(q, t) \cup {Len(q) + 1} ELSE Typed(q, t)
  BY <1>2
<1> QED BY <1>3 DEF r

\* Taking the first message moves the others up by one.
LEMMA TypedTail ==
    ASSUME NEW S, NEW q \in Seq(S), q # <<>>, NEW t
    PROVE  /\ \A n \in Typed(Tail(q), t) :
                n \in Nat \ {0} /\ n + 1 \in Typed(q, t) /\ Tail(q)[n] = q[n + 1]
           /\ Head(q).type = t <=> 1 \in Typed(q, t)
           /\ Head(q) = q[1]
<1> DEFINE r == Tail(q)
<1>1. /\ DOMAIN q = 1..Len(q) /\ Len(q) \in Nat \ {0}
      /\ DOMAIN r = 1..(Len(q) - 1)
      /\ \A n \in 1..(Len(q) - 1) : r[n] = q[n + 1]
      /\ Head(q) = q[1]
  OBVIOUS
<1> HIDE DEF r
<1>2. \A n \in Typed(r, t) : n \in Nat \ {0} /\ n + 1 \in Typed(q, t) /\ r[n] = q[n + 1]
  BY <1>1 DEF Typed
<1>3. Head(q).type = t <=> 1 \in Typed(q, t)
  BY <1>1 DEF Typed
<1> QED BY <1>1, <1>2, <1>3 DEF r

\* The same for lines and events.
LEMMA OfKindAppend ==
    ASSUME NEW S, NEW q \in Seq(S), NEW m \in S, NEW k
    PROVE  OfKind(Append(q, m), k) =
             IF m.kind = k THEN OfKind(q, k) \cup {Len(q) + 1} ELSE OfKind(q, k)
<1> DEFINE r == Append(q, m)
<1>1. /\ DOMAIN q = 1..Len(q) /\ Len(q) \in Nat
      /\ DOMAIN r = 1..(Len(q) + 1)
      /\ \A n \in 1..Len(q) : r[n] = q[n]
      /\ r[Len(q) + 1] = m
  OBVIOUS
<1> HIDE DEF r
<1>2. \A n : n \in OfKind(r, k) <=> n \in OfKind(q, k) \/ (n = Len(q) + 1 /\ m.kind = k)
  BY <1>1 DEF OfKind
<1>3. OfKind(r, k) = IF m.kind = k THEN OfKind(q, k) \cup {Len(q) + 1} ELSE OfKind(q, k)
  BY <1>2
<1> QED BY <1>3 DEF r

\* Taking the first of them.
LEMMA OfKindTail ==
    ASSUME NEW S, NEW q \in Seq(S), q # <<>>, NEW k
    PROVE  /\ \A n \in OfKind(Tail(q), k) : n \in Nat \ {0} /\ n + 1 \in OfKind(q, k)
           /\ Head(q).kind = k <=> 1 \in OfKind(q, k)
<1> DEFINE r == Tail(q)
<1>1. /\ DOMAIN q = 1..Len(q) /\ Len(q) \in Nat \ {0}
      /\ DOMAIN r = 1..(Len(q) - 1)
      /\ \A n \in 1..(Len(q) - 1) : r[n] = q[n + 1]
      /\ Head(q) = q[1]
  OBVIOUS
<1> HIDE DEF r
<1>2. \A n \in OfKind(r, k) : n \in Nat \ {0} /\ n + 1 \in OfKind(q, k)
  BY <1>1 DEF OfKind
<1>3. Head(q).kind = k <=> 1 \in OfKind(q, k)
  BY <1>1 DEF OfKind
<1> QED BY <1>2, <1>3 DEF r

\* Keeping only a prefix.
LEMMA OfKindPrefix ==
    ASSUME NEW S, NEW q \in Seq(S), NEW l \in 0..Len(q), NEW k
    PROVE  OfKind(SubSeq(q, 1, l), k) \subseteq OfKind(q, k)
<1> DEFINE r == SubSeq(q, 1, l)
<1>1. /\ DOMAIN q = 1..Len(q) /\ Len(q) \in Nat
      /\ DOMAIN r = 1..l
      /\ \A n \in 1..l : r[n] = q[n]
  OBVIOUS
<1> HIDE DEF r
<1>2. OfKind(r, k) \subseteq OfKind(q, k)
  BY <1>1 DEF OfKind
<1> QED BY <1>2 DEF r

\* Positions are numbers.
LEMMA PositionTypes ==
    ASSUME NEW S, NEW q \in Seq(S), NEW t
    PROVE  Typed(q, t) \subseteq Nat \ {0} /\ OfKind(q, t) \subseteq Nat \ {0}
<1>1. DOMAIN q = 1..Len(q) /\ Len(q) \in Nat
  OBVIOUS
<1> QED BY <1>1 DEF Typed, OfKind

\* An empty queue has none.
LEMMA NothingTyped == \A t : Typed(<<>>, t) = {} /\ OfKind(<<>>, t) = {}
<1>1. DOMAIN <<>> = {}
  OBVIOUS
<1> QED BY <1>1 DEF Typed, OfKind

-----------------------------------------------------------------------------
(* What one step of the server or of its agent does to the connection and    *)
(* to what the client has to know of it.                                     *)

\* The server takes the next message, whatever its type.
Takes == c2s # <<>> /\ c2s' = Tail(c2s)

ServerEffect ==
    /\ c2s' = c2s \/ Takes
    /\ \/ manifest' = manifest
       \/ Takes /\ Head(c2s).type = "session.start" /\ manifest' = Head(c2s).manifest
    /\ \/ prompts' = prompts
       \/ Takes /\ Head(c2s).type = "prompt" /\ prompts' = prompts + 1
    /\ handler' = "ready" =>
         \/ handler = "ready"
         \/ Takes /\ Head(c2s).type = "sync.done"
    /\ \/ s2c' = s2c
       \/ \E m \in ServerMessages :
            /\ s2c' = Append(s2c, m)
            /\ m.type = "sync.request" =>
                 /\ Takes /\ Head(c2s).type = "session.start"
                 /\ manifest' = Head(c2s).manifest
            /\ m.type = "session.ready" => handler = "ready"
            /\ m.type = "file.change" => PumpPush
            /\ m.type = "turn.done" => PumpTurnDone

\* An error is none of the messages the client waits for.
LEMMA TriesError ==
    ASSUME ServerTries(ErrorMsg)
    PROVE  s2c' = s2c \/ \E m \in ServerMessages : s2c' = Append(s2c, m) /\ m.type = "error"
BY ErrorIsMessage DEF ServerTries, ServerSends, ErrorMsg

\* The handler answers session.start with a request and becomes ready by a
\* sync.done only.
LEMMA HandlerEffect == TypeOK /\ HandlerStep => ServerEffect
<1> SUFFICES ASSUME TypeOK, HandlerStep PROVE ServerEffect
  OBVIOUS
<1> USE DEF svcVars, turnVars, closeVars, promptVars, pumpVars, wireVars
<1>1. CASE DispatchStart
  <2>1. ServerReads("session.start") /\ manifest' = Head(c2s).manifest
        /\ UNCHANGED prompts /\ handler = "dispatch" /\ handler' \in {"dispatch", "hangup"}
    BY <1>1 DEF DispatchStart, DispatchFails
  <2>2. s2c' = s2c \/ ServerTries(ErrorMsg)
        \/ ServerSends([type |-> "sync.request", missing |-> Missing(manifest')])
    BY <1>1 DEF DispatchStart, DispatchFails
  <2>3. [type |-> "sync.request", missing |-> Missing(manifest')] \in ServerMessages
    <3>1. manifest' \in Manifests
      BY <2>1, MessageRead DEF TypeOK
    <3>2. Missing(manifest') \subseteq Hashes
      BY <3>1, ManifestElim DEF Missing
    <3> QED BY <3>2 DEF ServerMessages
  <2> DEFINE request == [type |-> "sync.request", missing |-> Missing(manifest')]
  <2>4. request.type = "sync.request"
    OBVIOUS
  <2>5. \/ s2c' = s2c
        \/ \E m \in ServerMessages :
             s2c' = Append(s2c, m) /\ m.type \in {"error", "sync.request"}
    <3> HIDE DEF request
    <3>1. s2c' = s2c \/ ServerTries(ErrorMsg) \/ s2c' = Append(s2c, request)
      BY <2>2 DEF ServerSends, request
    <3>2. request \in ServerMessages
      BY <2>3 DEF request
    <3> QED BY <2>4, <3>1, <3>2, TriesError
  <2> QED BY <2>1, <2>5 DEF ServerEffect, Takes, ServerReads
<1>2. CASE DispatchBlob \/ DispatchInterrupt \/ DispatchUnknown
  <2>1. Takes /\ UNCHANGED <<manifest, prompts>> /\ handler = "dispatch"
        /\ handler' \in {"dispatch", "hangup"}
    BY <1>2 DEF DispatchBlob, DispatchInterrupt, DispatchUnknown, DispatchFails, Takes,
                ServerReads
  <2>2. s2c' = s2c \/ ServerTries(ErrorMsg)
    BY <1>2 DEF DispatchBlob, DispatchInterrupt, DispatchUnknown, DispatchFails
  <2> QED BY <2>1, <2>2, TriesError DEF ServerEffect
<1>3. CASE DispatchSyncDone
  <2>1. Takes /\ Head(c2s).type = "sync.done" /\ UNCHANGED <<manifest, prompts>>
    BY <1>3 DEF DispatchSyncDone, Takes, ServerReads
  <2>2. s2c' = s2c \/ ServerTries(ErrorMsg)
    BY <1>3 DEF DispatchSyncDone, SyncDoneAgain, SyncDoneStarts, SyncDoneNoWorkspace,
                SyncDoneNoAgent, DispatchFails
  <2> QED BY <2>1, <2>2, TriesError DEF ServerEffect
<1>4. CASE DispatchReady
  <2>1. [type |-> "session.ready"] \in ServerMessages
    BY DEF ServerMessages
  <2>2. s2c' = s2c \/ \E m \in ServerMessages : s2c' = Append(s2c, m) /\ m.type = "session.ready"
    BY <1>4, <2>1 DEF DispatchReady, ServerSends
  <2>3. UNCHANGED <<c2s, manifest, prompts>> /\ handler = "ready"
    BY <1>4 DEF DispatchReady
  <2> QED BY <2>2, <2>3 DEF ServerEffect
<1>5. CASE DispatchPrompt
  <2>1. Takes /\ Head(c2s).type = "prompt" /\ prompts' = prompts + 1
        /\ UNCHANGED <<manifest, handler, s2c>>
    BY <1>5 DEF DispatchPrompt, Takes, ServerReads
  <2> QED BY <2>1 DEF ServerEffect
<1>6. CASE DispatchReturns \/ HangUp \/ CloseTakes \/ CloseStopsAgent \/ CloseWaits
           \/ CloseRemoves
  <2>1. (c2s' = c2s \/ Takes) /\ UNCHANGED <<manifest, prompts, s2c>> /\ handler' # "ready"
    BY <1>6 DEF DispatchReturns, HangUp, CloseTakes, CloseStopsAgent, CloseWaits,
                CloseRemoves, Takes, ServerReads
  <2> QED BY <2>1 DEF ServerEffect
<1> QED BY <1>1, <1>2, <1>3, <1>4, <1>5, <1>6 DEF HandlerStep

\* HandlePrompt tells the client of errors only.
LEMMA PromptEffect ==
    ASSUME TypeOK, NEW i \in 1..MaxPrompts, PromptStep(i)
    PROVE  ServerEffect
<1> USE DEF svcVars, turnVars, closeVars, promptVars, pumpVars, wireVars
<1>1. UNCHANGED <<c2s, manifest, prompts, handler>>
  BY DEF PromptStep, PromptStart, PromptSnapshot, PromptBaseline, PromptDrain, PromptSend,
         PromptWait
<1>2. s2c' = s2c \/ ServerTries(ErrorMsg)
  BY DEF PromptStep, PromptStart, PromptSnapshot, PromptBaseline, PromptDrain, PromptSend,
         PromptWait, PromptFails
<1> QED BY <1>1, <1>2, TriesError DEF ServerEffect

\* The pump sends events, changes and, at the end of finishTurn, turn.done.
LEMMA PumpEffect == TypeOK /\ PumpStep => ServerEffect
<1> SUFFICES ASSUME TypeOK, PumpStep PROVE ServerEffect
  OBVIOUS
<1> USE DEF svcVars, turnVars, closeVars, promptVars, pumpVars, wireVars
<1>1. UNCHANGED <<c2s, manifest, prompts, handler>>
  BY DEF PumpStep, PumpReceive, PumpSnapshot, PumpDiff, PumpPush, PumpAdvance,
         PumpTurnDone, PumpSignal
<1>2. s2c' = s2c
      \/ \E m \in ServerMessages :
           /\ s2c' = Append(s2c, m)
           /\ \/ m.type = "stream.event"
              \/ m.type = "file.change" /\ PumpPush
              \/ m.type = "turn.done" /\ PumpTurnDone
  <2>1. CASE PumpReceive
    <3>1. [type |-> "stream.event"] \in ServerMessages
      BY DEF ServerMessages
    <3> QED BY <2>1, <3>1 DEF PumpReceive, ServerSends
  <2>2. CASE PumpPush
    <3>1. PICK ch \in pump.todo :
            \/ /\ ch.op = "delete" \/ ch.path \in DOMAIN files
               /\ ServerSends(FileChangeMsg(ch))
            \/ s2c' = s2c
      BY <2>2 DEF PumpPush
    <3>2. ch \in Changes /\ files \in Trees
      BY DEF TypeOK, SessionTypeOK, AgentTypeOK, PumpType
    <3>3. CASE ServerSends(FileChangeMsg(ch)) /\ (ch.op = "delete" \/ ch.path \in DOMAIN files)
      <4>1. FileChangeMsg(ch) \in ServerMessages
        BY <3>2, <3>3, FileChangeType
      <4>2. FileChangeMsg(ch).type = "file.change"
        BY DEF FileChangeMsg
      <4> QED BY <2>2, <3>3, <4>1, <4>2 DEF ServerSends
    <3> QED BY <3>1, <3>3
  <2>3. CASE PumpTurnDone
    <3>1. [type |-> "turn.done"] \in ServerMessages
      BY DEF ServerMessages
    <3> QED BY <2>3, <3>1 DEF PumpTurnDone, ServerSends
  <2>4. CASE PumpSnapshot \/ PumpDiff \/ PumpAdvance \/ PumpSignal
    BY <2>4 DEF PumpSnapshot, PumpDiff, PumpAdvance, PumpSignal
  <2> QED BY <2>1, <2>2, <2>3, <2>4 DEF PumpStep
<1> QED BY <1>1, <1>2 DEF ServerEffect

\* Every step of the server, of readLoop and of claude.
LEMMA ServerEffects == TypeOK /\ (ServerStep \/ SubprocessStep) => ServerEffect
<1> SUFFICES ASSUME TypeOK, ServerStep \/ SubprocessStep PROVE ServerEffect
  OBVIOUS
<1>1. CASE UNCHANGED <<wireVars, sessionVars>>
  BY <1>1 DEF ServerEffect, wireVars, sessionVars, svcVars, promptVars
<1> QED BY <1>1, HandlerEffect, PromptEffect, PumpEffect DEF ServerStep, SubprocessStep

-----------------------------------------------------------------------------
(* The sync handshake *)

\* The server's manifest is the client's from the time a sync request is on its
\* way: a session.start carries the list, it is the only one to, and a client
\* that has not listed its files has not said anything.
StartInv ==
    /\ client \in {"start", "hello"} =>
         c2s = <<>> /\ Typed(s2c, "sync.request") = {} /\ syncReq = {}
    /\ \A n \in Typed(c2s, "session.start") : c2s[n].manifest = listed
    /\ (\/ Typed(s2c, "sync.request") # {}
        \/ syncReq # {}
        \/ client \in {"upload", "starting"}
        \/ Typed(c2s, "sync.done") # {})
       => manifest = listed

\* session.ready is on its way to the main goroutine.
ReadySeen ==
    \/ handler = "ready"
    \/ Typed(s2c, "session.ready") # {}
    \/ ready

\* sync.done is the last message of the handshake: once session.ready is on its
\* way, the server has read everything, so the client comes to its prompt with
\* nothing in flight, and sends one prompt at a time.
ReadyInv ==
    /\ client \in {"start", "hello", "syncing", "upload"} =>
         Typed(c2s, "sync.done") = {} /\ ~ReadySeen
    /\ client = "starting" =>
         /\ \A n \in Typed(c2s, "sync.done") : n = Len(c2s)
         /\ Typed(c2s, "sync.done") # {} => ~ReadySeen
         /\ ReadySeen => c2s = <<>>
    /\ client = "repl" => c2s = <<>>
    /\ client = "turn" => c2s \in {<<>>, <<[type |-> "prompt"]>>}
    /\ prompts <= typed
    /\ Typed(c2s, "prompt") # {} => prompts < typed

\* What the server's effect does to the messages from the client.
LEMMA TakesTyped ==
    ASSUME TypeOK, ServerEffect, NEW t
    PROVE  /\ Typed(c2s', t) # {} => Typed(c2s, t) # {}
           /\ c2s = <<>> => c2s' = <<>>
           /\ \A n \in Typed(c2s', t) :
                \E k \in Typed(c2s, t) : /\ c2s'[n] = c2s[k]
                                         /\ k \in {n, n + 1}
                                         /\ k = Len(c2s) => n = Len(c2s')
<1>1. c2s \in Seq(ClientMessages)
  BY DEF TypeOK, WireTypeOK
<1>2. CASE c2s' = c2s
  BY <1>1, <1>2, PositionTypes
<1>3. CASE Takes
  <2>1. c2s # <<>> /\ c2s' = Tail(c2s)
    BY <1>3 DEF Takes
  <2>2. \A n \in Typed(c2s', t) :
          n \in Nat \ {0} /\ n + 1 \in Typed(c2s, t) /\ c2s'[n] = c2s[n + 1]
    <3>1. \A n \in Typed(Tail(c2s), t) :
            n \in Nat \ {0} /\ n + 1 \in Typed(c2s, t) /\ Tail(c2s)[n] = c2s[n + 1]
      BY <1>1, <2>1, TypedTail, ZenonT(40)
    <3> QED BY <2>1, <3>1, Zenon
  <2>3. Len(c2s) \in Nat /\ Len(c2s') = Len(c2s) - 1
    BY <1>1, <2>1
  <2>4. \A n \in Typed(c2s', t) : n + 1 = Len(c2s) => n = Len(c2s')
    BY <2>2, <2>3
  <2> QED BY <2>1, <2>2, <2>4
<1> QED BY <1>2, <1>3 DEF ServerEffect

\* What it does to the messages to the client.
LEMMA SendsTyped ==
    ASSUME TypeOK, ServerEffect
    PROVE  /\ Typed(s2c', "sync.request") # {} =>
                \/ Typed(s2c, "sync.request") # {}
                \/ /\ Takes /\ Head(c2s).type = "session.start"
                   /\ manifest' = Head(c2s).manifest
           /\ Typed(s2c', "session.ready") # {} =>
                Typed(s2c, "session.ready") # {} \/ handler = "ready"
<1>1. s2c \in Seq(ServerMessages)
  BY DEF TypeOK, WireTypeOK
<1>2. CASE s2c' = s2c
  BY <1>2
<1>3. CASE s2c' # s2c
  <2>1. PICK m \in ServerMessages :
          /\ s2c' = Append(s2c, m)
          /\ m.type = "sync.request" =>
               /\ Takes /\ Head(c2s).type = "session.start"
               /\ manifest' = Head(c2s).manifest
          /\ m.type = "session.ready" => handler = "ready"
    BY <1>3 DEF ServerEffect
  <2>2. \A t : m.type # t => Typed(s2c', t) = Typed(s2c, t)
    BY <1>1, <2>1, TypedAppend
  <2> QED BY <2>1, <2>2
<1> QED BY <1>2, <1>3

\* The server keeps StartInv.
LEMMA ServerStart ==
    ASSUME TypeOK, StartInv, ServerEffect, UNCHANGED clientVars
    PROVE  StartInv'
<1>1. UNCHANGED <<client, listed, syncReq>>
  BY DEF clientVars, chanVars
<1>2. c2s \in Seq(ClientMessages)
  BY DEF TypeOK, WireTypeOK
<1>3. ASSUME Takes, Head(c2s).type = "session.start" PROVE Head(c2s).manifest = listed /\ c2s # <<>>
  <2>1. 1 \in Typed(c2s, "session.start") /\ Head(c2s) = c2s[1]
    BY <1>2, <1>3, TypedTail DEF Takes
  <2> QED BY <1>3, <2>1 DEF StartInv, Takes
<1>4. manifest' = manifest \/ manifest' = listed
  BY <1>3 DEF ServerEffect
<1>5. Typed(s2c', "sync.request") # {} =>
        Typed(s2c, "sync.request") # {} \/ (manifest' = listed /\ c2s # <<>>)
  BY <1>3, SendsTyped
<1>6. \A n \in Typed(c2s', "session.start") : c2s'[n].manifest = listed
  BY TakesTyped DEF StartInv
<1>7. Typed(c2s', "sync.done") # {} => Typed(c2s, "sync.done") # {}
  BY TakesTyped
<1>8. c2s = <<>> => c2s' = <<>>
  BY TakesTyped
<1> QED BY <1>1, <1>4, <1>5, <1>6, <1>7, <1>8 DEF StartInv

\* The server keeps ReadyInv: it becomes ready by reading the last message, and
\* counts a prompt when it takes it off the connection.
LEMMA ServerReady ==
    ASSUME TypeOK, ClientTypeOK, ReadyInv, ServerEffect, UNCHANGED clientVars,
           \A m, n \in Typed(c2s, "prompt") : m = n
    PROVE  ReadyInv'
<1>1. UNCHANGED <<client, ready, typed>>
  BY DEF clientVars, chanVars
<1>2. c2s \in Seq(ClientMessages) /\ prompts \in Nat /\ typed \in Nat
  BY SessionAssumption, ClientAssumption
     DEF TypeOK, WireTypeOK, SessionTypeOK, ClientTypeOK
<1>3. c2s = <<>> => c2s' = <<>>
  BY TakesTyped
<1>4. Typed(<<>>, "sync.done") = {} /\ Typed(<<>>, "prompt") = {}
  BY NothingTyped
<1>5. ReadySeen' => ReadySeen \/ (Takes /\ 1 \in Typed(c2s, "sync.done"))
  <2>1. Takes /\ Head(c2s).type = "sync.done" => 1 \in Typed(c2s, "sync.done")
    BY <1>2, TypedTail DEF Takes
  <2>2. handler' = "ready" => handler = "ready" \/ (Takes /\ Head(c2s).type = "sync.done")
    BY DEF ServerEffect
  <2> QED BY <1>1, <2>1, <2>2, SendsTyped DEF ReadySeen
<1>6. Typed(c2s', "sync.done") # {} => Typed(c2s, "sync.done") # {}
  BY TakesTyped
<1>7. ASSUME client = "starting"
      PROVE  /\ \A n \in Typed(c2s', "sync.done") : n = Len(c2s')
             /\ Typed(c2s', "sync.done") # {} => ~ReadySeen'
             /\ ReadySeen' => c2s' = <<>>
  <2>1. ASSUME Takes, 1 \in Typed(c2s, "sync.done") PROVE c2s' = <<>>
    <3>1. Len(c2s) = 1 /\ c2s' = Tail(c2s)
      BY <1>7, <2>1 DEF ReadyInv, Takes
    <3> QED BY <1>2, <3>1
  <2>2. ReadySeen' => c2s' = <<>>
    BY <1>3, <1>5, <1>7, <2>1 DEF ReadyInv
  <2>3. \A n \in Typed(c2s', "sync.done") : n = Len(c2s')
    BY <1>7, TakesTyped DEF ReadyInv
  <2> QED BY <1>4, <2>2, <2>3
<1>8. client = "turn" => c2s' \in {<<>>, <<[type |-> "prompt"]>>}
  <2>1. CASE c2s = <<[type |-> "prompt"]>> /\ c2s' = Tail(c2s)
    <3>1. c2s' = <<>>
      BY <2>1
    <3> QED BY <3>1
  <2> QED BY <1>3, <2>1 DEF ReadyInv, ServerEffect, Takes
<1>9. prompts' <= typed' /\ (Typed(c2s', "prompt") # {} => prompts' < typed')
  <2>1. CASE prompts' = prompts
    BY <1>1, <2>1, TakesTyped DEF ReadyInv
  <2>2. CASE Takes /\ Head(c2s).type = "prompt" /\ prompts' = prompts + 1
    <3>1. c2s # <<>> /\ c2s' = Tail(c2s) /\ 1 \in Typed(c2s, "prompt")
      BY <1>2, <2>2, TypedTail DEF Takes
    <3>2. \A n \in Typed(Tail(c2s), "prompt") : n \in Nat \ {0} /\ n + 1 \in Typed(c2s, "prompt")
      BY <1>2, <3>1, TypedTail
    <3>3. Typed(Tail(c2s), "prompt") = {}
      BY <3>1, <3>2
    <3>4. prompts < typed
      BY <3>1 DEF ReadyInv
    <3> QED BY <1>1, <1>2, <2>2, <3>1, <3>3, <3>4
  <2> QED BY <2>1, <2>2 DEF ServerEffect
<1> QED BY <1>1, <1>3, <1>5, <1>6, <1>7, <1>8, <1>9 DEF ReadyInv

\* What the connection is left as when the client's process ends, and when the
\* client sends a message.
LEMMA SendsOrEffect ==
    ASSUME NEW m, NEW s, SendsOr(m, s) \/ TooLong
    PROVE  \/ c2s' = Append(c2s, m) /\ client' = s
           \/ c2s' = c2s /\ client' = "exit"
BY DEF SendsOr, ClientSends, TooLong, ClientExits

\* The main goroutine keeps StartInv.
LEMMA MainStart ==
    ASSUME TypeOK, ClientTypeOK, StartInv, ReadyInv, MainStep \/ ClientStops,
           UNCHANGED sessionVars
    PROVE  StartInv'
<1>1. UNCHANGED manifest
  BY DEF sessionVars, svcVars
<1>2. c2s \in Seq(ClientMessages)
  BY DEF TypeOK, WireTypeOK
<1>3. Typed(<<>>, "session.start") = {} /\ Typed(<<>>, "sync.done") = {}
  BY NothingTyped
<1>4. CASE RunStart
  <2>1. c2s' = <<>> /\ Typed(s2c', "sync.request") = {} /\ syncReq' = {}
        /\ client' \in {"hello", "exit"}
    BY <1>4 DEF RunStart, StartInv, ClientExits, chanVars
  <2> QED BY <1>3, <2>1 DEF StartInv
<1>5. CASE RunHello
  <2> DEFINE m == [type |-> "session.start", manifest |-> listed]
  <2>1. UNCHANGED <<s2c, syncReq, listed>> /\ c2s = <<>>
        /\ Typed(s2c, "sync.request") = {} /\ syncReq = {}
    BY <1>5 DEF RunHello, StartInv, chanVars
  <2>2. CASE c2s' = Append(c2s, m) /\ client' = "syncing"
    <3>1. m \in ClientMessages /\ m.type = "session.start" /\ m.manifest = listed
      BY SentTypes
    <3> HIDE DEF m
    <3>2. Typed(c2s', "session.start") = {1} /\ Typed(c2s', "sync.done") = {}
      <4>1. \A t : Typed(Append(c2s, m), t) =
                     IF m.type = t THEN Typed(c2s, t) \cup {Len(c2s) + 1} ELSE Typed(c2s, t)
        BY <1>2, <3>1, TypedAppend
      <4>2. Len(c2s) + 1 = 1
        BY <2>1
      <4> QED BY <1>3, <2>1, <2>2, <3>1, <4>1, <4>2
    <3>3. c2s'[1] = m
      BY <2>1, <2>2
    <3> QED BY <2>1, <2>2, <3>1, <3>2, <3>3 DEF StartInv
  <2>3. CASE c2s' = c2s /\ client' = "exit"
    BY <1>1, <1>3, <2>1, <2>3 DEF StartInv
  <2> HIDE DEF m
  <2>4. SendsOr(m, "syncing") \/ TooLong
    BY <1>5 DEF RunHello, m
  <2> QED BY <2>2, <2>3, <2>4, SendsOrEffect
<1>6. CASE RunSyncRequest
  <2>1. UNCHANGED <<c2s, s2c, listed>> /\ syncReq # {} /\ syncReq' = {} /\ client' = "upload"
    BY <1>6 DEF RunSyncRequest, wireVars
  <2> QED BY <1>1, <2>1 DEF StartInv
<1>7. CASE RunUpload \/ RunSyncDone \/ ReplPrompt \/ ReplEnd
  <2>1. UNCHANGED <<s2c, syncReq, listed>>
    BY <1>7 DEF RunUpload, RunSyncDone, ReplPrompt, ReplEnd, chanVars
  <2>2. \/ c2s' = c2s /\ client' = "exit"
        \/ \E m \in ClientMessages, s \in {"upload", "starting", "turn", "bye"} :
             /\ c2s' = Append(c2s, m) /\ client' = s
             /\ m.type # "session.start"
             /\ s \in {"upload", "starting"} \/ m.type = "sync.done" => client = "upload"
    <3>1. CASE RunUpload
      <4>1. CASE \E h \in toUpload :
                   /\ ByHash(h) \in DOMAIN local.files
                   /\ SendsOr([type |-> "blob", hash |-> h,
                               content |-> local.files[ByHash(h)].content], "upload")
        <5>1. PICK h \in toUpload :
                   /\ ByHash(h) \in DOMAIN local.files
                   /\ SendsOr([type |-> "blob", hash |-> h,
                               content |-> local.files[ByHash(h)].content], "upload")
          BY <4>1
        <5> DEFINE m == [type |-> "blob", hash |-> h, content |-> local.files[ByHash(h)].content]
        <5>2. m \in ClientMessages /\ m.type = "blob" /\ SendsOr(m, "upload")
          BY <5>1, SentTypes
        <5> HIDE DEF m
        <5> QED BY <3>1, <5>2, SendsOrEffect DEF RunUpload
      <4>2. CASE c2s' = c2s /\ client' = "exit"
        BY <4>2
      <4> QED BY <3>1, <4>1, <4>2 DEF RunUpload, ClientExits
    <3>2. CASE RunSyncDone
      <4>1. [type |-> "sync.done"] \in ClientMessages
        BY SentTypes
      <4> QED BY <3>2, <4>1, SendsOrEffect DEF RunSyncDone
    <3>3. CASE ReplPrompt
      <4>1. [type |-> "prompt"] \in ClientMessages
        BY SentTypes
      <4> QED BY <3>3, <4>1, SendsOrEffect DEF ReplPrompt
    <3>4. CASE ReplEnd
      <4>1. [type |-> "session.end"] \in ClientMessages
        BY SentTypes
      <4> QED BY <3>4, <4>1, SendsOrEffect DEF ReplEnd
    <3> QED BY <1>7, <3>1, <3>2, <3>3, <3>4
  <2>3. CASE c2s' = c2s /\ client' = "exit"
    BY <1>1, <2>1, <2>3 DEF StartInv
  <2>4. CASE c2s' # c2s
    <3>1. PICK m \in ClientMessages, s \in {"upload", "starting", "turn", "bye"} :
             /\ c2s' = Append(c2s, m) /\ client' = s
             /\ m.type # "session.start"
             /\ s \in {"upload", "starting"} \/ m.type = "sync.done" => client = "upload"
      BY <2>2, <2>4
    <3>2. Typed(c2s', "session.start") = Typed(c2s, "session.start")
          /\ \A n \in Typed(c2s, "session.start") : c2s'[n] = c2s[n]
      <4>1. Typed(c2s', "session.start") = Typed(c2s, "session.start")
        BY <1>2, <3>1, TypedAppend
      <4>2. \A n \in DOMAIN c2s : Append(c2s, m)[n] = c2s[n]
        BY <1>2
      <4> QED BY <3>1, <4>1, <4>2 DEF Typed
    <3>3. m.type # "sync.done" => Typed(c2s', "sync.done") = Typed(c2s, "sync.done")
      BY <1>2, <3>1, TypedAppend
    <3> QED BY <1>1, <2>1, <3>1, <3>2, <3>3 DEF StartInv
  <2> QED BY <2>2, <2>3, <2>4
<1>8. CASE RunReady \/ ReplTurnDone \/ MainReturns \/ WaitFails \/ ClientStops
  <2>1. UNCHANGED <<c2s, s2c, syncReq, listed>> /\ client' \in {"repl", "exit"}
    BY <1>8 DEF RunReady, ReplTurnDone, MainReturns, WaitFails, ClientStops, ClientExits,
                chanVars, wireVars
  <2> QED BY <1>1, <2>1 DEF StartInv
<1> QED BY <1>4, <1>5, <1>6, <1>7, <1>8 DEF MainStep

\* The main goroutine keeps ReadyInv; the completion of a turn tells it that the
\* prompt has been taken.
LEMMA MainReady ==
    ASSUME TypeOK, ClientTypeOK, ReadyInv, MainStep \/ ClientStops, UNCHANGED sessionVars,
           client = "turn" /\ turnOver => Typed(c2s, "prompt") = {}
    PROVE  ReadyInv'
<1>1. UNCHANGED <<handler, prompts>>
  BY DEF sessionVars, promptVars
<1>2. c2s \in Seq(ClientMessages) /\ prompts \in Nat /\ typed \in Nat
  BY SessionAssumption, ClientAssumption
     DEF TypeOK, WireTypeOK, SessionTypeOK, ClientTypeOK
<1>3. ASSUME c2s' = c2s, client' = "exit", typed' \in {typed, typed + 1}
      PROVE  ReadyInv'
  BY <1>1, <1>2, <1>3 DEF ReadyInv
<1>4. CASE RunStart
  <2>1. UNCHANGED <<c2s, s2c, ready, typed>> /\ client = "start" /\ client' \in {"hello", "exit"}
    BY <1>4 DEF RunStart, ClientExits, chanVars
  <2> QED BY <1>1, <2>1 DEF ReadyInv, ReadySeen
<1>5. CASE RunHello \/ RunUpload
  <2>1. UNCHANGED <<s2c, ready, typed>> /\ client \in {"hello", "upload"}
    BY <1>5 DEF RunHello, RunUpload, chanVars
  <2>2. \/ c2s' = c2s /\ client' = "exit"
        \/ \E m \in ClientMessages :
             /\ c2s' = Append(c2s, m) /\ client' \in {"syncing", "upload"}
             /\ m.type \in {"session.start", "blob"}
    <3>1. CASE RunHello
      <4>1. [type |-> "session.start", manifest |-> listed] \in ClientMessages
        BY SentTypes
      <4> QED BY <3>1, <4>1, SendsOrEffect DEF RunHello
    <3>2. CASE RunUpload
      <4>1. CASE \E h \in toUpload :
                   /\ ByHash(h) \in DOMAIN local.files
                   /\ SendsOr([type |-> "blob", hash |-> h,
                               content |-> local.files[ByHash(h)].content], "upload")
        <5>1. PICK h \in toUpload :
                   /\ ByHash(h) \in DOMAIN local.files
                   /\ SendsOr([type |-> "blob", hash |-> h,
                               content |-> local.files[ByHash(h)].content], "upload")
          BY <4>1
        <5> DEFINE m == [type |-> "blob", hash |-> h, content |-> local.files[ByHash(h)].content]
        <5>2. m \in ClientMessages /\ m.type = "blob" /\ SendsOr(m, "upload")
          BY <5>1, SentTypes
        <5> HIDE DEF m
        <5> QED BY <5>2, SendsOrEffect
      <4>2. CASE c2s' = c2s /\ client' = "exit"
        BY <4>2
      <4> QED BY <3>2, <4>1, <4>2 DEF RunUpload, ClientExits
    <3> QED BY <1>5, <3>1, <3>2
  <2>3. CASE c2s' # c2s
    <3>1. PICK m \in ClientMessages :
             /\ c2s' = Append(c2s, m) /\ client' \in {"syncing", "upload"}
             /\ m.type \in {"session.start", "blob"}
      BY <2>2, <2>3
    <3>2. Typed(c2s', "sync.done") = Typed(c2s, "sync.done")
          /\ Typed(c2s', "prompt") = Typed(c2s, "prompt")
      BY <1>2, <3>1, TypedAppend
    <3> QED BY <1>1, <2>1, <3>1, <3>2 DEF ReadyInv, ReadySeen
  <2> QED BY <1>3, <2>1, <2>2, <2>3
<1>6. CASE RunSyncRequest
  <2>1. UNCHANGED <<c2s, s2c, ready, typed>> /\ client = "syncing" /\ client' = "upload"
    BY <1>6 DEF RunSyncRequest, wireVars
  <2> QED BY <1>1, <2>1 DEF ReadyInv, ReadySeen
<1>7. CASE RunSyncDone
  <2> DEFINE m == [type |-> "sync.done"]
  <2>1. UNCHANGED <<s2c, ready, typed>> /\ client = "upload"
    BY <1>7 DEF RunSyncDone, chanVars
  <2>2. m \in ClientMessages /\ m.type = "sync.done" /\ (SendsOr(m, "starting") \/ TooLong)
    BY <1>7, SentTypes DEF RunSyncDone
  <2> HIDE DEF m
  <2>3. CASE c2s' = Append(c2s, m) /\ client' = "starting"
    <3>1. Typed(c2s', "sync.done") = Typed(c2s, "sync.done") \cup {Len(c2s) + 1}
          /\ Typed(c2s', "prompt") = Typed(c2s, "prompt")
      BY <1>2, <2>2, <2>3, TypedAppend
    <3>2. Len(c2s') = Len(c2s) + 1
      BY <1>2, <2>3
    <3>3. Typed(c2s, "sync.done") = {} /\ ~ReadySeen
      BY <2>1 DEF ReadyInv
    <3>4. ~ReadySeen'
      BY <1>1, <2>1, <3>3 DEF ReadySeen
    <3> QED BY <1>1, <2>1, <2>3, <3>1, <3>2, <3>3, <3>4 DEF ReadyInv
  <2> QED BY <1>3, <2>1, <2>2, <2>3, SendsOrEffect
<1>8. CASE RunReady \/ ReplTurnDone
  <2>1. UNCHANGED <<c2s, typed>> /\ client' = "repl"
    BY <1>8 DEF RunReady, ReplTurnDone, wireVars
  <2>2. c2s = <<>>
    <3>1. CASE RunReady
      BY <3>1 DEF RunReady, ReadyInv, ReadySeen
    <3>2. CASE ReplTurnDone
      <4>1. Typed(c2s, "prompt") = {} /\ c2s \in {<<>>, <<[type |-> "prompt"]>>}
        BY <3>2 DEF ReplTurnDone, ReadyInv
      <4>2. 1 \in Typed(<<[type |-> "prompt"]>>, "prompt")
        BY DEF Typed
      <4> QED BY <4>1, <4>2
    <3> QED BY <1>8, <3>1, <3>2
  <2> QED BY <1>1, <2>1, <2>2 DEF ReadyInv
<1>9. CASE ReplPrompt
  <2> DEFINE m == [type |-> "prompt"]
  <2>1. client = "repl" /\ typed' = typed + 1 /\ c2s = <<>>
    BY <1>9 DEF ReplPrompt, ReadyInv
  <2>2. CASE c2s' = Append(c2s, m) /\ client' = "turn"
    <3>1. c2s' = <<m>>
      BY <2>1, <2>2
    <3>2. prompts' <= typed' /\ prompts' < typed'
      BY <1>1, <1>2, <2>1 DEF ReadyInv
    <3> QED BY <2>2, <3>1, <3>2 DEF ReadyInv
  <2>3. SendsOr(m, "turn") \/ TooLong
    BY <1>9 DEF ReplPrompt
  <2> HIDE DEF m
  <2> QED BY <1>3, <2>1, <2>2, <2>3, SendsOrEffect
<1>10. CASE ReplEnd
  <2> DEFINE m == [type |-> "session.end"]
  <2>1. typed' = typed
    BY <1>10 DEF ReplEnd
  <2>2. m \in ClientMessages /\ m.type = "session.end" /\ (SendsOr(m, "bye") \/ TooLong)
    BY <1>10, SentTypes DEF ReplEnd
  <2> HIDE DEF m
  <2>3. CASE c2s' = Append(c2s, m) /\ client' = "bye"
    <3>1. Typed(c2s', "prompt") = Typed(c2s, "prompt")
      BY <1>2, <2>2, <2>3, TypedAppend
    <3> QED BY <1>1, <2>1, <2>3, <3>1 DEF ReadyInv
  <2> QED BY <1>3, <2>1, <2>2, <2>3, SendsOrEffect
<1>11. CASE MainReturns \/ WaitFails \/ ClientStops
  <2>1. UNCHANGED <<c2s, typed>> /\ client' = "exit"
    BY <1>11 DEF MainReturns, WaitFails, ClientStops, ClientExits
  <2> QED BY <1>3, <2>1
<1> QED BY <1>4, <1>5, <1>6, <1>7, <1>8, <1>9, <1>10, <1>11 DEF MainStep

\* readLoop hands the sync request and session.ready on as they come.
LEMMA ReaderEffect ==
    ASSUME TypeOK, ReaderStep \/ UserEdits, UNCHANGED sessionVars
    PROVE  /\ UNCHANGED <<c2s, client, listed, typed, manifest, handler, prompts>>
           /\ ReadySeen' => ReadySeen
           /\ Typed(s2c', "sync.request") # {} \/ syncReq' # {} =>
                Typed(s2c, "sync.request") # {} \/ syncReq # {}
<1>1. UNCHANGED <<c2s, client, listed, typed, manifest, handler, prompts>>
  BY DEF ReaderStep, ReadMessage, ReadFails, UserEdits, sessionVars, svcVars, promptVars,
         wireVars
<1>2. s2c \in Seq(ServerMessages)
  BY DEF TypeOK, WireTypeOK
<1>3. CASE s2c' = s2c /\ UNCHANGED <<ready, syncReq>>
  BY <1>1, <1>3 DEF ReadySeen
<1>4. CASE s2c # <<>> /\ s2c' = Tail(s2c)
           /\ (ready' = ready \/ Head(s2c).type = "session.ready")
           /\ (syncReq' = syncReq \/ Head(s2c).type = "sync.request")
  <2>1. \A t : Typed(Tail(s2c), t) # {} => Typed(s2c, t) # {}
    BY <1>2, <1>4, TypedTail
  <2>2. \A t : Head(s2c).type = t => Typed(s2c, t) # {}
    BY <1>2, <1>4, TypedTail
  <2> QED BY <1>1, <1>4, <2>1, <2>2 DEF ReadySeen
<1> QED BY <1>3, <1>4
        DEF ReaderStep, ReadMessage, ReadFails, ReadSyncRequest, ReadReady, ReadShown,
            ReadFileChange, ReadTurnDone, ClientReads, UserEdits, wireVars, chanVars

\* It keeps both.
LEMMA ReaderHandshake ==
    ASSUME TypeOK, StartInv, ReadyInv, ReaderStep \/ UserEdits, UNCHANGED sessionVars
    PROVE  StartInv' /\ ReadyInv'
<1>1. /\ UNCHANGED <<c2s, client, listed, typed, manifest, handler, prompts>>
      /\ ReadySeen' => ReadySeen
      /\ Typed(s2c', "sync.request") # {} \/ syncReq' # {} =>
           Typed(s2c, "sync.request") # {} \/ syncReq # {}
  BY ReaderEffect
<1>2. StartInv'
  BY <1>1 DEF StartInv
<1>3. ReadyInv'
  BY <1>1 DEF ReadyInv
<1> QED BY <1>2, <1>3

-----------------------------------------------------------------------------
(* Where the turn is *)

\* HandlePrompt before it has written the prompt to claude, claude at work, pump
\* in finishTurn before it has told the client, and the client told.
Preparing(h) == {i \in 1..MaxPrompts : h[i].pc \in {"start", "snap", "base", "drain", "send"}}
Working(p) == IF p = "busy" THEN {1} ELSE {}
Finishing(p) == IF p.pc \in {"snap", "diff", "push", "turndone"} THEN {1} ELSE {}
Over(b) == IF b THEN {1} ELSE {}

\* The turns under way, each as the place it has come to: from the client's
\* prompt message to the signal that takes the client back to its prompt.
Turns ==
    ({"asked"} \X Typed(c2s, "prompt"))
    \cup ({"preparing"} \X Preparing(hp))
    \cup ({"given"} \X (1..stdin))
    \cup ({"working"} \X Working(proc))
    \cup ({"printed"} \X OfKind(pipe, "result"))
    \cup ({"delivered"} \X OfKind(events, "result"))
    \cup ({"finishing"} \X Finishing(pump))
    \cup ({"told"} \X Typed(s2c, "turn.done"))
    \cup ({"over"} \X Over(turnOver))

\* The client waits for the end of the turn it has asked for, so there is at most
\* one, and none unless it waits or has gone.
TurnInv ==
    /\ \A s, t \in Turns : s = t
    /\ client \notin {"turn", "exit"} => Turns = {}

\* The only turn there may be is at x in place a.
OnlyTurn(a, x) ==
    /\ Typed(c2s, "prompt") \subseteq IF a = "asked" THEN {x} ELSE {}
    /\ Preparing(hp) \subseteq IF a = "preparing" THEN {x} ELSE {}
    /\ 1..stdin \subseteq IF a = "given" THEN {x} ELSE {}
    /\ Working(proc) \subseteq IF a = "working" THEN {x} ELSE {}
    /\ OfKind(pipe, "result") \subseteq IF a = "printed" THEN {x} ELSE {}
    /\ OfKind(events, "result") \subseteq IF a = "delivered" THEN {x} ELSE {}
    /\ Finishing(pump) \subseteq IF a = "finishing" THEN {x} ELSE {}
    /\ Typed(s2c, "turn.done") \subseteq IF a = "told" THEN {x} ELSE {}
    /\ Over(turnOver) \subseteq IF a = "over" THEN {x} ELSE {}

\* A turn is one of the nine.
LEMMA TurnPlaces ==
    \A t : t \in Turns <=>
        \/ \E x \in Typed(c2s, "prompt") : t = <<"asked", x>>
        \/ \E x \in Preparing(hp) : t = <<"preparing", x>>
        \/ \E x \in 1..stdin : t = <<"given", x>>
        \/ \E x \in Working(proc) : t = <<"working", x>>
        \/ \E x \in OfKind(pipe, "result") : t = <<"printed", x>>
        \/ \E x \in OfKind(events, "result") : t = <<"delivered", x>>
        \/ \E x \in Finishing(pump) : t = <<"finishing", x>>
        \/ \E x \in Typed(s2c, "turn.done") : t = <<"told", x>>
        \/ \E x \in Over(turnOver) : t = <<"over", x>>
BY DEF Turns

\* A turn that is somewhere is the only one.
LEMMA SoleTurn ==
    ASSUME TurnInv, NEW a, NEW x, <<a, x>> \in Turns
    PROVE  OnlyTurn(a, x) /\ client \in {"turn", "exit"}
<1>1. \A t \in Turns : t = <<a, x>>
  BY DEF TurnInv
<1>2. client \in {"turn", "exit"}
  BY DEF TurnInv
<1>3. \A b, y : <<b, y>> \in Turns => b = a /\ y = x
  BY <1>1
<1>4. /\ \A y \in Typed(c2s, "prompt") : <<"asked", y>> \in Turns
      /\ \A y \in Preparing(hp) : <<"preparing", y>> \in Turns
      /\ \A y \in 1..stdin : <<"given", y>> \in Turns
      /\ \A y \in Working(proc) : <<"working", y>> \in Turns
      /\ \A y \in OfKind(pipe, "result") : <<"printed", y>> \in Turns
      /\ \A y \in OfKind(events, "result") : <<"delivered", y>> \in Turns
      /\ \A y \in Finishing(pump) : <<"finishing", y>> \in Turns
      /\ \A y \in Typed(s2c, "turn.done") : <<"told", y>> \in Turns
      /\ \A y \in Over(turnOver) : <<"over", y>> \in Turns
  BY TurnPlaces
<1>5. OnlyTurn(a, x)
  BY <1>3, <1>4 DEF OnlyTurn
<1> QED BY <1>2, <1>5

\* In the state after a step, too.
LEMMA TurnPlacesThen ==
    \A t : t \in Turns' <=>
        \/ \E x \in Typed(c2s', "prompt") : t = <<"asked", x>>
        \/ \E x \in Preparing(hp') : t = <<"preparing", x>>
        \/ \E x \in 1..stdin' : t = <<"given", x>>
        \/ \E x \in Working(proc') : t = <<"working", x>>
        \/ \E x \in OfKind(pipe', "result") : t = <<"printed", x>>
        \/ \E x \in OfKind(events', "result") : t = <<"delivered", x>>
        \/ \E x \in Finishing(pump') : t = <<"finishing", x>>
        \/ \E x \in Typed(s2c', "turn.done") : t = <<"told", x>>
        \/ \E x \in Over(turnOver') : t = <<"over", x>>
BY DEF Turns

\* A step after which there is only one place for a turn leaves at most one; a
\* place that is none of the nine has none.
LEMMA TurnMoves ==
    ASSUME NEW a, NEW x, OnlyTurn(a, x)', client' \in {"turn", "exit"} \/ a = "nowhere"
    PROVE  TurnInv'
<1>1. ASSUME NEW t \in Turns' PROVE t = <<a, x>> /\ a # "nowhere"
  BY TurnPlacesThen DEF OnlyTurn
<1> QED BY <1>1 DEF TurnInv

\* The positions of A are positions of B, all of them moved by the same distance.
Shrinks(A, B) == \E d \in {0, 1} : \A n \in A : n \in Nat /\ n + d \in B

\* A step that brings no turn to a new place keeps TurnInv.
LEMMA TurnRests ==
    ASSUME TurnInv,
           Shrinks(Typed(c2s', "prompt"), Typed(c2s, "prompt")),
           Shrinks(Preparing(hp'), Preparing(hp)),
           Shrinks(1..stdin', 1..stdin),
           Shrinks(Working(proc'), Working(proc)),
           Shrinks(OfKind(pipe', "result"), OfKind(pipe, "result")),
           Shrinks(OfKind(events', "result"), OfKind(events, "result")),
           Shrinks(Finishing(pump'), Finishing(pump)),
           Shrinks(Typed(s2c', "turn.done"), Typed(s2c, "turn.done")),
           Shrinks(Over(turnOver'), Over(turnOver)),
           client' \notin {"turn", "exit"} => client \notin {"turn", "exit"}
    PROVE  TurnInv'
<1>1. \A a : \E d \in {0, 1} :
        \A x : <<a, x>> \in Turns' => x \in Nat /\ <<a, x + d>> \in Turns
  <2> TAKE a
  <2>1. CASE a = "asked"
    BY <2>1, TurnPlaces, TurnPlacesThen DEF Shrinks
  <2>2. CASE a = "preparing"
    BY <2>2, TurnPlaces, TurnPlacesThen DEF Shrinks
  <2>3. CASE a = "given"
    BY <2>3, TurnPlaces, TurnPlacesThen DEF Shrinks
  <2>4. CASE a = "working"
    BY <2>4, TurnPlaces, TurnPlacesThen DEF Shrinks
  <2>5. CASE a = "printed"
    BY <2>5, TurnPlaces, TurnPlacesThen DEF Shrinks
  <2>6. CASE a = "delivered"
    BY <2>6, TurnPlaces, TurnPlacesThen DEF Shrinks
  <2>7. CASE a = "finishing"
    BY <2>7, TurnPlaces, TurnPlacesThen DEF Shrinks
  <2>8. CASE a = "told"
    BY <2>8, TurnPlaces, TurnPlacesThen DEF Shrinks
  <2>9. CASE a = "over"
    BY <2>9, TurnPlaces, TurnPlacesThen DEF Shrinks
  <2> QED BY <2>1, <2>2, <2>3, <2>4, <2>5, <2>6, <2>7, <2>8, <2>9, TurnPlacesThen
<1>2. \A t \in Turns' : \E a, x : t = <<a, x>>
  BY TurnPlacesThen
<1>3. ASSUME NEW a, NEW x, <<a, x>> \in Turns', NEW b, NEW y, <<b, y>> \in Turns'
      PROVE  a = b /\ x = y
  <2>1. PICK d \in {0, 1} : \A z : <<a, z>> \in Turns' => z \in Nat /\ <<a, z + d>> \in Turns
    BY <1>1
  <2>2. PICK e \in {0, 1} : \A z : <<b, z>> \in Turns' => z \in Nat /\ <<b, z + e>> \in Turns
    BY <1>1
  <2>3. x \in Nat /\ y \in Nat /\ <<a, x + d>> = <<b, y + e>>
    BY <1>3, <2>1, <2>2 DEF TurnInv
  <2>4. a = b
    BY <2>3
  <2>5. <<a, x + d>> = <<a, y + d>>
    BY <1>3, <2>1, <2>4 DEF TurnInv
  <2> QED BY <2>3, <2>4, <2>5
<1>4. ASSUME NEW s \in Turns', NEW t \in Turns' PROVE s = t
  <2>1. PICK a, x : s = <<a, x>>
    BY <1>2
  <2>2. PICK b, y : t = <<b, y>>
    BY <1>2
  <2> QED BY <1>3, <2>1, <2>2
<1>5. Turns = {} => Turns' = {}
  BY <1>1, <1>2
<1> QED BY <1>4, <1>5 DEF TurnInv

\* What stays, and what only gets less, moves no turn.
LEMMA LessShrinks ==
    ASSUME NEW B, B \subseteq Nat, NEW A, A \subseteq B
    PROVE  Shrinks(A, B)
<1>1. \A n \in A : n \in Nat /\ n + 0 \in B
  OBVIOUS
<1> QED BY <1>1 DEF Shrinks

\* Nor does a message that is taken off the connection.
LEMMA TypedShrinks ==
    ASSUME NEW S, NEW q \in Seq(S), NEW r, r = q \/ (q # <<>> /\ r = Tail(q)), NEW t
    PROVE  Shrinks(Typed(r, t), Typed(q, t))
<1>1. CASE r = q
  BY <1>1, PositionTypes, LessShrinks
<1>2. CASE q # <<>> /\ r = Tail(q)
  <2>1. \A n \in Typed(Tail(q), t) : n \in Nat \ {0} /\ n + 1 \in Typed(q, t)
    BY <1>2, TypedTail
  <2>2. \A n \in Typed(r, t) : n \in Nat /\ n + 1 \in Typed(q, t)
    BY <1>2, <2>1, Zenon
  <2> QED BY <2>2 DEF Shrinks
<1> QED BY <1>1, <1>2

\* Nor a line or an event.
LEMMA OfKindShrinks ==
    ASSUME NEW S, NEW q \in Seq(S), NEW r, r = q \/ (q # <<>> /\ r = Tail(q)), NEW k
    PROVE  Shrinks(OfKind(r, k), OfKind(q, k))
<1>1. CASE r = q
  BY <1>1, PositionTypes, LessShrinks
<1>2. CASE q # <<>> /\ r = Tail(q)
  <2>1. \A n \in OfKind(Tail(q), k) : n \in Nat \ {0} /\ n + 1 \in OfKind(q, k)
    BY <1>2, OfKindTail
  <2>2. \A n \in OfKind(r, k) : n \in Nat /\ n + 1 \in OfKind(q, k)
    BY <1>2, <2>1, Zenon
  <2> QED BY <2>2 DEF Shrinks
<1> QED BY <1>1, <1>2

\* What a step that leaves a variable alone does to the places it holds.
LEMMA RestingPlaces ==
    ASSUME TypeOK
    PROVE  /\ c2s' = c2s => Shrinks(Typed(c2s', "prompt"), Typed(c2s, "prompt"))
           /\ hp' = hp => Shrinks(Preparing(hp'), Preparing(hp))
           /\ stdin' = stdin => Shrinks(1..stdin', 1..stdin)
           /\ proc' = proc => Shrinks(Working(proc'), Working(proc))
           /\ pipe' = pipe => Shrinks(OfKind(pipe', "result"), OfKind(pipe, "result"))
           /\ events' = events => Shrinks(OfKind(events', "result"), OfKind(events, "result"))
           /\ pump' = pump => Shrinks(Finishing(pump'), Finishing(pump))
           /\ s2c' = s2c => Shrinks(Typed(s2c', "turn.done"), Typed(s2c, "turn.done"))
           /\ turnOver' = turnOver => Shrinks(Over(turnOver'), Over(turnOver))
<1>1. /\ c2s \in Seq(ClientMessages) /\ s2c \in Seq(ServerMessages)
      /\ pipe \in Seq(Lines) /\ events \in Seq(Events) /\ stdin \in Nat
  BY DEF TypeOK, WireTypeOK, AgentTypeOK
<1>2. Typed(c2s, "prompt") \subseteq Nat /\ Typed(s2c, "turn.done") \subseteq Nat
      /\ OfKind(pipe, "result") \subseteq Nat /\ OfKind(events, "result") \subseteq Nat
  BY <1>1, PositionTypes
<1>3. Preparing(hp) \subseteq Nat
  BY SessionAssumption DEF Preparing
<1>4. /\ 1..stdin \subseteq Nat /\ Working(proc) \subseteq Nat
      /\ Finishing(pump) \subseteq Nat /\ Over(turnOver) \subseteq Nat
  BY <1>1 DEF Working, Finishing, Over
<1> QED BY <1>2, <1>3, <1>4, LessShrinks

\* A step of the server other than sending turn.done takes prompts off the
\* connection, if anything, and adds no turn.done.
LEMMA WireShrinks ==
    ASSUME TypeOK, ServerEffect, ~PumpTurnDone
    PROVE  /\ Shrinks(Typed(c2s', "prompt"), Typed(c2s, "prompt"))
           /\ Shrinks(Typed(s2c', "turn.done"), Typed(s2c, "turn.done"))
<1>1. c2s \in Seq(ClientMessages) /\ s2c \in Seq(ServerMessages)
  BY DEF TypeOK, WireTypeOK
<1>2. c2s' = c2s \/ (c2s # <<>> /\ c2s' = Tail(c2s))
  BY DEF ServerEffect, Takes
<1>3. Shrinks(Typed(c2s', "prompt"), Typed(c2s, "prompt"))
  BY <1>1, <1>2, TypedShrinks
<1>4. Shrinks(Typed(s2c', "turn.done"), Typed(s2c, "turn.done"))
  <2>1. CASE s2c' = s2c
    BY <2>1, RestingPlaces
  <2>2. CASE s2c' # s2c
    <3>1. PICK m \in ServerMessages : s2c' = Append(s2c, m) /\ m.type # "turn.done"
      BY <2>2 DEF ServerEffect
    <3>2. Typed(s2c', "turn.done") = Typed(s2c, "turn.done")
      BY <1>1, <3>1, TypedAppend
    <3> QED BY <1>1, <3>2, PositionTypes, LessShrinks
  <2> QED BY <2>1, <2>2
<1> QED BY <1>3, <1>4

\* The handler moves a turn only by taking up its prompt.
LEMMA HandlerTurns ==
    ASSUME TypeOK, TurnInv, HandlerStep, UNCHANGED clientVars
    PROVE  TurnInv'
<1> USE DEF svcVars, turnVars, closeVars, promptVars, pumpVars, wireVars, agentVars,
            procVars, streamVars, dirVars
<1>1. client' = client /\ turnOver' = turnOver
  BY DEF clientVars, chanVars
<1>2. CASE DispatchPrompt
  <2>1. c2s \in Seq(ClientMessages) /\ hp \in [1..MaxPrompts -> PromptType]
        /\ prompts + 1 \in 1..MaxPrompts
    BY <1>2, SessionAssumption DEF DispatchPrompt, TypeOK, WireTypeOK, SessionTypeOK
  <2>2. PICK i \in 1..MaxPrompts : i = prompts + 1
    BY <2>1
  <2>3. c2s # <<>> /\ c2s' = Tail(c2s) /\ 1 \in Typed(c2s, "prompt")
    BY <1>2, <2>1, TypedTail DEF DispatchPrompt, ServerReads
  <2>4. OnlyTurn("asked", 1) /\ client \in {"turn", "exit"}
    <3>1. <<"asked", 1>> \in Turns
      BY <2>3, TurnPlaces
    <3> QED BY <3>1, SoleTurn
  <2>5. Typed(c2s', "prompt") = {}
    <3>1. \A n \in Typed(Tail(c2s), "prompt") : n \in Nat \ {0} /\ n + 1 \in Typed(c2s, "prompt")
      BY <2>1, <2>3, TypedTail
    <3>2. Typed(c2s, "prompt") \subseteq {1}
      BY <2>4 DEF OnlyTurn
    <3>3. Typed(Tail(c2s), "prompt") = {}
      BY <3>1, <3>2
    <3> QED BY <2>3, <3>3
  <2>6. Preparing(hp') \subseteq {i}
    <3>1. \A j \in 1..MaxPrompts : j # i => hp'[j] = hp[j]
      BY <1>2, <2>1, <2>2 DEF DispatchPrompt
    <3>2. Preparing(hp) = {}
      BY <2>4 DEF OnlyTurn
    <3> QED BY <3>1, <3>2 DEF Preparing
  <2>7. UNCHANGED <<stdin, proc, pipe, events, pump, s2c>>
    BY <1>2 DEF DispatchPrompt
  <2>8. OnlyTurn("preparing", i)'
    BY <1>1, <2>4, <2>5, <2>6, <2>7 DEF OnlyTurn
  <2> QED BY <1>1, <2>4, <2>8, TurnMoves
<1>3. CASE ~DispatchPrompt
  <2>1. /\ hp' = hp
        /\ \/ UNCHANGED <<stdin, proc, events, pipe>>
           \/ stdin' = 0 /\ proc' = "idle" /\ events' = <<>> /\ pipe' = <<>>
           \/ /\ UNCHANGED <<stdin, proc, events>>
              /\ \E n \in 0..Len(pipe) : pipe' = SubSeq(pipe, 1, n)
    BY <1>3 DEF HandlerStep, DispatchStart, DispatchBlob, DispatchSyncDone, SyncDoneAgain,
         SyncDoneStarts, SyncDoneNoWorkspace, SyncDoneNoAgent, StartProcess, DispatchReady,
         DispatchInterrupt, DispatchUnknown, DispatchReturns, HangUp,
         CloseTakes, CloseStopsAgent, CloseStdin, CloseWaits, WaitReturns, CloseRemoves
  <2>2. pump' = pump \/ pump' = [pump EXCEPT !.pc = "recv"]
    BY <1>3 DEF HandlerStep, DispatchStart, DispatchBlob, DispatchSyncDone, SyncDoneAgain,
         SyncDoneStarts, SyncDoneNoWorkspace, SyncDoneNoAgent, DispatchReady,
         DispatchInterrupt, DispatchUnknown, DispatchReturns, HangUp,
         CloseTakes, CloseStopsAgent, CloseWaits, CloseRemoves
  <2>3. Shrinks(Finishing(pump'), Finishing(pump))
    <3>1. pump \in PumpType
      BY DEF TypeOK, SessionTypeOK
    <3>2. pump' # pump => pump'.pc = "recv"
      BY <2>2, <3>1 DEF PumpType
    <3>3. pump' # pump => Finishing(pump') = {}
      BY <3>2 DEF Finishing
    <3> QED BY <3>3, RestingPlaces DEF Shrinks
  <2>4. Shrinks(1..stdin', 1..stdin) /\ Shrinks(Working(proc'), Working(proc))
    <3>1. CASE UNCHANGED <<stdin, proc>>
      BY <3>1, RestingPlaces
    <3>2. CASE stdin' = 0 /\ proc' = "idle"
      <4>1. 1..stdin' = {} /\ Working(proc') = {}
        BY <3>2 DEF Working
      <4> QED BY <4>1 DEF Shrinks
    <3> QED BY <2>1, <3>1, <3>2
  <2>5. Shrinks(OfKind(events', "result"), OfKind(events, "result"))
    <3>1. events' = <<>> => OfKind(events', "result") = {}
      BY NothingTyped
    <3> QED BY <2>1, <3>1, RestingPlaces DEF Shrinks
  <2>6. Shrinks(OfKind(pipe', "result"), OfKind(pipe, "result"))
    <3>1. pipe' = <<>> => OfKind(pipe', "result") = {}
      BY NothingTyped
    <3>2. ASSUME NEW n \in 0..Len(pipe), pipe' = SubSeq(pipe, 1, n)
          PROVE  Shrinks(OfKind(pipe', "result"), OfKind(pipe, "result"))
      <4>1. pipe \in Seq(Lines)
        BY DEF TypeOK, AgentTypeOK
      <4>2. OfKind(pipe', "result") \subseteq OfKind(pipe, "result")
        BY <3>2, <4>1, OfKindPrefix
      <4> QED BY <4>1, <4>2, PositionTypes, LessShrinks
    <3> QED BY <2>1, <3>1, <3>2, RestingPlaces DEF Shrinks
  <2>7. ~PumpTurnDone
    <3>1. PumpTurnDone => pump.pc = "turndone" /\ pump'.pc = "signal"
      BY DEF PumpTurnDone, FinishTurn, TypeOK, SessionTypeOK, PumpType
    <3>2. pump \in PumpType
      BY DEF TypeOK, SessionTypeOK
    <3>3. pump' = pump \/ pump'.pc = "recv"
      BY <2>2, <3>2 DEF PumpType
    <3> QED BY <3>1, <3>3
  <2> QED BY <1>1, <2>1, <2>3, <2>4, <2>5, <2>6, <2>7, HandlerEffect, WireShrinks,
             RestingPlaces, TurnRests
<1> QED BY <1>2, <1>3

\* HandlePrompt moves a turn only by writing its prompt to claude.
LEMMA PromptTurns ==
    ASSUME TypeOK, TurnInv, NEW i \in 1..MaxPrompts, PromptStep(i), UNCHANGED clientVars
    PROVE  TurnInv'
<1> USE DEF svcVars, turnVars, closeVars, promptVars, pumpVars, wireVars, agentVars,
            procVars, streamVars, dirVars
<1>1. client' = client /\ turnOver' = turnOver
  BY DEF clientVars, chanVars
<1>2. hp \in [1..MaxPrompts -> PromptType] /\ stdin \in Nat
  BY DEF TypeOK, SessionTypeOK, AgentTypeOK
<1>3. UNCHANGED <<proc, pipe, events, pump>>
  BY DEF PromptStep, PromptStart, PromptSnapshot, PromptBaseline, PromptDrain, PromptSend,
         SendPrompt, PromptWait
<1>4. CASE stdin' # stdin
  <2>1. /\ hp[i].pc = "send" /\ stdin' = stdin + 1 /\ s2c' = s2c /\ c2s' = c2s
        /\ hp' = [hp EXCEPT ![i].pc = "wait", ![i].turn = sent + 1]
    BY <1>4 DEF PromptStep, PromptStart, PromptSnapshot, PromptBaseline, PromptDrain,
                PromptSend, SendPrompt, PromptWait
  <2>2. OnlyTurn("preparing", i) /\ client \in {"turn", "exit"}
    <3>1. i \in Preparing(hp)
      BY <2>1 DEF Preparing
    <3>2. <<"preparing", i>> \in Turns
      BY <3>1, TurnPlaces
    <3> QED BY <3>2, SoleTurn
  <2>3. 1..stdin' \subseteq {1}
    <3>1. 1..stdin = {}
      BY <2>2 DEF OnlyTurn
    <3>2. stdin = 0
      BY <1>2, <3>1
    <3> QED BY <2>1, <3>2
  <2>4. Preparing(hp') = {}
    <3>1. hp'[i].pc = "wait" /\ \A j \in 1..MaxPrompts : j # i => hp'[j] = hp[j]
      BY <1>2, <2>1 DEF PromptType
    <3>2. Preparing(hp) \subseteq {i}
      BY <2>2 DEF OnlyTurn
    <3> QED BY <3>1, <3>2 DEF Preparing
  <2>5. OnlyTurn("given", 1)'
    BY <1>1, <1>3, <2>1, <2>2, <2>3, <2>4 DEF OnlyTurn
  <2> QED BY <1>1, <2>2, <2>5, TurnMoves
<1>5. CASE stdin' = stdin
  <2>1. \A j \in 1..MaxPrompts : j # i => hp'[j] = hp[j]
    BY <1>2 DEF PromptStep, PromptStart, PromptSnapshot, PromptBaseline, PromptDrain,
                PromptSend, PromptWait, PromptFails
  <2>2. i \in Preparing(hp') => i \in Preparing(hp)
    <3>1. CASE PromptWait(i)
      <4>1. hp'[i].pc \in {"ok", "failed"}
        BY <1>2, <3>1 DEF PromptWait, PromptFails, PromptType
      <4> QED BY <4>1 DEF Preparing
    <3>2. CASE ~PromptWait(i)
      <4>1. hp[i].pc \in {"start", "snap", "base", "drain", "send"}
        BY <3>2 DEF PromptStep, PromptStart, PromptSnapshot, PromptBaseline, PromptDrain,
                    PromptSend
      <4> QED BY <4>1 DEF Preparing
    <3> QED BY <3>1, <3>2
  <2>3. Preparing(hp') \subseteq Preparing(hp) /\ Preparing(hp) \subseteq Nat
    BY <2>1, <2>2, SessionAssumption DEF Preparing
  <2>4. Shrinks(Preparing(hp'), Preparing(hp))
    BY <2>3, LessShrinks
  <2>5. ~PumpTurnDone
    <3>1. PumpTurnDone => pump.pc = "turndone" /\ pump'.pc = "signal"
      BY DEF PumpTurnDone, FinishTurn, TypeOK, SessionTypeOK, PumpType
    <3> QED BY <1>3, <3>1
  <2> QED BY <1>1, <1>3, <1>5, <2>4, <2>5, PromptEffect, WireShrinks, RestingPlaces, TurnRests
<1> QED BY <1>4, <1>5

\* pump takes a turn up with its result event and hands it on with turn.done.
LEMMA PumpTurns ==
    ASSUME TypeOK, TurnInv, PumpStep, UNCHANGED clientVars
    PROVE  TurnInv'
<1> USE DEF svcVars, turnVars, closeVars, promptVars, pumpVars, wireVars, agentVars,
            procVars, streamVars, dirVars
<1>1. client' = client /\ turnOver' = turnOver
  BY DEF clientVars, chanVars
<1>2. pump \in PumpType /\ events \in Seq(Events) /\ s2c \in Seq(ServerMessages)
  BY DEF TypeOK, SessionTypeOK, AgentTypeOK, WireTypeOK
<1>3. UNCHANGED <<c2s, hp, stdin, proc, pipe>>
  BY DEF PumpStep, PumpReceive, PumpSnapshot, PumpDiff, PumpPush, PumpAdvance,
         PumpTurnDone, PumpSignal
<1>4. CASE PumpTurnDone /\ s2c' # s2c
  <2>1. /\ pump.pc = "turndone" /\ pump'.pc = "signal" /\ events' = events
        /\ s2c' = Append(s2c, [type |-> "turn.done"])
    BY <1>2, <1>4 DEF PumpTurnDone, ServerSends, FinishTurn, PumpType
  <2>2. OnlyTurn("finishing", 1) /\ client \in {"turn", "exit"}
    <3>1. 1 \in Finishing(pump)
      BY <2>1 DEF Finishing
    <3>2. <<"finishing", 1>> \in Turns
      BY <3>1, TurnPlaces
    <3> QED BY <3>2, SoleTurn
  <2>3. Finishing(pump') = {}
    BY <2>1 DEF Finishing
  <2>4. PICK x : x = Len(s2c) + 1
    OBVIOUS
  <2>5. Typed(s2c', "turn.done") \subseteq {x}
    <3>1. [type |-> "turn.done"] \in ServerMessages
      BY DEF ServerMessages
    <3>2. Typed(Append(s2c, [type |-> "turn.done"]), "turn.done") =
            Typed(s2c, "turn.done") \cup {Len(s2c) + 1}
      BY <1>2, <3>1, TypedAppend
    <3>3. Typed(s2c, "turn.done") = {}
      BY <2>2 DEF OnlyTurn
    <3> QED BY <2>1, <2>4, <3>2, <3>3
  <2>6. OnlyTurn("told", x)'
    BY <1>1, <1>3, <2>1, <2>2, <2>3, <2>5 DEF OnlyTurn
  <2> QED BY <1>1, <2>2, <2>6, TurnMoves
<1>5. CASE PumpReceive /\ events # <<>> /\ Head(events).kind = "result"
  <2>1. /\ events' = Tail(events) /\ pump.pc = "recv"
        /\ pump' = [pump EXCEPT !.pc = "snap"] \/ pump' = [pump EXCEPT !.pc = "stopped"]
        /\ s2c' = s2c \/ s2c' = Append(s2c, [type |-> "stream.event"])
    BY <1>5 DEF PumpReceive, PumpGoes, ServerSends
  <2>2. OnlyTurn("delivered", 1) /\ client \in {"turn", "exit"}
    <3>1. 1 \in OfKind(events, "result")
      BY <1>2, <1>5, OfKindTail
    <3>2. <<"delivered", 1>> \in Turns
      BY <3>1, TurnPlaces
    <3> QED BY <3>2, SoleTurn
  <2>3. OfKind(events', "result") = {}
    <3>1. \A n \in OfKind(Tail(events), "result") :
            n \in Nat \ {0} /\ n + 1 \in OfKind(events, "result")
      BY <1>2, <1>5, OfKindTail
    <3>2. OfKind(events, "result") \subseteq {1}
      BY <2>2 DEF OnlyTurn
    <3>3. OfKind(Tail(events), "result") = {}
      BY <3>1, <3>2
    <3> QED BY <2>1, <3>3
  <2>4. Typed(s2c', "turn.done") = Typed(s2c, "turn.done")
    <3>1. PICK m : m = [type |-> "stream.event"]
      OBVIOUS
    <3>2. m \in ServerMessages /\ m.type # "turn.done"
      BY <3>1 DEF ServerMessages
    <3>3. s2c' = s2c \/ s2c' = Append(s2c, m)
      BY <2>1, <3>1, Zenon
    <3>4. Typed(Append(s2c, m), "turn.done") = Typed(s2c, "turn.done")
      BY <1>2, <3>2, TypedAppend
    <3> QED BY <3>3, <3>4
  <2>5. Finishing(pump') \subseteq {1}
    BY DEF Finishing
  <2>6. OnlyTurn("finishing", 1)'
    BY <1>1, <1>3, <2>2, <2>3, <2>4, <2>5 DEF OnlyTurn
  <2> QED BY <1>1, <2>2, <2>6, TurnMoves
<1>6. CASE /\ ~(PumpTurnDone /\ s2c' # s2c)
           /\ ~(PumpReceive /\ events # <<>> /\ Head(events).kind = "result")
  <2>1. Shrinks(OfKind(events', "result"), OfKind(events, "result"))
    <3>1. events' = events \/ (events # <<>> /\ events' = Tail(events))
      BY DEF PumpStep, PumpReceive, PumpSnapshot, PumpDiff, PumpPush, PumpAdvance,
             PumpTurnDone, PumpSignal
    <3> QED BY <1>2, <3>1, OfKindShrinks
  <2>2. Finishing(pump') \subseteq Finishing(pump)
    <3>1. CASE PumpReceive
      <4>1. pump'.pc \in {"recv", "stopped", "done"}
        BY <1>2, <1>6, <3>1 DEF PumpReceive, PumpGoes, PumpType
      <4> QED BY <4>1 DEF Finishing
    <3>2. CASE PumpSignal
      <4>1. pump'.pc = "recv"
        BY <1>2, <3>2 DEF PumpSignal, PumpGoes, PumpType
      <4> QED BY <4>1 DEF Finishing
    <3>3. CASE PumpSnapshot \/ PumpDiff \/ PumpPush \/ PumpAdvance \/ PumpTurnDone
      <4>1. pump.pc \in {"snap", "diff", "push", "turndone"}
        BY <3>3 DEF PumpSnapshot, PumpDiff, PumpPush, PumpAdvance, PumpTurnDone
      <4> QED BY <4>1 DEF Finishing
    <3> QED BY <3>1, <3>2, <3>3 DEF PumpStep
  <2>3. Shrinks(Finishing(pump'), Finishing(pump))
    <3>1. Finishing(pump) \subseteq Nat
      BY DEF Finishing
    <3> QED BY <2>2, <3>1, LessShrinks
  <2>4. Shrinks(Typed(s2c', "turn.done"), Typed(s2c, "turn.done"))
    BY <1>6, PumpEffect, WireShrinks, RestingPlaces
  <2> QED BY <1>1, <1>3, <2>1, <2>3, <2>4, RestingPlaces, TurnRests
<1> QED BY <1>4, <1>5, <1>6

\* The lines claude prints are of the kind it means to print.
LEMMA PrintedKind == \A k \in LineKinds : \A line \in Printed(k) : line \in Lines /\ line.kind = k
<1>1. \A k : \A line \in Printed(k) : line.kind = k
  BY DEF Printed
<1> QED BY <1>1, PrintedType

\* claude takes a prompt at a time and ends a turn with one result line.
LEMMA ClaudeTurns ==
    ASSUME TypeOK, TurnInv, SubprocessStep, UNCHANGED clientVars
    PROVE  TurnInv'
<1> USE DEF svcVars, turnVars, closeVars, promptVars, pumpVars, wireVars, agentVars,
            procVars, streamVars, dirVars, sessionVars
<1>1. client' = client /\ turnOver' = turnOver /\ UNCHANGED <<c2s, s2c, hp, pump, events>>
  BY DEF clientVars, chanVars, SubprocessStep, ClaudeStep, ClaudeBegins, ClaudeEdits,
         BackgroundEdits, ClaudePrints, ClaudeEndsTurn, ClaudeExits, ClaudeCrashes
<1>2. pipe \in Seq(Lines) /\ stdin \in Nat
  BY DEF TypeOK, AgentTypeOK
<1>3. CASE ClaudeBegins
  <2>1. 1 \in 1..stdin /\ stdin' = stdin - 1 /\ pipe' = pipe
    BY <1>2, <1>3 DEF ClaudeBegins
  <2>2. OnlyTurn("given", 1) /\ client \in {"turn", "exit"}
    <3>1. <<"given", 1>> \in Turns
      BY <2>1, TurnPlaces
    <3> QED BY <3>1, SoleTurn
  <2>3. 1..stdin' = {}
    <3>1. 1..stdin \subseteq {1}
      BY <2>2 DEF OnlyTurn
    <3>2. stdin = 1
      BY <1>2, <2>1, <3>1
    <3> QED BY <2>1, <3>2
  <2>4. Working(proc') \subseteq {1}
    BY DEF Working
  <2>5. OnlyTurn("working", 1)'
    BY <1>1, <2>1, <2>2, <2>3, <2>4 DEF OnlyTurn
  <2> QED BY <1>1, <2>2, <2>5, TurnMoves
<1>4. CASE ClaudeEndsTurn
  <2>1. /\ proc = "busy" /\ proc' = "idle" /\ stdin' = stdin
        /\ \E line \in Printed("result") : pipe' = Append(pipe, line)
    BY <1>4 DEF ClaudeEndsTurn
  <2>2. OnlyTurn("working", 1) /\ client \in {"turn", "exit"}
    <3>1. 1 \in Working(proc)
      BY <2>1 DEF Working
    <3>2. <<"working", 1>> \in Turns
      BY <3>1, TurnPlaces
    <3> QED BY <3>2, SoleTurn
  <2>3. PICK x : x = Len(pipe) + 1
    OBVIOUS
  <2>4. OfKind(pipe', "result") \subseteq {x}
    <3>1. PICK line \in Printed("result") : pipe' = Append(pipe, line)
      BY <2>1
    <3>2. line \in Lines /\ line.kind = "result"
      BY PrintedKind DEF LineKinds
    <3>3. OfKind(pipe', "result") = OfKind(pipe, "result") \cup {Len(pipe) + 1}
      BY <1>2, <3>1, <3>2, OfKindAppend
    <3>4. OfKind(pipe, "result") = {}
      BY <2>2 DEF OnlyTurn
    <3> QED BY <2>3, <3>3, <3>4
  <2>5. Working(proc') = {}
    BY <2>1 DEF Working
  <2>6. OnlyTurn("printed", x)'
    BY <1>1, <2>1, <2>2, <2>4, <2>5 DEF OnlyTurn
  <2> QED BY <1>1, <2>2, <2>6, TurnMoves
<1>5. CASE ClaudePrints
  <2>1. stdin' = stdin /\ proc' = proc
    BY <1>5 DEF ClaudePrints
  <2>2. PICK k \in Chatter : \E l \in Printed(k) : pipe' = Append(pipe, l)
    BY <1>5 DEF ClaudePrints
  <2> PICK line \in Printed(k) : pipe' = Append(pipe, line)
    BY <2>2
  <2>3. line \in Lines /\ line.kind # "result"
    BY PrintedKind, AgentAssumption
  <2>4. OfKind(pipe', "result") = OfKind(pipe, "result")
    BY <1>2, <2>3, OfKindAppend
  <2>5. Shrinks(OfKind(pipe', "result"), OfKind(pipe, "result"))
    BY <1>2, <2>4, PositionTypes, LessShrinks
  <2> QED BY <1>1, <2>1, <2>5, RestingPlaces, TurnRests
<1>6. CASE ClaudeEdits \/ BackgroundEdits \/ ClaudeExits \/ ClaudeCrashes
  <2>1. stdin' = stdin /\ pipe' = pipe /\ (proc' = proc \/ proc' = "exited")
    BY <1>6 DEF ClaudeEdits, BackgroundEdits, ClaudeExits, ClaudeCrashes
  <2>2. Shrinks(Working(proc'), Working(proc))
    <3>1. proc' = "exited" => Working(proc') = {}
      BY DEF Working
    <3> QED BY <2>1, <3>1, RestingPlaces DEF Shrinks
  <2> QED BY <1>1, <2>1, <2>2, RestingPlaces, TurnRests
<1> QED BY <1>3, <1>4, <1>5, <1>6 DEF SubprocessStep, ClaudeStep

\* readLoop delivers the result line as the result event.
LEMMA ReadLoopTurns ==
    ASSUME TypeOK, TurnInv, ReadLoopStep, UNCHANGED <<wireVars, sessionVars, clientVars>>
    PROVE  TurnInv'
<1> USE DEF svcVars, turnVars, closeVars, promptVars, pumpVars, wireVars,
            procVars, streamVars, dirVars, sessionVars
<1>1. client' = client /\ turnOver' = turnOver
      /\ UNCHANGED <<c2s, s2c, hp, pump, stdin, proc>>
  BY DEF clientVars, chanVars, ReadLoopStep, ReadLine, ReadEOF
<1>2. pipe \in Seq(Lines) /\ events \in Seq(Events)
  BY DEF TypeOK, AgentTypeOK
<1>3. CASE ReadLine
  <2>1. pipe # <<>> /\ pipe' = Tail(pipe) /\ Head(pipe) \in Lines
    BY <1>2, <1>3 DEF ReadLine
  <2>2. PICK e : e = [kind |-> ParseLine(Head(pipe)), fits |-> Head(pipe).fits]
    OBVIOUS
  <2>3. events' = events \/ (e \in Events /\ events' = Append(events, e))
    <3>1. ParseLine(Head(pipe)) # "dropped" => e \in Events
      BY <2>1, <2>2, ParseLineType DEF Events, Lines
    <3> QED BY <1>3, <2>2, <3>1 DEF ReadLine
  <2>4. e.kind = "result" <=> Head(pipe).kind = "result"
    BY <2>1, <2>2 DEF ParseLine, Lines, LineKinds
  <2>5. CASE Head(pipe).kind = "result"
    <3>1. OnlyTurn("printed", 1) /\ client \in {"turn", "exit"}
      <4>1. 1 \in OfKind(pipe, "result")
        BY <1>2, <2>1, <2>5, OfKindTail
      <4>2. <<"printed", 1>> \in Turns
        BY <4>1, TurnPlaces
      <4> QED BY <4>2, SoleTurn
    <3>2. OfKind(pipe', "result") = {}
      <4>1. \A n \in OfKind(Tail(pipe), "result") :
              n \in Nat \ {0} /\ n + 1 \in OfKind(pipe, "result")
        BY <1>2, <2>1, OfKindTail
      <4>2. OfKind(pipe, "result") \subseteq {1}
        BY <3>1 DEF OnlyTurn
      <4>3. OfKind(Tail(pipe), "result") = {}
        BY <4>1, <4>2
      <4> QED BY <2>1, <4>3
    <3>3. PICK x : x = Len(events) + 1
      OBVIOUS
    <3>4. OfKind(events', "result") \subseteq {x}
      <4>1. OfKind(events, "result") = {}
        BY <3>1 DEF OnlyTurn
      <4>2. e \in Events => OfKind(Append(events, e), "result") =
              OfKind(events, "result") \cup {Len(events) + 1}
        BY <1>2, <2>4, <2>5, OfKindAppend
      <4> QED BY <2>3, <3>3, <4>1, <4>2
    <3>5. OnlyTurn("delivered", x)'
      BY <1>1, <3>1, <3>2, <3>4 DEF OnlyTurn
    <3> QED BY <1>1, <3>1, <3>5, TurnMoves
  <2>6. CASE Head(pipe).kind # "result"
    <3>1. OfKind(events', "result") = OfKind(events, "result")
      <4>1. e \in Events => OfKind(Append(events, e), "result") = OfKind(events, "result")
        BY <1>2, <2>4, <2>6, OfKindAppend
      <4> QED BY <2>3, <4>1
    <3>2. Shrinks(OfKind(events', "result"), OfKind(events, "result"))
      BY <1>2, <3>1, PositionTypes, LessShrinks
    <3>3. Shrinks(OfKind(pipe', "result"), OfKind(pipe, "result"))
      BY <1>2, <2>1, OfKindShrinks
    <3> QED BY <1>1, <3>2, <3>3, RestingPlaces, TurnRests
  <2> QED BY <2>5, <2>6
<1>4. CASE ReadEOF
  <2>1. UNCHANGED <<pipe, events>>
    BY <1>4 DEF ReadEOF
  <2> QED BY <1>1, <2>1, RestingPlaces, TurnRests
<1> QED BY <1>3, <1>4 DEF ReadLoopStep

\* The server and its agent keep TurnInv.
LEMMA ServerTurns ==
    ASSUME TypeOK, TurnInv, ServerStep \/ SubprocessStep, UNCHANGED clientVars
    PROVE  TurnInv'
BY HandlerTurns, PromptTurns, PumpTurns, ClaudeTurns, ReadLoopTurns DEF ServerStep

\* The main goroutine asks for a turn when there is none, and takes its end.
LEMMA MainTurns ==
    ASSUME TypeOK, ClientTypeOK, TurnInv, MainStep \/ ClientStops,
           UNCHANGED <<agentVars, sessionVars>>
    PROVE  TurnInv'
<1> USE DEF promptVars, pumpVars, wireVars, agentVars, procVars, streamVars, sessionVars,
            chanVars
<1>1. UNCHANGED <<s2c, hp, pump, stdin, proc, pipe, events>>
  BY DEF MainStep, RunStart, RunHello, RunSyncRequest, RunUpload, RunSyncDone, RunReady,
         ReplPrompt, ReplTurnDone, ReplEnd, MainReturns, WaitFails, ClientStops
<1>2. c2s \in Seq(ClientMessages)
  BY DEF TypeOK, WireTypeOK
<1>3. ASSUME c2s' = c2s, turnOver' = turnOver,
             client' \notin {"turn", "exit"} => client \notin {"turn", "exit"}
      PROVE  TurnInv'
  BY <1>1, <1>3, RestingPlaces, TurnRests
<1>4. ASSUME NEW m \in ClientMessages, c2s' = Append(c2s, m), m.type # "prompt",
             turnOver' = turnOver, client \notin {"turn", "exit"}
      PROVE  TurnInv'
  <2>1. Typed(c2s', "prompt") = Typed(c2s, "prompt")
    BY <1>2, <1>4, TypedAppend
  <2>2. Shrinks(Typed(c2s', "prompt"), Typed(c2s, "prompt"))
    BY <1>2, <2>1, PositionTypes, LessShrinks
  <2> QED BY <1>1, <1>4, <2>2, RestingPlaces, TurnRests
<1>5. ASSUME NEW m, NEW s, SendsOr(m, s) \/ TooLong, m \in ClientMessages, m.type # "prompt",
             turnOver' = turnOver, client \notin {"turn", "exit"}
      PROVE  TurnInv'
  BY <1>3, <1>4, <1>5, SendsOrEffect
<1>6. CASE RunHello
  <2>1. [type |-> "session.start", manifest |-> listed] \in ClientMessages
    BY SentTypes
  <2> QED BY <1>5, <1>6, <2>1 DEF RunHello
<1>7. CASE RunUpload
  <2>1. client = "upload" /\ turnOver' = turnOver
    BY <1>7 DEF RunUpload
  <2>2. CASE c2s' = c2s /\ client' = "exit"
    BY <1>3, <2>1, <2>2
  <2>3. CASE \E h \in toUpload :
                 /\ ByHash(h) \in DOMAIN local.files
                 /\ SendsOr([type |-> "blob", hash |-> h,
                             content |-> local.files[ByHash(h)].content], "upload")
    <3>1. PICK h \in toUpload :
                 /\ ByHash(h) \in DOMAIN local.files
                 /\ SendsOr([type |-> "blob", hash |-> h,
                             content |-> local.files[ByHash(h)].content], "upload")
      BY <2>3
    <3> DEFINE m == [type |-> "blob", hash |-> h, content |-> local.files[ByHash(h)].content]
    <3>2. m \in ClientMessages /\ m.type = "blob" /\ SendsOr(m, "upload")
      BY <3>1, SentTypes
    <3> HIDE DEF m
    <3> QED BY <1>5, <2>1, <3>2
  <2> QED BY <1>7, <2>2, <2>3 DEF RunUpload, ClientExits
<1>8. CASE RunSyncDone \/ ReplEnd
  <2>1. [type |-> "sync.done"] \in ClientMessages /\ [type |-> "session.end"] \in ClientMessages
    BY SentTypes
  <2> QED BY <1>5, <1>8, <2>1 DEF RunSyncDone, ReplEnd
<1>9. CASE ReplPrompt
  <2> DEFINE m == [type |-> "prompt"]
  <2>1. m \in ClientMessages /\ m.type = "prompt" /\ (SendsOr(m, "turn") \/ TooLong)
        /\ client = "repl" /\ turnOver' = turnOver
    BY <1>9, SentTypes DEF ReplPrompt
  <2> HIDE DEF m
  <2>2. CASE c2s' = c2s /\ client' = "exit"
    BY <1>3, <2>1, <2>2
  <2>3. CASE c2s' = Append(c2s, m) /\ client' = "turn"
    <3>1. Turns = {}
      BY <2>1 DEF TurnInv
    <3>2. PICK x : x = Len(c2s) + 1
      OBVIOUS
    <3>3. Typed(c2s', "prompt") = Typed(c2s, "prompt") \cup {x}
      BY <1>2, <2>1, <2>3, <3>2, TypedAppend
    <3>4. /\ Typed(c2s', "prompt") \subseteq {x} /\ Preparing(hp) = {} /\ 1..stdin = {}
          /\ Working(proc) = {} /\ OfKind(pipe, "result") = {} /\ OfKind(events, "result") = {}
          /\ Finishing(pump) = {} /\ Typed(s2c, "turn.done") = {} /\ Over(turnOver) = {}
      BY <3>1, <3>3, TurnPlaces
    <3>5. OnlyTurn("asked", x)'
      BY <1>1, <2>1, <3>4 DEF OnlyTurn
    <3> QED BY <2>3, <3>5, TurnMoves
  <2> QED BY <2>1, <2>2, <2>3, SendsOrEffect
<1>10. CASE ReplTurnDone
  <2>1. client = "turn" /\ turnOver /\ turnOver' = FALSE /\ client' = "repl" /\ c2s' = c2s
    BY <1>10 DEF ReplTurnDone
  <2>2. OnlyTurn("over", 1)
    <3>1. 1 \in Over(turnOver)
      BY <2>1 DEF Over
    <3>2. <<"over", 1>> \in Turns
      BY <3>1, TurnPlaces
    <3> QED BY <3>2, SoleTurn
  <2>3. Over(turnOver') = {}
    BY <2>1 DEF Over
  <2>4. OnlyTurn("nowhere", 1)'
    BY <1>1, <2>1, <2>2, <2>3 DEF OnlyTurn
  <2> QED BY <2>4, TurnMoves
<1>11. CASE RunStart \/ RunSyncRequest \/ RunReady \/ MainReturns \/ WaitFails \/ ClientStops
  <2>1. c2s' = c2s /\ turnOver' = turnOver
        /\ (client' \notin {"turn", "exit"} => client \notin {"turn", "exit"})
    BY <1>11 DEF RunStart, RunSyncRequest, RunReady, MainReturns, WaitFails, ClientStops,
                 ClientExits
  <2> QED BY <1>3, <2>1
<1> QED BY <1>6, <1>7, <1>8, <1>9, <1>10, <1>11 DEF MainStep

\* readLoop tells the main goroutine of the end of a turn.
LEMMA ReaderTurns ==
    ASSUME TypeOK, TurnInv, ReaderStep \/ UserEdits, UNCHANGED <<agentVars, sessionVars>>
    PROVE  TurnInv'
<1> USE DEF promptVars, pumpVars, wireVars, agentVars, procVars, streamVars, sessionVars,
            chanVars
<1>1. UNCHANGED <<c2s, client, hp, pump, stdin, proc, pipe, events>>
  BY DEF ReaderStep, ReadMessage, ReadFails, UserEdits
<1>2. s2c \in Seq(ServerMessages)
  BY DEF TypeOK, WireTypeOK
<1>3. CASE ReadMessage /\ ReadTurnDone
  <2>1. s2c # <<>> /\ Head(s2c).type = "turn.done" /\ s2c' = Tail(s2c) /\ turnOver' = TRUE
    BY <1>3 DEF ReadTurnDone, ClientReads
  <2>2. OnlyTurn("told", 1) /\ client \in {"turn", "exit"}
    <3>1. 1 \in Typed(s2c, "turn.done")
      BY <1>2, <2>1, TypedTail
    <3>2. <<"told", 1>> \in Turns
      BY <3>1, TurnPlaces
    <3> QED BY <3>2, SoleTurn
  <2>3. Typed(s2c', "turn.done") = {}
    <3>1. \A n \in Typed(Tail(s2c), "turn.done") :
            n \in Nat \ {0} /\ n + 1 \in Typed(s2c, "turn.done")
      BY <1>2, <2>1, TypedTail
    <3>2. Typed(s2c, "turn.done") \subseteq {1}
      BY <2>2 DEF OnlyTurn
    <3>3. Typed(Tail(s2c), "turn.done") = {}
      BY <3>1, <3>2
    <3> QED BY <2>1, <3>3
  <2>4. Over(turnOver') \subseteq {1}
    BY DEF Over
  <2>5. OnlyTurn("over", 1)'
    BY <1>1, <2>2, <2>3, <2>4 DEF OnlyTurn
  <2> QED BY <1>1, <2>2, <2>5, TurnMoves
<1>4. CASE ~(ReadMessage /\ ReadTurnDone)
  <2>1. turnOver' = turnOver /\ (s2c' = s2c \/ (s2c # <<>> /\ s2c' = Tail(s2c)))
    BY <1>4 DEF ReaderStep, ReadMessage, ReadFails, ReadSyncRequest, ReadReady, ReadShown,
                ReadFileChange, ClientReads, UserEdits
  <2>2. Shrinks(Typed(s2c', "turn.done"), Typed(s2c, "turn.done"))
    BY <1>2, <2>1, TypedShrinks
  <2> QED BY <1>1, <2>1, <2>2, RestingPlaces, TurnRests
<1> QED BY <1>3, <1>4

-----------------------------------------------------------------------------
(* The whole session *)

\* What holds of client, connection and server together.
SessionInv == TypeOK /\ ClientTypeOK /\ TurnInv /\ StartInv /\ ReadyInv

\* It holds at the start.
LEMMA SessionInvInit == Init => SessionInv
<1> SUFFICES ASSUME Init PROVE SessionInv
  OBVIOUS
<1>1. TypeOK /\ ClientTypeOK
  BY InitTypes, ClientInitTypes DEF Init
<1> USE DEF Init, WireInit, AgentInit, SessionInit, ClientInit
<1>2. \A t : Typed(c2s, t) = {} /\ Typed(s2c, t) = {} /\ OfKind(pipe, t) = {}
             /\ OfKind(events, t) = {}
  BY NothingTyped
<1>3. Preparing(hp) = {} /\ 1..stdin = {} /\ Working(proc) = {} /\ Finishing(pump) = {}
      /\ Over(turnOver) = {}
  <2>1. \A i \in 1..MaxPrompts : hp[i].pc = "off"
    OBVIOUS
  <2> QED BY <2>1 DEF Preparing, Working, Finishing, Over
<1>4. Turns = {}
  BY <1>2, <1>3 DEF Turns
<1>5. TurnInv
  BY <1>4 DEF TurnInv
<1>6. StartInv
  BY <1>2 DEF StartInv
<1>7. ReadyInv
  BY <1>2 DEF ReadyInv, ReadySeen
<1> QED BY <1>1, <1>5, <1>6, <1>7 DEF SessionInv

\* No step breaks it.
LEMMA SessionInvNext == SessionInv /\ [Next]_vars => SessionInv'
<1> SUFFICES ASSUME SessionInv, [Next]_vars PROVE SessionInv'
  OBVIOUS
<1>1. TypeOK /\ ClientTypeOK /\ TurnInv /\ StartInv /\ ReadyInv
  BY DEF SessionInv
<1>2. TypeOK' /\ ClientTypeOK'
  BY <1>1, AllTypes
<1>3. \A m, n \in Typed(c2s, "prompt") : m = n
  <2>1. \A n \in Typed(c2s, "prompt") : <<"asked", n>> \in Turns
    BY TurnPlaces
  <2> QED BY <1>1, <2>1 DEF TurnInv
<1>4. CASE Server \/ Subprocess
  <2>1. (ServerStep \/ SubprocessStep) /\ UNCHANGED clientVars
    BY <1>4 DEF Server, Subprocess
  <2>2. ServerEffect
    BY <1>1, <2>1, ServerEffects
  <2> QED BY <1>1, <1>2, <1>3, <2>1, <2>2, ServerTurns, ServerStart, ServerReady DEF SessionInv
<1>5. CASE Client
  <2>1. UNCHANGED <<agentVars, sessionVars>>
    BY <1>5 DEF Client
  <2>2. CASE MainStep \/ ClientStops
    <3>1. client = "turn" /\ turnOver => Typed(c2s, "prompt") = {}
      <4>1. 1 \in Over(turnOver) => <<"over", 1>> \in Turns
        BY TurnPlaces
      <4>2. turnOver => 1 \in Over(turnOver)
        BY DEF Over
      <4> QED BY <1>1, <4>1, <4>2, SoleTurn DEF OnlyTurn
    <3> QED BY <1>1, <1>2, <2>1, <2>2, <3>1, MainTurns, MainStart, MainReady DEF SessionInv
  <2>3. CASE ReaderStep \/ UserEdits
    BY <1>1, <1>2, <2>1, <2>3, ReaderTurns, ReaderHandshake DEF SessionInv
  <2> QED BY <1>5, <2>2, <2>3 DEF Client, ClientStep
<1>6. CASE Network \/ UNCHANGED vars
  <2>1. /\ UNCHANGED <<c2s, s2c, client, listed, syncReq, ready, turnOver, typed>>
        /\ UNCHANGED <<manifest, handler, prompts, hp, stdin, proc, pipe, events, pump>>
    BY <1>6 DEF Network, ConnLost, vars, serverVars, wireVars, clientVars, chanVars, agentVars,
                procVars, streamVars, sessionVars, svcVars, promptVars, pumpVars
  <2>2. TurnInv'
    BY <1>1, <2>1, RestingPlaces, TurnRests
  <2>3. StartInv' /\ ReadyInv'
    BY <1>1, <2>1 DEF StartInv, ReadyInv, ReadySeen
  <2> QED BY <1>2, <2>2, <2>3 DEF SessionInv
<1> QED BY <1>4, <1>5, <1>6 DEF Next

\* The turn, the handshake and the types stay in order through every session.
THEOREM SessionInvCorrect == Spec => []SessionInv
BY SessionInvInit, SessionInvNext, PTL DEF Spec

\* HandlePrompt writes the baseline without a lock, and the next one waits for
\* a turn.done that pump sends after it has moved the baseline on: the two never
\* meet.
THEOREM NoBaselineRaceCorrect == Spec => []NoBaselineRace
<1>1. SessionInv => NoBaselineRace
  <2> SUFFICES ASSUME TurnInv, NEW i \in 1..MaxPrompts, hp[i].pc = "base"
               PROVE  pump.pc \notin {"snap", "diff", "push"}
    BY DEF SessionInv, NoBaselineRace
  <2>1. i \in Preparing(hp)
    BY DEF Preparing
  <2>2. <<"preparing", i>> \in Turns
    BY <2>1, TurnPlaces
  <2>3. Finishing(pump) = {}
    BY <2>2, SoleTurn DEF OnlyTurn
  <2> QED BY <2>3 DEF Finishing
<1> QED BY <1>1, SessionInvCorrect, PTL

\* However the local files change between listing and uploading them, the agent
\* starts in exactly the files the client listed, with the contents it listed.
THEOREM StartsFromListedCorrect == Spec => StartsFromListed
<1> DEFINE Listed ==
        ~svcAgent /\ svcAgent' =>
            /\ DOMAIN files' = DOMAIN listed
            /\ \A p \in DOMAIN listed : Hash[files'[p].content] = listed[p].hash
<1>1. Init => Intact(blobs)
  BY DEF Init, SessionInit
<1>2. Intact(blobs) /\ [Next]_vars => Intact(blobs)'
  <2> SUFFICES ASSUME Intact(blobs), [Next]_vars PROVE Intact(blobs')
    BY DEF Intact
  <2>1. CASE Server \/ Subprocess
    BY <2>1, StoreIntact DEF Server, Subprocess, Intact
  <2>2. CASE Client \/ Network \/ UNCHANGED vars
    BY <2>2 DEF Client, Network, vars, serverVars, sessionVars, svcVars
  <2> QED BY <2>1, <2>2 DEF Next
<1>3. SessionInv /\ Intact(blobs) /\ [Next]_vars => Listed
  <2> SUFFICES ASSUME SessionInv, Intact(blobs), [Next]_vars, ~svcAgent, svcAgent'
               PROVE  Listed
    OBVIOUS
  <2>1. ServerStep \/ SubprocessStep
    BY DEF Next, Server, Subprocess, Client, Network, vars, serverVars, sessionVars, svcVars
  <2>2. ServerReads("sync.done")
    BY <2>1, AgentComesFromSyncDone
  <2>3. c2s \in Seq(ClientMessages)
    BY DEF SessionInv, TypeOK, WireTypeOK
  <2>4. Typed(c2s, "sync.done") # {}
    BY <2>2, <2>3, TypedTail DEF ServerReads
  <2>5. manifest = listed
    BY <2>4 DEF SessionInv, StartInv
  <2> QED BY <2>1, <2>5, AgentStarts
<1>4. SessionInv /\ Intact(blobs) /\ [Next]_vars => [Listed]_vars
  BY <1>3
<1> QED BY <1>1, <1>2, <1>4, SessionInvCorrect, PTL DEF Spec, StartsFromListed

-----------------------------------------------------------------------------
(* The shipped client is one of the clients of AnyClient. *)

\* The main goroutine sends a prompt only when there is room for one more.
LEMMA MainWrites ==
    ASSUME SessionInv, MainStep \/ ClientStops, UNCHANGED <<agentVars, sessionVars>>
    PROVE  \/ \E m \in ClientMessages :
                /\ m.type = "prompt" => prompts + Len(c2s) < MaxPrompts
                /\ ClientSends(m)
                /\ UNCHANGED <<s2c, connUp>>
           \/ UNCHANGED <<c2s, s2c>> /\ connUp' \in {connUp, FALSE}
<1> USE DEF wireVars
<1>1. ClientTypeOK /\ ReadyInv /\ connUp \in BOOLEAN
  BY DEF SessionInv, TypeOK, WireTypeOK
<1>2. s2c' = s2c
  BY DEF MainStep, RunStart, RunHello, RunSyncRequest, RunUpload, RunSyncDone, RunReady,
         ReplPrompt, ReplTurnDone, ReplEnd, MainReturns, WaitFails, ClientStops
<1>3. ASSUME NEW m \in ClientMessages, NEW s, SendsOr(m, s) \/ TooLong,
             m.type = "prompt" => prompts + Len(c2s) < MaxPrompts
      PROVE  \/ \E k \in ClientMessages :
                  /\ k.type = "prompt" => prompts + Len(c2s) < MaxPrompts
                  /\ ClientSends(k)
                  /\ UNCHANGED <<s2c, connUp>>
             \/ UNCHANGED <<c2s, s2c>> /\ connUp' \in {connUp, FALSE}
  BY <1>2, <1>3 DEF SendsOr, TooLong, ClientExits
<1>4. CASE RunHello
  <2>1. [type |-> "session.start", manifest |-> listed] \in ClientMessages
    BY <1>1, SentTypes
  <2> QED BY <1>3, <1>4, <2>1 DEF RunHello
<1>5. CASE RunUpload
  <2>1. CASE \E h \in toUpload :
                 /\ ByHash(h) \in DOMAIN local.files
                 /\ SendsOr([type |-> "blob", hash |-> h,
                             content |-> local.files[ByHash(h)].content], "upload")
    <3>1. PICK h \in toUpload :
                 /\ ByHash(h) \in DOMAIN local.files
                 /\ SendsOr([type |-> "blob", hash |-> h,
                             content |-> local.files[ByHash(h)].content], "upload")
      BY <2>1
    <3> DEFINE m == [type |-> "blob", hash |-> h, content |-> local.files[ByHash(h)].content]
    <3>2. m \in ClientMessages /\ m.type = "blob" /\ SendsOr(m, "upload")
      BY <1>1, <3>1, SentTypes
    <3> HIDE DEF m
    <3> QED BY <1>3, <3>2
  <2>2. CASE c2s' = c2s /\ ClientExits
    BY <1>2, <2>2 DEF ClientExits
  <2> QED BY <1>5, <2>1, <2>2 DEF RunUpload
<1>6. CASE RunSyncDone \/ ReplEnd
  <2>1. [type |-> "sync.done"] \in ClientMessages /\ [type |-> "session.end"] \in ClientMessages
    BY <1>1, SentTypes
  <2> QED BY <1>3, <1>6, <2>1 DEF RunSyncDone, ReplEnd
<1>7. CASE ReplPrompt
  <2>1. [type |-> "prompt"] \in ClientMessages
    BY <1>1, SentTypes
  <2>2. prompts + Len(c2s) < MaxPrompts
    <3>1. Len(c2s) = 0 /\ prompts <= typed /\ typed < UserPrompts
      BY <1>1, <1>7 DEF ReplPrompt, ReadyInv
    <3>2. prompts \in Nat /\ typed \in Nat /\ UserPrompts \in Nat /\ MaxPrompts \in Nat
      BY SessionAssumption, ClientAssumption
         DEF SessionInv, TypeOK, SessionTypeOK, ClientTypeOK
    <3> QED BY <3>1, <3>2, PromptAssumption
  <2> QED BY <1>3, <1>7, <2>1, <2>2 DEF ReplPrompt
<1>8. CASE RunStart \/ RunSyncRequest \/ RunReady \/ ReplTurnDone \/ MainReturns \/ WaitFails
           \/ ClientStops
  <2>1. c2s' = c2s /\ connUp' \in {connUp, FALSE}
    BY <1>8 DEF RunStart, RunSyncRequest, RunReady, ReplTurnDone, MainReturns, WaitFails,
                ClientStops, ClientExits
  <2> QED BY <1>2, <2>1
<1> QED BY <1>4, <1>5, <1>6, <1>7, <1>8 DEF MainStep

\* AnyClientServer is Session word for word: each of its steps is the step of Session.
LEMMA HandlerSame == HandlerStep => AnyClientServer!HandlerStep
BY DEF CanMaterialize, CloseRemoves, CloseStdin, CloseStopsAgent, CloseTakes, CloseWaits,
       Consistent, DispatchBlob, DispatchFails, DispatchInterrupt, DispatchPrompt, DispatchReady,
       DispatchReturns, DispatchStart, DispatchSyncDone, DispatchUnknown, EffectiveMode,
       ErrorMsg, HandlerStep, HangUp, Materialize, Missing, NoFiles, Put, Restrict, ServerReads,
       ServerSends, ServerTries, StartProcess, SyncDoneAgain, SyncDoneNoAgent,
       SyncDoneNoWorkspace, SyncDoneStarts, WaitReturns, agentVars, closeVars, dirVars, procVars,
       promptVars, pumpVars, streamVars, svcVars, turnVars, wireVars,
       AnyClientServer!CanMaterialize, AnyClientServer!CloseRemoves, AnyClientServer!CloseStdin,
       AnyClientServer!CloseStopsAgent, AnyClientServer!CloseTakes, AnyClientServer!CloseWaits,
       AnyClientServer!Consistent, AnyClientServer!DispatchBlob, AnyClientServer!DispatchFails,
       AnyClientServer!DispatchInterrupt, AnyClientServer!DispatchPrompt,
       AnyClientServer!DispatchReady, AnyClientServer!DispatchReturns,
       AnyClientServer!DispatchStart, AnyClientServer!DispatchSyncDone,
       AnyClientServer!DispatchUnknown, AnyClientServer!EffectiveMode, AnyClientServer!ErrorMsg,
       AnyClientServer!HandlerStep, AnyClientServer!HangUp, AnyClientServer!Materialize,
       AnyClientServer!Missing, AnyClientServer!NoFiles, AnyClientServer!Put,
       AnyClientServer!Restrict, AnyClientServer!ServerReads, AnyClientServer!ServerSends,
       AnyClientServer!ServerTries, AnyClientServer!StartProcess, AnyClientServer!SyncDoneAgain,
       AnyClientServer!SyncDoneNoAgent, AnyClientServer!SyncDoneNoWorkspace,
       AnyClientServer!SyncDoneStarts, AnyClientServer!WaitReturns, AnyClientServer!agentVars,
       AnyClientServer!closeVars, AnyClientServer!dirVars, AnyClientServer!procVars,
       AnyClientServer!promptVars, AnyClientServer!pumpVars, AnyClientServer!streamVars,
       AnyClientServer!svcVars, AnyClientServer!turnVars, AnyClientServer!wireVars

\* Every HandlePrompt goroutine steps as it does under any client.
LEMMA PromptSame == \A i \in 1..MaxPrompts : PromptStep(i) => AnyClientServer!PromptStep(i)
BY DEF CanSend, ErrorMsg, PromptBaseline, PromptDrain, PromptFails, PromptSend, PromptSnapshot,
       PromptStart, PromptStep, PromptWait, Running, SendPrompt, ServerSends, ServerTries,
       Snapshot, Visible, WalkManifest, agentVars, closeVars, dirVars, procVars, pumpVars,
       streamVars, svcVars, turnVars, wireVars,
       AnyClientServer!CanSend, AnyClientServer!ErrorMsg, AnyClientServer!PromptBaseline,
       AnyClientServer!PromptDrain, AnyClientServer!PromptFails, AnyClientServer!PromptSend,
       AnyClientServer!PromptSnapshot, AnyClientServer!PromptStart, AnyClientServer!PromptStep,
       AnyClientServer!PromptWait, AnyClientServer!Running, AnyClientServer!SendPrompt,
       AnyClientServer!ServerSends, AnyClientServer!ServerTries, AnyClientServer!Snapshot,
       AnyClientServer!Visible, AnyClientServer!WalkManifest, AnyClientServer!agentVars,
       AnyClientServer!closeVars, AnyClientServer!dirVars, AnyClientServer!procVars,
       AnyClientServer!pumpVars, AnyClientServer!streamVars, AnyClientServer!svcVars,
       AnyClientServer!turnVars, AnyClientServer!wireVars

\* The pump steps as it does under any client.
LEMMA PumpSame == PumpStep => AnyClientServer!PumpStep
BY DEF Diff, FileChangeMsg, FinishTurn, Panic, PumpAdvance, PumpDiff, PumpGoes, PumpPush,
       PumpReceive, PumpSignal, PumpSnapshot, PumpStep, PumpTurnDone, ServerSends, Snapshot,
       Visible, WalkManifest, agentVars, closeVars, dirVars, procVars, promptVars, streamVars,
       svcVars, turnVars, wireVars,
       AnyClientServer!Diff, AnyClientServer!FileChangeMsg, AnyClientServer!FinishTurn,
       AnyClientServer!Panic, AnyClientServer!PumpAdvance, AnyClientServer!PumpDiff,
       AnyClientServer!PumpGoes, AnyClientServer!PumpPush, AnyClientServer!PumpReceive,
       AnyClientServer!PumpSignal, AnyClientServer!PumpSnapshot, AnyClientServer!PumpStep,
       AnyClientServer!PumpTurnDone, AnyClientServer!ServerSends, AnyClientServer!Snapshot,
       AnyClientServer!Visible, AnyClientServer!WalkManifest, AnyClientServer!agentVars,
       AnyClientServer!closeVars, AnyClientServer!dirVars, AnyClientServer!procVars,
       AnyClientServer!promptVars, AnyClientServer!streamVars, AnyClientServer!svcVars,
       AnyClientServer!turnVars, AnyClientServer!wireVars

\* The agent's readLoop steps as it does under any client.
LEMMA AgentReaderSame == ReadLoopStep => AnyClientServer!ReadLoopStep
BY DEF ParseLine, ReadEOF, ReadLine, ReadLoopStep, dirVars, procVars,
       AnyClientServer!ParseLine, AnyClientServer!ReadEOF, AnyClientServer!ReadLine,
       AnyClientServer!ReadLoopStep, AnyClientServer!dirVars, AnyClientServer!procVars

\* The subprocess steps as it does under any client.
LEMMA ClaudeSame == ClaudeStep => AnyClientServer!ClaudeStep
BY DEF BackgroundEdits, ClaudeBegins, ClaudeCrashes, ClaudeEdits, ClaudeEndsTurn, ClaudeExits,
       ClaudePrints, ClaudeStep, Consistent, EditOne, FileEntry, Printed, Put, Restrict, Running,
       dirVars, procVars, streamVars,
       AnyClientServer!BackgroundEdits, AnyClientServer!ClaudeBegins,
       AnyClientServer!ClaudeCrashes, AnyClientServer!ClaudeEdits,
       AnyClientServer!ClaudeEndsTurn, AnyClientServer!ClaudeExits, AnyClientServer!ClaudePrints,
       AnyClientServer!ClaudeStep, AnyClientServer!Consistent, AnyClientServer!EditOne,
       AnyClientServer!FileEntry, AnyClientServer!Printed, AnyClientServer!Put,
       AnyClientServer!Restrict, AnyClientServer!Running, AnyClientServer!dirVars,
       AnyClientServer!procVars, AnyClientServer!streamVars

\* The two names of the server's variables stand for the same tuple.
LEMMA VarsSame ==
    /\ serverVars = AnyClientServer!serverVars
    /\ sessionVars = AnyClientServer!sessionVars
    /\ agentVars = AnyClientServer!agentVars
    /\ wireVars = AnyClientServer!wireVars
    /\ serverVars' = AnyClientServer!serverVars'
    /\ sessionVars' = AnyClientServer!sessionVars'
    /\ agentVars' = AnyClientServer!agentVars'
    /\ wireVars' = AnyClientServer!wireVars'
BY DEF agentVars, closeVars, dirVars, procVars, promptVars, pumpVars, serverVars, sessionVars,
       streamVars, svcVars, turnVars, wireVars,
       AnyClientServer!agentVars, AnyClientServer!closeVars, AnyClientServer!dirVars,
       AnyClientServer!procVars, AnyClientServer!promptVars, AnyClientServer!pumpVars,
       AnyClientServer!serverVars, AnyClientServer!sessionVars, AnyClientServer!streamVars,
       AnyClientServer!svcVars, AnyClientServer!turnVars, AnyClientServer!wireVars

\* What the client may send is the same for both.
LEMMA MessagesSame == ClientMessages = AnyClientServer!ClientMessages
BY DEF ClientMessages, ManifestEntry, Manifests, Partial,
       AnyClientServer!ClientMessages, AnyClientServer!ManifestEntry, AnyClientServer!Manifests,
       AnyClientServer!Partial

\* The client starts with a connection and a server that any client may start with.
LEMMA InitSame == Init => AnyClientServer!Init
BY DEF Init, AgentInit, Blobs, Intact, NoFiles, Partial, SessionInit, WireInit,
       AnyClientServer!Init, AnyClientServer!AgentInit, AnyClientServer!Blobs,
       AnyClientServer!Intact, AnyClientServer!NoFiles, AnyClientServer!Partial,
       AnyClientServer!SessionInit, AnyClientServer!WireInit

\* Every step of the whole is a step of AnyClient, or leaves the server's side and
\* the connection as they are: the main goroutine writes a message with room for a
\* prompt or loses the connection, readLoop takes one, and the user's edits, the
\* network and the server are what they are there.
LEMMA StepIsAnyClients ==
    SessionInv /\ [Next]_vars => [AnyClientServer!Next]_AnyClientServer!vars
<1> SUFFICES ASSUME SessionInv, [Next]_vars
             PROVE  [AnyClientServer!Next]_AnyClientServer!vars
  OBVIOUS
<1> USE VarsSame DEF AnyClientServer!Next, AnyClientServer!vars
<1>1. CASE Server
  <2>1. ServerStep => AnyClientServer!ServerStep
    BY HandlerSame, PromptSame, PumpSame, AgentReaderSame
       DEF ServerStep, AnyClientServer!ServerStep
  <2> QED BY <1>1, <2>1 DEF Server
<1>2. CASE Subprocess
  <2>1. SubprocessStep => AnyClientServer!SubprocessStep
    BY ClaudeSame DEF SubprocessStep, AnyClientServer!SubprocessStep
  <2> QED BY <1>2, <2>1 DEF Subprocess
<1>3. ASSUME UNCHANGED <<agentVars, sessionVars>>,
             \/ \E m \in ClientMessages :
                  /\ m.type = "prompt" => prompts + Len(c2s) < MaxPrompts
                  /\ ClientSends(m)
                  /\ UNCHANGED <<s2c, connUp>>
             \/ UNCHANGED <<c2s, s2c>> /\ connUp' \in {connUp, FALSE}
             \/ s2c # <<>> /\ s2c' = Tail(s2c) /\ UNCHANGED <<c2s, connUp>>
      PROVE  [AnyClientServer!Next]_AnyClientServer!vars
  <2>1. ASSUME NEW m \in ClientMessages,
               m.type = "prompt" => prompts + Len(c2s) < MaxPrompts,
               ClientSends(m), UNCHANGED <<s2c, connUp>>
        PROVE  AnyClientServer!ClientWrites
    <3>1. AnyClientServer!ClientSends(m)
      BY <2>1 DEF ClientSends, AnyClientServer!ClientSends
    <3> QED BY <1>3, <2>1, <3>1, MessagesSame DEF AnyClientServer!ClientWrites
  <2>2. CASE UNCHANGED <<c2s, s2c>> /\ connUp' = connUp
    BY <1>3, <2>2 DEF AnyClientServer!serverVars, AnyClientServer!wireVars
  <2>3. CASE UNCHANGED <<c2s, s2c>> /\ connUp' = FALSE
    <3>1. CASE connUp
      BY <1>3, <2>3, <3>1 DEF AnyClientServer!ConnectionLost, AnyClientServer!ConnLost
    <3>2. CASE ~connUp
      BY <2>2, <2>3, <3>2 DEF SessionInv, TypeOK, WireTypeOK
    <3> QED BY <3>1, <3>2
  <2>4. CASE s2c # <<>> /\ s2c' = Tail(s2c) /\ UNCHANGED <<c2s, connUp>>
    BY <1>3, <2>4 DEF AnyClientServer!ClientTakes
  <2> QED BY <1>3, <2>1, <2>2, <2>3, <2>4
<1>4. CASE Client
  <2>1. CASE MainStep \/ ClientStops
    BY <1>3, <1>4, <2>1, MainWrites DEF Client
  <2>2. CASE ReaderStep
    <3>1. \/ UNCHANGED <<c2s, s2c, connUp>>
          \/ s2c # <<>> /\ s2c' = Tail(s2c) /\ UNCHANGED <<c2s, connUp>>
      BY <2>2 DEF ReaderStep, ReadMessage, ReadFails, ReadSyncRequest, ReadReady, ReadShown,
                  ReadFileChange, ReadTurnDone, ClientReads, wireVars
    <3> QED BY <1>3, <1>4, <3>1 DEF Client
  <2>3. CASE UserEdits
    BY <1>3, <1>4, <2>3 DEF Client, UserEdits, wireVars
  <2> QED BY <1>4, <2>1, <2>2, <2>3 DEF Client, ClientStep
<1>5. CASE Network
  BY <1>3, <1>5 DEF Network, ConnLost
<1>6. CASE UNCHANGED vars
  BY <1>6 DEF vars
<1> QED BY <1>1, <1>2, <1>4, <1>5, <1>6 DEF Next

\* The shipped client implements AnyClient: the server's guarantees under every
\* client are its guarantees under this one.
THEOREM ImplementsAnyClientCorrect == Spec => ImplementsAnyClient
<1>1. Init => AnyClientServer!Init
  BY InitSame
<1>2. SessionInv /\ [Next]_vars => [AnyClientServer!Next]_AnyClientServer!vars
  BY StepIsAnyClients
<1> QED BY <1>1, <1>2, SessionInvCorrect, PTL DEF Spec, ImplementsAnyClient, AnyClientServer!Spec

-----------------------------------------------------------------------------
(* The file changes on their way *)

\* The changes that the messages of q carry.
ChangesIn(q) == {q[n].change : n \in Typed(q, "file.change")}

\* The messages of q carry changes in the order of their paths, with more of them,
\* those of C, to follow; each has the content that the manifest m lists; and none
\* is behind a turn.done.
InOrder(q, C, m) ==
    /\ \A k, n \in Typed(q, "file.change") :
        k < n => Rank[q[k].change.path] < Rank[q[n].change.path]
    /\ \A n \in Typed(q, "file.change") : \A ch \in C : Rank[q[n].change.path] < Rank[ch.path]
    /\ \A n \in Typed(q, "file.change") :
        q[n].change.op # "delete" => Hash[q[n].content] = m[q[n].change.path].hash
    /\ \A n \in Typed(q, "file.change"), k \in Typed(q, "turn.done") : n < k

\* What a sequence and its extension by one have in common.
LEMMA AppendPositions ==
    ASSUME NEW S, NEW q \in Seq(S), NEW x \in S
    PROVE  /\ Len(q) \in Nat /\ Len(q) + 1 \notin DOMAIN q
           /\ DOMAIN Append(q, x) = DOMAIN q \cup {Len(q) + 1}
           /\ \A n \in DOMAIN q : n \in Nat /\ n < Len(q) + 1 /\ Append(q, x)[n] = q[n]
           /\ Append(q, x)[Len(q) + 1] = x
OBVIOUS

\* Sending a change adds it, sending anything else adds none.
LEMMA ChangesAppend ==
    ASSUME NEW S, NEW q \in Seq(S), NEW x \in S
    PROVE  ChangesIn(Append(q, x)) = IF x.type = "file.change" THEN ChangesIn(q) \cup {x.change}
                                     ELSE ChangesIn(q)
<1> DEFINE r == Append(q, x)
<1>1. /\ DOMAIN r = DOMAIN q \cup {Len(q) + 1}
      /\ \A n \in DOMAIN q : r[n] = q[n]
      /\ r[Len(q) + 1] = x
  BY AppendPositions
<1> HIDE DEF r
<1>2. \A c : c \in ChangesIn(r) <=> c \in ChangesIn(q) \/ (x.type = "file.change" /\ c = x.change)
  BY <1>1 DEF ChangesIn, Typed
<1>3. ChangesIn(r) = IF x.type = "file.change" THEN ChangesIn(q) \cup {x.change} ELSE ChangesIn(q)
  BY <1>2
<1> QED BY <1>3 DEF r

\* Another message does not disturb their order.
LEMMA OrderAppend ==
    ASSUME NEW S, NEW q \in Seq(S), NEW x \in S, x.type # "file.change",
           NEW C, NEW m, InOrder(q, C, m)
    PROVE  InOrder(Append(q, x), C, m)
<1> DEFINE r == Append(q, x)
<1>1. /\ DOMAIN r = DOMAIN q \cup {Len(q) + 1}
      /\ \A n \in DOMAIN q : n < Len(q) + 1 /\ r[n] = q[n]
      /\ r[Len(q) + 1] = x
  BY AppendPositions
<1> HIDE DEF r
<1>2. Typed(r, "file.change") = Typed(q, "file.change")
  BY <1>1 DEF Typed
<1>3. \A n \in Typed(q, "file.change") : r[n] = q[n] /\ n < Len(q) + 1
  BY <1>1 DEF Typed
<1>4. Typed(r, "turn.done") \subseteq Typed(q, "turn.done") \cup {Len(q) + 1}
  BY <1>1 DEF Typed
<1>5. InOrder(r, C, m)
  BY <1>2, <1>3, <1>4 DEF InOrder
<1> QED BY <1>5 DEF r

\* Nor does the change of C that comes first, unless turn.done has been sent.
LEMMA OrderAppendChange ==
    ASSUME NEW S, NEW q \in Seq(S), NEW x \in S, x.type = "file.change",
           NEW C, NEW m, InOrder(q, C, m), Typed(q, "turn.done") = {}, x.change \in C,
           \A ch \in C \ {x.change} : Rank[x.change.path] < Rank[ch.path],
           x.change.op # "delete" => Hash[x.content] = m[x.change.path].hash
    PROVE  InOrder(Append(q, x), C \ {x.change}, m)
<1> DEFINE r == Append(q, x)
<1>1. /\ DOMAIN r = DOMAIN q \cup {Len(q) + 1} /\ Len(q) \in Nat
      /\ \A n \in DOMAIN q : n \in Nat /\ n < Len(q) + 1 /\ r[n] = q[n]
      /\ r[Len(q) + 1] = x
  BY AppendPositions
<1> HIDE DEF r
<1>2. Typed(r, "file.change") = Typed(q, "file.change") \cup {Len(q) + 1}
  BY <1>1 DEF Typed
<1>3. \A n \in Typed(q, "file.change") : n \in Nat /\ r[n] = q[n] /\ n < Len(q) + 1
  BY <1>1 DEF Typed
<1>4. Typed(r, "turn.done") = {}
  BY <1>1 DEF Typed
<1>5. \A k, n \in Typed(r, "file.change") :
        k < n => Rank[r[k].change.path] < Rank[r[n].change.path]
  BY <1>1, <1>2, <1>3 DEF InOrder
<1>6. \A n \in Typed(r, "file.change") : \A ch \in C \ {x.change} :
        Rank[r[n].change.path] < Rank[ch.path]
  BY <1>1, <1>2, <1>3 DEF InOrder
<1>7. \A n \in Typed(r, "file.change") :
        r[n].change.op # "delete" => Hash[r[n].content] = m[r[n].change.path].hash
  BY <1>1, <1>2, <1>3 DEF InOrder
<1>8. InOrder(r, C \ {x.change}, m)
  BY <1>4, <1>5, <1>6, <1>7 DEF InOrder
<1> QED BY <1>8 DEF r

\* Taking the first message keeps the order of the others; if it carries a change,
\* that is the one with the smallest path.
LEMMA OrderTail ==
    ASSUME NEW S, NEW q \in Seq(S), q # <<>>
    PROVE  /\ Head(q).type # "file.change" => ChangesIn(Tail(q)) = ChangesIn(q)
           /\ \A C, m : InOrder(q, C, m) =>
                /\ InOrder(Tail(q), C, m)
                /\ Head(q).type = "file.change" =>
                    /\ ChangesIn(q) = ChangesIn(Tail(q)) \cup {Head(q).change}
                    /\ \A ch \in ChangesIn(Tail(q)) \cup C :
                        Rank[Head(q).change.path] < Rank[ch.path]
                    /\ Head(q).change.op # "delete" =>
                        Hash[Head(q).content] = m[Head(q).change.path].hash
<1> DEFINE r == Tail(q)
<1>1. /\ DOMAIN q = 1..Len(q) /\ Len(q) \in Nat \ {0}
      /\ DOMAIN r = 1..(Len(q) - 1)
      /\ \A n \in 1..(Len(q) - 1) : r[n] = q[n + 1]
      /\ Head(q) = q[1]
  OBVIOUS
<1> HIDE DEF r
<1>2. \A t : \A n \in Typed(r, t) : n \in Nat \ {0} /\ n + 1 \in Typed(q, t) /\ r[n] = q[n + 1]
  BY <1>1 DEF Typed
<1>3. \A t : \A n \in Typed(q, t) : n = 1 \/ (n - 1 \in Typed(r, t) /\ r[n - 1] = q[n])
  BY <1>1 DEF Typed
<1>4. \A t : 1 \in Typed(q, t) <=> Head(q).type = t
  BY <1>1 DEF Typed
<1>5. \A c : c \in ChangesIn(q) <=>
        c \in ChangesIn(r) \/ (Head(q).type = "file.change" /\ c = Head(q).change)
  <2>1. ASSUME NEW c \in ChangesIn(q)
        PROVE  c \in ChangesIn(r) \/ (Head(q).type = "file.change" /\ c = Head(q).change)
    <3>1. PICK n \in Typed(q, "file.change") : c = q[n].change
      BY <2>1 DEF ChangesIn
    <3> QED BY <1>1, <1>3, <1>4, <3>1 DEF ChangesIn
  <2>2. ASSUME NEW c \in ChangesIn(r) PROVE c \in ChangesIn(q)
    BY <1>2, <2>2 DEF ChangesIn
  <2>3. Head(q).type = "file.change" => Head(q).change \in ChangesIn(q)
    BY <1>1, <1>4 DEF ChangesIn
  <2> QED BY <2>1, <2>2, <2>3
<1>6. ASSUME NEW C, NEW m, InOrder(q, C, m)
      PROVE  /\ InOrder(r, C, m)
             /\ Head(q).type = "file.change" =>
                  /\ \A ch \in ChangesIn(r) \cup C : Rank[Head(q).change.path] < Rank[ch.path]
                  /\ Head(q).change.op # "delete" =>
                        Hash[Head(q).content] = m[Head(q).change.path].hash
  <2>1. \A k, n \in Typed(r, "file.change") :
          k < n => Rank[r[k].change.path] < Rank[r[n].change.path]
    <3> SUFFICES ASSUME NEW k \in Typed(r, "file.change"), NEW n \in Typed(r, "file.change"), k < n
                 PROVE  Rank[r[k].change.path] < Rank[r[n].change.path]
      OBVIOUS
    <3>1. /\ k + 1 \in Typed(q, "file.change") /\ n + 1 \in Typed(q, "file.change")
          /\ k + 1 < n + 1 /\ r[k] = q[k + 1] /\ r[n] = q[n + 1]
      BY <1>2
    <3> QED BY <1>6, <3>1 DEF InOrder
  <2>2. \A n \in Typed(r, "file.change") : \A ch \in C : Rank[r[n].change.path] < Rank[ch.path]
    BY <1>2, <1>6 DEF InOrder
  <2>3. \A n \in Typed(r, "file.change") :
          r[n].change.op # "delete" => Hash[r[n].content] = m[r[n].change.path].hash
    BY <1>2, <1>6 DEF InOrder
  <2>4. \A n \in Typed(r, "file.change"), k \in Typed(r, "turn.done") : n < k
    <3> SUFFICES ASSUME NEW n \in Typed(r, "file.change"), NEW k \in Typed(r, "turn.done")
                 PROVE  n < k
      OBVIOUS
    <3>1. n + 1 < k + 1 /\ n \in Nat /\ k \in Nat
      BY <1>2, <1>6 DEF InOrder
    <3> QED BY <3>1
  <2>5. InOrder(r, C, m)
    BY <2>1, <2>2, <2>3, <2>4 DEF InOrder
  <2>6. ASSUME Head(q).type = "file.change", NEW ch \in ChangesIn(r) \cup C
        PROVE  Rank[Head(q).change.path] < Rank[ch.path]
    <3>1. 1 \in Typed(q, "file.change")
      BY <1>4, <2>6
    <3>2. CASE ch \in C
      BY <1>1, <1>6, <3>1, <3>2 DEF InOrder
    <3>3. CASE ch \in ChangesIn(r)
      <4>1. PICK n \in Typed(r, "file.change") : ch = r[n].change
        BY <3>3 DEF ChangesIn
      <4>2. n + 1 \in Typed(q, "file.change") /\ 1 < n + 1 /\ r[n] = q[n + 1]
        BY <1>2
      <4> QED BY <1>1, <1>6, <3>1, <4>1, <4>2 DEF InOrder
    <3> QED BY <2>6, <3>2, <3>3
  <2>7. Head(q).type = "file.change" /\ Head(q).change.op # "delete" =>
          Hash[Head(q).content] = m[Head(q).change.path].hash
    BY <1>1, <1>4, <1>6 DEF InOrder
  <2> QED BY <2>5, <2>6, <2>7
<1>7. Head(q).type # "file.change" => ChangesIn(r) = ChangesIn(q)
  BY <1>5
<1>8. Head(q).type = "file.change" => ChangesIn(q) = ChangesIn(r) \cup {Head(q).change}
  BY <1>5
<1> QED BY <1>6, <1>7, <1>8 DEF r

\* A message that carries no change leaves those on their way, and their order.
LEMMA OtherMessages ==
    ASSUME TypeOK, ServerEffect, ~PumpPush
    PROVE  /\ ChangesIn(s2c') = ChangesIn(s2c)
           /\ Typed(s2c', "file.change") = Typed(s2c, "file.change")
           /\ \A C, m : InOrder(s2c, C, m) => InOrder(s2c', C, m)
<1>1. s2c \in Seq(ServerMessages)
  BY DEF TypeOK, WireTypeOK
<1>2. CASE s2c' = s2c
  BY <1>2
<1>3. CASE s2c' # s2c
  <2>1. PICK x \in ServerMessages : s2c' = Append(s2c, x) /\ x.type # "file.change"
    BY <1>3 DEF ServerEffect
  <2>2. ChangesIn(Append(s2c, x)) = ChangesIn(s2c)
    BY <1>1, <2>1, ChangesAppend
  <2>3. Typed(Append(s2c, x), "file.change") = Typed(s2c, "file.change")
    BY <1>1, <2>1, TypedAppend
  <2>4. ASSUME NEW C, NEW m, InOrder(s2c, C, m) PROVE InOrder(Append(s2c, x), C, m)
    BY <1>1, <2>1, <2>4, OrderAppend
  <2> QED BY <2>1, <2>2, <2>3, <2>4
<1> QED BY <1>2, <1>3

-----------------------------------------------------------------------------
(* What the two copies of the project start from *)

\* The agent comes up with the last message of the handshake and is there until
\* the handler closes; a client that has seen session.ready has one, as long as
\* there is a workspace.
UpInv ==
    /\ svcAgent => handler \in {"dispatch", "ready", "hangup", "close"}
    /\ pump.pc # "off" => svcAgent \/ handler \notin {"dispatch", "ready"}
    /\ client \in {"start", "hello", "syncing", "upload"} => ~svcAgent
    /\ client \notin {"bye", "exit"} /\ (ReadySeen \/ client \in {"repl", "turn"}) /\ svcWs
         => svcAgent

\* No file has changed since the client listed its files.
ListedInv ==
    /\ client \in {"start", "hello", "syncing", "upload", "starting"} =>
         Typed(s2c, "file.change") = {}
    /\ edits = 0 /\ client \in {"hello", "syncing", "upload", "starting"} =>
         listed = WalkManifest(local.files, Ignored)

\* Project, workspace and store are such as a disk can hold.
DiskInv == WellFormed(local) /\ Consistent(DOMAIN files) /\ Intact(blobs)

\* Only while pump pushes them has a turn changes to push.
TodoInv == pump.pc # "push" => pump.todo = {}

\* The server keeps UpInv.
LEMMA ServerUp ==
    ASSUME TypeOK, ClientTypeOK, ReadyInv, UpInv, ServerStep \/ SubprocessStep, UNCHANGED clientVars
    PROVE  UpInv'
<1> USE DEF svcVars, turnVars, closeVars, promptVars, pumpVars
<1>1. client' = client /\ ready' = ready
  BY DEF clientVars, chanVars
<1>2. ServerEffect /\ pump \in PumpType
  BY ServerEffects DEF TypeOK, SessionTypeOK
<1>3. Typed(s2c', "session.ready") # {} => Typed(s2c, "session.ready") # {} \/ handler = "ready"
  BY <1>2, SendsTyped
<1>4. ASSUME UNCHANGED <<svcAgent, svcWs>>, handler' = "ready" => handler = "ready",
             svcAgent => handler' \in {"dispatch", "ready", "hangup", "close"},
             handler' \in {"dispatch", "ready"} => handler \in {"dispatch", "ready"},
             pump'.pc # "off" => pump.pc # "off"
      PROVE  UpInv'
  <2>1. ReadySeen' => ReadySeen
    BY <1>1, <1>3, <1>4 DEF ReadySeen
  <2> QED BY <1>1, <1>4, <2>1 DEF UpInv
<1>5. CASE DispatchSyncDone
  <2>1. handler = "dispatch" /\ c2s # <<>> /\ Typed(c2s, "sync.done") # {}
    <3>1. c2s \in Seq(ClientMessages) /\ c2s # <<>> /\ Head(c2s).type = "sync.done"
      BY <1>5 DEF DispatchSyncDone, ServerReads, TypeOK, WireTypeOK
    <3> QED BY <1>5, <3>1, TypedTail DEF DispatchSyncDone
  <2>2. CASE SyncDoneAgain \/ SyncDoneStarts
    <3>1. svcAgent' /\ handler' = "ready"
      BY <2>2 DEF SyncDoneAgain, SyncDoneStarts
    <3>2. client \in {"start", "hello", "syncing", "upload"} => FALSE
      BY <2>1 DEF ReadyInv
    <3> QED BY <1>1, <3>1, <3>2 DEF UpInv
  <2>3. CASE SyncDoneNoWorkspace
    BY <1>4, <2>1, <2>3 DEF SyncDoneNoWorkspace, DispatchFails
  <2>4. CASE SyncDoneNoAgent
    <3>1. ~svcAgent /\ svcAgent' = svcAgent /\ handler' = "hangup" /\ pump' = pump
      BY <2>4 DEF SyncDoneNoAgent, DispatchFails
    <3>2. ReadySeen' => ReadySeen
      BY <1>1, <1>3, <2>1, <3>1 DEF ReadySeen
    <3>3. ASSUME client \notin {"bye", "exit"}, ReadySeen \/ client \in {"repl", "turn"}
          PROVE  FALSE
      <4>1. Typed(<<>>, "sync.done") = {} /\ Typed(<<[type |-> "prompt"]>>, "sync.done") = {}
        <5>1. Typed(<<[type |-> "prompt"]>>, "sync.done") = {}
          BY DEF Typed
        <5> QED BY <5>1, NothingTyped
      <4> QED BY <2>1, <3>3, <4>1 DEF ReadyInv, ClientTypeOK, ClientStates
    <3> QED BY <1>1, <3>1, <3>2, <3>3 DEF UpInv
  <2> QED BY <1>5, <2>2, <2>3, <2>4 DEF DispatchSyncDone
<1>6. CASE CloseTakes
  BY <1>6 DEF CloseTakes, UpInv
<1>7. CASE HandlerStep /\ ~DispatchSyncDone /\ ~CloseTakes
  <2>1. UNCHANGED <<svcAgent, svcWs, pump>>
    BY <1>7 DEF HandlerStep, DispatchStart, DispatchBlob, DispatchReady, DispatchPrompt,
                DispatchInterrupt, DispatchUnknown, DispatchReturns, HangUp, CloseStopsAgent,
                CloseWaits, CloseRemoves
  <2>2. \/ handler = "dispatch" /\ handler' \in {"dispatch", "hangup"}
        \/ handler = "ready" /\ handler' \in {"dispatch", "hangup"}
        \/ handler = "hangup" /\ handler' = "close"
        \/ handler \in {"stop", "wait", "remove"} /\ handler' \in {"wait", "remove", "returned"}
    BY <1>7 DEF HandlerStep, DispatchStart, DispatchBlob, DispatchReady, DispatchPrompt,
                DispatchInterrupt, DispatchUnknown, DispatchReturns, DispatchFails, HangUp,
                CloseStopsAgent, CloseWaits, CloseRemoves
  <2> QED BY <1>4, <2>1, <2>2 DEF UpInv
<1>8. CASE PumpStep
  <2>1. UNCHANGED <<svcAgent, svcWs, handler>>
    BY <1>8 DEF PumpStep, PumpReceive, PumpSnapshot, PumpDiff, PumpPush, PumpAdvance,
                PumpTurnDone, PumpSignal
  <2>2. pump.pc # "off"
    BY <1>8 DEF PumpStep, PumpReceive, PumpSnapshot, PumpDiff, PumpPush, PumpAdvance,
                PumpTurnDone, PumpSignal
  <2> QED BY <1>4, <2>1, <2>2 DEF UpInv
<1>9. CASE (\E i \in 1..MaxPrompts : PromptStep(i)) \/ UNCHANGED sessionVars
  <2>1. UNCHANGED <<svcAgent, svcWs, handler, pump>>
    BY <1>9 DEF PromptStep, PromptStart, PromptSnapshot, PromptBaseline, PromptDrain,
                PromptSend, PromptWait, sessionVars
  <2> QED BY <1>4, <2>1 DEF UpInv
<1> QED BY <1>5, <1>6, <1>7, <1>8, <1>9 DEF ServerStep, SubprocessStep

\* The ways of the main goroutine, and what it leaves alone on them.
LEMMA MainMoves ==
    ASSUME MainStep \/ ClientStops
    PROVE  /\ UNCHANGED <<s2c, local, edits>>
           /\ ready' => ready
           /\ turnOver' => turnOver
           /\ \/ client' \in {"bye", "exit"}
              \/ /\ client = "start" /\ client' = "hello"
                 /\ listed' = WalkManifest(local.files, Ignored)
              \/ /\ client \in {"hello", "syncing", "upload"}
                 /\ client' \in {"syncing", "upload", "starting"}
                 /\ listed' = listed
              \/ client = "starting" /\ ready /\ client' = "repl"
              \/ client = "repl" /\ client' = "turn"
              \/ client = "turn" /\ turnOver /\ client' = "repl"
<1> USE DEF chanVars, wireVars, ClientExits
<1>1. CASE RunStart
  BY <1>1 DEF RunStart
<1>2. CASE RunHello
  <2>1. client' \in {"syncing", "exit"}
    BY <1>2, SendsOrEffect DEF RunHello
  <2> QED BY <1>2, <2>1 DEF RunHello
<1>3. CASE RunSyncRequest \/ RunUpload
  <2>1. client' \in {"upload", "exit"}
    BY <1>3, SendsOrEffect DEF RunSyncRequest, RunUpload
  <2>2. client \in {"syncing", "upload"} /\ UNCHANGED <<s2c, local, edits, ready, turnOver, listed>>
    BY <1>3 DEF RunSyncRequest, RunUpload
  <2> QED BY <2>1, <2>2
<1>4. CASE RunSyncDone
  BY <1>4 DEF RunSyncDone, SendsOr
<1>5. CASE RunReady \/ ReplTurnDone
  BY <1>5 DEF RunReady, ReplTurnDone
<1>6. CASE ReplPrompt
  BY <1>6 DEF ReplPrompt, SendsOr, TooLong
<1>7. CASE ReplEnd
  BY <1>7 DEF ReplEnd, SendsOr
<1>8. CASE MainReturns \/ WaitFails \/ ClientStops
  BY <1>8 DEF MainReturns, WaitFails, ClientStops
<1> QED BY <1>1, <1>2, <1>3, <1>4, <1>5, <1>6, <1>7, <1>8 DEF MainStep

\* readLoop and the user leave the main goroutine where it is; the project changes
\* with a file.change that is taken off the connection, or by the user's hand.
LEMMA ReaderMoves ==
    ASSUME TypeOK, ReaderStep \/ UserEdits
    PROVE  /\ UNCHANGED <<c2s, client, listed>>
           /\ edits' = edits + 1 \/ edits' = edits
           /\ s2c' = s2c \/ (s2c # <<>> /\ s2c' = Tail(s2c))
           /\ \A t : Typed(s2c', t) # {} => Typed(s2c, t) # {}
           /\ \/ edits' = edits + 1
              \/ local' = local /\ edits' = edits
              \/ edits' = edits /\ ReadFileChange /\ Typed(s2c, "file.change") # {}
<1> USE DEF chanVars, wireVars
<1>1. s2c \in Seq(ServerMessages)
  BY DEF TypeOK, WireTypeOK
<1>2. s2c' = s2c \/ (s2c # <<>> /\ s2c' = Tail(s2c))
  BY DEF ReaderStep, ReadMessage, ReadFails, ReadSyncRequest, ReadReady, ReadShown,
         ReadFileChange, ReadTurnDone, ClientReads, UserEdits
<1>3. ASSUME NEW t, Typed(s2c', t) # {} PROVE Typed(s2c, t) # {}
  <2>1. CASE s2c' = s2c
    BY <1>3, <2>1
  <2>2. CASE s2c # <<>> /\ s2c' = Tail(s2c)
    BY <1>1, <1>3, <2>2, TypedTail
  <2> QED BY <1>2, <2>1, <2>2
<1>4. ReadFileChange => Typed(s2c, "file.change") # {}
  BY <1>1, TypedTail DEF ReadFileChange, ClientReads
<1>5. CASE UserEdits
  BY <1>2, <1>3, <1>5 DEF UserEdits
<1>6. CASE ReadFails
  BY <1>3, <1>6 DEF ReadFails
<1>7. CASE ReadMessage
  BY <1>2, <1>3, <1>4, <1>7
     DEF ReadMessage, ReadSyncRequest, ReadReady, ReadShown, ReadTurnDone
<1> QED BY <1>5, <1>6, <1>7 DEF ReaderStep

\* The client keeps UpInv: session.ready takes it to its prompt.
LEMMA ClientUp ==
    ASSUME TypeOK, ReadyInv, UpInv, ClientStep, UNCHANGED <<agentVars, sessionVars>>
    PROVE  UpInv'
<1>1. UNCHANGED <<svcAgent, svcWs, handler, pump>>
  BY DEF sessionVars, svcVars, pumpVars
<1>2. CASE MainStep \/ ClientStops
  <2>1. ReadySeen' => ReadySeen
    BY <1>1, <1>2, MainMoves DEF ReadySeen
  <2>2. client = "starting" /\ ready => ReadySeen
    BY DEF ReadySeen
  <2>3. client' \in {"start", "hello", "syncing", "upload"} =>
          client \in {"start", "hello", "syncing", "upload"}
    BY <1>2, MainMoves
  <2>4. client' \notin {"bye", "exit"} =>
          /\ client \notin {"bye", "exit"}
          /\ client' \in {"repl", "turn"} =>
               client \in {"repl", "turn"} \/ (client = "starting" /\ ready)
    BY <1>2, MainMoves
  <2> QED BY <1>1, <2>1, <2>2, <2>3, <2>4 DEF UpInv
<1>3. CASE ReaderStep \/ UserEdits
  <2>1. client' = client /\ (ReadySeen' => ReadySeen)
    BY <1>3, ReaderEffect
  <2> QED BY <1>1, <2>1 DEF UpInv
<1> QED BY <1>2, <1>3 DEF ClientStep

\* What is to be pushed belongs to a turn that the client waits for.
LEMMA FinishingAsked ==
    ASSUME TurnInv, pump.pc \in {"snap", "diff", "push", "turndone"}
    PROVE  OnlyTurn("finishing", 1) /\ client \in {"turn", "exit"}
<1>1. 1 \in Finishing(pump)
  BY DEF Finishing
<1>2. <<"finishing", 1>> \in Turns
  BY <1>1, TurnPlaces
<1> QED BY <1>2, SoleTurn

\* Every step keeps ListedInv.
LEMMA ListedNext ==
    ASSUME SessionInv, ListedInv, [Next]_vars
    PROVE  ListedInv'
<1>1. TypeOK /\ ClientTypeOK /\ TurnInv
  BY DEF SessionInv
<1>2. CASE Server \/ Subprocess
  <2>1. (ServerStep \/ SubprocessStep) /\ UNCHANGED <<client, local, listed, edits>>
    BY <1>2 DEF Server, Subprocess, clientVars
  <2>2. PumpPush => client \in {"turn", "exit"}
    BY <1>1, FinishingAsked DEF PumpPush
  <2>3. ~PumpPush => Typed(s2c', "file.change") = Typed(s2c, "file.change")
    BY <1>1, <2>1, ServerEffects, OtherMessages
  <2> QED BY <2>1, <2>2, <2>3 DEF ListedInv
<1>3. CASE Client
  <2>1. CASE MainStep \/ ClientStops
    BY <2>1, MainMoves DEF ListedInv
  <2>2. CASE ReaderStep \/ UserEdits
    <3>1. edits' = edits + 1 => edits' # 0
      BY <1>1, ClientAssumption DEF ClientTypeOK
    <3> QED BY <1>1, <2>2, <3>1, ReaderMoves DEF ListedInv
  <2> QED BY <1>3, <2>1, <2>2 DEF Client, ClientStep
<1>4. CASE Network \/ UNCHANGED vars
  <2>1. UNCHANGED <<s2c, client, local, listed, edits>>
    BY <1>4 DEF Network, ConnLost, vars, serverVars, wireVars, clientVars
  <2> QED BY <2>1 DEF ListedInv
<1> QED BY <1>2, <1>3, <1>4 DEF Next

\* At the start nobody has moved.
LEMMA CopyBases == Init => UpInv /\ ListedInv /\ DiskInv /\ TodoInv
<1> SUFFICES ASSUME Init PROVE UpInv /\ ListedInv /\ DiskInv /\ TodoInv
  OBVIOUS
<1> USE DEF Init, WireInit, AgentInit, SessionInit, ClientInit
<1>1. ~svcAgent /\ ~svcWs /\ pump.pc = "off" /\ pump.todo = {} /\ client = "start"
  OBVIOUS
<1>2. UpInv /\ TodoInv
  BY <1>1 DEF UpInv, TodoInv
<1>3. ListedInv
  BY <1>1, NothingTyped DEF ListedInv
<1>4. PICK f \in Trees : Consistent(DOMAIN f) /\ local = [files |-> f, dirs |-> DirsOf(DOMAIN f)]
  OBVIOUS
<1>5. WellFormed(local)
  <2>1. DOMAIN f \subseteq Paths
    BY TreeElim
  <2>2. DirsOf(DOMAIN f \cup DirsOf(DOMAIN f)) \subseteq DirsOf(DOMAIN f)
    BY <2>1, PathAssumption DEF DirsOf
  <2>3. DOMAIN f \cap DirsOf(DOMAIN f) = {}
    BY <1>4 DEF DirsOf, Consistent
  <2> QED BY <1>4, <2>2, <2>3 DEF WellFormed
<1>6. Consistent(DOMAIN files)
  <2>1. DOMAIN files = {}
    BY DEF NoFiles
  <2> QED BY <2>1 DEF Consistent
<1>7. Intact(blobs)
  OBVIOUS
<1> QED BY <1>2, <1>3, <1>5, <1>6, <1>7 DEF DiskInv

\* The workspace never has a file where another one has a directory.
LEMMA FilesConsistent ==
    ASSUME TypeOK, Consistent(DOMAIN files), ServerStep \/ SubprocessStep
    PROVE  Consistent(DOMAIN files')
<1> USE DEF agentVars, procVars, streamVars, dirVars
<1>1. CASE files' = files
  BY <1>1
<1>2. CASE DispatchSyncDone
  <2>1. CASE SyncDoneStarts
    <3>1. DOMAIN files' = DOMAIN manifest /\ Consistent(DOMAIN manifest)
      BY <2>1 DEF SyncDoneStarts, Materialize, CanMaterialize
    <3> QED BY <3>1
  <2>2. CASE SyncDoneNoAgent
    <3>1. PICK S \in SUBSET {p \in DOMAIN manifest : manifest[p].hash \in DOMAIN blobs} :
            Consistent(S) /\ files' = Restrict(Materialize(manifest, blobs), S)
      BY <2>2 DEF SyncDoneNoAgent
    <3>2. DOMAIN files' = S
      BY <3>1 DEF Restrict
    <3> QED BY <3>1, <3>2
  <2>3. CASE SyncDoneAgain \/ SyncDoneNoWorkspace
    BY <1>1, <2>3 DEF SyncDoneAgain, SyncDoneNoWorkspace
  <2> QED BY <1>2, <2>1, <2>2, <2>3 DEF DispatchSyncDone
<1>3. CASE CloseRemoves
  <2>1. files' = files \/ files' = NoFiles
    BY <1>3 DEF CloseRemoves
  <2>2. Consistent(DOMAIN NoFiles)
    <3>1. DOMAIN NoFiles = {}
      BY DEF NoFiles
    <3> QED BY <3>1 DEF Consistent
  <2> QED BY <2>1, <2>2
<1>4. CASE HandlerStep /\ ~DispatchSyncDone /\ ~CloseRemoves
  BY <1>1, <1>4
     DEF HandlerStep, DispatchStart, DispatchBlob, DispatchReady, DispatchPrompt,
         DispatchInterrupt, DispatchUnknown, DispatchReturns, HangUp, CloseTakes,
         CloseStopsAgent, CloseWaits
<1>5. CASE \E i \in 1..MaxPrompts : PromptStep(i)
  BY <1>1, <1>5
     DEF PromptStep, PromptStart, PromptSnapshot, PromptBaseline, PromptDrain, PromptSend,
         PromptWait
<1>6. CASE PumpStep
  BY <1>1, <1>6
     DEF PumpStep, PumpReceive, PumpSnapshot, PumpDiff, PumpPush, PumpAdvance, PumpTurnDone,
         PumpSignal
<1>7. CASE ReadLoopStep
  BY <1>1, <1>7 DEF ReadLoopStep, ReadLine, ReadEOF
<1>8. CASE SubprocessStep
  <2>1. CASE EditOne
    BY <2>1 DEF EditOne
  <2> QED BY <1>1, <1>8, <2>1
          DEF SubprocessStep, ClaudeStep, ClaudeBegins, ClaudeEdits, BackgroundEdits,
              ClaudePrints, ClaudeEndsTurn, ClaudeExits, ClaudeCrashes
<1> QED BY <1>2, <1>3, <1>4, <1>5, <1>6, <1>7, <1>8 DEF ServerStep

\* A file.change on the connection carries a change, and content unless it is of a
\* file that has gone.
LEMMA ChangeTypes ==
    ASSUME TypeOK
    PROVE  /\ ChangesIn(s2c) \subseteq Changes
           /\ s2c # <<>> /\ Head(s2c).type = "file.change" =>
                /\ Head(s2c).change \in Changes
                /\ Head(s2c).change.op # "delete" => Head(s2c).content \in Contents
<1>1. s2c \in Seq(ServerMessages)
  BY DEF TypeOK, WireTypeOK
<1>2. \A m \in ServerMessages : m.type = "file.change" =>
        /\ m.change \in Changes
        /\ m.change.op # "delete" => m.content \in Contents
  BY DEF ServerMessages, Changes
<1>3. \A n \in Typed(s2c, "file.change") : s2c[n] \in ServerMessages
  BY <1>1 DEF Typed
<1>4. ChangesIn(s2c) \subseteq Changes
  BY <1>2, <1>3 DEF ChangesIn, Typed
<1>5. s2c # <<>> => Head(s2c) \in ServerMessages
  BY <1>1
<1> QED BY <1>2, <1>4, <1>5

\* Nor does the project, whatever is applied to it or the user does.
LEMMA LocalWellFormed ==
    ASSUME TypeOK, ClientTypeOK, WellFormed(local), ClientStep
    PROVE  WellFormed(local')
<1>1. local \in Disks
  BY DEF ClientTypeOK, Disks
<1>2. CASE local' = local
  BY <1>2
<1>3. CASE ReadFileChange
  <2>1. s2c # <<>> /\ Head(s2c).type = "file.change"
    BY <1>3 DEF ReadFileChange, ClientReads
  <2>2. PICK c : /\ local' = Apply(local, Head(s2c).change, c) \/ local' = local
                 /\ c = (IF Head(s2c).change.op = "delete" THEN NoFiles ELSE Head(s2c).content)
    BY <1>3 DEF ReadFileChange
  <2>3. Head(s2c).change.op # "delete" => c \in Contents
    BY <2>1, <2>2, ChangeTypes
  <2>4. WellFormed(Apply(local, Head(s2c).change, c))
    BY <1>1, <2>1, <2>3, ChangeTypes, ApplyEffect
  <2> QED BY <1>2, <2>2, <2>4
<1>4. CASE UserEdits
  <2>1. PICK p \in Paths :
          local' \in {Remove(local, p)} \cup {Write(local, p, f) : f \in FileEntry}
    BY <1>4 DEF UserEdits
  <2>2. WellFormed(Remove(local, p))
    BY <1>1, RemoveEffect
  <2>3. \A f \in FileEntry : WellFormed(Write(local, p, f))
    BY <1>1, WriteEffect
  <2> QED BY <2>1, <2>2, <2>3
<1>5. CASE ReaderStep /\ ~ReadFileChange
  BY <1>2, <1>5 DEF ReaderStep, ReadMessage, ReadFails, ReadSyncRequest, ReadReady, ReadShown,
                    ReadTurnDone
<1>6. CASE MainStep \/ ClientStops
  BY <1>2, <1>6, MainMoves
<1> QED BY <1>3, <1>4, <1>5, <1>6 DEF ClientStep

\* Every step keeps DiskInv.
LEMMA DiskNext ==
    ASSUME TypeOK, ClientTypeOK, DiskInv, [Next]_vars
    PROVE  DiskInv'
<1>1. CASE Server \/ Subprocess
  <2>1. (ServerStep \/ SubprocessStep) /\ local' = local
    BY <1>1 DEF Server, Subprocess, clientVars
  <2>2. Consistent(DOMAIN files')
    BY <2>1, FilesConsistent DEF DiskInv
  <2>3. Intact(blobs')
    BY <2>1, StoreIntact DEF DiskInv, Intact
  <2> QED BY <2>1, <2>2, <2>3 DEF DiskInv
<1>2. CASE Client
  <2>1. ClientStep /\ UNCHANGED <<files, blobs>>
    BY <1>2 DEF Client, agentVars, dirVars, sessionVars, svcVars
  <2> QED BY <2>1, LocalWellFormed DEF DiskInv
<1>3. CASE Network \/ UNCHANGED vars
  <2>1. UNCHANGED <<local, files, blobs>>
    BY <1>3 DEF Network, vars, serverVars, clientVars, agentVars, dirVars, sessionVars, svcVars
  <2> QED BY <2>1 DEF DiskInv
<1> QED BY <1>1, <1>2, <1>3 DEF Next

\* The pump's changes go with the turn that made them.
LEMMA TodoNext ==
    ASSUME TypeOK, UpInv, TodoInv, [Next]_vars
    PROVE  TodoInv'
<1> USE DEF pumpVars
<1>1. pump \in PumpType
  BY DEF TypeOK, SessionTypeOK
<1>2. CASE pump' = pump
  BY <1>2 DEF TodoInv
<1>3. CASE PumpStep
  <2>1. CASE PumpReceive \/ PumpSignal \/ PumpAdvance
    <3>1. \E x \in PumpStates : pump' = [pump EXCEPT !.pc = x]
      BY <2>1 DEF PumpReceive, PumpSignal, PumpAdvance, PumpGoes, PumpStates
    <3>2. pump'.todo = pump.todo
      BY <1>1, <3>1 DEF PumpType
    <3>3. pump.todo = {}
      BY <2>1 DEF PumpReceive, PumpSignal, PumpAdvance, TodoInv
    <3> QED BY <3>2, <3>3 DEF TodoInv
  <2>2. CASE PumpSnapshot
    <3>1. \/ pump' = [pump EXCEPT !.pc = "diff", !.after = Snapshot(files)]
          \/ FinishTurn(TRUE)
          \/ pump' = pump
      BY <2>2 DEF PumpSnapshot
    <3>2. pump.todo = {}
      BY <2>2 DEF PumpSnapshot, TodoInv
    <3>3. pump'.todo = {}
      BY <1>1, <3>1, <3>2 DEF PumpType, FinishTurn
    <3> QED BY <3>3 DEF TodoInv
  <2>3. CASE PumpDiff
    <3>1. pump'.pc = "push"
      BY <1>1, <2>3 DEF PumpDiff, PumpType
    <3> QED BY <3>1 DEF TodoInv
  <2>4. CASE PumpPush
    <3>1. pump.pc = "push"
      BY <2>4 DEF PumpPush
    <3>2. \/ \E ch \in pump.todo : pump' = [pump EXCEPT !.todo = @ \ {ch}]
          \/ FinishTurn(TRUE)
          \/ pump' = pump
      BY <2>4 DEF PumpPush
    <3>3. pump'.pc = "push" \/ pump'.todo = {}
      BY <1>1, <3>1, <3>2 DEF PumpType, FinishTurn
    <3> QED BY <3>3 DEF TodoInv
  <2>5. CASE PumpTurnDone
    <3>1. FinishTurn(TRUE) \/ FinishTurn(FALSE)
      BY <2>5 DEF PumpTurnDone
    <3>2. pump'.todo = {}
      BY <1>1, <3>1 DEF PumpType, FinishTurn
    <3> QED BY <3>2 DEF TodoInv
  <2> QED BY <1>3, <2>1, <2>2, <2>3, <2>4, <2>5 DEF PumpStep
<1>4. CASE DispatchSyncDone /\ SyncDoneStarts
  <2>1. pump.pc = "off" /\ pump' = [pump EXCEPT !.pc = "recv"]
    BY <1>4 DEF DispatchSyncDone, SyncDoneStarts, UpInv
  <2>2. pump'.todo = {}
    BY <1>1, <2>1 DEF PumpType, TodoInv
  <2> QED BY <2>2 DEF TodoInv
<1>5. CASE HandlerStep /\ ~(DispatchSyncDone /\ SyncDoneStarts)
  BY <1>2, <1>5
     DEF HandlerStep, DispatchStart, DispatchBlob, DispatchSyncDone, SyncDoneAgain,
         SyncDoneNoWorkspace, SyncDoneNoAgent, DispatchReady, DispatchPrompt,
         DispatchInterrupt, DispatchUnknown, DispatchReturns, HangUp, CloseTakes,
         CloseStopsAgent, CloseWaits, CloseRemoves
<1>6. CASE \E i \in 1..MaxPrompts : PromptStep(i)
  BY <1>2, <1>6 DEF PromptStep, PromptStart, PromptSnapshot, PromptBaseline, PromptDrain,
                    PromptSend, PromptWait
<1>7. CASE UNCHANGED sessionVars
  BY <1>2, <1>7 DEF sessionVars
<1> QED BY <1>3, <1>4, <1>5, <1>6, <1>7
        DEF Next, Server, Subprocess, Client, Network, ServerStep, SubprocessStep, vars,
            serverVars

-----------------------------------------------------------------------------
(* The project and the workspace, stage by stage of a turn *)

\* The session is under way, and nobody but claude has touched the files.
Live == svcAgent /\ edits = 0 /\ client \notin {"bye", "exit"}

\* Between two turns: what claude has done is on the client's disk.
Quiet ==
    \/ client \in {"starting", "repl"}
    \/ Typed(c2s, "prompt") # {}
    \/ Preparing(hp) # {}
    \/ stdin # 0
    \/ turnOver

\* HandlePrompt has taken the turn's baseline, and claude has not started.
Prepared ==
    \/ \E i \in 1..MaxPrompts : hp[i].pc \in {"drain", "send"}
    \/ stdin # 0

\* claude works, or pump has not yet found out what it has done.
AtWork ==
    \/ proc = "busy"
    \/ OfKind(pipe, "result") # {}
    \/ OfKind(events, "result") # {}
    \/ pump.pc \in {"snap", "diff"}

\* The turn's changes are being pushed, or are on their way to the client.
Pushing ==
    \/ pump.pc \in {"push", "turndone"}
    \/ Typed(s2c, "turn.done") # {}

\* The changes on the connection, and those still to be pushed.
Flight(q, p) == ChangesIn(q) \cup p.todo

\* Between turns the project is in sync with the workspace.  The baseline that
\* HandlePrompt takes then is what the project is in sync with while claude works;
\* and what pump finds changed since takes the project to the workspace as it is
\* after the turn, change by change in the order of the connection.
CopyInv ==
    Live =>
      /\ Quiet => InSync(local, Snapshot(files), {}) /\ Flight(s2c, pump) = {}
      /\ \A i \in 1..MaxPrompts : hp[i].pc = "base" => hp[i].snap = Snapshot(files)
      /\ Prepared => preTurn = Snapshot(files)
      /\ AtWork => InSync(local, preTurn, {}) /\ Flight(s2c, pump) = {}
      /\ pump.pc \in {"diff", "push"} => pump.after = Snapshot(files)
      /\ Pushing =>
           /\ InSync(local, Snapshot(files), Flight(s2c, pump))
           /\ InOrder(s2c, pump.todo, Snapshot(files))

\* A step that leaves the files, the baselines and the changes where they are.
Rests ==
    Live' =>
      /\ Live
      /\ UNCHANGED <<local, files>>
      /\ Quiet' => Quiet
      /\ \A i \in 1..MaxPrompts : hp'[i].pc = "base" => hp'[i] = hp[i]
      /\ Prepared' => Prepared /\ preTurn' = preTurn
      /\ AtWork' => AtWork /\ preTurn' = preTurn
      /\ pump'.pc \in {"diff", "push"} =>
           pump.pc \in {"diff", "push"} /\ pump'.after = pump.after
      /\ Pushing' => Pushing
      /\ Flight(s2c', pump') = Flight(s2c, pump)
      /\ \A m : InOrder(s2c, pump.todo, m) => InOrder(s2c', pump'.todo, m)

\* Such a step keeps CopyInv.
LEMMA CopyRests == CopyInv /\ Rests => CopyInv'
<1> SUFFICES ASSUME CopyInv, Rests, Live' PROVE CopyInv'
  BY DEF CopyInv
<1>1. /\ Live /\ local' = local /\ files' = files
      /\ Flight(s2c', pump') = Flight(s2c, pump)
  BY DEF Rests
<1>2. Quiet' => InSync(local', Snapshot(files'), {}) /\ Flight(s2c', pump') = {}
  BY <1>1 DEF Rests, CopyInv
<1>3. \A i \in 1..MaxPrompts : hp'[i].pc = "base" => hp'[i].snap = Snapshot(files')
  BY <1>1 DEF Rests, CopyInv
<1>4. Prepared' => preTurn' = Snapshot(files')
  BY <1>1 DEF Rests, CopyInv
<1>5. AtWork' => InSync(local', preTurn', {}) /\ Flight(s2c', pump') = {}
  BY <1>1 DEF Rests, CopyInv
<1>6. pump'.pc \in {"diff", "push"} => pump'.after = Snapshot(files')
  BY <1>1 DEF Rests, CopyInv
<1>7. Pushing' =>
        /\ InSync(local', Snapshot(files'), Flight(s2c', pump'))
        /\ InOrder(s2c', pump'.todo, Snapshot(files'))
  BY <1>1 DEF Rests, CopyInv
<1> QED BY <1>2, <1>3, <1>4, <1>5, <1>6, <1>7 DEF CopyInv

\* A step of the server that leaves pump where it is, or is neither a push nor the
\* end of a turn, leaves the changes on the connection and adds no turn.done.
LEMMA MessagesRest ==
    ASSUME TypeOK, ServerEffect, pump' = pump \/ (~PumpPush /\ ~PumpTurnDone)
    PROVE  /\ ChangesIn(s2c') = ChangesIn(s2c)
           /\ \A C, m : InOrder(s2c, C, m) => InOrder(s2c', C, m)
           /\ Typed(s2c', "turn.done") # {} => Typed(s2c, "turn.done") # {}
           /\ Typed(c2s', "prompt") # {} => Typed(c2s, "prompt") # {}
<1>1. Typed(c2s', "prompt") # {} => Typed(c2s, "prompt") # {}
  BY TakesTyped
<1>2. CASE s2c' = s2c
  BY <1>1, <1>2
<1>3. CASE s2c' # s2c
  <2>1. pump \in PumpType
    BY DEF TypeOK, SessionTypeOK
  <2>2. ~PumpPush
    <3>1. ASSUME PumpPush, pump' = pump PROVE FALSE
      <4>1. \/ \E ch \in pump.todo : pump' = [pump EXCEPT !.todo = @ \ {ch}]
            \/ FinishTurn(TRUE)
            \/ s2c' = s2c
        BY <3>1 DEF PumpPush
      <4>2. ASSUME NEW ch \in pump.todo, pump' = [pump EXCEPT !.todo = @ \ {ch}] PROVE FALSE
        BY <2>1, <3>1, <4>2 DEF PumpType
      <4>3. FinishTurn(TRUE) => FALSE
        BY <2>1, <3>1 DEF FinishTurn, PumpType, PumpPush
      <4> QED BY <1>3, <4>1, <4>2, <4>3
    <3> QED BY <3>1
  <2>3. ~PumpTurnDone
    BY <2>1 DEF PumpTurnDone, FinishTurn, PumpType
  <2>4. Typed(s2c', "turn.done") # {} => Typed(s2c, "turn.done") # {}
    BY <2>3, WireShrinks DEF Shrinks
  <2> QED BY <1>1, <2>2, <2>4, OtherMessages
<1> QED BY <1>2, <1>3

\* A change of one HandlePrompt goroutine leaves the others alone.
LEMMA OnePrompt ==
    ASSUME TypeOK, NEW i \in 1..MaxPrompts, NEW x \in PromptStates,
           \/ hp' = [hp EXCEPT ![i].pc = x]
           \/ \E m \in Manifests : hp' = [hp EXCEPT ![i].pc = x, ![i].snap = m]
           \/ \E n \in Nat : hp' = [hp EXCEPT ![i].pc = x, ![i].turn = n]
    PROVE  hp'[i].pc = x /\ \A j \in 1..MaxPrompts : j # i => hp'[j] = hp[j]
<1>1. hp \in [1..MaxPrompts -> PromptType]
  BY DEF TypeOK, SessionTypeOK
<1> QED BY <1>1 DEF PromptType

\* The handler moves no file while the agent is up, except to write out what it
\* starts in.
LEMMA HandlerRests ==
    ASSUME TypeOK, UpInv, HandlerStep, ~(DispatchSyncDone /\ SyncDoneStarts),
           UNCHANGED clientVars
    PROVE  Rests
<1> USE DEF svcVars, turnVars, closeVars, promptVars, pumpVars, agentVars, procVars,
            streamVars, dirVars
<1>1. SUFFICES ASSUME Live' PROVE Rests
  BY DEF Rests
<1>2. UNCHANGED <<client, local, turnOver, edits>>
  BY DEF clientVars, chanVars
<1>3. pump' = pump /\ preTurn' = preTurn /\ svcAgent
  <2>1. CASE DispatchSyncDone
    BY <1>1, <2>1 DEF Live, DispatchSyncDone, SyncDoneAgain, SyncDoneNoWorkspace,
                      SyncDoneNoAgent
  <2>2. CASE ~DispatchSyncDone
    BY <1>1, <2>2
       DEF Live, HandlerStep, DispatchStart, DispatchBlob, DispatchReady, DispatchPrompt,
           DispatchInterrupt, DispatchUnknown, DispatchReturns, HangUp, CloseTakes,
           CloseStopsAgent, CloseWaits, CloseRemoves
  <2> QED BY <2>1, <2>2
<1>4. UNCHANGED <<files, stdin, proc, pipe, events>>
  <2>1. CASE DispatchSyncDone
    BY <1>3, <2>1 DEF DispatchSyncDone, SyncDoneAgain, SyncDoneNoWorkspace, SyncDoneNoAgent
  <2>2. CASE ~DispatchSyncDone
    BY <1>3, <2>2
       DEF UpInv, HandlerStep, DispatchStart, DispatchBlob, DispatchReady, DispatchPrompt,
           DispatchInterrupt, DispatchUnknown, DispatchReturns, HangUp, CloseTakes,
           CloseStopsAgent, CloseStdin, CloseWaits, CloseRemoves
  <2> QED BY <2>1, <2>2
<1>5. /\ ChangesIn(s2c') = ChangesIn(s2c)
      /\ \A C, m : InOrder(s2c, C, m) => InOrder(s2c', C, m)
      /\ Typed(s2c', "turn.done") # {} => Typed(s2c, "turn.done") # {}
      /\ Typed(c2s', "prompt") # {} => Typed(c2s, "prompt") # {}
  BY <1>3, HandlerEffect, MessagesRest
<1>6. /\ Preparing(hp') # {} => Preparing(hp) # {} \/ Typed(c2s, "prompt") # {}
      /\ \A i \in 1..MaxPrompts : hp'[i].pc \in {"base", "drain", "send"} => hp'[i] = hp[i]
  <2>1. CASE DispatchPrompt
    <3>1. prompts + 1 \in 1..MaxPrompts /\ c2s \in Seq(ClientMessages)
      BY <2>1, SessionAssumption DEF DispatchPrompt, TypeOK, WireTypeOK, SessionTypeOK
    <3>2. PICK j \in 1..MaxPrompts : j = prompts + 1
      BY <3>1
    <3>3. hp' = [hp EXCEPT ![j].pc = "start"]
      BY <2>1, <3>2 DEF DispatchPrompt
    <3>4. hp'[j].pc = "start" /\ \A k \in 1..MaxPrompts : k # j => hp'[k] = hp[k]
      BY <3>3, OnePrompt DEF PromptStates
    <3>5. Typed(c2s, "prompt") # {}
      BY <2>1, <3>1, TypedTail DEF DispatchPrompt, ServerReads
    <3> QED BY <3>4, <3>5
  <2>2. CASE ~DispatchPrompt
    <3>1. hp' = hp
      BY <2>2
         DEF HandlerStep, DispatchStart, DispatchBlob, DispatchSyncDone, DispatchReady,
             DispatchInterrupt, DispatchUnknown, DispatchReturns, HangUp, CloseTakes,
             CloseStopsAgent, CloseWaits, CloseRemoves
    <3> QED BY <3>1
  <2> QED BY <2>1, <2>2
<1>7. Live /\ (Quiet' => Quiet)
  BY <1>1, <1>2, <1>3, <1>4, <1>5, <1>6 DEF Live, Quiet
<1>8. (Prepared' => Prepared) /\ (AtWork' => AtWork) /\ (Pushing' => Pushing)
  BY <1>3, <1>4, <1>5, <1>6 DEF Prepared, AtWork, Pushing
<1> QED BY <1>2, <1>3, <1>4, <1>5, <1>6, <1>7, <1>8 DEF Rests, Flight

\* The stages are places of the one turn there may be.
LEMMA StageOfPlace ==
    ASSUME TypeOK, NEW a, NEW x, OnlyTurn(a, x)
    PROVE  /\ Quiet => client \in {"starting", "repl"}
                       \/ a \in {"asked", "preparing", "given", "over"}
           /\ Prepared => a \in {"preparing", "given"}
           /\ AtWork => a \in {"working", "printed", "delivered", "finishing"}
           /\ Pushing => a \in {"finishing", "told"}
<1>1. stdin # 0 => 1..stdin # {}
  <2>1. stdin \in Nat
    BY DEF TypeOK, AgentTypeOK
  <2>2. stdin # 0 => 1 \in 1..stdin
    BY <2>1
  <2> QED BY <2>2
<1>2. Quiet => client \in {"starting", "repl"} \/ a \in {"asked", "preparing", "given", "over"}
  <2>1. turnOver => Over(turnOver) # {}
    BY DEF Over
  <2> QED BY <1>1, <2>1 DEF Quiet, OnlyTurn
<1>3. Prepared => a \in {"preparing", "given"}
  <2>1. (\E i \in 1..MaxPrompts : hp[i].pc \in {"drain", "send"}) => Preparing(hp) # {}
    BY DEF Preparing
  <2> QED BY <1>1, <2>1 DEF Prepared, OnlyTurn
<1>4. AtWork => a \in {"working", "printed", "delivered", "finishing"}
  <2>1. proc = "busy" => Working(proc) # {}
    BY DEF Working
  <2>2. pump.pc \in {"snap", "diff"} => Finishing(pump) # {}
    BY DEF Finishing
  <2> QED BY <2>1, <2>2 DEF AtWork, OnlyTurn
<1>5. Pushing => a \in {"finishing", "told"}
  <2>1. pump.pc \in {"push", "turndone"} => Finishing(pump) # {}
    BY DEF Finishing
  <2> QED BY <2>1 DEF Pushing, OnlyTurn
<1> QED BY <1>2, <1>3, <1>4, <1>5

\* HandlePrompt moves no file, and changes no baseline but in the step named so.
LEMMA PromptRests ==
    ASSUME TypeOK, NEW i \in 1..MaxPrompts, PromptStep(i), UNCHANGED clientVars,
           ~PromptBaseline(i), hp'[i].pc # "base"
    PROVE  Rests
<1> USE DEF svcVars, turnVars, closeVars, promptVars, pumpVars, agentVars, procVars,
            streamVars, dirVars
<1>1. UNCHANGED <<client, local, turnOver, edits>>
  BY DEF clientVars, chanVars
<1>2. UNCHANGED <<pump, preTurn, svcAgent, files, proc, pipe, events>>
  BY DEF PromptStep, PromptStart, PromptSnapshot, PromptDrain, PromptSend, SendPrompt,
         PromptWait
<1>3. stdin' = stdin \/ hp[i].pc = "send"
  BY DEF PromptStep, PromptStart, PromptSnapshot, PromptDrain, PromptSend, PromptWait
<1>4. /\ ChangesIn(s2c') = ChangesIn(s2c)
      /\ \A C, m : InOrder(s2c, C, m) => InOrder(s2c', C, m)
      /\ Typed(s2c', "turn.done") # {} => Typed(s2c, "turn.done") # {}
      /\ Typed(c2s', "prompt") # {} => Typed(c2s, "prompt") # {}
  BY <1>2, PromptEffect, MessagesRest
<1>5. /\ \A j \in 1..MaxPrompts : j # i => hp'[j] = hp[j]
      /\ hp'[i].pc \in {"drain", "send"} => hp[i].pc = "drain"
      /\ i \in Preparing(hp') => i \in Preparing(hp)
  <2>1. files \in Trees
    BY DEF TypeOK, AgentTypeOK
  <2>2. CASE PromptStart(i)
    <3>1. \E p \in {"snap", "failed"} : hp' = [hp EXCEPT ![i].pc = p]
      BY <2>2 DEF PromptStart, PromptFails
    <3> QED BY <2>2, <3>1, OnePrompt DEF PromptStart, PromptStates, Preparing
  <2>3. CASE PromptSnapshot(i)
    <3>1. \/ hp' = [hp EXCEPT ![i].pc = "base", ![i].snap = Snapshot(files)]
          \/ hp' = [hp EXCEPT ![i].pc = "failed"]
      BY <2>3 DEF PromptSnapshot, PromptFails
    <3>2. hp' = [hp EXCEPT ![i].pc = "failed"]
      BY <2>1, <3>1, OnePrompt, SnapshotType DEF PromptStates
    <3> QED BY <3>2, OnePrompt DEF PromptStates, Preparing
  <2>4. CASE PromptDrain(i)
    <3>1. hp[i].pc = "drain" /\ hp' = [hp EXCEPT ![i].pc = "send"]
      BY <2>4 DEF PromptDrain
    <3> QED BY <3>1, OnePrompt DEF PromptStates, Preparing
  <2>5. CASE PromptSend(i)
    <3>1. sent + 1 \in Nat
      BY DEF TypeOK, SessionTypeOK
    <3>2. \/ hp' = [hp EXCEPT ![i].pc = "wait", ![i].turn = sent + 1]
          \/ hp' = [hp EXCEPT ![i].pc = "failed"]
      BY <2>5 DEF PromptSend, PromptFails
    <3>3. hp'[i].pc \in {"wait", "failed"} /\ \A j \in 1..MaxPrompts : j # i => hp'[j] = hp[j]
      BY <3>1, <3>2, OnePrompt DEF PromptStates
    <3> QED BY <3>3 DEF Preparing
  <2>6. CASE PromptWait(i)
    <3>1. \E p \in {"ok", "failed"} : hp' = [hp EXCEPT ![i].pc = p]
      BY <2>6 DEF PromptWait, PromptFails
    <3>2. hp'[i].pc \in {"ok", "failed"} /\ \A j \in 1..MaxPrompts : j # i => hp'[j] = hp[j]
      BY <3>1, OnePrompt DEF PromptStates
    <3> QED BY <3>2 DEF Preparing
  <2> QED BY <2>2, <2>3, <2>4, <2>5, <2>6 DEF PromptStep
<1>6. (Preparing(hp') # {} => Preparing(hp) # {})
      /\ (hp[i].pc = "send" => Preparing(hp) # {})
  BY <1>5 DEF Preparing
<1>7. (Live' => Live) /\ (Quiet' => Quiet)
  BY <1>1, <1>2, <1>3, <1>4, <1>6 DEF Live, Quiet
<1>8. (Prepared' => Prepared) /\ (AtWork' => AtWork) /\ (Pushing' => Pushing)
  <2>1. Prepared' => Prepared
    BY <1>3, <1>5 DEF Prepared
  <2> QED BY <1>2, <1>4, <2>1 DEF AtWork, Pushing
<1>9. \A j \in 1..MaxPrompts : hp'[j].pc = "base" => hp'[j] = hp[j]
  BY <1>5
<1> QED BY <1>1, <1>2, <1>4, <1>7, <1>8, <1>9 DEF Rests, Flight

\* HandlePrompt's baseline is the workspace that the project is in sync with.
LEMMA PromptCopy ==
    ASSUME TypeOK, TurnInv, CopyInv, NEW i \in 1..MaxPrompts, PromptStep(i),
           UNCHANGED clientVars
    PROVE  CopyInv'
<1>1. files \in Trees /\ hp \in [1..MaxPrompts -> PromptType]
  BY DEF TypeOK, AgentTypeOK, SessionTypeOK
<1>2. UNCHANGED <<client, local, turnOver, edits>>
  BY DEF clientVars, chanVars
<1>3. CASE PromptSnapshot(i) /\ hp'[i].pc = "base"
  <2>1. /\ hp[i].pc = "snap"
        /\ hp' = [hp EXCEPT ![i].pc = "base", ![i].snap = Snapshot(files)] /\ s2c' = s2c
        /\ UNCHANGED <<c2s, pump, preTurn, svcAgent, files, stdin, proc, pipe, events>>
    <3>1. \/ hp' = [hp EXCEPT ![i].pc = "base", ![i].snap = Snapshot(files)] /\ s2c' = s2c
          \/ hp' = [hp EXCEPT ![i].pc = "failed"]
      BY <1>3 DEF PromptSnapshot, PromptFails
    <3>2. hp' # [hp EXCEPT ![i].pc = "failed"]
      BY <1>3, OnePrompt DEF PromptStates
    <3> QED BY <1>3, <3>1, <3>2
            DEF PromptSnapshot, svcVars, turnVars, pumpVars, agentVars, procVars, streamVars,
                dirVars
  <2>2. /\ hp'[i].pc = "base" /\ hp'[i].snap = Snapshot(files)
        /\ \A j \in 1..MaxPrompts : j # i => hp'[j] = hp[j]
    BY <1>1, <2>1 DEF PromptType
  <2>3. (Live' => Live) /\ Quiet
    BY <1>2, <2>1 DEF Live, Quiet, Preparing
  <2>4. (Prepared' => Prepared) /\ (AtWork' => AtWork) /\ (Pushing' => Pushing)
    BY <2>1, <2>2 DEF Prepared, AtWork, Pushing
  <2>5. Flight(s2c', pump') = Flight(s2c, pump)
    BY <2>1
  <2> QED BY <1>2, <2>1, <2>2, <2>3, <2>4, <2>5 DEF CopyInv
<1>4. CASE PromptBaseline(i)
  <2>1. /\ hp[i].pc = "base" /\ preTurn' = hp[i].snap /\ hp' = [hp EXCEPT ![i].pc = "drain"]
        /\ UNCHANGED <<c2s, s2c, pump, svcAgent, files, stdin, proc, pipe, events>>
    BY <1>4 DEF PromptBaseline, wireVars, svcVars, pumpVars, agentVars, procVars, streamVars,
                dirVars
  <2>2. hp'[i].pc = "drain" /\ \A j \in 1..MaxPrompts : j # i => hp'[j] = hp[j]
    BY <2>1, OnePrompt DEF PromptStates
  <2>3. (Live' => Live) /\ Quiet
    BY <1>2, <2>1 DEF Live, Quiet, Preparing
  <2>4. ~AtWork' /\ ~Pushing'
    <3>1. i \in Preparing(hp)
      BY <2>1 DEF Preparing
    <3>2. <<"preparing", i>> \in Turns
      BY <3>1, TurnPlaces
    <3>3. ~AtWork /\ ~Pushing
      BY <3>2, SoleTurn, StageOfPlace
    <3> QED BY <2>1, <3>3 DEF AtWork, Pushing
  <2>5. Live => preTurn' = Snapshot(files)
    BY <2>1 DEF CopyInv
  <2>6. Flight(s2c', pump') = Flight(s2c, pump)
    BY <2>1
  <2> QED BY <1>2, <2>1, <2>2, <2>3, <2>4, <2>5, <2>6 DEF CopyInv
<1>5. CASE ~PromptBaseline(i) /\ hp'[i].pc # "base"
  BY <1>5, PromptRests, CopyRests
<1>6. hp'[i].pc = "base" => PromptSnapshot(i)
  <2>1. ASSUME hp'[i].pc = "base", ~PromptSnapshot(i) PROVE FALSE
    <3>1. sent + 1 \in Nat
      BY DEF TypeOK, SessionTypeOK
    <3>2. \/ \E x \in PromptStates \ {"base"} : hp' = [hp EXCEPT ![i].pc = x]
          \/ hp' = [hp EXCEPT ![i].pc = "wait", ![i].turn = sent + 1]
      BY <2>1 DEF PromptStep, PromptStart, PromptBaseline, PromptDrain, PromptSend, PromptWait,
                  PromptFails, PromptStates
    <3> QED BY <2>1, <3>1, <3>2, OnePrompt DEF PromptStates
  <2> QED BY <2>1
<1> QED BY <1>3, <1>4, <1>5, <1>6

\* The agent starts in a workspace that the client's project is in sync with: it
\* is written from the list the client made of it.
LEMMA StartCopies ==
    ASSUME SessionInv, SessionInv', UpInv, ListedInv, DiskInv, TodoInv,
           DispatchSyncDone, SyncDoneStarts, UNCHANGED clientVars
    PROVE  CopyInv'
<1> SUFFICES ASSUME Live' PROVE CopyInv'
  BY DEF CopyInv
<1>1. UNCHANGED <<client, local, listed, edits>>
  BY DEF clientVars
<1>2. /\ TypeOK /\ ClientTypeOK /\ StartInv /\ ReadyInv
      /\ handler = "dispatch" /\ ~svcAgent /\ ServerReads("sync.done")
      /\ CanMaterialize(manifest, blobs) /\ files' = Materialize(manifest, blobs)
      /\ pump' = [pump EXCEPT !.pc = "recv"] /\ s2c' = s2c
  BY DEF SessionInv, DispatchSyncDone, SyncDoneStarts
<1>3. c2s # <<>> /\ Typed(c2s, "sync.done") # {}
  <2>1. c2s \in Seq(ClientMessages)
    BY <1>2 DEF TypeOK, WireTypeOK
  <2> QED BY <1>2, <2>1, TypedTail DEF ServerReads
<1>4. client = "starting"
  <2>1. Typed(<<[type |-> "prompt"]>>, "sync.done") = {}
    BY DEF Typed
  <2>2. client \notin {"repl", "turn"}
    BY <1>2, <1>3, <2>1, NothingTyped DEF ReadyInv
  <2>3. client \notin {"start", "hello", "syncing", "upload"}
    BY <1>2, <1>3 DEF ReadyInv
  <2> QED BY <1>1, <1>2, <2>2, <2>3 DEF Live, ClientTypeOK, ClientStates
<1>5. manifest = listed /\ listed = WalkManifest(local.files, Ignored)
  BY <1>1, <1>2, <1>3, <1>4 DEF StartInv, ListedInv, Live
<1>6. InSync(local, Snapshot(files'), {})
  <2>1. local \in Disks /\ blobs \in Blobs
    BY <1>2 DEF TypeOK, ClientTypeOK, SessionTypeOK, Disks
  <2>2. WellFormed(local) /\ Intact(blobs)
    BY DEF DiskInv
  <2>3. \A p \in DOMAIN manifest : manifest[p].hash \in DOMAIN blobs
    BY <1>2 DEF CanMaterialize
  <2>4. InSync(local, Snapshot(Materialize(manifest, blobs)), {})
    BY <1>5, <2>1, <2>2, <2>3, SyncStarts
  <2> QED BY <1>2, <2>4
<1>7. pump'.pc = "recv" /\ pump'.todo = {}
  <2>1. pump \in PumpType /\ pump.pc = "off"
    BY <1>2 DEF TypeOK, SessionTypeOK, UpInv
  <2> QED BY <1>2, <2>1 DEF PumpType, TodoInv
<1>8. Flight(s2c', pump') = {}
  <2>1. Typed(s2c, "file.change") = {}
    BY <1>4 DEF ListedInv
  <2>2. ChangesIn(s2c) = {}
    BY <2>1 DEF ChangesIn
  <2> QED BY <1>2, <1>7, <2>2 DEF Flight
<1>9. Turns' = {} /\ TypeOK'
  BY <1>1, <1>4 DEF SessionInv, TurnInv
<1>10. /\ Preparing(hp') = {} /\ 1..stdin' = {} /\ Working(proc') = {}
       /\ OfKind(pipe', "result") = {} /\ OfKind(events', "result") = {}
       /\ Finishing(pump') = {} /\ Typed(s2c', "turn.done") = {}
  BY <1>9, TurnPlacesThen
<1>11. stdin' = 0
  BY <1>2 DEF SyncDoneStarts, StartProcess
<1>12. ~Prepared' /\ ~AtWork' /\ ~Pushing'
  BY <1>7, <1>10, <1>11 DEF Prepared, AtWork, Pushing, Preparing, Working
<1>13. \A i \in 1..MaxPrompts : hp'[i].pc # "base"
  BY <1>10 DEF Preparing
<1> QED BY <1>1, <1>6, <1>7, <1>8, <1>12, <1>13 DEF CopyInv

\* pump leaves alone what does not concern it.
LEMMA PumpLeaves ==
    ASSUME PumpStep, UNCHANGED clientVars
    PROVE  /\ UNCHANGED <<client, local, turnOver, edits, c2s, hp, stdin, proc, pipe, svcAgent,
                          svcWs, files>>
           /\ Live' = Live /\ Quiet' = Quiet /\ Prepared' = Prepared
<1>1. UNCHANGED <<client, local, turnOver, edits>>
  BY DEF clientVars, chanVars
<1>2. UNCHANGED <<c2s, hp, stdin, proc, pipe, svcAgent, svcWs, files>>
  BY DEF PumpStep, PumpReceive, PumpSnapshot, PumpDiff, PumpPush, PumpAdvance, PumpTurnDone,
         PumpSignal, wireVars, svcVars, promptVars, agentVars, procVars, streamVars, dirVars
<1> QED BY <1>1, <1>2 DEF Live, Quiet, Prepared

\* While pump finishes a turn there is no other, neither before it nor at its end.
LEMMA FinishingStages ==
    ASSUME TypeOK, TurnInv, pump.pc \in {"snap", "diff", "push", "turndone"}
    PROVE  /\ ~Quiet /\ ~Prepared /\ proc # "busy"
           /\ OfKind(pipe, "result") = {} /\ OfKind(events, "result") = {}
           /\ Typed(s2c, "turn.done") = {}
<1>1. OnlyTurn("finishing", 1) /\ client \in {"turn", "exit"}
  BY FinishingAsked
<1>2. proc # "busy"
  BY <1>1 DEF OnlyTurn, Working
<1> QED BY <1>1, <1>2, StageOfPlace DEF OnlyTurn

\* The steps of pump that leave the baseline and the changes alone: forwarding an
\* event, telling the client of the end, and giving up.
LEMMA PumpRests ==
    ASSUME TypeOK, TurnInv, TodoInv, PumpStep, UNCHANGED clientVars,
           ~PumpDiff, ~PumpPush, ~PumpAdvance, pump'.pc # "diff" \/ pump' = pump
    PROVE  Rests
<1>1. /\ UNCHANGED <<local, files, hp, proc, pipe, stdin>>
      /\ Live' = Live /\ Quiet' = Quiet /\ Prepared' = Prepared
  BY PumpLeaves
<1>2. /\ pump \in PumpType /\ events \in Seq(Events) /\ s2c \in Seq(ServerMessages)
  BY DEF TypeOK, SessionTypeOK, AgentTypeOK, WireTypeOK
<1>3. preTurn' = preTurn
  BY DEF PumpStep, PumpReceive, PumpSnapshot, PumpTurnDone, PumpSignal, turnVars
<1>4. /\ ChangesIn(s2c') = ChangesIn(s2c)
      /\ \A C, m : InOrder(s2c, C, m) => InOrder(s2c', C, m)
  BY PumpEffect, OtherMessages
<1>5. CASE PumpReceive
  <2>1. /\ pump.pc = "recv"
        /\ \E x \in PumpStates : pump' = [pump EXCEPT !.pc = x]
    BY <1>5 DEF PumpReceive, PumpGoes, PumpStates
  <2>2. pump'.todo = pump.todo
    BY <1>2, <2>1 DEF PumpType
  <2>3. /\ pump'.pc \in {"snap", "recv", "stopped", "done"}
        /\ pump'.pc = "snap" => events # <<>> /\ Head(events).kind = "result"
    BY <1>2, <1>5 DEF PumpReceive, PumpGoes, PumpType
  <2>4. OfKind(events', "result") # {} => OfKind(events, "result") # {}
    <3>1. events' = events \/ (events # <<>> /\ events' = Tail(events))
      BY <1>5 DEF PumpReceive
    <3>2. events # <<>> /\ OfKind(Tail(events), "result") # {} => OfKind(events, "result") # {}
      BY <1>2, OfKindTail
    <3> QED BY <3>1, <3>2
  <2>5. pump'.pc = "snap" => OfKind(events, "result") # {}
    BY <1>2, <2>3, OfKindTail
  <2>6. AtWork' => AtWork
    BY <1>1, <2>3, <2>4, <2>5 DEF AtWork
  <2>7. Pushing' => Pushing
    <3>1. ~PumpTurnDone
      BY <2>1 DEF PumpTurnDone
    <3>2. Typed(s2c', "turn.done") # {} => Typed(s2c, "turn.done") # {}
      BY <3>1, PumpEffect, MessagesRest
    <3> QED BY <2>3, <3>2 DEF Pushing
  <2> QED BY <1>1, <1>3, <1>4, <2>2, <2>3, <2>6, <2>7 DEF Rests, Flight
<1>6. CASE PumpSnapshot
  <2>1. pump.pc = "snap" /\ s2c' = s2c /\ events' = events
    BY <1>6 DEF PumpSnapshot, streamVars
  <2>2. pump' = pump \/ FinishTurn(TRUE)
    <3>1. pump' = [pump EXCEPT !.pc = "diff", !.after = Snapshot(files)] => pump'.pc = "diff"
      BY <1>2 DEF PumpType
    <3> QED BY <1>6, <3>1 DEF PumpSnapshot
  <2>3. pump' = pump \/ (pump'.pc = "signal" /\ pump'.todo = {} /\ pump.todo = {})
    BY <1>2, <2>1, <2>2 DEF FinishTurn, PumpType, TodoInv
  <2>4. AtWork /\ (Pushing' => Pushing)
    BY <2>1, <2>3 DEF AtWork, Pushing
  <2> QED BY <1>1, <1>3, <1>4, <2>1, <2>3, <2>4 DEF Rests, Flight
<1>7. CASE PumpTurnDone
  <2>1. pump.pc = "turndone" /\ events' = events
    BY <1>7 DEF PumpTurnDone, agentVars, streamVars
  <2>2. FinishTurn(TRUE) \/ FinishTurn(FALSE)
    BY <1>7 DEF PumpTurnDone
  <2>3. pump'.pc = "signal" /\ pump'.todo = {} /\ pump.todo = {}
    BY <1>2, <2>1, <2>2 DEF FinishTurn, PumpType, TodoInv
  <2>4. Pushing /\ (AtWork' => AtWork)
    BY <1>1, <2>1, <2>3 DEF AtWork, Pushing
  <2> QED BY <1>1, <1>3, <1>4, <2>3, <2>4 DEF Rests, Flight
<1>8. CASE PumpSignal
  <2>1. pump.pc = "signal" /\ pump' = [pump EXCEPT !.pc = "recv"] /\ s2c' = s2c
        /\ events' = events
    BY <1>8 DEF PumpSignal, PumpGoes, wireVars, agentVars, streamVars
  <2>2. pump'.pc = "recv" /\ pump'.todo = pump.todo
    BY <1>2, <2>1 DEF PumpType
  <2>3. (AtWork' => AtWork) /\ (Pushing' => Pushing)
    BY <1>1, <2>1, <2>2 DEF AtWork, Pushing
  <2> QED BY <1>1, <1>3, <1>4, <2>2, <2>3 DEF Rests, Flight
<1> QED BY <1>5, <1>6, <1>7, <1>8 DEF PumpStep

\* What pump finds changed since the baseline takes the project to the workspace.
LEMMA DiffCopies ==
    ASSUME TypeOK, TurnInv, DiskInv, TurnsKeepClear, CopyInv, PumpDiff, UNCHANGED clientVars
    PROVE  CopyInv'
<1> SUFFICES ASSUME Live' PROVE CopyInv'
  BY DEF CopyInv
<1>1. /\ UNCHANGED <<local, files, hp, proc, pipe>>
      /\ Live' = Live /\ Quiet' = Quiet /\ Prepared' = Prepared
  BY PumpLeaves DEF PumpStep
<1>2. /\ pump.pc = "diff" /\ s2c' = s2c /\ events' = events /\ preTurn' = preTurn
      /\ pump' = [pump EXCEPT !.pc = "push", !.todo = Diff(preTurn, pump.after)]
  BY DEF PumpDiff, wireVars, turnVars, agentVars, streamVars
<1>3. pump \in PumpType /\ preTurn \in Manifests /\ files \in Trees
  BY DEF TypeOK, SessionTypeOK, AgentTypeOK
<1>4. pump'.pc = "push" /\ pump'.todo = Diff(preTurn, pump.after) /\ pump'.after = pump.after
  BY <1>2, <1>3 DEF PumpType
<1>5. ~Quiet' /\ ~Prepared' /\ ~AtWork'
  <2>1. /\ ~Quiet /\ ~Prepared /\ proc # "busy"
        /\ OfKind(pipe, "result") = {} /\ OfKind(events, "result") = {}
    BY <1>2, FinishingStages
  <2> QED BY <1>1, <1>2, <1>4, <2>1 DEF AtWork
<1>6. /\ InSync(local, preTurn, {}) /\ Flight(s2c, pump) = {}
      /\ pump.after = Snapshot(files)
      /\ \A i \in 1..MaxPrompts : hp[i].pc = "base" => hp[i].snap = Snapshot(files)
  BY <1>1, <1>2 DEF CopyInv, AtWork
<1>7. InSync(local, Snapshot(files), Diff(preTurn, Snapshot(files)))
  <2>1. Consistent(DOMAIN Snapshot(files))
    BY <1>3, WalkType DEF DiskInv, Consistent, Snapshot
  <2>2. /\ DOMAIN Snapshot(files) \cap local.dirs = {}
        /\ \A p \in DOMAIN Snapshot(files) : Visible(p, Ignored)
    BY <1>2, <1>6 DEF TurnsKeepClear
  <2>3. Snapshot(files) \in Manifests
    BY <1>3, SnapshotType
  <2> QED BY <1>3, <1>6, <2>1, <2>2, <2>3, SyncTurns
<1>8. ChangesIn(s2c) = {}
  BY <1>6 DEF Flight
<1>9. Flight(s2c', pump') = Diff(preTurn, Snapshot(files))
  BY <1>2, <1>4, <1>6, <1>8 DEF Flight
<1>10. InOrder(s2c, Diff(preTurn, Snapshot(files)), Snapshot(files))
  <2>1. Typed(s2c, "file.change") = {}
    BY <1>8 DEF ChangesIn
  <2> QED BY <2>1 DEF InOrder
<1> QED BY <1>1, <1>2, <1>4, <1>5, <1>6, <1>7, <1>9, <1>10 DEF CopyInv

\* A change that is pushed goes from the list onto the connection, behind those
\* with smaller paths.
LEMMA PushCopies ==
    ASSUME TypeOK, TurnInv, CopyInv, PumpPush, UNCHANGED clientVars
    PROVE  CopyInv'
<1> SUFFICES ASSUME Live' PROVE CopyInv'
  BY DEF CopyInv
<1>1. /\ UNCHANGED <<local, files, hp, proc, pipe, svcWs>>
      /\ Live' = Live /\ Quiet' = Quiet /\ Prepared' = Prepared
  BY PumpLeaves DEF PumpStep
<1>2. pump.pc = "push" /\ events' = events /\ preTurn' = preTurn
  BY DEF PumpPush, turnVars, streamVars
<1>3. pump \in PumpType /\ files \in Trees /\ s2c \in Seq(ServerMessages)
  BY DEF TypeOK, SessionTypeOK, AgentTypeOK, WireTypeOK
<1>4. /\ ~Quiet /\ ~Prepared /\ proc # "busy" /\ Typed(s2c, "turn.done") = {}
      /\ OfKind(pipe, "result") = {} /\ OfKind(events, "result") = {}
  BY <1>2, FinishingStages
<1>5. /\ pump.after = Snapshot(files)
      /\ InSync(local, Snapshot(files), Flight(s2c, pump))
      /\ InOrder(s2c, pump.todo, Snapshot(files))
      /\ \A i \in 1..MaxPrompts : hp[i].pc = "base" => hp[i].snap = Snapshot(files)
  BY <1>1, <1>2 DEF CopyInv, Pushing
<1>6. PICK ch \in pump.todo :
        /\ \A d \in pump.todo : Rank[ch.path] <= Rank[d.path]
        /\ \/ /\ ch.op = "delete" \/ (svcWs /\ ch.path \in DOMAIN files)
              /\ ServerSends(FileChangeMsg(ch))
              /\ pump' = [pump EXCEPT !.todo = @ \ {ch}]
           \/ FinishTurn(TRUE) /\ s2c' = s2c
           \/ pump' = pump /\ s2c' = s2c
  BY DEF PumpPush
<1>7. CASE /\ ch.op = "delete" \/ ch.path \in DOMAIN files
           /\ ServerSends(FileChangeMsg(ch))
           /\ pump' = [pump EXCEPT !.todo = @ \ {ch}]
  <2>1. pump'.pc = "push" /\ pump'.after = pump.after /\ pump'.todo = pump.todo \ {ch}
    BY <1>2, <1>3, <1>7 DEF PumpType
  <2>2. ch \in Changes
    BY <1>3, <1>6 DEF PumpType
  <2>3. PICK x : x = FileChangeMsg(ch)
    OBVIOUS
  <2>4. x \in ServerMessages /\ s2c' = Append(s2c, x)
    BY <1>3, <1>7, <2>2, <2>3, FileChangeType DEF ServerSends
  <2>5. /\ x.type = "file.change" /\ x.change = ch
        /\ ch.op # "delete" => x.content = files[ch.path].content
    BY <2>3 DEF FileChangeMsg
  <2>6. ch.op # "delete" => Hash[x.content] = Snapshot(files)[ch.path].hash
    <3>1. \A p \in DOMAIN Snapshot(files) :
            Snapshot(files)[p] = [hash |-> Hash[files[p].content], mode |-> files[p].mode]
      BY <1>3, WalkType DEF Snapshot
    <3>2. ch.op # "delete" => ch.path \in DOMAIN Snapshot(files)
      BY <1>5, <1>6 DEF InSync, Flight
    <3>3. ch.op # "delete" => Snapshot(files)[ch.path].hash = Hash[files[ch.path].content]
      BY <3>1, <3>2
    <3> QED BY <2>5, <3>3
  <2>7. \A d \in pump.todo \ {ch} : Rank[ch.path] < Rank[d.path]
    <3> SUFFICES ASSUME NEW d \in pump.todo \ {ch} PROVE Rank[ch.path] < Rank[d.path]
      OBVIOUS
    <3>1. ch.path # d.path
      BY <1>5, <1>6 DEF InSync, Flight
    <3>2. ch.path \in Paths /\ d.path \in Paths
      BY <1>3, <2>2 DEF PumpType, Changes
    <3>3. Rank[ch.path] \in Nat /\ Rank[d.path] \in Nat /\ Rank[ch.path] # Rank[d.path]
      BY <3>1, <3>2, PathAssumption
    <3> QED BY <1>6, <3>3
  <2>8. InOrder(Append(s2c, x), pump.todo \ {ch}, Snapshot(files))
    BY <1>3, <1>4, <1>5, <1>6, <2>4, <2>5, <2>6, <2>7, OrderAppendChange
  <2>9. Flight(s2c', pump') = Flight(s2c, pump)
    <3>1. ChangesIn(Append(s2c, x)) = ChangesIn(s2c) \cup {ch}
      BY <1>3, <2>4, <2>5, ChangesAppend
    <3> QED BY <1>6, <2>1, <2>4, <3>1 DEF Flight
  <2>10. ~Quiet' /\ ~Prepared' /\ ~AtWork'
    BY <1>1, <1>2, <1>4, <2>1 DEF AtWork
  <2> QED BY <1>1, <1>5, <2>1, <2>4, <2>8, <2>9, <2>10 DEF CopyInv
<1>8. CASE FinishTurn(TRUE) /\ s2c' = s2c
  <2>1. pump'.pc = "signal"
    BY <1>3, <1>8 DEF FinishTurn, PumpType
  <2>2. ~Quiet' /\ ~Prepared' /\ ~AtWork' /\ ~Pushing'
    BY <1>1, <1>2, <1>4, <1>8, <2>1 DEF AtWork, Pushing
  <2> QED BY <1>1, <1>5, <2>1, <2>2 DEF CopyInv
<1>9. CASE pump' = pump /\ s2c' = s2c
  <2>1. Live /\ AtWork' = AtWork /\ Pushing' = Pushing
    BY <1>1, <1>2, <1>9 DEF AtWork, Pushing
  <2>2. Rests
    BY <1>1, <1>2, <1>9, <2>1 DEF Rests
  <2> QED BY <2>2, CopyRests
<1> QED BY <1>6, <1>7, <1>8, <1>9

\* The baseline moves on when no other turn can look at it.
LEMMA AdvanceCopies ==
    ASSUME TypeOK, TurnInv, CopyInv, PumpAdvance, UNCHANGED clientVars
    PROVE  CopyInv'
<1> SUFFICES ASSUME Live' PROVE CopyInv'
  BY DEF CopyInv
<1>1. /\ UNCHANGED <<local, files, hp, proc, pipe>>
      /\ Live' = Live /\ Quiet' = Quiet /\ Prepared' = Prepared
  BY PumpLeaves DEF PumpStep
<1>2. /\ pump.pc = "push" /\ s2c' = s2c /\ events' = events
      /\ pump' = [pump EXCEPT !.pc = "turndone"]
  BY DEF PumpAdvance, PumpGoes, wireVars, agentVars, streamVars
<1>3. pump'.pc = "turndone" /\ pump'.todo = pump.todo
  BY <1>2 DEF TypeOK, SessionTypeOK, PumpType
<1>4. ~Quiet' /\ ~Prepared' /\ ~AtWork'
  <2>1. /\ ~Quiet /\ ~Prepared /\ proc # "busy"
        /\ OfKind(pipe, "result") = {} /\ OfKind(events, "result") = {}
    BY <1>2, FinishingStages
  <2> QED BY <1>1, <1>2, <1>3, <2>1 DEF AtWork
<1>5. /\ InSync(local, Snapshot(files), Flight(s2c, pump))
      /\ InOrder(s2c, pump.todo, Snapshot(files))
      /\ \A i \in 1..MaxPrompts : hp[i].pc = "base" => hp[i].snap = Snapshot(files)
  BY <1>1, <1>2 DEF CopyInv, Pushing
<1>6. Flight(s2c', pump') = Flight(s2c, pump)
  BY <1>2, <1>3 DEF Flight
<1> QED BY <1>1, <1>2, <1>3, <1>4, <1>5, <1>6 DEF CopyInv

\* pump keeps CopyInv.
LEMMA PumpCopy ==
    ASSUME TypeOK, TurnInv, DiskInv, TodoInv, TurnsKeepClear, CopyInv, PumpStep,
           UNCHANGED clientVars
    PROVE  CopyInv'
<1>1. CASE PumpDiff
  BY <1>1, DiffCopies
<1>2. CASE PumpPush
  BY <1>2, PushCopies
<1>3. CASE PumpAdvance
  BY <1>3, AdvanceCopies
<1>4. CASE PumpSnapshot /\ pump'.pc = "diff" /\ pump' # pump
  <2> SUFFICES ASSUME Live' PROVE CopyInv'
    BY DEF CopyInv
  <2>1. /\ UNCHANGED <<local, files, hp, proc, pipe>>
        /\ Live' = Live /\ Quiet' = Quiet /\ Prepared' = Prepared
    BY PumpLeaves
  <2>2. pump \in PumpType
    BY DEF TypeOK, SessionTypeOK
  <2>3. /\ pump.pc = "snap" /\ s2c' = s2c /\ events' = events /\ preTurn' = preTurn
        /\ pump' = [pump EXCEPT !.pc = "diff", !.after = Snapshot(files)]
    <3>1. FinishTurn(TRUE) => pump'.pc = "signal"
      BY <2>2 DEF FinishTurn, PumpType
    <3> QED BY <1>4, <3>1 DEF PumpSnapshot, turnVars, streamVars
  <2>4. pump'.pc = "diff" /\ pump'.after = Snapshot(files) /\ pump'.todo = pump.todo
    BY <2>2, <2>3 DEF PumpType
  <2>5. AtWork /\ (Pushing' => Pushing)
    BY <2>3, <2>4 DEF AtWork, Pushing
  <2>6. Flight(s2c', pump') = Flight(s2c, pump)
    BY <2>3, <2>4 DEF Flight
  <2> QED BY <2>1, <2>3, <2>4, <2>5, <2>6 DEF CopyInv
<1>5. CASE /\ ~PumpDiff /\ ~PumpPush /\ ~PumpAdvance
           /\ ~(PumpSnapshot /\ pump'.pc = "diff" /\ pump' # pump)
  <2>1. pump'.pc = "diff" => PumpSnapshot
    <3>1. PumpReceive \/ PumpTurnDone \/ PumpSignal => pump'.pc # "diff"
      <4>1. pump \in PumpType
        BY DEF TypeOK, SessionTypeOK
      <4> QED BY <4>1 DEF PumpReceive, PumpTurnDone, PumpSignal, PumpGoes, FinishTurn, PumpType
    <3> QED BY <1>5, <3>1 DEF PumpStep
  <2> QED BY <1>5, <2>1, PumpRests, CopyRests
<1> QED BY <1>1, <1>2, <1>3, <1>4, <1>5

\* What claude does in a turn is left to pump: while it works, the project stays
\* in sync with the baseline.
LEMMA ClaudeCopy ==
    ASSUME TypeOK, TurnInv, CopyInv, ~BackgroundWrites, ClaudeStep,
           UNCHANGED <<wireVars, sessionVars, clientVars>>
    PROVE  CopyInv'
<1>1. /\ UNCHANGED <<client, local, turnOver, edits, c2s, s2c, hp, pump, preTurn, svcAgent>>
      /\ Live' = Live /\ Flight(s2c', pump') = Flight(s2c, pump)
  BY DEF clientVars, chanVars, wireVars, sessionVars, svcVars, turnVars, promptVars, pumpVars,
         Live
<1>2. pipe \in Seq(Lines) /\ stdin \in Nat
  BY DEF TypeOK, AgentTypeOK
<1>3. CASE ClaudeBegins
  <2>1. stdin > 0 /\ stdin' = stdin - 1 /\ UNCHANGED <<pipe, events, files>>
    BY <1>3 DEF ClaudeBegins, streamVars, dirVars
  <2>2. OnlyTurn("given", 1)
    <3>1. 1 \in 1..stdin
      BY <1>2, <2>1
    <3>2. <<"given", 1>> \in Turns
      BY <3>1, TurnPlaces
    <3> QED BY <3>2, SoleTurn
  <2>3. stdin' = 0
    <3>1. 1..stdin \subseteq {1}
      BY <2>2 DEF OnlyTurn
    <3> QED BY <1>2, <2>1, <3>1
  <2>4. Quiet /\ Prepared /\ (Quiet' => Quiet)
    BY <2>1 DEF Quiet, Prepared
  <2>5. ~Prepared' /\ ~Pushing'
    <3>1. Preparing(hp) = {} /\ ~Pushing
      BY <2>2, StageOfPlace DEF OnlyTurn
    <3> QED BY <1>1, <2>3, <3>1 DEF Prepared, Pushing, Preparing
  <2>6. Live => /\ InSync(local, Snapshot(files), {}) /\ Flight(s2c, pump) = {}
                /\ preTurn = Snapshot(files)
    BY <2>4 DEF CopyInv
  <2> QED BY <1>1, <2>1, <2>4, <2>5, <2>6 DEF CopyInv
<1>4. CASE ClaudeEdits
  <2>1. proc = "busy" /\ UNCHANGED <<proc, stdin, pipe, events>>
    BY <1>4 DEF ClaudeEdits, procVars, streamVars
  <2>2. OnlyTurn("working", 1) /\ client \in {"turn", "exit"}
    <3>1. 1 \in Working(proc)
      BY <2>1 DEF Working
    <3>2. <<"working", 1>> \in Turns
      BY <3>1, TurnPlaces
    <3> QED BY <3>2, SoleTurn
  <2>3. ~Quiet' /\ ~Prepared' /\ ~Pushing' /\ AtWork
    <3>1. ~Quiet /\ ~Prepared /\ ~Pushing
      BY <2>2, StageOfPlace
    <3> QED BY <1>1, <2>1, <3>1 DEF Quiet, Prepared, Pushing, AtWork
  <2>4. \A i \in 1..MaxPrompts : hp[i].pc # "base"
    BY <2>2 DEF OnlyTurn, Preparing
  <2>5. pump.pc \notin {"diff", "push"}
    BY <2>2 DEF OnlyTurn, Finishing
  <2> QED BY <1>1, <2>3, <2>4, <2>5 DEF CopyInv
<1>5. CASE ClaudePrints \/ ClaudeEndsTurn \/ ClaudeExits \/ ClaudeCrashes
  <2>1. UNCHANGED <<stdin, events, files>> /\ (proc' = "busy" => proc = "busy")
    BY <1>5 DEF ClaudePrints, ClaudeEndsTurn, ClaudeExits, ClaudeCrashes, streamVars, dirVars
  <2>2. OfKind(pipe', "result") # {} => proc = "busy" \/ OfKind(pipe, "result") # {}
    <3>1. CASE ClaudePrints \/ ClaudeEndsTurn
      BY <3>1 DEF ClaudePrints, ClaudeEndsTurn
    <3>2. CASE ClaudeExits \/ ClaudeCrashes
      BY <3>2 DEF ClaudeExits, ClaudeCrashes, streamVars
    <3> QED BY <1>5, <3>1, <3>2
  <2>3. (Quiet' => Quiet) /\ (Prepared' => Prepared) /\ (Pushing' => Pushing)
        /\ (AtWork' => AtWork)
    BY <1>1, <2>1, <2>2 DEF Quiet, Prepared, Pushing, AtWork
  <2>4. Rests
    BY <1>1, <2>1, <2>3 DEF Rests
  <2> QED BY <2>4, CopyRests
<1>6. ~BackgroundEdits
  BY DEF BackgroundEdits
<1> QED BY <1>3, <1>4, <1>5, <1>6 DEF ClaudeStep

\* readLoop delivers the end of the turn and leaves the files alone.
LEMMA ReadLoopCopy ==
    ASSUME TypeOK, CopyInv, ReadLoopStep, UNCHANGED <<wireVars, sessionVars, clientVars>>
    PROVE  CopyInv'
<1>1. /\ UNCHANGED <<client, local, turnOver, edits, c2s, s2c, hp, pump, preTurn, svcAgent>>
      /\ Live' = Live /\ Flight(s2c', pump') = Flight(s2c, pump)
  BY DEF clientVars, chanVars, wireVars, sessionVars, svcVars, turnVars, promptVars, pumpVars,
         Live
<1>2. UNCHANGED <<proc, stdin, files>>
  BY DEF ReadLoopStep, ReadLine, ReadEOF, procVars, dirVars
<1>3. pipe \in Seq(Lines) /\ events \in Seq(Events)
  BY DEF TypeOK, AgentTypeOK
<1>4. AtWork' => AtWork
  <2>1. CASE ReadEOF
    BY <1>1, <1>2, <2>1 DEF ReadEOF, AtWork
  <2>2. CASE ReadLine
    <3>1. pipe # <<>> /\ pipe' = Tail(pipe) /\ Head(pipe) \in Lines
      BY <1>3, <2>2 DEF ReadLine
    <3>2. PICK e : e = [kind |-> ParseLine(Head(pipe)), fits |-> Head(pipe).fits]
      OBVIOUS
    <3>3. events' = events \/ (e \in Events /\ events' = Append(events, e))
      <4>1. ParseLine(Head(pipe)) # "dropped" => e \in Events
        BY <3>1, <3>2, ParseLineType DEF Events, Lines
      <4> QED BY <2>2, <3>2, <4>1 DEF ReadLine
    <3>4. e.kind = "result" <=> Head(pipe).kind = "result"
      BY <3>1, <3>2 DEF ParseLine, Lines, LineKinds
    <3>5. CASE Head(pipe).kind = "result"
      <4>1. 1 \in OfKind(pipe, "result")
        BY <1>3, <3>1, <3>5, OfKindTail
      <4> QED BY <4>1 DEF AtWork
    <3>6. CASE Head(pipe).kind # "result"
      <4>1. OfKind(events', "result") = OfKind(events, "result")
        <5>1. e \in Events => OfKind(Append(events, e), "result") = OfKind(events, "result")
          BY <1>3, <3>4, <3>6, OfKindAppend
        <5> QED BY <3>3, <5>1
      <4>2. OfKind(pipe', "result") # {} => OfKind(pipe, "result") # {}
        BY <1>3, <3>1, OfKindTail
      <4> QED BY <1>1, <1>2, <4>1, <4>2 DEF AtWork
    <3> QED BY <3>5, <3>6
  <2> QED BY <2>1, <2>2 DEF ReadLoopStep
<1>5. (Quiet' => Quiet) /\ (Prepared' => Prepared) /\ (Pushing' => Pushing)
  BY <1>1, <1>2 DEF Quiet, Prepared, Pushing
<1>6. Rests
  BY <1>1, <1>2, <1>4, <1>5 DEF Rests
<1> QED BY <1>6, CopyRests

\* The server and its agent keep CopyInv.
LEMMA ServerCopy ==
    ASSUME SessionInv, SessionInv', UpInv, ListedInv, DiskInv, TodoInv, TurnsKeepClear, CopyInv,
           ~BackgroundWrites, Server \/ Subprocess
    PROVE  CopyInv'
<1>1. TypeOK /\ TurnInv /\ UNCHANGED clientVars
  BY DEF SessionInv, Server, Subprocess
<1>2. CASE HandlerStep
  <2>1. CASE DispatchSyncDone /\ SyncDoneStarts
    BY <1>1, <2>1, StartCopies
  <2>2. CASE ~(DispatchSyncDone /\ SyncDoneStarts)
    BY <1>1, <1>2, <2>2, HandlerRests, CopyRests
  <2> QED BY <2>1, <2>2
<1>3. CASE \E i \in 1..MaxPrompts : PromptStep(i)
  BY <1>1, <1>3, PromptCopy
<1>4. CASE PumpStep
  BY <1>1, <1>4, PumpCopy
<1>5. CASE ReadLoopStep /\ UNCHANGED <<wireVars, sessionVars>>
  BY <1>1, <1>5, ReadLoopCopy
<1>6. CASE ClaudeStep /\ UNCHANGED <<wireVars, sessionVars>>
  BY <1>1, <1>6, ClaudeCopy
<1> QED BY <1>2, <1>3, <1>4, <1>5, <1>6 DEF Server, Subprocess, ServerStep, SubprocessStep

\* The main goroutine asks for a turn, and takes its end, when project and
\* workspace are in sync.
LEMMA MainCopy ==
    ASSUME UpInv, CopyInv, MainStep \/ ClientStops, UNCHANGED <<agentVars, sessionVars>>
    PROVE  CopyInv'
<1>1. UNCHANGED <<s2c, local, edits>>
  BY MainMoves
<1>2. UNCHANGED <<hp, pump, preTurn, svcAgent, files, stdin, proc, pipe, events>>
  BY DEF sessionVars, svcVars, turnVars, promptVars, pumpVars, agentVars, procVars, streamVars,
         dirVars
<1>3. ASSUME Live' PROVE Live /\ Quiet
  <2>1. svcAgent /\ edits = 0 /\ client' \notin {"bye", "exit"}
    BY <1>1, <1>2, <1>3 DEF Live
  <2>2. client \notin {"start", "hello", "syncing", "upload"}
    BY <2>1 DEF UpInv
  <2>3. \/ client = "starting" /\ client' = "repl"
        \/ client = "repl" /\ client' = "turn"
        \/ client = "turn" /\ turnOver /\ client' = "repl"
    BY <2>1, <2>2, MainMoves
  <2> QED BY <2>1, <2>3 DEF Live, Quiet
<1>4. (Prepared' => Prepared) /\ (AtWork' => AtWork) /\ (Pushing' => Pushing)
  BY <1>1, <1>2 DEF Prepared, AtWork, Pushing
<1>5. Rests
  BY <1>1, <1>2, <1>3, <1>4 DEF Rests
<1> QED BY <1>5, CopyRests

\* What readLoop takes off the connection takes the changes on their way with it,
\* the first of them into the project.
LEMMA ReaderCopy ==
    ASSUME TypeOK, ClientTypeOK, TurnInv, DiskInv, TodoInv, CopyInv, ~LocalErrors,
           ReaderStep \/ UserEdits, UNCHANGED <<agentVars, sessionVars>>
    PROVE  CopyInv'
<1>1. UNCHANGED <<hp, pump, preTurn, svcAgent, files, stdin, proc, pipe, events>>
  BY DEF sessionVars, svcVars, turnVars, promptVars, pumpVars, agentVars, procVars, streamVars,
         dirVars
<1>2. UNCHANGED <<c2s, client>> /\ (s2c' = s2c \/ (s2c # <<>> /\ s2c' = Tail(s2c)))
  BY ReaderMoves
<1>3. SUFFICES ASSUME Live' PROVE CopyInv'
  BY DEF CopyInv
<1>4. Live /\ edits' = edits
  <2>1. edits' # edits + 1
    BY <1>3, ClientAssumption DEF Live, ClientTypeOK
  <2>2. edits' = edits
    BY <2>1, ReaderMoves
  <2> QED BY <1>1, <1>2, <1>3, <2>2 DEF Live
<1>5. s2c \in Seq(ServerMessages) /\ pump \in PumpType /\ local \in Disks /\ files \in Trees
  BY DEF TypeOK, WireTypeOK, SessionTypeOK, AgentTypeOK, ClientTypeOK, Disks
<1>6. Typed(s2c', "turn.done") # {} => Typed(s2c, "turn.done") # {}
  BY ReaderMoves
<1>7. (Prepared' => Prepared) /\ (AtWork' => AtWork) /\ (Pushing' => Pushing)
  BY <1>1, <1>6 DEF Prepared, AtWork, Pushing
<1>8. CASE ReadMessage /\ ReadFileChange
  <2> DEFINE x == Head(s2c)
             ch == x.change
  <2>1. /\ s2c # <<>> /\ x.type = "file.change" /\ s2c' = Tail(s2c) /\ turnOver' = turnOver
        /\ local' = Apply(local, ch, IF ch.op = "delete" THEN NoFiles ELSE x.content)
    BY <1>8 DEF ReadFileChange, ClientReads
  <2>2. PICK c : c = (IF ch.op = "delete" THEN NoFiles ELSE x.content)
    OBVIOUS
  <2>3. ch \in Changes /\ (ch.op # "delete" => x.content \in Contents)
    BY <2>1, ChangeTypes
  <2>4. ch \in ChangesIn(s2c)
    <3>1. 1 \in Typed(s2c, "file.change") /\ s2c[1] = x
      BY <1>5, <2>1, TypedTail
    <3> QED BY <3>1 DEF ChangesIn
  <2>5. ch \in Flight(s2c, pump)
    BY <2>4 DEF Flight
  <2>6. ~Quiet /\ ~AtWork
    BY <1>4, <2>5 DEF CopyInv
  <2>7. ~Quiet' /\ ~AtWork'
    BY <1>1, <1>2, <1>7, <2>1, <2>6 DEF Quiet
  <2>8. ASSUME Pushing
        PROVE  /\ InSync(local', Snapshot(files), Flight(s2c', pump))
               /\ InOrder(s2c', pump.todo, Snapshot(files))
    <3>1. /\ InSync(local, Snapshot(files), Flight(s2c, pump))
          /\ InOrder(s2c, pump.todo, Snapshot(files))
      BY <1>4, <2>8 DEF CopyInv
    <3>2. /\ InOrder(s2c', pump.todo, Snapshot(files))
          /\ ChangesIn(s2c) = ChangesIn(s2c') \cup {ch}
          /\ \A e \in ChangesIn(s2c') \cup pump.todo : Rank[ch.path] < Rank[e.path]
          /\ ch.op # "delete" => Hash[x.content] = Snapshot(files)[ch.path].hash
      BY <1>5, <2>1, <3>1, OrderTail
    <3>3. Rank[ch.path] \in Nat
      BY <2>3, PathAssumption DEF Changes
    <3>4. /\ Flight(s2c', pump) = Flight(s2c, pump) \ {ch}
          /\ \A e \in Flight(s2c, pump) : Rank[ch.path] <= Rank[e.path]
      <4>1. ch \notin ChangesIn(s2c') \cup pump.todo
        BY <3>2, <3>3
      <4>2. Flight(s2c, pump) = (ChangesIn(s2c') \cup pump.todo) \cup {ch}
        BY <3>2 DEF Flight
      <4>3. Flight(s2c', pump) = Flight(s2c, pump) \ {ch}
        BY <4>1, <4>2 DEF Flight
      <4>4. Flight(s2c, pump) \subseteq Changes
        BY <1>5, ChangeTypes DEF Flight, PumpType
      <4>5. \A e \in Changes : Rank[e.path] \in Nat
        BY PathAssumption DEF Changes
      <4> QED BY <3>2, <3>3, <4>2, <4>3, <4>4, <4>5
    <3>5. Flight(s2c, pump) \in SUBSET Changes
      BY <1>5, ChangeTypes DEF Flight, PumpType
    <3>6. Snapshot(files) \in Manifests /\ WellFormed(local)
      BY <1>5, SnapshotType DEF DiskInv
    <3>7. ch.op # "delete" => c \in Contents /\ Hash[c] = Snapshot(files)[ch.path].hash
      BY <2>2, <2>3, <3>2
    <3>8. local' = Apply(local, ch, c)
      BY <2>1, <2>2
    <3> HIDE DEF ch, x
    <3>9. InSync(Apply(local, ch, c), Snapshot(files), Flight(s2c, pump) \ {ch})
      BY <1>5, <2>5, <3>1, <3>4, <3>5, <3>6, <3>7, SyncApplies
    <3> QED BY <3>2, <3>4, <3>8, <3>9
  <2> HIDE DEF ch, x
  <2> QED BY <1>1, <1>4, <1>7, <2>7, <2>8 DEF CopyInv
<1>9. CASE ReadMessage /\ ReadTurnDone
  <2>1. s2c # <<>> /\ Head(s2c).type = "turn.done" /\ s2c' = Tail(s2c) /\ local' = local
    BY <1>9 DEF ReadTurnDone, ClientReads
  <2>2. 1 \in Typed(s2c, "turn.done")
    BY <1>5, <2>1, TypedTail
  <2>3. OnlyTurn("told", 1)
    <3>1. <<"told", 1>> \in Turns
      BY <2>2, TurnPlaces
    <3> QED BY <3>1, SoleTurn
  <2>4. Pushing /\ ~AtWork /\ ~Prepared
    BY <2>2, <2>3, StageOfPlace DEF Pushing
  <2>5. /\ InSync(local, Snapshot(files), Flight(s2c, pump))
        /\ InOrder(s2c, pump.todo, Snapshot(files))
    BY <1>4, <2>4 DEF CopyInv
  <2>6. Flight(s2c, pump) = {}
    <3>1. pump.pc # "push"
      BY <2>3 DEF OnlyTurn, Finishing
    <3>2. Typed(s2c, "file.change") = {}
      <4>1. \A n \in Typed(s2c, "file.change") : n < 1 /\ n \in Nat \ {0}
        BY <1>5, <2>2, <2>5, PositionTypes DEF InOrder
      <4> QED BY <4>1
    <3> QED BY <3>1, <3>2 DEF Flight, ChangesIn, TodoInv
  <2>7. /\ Flight(s2c', pump) = Flight(s2c, pump)
        /\ InOrder(s2c', pump.todo, Snapshot(files))
    <3>1. ChangesIn(Tail(s2c)) = ChangesIn(s2c)
      BY <1>5, <2>1, OrderTail
    <3>2. InOrder(Tail(s2c), pump.todo, Snapshot(files))
      BY <1>5, <2>1, <2>5, OrderTail
    <3> QED BY <2>1, <3>1, <3>2 DEF Flight
  <2> QED BY <1>1, <1>4, <1>7, <2>1, <2>4, <2>5, <2>6, <2>7 DEF CopyInv
<1>10. CASE ~(ReadMessage /\ (ReadFileChange \/ ReadTurnDone))
  <2>1. local' = local /\ turnOver' = turnOver
    <3>1. CASE UserEdits
      BY <1>4, <3>1, ClientAssumption DEF UserEdits, ClientTypeOK
    <3>2. CASE ReaderStep
      BY <1>10, <3>2 DEF ReaderStep, ReadMessage, ReadFails, ReadSyncRequest, ReadReady,
                         ReadShown
    <3> QED BY <3>1, <3>2
  <2>2. s2c' = s2c \/ (s2c # <<>> /\ s2c' = Tail(s2c) /\ Head(s2c).type # "file.change")
    <3>1. CASE UserEdits \/ ReadFails
      BY <3>1 DEF UserEdits, ReadFails, wireVars
    <3>2. CASE ReadMessage
      BY <1>10, <3>2 DEF ReadMessage, ReadSyncRequest, ReadReady, ReadShown, ClientReads
    <3> QED BY <3>1, <3>2 DEF ReaderStep
  <2>3. /\ ChangesIn(s2c') = ChangesIn(s2c)
        /\ \A m : InOrder(s2c, pump.todo, m) => InOrder(s2c', pump.todo, m)
    <3>1. CASE s2c' = s2c
      BY <3>1
    <3>2. CASE s2c # <<>> /\ s2c' = Tail(s2c) /\ Head(s2c).type # "file.change"
      BY <1>5, <3>2, OrderTail
    <3> QED BY <2>2, <3>1, <3>2
  <2>4. Flight(s2c', pump') = Flight(s2c, pump)
    BY <1>1, <2>3 DEF Flight
  <2>5. Quiet' => Quiet
    BY <1>1, <1>2, <2>1 DEF Quiet
  <2>6. Rests
    BY <1>1, <1>4, <1>7, <2>1, <2>3, <2>4, <2>5 DEF Rests
  <2> QED BY <2>6, CopyRests
<1> QED BY <1>8, <1>9, <1>10

\* What holds of the two copies together with the session.
SyncInv ==
    /\ SessionInv
    /\ UpInv
    /\ ListedInv
    /\ DiskInv
    /\ TodoInv
    /\ TurnsKeepClear
    /\ CopyInv

\* It holds at the start, when there is no agent yet.
LEMMA SyncInvInit == Init => SyncInv
<1> SUFFICES ASSUME Init PROVE SyncInv
  OBVIOUS
<1>1. SessionInv /\ UpInv /\ ListedInv /\ DiskInv /\ TodoInv
  BY SessionInvInit, CopyBases
<1>2. TurnsKeepClear
  BY DEF Init, SessionInit, TurnsKeepClear
<1>3. CopyInv
  BY DEF Init, SessionInit, CopyInv, Live
<1> QED BY <1>1, <1>2, <1>3 DEF SyncInv

\* UpInv, with the rest of what server and client keep of it.
LEMMA UpNext ==
    ASSUME SessionInv, UpInv, [Next]_vars
    PROVE  UpInv'
<1>1. TypeOK /\ ClientTypeOK /\ ReadyInv
  BY DEF SessionInv
<1>2. CASE Server \/ Subprocess
  BY <1>1, <1>2, ServerUp DEF Server, Subprocess
<1>3. CASE Client
  BY <1>1, <1>3, ClientUp DEF Client
<1>4. CASE Network \/ UNCHANGED vars
  <2>1. UNCHANGED <<svcAgent, svcWs, handler, pump, client, ready, s2c>>
    BY <1>4 DEF Network, ConnLost, vars, serverVars, wireVars, clientVars, chanVars, sessionVars,
                svcVars, pumpVars
  <2> QED BY <2>1 DEF UpInv, ReadySeen
<1> QED BY <1>2, <1>3, <1>4 DEF Next

\* No step breaks it, as long as turns leave the project's directories and what it
\* ignores alone.
LEMMA SyncInvNext ==
    ASSUME ~LocalErrors, ~BackgroundWrites, SyncInv, [Next /\ TurnsKeepClear']_vars
    PROVE  SyncInv'
<1>1. /\ SessionInv /\ UpInv /\ ListedInv /\ DiskInv /\ TodoInv /\ TurnsKeepClear /\ CopyInv
      /\ TypeOK /\ ClientTypeOK /\ TurnInv
  BY DEF SyncInv, SessionInv
<1>2. [Next]_vars
  OBVIOUS
<1>3. SessionInv' /\ UpInv' /\ ListedInv' /\ DiskInv' /\ TodoInv'
  BY <1>1, <1>2, SessionInvNext, UpNext, ListedNext, DiskNext, TodoNext
<1>4. TurnsKeepClear'
  <2>1. CASE UNCHANGED vars
    <3>1. UNCHANGED <<pump, local>>
      BY <2>1 DEF vars, serverVars, sessionVars, pumpVars, clientVars
    <3> QED BY <1>1, <3>1 DEF TurnsKeepClear
  <2> QED BY <2>1
<1>5. CASE Server \/ Subprocess
  BY <1>1, <1>3, <1>4, <1>5, ServerCopy DEF SyncInv
<1>6. CASE Client
  <2>1. UNCHANGED <<agentVars, sessionVars>>
    BY <1>6 DEF Client
  <2>2. CASE MainStep \/ ClientStops
    BY <1>1, <1>3, <1>4, <2>1, <2>2, MainCopy DEF SyncInv
  <2>3. CASE ReaderStep \/ UserEdits
    BY <1>1, <1>3, <1>4, <2>1, <2>3, ReaderCopy DEF SyncInv
  <2> QED BY <1>6, <2>2, <2>3 DEF Client, ClientStep
<1>7. CASE Network \/ UNCHANGED vars
  <2>1. /\ UNCHANGED <<client, local, turnOver, edits, c2s, s2c, hp, pump, preTurn, svcAgent>>
        /\ UNCHANGED <<files, stdin, proc, pipe, events>>
    BY <1>7 DEF Network, ConnLost, vars, serverVars, wireVars, clientVars, chanVars, agentVars,
                procVars, streamVars, dirVars, sessionVars, svcVars, turnVars, promptVars,
                pumpVars
  <2>2. /\ Live' = Live /\ Quiet' = Quiet /\ Prepared' = Prepared /\ AtWork' = AtWork
        /\ Pushing' = Pushing /\ Flight(s2c', pump') = Flight(s2c, pump)
    BY <2>1 DEF Live, Quiet, Prepared, AtWork, Pushing
  <2>3. CopyInv'
    BY <1>1, <2>1, <2>2 DEF CopyInv
  <2> QED BY <1>3, <1>4, <2>3 DEF SyncInv
<1> QED BY <1>2, <1>5, <1>6, <1>7 DEF Next

\* At the client's prompt a turn's changes have all arrived.
LEMMA SyncedThen == SyncInv => SyncedAtPrompt
<1> SUFFICES ASSUME SyncInv, client = "repl", svcWs, edits = 0
             PROVE  SameFiles(local, files)
  BY DEF SyncedAtPrompt
<1>1. /\ UpInv /\ CopyInv /\ TypeOK /\ ClientTypeOK
  BY DEF SyncInv, SessionInv
<1>2. Live /\ Quiet
  BY <1>1 DEF UpInv, Live, Quiet
<1>3. InSync(local, Snapshot(files), {})
  BY <1>1, <1>2 DEF CopyInv
<1>4. local \in Disks /\ files \in Trees
  BY <1>1 DEF TypeOK, AgentTypeOK, ClientTypeOK, Disks
<1> QED BY <1>3, <1>4, SyncEnds

\* Whenever the client is back at its prompt, the project and the workspace hold
\* the same files: what a turn changed has come through pump, connection and
\* readLoop before the turn.done behind it took the client there.
THEOREM SyncedAtPromptCorrect ==
    ASSUME ~LocalErrors, ~BackgroundWrites
    PROVE  ClearSpec => []SyncedAtPrompt
<1>1. Init => SyncInv
  BY SyncInvInit
<1>2. SyncInv /\ [Next /\ TurnsKeepClear']_vars => SyncInv'
  BY SyncInvNext
<1>3. SyncInv => SyncedAtPrompt
  BY SyncedThen
<1> QED BY <1>1, <1>2, <1>3, PTL DEF ClearSpec

\* Whatever uploads, turns, the user and applied changes do, neither copy ever has
\* a file where another of its files needs a directory, and a blob has the content
\* it is stored for: CanMaterialize, Apply's MkdirAll and Put's check see to it.
THEOREM DisksCorrect == Spec => []DiskInv
<1>1. Init => DiskInv
  BY CopyBases
<1>2. SessionInv /\ DiskInv /\ [Next]_vars => DiskInv'
  BY DiskNext DEF SessionInv
<1> QED BY <1>1, <1>2, SessionInvCorrect, PTL DEF Spec

\* A client that has been told session.ready, or is at its prompt or in a turn, has
\* an agent at the other end for as long as the session has its workspace: SyncDone
\* does not succeed without one, and Close takes both at once.
THEOREM ReadyHasAgentCorrect == Spec => []UpInv
<1>1. Init => UpInv
  BY CopyBases
<1>2. SessionInv /\ UpInv /\ [Next]_vars => UpInv'
  BY UpNext
<1> QED BY <1>1, <1>2, SessionInvCorrect, PTL DEF Spec
=============================================================================
