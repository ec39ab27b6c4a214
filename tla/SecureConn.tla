----------------------------- MODULE SecureConn -----------------------------
(***************************************************************************)
(* One WebSocket connection from the Noise handshake on: records sealed    *)
(* under a running nonce, messages with content split into an envelope and *)
(* a run of chunks, several goroutines writing and one reading at each end *)
(* (noise.go, codec.go, the framing of protocol.go).                       *)
(*                                                                         *)
(* Cryptography is symbolic: a frame opens under the key and the nonce it  *)
(* was sealed with and under nothing else.  The network may alter, drop,   *)
(* repeat or reorder frames, MaxFaults times, and may drop the connection. *)
(***************************************************************************)
EXTENDS Integers, FiniteSets, SequencesExt

CONSTANTS
    ClientWriters,  \* the goroutines of the client that write
    ServerWriters,  \* those of the server: the handler, the pump, HandlePrompts
    Bytes,          \* what content consists of
    ToServer,       \* the messages clients send: [type] or [type, content]
    ToClient,       \* the messages servers send
    PSKs,           \* the pre-shared keys an end may be configured with
    ChunkSize,      \* ChunkPayloadSize
    NetCap,         \* frames in flight before a write blocks
    MaxSends,       \* bound: MaxSends[e] messages are sent at end e
    MaxFaults       \* bound: faults of the network

ASSUME ConnAssumption ==
    /\ IsFiniteSet(ClientWriters) /\ IsFiniteSet(ServerWriters)
    /\ ToServer \cup ToClient \subseteq
            [type : STRING] \cup [type : STRING, content : Seq(Bytes)]
    /\ ChunkSize \in Nat \ {0}
    /\ NetCap \in Nat \ {0}
    /\ MaxSends \in [{"client", "server"} -> Nat \ {0}]
    /\ MaxFaults \in Nat

VARIABLES
    psk,        \* psk[e]: the key e derived from its token
    hs,         \* hs[e]: how far e is in the handshake
    writer,     \* writer[e][w]: what goroutine w of e is sending
    nonce,      \* nonce[e]: the nonce of the next record e seals
    expect,     \* expect[e]: the nonce of the next record e opens
    outSeq,     \* outSeq[e]: the last content-stream id e allocated
    pending,    \* pending[e]: the content streams e is assembling
    rd,         \* rd[e]: "ok", or the error that ended e's ReadMessage loop
    net,        \* net[e]: the frames e wrote that its peer has not read
    up,         \* the WebSocket is open
    faults,     \* the faults so far
    sent,       \* sent[e]: the messages e has written to the end, in that order
    got         \* got[e]: the messages ReadMessage has returned at e

hsVars == <<psk, hs>>
writeVars == <<writer, nonce, outSeq, sent>>
readVars == <<expect, pending, rd, got>>
netVars == <<net, up, faults>>
vars == <<hsVars, writeVars, readVars, netVars>>

Ends == {"client", "server"}
Peer(e) == CHOOSE o \in Ends : o # e
Writers(e) == IF e = "client" THEN ClientWriters ELSE ServerWriters
Messages(e) == IF e = "client" THEN ToServer ELSE ToClient

NoStreams == [s \in {} |-> s]
Idle == [pc |-> "idle"]

-----------------------------------------------------------------------------
(* noise.Handshake, Seal and Open *)

\* cs0 is initiator to responder, cs1 responder to initiator.
CipherStates(e) ==
    LET cs0 == <<psk[e], "cs0">>
        cs1 == <<psk[e], "cs1">>
    IN  IF e = "client" THEN [send |-> cs0, recv |-> cs1]
                        ELSE [send |-> cs1, recv |-> cs0]

\* A handshake message proves that its sender knows the key.
Hello(e) == [key |-> <<psk[e], e>>, nonce |-> 0, rec |-> [tag |-> "handshake"]]

ProvesNothing(frame, e) ==  \* mutant: a handshake message is not verified
    frame.rec.tag = "handshake"

Proves(frame, e) == frame = [Hello(e) EXCEPT !.key = <<psk[e], Peer(e)>>]

Garbage == [key |-> <<"altered", "altered">>, nonce |-> 0, rec |-> [tag |-> "altered"]]

\* A record sealed as the n-th of its direction.
Seal(e, n, rec) == [key |-> CipherStates(e).send, nonce |-> n, rec |-> rec]

OpensAny(e, frame) ==       \* mutant: a record carries its own nonce
    frame.key = CipherStates(e).recv

\* Open succeeds on the next record of the direction, unaltered.
Opens(e, frame) ==
    /\ frame.key = CipherStates(e).recv
    /\ frame.nonce = expect[e]

Init ==
    /\ psk \in [Ends -> PSKs]
    /\ hs = [e \in Ends |-> IF e = "client" THEN "start" ELSE "wait"]
    /\ writer = [e \in Ends |-> [w \in Writers(e) |-> Idle]]
    /\ nonce = [e \in Ends |-> 0]
    /\ expect = [e \in Ends |-> 0]
    /\ outSeq = [e \in Ends |-> 0]
    /\ pending = [e \in Ends |-> NoStreams]
    /\ rd = [e \in Ends |-> "ok"]
    /\ net = [e \in Ends |-> <<>>]
    /\ up = TRUE
    /\ faults = 0
    /\ sent = [e \in Ends |-> <<>>]
    /\ got = [e \in Ends |-> <<>>]

\* The initiator sends its first message (-> e).
ClientHello ==
    /\ hs["client"] = "start"
    /\ up
    /\ net' = [net EXCEPT !["client"] = Append(@, Hello("client"))]
    /\ hs' = [hs EXCEPT !["client"] = "wait"]
    /\ UNCHANGED <<psk, writeVars, readVars, up, faults>>

\* The responder reads it and answers (<- e, ee).
ServerAnswers ==
    /\ hs["server"] = "wait"
    /\ net["client"] # <<>>
    /\ IF up /\ Proves(Head(net["client"]), "server")
       THEN /\ net' = [net EXCEPT !["client"] = Tail(@), !["server"] = Append(@, Hello("server"))]
            /\ hs' = [hs EXCEPT !["server"] = "up"]
       ELSE /\ net' = [net EXCEPT !["client"] = Tail(@)]
            /\ hs' = [hs EXCEPT !["server"] = "failed"]
    /\ UNCHANGED <<psk, writeVars, readVars, up, faults>>

\* The initiator reads the answer; ws.Dial returns.
ClientFinishes ==
    /\ hs["client"] = "wait"
    /\ net["server"] # <<>>
    /\ net' = [net EXCEPT !["server"] = Tail(@)]
    /\ hs' = [hs EXCEPT !["client"] =
                IF Proves(Head(net["server"]), "client") THEN "up" ELSE "failed"]
    /\ UNCHANGED <<psk, writeVars, readVars, up, faults>>

\* A handshake ends with the connection.
HandshakeCut(e) ==
    /\ hs[e] \in {"start", "wait"}
    /\ ~up
    /\ hs' = [hs EXCEPT ![e] = "failed"]
    /\ UNCHANGED <<psk, writeVars, readVars, netVars>>

-----------------------------------------------------------------------------
(* conn.writeRecord, SendEnvelope, SendContent *)

\* The connection goes down.  Every write under way returns an error, and its
\* sender gives up; what it seals before it finds out reaches nobody.
GoesDown ==
    /\ up
    /\ up' = FALSE
    /\ writer' = [e \in Ends |-> [w \in Writers(e) |-> Idle]]
    /\ UNCHANGED <<hsVars, nonce, outSeq, sent, readVars, net, faults>>

SharedStreamID(e) == 1      \* mutant: every content stream has the same id

\* conn.NewStreamID
NewStreamID(e) == outSeq[e] + 1

HasContent(m) == "content" \in DOMAIN m

\* A goroutine starts to send m.  A message with content gets a stream id,
\* which its envelope announces; 0 says that no content follows.  (An envelope
\* that does not fit a record is an error before anything is written.)
Begin(e, w, m) ==
    /\ hs[e] = "up"
    /\ up
    /\ writer[e][w] = Idle
    /\ Len(sent[e]) + Cardinality({v \in Writers(e) : writer[e][v] # Idle}) < MaxSends[e]
    /\ writer' = [writer EXCEPT ![e][w] =
            [pc |-> "ready", msg |-> m, part |-> "envelope",
             sid |-> IF HasContent(m) THEN NewStreamID(e) ELSE 0, n |-> 0,
             rest |-> IF HasContent(m) THEN m.content ELSE <<>>]]
    /\ outSeq' = [outSeq EXCEPT ![e] = IF HasContent(m) THEN @ + 1 ELSE @]
    /\ UNCHANGED <<hsVars, nonce, sent, readVars, netVars>>

\* EncodeEnvelope, or EncodeChunk with the next ChunkSize of the content; a
\* chunk's sequence number is written but nobody reads it.
Record(s) ==
    IF s.part = "envelope"
    THEN [tag |-> "envelope", type |-> s.msg.type, sid |-> s.sid]
    ELSE [tag |-> "chunk", sid |-> s.sid,
          final |-> Len(s.rest) <= ChunkSize,
          payload |-> SubSeq(s.rest, 1, Min({ChunkSize, Len(s.rest)}))]

IsLastNonEmpty(s) ==        \* mutant: empty content has no final chunk
    IF s.part = "envelope" THEN s.rest = <<>> ELSE Len(s.rest) <= ChunkSize

\* The record after which the whole message is written.
IsLast(s) ==
    IF s.part = "envelope" THEN s.sid = 0 ELSE Len(s.rest) <= ChunkSize

\* What is left once a record is written.
Advance(s) ==
    IF s.part = "envelope"
    THEN [s EXCEPT !.pc = "ready", !.n = 0, !.part = "chunk"]
    ELSE [s EXCEPT !.pc = "ready", !.n = 0, !.rest = SubSeq(@, ChunkSize + 1, Len(@))]

SealUnlocked(e, w) ==       \* mutant: records are sealed outside the mutex
    /\ writer[e][w].pc = "ready"
    /\ up
    /\ writer' = [writer EXCEPT ![e][w] = [@ EXCEPT !.pc = "sealed", !.n = nonce[e]]]
    /\ nonce' = [nonce EXCEPT ![e] = @ + 1]
    /\ UNCHANGED <<hsVars, outSeq, sent, readVars, netVars>>

\* writeMu.Lock and Seal: one goroutine of an end at a time has a record that
\* is sealed and not yet written.
SealRecord(e, w) ==
    /\ writer[e][w].pc = "ready"
    /\ up
    /\ \A v \in Writers(e) : writer[e][v].pc # "sealed"
    /\ writer' = [writer EXCEPT ![e][w] = [@ EXCEPT !.pc = "sealed", !.n = nonce[e]]]
    /\ nonce' = [nonce EXCEPT ![e] = @ + 1]
    /\ UNCHANGED <<hsVars, outSeq, sent, readVars, netVars>>

\* ws.Write and writeMu.Unlock.
WriteRecord(e, w) ==
    LET s == writer[e][w]
    IN  /\ s.pc = "sealed"
        /\ up
        /\ Len(net[e]) < NetCap
        /\ net' = [net EXCEPT ![e] = Append(@, Seal(e, s.n, Record(s)))]
        /\ writer' = [writer EXCEPT ![e][w] =
                IF IsLast(s) THEN Idle ELSE Advance(s)]
        /\ sent' = [sent EXCEPT ![e] = IF IsLast(s) THEN Append(@, s.msg) ELSE @]
        /\ UNCHANGED <<hsVars, nonce, outSeq, readVars, up, faults>>

-----------------------------------------------------------------------------
(* conn.ReadMessage *)

Arrived(e) == Head(net[Peer(e)])

\* A frame is read, opened and decoded.
Takes(e) ==
    /\ hs[e] = "up"
    /\ rd[e] = "ok"
    /\ net[Peer(e)] # <<>>
    /\ net' = [net EXCEPT ![Peer(e)] = Tail(@)]
    /\ UNCHANGED <<hsVars, writeVars, up, faults>>

Reads(e, tag) ==
    /\ Takes(e)
    /\ Opens(e, Arrived(e))
    /\ Arrived(e).rec.tag = tag
    /\ expect' = [expect EXCEPT ![e] = @ + 1]

ReadEnvelope(e) ==
    LET rec == Arrived(e).rec
    IN  /\ Reads(e, "envelope")
        /\ IF rec.sid = 0
           THEN /\ got' = [got EXCEPT ![e] = Append(@, [type |-> rec.type])]
                /\ UNCHANGED pending
           ELSE /\ pending' = [pending EXCEPT ![e] =
                        [s \in DOMAIN @ \cup {rec.sid} |->
                            IF s = rec.sid THEN [type |-> rec.type, content |-> <<>>]
                            ELSE @[s]]]
                /\ UNCHANGED got
        /\ UNCHANGED rd

\* A chunk extends its stream; the final one completes the message.
ReadChunk(e) ==
    LET rec == Arrived(e).rec
        msg == [pending[e][rec.sid] EXCEPT !.content = @ \o rec.payload]
    IN  /\ Reads(e, "chunk")
        /\ rec.sid \in DOMAIN pending[e]
        /\ IF rec.final
           THEN /\ got' = [got EXCEPT ![e] = Append(@, msg)]
                /\ pending' = [pending EXCEPT ![e] = Restrict(@, DOMAIN @ \ {rec.sid})]
           ELSE /\ pending' = [pending EXCEPT ![e][rec.sid] = msg]
                /\ UNCHANGED got
        /\ UNCHANGED rd

\* Errors end the loop: a frame that does not open, and a chunk of a stream
\* that no envelope announced.  What opens was sealed by the peer, whose records
\* decode, so that the errors of DecodeRecord and streamIDOf do not occur here.
ReadFails(e) ==
    /\ Takes(e)
    /\ rd' = [rd EXCEPT ![e] =
            IF Opens(e, Arrived(e)) THEN "unknown stream" ELSE "decrypt"]
    /\ \/ ~Opens(e, Arrived(e))
       \/ /\ Arrived(e).rec.tag = "chunk"
          /\ Arrived(e).rec.sid \notin DOMAIN pending[e]
    /\ UNCHANGED <<expect, pending, got>>

\* ws.Read fails once the connection is down, whatever is still under way.
ReadCut(e) ==
    /\ hs[e] = "up"
    /\ rd[e] = "ok"
    /\ ~up
    /\ rd' = [rd EXCEPT ![e] = "closed"]
    /\ UNCHANGED <<hsVars, writeVars, expect, pending, got, netVars>>

\* Server.handle, ws.Dial and App.Run close the connection after an error.
CloseFailed ==
    /\ \E e \in Ends : hs[e] = "failed" \/ rd[e] # "ok"
    /\ GoesDown

-----------------------------------------------------------------------------
(* The network *)

\* An end closes the connection when it is done, or the network drops it.
Disconnect == GoesDown

\* One frame on its way is altered, dropped, repeated or overtaken.
Fault(e) ==
    /\ up
    /\ faults < MaxFaults
    /\ faults' = faults + 1
    /\ \E i \in DOMAIN net[e] :
        LET frame  == net[e][i]
            before == SubSeq(net[e], 1, i - 1)
            after  == SubSeq(net[e], i + 1, Len(net[e]))
        IN  \/ \E f \in {<<Garbage>>, <<>>, <<frame, frame>>} :
                    net' = [net EXCEPT ![e] = before \o f \o after]
            \/ /\ after # <<>>
               /\ net' = [net EXCEPT ![e] = before \o <<Head(after), frame>> \o Tail(after)]
    /\ UNCHANGED <<hsVars, writeVars, readVars, up>>

-----------------------------------------------------------------------------
Step(e, w) == SealRecord(e, w) \/ WriteRecord(e, w)

Read(e) == ReadEnvelope(e) \/ ReadChunk(e) \/ ReadFails(e) \/ ReadCut(e)

Handshake == ClientHello \/ ServerAnswers \/ ClientFinishes \/ \E e \in Ends : HandshakeCut(e)

Next ==
    \/ Handshake
    \/ \E e \in Ends : \E w \in Writers(e) : Step(e, w) \/ \E m \in Messages(e) : Begin(e, w, m)
    \/ \E e \in Ends : Read(e) \/ Fault(e)
    \/ CloseFailed
    \/ Disconnect

\* Goroutines that can run do, the mutex is handed on, the applications at both
\* ends keep reading, and an error closes the connection.  Nobody has to send.
Fairness ==
    /\ WF_vars(Handshake)
    /\ \A e \in Ends : \A w \in Writers(e) : WF_vars(Step(e, w))
    /\ \A e \in Ends : WF_vars(Read(e))
    /\ WF_vars(CloseFailed)

Spec == Init /\ [][Next]_vars /\ Fairness

-----------------------------------------------------------------------------
Sending(e) == {w \in Writers(e) : writer[e][w] # Idle}

TypeOK ==
    /\ psk \in [Ends -> PSKs]
    /\ hs \in [Ends -> {"start", "wait", "up", "failed"}]
    /\ \A e \in Ends : \A w \in Sending(e) :
        /\ writer[e][w].pc \in {"ready", "sealed"}
        /\ writer[e][w].msg \in Messages(e)
    /\ \A e \in Ends : sent[e] \in Seq(Messages(e)) /\ got[e] \in Seq(Messages(Peer(e)))
    /\ \A e \in Ends : Len(net[e]) <= NetCap + MaxFaults
    /\ up \in BOOLEAN /\ faults \in 0..MaxFaults

\* The messages e has written and its peer has not been given.
Undelivered(e) ==
    IF IsPrefix(got[Peer(e)], sent[e])
    THEN SubSeq(sent[e], Len(got[Peer(e)]) + 1, Len(sent[e]))
    ELSE <<[type |-> "something else"]>>

\* The promise of Link, whatever the network does: each end is given the
\* messages its peer wrote, whole, in the order in which they were completed,
\* and none twice (codec.go: interleaved content streams, nonces in wire order).
Promise == INSTANCE Link WITH
    WireCap <- MaxSends["client"] + MaxSends["server"],
    c2s <- Undelivered("client"),
    s2c <- Undelivered("server"),
    connUp <- up

RefinesLink ==
    Promise!WireInit /\ [][Promise!LinkNext(ToServer, ToClient)]_(Promise!wireVars)

\* With a network that only ever drops the connection, no reader meets a record
\* that it cannot open or a chunk of a stream it does not know, however the
\* goroutines of the other end interleave their records (codec.go:57).
NoFalseAlarm ==
    faults = 0 => \A e \in Ends : rd[e] \in {"ok", "closed"}

\* An end takes a connection for established only when its peer holds the same
\* key (noise.go: "a party without the token cannot complete the handshake").
Authenticated ==
    \A e \in Ends : hs[e] = "up" => psk[e] = psk[Peer(e)]

\* A connection comes to rest: the handshake ends, and every message that a
\* goroutine starts to send arrives, unless the connection is lost or a frame was
\* tampered with.  No peer with another token is kept waiting, no goroutine is
\* stuck at the mutex and no content stream stays incomplete.
Settles ==
    []<>(\/ ~up
         \/ faults > 0
         \/ \A e \in Ends : hs[e] = "up" /\ Sending(e) = {} /\ got[e] = sent[Peer(e)])
=============================================================================
