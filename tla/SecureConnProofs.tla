-------------------------- MODULE SecureConnProofs --------------------------
(***************************************************************************)
(* The connection keeps the promise of Link, for any keys, messages, chunk *)
(* size, number of writers, sends and faults of the network: what an end   *)
(* is given is what its peer wrote, whole, in order and once.              *)
(*                                                                         *)
(* The argument follows the records of one direction, from end e to its    *)
(* peer, that are written and not yet opened.  The state does not hold     *)
(* them once the network has dropped a frame, so the invariant says that   *)
(* they exist: Q is the sequence of what their senders were at when they   *)
(* sealed them, and D counts the messages complete before each of them.    *)
(***************************************************************************)
EXTENDS SecureConn, FiniteSetTheorems, SequenceTheorems, TLAPS

(* Types *)

Message == [type : STRING] \cup [type : STRING, content : Seq(Bytes)]

Stream == [type : STRING, content : Seq(Bytes)]

\* What a goroutine of e can be at while it sends a message.
Sender(e) ==
    {x \in [pc : {"ready", "sealed"}, msg : Messages(e), part : {"envelope", "chunk"},
            sid : Nat, n : Nat, rest : Seq(Bytes)] :
        /\ x.sid = 0 <=> ~HasContent(x.msg)
        /\ x.part = "envelope" =>
            x.rest = IF HasContent(x.msg) THEN x.msg.content ELSE <<>>
        /\ x.part = "chunk" => x.sid # 0}

PlainRecord ==
    [tag : {"envelope"}, type : STRING, sid : Nat]
    \cup [tag : {"chunk"}, sid : Nat, final : BOOLEAN, payload : Seq(Bytes)]

Frame ==
    [key : (PSKs \cup {"altered"}) \X {"client", "server", "cs0", "cs1", "altered"}, nonce : Nat,
     rec : PlainRecord \cup [tag : {"handshake", "altered"}]]

HsTypes ==
    /\ psk \in [Ends -> PSKs]
    /\ hs \in [Ends -> {"start", "wait", "up", "failed"}]

WriteTypes ==
    /\ DOMAIN writer = Ends
    /\ \A e \in Ends : writer[e] \in [Writers(e) -> {Idle} \cup Sender(e)]
    /\ nonce \in [Ends -> Nat]
    /\ outSeq \in [Ends -> Nat]
    /\ DOMAIN sent = Ends
    /\ \A e \in Ends : sent[e] \in Seq(Messages(e))

ReadTypes ==
    /\ expect \in [Ends -> Nat]
    /\ DOMAIN pending = Ends
    /\ \A e \in Ends : pending[e] \in [DOMAIN pending[e] -> Stream]
    /\ rd \in [Ends -> {"ok", "closed", "decrypt", "unknown stream"}]
    /\ got \in [Ends -> Seq(Message)]

NetTypes ==
    /\ net \in [Ends -> Seq(Frame)]
    /\ up \in BOOLEAN
    /\ faults \in 0..MaxFaults

ConnTypes == HsTypes /\ WriteTypes /\ ReadTypes /\ NetTypes

(* How far the handshake is: who is not yet through it has written nothing. *)
HandshakeInv ==
    /\ hs["client"] = "start" => hs["server"] # "up" /\ net["client"] = <<>>
    /\ hs["server"] # "up" => net["server"] = <<>>
    /\ hs["client"] = "up" => hs["server"] = "up"
    /\ \A e \in Ends : hs[e] # "up" => \A w \in Writers(e) : writer[e][w] = Idle
    /\ Authenticated

\* No more frames than a writer lets pile up and the network adds.
NetInv == \A e \in Ends : Len(net[e]) <= NetCap + faults

\* A goroutine has its share of MaxSends from Begin on.
SendsInv == \A e \in Ends : Len(sent[e]) + Cardinality(Sending(e)) <= MaxSends[e]

(* The records Q of e that are written and not yet opened *)

\* Records are written in the order in which they were sealed.
SealsInOrder(e, Q) ==
    LET next == expect[Peer(e)] + Len(Q)
    IN  /\ \A v, w \in Writers(e) :
                writer[e][v].pc = "sealed" /\ writer[e][w].pc = "sealed" => v = w
        /\ \A w \in Writers(e) :
                writer[e][w].pc = "sealed" => writer[e][w].n = next /\ nonce[e] = next + 1
        /\ up /\ (\A w \in Writers(e) : writer[e][w].pc # "sealed") => nonce[e] = next

\* The record of f is one of Q, the first of which is the n-th of the direction,
\* or it comes too late to matter.
Among(n, Q, f) ==
    /\ f.nonce < n + Len(Q)
    /\ f.nonce >= n => f.rec = Record(Q[f.nonce - n + 1])

\* A frame is e's handshake message, or what the network made of a frame, or
\* one of the records.
Genuine(e, Q, f) ==
    \/ f = Hello(e)
    \/ f = Garbage
    \/ f.key = CipherStates(e).send /\ Among(expect[Peer(e)], Q, f)

FramesGenuine(e, Q) == \A f \in Range(net[e]) : Genuine(e, Q, f)

\* The messages that Q completes are those that e has written to the end and its
\* peer has not been given, in that order.
Completes(g, s, Q, D) ==
    /\ Len(g) <= Len(s)
    /\ \A i \in 1..Len(g) : g[i] = s[i]
    /\ Len(D) = Len(Q) + 1
    /\ D[1] = Len(g)
    /\ D[Len(Q) + 1] = Len(s)
    /\ \A i \in 1..Len(Q) :
        /\ D[i + 1] <= Len(s)
        /\ D[i + 1] = D[i] + (IF IsLast(Q[i]) THEN 1 ELSE 0)
        /\ IsLast(Q[i]) => s[D[i + 1]] = Q[i].msg

CompletesInOrder(e, Q, D) == Completes(got[Peer(e)], sent[e], Q, D)

\* A reader with the streams p can go on with the stream of x with x's record.
Expected(p, x) ==
    IF x.part = "envelope" THEN x.sid \notin DOMAIN p
    ELSE /\ x.sid \in DOMAIN p
         /\ p[x.sid].type = x.msg.type
         /\ p[x.sid].content \o x.rest = x.msg.content

\* x is what the sender of y goes on with.
Follows(y, x) ==
    /\ ~IsLast(y)
    /\ x.msg = y.msg
    /\ x.sid = y.sid
    /\ x.part = "chunk"
    /\ x.rest = Advance(y).rest

\* x, at place i, comes after what precedes it in its stream: the last record
\* before it there, or what the reader has.
InTurn(p, Q, i, x) ==
    \/ x.sid = 0
    \/ /\ \A j \in 1..(i - 1) : Q[j].sid # x.sid
       /\ Expected(p, x)
    \/ \E j \in 1..(i - 1) :
        /\ Follows(Q[j], x)
        /\ \A k \in (j + 1)..(i - 1) : Q[k].sid # x.sid

StreamsInTurn(e, Q) ==
    LET p == pending[Peer(e)]
    IN  /\ \A i \in 1..Len(Q) : InTurn(p, Q, i, Q[i])
        /\ \A w \in Sending(e) : InTurn(p, Q, Len(Q) + 1, writer[e][w])

\* A stream id is never used again.
StreamIDs(e, Q) ==
    /\ \A i \in 1..Len(Q) : Q[i].sid <= outSeq[e]
    /\ \A s \in DOMAIN pending[Peer(e)] : s \in 1..outSeq[e]
    /\ \A w \in Sending(e) : writer[e][w].sid <= outSeq[e]
    /\ \A v, w \in Sending(e) :
        writer[e][v].sid = writer[e][w].sid /\ writer[e][v].sid # 0 => v = w

Carries(e, Q, D) ==
    /\ hs[e] # "up" => Q = <<>>
    /\ SealsInOrder(e, Q)
    /\ FramesGenuine(e, Q)
    /\ CompletesInOrder(e, Q, D)
    /\ StreamsInTurn(e, Q)
    /\ StreamIDs(e, Q)

\* With no fault of the network, the frames under way are these records.
Frames(k, n, Q) ==
    [i \in 1..Len(Q) |-> [key |-> k, nonce |-> n + i - 1, rec |-> Record(Q[i])]]

Untouched(e, Q) ==
    LET F == Frames(CipherStates(e).send, expect[Peer(e)], Q)
    IN  faults = 0 =>
            /\ hs[Peer(e)] = "up" => net[e] = F
            /\ e = "server" /\ hs["server"] = "up" /\ hs["client"] = "wait" =>
                    net[e] = <<Hello(e)>> \o F
            /\ e = "client" /\ hs["server"] = "wait" => Len(net[e]) <= 1

\* What there is of the records of e.
Direction(e) ==
    \E Q \in Seq(Sender(e)), D \in Seq(Nat) : Carries(e, Q, D) /\ Untouched(e, Q)

ConnInv ==
    /\ ConnTypes
    /\ HandshakeInv
    /\ NetInv
    /\ SendsInv
    /\ \A e \in Ends : Direction(e)
    /\ NoFalseAlarm

-----------------------------------------------------------------------------
(* Ends, keys and records *)

\* There are two ends, each the peer of the other.
LEMMA PeerIs ==
    /\ Peer("client") = "server" /\ Peer("server") = "client"
    /\ \A e \in Ends : Peer(e) \in Ends /\ Peer(e) # e /\ Peer(Peer(e)) = e
    /\ \A e, d \in Ends : d # e => d = Peer(e)
<1>1. Peer("client") = "server"
  BY DEF Peer, Ends
<1>2. Peer("server") = "client"
  BY DEF Peer, Ends
<1> QED BY <1>1, <1>2 DEF Ends

\* Messages are of the two kinds.
LEMMA MessagesAre ==
    ASSUME NEW e \in Ends, NEW m \in Messages(e)
    PROVE  /\ m \in Message
           /\ HasContent(m) => m \in [type : STRING, content : Seq(Bytes)]
           /\ ~HasContent(m) => m \in [type : STRING] /\ m = [type |-> m.type]
<1>1. m \in Message
  BY ConnAssumption DEF Messages, Message, Ends
<1>2. \A x \in [type : STRING] : DOMAIN x = {"type"} /\ x = [type |-> x.type]
  OBVIOUS
<1>3. \A x \in [type : STRING, content : Seq(Bytes)] : DOMAIN x = {"type", "content"}
  OBVIOUS
<1> QED BY <1>1, <1>2, <1>3 DEF HasContent, Message

\* An idle goroutine is not a sending one.
LEMMA IdleIs == Idle.pc = "idle" /\ \A e : \A x \in Sender(e) : x # Idle
<1>1. Idle.pc = "idle"
  BY DEF Idle
<1>2. \A e : \A x \in Sender(e) : x.pc \in {"ready", "sealed"}
  BY DEF Sender
<1> QED BY <1>1, <1>2

\* The fields of a sending goroutine.
LEMMA SenderIs ==
    ASSUME NEW e, NEW x \in Sender(e)
    PROVE  /\ x = [pc |-> x.pc, msg |-> x.msg, part |-> x.part, sid |-> x.sid,
                   n |-> x.n, rest |-> x.rest]
           /\ x.pc \in {"ready", "sealed"} /\ x.msg \in Messages(e)
           /\ x.part \in {"envelope", "chunk"} /\ x.sid \in Nat /\ x.n \in Nat
           /\ x.rest \in Seq(Bytes) /\ Len(x.rest) \in Nat
           /\ x.sid = 0 <=> ~HasContent(x.msg)
           /\ x.part = "envelope" =>
                x.rest = IF HasContent(x.msg) THEN x.msg.content ELSE <<>>
           /\ x.part = "chunk" => x.sid # 0
BY DEF Sender

\* How many of n bytes fit a chunk.
LEMMA MinIs ==
    ASSUME NEW n \in Nat
    PROVE  Min({ChunkSize, n}) = IF n <= ChunkSize THEN n ELSE ChunkSize
<1>1. ChunkSize \in Nat
  BY ConnAssumption
<1>2. CASE n <= ChunkSize
  BY <1>1, <1>2 DEF Min
<1>3. CASE ~(n <= ChunkSize)
  BY <1>1, <1>3 DEF Min
<1> QED BY <1>2, <1>3

\* The record a goroutine seals is one of the two kinds.
LEMMA RecordIs ==
    ASSUME NEW e \in Ends, NEW x \in Sender(e)
    PROVE  /\ Record(x) \in PlainRecord
           /\ Record(x).sid = x.sid
           /\ x.part = "envelope" => Record(x).tag = "envelope" /\ Record(x).type = x.msg.type
           /\ x.part = "chunk" =>
                /\ Record(x).tag = "chunk"
                /\ Record(x).final <=> IsLast(x)
                /\ Record(x).payload =
                        SubSeq(x.rest, 1, IF IsLast(x) THEN Len(x.rest) ELSE ChunkSize)
<1>1. x.sid \in Nat /\ Len(x.rest) \in Nat /\ x.rest \in Seq(Bytes)
      /\ x.part \in {"envelope", "chunk"} /\ x.msg \in Messages(e)
  BY SenderIs
<1>2. CASE x.part = "envelope"
  <2>1. x.msg.type \in STRING
    BY <1>1, MessagesAre DEF Message
  <2> QED BY <1>1, <1>2, <2>1 DEF Record, PlainRecord
<1>3. CASE x.part = "chunk"
  <2> DEFINE load == SubSeq(x.rest, 1, Min({ChunkSize, Len(x.rest)}))
  <2>1. load = SubSeq(x.rest, 1, IF IsLast(x) THEN Len(x.rest) ELSE ChunkSize)
    BY <1>1, <1>3, MinIs DEF IsLast
  <2>2. load \in Seq(Bytes)
    <3>1. ChunkSize \in Nat
      BY ConnAssumption
    <3> DEFINE k == Min({ChunkSize, Len(x.rest)})
    <3>2. k \in Nat /\ k <= Len(x.rest)
      BY <1>1, <3>1, MinIs
    <3> HIDE DEF k
    <3>3. \A i \in 1..k : x.rest[i] \in Bytes
      BY <1>1, <3>2
    <3>4. SubSeq(x.rest, 1, k) \in Seq(Bytes)
      BY <3>2, <3>3, SubSeqProperties
    <3> QED BY <3>4 DEF k
  <2> HIDE DEF load
  <2>3. Record(x) = [tag |-> "chunk", sid |-> x.sid, final |-> Len(x.rest) <= ChunkSize,
                     payload |-> load]
    BY <1>3 DEF Record, load
  <2>4. (Len(x.rest) <= ChunkSize) \in BOOLEAN
    OBVIOUS
  <2>5. Record(x) \in PlainRecord
    BY <1>1, <2>2, <2>3, <2>4 DEF PlainRecord
  <2>6. Record(x).final = (Len(x.rest) <= ChunkSize)
    BY <2>3
  <2>7. IsLast(x) = (Len(x.rest) <= ChunkSize)
    BY <1>3 DEF IsLast
  <2>8. Record(x).tag = "chunk" /\ Record(x).sid = x.sid /\ Record(x).payload = load
    BY <2>3
  <2> QED BY <1>3, <2>1, <2>5, <2>6, <2>7, <2>8
<1> QED BY <1>1, <1>2, <1>3

\* A goroutine goes on after a record that is not its last.
LEMMA AdvanceIs ==
    ASSUME NEW e \in Ends, NEW x \in Sender(e), ~IsLast(x)
    PROVE  /\ Advance(x) \in Sender(e)
           /\ Advance(x).pc = "ready" /\ Advance(x).msg = x.msg /\ Advance(x).sid = x.sid
           /\ x.sid # 0 /\ Advance(x).part = "chunk"
           /\ x.part = "envelope" => Advance(x).rest = x.rest
           /\ x.part = "chunk" => Advance(x).rest = SubSeq(x.rest, ChunkSize + 1, Len(x.rest))
<1> USE SenderIs
<1>1. CASE x.part = "envelope"
  <2>1. x.sid # 0
    BY <1>1 DEF IsLast
  <2>2. Advance(x) = [pc |-> "ready", msg |-> x.msg, part |-> "chunk", sid |-> x.sid,
                      n |-> 0, rest |-> x.rest]
    BY <1>1 DEF Advance, Sender
  <2> QED BY <1>1, <2>1, <2>2 DEF Sender
<1>2. CASE x.part = "chunk"
  <2> DEFINE r == SubSeq(x.rest, ChunkSize + 1, Len(x.rest))
  <2>1. Advance(x) = [pc |-> "ready", msg |-> x.msg, part |-> "chunk", sid |-> x.sid,
                      n |-> 0, rest |-> r]
    BY <1>2 DEF Advance, Sender
  <2>2. r \in Seq(Bytes)
    <3>1. ChunkSize \in Nat
      BY ConnAssumption
    <3>2. ~(Len(x.rest) <= ChunkSize)
      BY <1>2 DEF IsLast
    <3>3. \A i \in (ChunkSize + 1)..Len(x.rest) : x.rest[i] \in Bytes
      BY <3>1
    <3> QED BY <3>1, <3>3, SubSeqProperties
  <2> HIDE DEF r
  <2>3. Advance(x) \in Sender(e)
    BY <1>2, <2>1, <2>2 DEF Sender
  <2>4. x.sid # 0
    BY <1>2 DEF Sender
  <2>5. /\ Advance(x).pc = "ready" /\ Advance(x).msg = x.msg /\ Advance(x).sid = x.sid
        /\ Advance(x).part = "chunk" /\ Advance(x).rest = r
    BY <2>1
  <2> QED BY <1>2, <2>3, <2>4, <2>5 DEF r
<1> QED BY <1>1, <1>2

-----------------------------------------------------------------------------
(* Sequences of frames *)

\* What a section of a sequence is.
LEMMA SectionType ==
    ASSUME NEW S, NEW s \in Seq(S), NEW m \in Nat, NEW n \in Nat, m >= 1, n <= Len(s)
    PROVE  /\ SubSeq(s, m, n) \in Seq(S)
           /\ Len(SubSeq(s, m, n)) = IF m <= n THEN n - m + 1 ELSE 0
           /\ \A i \in 1..(n - m + 1) : SubSeq(s, m, n)[i] = s[m + i - 1]
<1>1. Len(s) \in Nat /\ m \in Int /\ n \in Int
  BY LenProperties
<1>2. \A i \in m..n : s[i] \in S
  BY <1>1
<1> QED BY <1>1, <1>2, SubSeqProperties

\* It consists of elements of the sequence.
LEMMA SectionRange ==
    ASSUME NEW S, NEW s \in Seq(S), NEW m \in Nat, NEW n \in Nat, m >= 1, n <= Len(s)
    PROVE  Range(SubSeq(s, m, n)) \subseteq Range(s)
<1> DEFINE t == SubSeq(s, m, n)
<1>1. Len(s) \in Nat /\ DOMAIN s = 1..Len(s)
  BY LenProperties
<1>2. /\ t \in Seq(S) /\ Len(t) = IF m <= n THEN n - m + 1 ELSE 0
      /\ \A j \in 1..(n - m + 1) : t[j] = s[m + j - 1]
  BY SectionType
<1> HIDE DEF t
<1>3. Range(t) = {t[j] : j \in 1..Len(t)}
  BY <1>2, RangeEquality
<1>4. ASSUME NEW j \in 1..Len(t) PROVE t[j] \in Range(s)
  <2>1. m <= n /\ j \in 1..(n - m + 1) /\ m + j - 1 \in 1..Len(s)
    BY <1>1, <1>2
  <2> QED BY <1>1, <1>2, <2>1 DEF Range
<1> QED BY <1>3, <1>4 DEF t

\* s with what is between its places m and n replaced by f.
Splice(s, m, f, n) == SubSeq(s, 1, m) \o f \o SubSeq(s, n, Len(s))

\* It is a sequence of elements of s and of f.
LEMMA SpliceIs ==
    ASSUME NEW S, NEW s \in Seq(S), NEW f \in Seq(S),
           NEW m \in Nat, NEW n \in Nat, n >= 1, m <= Len(s)
    PROVE  /\ Splice(s, m, f, n) \in Seq(S)
           /\ Len(Splice(s, m, f, n)) =
                m + Len(f) + (IF n <= Len(s) THEN Len(s) - n + 1 ELSE 0)
           /\ Range(Splice(s, m, f, n)) \subseteq Range(s) \cup Range(f)
<1> DEFINE a == SubSeq(s, 1, m)
           b == SubSeq(s, n, Len(s))
           c == a \o f
<1>1. Len(s) \in Nat /\ Len(f) \in Nat
  BY LenProperties
<1>2. a \in Seq(S) /\ Len(a) = m /\ Range(a) \subseteq Range(s)
  BY <1>1, SectionType, SectionRange
<1>3. /\ b \in Seq(S) /\ Len(b) = IF n <= Len(s) THEN Len(s) - n + 1 ELSE 0
      /\ Range(b) \subseteq Range(s)
  BY <1>1, SectionType, SectionRange
<1> HIDE DEF a, b
<1>4. c \in Seq(S) /\ Len(c) = m + Len(f)
  BY <1>2, ConcatProperties
<1>7. Range(c) = Range(a) \cup Range(f)
  <2>1. Range(a \o f) = Range(a) \cup Range(f)
    BY <1>2, RangeConcatenation
  <2> QED BY <2>1
<1>5. Splice(s, m, f, n) = c \o b
  BY DEF a, b, c, Splice
<1> HIDE DEF c
<1>6. c \o b \in Seq(S) /\ Len(c \o b) = Len(c) + Len(b)
  BY <1>3, <1>4, ConcatProperties, ZenonT(40)
<1>8. Range(c \o b) = Range(c) \cup Range(b)
  BY <1>3, <1>4, RangeConcatenation
<1> QED BY <1>1, <1>2, <1>3, <1>4, <1>5, <1>6, <1>7, <1>8

-----------------------------------------------------------------------------
(* What the steps do to one end *)

\* The frames that the ends and the network make.
LEMMA FrameIs ==
    ASSUME psk \in [Ends -> PSKs], NEW e \in Ends
    PROVE  /\ Hello(e) \in Frame
           /\ Garbage \in Frame
           /\ \A n \in Nat : \A rec \in PlainRecord : Seal(e, n, rec) \in Frame
<1>1. psk[e] \in PSKs
  OBVIOUS
<1> DEFINE Keys == (PSKs \cup {"altered"}) \X {"client", "server", "cs0", "cs1", "altered"}
           Recs == PlainRecord \cup [tag : {"handshake", "altered"}]
<1>5. Frame = [key : Keys, nonce : Nat, rec : Recs]
  BY DEF Frame
<1>6. [tag |-> "handshake"] \in Recs /\ [tag |-> "altered"] \in Recs
  OBVIOUS
<1>7. <<psk[e], e>> \in Keys /\ <<"altered", "altered">> \in Keys
  BY <1>1 DEF Ends
<1>4. CipherStates(e).send \in Keys
  <2>1. <<psk[e], "cs0">> \in Keys /\ <<psk[e], "cs1">> \in Keys
    BY <1>1
  <2>2. CipherStates(e).send \in {<<psk[e], "cs0">>, <<psk[e], "cs1">>}
    BY DEF CipherStates
  <2> QED BY <2>1, <2>2
<1>8. \A rec \in PlainRecord : rec \in Recs
  OBVIOUS
<1> HIDE DEF Keys, Recs
<1>2. Hello(e) \in Frame
  BY <1>5, <1>6, <1>7 DEF Hello
<1>3. Garbage \in Frame
  BY <1>5, <1>6, <1>7 DEF Garbage
<1>9. \A n \in Nat : \A rec \in PlainRecord : Seal(e, n, rec) \in Frame
  BY <1>4, <1>5, <1>8 DEF Seal
<1> QED BY <1>2, <1>3, <1>9

\* A goroutine's state is written.
LEMMA WriterStep ==
    ASSUME ConnTypes, NEW e \in Ends, NEW w \in Writers(e), NEW x,
           writer' = [writer EXCEPT ![e][w] = x]
    PROVE  /\ DOMAIN writer' = Ends
           /\ writer'[e] = [writer[e] EXCEPT ![w] = x]
           /\ writer'[e][w] = x
           /\ \A v \in Writers(e) : v # w => writer'[e][v] = writer[e][v]
           /\ writer'[Peer(e)] = writer[Peer(e)]
           /\ x \in {Idle} \cup Sender(e) =>
                \A d \in Ends : writer'[d] \in [Writers(d) -> {Idle} \cup Sender(d)]
<1>1. DOMAIN writer = Ends /\ \A d \in Ends : writer[d] \in [Writers(d) -> {Idle} \cup Sender(d)]
  BY DEF ConnTypes, WriteTypes
<1>2. DOMAIN writer' = Ends /\ writer'[e] = [writer[e] EXCEPT ![w] = x]
  BY <1>1
<1>3. writer'[Peer(e)] = writer[Peer(e)]
  BY <1>1, PeerIs
<1>4. DOMAIN writer[e] = Writers(e)
  BY <1>1
<1>5. writer'[e][w] = x /\ \A v \in Writers(e) : v # w => writer'[e][v] = writer[e][v]
  BY <1>2, <1>4
<1>6. ASSUME x \in {Idle} \cup Sender(e), NEW d \in Ends
      PROVE  writer'[d] \in [Writers(d) -> {Idle} \cup Sender(d)]
  <2>1. CASE d = e
    <3>1. writer[e] \in [Writers(e) -> {Idle} \cup Sender(e)]
      BY <1>1
    <3> QED BY <1>2, <1>6, <2>1, <3>1
  <2>2. CASE d # e
    BY <1>1, <1>3, <2>2, PeerIs
  <2> QED BY <2>1, <2>2
<1> QED BY <1>2, <1>3, <1>5, <1>6

\* Every fault adds at most a frame, and no frame but Garbage is new.
LEMMA FaultIs ==
    ASSUME ConnTypes, NEW e \in Ends, Fault(e)
    PROVE  /\ net'[e] \in Seq(Frame) /\ Len(net'[e]) <= Len(net[e]) + 1
           /\ Range(net'[e]) \subseteq Range(net[e]) \cup {Garbage}
           /\ net' \in [Ends -> Seq(Frame)] /\ net'[Peer(e)] = net[Peer(e)]
           /\ net[e] # <<>>
<1> DEFINE s == net[e]
<1>1. s \in Seq(Frame) /\ Len(s) \in Nat /\ DOMAIN s = 1..Len(s)
  BY LenProperties DEF ConnTypes, NetTypes
<1>2. PICK i \in DOMAIN s :
        \/ \E f \in {<<Garbage>>, <<>>, <<s[i], s[i]>>} :
                net' = [net EXCEPT ![e] = Splice(s, i - 1, f, i + 1)]
        \/ /\ SubSeq(s, i + 1, Len(s)) # <<>>
           /\ net' = [net EXCEPT ![e] =
                    SubSeq(s, 1, i - 1) \o <<Head(SubSeq(s, i + 1, Len(s))), s[i]>>
                        \o Tail(SubSeq(s, i + 1, Len(s)))]
  BY DEF Fault, Splice
<1> HIDE DEF s
<1>3. i \in 1..Len(s) /\ i - 1 \in Nat /\ i + 1 \in Nat /\ i + 2 \in Nat /\ s[i] \in Frame
  BY <1>1, <1>2
<1>4. Garbage \in Frame
  BY FrameIs DEF ConnTypes, HsTypes
<1>5. \A k \in 1..Len(s) : s[k] \in Range(s)
  BY <1>1 DEF Range
<1>6. ASSUME NEW f \in {<<Garbage>>, <<>>, <<s[i], s[i]>>}
      PROVE  /\ Splice(s, i - 1, f, i + 1) \in Seq(Frame)
             /\ Len(Splice(s, i - 1, f, i + 1)) <= Len(s) + 1
             /\ Range(Splice(s, i - 1, f, i + 1)) \subseteq Range(s) \cup {Garbage}
  <2>1. f \in Seq(Frame) /\ Len(f) \in 0..2 /\ Range(f) \subseteq Range(s) \cup {Garbage}
    <3>1. CASE f = <<Garbage>>
      BY <1>4, <3>1 DEF Range
    <3>2. CASE f = <<>>
      BY <3>2 DEF Range
    <3>3. CASE f = <<s[i], s[i]>>
      <4>1. f \in Seq(Frame) /\ Len(f) = 2 /\ DOMAIN f = 1..2 /\ f[1] = s[i] /\ f[2] = s[i]
        BY <1>3, <3>3
      <4>2. s[i] \in Range(s)
        BY <1>3, <1>5
      <4>3. \A x \in Range(f) : x = s[i]
        BY <4>1 DEF Range
      <4> QED BY <4>1, <4>2, <4>3
    <3> QED BY <3>1, <3>2, <3>3
  <2> DEFINE m == i - 1
             n == i + 1
  <2>2. m \in Nat /\ n \in Nat /\ n >= 1 /\ m <= Len(s)
    BY <1>1, <1>3
  <2> HIDE DEF m, n
  <2>5. f \in Seq(Frame)
    BY <2>1
  <2>3. /\ Splice(s, m, f, n) \in Seq(Frame)
        /\ Len(Splice(s, m, f, n)) =
                m + Len(f) + (IF n <= Len(s) THEN Len(s) - n + 1 ELSE 0)
        /\ Range(Splice(s, m, f, n)) \subseteq Range(s) \cup Range(f)
    BY <1>1, <2>2, <2>5, SpliceIs
  <2>4. Len(Splice(s, m, f, n)) <= Len(s) + 1
    <3> DEFINE k == Len(f)
               l == Len(s)
    <3>1. k \in 0..2 /\ l \in Nat /\ i \in 1..l
      BY <1>1, <1>3, <2>1
    <3>2. Len(Splice(s, m, f, n)) = i - 1 + k + (IF i + 1 <= l THEN l - (i + 1) + 1 ELSE 0)
      BY <2>3 DEF m, n
    <3> HIDE DEF k, l
    <3>3. i - 1 + k + (IF i + 1 <= l THEN l - (i + 1) + 1 ELSE 0) <= l + 1
      BY <3>1
    <3> QED BY <3>2, <3>3 DEF l
  <2> QED BY <2>1, <2>3, <2>4 DEF m, n
<1>7. ASSUME SubSeq(s, i + 1, Len(s)) # <<>>,
             NEW t, t = SubSeq(s, 1, i - 1) \o <<Head(SubSeq(s, i + 1, Len(s))), s[i]>>
                            \o Tail(SubSeq(s, i + 1, Len(s)))
      PROVE  /\ t \in Seq(Frame) /\ Len(t) <= Len(s) + 1
             /\ Range(t) \subseteq Range(s) \cup {Garbage}
  <2>1. i + 1 \in 1..Len(s)
    BY <1>1, <1>3, <1>7, SubSeqEmpty
  <2>2. /\ Head(SubSeq(s, i + 1, Len(s))) = s[i + 1]
        /\ Tail(SubSeq(s, i + 1, Len(s))) = SubSeq(s, i + 2, Len(s))
    <3> DEFINE p == i + 1
               q == Len(s)
    <3>1. p \in 1..Len(s) /\ q \in p..Len(s)
      BY <1>1, <2>1
    <3> HIDE DEF p, q
    <3>2. Head(SubSeq(s, p, q)) = s[p] /\ Tail(SubSeq(s, p, q)) = SubSeq(s, p + 1, q)
      BY <1>1, <3>1, HeadTailOfSubSeq
    <3>3. p + 1 = i + 2
      BY <1>3 DEF p
    <3> QED BY <3>2, <3>3 DEF p, q
  <2> DEFINE f == <<s[i + 1], s[i]>>
             m == i - 1
             n == i + 2
  <2>3. f \in Seq(Frame) /\ Len(f) = 2 /\ Range(f) \subseteq Range(s)
    <3>1. f \in Seq(Frame) /\ Len(f) = 2 /\ DOMAIN f = 1..2 /\ f[1] = s[i + 1] /\ f[2] = s[i]
      BY <1>1, <1>3, <2>1
    <3>2. \A x \in Range(f) : x = s[i] \/ x = s[i + 1]
      BY <3>1 DEF Range
    <3>3. s[i] \in Range(s) /\ s[i + 1] \in Range(s)
      BY <1>3, <1>5, <2>1
    <3> QED BY <3>1, <3>2, <3>3
  <2>4. t = Splice(s, m, f, n)
    BY <1>7, <2>2 DEF Splice
  <2>5. m \in Nat /\ n \in Nat /\ n >= 1 /\ m <= Len(s)
    BY <1>1, <1>3
  <2> HIDE DEF f, m, n
  <2>6. /\ Splice(s, m, f, n) \in Seq(Frame)
        /\ Len(Splice(s, m, f, n)) =
                m + Len(f) + (IF n <= Len(s) THEN Len(s) - n + 1 ELSE 0)
        /\ Range(Splice(s, m, f, n)) \subseteq Range(s) \cup Range(f)
    BY <1>1, <2>3, <2>5, SpliceIs
  <2>7. Len(Splice(s, m, f, n)) <= Len(s) + 1
    BY <1>1, <1>3, <2>1, <2>3, <2>6, SMTT(30) DEF m, n
  <2> QED BY <2>3, <2>4, <2>6, <2>7
<1>8. PICK t : /\ net' = [net EXCEPT ![e] = t]
               /\ t \in Seq(Frame) /\ Len(t) <= Len(s) + 1
               /\ Range(t) \subseteq Range(s) \cup {Garbage}
  <2>1. CASE \E f \in {<<Garbage>>, <<>>, <<s[i], s[i]>>} :
                net' = [net EXCEPT ![e] = Splice(s, i - 1, f, i + 1)]
    BY <1>6, <2>1
  <2>2. CASE /\ SubSeq(s, i + 1, Len(s)) # <<>>
             /\ net' = [net EXCEPT ![e] =
                    SubSeq(s, 1, i - 1) \o <<Head(SubSeq(s, i + 1, Len(s))), s[i]>>
                        \o Tail(SubSeq(s, i + 1, Len(s)))]
    BY <1>7, <2>2
  <2> QED BY <1>2, <2>1, <2>2
<1>9. net \in [Ends -> Seq(Frame)]
  BY DEF ConnTypes, NetTypes
<1>10. net'[e] = t /\ net' \in [Ends -> Seq(Frame)] /\ net'[Peer(e)] = net[Peer(e)]
  BY <1>8, <1>9, PeerIs
<1>11. s # <<>>
  BY <1>3
<1> QED BY <1>8, <1>10, <1>11 DEF s

\* A frame is written.
LEMMA FrameSent ==
    ASSUME NetTypes, NEW e \in Ends, NEW f \in Frame,
           net' = [net EXCEPT ![e] = Append(net[e], f)]
    PROVE  /\ net' \in [Ends -> Seq(Frame)]
           /\ net'[e] = Append(net[e], f) /\ Len(net'[e]) = Len(net[e]) + 1
           /\ Range(net'[e]) = Range(net[e]) \cup {f}
           /\ net'[Peer(e)] = net[Peer(e)]
<1>1. net \in [Ends -> Seq(Frame)] /\ net[e] \in Seq(Frame) /\ Len(net[e]) \in Nat
  BY DEF NetTypes
<1>2. net'[e] = Append(net[e], f) /\ net'[Peer(e)] = net[Peer(e)]
  BY <1>1, PeerIs
<1>3. Append(net[e], f) \in Seq(Frame) /\ Len(Append(net[e], f)) = Len(net[e]) + 1
  BY <1>1
<1>4. Range(Append(net[e], f)) = Range(net[e]) \cup {f}
  <2>1. Append(net[e], f) = net[e] \o <<f>> /\ <<f>> \in Seq(Frame)
    BY <1>1, AppendIsConcat
  <2>2. Range(net[e] \o <<f>>) = Range(net[e]) \cup Range(<<f>>)
    BY <1>1, <2>1, RangeConcatenation, ZenonT(40)
  <2>3. Range(<<f>>) = {f}
    BY DEF Range
  <2> QED BY <2>1, <2>2, <2>3
<1>5. net' \in [Ends -> Seq(Frame)]
  BY <1>1, <1>3
<1> QED BY <1>2, <1>3, <1>4, <1>5

\* The first frame is taken.
LEMMA FrameTaken ==
    ASSUME NetTypes, NEW e \in Ends, net[e] # <<>>,
           net'[e] = Tail(net[e]), net'[Peer(e)] = net[Peer(e)], DOMAIN net' = Ends
    PROVE  /\ net'[e] \in Seq(Frame) /\ net'[Peer(e)] \in Seq(Frame)
           /\ Len(net'[e]) = Len(net[e]) - 1
           /\ Head(net[e]) \in Frame /\ Head(net[e]) \in Range(net[e])
           /\ Range(net'[e]) \subseteq Range(net[e])
<1>1. net[e] \in Seq(Frame) /\ net[Peer(e)] \in Seq(Frame) /\ Len(net[e]) \in Nat
  BY PeerIs DEF NetTypes
<1>2. Tail(net[e]) \in Seq(Frame) /\ Len(Tail(net[e])) = Len(net[e]) - 1
  BY <1>1
<1>3. Head(net[e]) = net[e][1] /\ 1 \in DOMAIN net[e] /\ Head(net[e]) \in Frame
  BY <1>1
<1>4. Tail(net[e]) = SubSeq(net[e], 2, Len(net[e]))
  BY <1>1, TailIsSubSeq
<1>5. Range(SubSeq(net[e], 2, Len(net[e]))) \subseteq Range(net[e])
  BY <1>1, SectionRange
<1> QED BY <1>1, <1>2, <1>3, <1>4, <1>5 DEF Range

\* An end takes a frame off the network.
LEMMA TakesIs ==
    ASSUME ConnTypes, NEW e \in Ends, Takes(e)
    PROVE  /\ Arrived(e) \in Frame /\ Arrived(e) \in Range(net[Peer(e)])
           /\ net[Peer(e)] # <<>>
           /\ net'[Peer(e)] = Tail(net[Peer(e)]) /\ net'[e] = net[e]
           /\ Range(net'[Peer(e)]) \subseteq Range(net[Peer(e)])
           /\ Len(net'[Peer(e)]) = Len(net[Peer(e)]) - 1
           /\ net' \in [Ends -> Seq(Frame)]
           /\ NetTypes' /\ HsTypes' /\ WriteTypes'
<1>1. net \in [Ends -> Seq(Frame)] /\ NetTypes
  BY DEF ConnTypes, NetTypes
<1>2. Peer(e) \in Ends /\ Peer(Peer(e)) = e /\ Peer(e) # e
  BY PeerIs
<1>3. net' = [net EXCEPT ![Peer(e)] = Tail(net[Peer(e)])] /\ net[Peer(e)] # <<>>
  BY DEF Takes
<1>4. DOMAIN net' = Ends /\ net'[Peer(e)] = Tail(net[Peer(e)]) /\ net'[e] = net[e]
  BY <1>1, <1>2, <1>3
<1>5. /\ net'[Peer(e)] \in Seq(Frame) /\ net'[e] \in Seq(Frame)
      /\ Len(net'[Peer(e)]) = Len(net[Peer(e)]) - 1
      /\ Head(net[Peer(e)]) \in Frame /\ Head(net[Peer(e)]) \in Range(net[Peer(e)])
      /\ Range(net'[Peer(e)]) \subseteq Range(net[Peer(e)])
  BY <1>1, <1>2, <1>3, <1>4, FrameTaken
<1>6. net' \in [Ends -> Seq(Frame)]
  BY <1>1, <1>2, <1>3, <1>5
<1>7. NetTypes' /\ HsTypes' /\ WriteTypes'
  BY <1>6 DEF Takes, ConnTypes, NetTypes, HsTypes, WriteTypes, hsVars, writeVars
<1> QED BY <1>3, <1>4, <1>5, <1>6, <1>7 DEF Arrived

-----------------------------------------------------------------------------
(* Types *)

\* What stays as it is stays well typed.
LEMMA TypesSame ==
    /\ HsTypes /\ UNCHANGED hsVars => HsTypes'
    /\ WriteTypes /\ UNCHANGED writeVars => WriteTypes'
    /\ ReadTypes /\ UNCHANGED readVars => ReadTypes'
    /\ NetTypes /\ UNCHANGED netVars => NetTypes'
BY DEF HsTypes, WriteTypes, ReadTypes, NetTypes, hsVars, writeVars, readVars, netVars

\* A state of the handshake is written.
LEMMA HsStep ==
    ASSUME HsTypes, NEW e \in Ends, NEW x \in {"start", "wait", "up", "failed"},
           hs' = [hs EXCEPT ![e] = x], psk' = psk
    PROVE  HsTypes' /\ hs'[e] = x /\ hs'[Peer(e)] = hs[Peer(e)]
<1>1. hs'[e] = x /\ hs'[Peer(e)] = hs[Peer(e)]
  BY PeerIs DEF HsTypes
<1> QED BY <1>1 DEF HsTypes

\* The handshake keeps the types.
LEMMA HandshakeTypes == ConnTypes /\ Handshake => ConnTypes'
<1> SUFFICES ASSUME ConnTypes, Handshake PROVE ConnTypes'
  OBVIOUS
<1>1. /\ HsTypes /\ WriteTypes /\ ReadTypes /\ NetTypes
      /\ "client" \in Ends /\ "server" \in Ends
  BY DEF ConnTypes, Ends
<1>2. CASE ClientHello
  <2>1. WriteTypes' /\ ReadTypes'
    BY <1>1, <1>2, TypesSame DEF ClientHello
  <2>2. HsTypes'
    BY <1>1, <1>2, HsStep DEF ClientHello
  <2>3. NetTypes'
    BY <1>1, <1>2, FrameIs, FrameSent DEF ClientHello, NetTypes, HsTypes
  <2> QED BY <2>1, <2>2, <2>3 DEF ConnTypes
<1>3. CASE ServerAnswers
  <2>1. WriteTypes' /\ ReadTypes'
    BY <1>1, <1>3, TypesSame DEF ServerAnswers
  <2>2. HsTypes'
    <3>1. hs' = [hs EXCEPT !["server"] = "up"] \/ hs' = [hs EXCEPT !["server"] = "failed"]
      BY <1>3 DEF ServerAnswers
    <3> QED BY <1>1, <1>3, <3>1, HsStep DEF ServerAnswers
  <2>3. NetTypes'
    <3>1. net \in [Ends -> Seq(Frame)] /\ net["client"] \in Seq(Frame) /\ net["client"] # <<>>
      BY <1>1, <1>3 DEF NetTypes, ServerAnswers
    <3>2. Tail(net["client"]) \in Seq(Frame)
      BY <3>1
    <3>3. Append(net["server"], Hello("server")) \in Seq(Frame)
      BY <1>1, <3>1, FrameIs DEF HsTypes
    <3>4. net' \in [Ends -> Seq(Frame)]
      BY <1>3, <3>1, <3>2, <3>3 DEF ServerAnswers
    <3> QED BY <1>1, <1>3, <3>4 DEF ServerAnswers, NetTypes
  <2> QED BY <2>1, <2>2, <2>3 DEF ConnTypes
<1>4. CASE ClientFinishes
  <2>1. WriteTypes' /\ ReadTypes'
    BY <1>1, <1>4, TypesSame DEF ClientFinishes
  <2>2. HsTypes'
    <3>1. hs' = [hs EXCEPT !["client"] = "up"] \/ hs' = [hs EXCEPT !["client"] = "failed"]
      BY <1>4 DEF ClientFinishes
    <3> QED BY <1>1, <1>4, <3>1, HsStep DEF ClientFinishes
  <2>3. NetTypes'
    <3>1. net \in [Ends -> Seq(Frame)] /\ net["server"] \in Seq(Frame) /\ net["server"] # <<>>
      BY <1>1, <1>4 DEF NetTypes, ClientFinishes
    <3>2. Tail(net["server"]) \in Seq(Frame)
      BY <3>1
    <3> QED BY <1>1, <1>4, <3>1, <3>2 DEF ClientFinishes, NetTypes
  <2> QED BY <2>1, <2>2, <2>3 DEF ConnTypes
<1>5. CASE \E e \in Ends : HandshakeCut(e)
  <2>1. PICK e \in Ends : HandshakeCut(e)
    BY <1>5
  <2>2. WriteTypes' /\ ReadTypes' /\ NetTypes'
    BY <1>1, <2>1, TypesSame DEF HandshakeCut
  <2>3. HsTypes'
    BY <1>1, <2>1, HsStep DEF HandshakeCut
  <2> QED BY <2>2, <2>3 DEF ConnTypes
<1> QED BY <1>2, <1>3, <1>4, <1>5 DEF Handshake

\* What a goroutine begins with.
BeginState(e, m) ==
    [pc |-> "ready", msg |-> m, part |-> "envelope",
     sid |-> IF HasContent(m) THEN NewStreamID(e) ELSE 0, n |-> 0,
     rest |-> IF HasContent(m) THEN m.content ELSE <<>>]

\* It is a state of a sending goroutine.
LEMMA BeginIs ==
    ASSUME WriteTypes, NEW e \in Ends, NEW m \in Messages(e)
    PROVE  /\ BeginState(e, m) \in Sender(e)
           /\ BeginState(e, m).pc = "ready" /\ BeginState(e, m).part = "envelope"
           /\ BeginState(e, m).sid \in {0, outSeq[e] + 1}
           /\ BeginState(e, m).sid # 0 <=> HasContent(m)
           /\ NewStreamID(e) = outSeq[e] + 1 /\ outSeq[e] \in Nat
<1> DEFINE x == BeginState(e, m)
<1>1. outSeq[e] \in Nat /\ NewStreamID(e) = outSeq[e] + 1
  BY DEF WriteTypes, NewStreamID
<1>2. CASE HasContent(m)
  <2>1. x = [pc |-> "ready", msg |-> m, part |-> "envelope", sid |-> outSeq[e] + 1, n |-> 0,
             rest |-> m.content]
    BY <1>1, <1>2 DEF BeginState
  <2>2. m.content \in Seq(Bytes)
    BY <1>2, MessagesAre
  <2> QED BY <1>1, <1>2, <2>1, <2>2 DEF Sender
<1>3. CASE ~HasContent(m)
  <2>1. x = [pc |-> "ready", msg |-> m, part |-> "envelope", sid |-> 0, n |-> 0, rest |-> <<>>]
    BY <1>3 DEF BeginState
  <2> QED BY <1>1, <1>3, <2>1 DEF Sender
<1> QED BY <1>2, <1>3

\* What a goroutine is at once its record is sealed.
SealedState(e, w) == [writer[e][w] EXCEPT !.pc = "sealed", !.n = nonce[e]]

\* Only pc and n change.
LEMMA SealedIs ==
    ASSUME WriteTypes, NEW e \in Ends, NEW w \in Writers(e), writer[e][w].pc = "ready"
    PROVE  /\ writer[e][w] \in Sender(e) /\ SealedState(e, w) \in Sender(e)
           /\ SealedState(e, w).pc = "sealed" /\ SealedState(e, w).n = nonce[e]
           /\ SealedState(e, w).msg = writer[e][w].msg
           /\ SealedState(e, w).part = writer[e][w].part
           /\ SealedState(e, w).sid = writer[e][w].sid
           /\ SealedState(e, w).rest = writer[e][w].rest
<1> DEFINE x == writer[e][w]
<1>1. x \in {Idle} \cup Sender(e) /\ nonce[e] \in Nat
  BY DEF WriteTypes
<1>2. x \in Sender(e)
  BY <1>1, IdleIs
<1> HIDE DEF x
<1> DEFINE k == nonce[e]
<1>6. k \in Nat
  BY <1>1
<1> HIDE DEF k
<1>7. ASSUME NEW y, y = [x EXCEPT !.pc = "sealed", !.n = k]
      PROVE  y = [pc |-> "sealed", msg |-> x.msg, part |-> x.part, sid |-> x.sid, n |-> k,
                  rest |-> x.rest]
  BY <1>2, <1>6, <1>7 DEF Sender
<1>3. [x EXCEPT !.pc = "sealed", !.n = nonce[e]] =
        [pc |-> "sealed", msg |-> x.msg, part |-> x.part, sid |-> x.sid, n |-> nonce[e],
         rest |-> x.rest]
  BY <1>7 DEF k
<1>4. [x EXCEPT !.pc = "sealed", !.n = nonce[e]] \in Sender(e)
  BY <1>1, <1>2, <1>3 DEF Sender
<1>5. SealedState(e, w) = [x EXCEPT !.pc = "sealed", !.n = nonce[e]]
  BY DEF SealedState, x
<1> QED BY <1>2, <1>3, <1>4, <1>5 DEF x

\* Writing keeps the types.
LEMMA WriterTypes ==
    ASSUME ConnTypes, NEW e \in Ends, NEW w \in Writers(e),
           \/ \E m \in Messages(e) : Begin(e, w, m)
           \/ SealRecord(e, w)
           \/ WriteRecord(e, w)
    PROVE  ConnTypes'
<1>1. HsTypes /\ WriteTypes /\ ReadTypes /\ NetTypes
  BY DEF ConnTypes
<1>2. ASSUME NEW m \in Messages(e), Begin(e, w, m) PROVE ConnTypes'
  <2>1. HsTypes' /\ ReadTypes' /\ NetTypes' /\ UNCHANGED <<nonce, sent>>
    BY <1>1, <1>2, TypesSame DEF Begin
  <2>2. writer' = [writer EXCEPT ![e][w] = BeginState(e, m)] /\ BeginState(e, m) \in Sender(e)
    BY <1>1, <1>2, BeginIs DEF Begin, BeginState
  <2>3. outSeq' \in [Ends -> Nat]
    BY <1>1, <1>2 DEF Begin, WriteTypes
  <2>4. /\ DOMAIN writer' = Ends
        /\ \A d \in Ends : writer'[d] \in [Writers(d) -> {Idle} \cup Sender(d)]
    BY <2>2, WriterStep
  <2>5. WriteTypes'
    BY <1>1, <2>1, <2>3, <2>4 DEF WriteTypes
  <2> QED BY <2>1, <2>5 DEF ConnTypes
<1>3. ASSUME SealRecord(e, w) PROVE ConnTypes'
  <2>1. HsTypes' /\ ReadTypes' /\ NetTypes' /\ UNCHANGED <<outSeq, sent>>
    BY <1>1, <1>3, TypesSame DEF SealRecord
  <2>2. writer' = [writer EXCEPT ![e][w] = SealedState(e, w)] /\ SealedState(e, w) \in Sender(e)
    BY <1>1, <1>3, SealedIs DEF SealRecord, SealedState
  <2>3. nonce' \in [Ends -> Nat]
    BY <1>1, <1>3 DEF SealRecord, WriteTypes
  <2>4. /\ DOMAIN writer' = Ends
        /\ \A d \in Ends : writer'[d] \in [Writers(d) -> {Idle} \cup Sender(d)]
    BY <2>2, WriterStep
  <2>5. WriteTypes'
    BY <1>1, <2>1, <2>3, <2>4 DEF WriteTypes
  <2> QED BY <2>1, <2>5 DEF ConnTypes
<1>4. ASSUME WriteRecord(e, w) PROVE ConnTypes'
  <2> DEFINE s == writer[e][w]
  <2>1. HsTypes' /\ ReadTypes' /\ UNCHANGED <<nonce, outSeq, up, faults>>
    BY <1>1, <1>4, TypesSame DEF WriteRecord
  <2>2. s \in Sender(e) /\ s.pc = "sealed" /\ s.n \in Nat
    BY <1>1, <1>4, IdleIs, SenderIs DEF WriteRecord, WriteTypes
  <2>3. NetTypes'
    <3>1. Record(s) \in PlainRecord
      BY <2>2, RecordIs
    <3>2. Seal(e, s.n, Record(s)) \in Frame
      BY <1>1, <2>2, <3>1, FrameIs DEF HsTypes
    <3>3. net' = [net EXCEPT ![e] = Append(net[e], Seal(e, s.n, Record(s)))]
      BY <1>4 DEF WriteRecord
    <3>4. net' \in [Ends -> Seq(Frame)]
      BY <1>1, <3>2, <3>3, FrameSent
    <3> QED BY <1>1, <2>1, <3>4 DEF NetTypes
  <2> DEFINE x == IF IsLast(s) THEN Idle ELSE Advance(s)
  <2>4. x \in {Idle} \cup Sender(e) /\ writer' = [writer EXCEPT ![e][w] = x]
    BY <1>4, <2>2, AdvanceIs DEF WriteRecord
  <2> HIDE DEF x
  <2>5. /\ DOMAIN writer' = Ends
        /\ \A d \in Ends : writer'[d] \in [Writers(d) -> {Idle} \cup Sender(d)]
    BY <2>4, WriterStep
  <2>6. DOMAIN sent' = Ends /\ \A d \in Ends : sent'[d] \in Seq(Messages(d))
    <3>1. s.msg \in Messages(e)
      BY <2>2, SenderIs
    <3>2. sent[e] \in Seq(Messages(e)) /\ Append(sent[e], s.msg) \in Seq(Messages(e))
      BY <1>1, <3>1 DEF WriteTypes
    <3>3. sent' = [sent EXCEPT ![e] = Append(sent[e], s.msg)]
          \/ sent' = [sent EXCEPT ![e] = sent[e]]
      BY <1>4 DEF WriteRecord
    <3> QED BY <1>1, <3>2, <3>3 DEF WriteTypes
  <2>7. WriteTypes'
    BY <1>1, <2>1, <2>5, <2>6 DEF WriteTypes
  <2> QED BY <2>1, <2>3, <2>7 DEF ConnTypes
<1> QED BY <1>2, <1>3, <1>4

\* So does losing the connection.
LEMMA DownTypes == ConnTypes /\ GoesDown => ConnTypes'
<1> SUFFICES ASSUME ConnTypes, GoesDown PROVE ConnTypes'
  OBVIOUS
<1>1. HsTypes' /\ ReadTypes'
  BY TypesSame DEF GoesDown, ConnTypes
<1>2. /\ DOMAIN writer' = Ends
      /\ \A d \in Ends : writer'[d] \in [Writers(d) -> {Idle} \cup Sender(d)]
  BY DEF GoesDown
<1>3. WriteTypes'
  BY <1>2 DEF GoesDown, ConnTypes, WriteTypes
<1>4. NetTypes'
  BY DEF GoesDown, ConnTypes, NetTypes
<1> QED BY <1>1, <1>3, <1>4 DEF ConnTypes

\* The fields of a record that arrives.
LEMMA ArrivedIs ==
    ASSUME ConnTypes, NEW e \in Ends, Takes(e)
    PROVE  LET rec == Arrived(e).rec
           IN  /\ rec.tag = "envelope" => rec.type \in STRING /\ rec.sid \in Nat
               /\ rec.tag = "chunk" =>
                    rec.sid \in Nat /\ rec.final \in BOOLEAN /\ rec.payload \in Seq(Bytes)
<1>1. Arrived(e).rec \in PlainRecord \cup [tag : {"handshake", "altered"}]
  BY TakesIs DEF Frame
<1> QED BY <1>1 DEF PlainRecord

\* What a chunk makes of its stream.
Extended(e, rec) == [pending[e][rec.sid] EXCEPT !.content = @ \o rec.payload]

\* It is a stream with more content.
LEMMA ExtendedIs ==
    ASSUME ReadTypes, NEW e \in Ends, NEW rec, rec.sid \in DOMAIN pending[e],
           rec.payload \in Seq(Bytes)
    PROVE  /\ Extended(e, rec) \in Stream /\ pending[e][rec.sid] \in Stream
           /\ Extended(e, rec) = [type |-> pending[e][rec.sid].type,
                                  content |-> pending[e][rec.sid].content \o rec.payload]
<1> DEFINE x == pending[e][rec.sid]
           c == x.content \o rec.payload
<1>1. x \in Stream
  BY DEF ReadTypes
<1>2. c \in Seq(Bytes)
  BY <1>1, ConcatProperties DEF Stream
<1> HIDE DEF x, c
<1>3. ASSUME NEW y, y = [x EXCEPT !.content = c] PROVE y = [type |-> x.type, content |-> c]
  BY <1>1, <1>3 DEF Stream
<1>4. Extended(e, rec) = [x EXCEPT !.content = c]
  BY DEF Extended, x, c
<1>5. [type |-> x.type, content |-> c] \in Stream
  BY <1>1, <1>2 DEF Stream
<1> QED BY <1>1, <1>3, <1>4, <1>5 DEF x, c

\* An end's streams are written.
LEMMA PendingStep ==
    ASSUME ReadTypes, NEW e \in Ends, NEW p, pending' = [pending EXCEPT ![e] = p],
           p \in [DOMAIN p -> Stream]
    PROVE  /\ pending'[e] = p /\ pending'[Peer(e)] = pending[Peer(e)]
           /\ DOMAIN pending' = Ends
           /\ \A d \in Ends : pending'[d] \in [DOMAIN pending'[d] -> Stream]
<1>1. DOMAIN pending = Ends /\ \A d \in Ends : pending[d] \in [DOMAIN pending[d] -> Stream]
  BY DEF ReadTypes
<1>2. DOMAIN pending' = Ends /\ pending'[e] = p /\ pending'[Peer(e)] = pending[Peer(e)]
  BY <1>1, PeerIs
<1>3. ASSUME NEW d \in Ends PROVE pending'[d] \in [DOMAIN pending'[d] -> Stream]
  <2>1. CASE d = e
    BY <1>2, <2>1
  <2>2. CASE d # e
    BY <1>1, <1>2, <2>2, PeerIs
  <2> QED BY <2>1, <2>2
<1> QED BY <1>2, <1>3

\* A record is counted.
LEMMA CountIs ==
    ASSUME ReadTypes, NEW e \in Ends, expect' = [expect EXCEPT ![e] = @ + 1]
    PROVE  /\ expect' \in [Ends -> Nat] /\ expect'[e] = expect[e] + 1
           /\ expect'[Peer(e)] = expect[Peer(e)]
<1>1. expect \in [Ends -> Nat]
  BY DEF ReadTypes
<1>4. expect[e] \in Nat
  BY <1>1
<1>5. \A n \in Nat : n + 1 \in Nat
  OBVIOUS
<1> DEFINE k == expect[e] + 1
<1>2. expect' = [expect EXCEPT ![e] = k] /\ k \in Nat
  BY <1>4, <1>5
<1> HIDE DEF k
<1>3. expect' \in [Ends -> Nat] /\ expect'[e] = k /\ expect'[Peer(e)] = expect[Peer(e)]
  BY <1>1, <1>2, PeerIs
<1> QED BY <1>3 DEF k

\* A message is returned.
LEMMA GotIs ==
    ASSUME ReadTypes, NEW e \in Ends, NEW m \in Message,
           got' = [got EXCEPT ![e] = Append(@, m)]
    PROVE  /\ got' \in [Ends -> Seq(Message)] /\ got'[e] = Append(got[e], m)
           /\ got'[Peer(e)] = got[Peer(e)]
<1> DEFINE S == Seq(Message)
           g == Append(got[e], m)
<1>1. got \in [Ends -> S] /\ got[e] \in S
  BY DEF ReadTypes
<1>2. g \in S
  BY <1>1
<1>3. got' = [got EXCEPT ![e] = g]
  OBVIOUS
<1> HIDE DEF S, g
<1>4. got' \in [Ends -> S] /\ got'[e] = g /\ got'[Peer(e)] = got[Peer(e)]
  BY <1>1, <1>2, <1>3, PeerIs, ZenonT(40)
<1> QED BY <1>4 DEF S, g

\* What ReadEnvelope does, and what it makes of the streams.
LEMMA ReadEnvelopeIs ==
    ASSUME ConnTypes, NEW e \in Ends, ReadEnvelope(e)
    PROVE  LET rec == Arrived(e).rec
           IN  /\ rec.type \in STRING /\ rec.sid \in Nat
               /\ rec.sid = 0 =>
                    /\ got' = [got EXCEPT ![e] = Append(@, [type |-> rec.type])]
                    /\ pending' = pending
               /\ rec.sid # 0 =>
                    /\ got' = got
                    /\ pending'[Peer(e)] = pending[Peer(e)]
                    /\ DOMAIN pending'[e] = DOMAIN pending[e] \cup {rec.sid}
                    /\ pending'[e][rec.sid] = [type |-> rec.type, content |-> <<>>]
                    /\ \A s \in DOMAIN pending[e] :
                            s # rec.sid => pending'[e][s] = pending[e][s]
               /\ ReadTypes'
<1> DEFINE rec == Arrived(e).rec
<1>1. Takes(e) /\ rec.tag = "envelope" /\ expect' = [expect EXCEPT ![e] = @ + 1] /\ rd' = rd
  BY DEF ReadEnvelope, Reads
<1>2. rec.type \in STRING /\ rec.sid \in Nat
  BY <1>1, ArrivedIs
<1>3. /\ rec.sid = 0 => /\ got' = [got EXCEPT ![e] = Append(@, [type |-> rec.type])]
                        /\ pending' = pending
      /\ rec.sid # 0 => /\ pending' = [pending EXCEPT ![e] =
                                [s \in DOMAIN @ \cup {rec.sid} |->
                                    IF s = rec.sid THEN [type |-> rec.type, content |-> <<>>]
                                    ELSE @[s]]]
                        /\ got' = got
  BY DEF ReadEnvelope
<1>4. ReadTypes
  BY DEF ConnTypes
<1> HIDE DEF rec
<1>5. expect' \in [Ends -> Nat]
  BY <1>1, <1>4, CountIs
<1>6. CASE rec.sid = 0
  <2>1. [type |-> rec.type] \in Message
    BY <1>2 DEF Message
  <2>2. got' = [got EXCEPT ![e] = Append(@, [type |-> rec.type])]
    BY <1>3, <1>6
  <2>3. got' \in [Ends -> Seq(Message)]
    BY <1>4, <2>1, <2>2, GotIs
  <2>4. ReadTypes'
    BY <1>1, <1>3, <1>4, <1>5, <1>6, <2>3 DEF ReadTypes
  <2> QED BY <1>2, <1>3, <1>6, <2>4 DEF rec
<1>7. CASE rec.sid # 0
  <2> DEFINE p == [s \in DOMAIN pending[e] \cup {rec.sid} |->
                    IF s = rec.sid THEN [type |-> rec.type, content |-> <<>>]
                    ELSE pending[e][s]]
  <2>1. [type |-> rec.type, content |-> <<>>] \in Stream
    BY <1>2 DEF Stream
  <2>2. pending[e] \in [DOMAIN pending[e] -> Stream]
    BY <1>4 DEF ReadTypes
  <2>3. p \in [DOMAIN p -> Stream]
    BY <2>1, <2>2
  <2>4. pending' = [pending EXCEPT ![e] = p]
    BY <1>3, <1>7
  <2>5. /\ DOMAIN p = DOMAIN pending[e] \cup {rec.sid}
        /\ p[rec.sid] = [type |-> rec.type, content |-> <<>>]
        /\ \A s \in DOMAIN pending[e] : s # rec.sid => p[s] = pending[e][s]
    OBVIOUS
  <2> HIDE DEF p
  <2>6. /\ pending'[e] = p /\ pending'[Peer(e)] = pending[Peer(e)]
        /\ DOMAIN pending' = Ends
        /\ \A d \in Ends : pending'[d] \in [DOMAIN pending'[d] -> Stream]
    BY <1>4, <2>3, <2>4, PendingStep
  <2>7. ReadTypes'
    BY <1>1, <1>3, <1>4, <1>5, <1>7, <2>6 DEF ReadTypes
  <2> QED BY <1>2, <1>3, <1>7, <2>5, <2>6, <2>7 DEF rec
<1> QED BY <1>6, <1>7

\* What ReadChunk does, and what it makes of the streams.
LEMMA ReadChunkIs ==
    ASSUME ConnTypes, NEW e \in Ends, ReadChunk(e)
    PROVE  LET rec == Arrived(e).rec
           IN  /\ rec.sid \in DOMAIN pending[e] /\ rec.payload \in Seq(Bytes)
               /\ rec.final \in BOOLEAN
               /\ pending'[Peer(e)] = pending[Peer(e)]
               /\ rec.final =>
                    /\ got' = [got EXCEPT ![e] = Append(@, Extended(e, rec))]
                    /\ DOMAIN pending'[e] = DOMAIN pending[e] \ {rec.sid}
               /\ ~rec.final =>
                    /\ got' = got
                    /\ DOMAIN pending'[e] = DOMAIN pending[e]
                    /\ pending'[e][rec.sid] = Extended(e, rec)
               /\ \A s \in DOMAIN pending[e] :
                        s # rec.sid => pending'[e][s] = pending[e][s]
               /\ ReadTypes'
<1> DEFINE rec == Arrived(e).rec
           y == Extended(e, rec)
<1>1. /\ Takes(e) /\ rec.tag = "chunk" /\ expect' = [expect EXCEPT ![e] = @ + 1] /\ rd' = rd
      /\ rec.sid \in DOMAIN pending[e]
  BY DEF ReadChunk, Reads
<1>2. rec.payload \in Seq(Bytes) /\ rec.final \in BOOLEAN
  BY <1>1, ArrivedIs
<1>3. /\ rec.final => /\ got' = [got EXCEPT ![e] = Append(@, y)]
                      /\ pending' = [pending EXCEPT ![e] = Restrict(@, DOMAIN @ \ {rec.sid})]
      /\ ~rec.final => /\ pending' = [pending EXCEPT ![e][rec.sid] = y]
                       /\ got' = got
  BY DEF ReadChunk, Extended
<1>4. ReadTypes
  BY DEF ConnTypes
<1>5. y \in Stream
  BY <1>1, <1>2, <1>4, ExtendedIs
<1> HIDE DEF rec, y
<1>6. expect' \in [Ends -> Nat]
  BY <1>1, <1>4, CountIs
<1>7. pending[e] \in [DOMAIN pending[e] -> Stream]
  BY <1>4 DEF ReadTypes
<1>8. CASE rec.final
  <2>1. y \in Message
    BY <1>5 DEF Stream, Message
  <2>2. got' = [got EXCEPT ![e] = Append(@, y)]
    BY <1>3, <1>8
  <2>3. got' \in [Ends -> Seq(Message)]
    BY <1>4, <2>1, <2>2, GotIs
  <2> DEFINE p == Restrict(pending[e], DOMAIN pending[e] \ {rec.sid})
  <2>4. /\ DOMAIN p = DOMAIN pending[e] \ {rec.sid}
        /\ \A s \in DOMAIN p : p[s] = pending[e][s]
        /\ p \in [DOMAIN p -> Stream]
    BY <1>7 DEF Restrict
  <2>5. pending' = [pending EXCEPT ![e] = p]
    BY <1>3, <1>8
  <2> HIDE DEF p
  <2>6. /\ pending'[e] = p /\ pending'[Peer(e)] = pending[Peer(e)]
        /\ DOMAIN pending' = Ends
        /\ \A d \in Ends : pending'[d] \in [DOMAIN pending'[d] -> Stream]
    BY <1>4, <2>4, <2>5, PendingStep
  <2>7. ReadTypes'
    BY <1>1, <1>4, <1>6, <2>3, <2>6 DEF ReadTypes
  <2>8. \A s \in DOMAIN pending[e] : s # rec.sid => pending'[e][s] = pending[e][s]
    BY <2>4, <2>6
  <2> QED BY <1>1, <1>2, <1>3, <1>8, <2>4, <2>6, <2>7, <2>8 DEF rec, y
<1>9. CASE ~rec.final
  <2> DEFINE p == [pending[e] EXCEPT ![rec.sid] = y]
  <2>1. /\ DOMAIN p = DOMAIN pending[e] /\ p[rec.sid] = y
        /\ \A s \in DOMAIN p : s # rec.sid => p[s] = pending[e][s]
        /\ p \in [DOMAIN p -> Stream]
    BY <1>1, <1>5, <1>7
  <2>2. pending' = [pending EXCEPT ![e] = p]
    BY <1>3, <1>9
  <2> HIDE DEF p
  <2>3. /\ pending'[e] = p /\ pending'[Peer(e)] = pending[Peer(e)]
        /\ DOMAIN pending' = Ends
        /\ \A d \in Ends : pending'[d] \in [DOMAIN pending'[d] -> Stream]
    BY <1>4, <2>1, <2>2, PendingStep
  <2>4. ReadTypes'
    BY <1>1, <1>3, <1>4, <1>6, <1>9, <2>3 DEF ReadTypes
  <2> QED BY <1>1, <1>2, <1>3, <1>9, <2>1, <2>3, <2>4 DEF rec, y
<1> QED BY <1>2, <1>8, <1>9

\* Reading keeps the types, and so does a fault.
LEMMA ReaderTypes ==
    ASSUME ConnTypes, NEW e \in Ends, Read(e) \/ Fault(e)
    PROVE  ConnTypes'
<1>1. CASE ReadEnvelope(e)
  BY <1>1, ReadEnvelopeIs, TakesIs DEF ConnTypes, ReadEnvelope, Reads
<1>2. CASE ReadChunk(e)
  BY <1>2, ReadChunkIs, TakesIs DEF ConnTypes, ReadChunk, Reads
<1>3. CASE ReadFails(e)
  <2>1. rd' \in [Ends -> {"ok", "closed", "decrypt", "unknown stream"}]
    BY <1>3 DEF ReadFails, ConnTypes, ReadTypes
  <2>2. ReadTypes'
    BY <1>3, <2>1 DEF ReadFails, ConnTypes, ReadTypes
  <2> QED BY <1>3, <2>2, TakesIs DEF ReadFails, ConnTypes
<1>4. CASE ReadCut(e)
  <2>1. ReadTypes'
    BY <1>4 DEF ReadCut, ConnTypes, ReadTypes
  <2> QED BY <1>4, <2>1, TypesSame DEF ReadCut, ConnTypes
<1>5. CASE Fault(e)
  <2>1. net' \in [Ends -> Seq(Frame)]
    BY <1>5, FaultIs
  <2>2. faults' \in 0..MaxFaults /\ up' = up
    <3>1. MaxFaults \in Nat
      BY ConnAssumption
    <3>2. faults \in 0..MaxFaults
      BY DEF ConnTypes, NetTypes
    <3>3. faults' = faults + 1 /\ faults < MaxFaults /\ up' = up
      BY <1>5 DEF Fault
    <3>4. faults' \in 0..MaxFaults
      BY <3>1, <3>2, <3>3
    <3> QED BY <3>3, <3>4
  <2>3. NetTypes'
    BY <2>1, <2>2 DEF ConnTypes, NetTypes
  <2> QED BY <1>5, <2>3, TypesSame DEF Fault, ConnTypes
<1> QED BY <1>1, <1>2, <1>3, <1>4, <1>5 DEF Read

\* Types are invariant.
LEMMA NextTypes == ConnTypes /\ [Next]_vars => ConnTypes'
<1> SUFFICES ASSUME ConnTypes, [Next]_vars PROVE ConnTypes'
  OBVIOUS
<1>1. CASE Handshake
  BY <1>1, HandshakeTypes
<1>2. CASE \E e \in Ends : \E w \in Writers(e) :
                Step(e, w) \/ \E m \in Messages(e) : Begin(e, w, m)
  BY <1>2, WriterTypes DEF Step
<1>3. CASE \E e \in Ends : Read(e) \/ Fault(e)
  BY <1>3, ReaderTypes
<1>4. CASE CloseFailed \/ Disconnect
  BY <1>4, DownTypes DEF CloseFailed, Disconnect
<1>5. CASE UNCHANGED vars
  BY <1>5, TypesSame DEF vars, ConnTypes
<1> QED BY <1>1, <1>2, <1>3, <1>4, <1>5 DEF Next

-----------------------------------------------------------------------------
(* One direction *)

\* Nothing of the direction from e changes, except for frames that are lost,
\* repeated, altered or of the handshake.
Rests(e) ==
    /\ psk' = psk
    /\ nonce'[e] = nonce[e] /\ outSeq'[e] = outSeq[e] /\ sent'[e] = sent[e]
    /\ writer'[e] = writer[e]
    /\ expect'[Peer(e)] = expect[Peer(e)] /\ pending'[Peer(e)] = pending[Peer(e)]
    /\ got'[Peer(e)] = got[Peer(e)]
    /\ up' => up
    /\ hs'[e] # "up" => hs[e] # "up"
    /\ Range(net'[e]) \subseteq Range(net[e]) \cup {Hello(e), Garbage}

\* What the network may do to frames.
LEMMA FramesRest ==
    ASSUME NEW e, NEW Q, FramesGenuine(e, Q), psk' = psk,
           expect'[Peer(e)] = expect[Peer(e)],
           Range(net'[e]) \subseteq Range(net[e]) \cup {Hello(e), Garbage}
    PROVE  FramesGenuine(e, Q)'
<1>1. Hello(e)' = Hello(e) /\ CipherStates(e)' = CipherStates(e)
  BY DEF Hello, CipherStates
<1>2. \A f : Genuine(e, Q, f) => Genuine(e, Q, f)'
  BY <1>1 DEF Genuine, CipherStates, Hello
<1>3. \A f \in {Hello(e), Garbage} : Genuine(e, Q, f)
  BY DEF Genuine
<1> QED BY <1>2, <1>3 DEF FramesGenuine

\* It carries on.
LEMMA CarriesRest ==
    ASSUME NEW e, NEW Q, NEW D, Carries(e, Q, D), Rests(e)
    PROVE  Carries(e, Q, D)'
<1>1. SealsInOrder(e, Q)'
  BY DEF Carries, Rests, SealsInOrder
<1>2. FramesGenuine(e, Q)'
  BY FramesRest DEF Carries, Rests
<1>3. CompletesInOrder(e, Q, D)'
  BY DEF Carries, Rests, CompletesInOrder
<1>4. StreamsInTurn(e, Q)'
  <2>1. ASSUME NEW i, NEW x, InTurn(pending[Peer(e)], Q, i, x)
        PROVE InTurn(pending'[Peer(e)], Q, i, x)
    BY <2>1 DEF Rests, InTurn, Expected
  <2>2. Sending(e)' = Sending(e) /\ \A w \in Sending(e) : writer'[e][w] = writer[e][w]
    BY DEF Rests, Sending
  <2>3. \A i \in 1..Len(Q) : InTurn(pending'[Peer(e)], Q, i, Q[i])
    BY <2>1 DEF Carries, StreamsInTurn
  <2>4. ASSUME NEW w \in Sending(e), NEW x, x = writer[e][w]
        PROVE  InTurn(pending'[Peer(e)], Q, Len(Q) + 1, x)
    BY <2>1, <2>4 DEF Carries, StreamsInTurn
  <2>5. \A w \in Sending(e)' : InTurn(pending'[Peer(e)], Q, Len(Q) + 1, writer'[e][w])
    BY <2>2, <2>4 DEF InTurn, Expected
  <2> QED BY <2>3, <2>5 DEF StreamsInTurn
<1>5. StreamIDs(e, Q)'
  BY DEF Carries, Rests, StreamIDs, Sending
<1> QED BY <1>1, <1>2, <1>3, <1>4, <1>5 DEF Carries, Rests

\* It does when the connection is lost.
LEMMA CarriesDown ==
    ASSUME NEW e \in Ends, NEW Q, NEW D, Carries(e, Q, D), GoesDown
    PROVE  Carries(e, Q, D)'
<1>1. /\ \A w \in Writers(e) : writer'[e][w] = Idle
      /\ Sending(e)' = {}
  BY DEF GoesDown, Sending
<1>2. SealsInOrder(e, Q)'
  BY <1>1, IdleIs DEF GoesDown, SealsInOrder
<1>3. FramesGenuine(e, Q)'
  BY FramesRest DEF Carries, GoesDown, hsVars, readVars
<1>4. CompletesInOrder(e, Q, D)'
  BY DEF Carries, GoesDown, CompletesInOrder, readVars
<1>5. StreamsInTurn(e, Q)'
  BY <1>1 DEF Carries, GoesDown, StreamsInTurn, InTurn, Expected, readVars
<1>6. StreamIDs(e, Q)'
  BY <1>1 DEF Carries, GoesDown, StreamIDs, readVars
<1> QED BY <1>2, <1>3, <1>4, <1>5, <1>6 DEF Carries, GoesDown, hsVars

\* A message is begun.
LEMMA CarriesBegin ==
    ASSUME ConnTypes, NEW e \in Ends, NEW w \in Writers(e), NEW m \in Messages(e),
           Begin(e, w, m), NEW Q \in Seq(Sender(e)), NEW D, Carries(e, Q, D)
    PROVE  Carries(e, Q, D)'
<1> DEFINE x == BeginState(e, m)
           o == Peer(e)
<1>1. /\ writer[e][w] = Idle /\ writer' = [writer EXCEPT ![e][w] = x]
      /\ UNCHANGED <<hsVars, nonce, sent, readVars, netVars>>
      /\ outSeq' = [outSeq EXCEPT ![e] = IF HasContent(m) THEN @ + 1 ELSE @]
  BY DEF Begin, BeginState
<1>2. /\ x \in Sender(e) /\ x.pc = "ready" /\ x.part = "envelope"
      /\ x.sid \in {0, outSeq[e] + 1} /\ (x.sid # 0 <=> HasContent(m)) /\ outSeq[e] \in Nat
  BY BeginIs DEF ConnTypes
<1>3. outSeq'[e] = IF HasContent(m) THEN outSeq[e] + 1 ELSE outSeq[e]
  BY <1>1 DEF ConnTypes, WriteTypes
<1> HIDE DEF x
<1>11. writer' = [writer EXCEPT ![e][w] = x]
  BY <1>1
<1>4. writer'[e][w] = x /\ \A v \in Writers(e) : v # w => writer'[e][v] = writer[e][v]
  BY <1>11, WriterStep, ZenonT(40)
<1>5. \A v \in Sending(e)' : v # w => v \in Sending(e)
  BY <1>4 DEF Sending
<1>6. SealsInOrder(e, Q)'
  <2>1. \A v \in Writers(e) :
            /\ writer'[e][v].pc = "sealed" => writer[e][v].pc = "sealed" /\ v # w
            /\ writer[e][v].pc = "sealed" => writer'[e][v].pc = "sealed"
            /\ v # w => writer'[e][v] = writer[e][v]
    BY <1>1, <1>2, <1>4, IdleIs
  <2>2. expect' = expect /\ nonce' = nonce /\ up' = up
    BY <1>1 DEF readVars, netVars
  <2> QED BY <2>1, <2>2 DEF Carries, SealsInOrder
<1>7. FramesGenuine(e, Q)'
  BY <1>1, FramesRest DEF Carries, hsVars, readVars, netVars
<1>8. CompletesInOrder(e, Q, D)'
  BY <1>1 DEF Carries, CompletesInOrder, readVars
<1>9. StreamsInTurn(e, Q)'
  <2>1. ASSUME NEW i, NEW y, InTurn(pending[Peer(e)], Q, i, y)
        PROVE InTurn(pending'[Peer(e)], Q, i, y)
    BY <1>1, <2>1 DEF InTurn, Expected, readVars
  <2>2. \A i \in 1..Len(Q) : InTurn(pending'[Peer(e)], Q, i, Q[i])
    BY <2>1 DEF Carries, StreamsInTurn
  <2>3. ASSUME NEW v \in Sending(e), NEW y, y = writer[e][v]
        PROVE  InTurn(pending'[Peer(e)], Q, Len(Q) + 1, y)
    BY <2>1, <2>3 DEF Carries, StreamsInTurn
  <2>4. ASSUME NEW y, y = x PROVE InTurn(pending'[Peer(e)], Q, Len(Q) + 1, y)
    <3>1. CASE y.sid = 0
      BY <3>1 DEF InTurn
    <3>2. CASE y.sid = outSeq[e] + 1
      <4>1. \A j \in 1..Len(Q) : Q[j].sid \in Nat /\ Q[j].sid <= outSeq[e]
        <5>1. \A j \in 1..Len(Q) : Q[j] \in Sender(e)
          OBVIOUS
        <5> QED BY <5>1, SenderIs DEF Carries, StreamIDs
      <4>2. \A j \in 1..(Len(Q) + 1 - 1) : Q[j].sid # y.sid
        BY <1>2, <3>2, <4>1
      <4>3. y.sid \notin DOMAIN pending[o]
        BY <1>2, <3>2 DEF Carries, StreamIDs
      <4>4. Expected(pending'[o], y)
        BY <1>1, <1>2, <2>4, <4>3 DEF Expected, readVars
      <4> QED BY <4>2, <4>4 DEF InTurn
    <3> QED BY <1>2, <2>4, <3>1, <3>2
  <2>5. \A v \in Sending(e)' : InTurn(pending'[Peer(e)], Q, Len(Q) + 1, writer'[e][v])
    <3>1. ASSUME NEW v \in Sending(e)', NEW y, y = writer'[e][v]
          PROVE  InTurn(pending'[Peer(e)], Q, Len(Q) + 1, y)
      BY <1>4, <1>5, <2>3, <2>4, <3>1 DEF Sending
    <3> QED BY <3>1 DEF InTurn, Expected
  <2> QED BY <2>2, <2>5 DEF StreamsInTurn
<1>10. StreamIDs(e, Q)'
  <2> DEFINE k == outSeq[e]
             l == outSeq'[e]
  <2>1. k \in Nat /\ l \in Nat /\ k <= l /\ x.sid <= l /\ (x.sid # 0 => x.sid = k + 1)
    BY <1>2, <1>3
  <2>2. \A v \in Sending(e) : writer[e][v].sid \in Nat /\ writer[e][v].sid <= k
    <3>1. \A v \in Sending(e) : writer[e][v] \in Sender(e)
      BY DEF Sending, ConnTypes, WriteTypes
    <3> QED BY <3>1, SenderIs DEF Carries, StreamIDs
  <2> HIDE DEF k, l
  <2>3. \A i \in 1..Len(Q) : Q[i].sid <= l
    <3>1. \A j \in 1..Len(Q) : Q[j].sid \in Nat /\ Q[j].sid <= k
      <4>1. \A j \in 1..Len(Q) : Q[j] \in Sender(e)
        OBVIOUS
      <4> QED BY <4>1, SenderIs DEF Carries, StreamIDs, k
    <3> QED BY <2>1, <3>1
  <2>4. \A s \in DOMAIN pending'[o] : s \in 1..l
    <3>1. \A s \in DOMAIN pending'[o] : s \in 1..k
      BY <1>1 DEF Carries, StreamIDs, readVars, k
    <3> QED BY <2>1, <3>1
  <2>5. \A v \in Sending(e)' : writer'[e][v].sid <= l
    <3>1. ASSUME NEW v \in Sending(e)', v # w PROVE writer'[e][v].sid <= l
      BY <1>4, <1>5, <2>1, <2>2, <3>1 DEF Sending
    <3> QED BY <1>4, <2>1, <3>1
  <2>6. ASSUME NEW v \in Sending(e)', NEW u \in Sending(e)',
               writer'[e][v].sid = writer'[e][u].sid, writer'[e][v].sid # 0
        PROVE  v = u
    <3>1. CASE v # w /\ u # w
      <4>1. v \in Sending(e) /\ u \in Sending(e) /\ v \in Writers(e) /\ u \in Writers(e)
        BY <1>5, <3>1 DEF Sending
      <4>2. writer[e][v].sid = writer[e][u].sid /\ writer[e][v].sid # 0
        BY <1>4, <2>6, <3>1, <4>1
      <4> QED BY <4>1, <4>2 DEF Carries, StreamIDs
    <3>2. CASE v = w /\ u # w
      BY <1>4, <1>5, <2>1, <2>2, <2>6, <3>2 DEF Sending
    <3>3. CASE v # w /\ u = w
      BY <1>4, <1>5, <2>1, <2>2, <2>6, <3>3 DEF Sending
    <3> QED BY <3>1, <3>2, <3>3
  <2> QED BY <2>3, <2>4, <2>5, <2>6 DEF StreamIDs, l
<1> QED BY <1>1, <1>6, <1>7, <1>8, <1>9, <1>10 DEF Carries, hsVars

\* A record is sealed.
LEMMA CarriesSeal ==
    ASSUME ConnTypes, NEW e \in Ends, NEW w \in Writers(e),
           SealRecord(e, w), NEW Q \in Seq(Sender(e)), NEW D, Carries(e, Q, D)
    PROVE  Carries(e, Q, D)'
<1> DEFINE x == SealedState(e, w)
           s == writer[e][w]
<1>1. /\ s.pc = "ready" /\ up
      /\ \A v \in Writers(e) : writer[e][v].pc # "sealed"
      /\ UNCHANGED <<hsVars, outSeq, sent, readVars, netVars>>
      /\ nonce' = [nonce EXCEPT ![e] = @ + 1]
  BY DEF SealRecord
<1>2. writer' = [writer EXCEPT ![e][w] = x]
  BY DEF SealRecord, SealedState
<1>3. /\ s \in Sender(e) /\ x \in Sender(e) /\ x.pc = "sealed" /\ x.n = nonce[e]
      /\ x.msg = s.msg /\ x.part = s.part /\ x.sid = s.sid /\ x.rest = s.rest
  BY <1>1, SealedIs DEF ConnTypes
<1>4. nonce'[e] = nonce[e] + 1
  BY <1>1 DEF ConnTypes, WriteTypes
<1> HIDE DEF x
<1>5. writer'[e][w] = x /\ \A v \in Writers(e) : v # w => writer'[e][v] = writer[e][v]
  BY <1>2, WriterStep, ZenonT(40)
<1>6. Sending(e)' = Sending(e) /\ w \in Sending(e)
  BY <1>3, <1>5, IdleIs DEF Sending
<1>7. \A v \in Sending(e) : writer'[e][v].sid = writer[e][v].sid
  BY <1>3, <1>5 DEF Sending
<1>8. SealsInOrder(e, Q)'
  <2>1. nonce[e] = expect[Peer(e)] + Len(Q)
    BY <1>1 DEF Carries, SealsInOrder
  <2>2. expect' = expect
    BY <1>1 DEF readVars
  <2> QED BY <1>1, <1>3, <1>4, <1>5, <2>1, <2>2 DEF SealsInOrder
<1>9. FramesGenuine(e, Q)'
  BY <1>1, FramesRest DEF Carries, hsVars, readVars, netVars
<1>10. CompletesInOrder(e, Q, D)'
  BY <1>1 DEF Carries, CompletesInOrder, readVars
<1>11. StreamsInTurn(e, Q)'
  <2>1. ASSUME NEW i, NEW y, NEW z, InTurn(pending[Peer(e)], Q, i, y),
               z.msg = y.msg, z.part = y.part, z.sid = y.sid, z.rest = y.rest
        PROVE  InTurn(pending'[Peer(e)], Q, i, z)
    BY <1>1, <2>1 DEF InTurn, Expected, Follows, readVars
  <2>2. \A i \in 1..Len(Q) : InTurn(pending'[Peer(e)], Q, i, Q[i])
    BY <2>1 DEF Carries, StreamsInTurn
  <2>3. ASSUME NEW v \in Sending(e), NEW y, y = writer[e][v], NEW z, z = writer'[e][v]
        PROVE  InTurn(pending'[Peer(e)], Q, Len(Q) + 1, z)
    <3>1. z.msg = y.msg /\ z.part = y.part /\ z.sid = y.sid /\ z.rest = y.rest
      BY <1>3, <1>5, <2>3 DEF Sending
    <3>2. InTurn(pending[Peer(e)], Q, Len(Q) + 1, y)
      BY <2>3 DEF Carries, StreamsInTurn
    <3> QED BY <2>1, <3>1, <3>2
  <2>4. \A v \in Sending(e)' : InTurn(pending'[Peer(e)], Q, Len(Q) + 1, writer'[e][v])
    <3>1. ASSUME NEW v \in Sending(e)', NEW z, z = writer'[e][v]
          PROVE  InTurn(pending'[Peer(e)], Q, Len(Q) + 1, z)
      BY <1>6, <2>3, <3>1
    <3> QED BY <3>1 DEF InTurn, Expected
  <2> QED BY <2>2, <2>4 DEF StreamsInTurn
<1>12. StreamIDs(e, Q)'
  BY <1>1, <1>6, <1>7 DEF Carries, StreamIDs, readVars
<1> QED BY <1>1, <1>8, <1>9, <1>10, <1>11, <1>12 DEF Carries, hsVars

-----------------------------------------------------------------------------
(* A record more at the end, a record less at the front *)

\* A sequence with an element more.
LEMMA Appended ==
    ASSUME NEW S, NEW q \in Seq(S), NEW x \in S, NEW p, p = Append(q, x)
    PROVE  /\ p \in Seq(S) /\ Len(q) \in Nat /\ Len(p) = Len(q) + 1
           /\ p[Len(q) + 1] = x /\ \A i \in 1..Len(q) : p[i] = q[i]
BY AppendProperties

\* A sequence without its first element.
LEMMA Tailed ==
    ASSUME NEW S, NEW q \in Seq(S), q # <<>>, NEW p, p = Tail(q)
    PROVE  /\ p \in Seq(S) /\ Len(q) \in Nat \ {0} /\ Len(p) = Len(q) - 1
           /\ q[1] \in S /\ \A i \in 1..Len(p) : p[i] = q[i + 1]
<1>1. Len(q) \in Nat /\ Len(q) # 0
  BY EmptySeq
<1>2. p \in Seq(S) /\ Len(p) = Len(q) - 1 /\ \A i \in 1..Len(p) : p[i] = q[i + 1]
  BY <1>1, HeadTailProperties
<1> QED BY <1>1, <1>2

\* The records before the new one stay what they are.
LEMMA AmongMore ==
    ASSUME NEW S, NEW Q \in Seq(S), NEW x \in S, NEW P, P = Append(Q, x),
           NEW n \in Nat, NEW f, f.nonce \in Nat,
           Among(n, Q, f) \/ (f.nonce = n + Len(Q) /\ f.rec = Record(x))
    PROVE  Among(n, P, f)
<1>1. /\ Len(Q) \in Nat /\ Len(P) = Len(Q) + 1
      /\ P[Len(Q) + 1] = x /\ \A i \in 1..Len(Q) : P[i] = Q[i]
  BY Appended
<1> DEFINE k == f.nonce
           l == Len(Q)
<1>2. k \in Nat /\ l \in Nat
  BY <1>1
<1>3. CASE Among(n, Q, f)
  <2>1. k < n + l /\ (k >= n => f.rec = Record(Q[k - n + 1]))
    BY <1>3 DEF Among
  <2> HIDE DEF k, l
  <2>2. k < n + (l + 1) /\ (k >= n => k - n + 1 \in 1..l)
    BY <1>2, <2>1
  <2>3. k >= n => f.rec = Record(P[k - n + 1])
    BY <1>1, <2>1, <2>2 DEF l
  <2> QED BY <1>1, <2>2, <2>3 DEF Among, k, l
<1>4. CASE k = n + l /\ f.rec = Record(x)
  <2> HIDE DEF k, l
  <2>1. k < n + (l + 1) /\ k - n + 1 = l + 1
    BY <1>2, <1>4
  <2>2. f.rec = Record(P[k - n + 1])
    BY <1>1, <1>4, <2>1 DEF l
  <2> QED BY <1>1, <2>1, <2>2 DEF Among, k, l
<1> QED BY <1>3, <1>4

\* The records after the first are counted from the next nonce.
LEMMA AmongFewer ==
    ASSUME NEW S, NEW Q \in Seq(S), Q # <<>>, NEW P, P = Tail(Q),
           NEW n \in Nat, NEW f, f.nonce \in Nat, Among(n, Q, f)
    PROVE  Among(n + 1, P, f)
<1>1. /\ Len(Q) \in Nat \ {0} /\ Len(P) = Len(Q) - 1 /\ \A i \in 1..Len(P) : P[i] = Q[i + 1]
  BY Tailed
<1> DEFINE k == f.nonce
           l == Len(Q)
<1>2. k \in Nat /\ l \in Nat \ {0}
  BY <1>1
<1>3. k < n + l /\ (k >= n => f.rec = Record(Q[k - n + 1]))
  BY DEF Among
<1> HIDE DEF k, l
<1>4. k < n + 1 + (l - 1)
  BY <1>2, <1>3
<1>5. ASSUME k >= n + 1 PROVE f.rec = Record(P[k - (n + 1) + 1])
  <2>1. /\ k >= n /\ k - (n + 1) + 1 \in 1..(l - 1)
        /\ (k - (n + 1) + 1) + 1 = k - n + 1
    BY <1>2, <1>3, <1>5
  <2>2. P[k - (n + 1) + 1] = Q[k - n + 1]
    BY <1>1, <2>1 DEF l
  <2> QED BY <1>3, <2>1, <2>2
<1> QED BY <1>1, <1>4, <1>5 DEF Among, k, l

\* The complete messages s, and x's if its record is the last of it.
Grown(s, x) == IF IsLast(x) THEN Append(s, x.msg) ELSE s

\* A record is added.
LEMMA CompletesMore ==
    ASSUME NEW M, NEW S, NEW g \in Seq(M), NEW s \in Seq(M), NEW Q \in Seq(S),
           NEW D \in Seq(Nat), Completes(g, s, Q, D),
           NEW x \in S, x.msg \in M, NEW E, E = Append(D, Len(Grown(s, x)))
    PROVE  E \in Seq(Nat) /\ Completes(g, Grown(s, x), Append(Q, x), E)
<1> DEFINE t == Grown(s, x)
           P == Append(Q, x)
<1> DEFINE a == Len(g)
           b == Len(s)
           c == Len(t)
           n == Len(Q)
<1>1. a \in Nat /\ b \in Nat /\ n \in Nat
  OBVIOUS
<1>2. /\ t \in Seq(M) /\ c = b + (IF IsLast(x) THEN 1 ELSE 0)
      /\ IsLast(x) => t[c] = x.msg
      /\ \A i \in 1..b : t[i] = s[i]
  <2>1. CASE IsLast(x)
    BY <2>1, Appended DEF Grown
  <2>2. CASE ~IsLast(x)
    BY <2>2 DEF Grown
  <2> QED BY <2>1, <2>2
<1>3. c \in Nat /\ b <= c
  BY <1>1, <1>2
<1>4. /\ a <= b
      /\ \A i \in 1..a : g[i] = s[i]
      /\ Len(D) = n + 1 /\ D[1] = a /\ D[n + 1] = b
      /\ \A i \in 1..n :
            /\ D[i + 1] <= b
            /\ D[i + 1] = D[i] + (IF IsLast(Q[i]) THEN 1 ELSE 0)
            /\ IsLast(Q[i]) => s[D[i + 1]] = Q[i].msg
  BY DEF Completes
<1>5. Len(P) = n + 1 /\ P[n + 1] = x /\ \A i \in 1..n : P[i] = Q[i]
  BY Appended
<1>6. /\ E \in Seq(Nat) /\ Len(E) = n + 2 /\ E[n + 2] = c
      /\ \A i \in 1..(n + 1) : E[i] = D[i] /\ D[i] \in Nat
  <2>1. /\ E \in Seq(Nat) /\ Len(E) = Len(D) + 1 /\ E[Len(D) + 1] = c
        /\ \A i \in 1..Len(D) : E[i] = D[i]
    BY <1>3, Appended
  <2>2. \A i \in 1..Len(D) : D[i] \in Nat
    OBVIOUS
  <2>3. n + 1 + 1 = n + 2
    BY <1>1
  <2> QED BY <1>4, <2>1, <2>2, <2>3
<1> HIDE DEF a, b, c, n, t, P
<1>7. a <= c /\ \A i \in 1..a : g[i] = t[i]
  <2>1. a <= b /\ a <= c
    BY <1>1, <1>3, <1>4
  <2>2. \A i \in 1..a : i \in 1..b
    BY <1>1, <2>1
  <2> QED BY <1>2, <1>4, <2>1, <2>2
<1>8. E[1] = a /\ E[n + 1 + 1] = c /\ Len(E) = n + 1 + 1
  BY <1>1, <1>4, <1>6
<1>9. ASSUME NEW i \in 1..(n + 1)
      PROVE  /\ E[i + 1] <= c
             /\ E[i + 1] = E[i] + (IF IsLast(P[i]) THEN 1 ELSE 0)
             /\ IsLast(P[i]) => t[E[i + 1]] = P[i].msg
  <2>1. CASE i = n + 1
    <3>1. i + 1 = n + 2
      BY <1>1, <2>1
    <3>2. E[i + 1] = c /\ E[i] = b /\ P[i] = x
      BY <1>4, <1>5, <1>6, <2>1, <3>1
    <3>3. c <= c
      BY <1>3
    <3>4. E[i + 1] = E[i] + (IF IsLast(P[i]) THEN 1 ELSE 0)
      BY <1>2, <3>2
    <3>5. IsLast(P[i]) => t[E[i + 1]] = P[i].msg
      BY <1>2, <3>2
    <3> QED BY <3>2, <3>3, <3>4, <3>5
  <2>2. CASE i # n + 1
    <3>1. i \in 1..n /\ i \in 1..(n + 1) /\ i + 1 \in 1..(n + 1)
      BY <1>1, <2>2
    <3>2. P[i] = Q[i] /\ E[i] = D[i] /\ E[i + 1] = D[i + 1] /\ D[i] \in Nat /\ D[i + 1] \in Nat
      BY <1>5, <1>6, <3>1
    <3>3. /\ D[i + 1] <= b
          /\ D[i + 1] = D[i] + (IF IsLast(Q[i]) THEN 1 ELSE 0)
          /\ IsLast(Q[i]) => s[D[i + 1]] = Q[i].msg
      BY <1>4, <3>1
    <3> DEFINE d == D[i]
               k == D[i + 1]
    <3>4. d \in Nat /\ k \in Nat /\ k <= b /\ (IsLast(Q[i]) => k = d + 1)
      BY <3>2, <3>3
    <3> HIDE DEF d, k
    <3>5. k <= c /\ (IsLast(Q[i]) => k \in 1..b)
      BY <1>1, <1>3, <3>4
    <3>6. IsLast(Q[i]) => t[k] = Q[i].msg
      BY <1>2, <3>3, <3>5 DEF k
    <3> QED BY <3>2, <3>3, <3>5, <3>6 DEF d, k
  <2> QED BY <2>1, <2>2
<1> QED BY <1>5, <1>6, <1>7, <1>8, <1>9 DEF Completes, a, c, n, t, P

\* The first record is taken.
LEMMA CompletesFewer ==
    ASSUME NEW M, NEW S, NEW g \in Seq(M), NEW s \in Seq(M), NEW Q \in Seq(S),
           NEW D \in Seq(Nat), Completes(g, s, Q, D), Q # <<>>, Q[1].msg \in M
    PROVE  Tail(D) \in Seq(Nat) /\ Completes(Grown(g, Q[1]), s, Tail(Q), Tail(D))
<1> DEFINE h == Grown(g, Q[1])
           P == Tail(Q)
           E == Tail(D)
<1> DEFINE a == Len(g)
           b == Len(s)
           c == Len(h)
           n == Len(Q)
<1>1. a \in Nat /\ b \in Nat
  OBVIOUS
<1>2. n \in Nat \ {0} /\ Len(P) = n - 1 /\ \A i \in 1..Len(P) : P[i] = Q[i + 1]
  BY Tailed
<1>3. /\ a <= b
      /\ \A i \in 1..a : g[i] = s[i]
      /\ Len(D) = n + 1 /\ D[1] = a /\ D[n + 1] = b
      /\ \A i \in 1..n :
            /\ D[i + 1] <= b
            /\ D[i + 1] = D[i] + (IF IsLast(Q[i]) THEN 1 ELSE 0)
            /\ IsLast(Q[i]) => s[D[i + 1]] = Q[i].msg
  BY DEF Completes
<1>4. /\ E \in Seq(Nat) /\ Len(E) = n /\ \A i \in 1..n : E[i] = D[i + 1]
  <2>1. D # <<>>
    BY <1>2, <1>3
  <2>2. E \in Seq(Nat) /\ Len(E) = Len(D) - 1 /\ \A i \in 1..Len(E) : E[i] = D[i + 1]
    BY <2>1, Tailed
  <2>3. n + 1 - 1 = n
    BY <1>2
  <2> QED BY <1>3, <2>2, <2>3
<1>5. /\ h \in Seq(M) /\ c = a + (IF IsLast(Q[1]) THEN 1 ELSE 0)
      /\ IsLast(Q[1]) => h[a + 1] = Q[1].msg
      /\ \A i \in 1..a : h[i] = g[i]
  <2>1. CASE IsLast(Q[1])
    BY <2>1, Appended DEF Grown
  <2>2. CASE ~IsLast(Q[1])
    BY <2>2 DEF Grown
  <2> QED BY <2>1, <2>2
<1> HIDE DEF a, b, c, n, h, P, E
<1>6. /\ D[2] <= b /\ D[2] = c
      /\ IsLast(Q[1]) => s[a + 1] = Q[1].msg /\ c = a + 1
  <2>1. 1 \in 1..n /\ 1 + 1 = 2
    BY <1>2
  <2>2. /\ D[2] <= b
        /\ D[2] = D[1] + (IF IsLast(Q[1]) THEN 1 ELSE 0)
        /\ IsLast(Q[1]) => s[D[2]] = Q[1].msg
    BY <1>3, <2>1
  <2>3. D[2] = a + (IF IsLast(Q[1]) THEN 1 ELSE 0)
    BY <1>3, <2>2
  <2> QED BY <1>5, <2>2, <2>3
<1>7. c <= b
  BY <1>6
<1>8. ASSUME NEW i \in 1..c PROVE h[i] = s[i]
  <2>1. CASE IsLast(Q[1])
    <3>1. i \in 1..a \/ i = a + 1
      BY <1>1, <1>6, <2>1
    <3> QED BY <1>3, <1>5, <1>6, <2>1, <3>1
  <2>2. CASE ~IsLast(Q[1])
    <3>1. c = a
      BY <1>1, <1>5, <2>2
    <3> QED BY <1>3, <1>5, <3>1
  <2> QED BY <2>1, <2>2
<1>9. Len(E) = n - 1 + 1 /\ E[1] = c /\ E[n - 1 + 1] = b
  <2>1. n - 1 + 1 = n /\ 1 \in 1..n /\ n \in 1..n /\ 1 + 1 = 2
    BY <1>2
  <2> QED BY <1>3, <1>4, <1>6, <2>1
<1>10. ASSUME NEW i \in 1..(n - 1)
       PROVE  /\ E[i + 1] <= b
              /\ E[i + 1] = E[i] + (IF IsLast(P[i]) THEN 1 ELSE 0)
              /\ IsLast(P[i]) => s[E[i + 1]] = P[i].msg
  <2>1. i \in 1..n /\ i + 1 \in 1..n /\ i \in 1..Len(P)
    BY <1>2
  <2>2. E[i] = D[i + 1] /\ E[i + 1] = D[i + 1 + 1] /\ P[i] = Q[i + 1]
    BY <1>2, <1>4, <2>1
  <2> QED BY <1>3, <2>1, <2>2
<1> QED BY <1>2, <1>4, <1>7, <1>8, <1>9, <1>10 DEF Completes, b, c, n, h, P, E

\* What comes after the records before the new one still does.
LEMMA InTurnKept ==
    ASSUME NEW S, NEW Q \in Seq(S), NEW x \in S, NEW P, P = Append(Q, x),
           NEW i \in 1..(Len(Q) + 1), NEW p, NEW y, InTurn(p, Q, i, y)
    PROVE  InTurn(p, P, i, y)
<1>1. \A j \in 1..(i - 1) : P[j] = Q[j]
  <2>1. Len(Q) \in Nat /\ \A j \in 1..Len(Q) : P[j] = Q[j]
    BY Appended
  <2> QED BY <2>1
<1>2. \A j \in 1..(i - 1) : \A k \in (j + 1)..(i - 1) : P[k] = Q[k]
  BY <1>1
<1> QED BY <1>1, <1>2 DEF InTurn

\* What is of another stream, or follows the new record, comes after it.
LEMMA InTurnMore ==
    ASSUME NEW S, NEW Q \in Seq(S), NEW x \in S, NEW P, P = Append(Q, x), NEW p, NEW y,
           \/ InTurn(p, Q, Len(Q) + 1, y) /\ (y.sid = 0 \/ y.sid # x.sid)
           \/ Follows(x, y)
    PROVE  InTurn(p, P, Len(P) + 1, y)
<1> DEFINE n == Len(Q)
<1>1. n \in Nat /\ P[n + 1] = x /\ (\A j \in 1..n : P[j] = Q[j]) /\ Len(P) = n + 1
  BY Appended
<1>2. Len(P) + 1 - 1 = n + 1 /\ Len(Q) + 1 - 1 = n
  BY <1>1
<1> HIDE DEF n
<1>3. CASE y.sid = 0
  BY <1>3 DEF InTurn
<1>4. CASE (\A j \in 1..n : Q[j].sid # y.sid) /\ Expected(p, y) /\ y.sid # x.sid
  <2>1. ASSUME NEW j \in 1..(n + 1) PROVE P[j].sid # y.sid
    <3>1. j \in 1..n \/ j = n + 1
      BY <1>1
    <3> QED BY <1>1, <1>4, <3>1
  <2> QED BY <1>2, <1>4, <2>1 DEF InTurn
<1>5. CASE /\ y.sid # x.sid
           /\ \E j \in 1..n : Follows(Q[j], y) /\ \A k \in (j + 1)..n : Q[k].sid # y.sid
  <2>1. PICK j \in 1..n : Follows(Q[j], y) /\ \A k \in (j + 1)..n : Q[k].sid # y.sid
    BY <1>5
  <2>2. j \in 1..(n + 1) /\ Follows(P[j], y)
    BY <1>1, <2>1
  <2>3. ASSUME NEW k \in (j + 1)..(n + 1) PROVE P[k].sid # y.sid
    <3>1. k = n + 1 \/ (k \in (j + 1)..n /\ k \in 1..n)
      BY <1>1
    <3> QED BY <1>1, <1>5, <2>1, <3>1
  <2>4. \E i \in 1..(Len(P) + 1 - 1) :
            Follows(P[i], y) /\ \A k \in (i + 1)..(Len(P) + 1 - 1) : P[k].sid # y.sid
    BY <1>2, <2>2, <2>3
  <2> QED BY <2>4 DEF InTurn
<1>6. CASE Follows(x, y)
  <2>1. n + 1 \in 1..(n + 1) /\ (n + 1 + 1)..(n + 1) = {} /\ Follows(P[n + 1], y)
    BY <1>1, <1>6
  <2>2. \E i \in 1..(Len(P) + 1 - 1) :
            Follows(P[i], y) /\ \A k \in (i + 1)..(Len(P) + 1 - 1) : P[k].sid # y.sid
    BY <1>2, <2>1
  <2> QED BY <2>2 DEF InTurn
<1> QED BY <1>2, <1>3, <1>4, <1>5, <1>6 DEF InTurn

\* Once the reader has taken the first record, with the streams p before it and r
\* after it, what came after that one comes first in its stream.
LEMMA InTurnFewer ==
    ASSUME NEW S, NEW Q \in Seq(S), Q # <<>>, NEW P, P = Tail(Q), NEW p, NEW r, NEW y,
           NEW i \in 1..Len(Q), InTurn(p, Q, i + 1, y),
           y.sid # 0 /\ y.sid # Q[1].sid /\ Expected(p, y) => Expected(r, y),
           Follows(Q[1], y) => Expected(r, y)
    PROVE  InTurn(r, P, i, y)
<1> DEFINE n == Len(Q)
<1>1. n \in Nat \ {0} /\ Len(P) = n - 1 /\ \A j \in 1..(n - 1) : P[j] = Q[j + 1]
  BY Tailed
<1>2. i + 1 - 1 = i
  OBVIOUS
<1> HIDE DEF n
<1>7. i \in 1..n
  BY DEF n
<1>3. CASE y.sid = 0
  BY <1>3 DEF InTurn
<1>4. CASE (\A j \in 1..i : Q[j].sid # y.sid) /\ Expected(p, y) /\ y.sid # 0
  <2>1. 1 \in 1..i
    BY <1>7
  <2>2. Expected(r, y)
    BY <1>4, <2>1
  <2>3. ASSUME NEW j \in 1..(i - 1) PROVE P[j].sid # y.sid
    <3>1. j \in 1..(n - 1) /\ j + 1 \in 1..i
      BY <1>1, <1>7
    <3> QED BY <1>1, <1>4, <3>1
  <2> QED BY <2>2, <2>3 DEF InTurn
<1>5. CASE \E j \in 1..i : Follows(Q[j], y) /\ \A k \in (j + 1)..i : Q[k].sid # y.sid
  <2>1. PICK j \in 1..i : Follows(Q[j], y) /\ \A k \in (j + 1)..i : Q[k].sid # y.sid
    BY <1>5
  <2>2. CASE j = 1
    <3>1. Expected(r, y)
      BY <2>1, <2>2
    <3>2. ASSUME NEW k \in 1..(i - 1) PROVE P[k].sid # y.sid
      <4>1. k \in 1..(n - 1) /\ k + 1 \in (j + 1)..i
        BY <1>1, <1>7, <2>2
      <4> QED BY <1>1, <2>1, <4>1
    <3> QED BY <3>1, <3>2 DEF InTurn
  <2>3. CASE j # 1
    <3> DEFINE l == j - 1
    <3>1. l \in 1..(i - 1) /\ l \in 1..(n - 1) /\ l + 1 = j
      BY <1>1, <1>7, <2>3
    <3> HIDE DEF l
    <3>2. Follows(P[l], y)
      BY <1>1, <2>1, <3>1
    <3>3. ASSUME NEW k \in (l + 1)..(i - 1) PROVE P[k].sid # y.sid
      <4>1. k \in 1..(n - 1) /\ k + 1 \in (j + 1)..i
        BY <1>1, <1>7, <3>1
      <4> QED BY <1>1, <2>1, <4>1
    <3> QED BY <3>1, <3>2, <3>3 DEF InTurn
  <2> QED BY <2>2, <2>3
<1> QED BY <1>2, <1>3, <1>4, <1>5 DEF InTurn

-----------------------------------------------------------------------------
(* A record is written *)

\* It is the last of those that are not yet opened.
LEMMA CarriesWrite ==
    ASSUME ConnTypes, HandshakeInv, NEW e \in Ends, NEW w \in Writers(e), WriteRecord(e, w),
           NEW Q \in Seq(Sender(e)), NEW D \in Seq(Nat), Carries(e, Q, D),
           NEW s, s = writer[e][w], NEW P, P = Append(Q, s),
           NEW l, l = Len(sent'[e]), NEW E, E = Append(D, l)
    PROVE  P \in Seq(Sender(e)) /\ E \in Seq(Nat) /\ Carries(e, P, E)'
<1> DEFINE o == Peer(e)
           x == IF IsLast(s) THEN Idle ELSE Advance(s)
           b == expect[o]
           n == Len(Q)
<1>1. /\ s.pc = "sealed" /\ up
      /\ writer' = [writer EXCEPT ![e][w] = x]
      /\ net' = [net EXCEPT ![e] = Append(net[e], Seal(e, s.n, Record(s)))]
      /\ sent' = [sent EXCEPT ![e] = IF IsLast(s) THEN Append(@, s.msg) ELSE @]
      /\ UNCHANGED <<hsVars, nonce, outSeq, readVars, up, faults>>
  BY DEF WriteRecord
<1>2. s \in Sender(e) /\ w \in Sending(e)
  BY <1>1, IdleIs DEF ConnTypes, WriteTypes, Sending
<1>3. x \in {Idle} \cup Sender(e) /\ x.pc # "sealed"
      /\ (x # Idle => x.sid = s.sid /\ Follows(s, x))
  <2>1. CASE IsLast(s)
    BY <2>1, IdleIs
  <2>2. CASE ~IsLast(s)
    BY <1>2, <2>2, AdvanceIs DEF Follows
  <2> QED BY <2>1, <2>2
<1> HIDE DEF x
<1>4. writer'[e][w] = x /\ \A v \in Writers(e) : v # w => writer'[e][v] = writer[e][v]
  <2>1. writer' = [writer EXCEPT ![e][w] = x]
    BY <1>1
  <2> QED BY <2>1, WriterStep, ZenonT(40)
<1>5. P \in Seq(Sender(e)) /\ n \in Nat /\ Len(P) = n + 1
  BY <1>2, Appended
<1>6. o \in Ends /\ b \in Nat /\ got[o] \in Seq(Message)
  BY PeerIs DEF ConnTypes, ReadTypes
<1>7. /\ expect'[o] = b /\ got'[o] = got[o] /\ pending'[o] = pending[o] /\ psk' = psk
      /\ nonce'[e] = nonce[e] /\ outSeq'[e] = outSeq[e]
  BY <1>1 DEF readVars, hsVars
<1>8. s.n = b + n /\ nonce[e] = b + n + 1
      /\ \A v \in Writers(e) : writer[e][v].pc = "sealed" => v = w
  BY <1>1 DEF Carries, SealsInOrder
<1> HIDE DEF b, n
<1>9. SealsInOrder(e, P)'
  <2>1. \A v \in Writers(e) : writer'[e][v].pc # "sealed"
    BY <1>3, <1>4, <1>8
  <2>2. b + (n + 1) = b + n + 1
    BY <1>5, <1>6
  <2>3. nonce'[e] = expect'[o] + Len(P)
    BY <1>5, <1>7, <1>8, <2>2
  <2> QED BY <2>1, <2>3 DEF SealsInOrder
<1>10. FramesGenuine(e, P)'
  <2> DEFINE g == Seal(e, s.n, Record(s))
  <2>1. g \in Frame
    <3>1. Record(s) \in PlainRecord /\ s.n \in Nat
      BY <1>2, RecordIs, SenderIs
    <3> QED BY <3>1, FrameIs DEF ConnTypes, HsTypes
  <2>2. NetTypes /\ net[e] \in Seq(Frame)
    BY DEF ConnTypes, NetTypes
  <2>3. net' = [net EXCEPT ![e] = Append(net[e], g)]
    BY <1>1
  <2>4. g.key = CipherStates(e).send /\ g.nonce = s.n /\ g.rec = Record(s)
    BY DEF Seal
  <2> HIDE DEF g
  <2>5. Range(net'[e]) = Range(net[e]) \cup {g}
    BY <2>1, <2>2, <2>3, FrameSent
  <2>6. \A f \in Range(net[e]) : f \in Frame
    BY <2>2 DEF Range
  <2>7. Hello(e)' = Hello(e) /\ CipherStates(e)' = CipherStates(e)
    BY <1>7 DEF Hello, CipherStates
  <2>8. ASSUME NEW f \in Range(net[e]) PROVE Genuine(e, P, f)'
    <3>1. Genuine(e, Q, f) /\ f.nonce \in Nat
      BY <2>6, <2>8 DEF Carries, FramesGenuine, Frame
    <3>2. Among(b, Q, f) => Among(b, P, f)
      BY <1>2, <1>6, <3>1, AmongMore
    <3> QED BY <1>7, <2>7, <3>1, <3>2 DEF Genuine, b
  <2>9. ASSUME NEW f, f = g PROVE Genuine(e, P, f)'
    <3>1. f.nonce = b + Len(Q) /\ f.nonce \in Nat /\ f.rec = Record(s)
      BY <1>5, <1>6, <1>8, <2>4, <2>9 DEF n
    <3>2. Among(b, P, f)
      BY <1>2, <1>6, <3>1, AmongMore
    <3> QED BY <1>7, <2>4, <2>7, <2>9, <3>2 DEF Genuine
  <2>10. \A f \in Range(net'[e]) : Genuine(e, P, f)'
    BY <2>5, <2>8, <2>9
  <2> QED BY <2>10 DEF FramesGenuine
<1>11. E \in Seq(Nat) /\ CompletesInOrder(e, P, E)'
  <2>1. sent'[e] = Grown(sent[e], s)
    BY <1>1 DEF ConnTypes, WriteTypes, Grown
  <2>2. sent[e] \in Seq(Message) /\ s.msg \in Message
    <3>1. sent[e] \in Seq(Messages(e)) /\ s.msg \in Messages(e)
      BY <1>2, SenderIs DEF ConnTypes, WriteTypes
    <3>2. Messages(e) \subseteq Message
      BY MessagesAre
    <3> QED BY <3>1, <3>2
  <2>3. Completes(got[o], sent[e], Q, D)
    BY DEF Carries, CompletesInOrder
  <2>4. E \in Seq(Nat) /\ Completes(got[o], Grown(sent[e], s), Append(Q, s), E)
    <3>1. E = Append(D, Len(Grown(sent[e], s)))
      BY <2>1
    <3> QED BY <1>2, <1>6, <2>2, <2>3, <3>1, CompletesMore
  <2> QED BY <1>7, <2>1, <2>4 DEF CompletesInOrder
<1>12. StreamsInTurn(e, P)'
  <2> DEFINE p == pending[o]
  <2>1. ASSUME NEW i \in 1..(n + 1) PROVE InTurn(p, P, i, P[i])
    <3>1. CASE i = n + 1
      <4>1. P[i] = s /\ i = Len(Q) + 1
        BY <1>2, <3>1, Appended DEF n
      <4>2. InTurn(p, Q, i, s)
        BY <1>2, <4>1 DEF Carries, StreamsInTurn
      <4>3. i \in 1..(Len(Q) + 1)
        BY DEF n
      <4> QED BY <1>2, <4>1, <4>2, <4>3, InTurnKept
    <3>2. CASE i # n + 1
      <4>1. i \in 1..n
        BY <1>5, <3>2
      <4>2. P[i] = Q[i]
        BY <1>2, <4>1, Appended DEF n
      <4>3. InTurn(p, Q, i, Q[i])
        BY <4>1 DEF Carries, StreamsInTurn, n
      <4>4. i \in 1..(Len(Q) + 1)
        BY DEF n
      <4> QED BY <1>2, <4>2, <4>3, <4>4, InTurnKept
    <3> QED BY <3>1, <3>2
  <2>2. ASSUME NEW v \in Sending(e), v # w PROVE InTurn(p, P, Len(P) + 1, writer[e][v])
    <3>1. InTurn(p, Q, Len(Q) + 1, writer[e][v])
      BY DEF Carries, StreamsInTurn
    <3>2. writer[e][v].sid = 0 \/ writer[e][v].sid # s.sid
      BY <1>2, <2>2 DEF Carries, StreamIDs
    <3> QED BY <1>2, <3>1, <3>2, InTurnMore
  <2>3. x # Idle => InTurn(p, P, Len(P) + 1, x)
    BY <1>2, <1>3, InTurnMore
  <2>4. \A v \in Sending(e)' : InTurn(p, P, Len(P) + 1, writer'[e][v])
    BY <1>4, <2>2, <2>3 DEF Sending
  <2> QED BY <1>5, <1>7, <2>1, <2>4 DEF StreamsInTurn
<1>13. StreamIDs(e, P)'
  <2>1. \A v \in Sending(e)' : v \in Sending(e) /\ writer'[e][v].sid = writer[e][v].sid
    BY <1>2, <1>3, <1>4 DEF Sending
  <2>2. s.sid <= outSeq[e]
    BY <1>2 DEF Carries, StreamIDs
  <2>3. \A i \in 1..Len(P) : P[i].sid <= outSeq[e]
    <3>1. ASSUME NEW i \in 1..Len(P) PROVE P[i].sid <= outSeq[e]
      <4>1. (i = n + 1 /\ P[i] = s) \/ (i \in 1..n /\ P[i] = Q[i])
        <5>1. i = n + 1 \/ i \in 1..n
          BY <1>5
        <5>2. P[n + 1] = s /\ \A j \in 1..n : P[j] = Q[j]
          BY <1>2, Appended DEF n
        <5> QED BY <5>1, <5>2
      <4> QED BY <2>2, <4>1 DEF Carries, StreamIDs, n
    <3> QED BY <3>1
  <2> QED BY <1>7, <2>1, <2>3 DEF Carries, StreamIDs
<1>14. hs'[e] = "up"
  <2>1. hs[e] = "up"
    BY <1>2 DEF HandshakeInv, Sending
  <2> QED BY <1>1, <2>1 DEF hsVars
<1> QED BY <1>5, <1>9, <1>10, <1>11, <1>12, <1>13, <1>14 DEF Carries

-----------------------------------------------------------------------------
(* A record is read *)

\* A frame that opens holds the first record, and the reader can make sense of it.
LEMMA OpenedIs ==
    ASSUME ConnTypes, NEW e \in Ends, Takes(Peer(e)), Opens(Peer(e), Arrived(Peer(e))),
           NEW Q \in Seq(Sender(e)), NEW D, Carries(e, Q, D)
    PROVE  /\ Q # <<>> /\ Q[1] \in Sender(e) /\ Arrived(Peer(e)).rec = Record(Q[1])
           /\ Q[1].sid = 0 \/ Expected(pending[Peer(e)], Q[1])
<1> DEFINE o == Peer(e)
           f == Arrived(o)
           n == expect[o]
           l == Len(Q)
<1>1. o \in Ends /\ Peer(o) = e
  BY PeerIs
<1>2. f \in Frame /\ f \in Range(net[e])
  BY <1>1, TakesIs
<1>3. f.key = CipherStates(o).recv /\ f.nonce = n
  BY DEF Opens
<1>4. Genuine(e, Q, f)
  BY <1>2 DEF Carries, FramesGenuine
<1>5. f.key \in {<<psk[o], "cs0">>, <<psk[o], "cs1">>}
  BY <1>3 DEF CipherStates
<1>6. f # Hello(e)
  <2>1. Hello(e).key = <<psk[e], e>>
    BY DEF Hello
  <2> QED BY <1>5, <2>1 DEF Ends
<1>7. f # Garbage
  BY <1>5 DEF Garbage
<1>8. Among(n, Q, f)
  BY <1>4, <1>6, <1>7 DEF Genuine
<1>15. n \in Nat
  BY <1>1 DEF ConnTypes, ReadTypes
<1>9. n \in Nat /\ l \in Nat
  BY <1>15
<1>10. n < n + l /\ (n >= n => f.rec = Record(Q[n - n + 1]))
  BY <1>3, <1>8 DEF Among
<1> HIDE DEF n, l, f
<1>11. l > 0 /\ n >= n /\ n - n + 1 = 1
  BY <1>9, <1>10
<1>12. Q # <<>> /\ 1 \in 1..Len(Q) /\ Q[1] \in Sender(e)
  BY <1>9, <1>11 DEF l
<1>13. InTurn(pending[o], Q, 1, Q[1])
  BY <1>12 DEF Carries, StreamsInTurn
<1>14. Q[1].sid = 0 \/ Expected(pending[o], Q[1])
  BY <1>13 DEF InTurn
<1> QED BY <1>10, <1>11, <1>12, <1>14 DEF f

\* With q's record, a reader that had the streams p has the streams r: the others
\* are as they were, and that of q goes on with what follows q.
GoesOn(e, p, q, r) ==
    /\ \A y \in Sender(e) :
        /\ y.sid # 0 /\ y.sid # q.sid /\ Expected(p, y) => Expected(r, y)
        /\ Follows(q, y) => Expected(r, y)
    /\ DOMAIN r \subseteq DOMAIN p \cup ({q.sid} \ {0})

\* An envelope without content is the message, and another one starts a stream.
LEMMA EnvelopeRead ==
    ASSUME ConnTypes, NEW e \in Ends, ReadEnvelope(Peer(e)),
           NEW q \in Sender(e), Arrived(Peer(e)).rec = Record(q)
    PROVE  /\ got'[Peer(e)] = Grown(got[Peer(e)], q)
           /\ GoesOn(e, pending[Peer(e)], q, pending'[Peer(e)])
<1> DEFINE o == Peer(e)
           rec == Arrived(o).rec
           p == pending[o]
           r == pending'[o]
<1>1. o \in Ends /\ ReadTypes /\ got[o] \in Seq(Message)
  BY PeerIs DEF ConnTypes, ReadTypes
<1>2. rec.tag = "envelope"
  BY DEF ReadEnvelope, Reads
<1>3. /\ q.part = "envelope" /\ rec.sid = q.sid /\ rec.type = q.msg.type
      /\ IsLast(q) <=> q.sid = 0
      /\ q.rest = IF HasContent(q.msg) THEN q.msg.content ELSE <<>>
      /\ q.sid = 0 <=> ~HasContent(q.msg)
      /\ q.msg \in Messages(e) /\ q.rest \in Seq(Bytes)
  <2>1. q.part = "envelope" /\ rec.sid = q.sid /\ rec.type = q.msg.type
    BY <1>2, RecordIs, SenderIs
  <2> QED BY <2>1, SenderIs DEF IsLast
<1>4. /\ rec.sid = 0 =>
            /\ got' = [got EXCEPT ![o] = Append(@, [type |-> rec.type])]
            /\ pending' = pending
      /\ rec.sid # 0 =>
            /\ got' = got
            /\ DOMAIN r = DOMAIN p \cup {rec.sid}
            /\ r[rec.sid] = [type |-> rec.type, content |-> <<>>]
            /\ \A s \in DOMAIN p : s # rec.sid => r[s] = p[s]
      /\ rec.type \in STRING
  BY <1>1, ReadEnvelopeIs
<1> HIDE DEF rec
<1>5. CASE q.sid = 0
  <2>1. q.msg = [type |-> rec.type] /\ q.msg \in Message
    BY <1>3, <1>5, MessagesAre
  <2>2. got' = [got EXCEPT ![o] = Append(@, q.msg)]
    BY <1>3, <1>4, <1>5, <2>1
  <2>3. got'[o] = Append(got[o], q.msg)
    BY <1>1, <2>1, <2>2, GotIs
  <2>4. got'[o] = Grown(got[o], q)
    BY <1>3, <1>5, <2>3 DEF Grown
  <2>5. r = p /\ \A y : ~Follows(q, y)
    BY <1>3, <1>4, <1>5 DEF Follows
  <2> QED BY <2>4, <2>5 DEF GoesOn
<1>6. CASE q.sid # 0
  <2>1. got'[o] = Grown(got[o], q)
    BY <1>3, <1>4, <1>6 DEF Grown
  <2>2. /\ DOMAIN r = DOMAIN p \cup {q.sid}
        /\ r[q.sid].type = q.msg.type /\ r[q.sid].content = <<>>
        /\ \A s \in DOMAIN p : s # q.sid => r[s] = p[s]
    BY <1>3, <1>4, <1>6
  <2> HIDE DEF r, p
  <2>3. ASSUME NEW y, y.sid # q.sid, Expected(p, y) PROVE Expected(r, y)
    BY <2>2, <2>3 DEF Expected
  <2>4. ASSUME NEW y, Follows(q, y) PROVE Expected(r, y)
    <3>1. ~IsLast(q) /\ y.msg = q.msg /\ y.sid = q.sid /\ y.part = "chunk" /\ y.rest = q.rest
      BY <1>3, <2>4, AdvanceIs DEF Follows
    <3>2. y.rest = q.msg.content /\ <<>> \o y.rest = y.rest
      BY <1>3, <1>6, <3>1
    <3>3. r[y.sid].content \o y.rest = y.msg.content
      BY <2>2, <3>1, <3>2
    <3> QED BY <2>2, <3>1, <3>3 DEF Expected
  <2> QED BY <1>6, <2>1, <2>2, <2>3, <2>4 DEF GoesOn, r, p
<1> QED BY <1>5, <1>6

\* A chunk adds to its stream, and the final one completes the message.
LEMMA ChunkRead ==
    ASSUME ConnTypes, NEW e \in Ends, ReadChunk(Peer(e)),
           NEW q \in Sender(e), Arrived(Peer(e)).rec = Record(q),
           q.sid = 0 \/ Expected(pending[Peer(e)], q)
    PROVE  /\ got'[Peer(e)] = Grown(got[Peer(e)], q)
           /\ GoesOn(e, pending[Peer(e)], q, pending'[Peer(e)])
<1> DEFINE o == Peer(e)
           rec == Arrived(o).rec
           p == pending[o]
           r == pending'[o]
           c == p[q.sid].content
           n == Len(q.rest)
<1>1. o \in Ends /\ ReadTypes /\ got[o] \in Seq(Message)
  BY PeerIs DEF ConnTypes, ReadTypes
<1>2. rec.tag = "chunk"
  BY DEF ReadChunk, Reads
<1>3. /\ q.part = "chunk" /\ rec.sid = q.sid /\ q.sid # 0
      /\ rec.final <=> IsLast(q)
      /\ rec.payload = SubSeq(q.rest, 1, IF IsLast(q) THEN n ELSE ChunkSize)
      /\ IsLast(q) <=> n <= ChunkSize
      /\ HasContent(q.msg) /\ q.msg \in Messages(e) /\ q.rest \in Seq(Bytes) /\ n \in Nat
  <2>1. /\ q.part = "chunk" /\ rec.sid = q.sid
        /\ rec.final <=> IsLast(q)
        /\ rec.payload = SubSeq(q.rest, 1, IF IsLast(q) THEN n ELSE ChunkSize)
    BY <1>2, RecordIs, SenderIs
  <2> QED BY <2>1, SenderIs DEF IsLast
<1>4. /\ q.sid \in DOMAIN p /\ p[q.sid].type = q.msg.type
      /\ c \o q.rest = q.msg.content
  BY <1>3 DEF Expected
<1>5. /\ rec.payload \in Seq(Bytes)
      /\ rec.final => /\ got' = [got EXCEPT ![o] = Append(@, Extended(o, rec))]
                      /\ DOMAIN r = DOMAIN p \ {rec.sid}
      /\ ~rec.final => /\ got' = got
                       /\ DOMAIN r = DOMAIN p
                       /\ r[rec.sid] = Extended(o, rec)
      /\ \A s \in DOMAIN p : s # rec.sid => r[s] = p[s]
  BY <1>1, ReadChunkIs
<1>6. /\ Extended(o, rec) \in Stream /\ p[q.sid] \in Stream
      /\ Extended(o, rec) = [type |-> q.msg.type, content |-> c \o rec.payload]
  <2>1. rec.sid \in DOMAIN pending[o]
    BY <1>3, <1>4
  <2>2. /\ Extended(o, rec) \in Stream /\ pending[o][rec.sid] \in Stream
        /\ Extended(o, rec) = [type |-> pending[o][rec.sid].type,
                               content |-> pending[o][rec.sid].content \o rec.payload]
    BY <1>1, <1>5, <2>1, ExtendedIs
  <2> QED BY <1>3, <1>4, <2>2
<1>7. c \in Seq(Bytes)
  BY <1>6 DEF Stream
<1> HIDE DEF rec, p, r, c
<1>8. ASSUME NEW y, y.sid # q.sid, Expected(p, y) PROVE Expected(r, y)
  <2>1. DOMAIN r = DOMAIN p \/ DOMAIN r = DOMAIN p \ {q.sid}
    BY <1>3, <1>5
  <2>2. \A s \in DOMAIN p : s # q.sid => r[s] = p[s]
    BY <1>3, <1>5
  <2> QED BY <1>8, <2>1, <2>2 DEF Expected
<1>9. CASE IsLast(q)
  <2>1. rec.payload = q.rest
    <3>1. SubSeq(q.rest, 1, n) = q.rest
      BY <1>3, SubSeqFull
    <3> QED BY <1>3, <1>9, <3>1
  <2>2. q.msg \in [type : STRING, content : Seq(Bytes)]
    BY <1>3, MessagesAre
  <2>3. q.msg = [type |-> q.msg.type, content |-> q.msg.content]
    BY <2>2
  <2>4. Extended(o, rec) = q.msg
    BY <1>4, <1>6, <2>1, <2>3
  <2>5. q.msg \in Message
    BY <1>3, MessagesAre
  <2>6. got' = [got EXCEPT ![o] = Append(@, q.msg)]
    BY <1>3, <1>5, <1>9, <2>4
  <2>7. got'[o] = Append(got[o], q.msg)
    BY <1>1, <2>5, <2>6, GotIs
  <2>8. got'[o] = Grown(got[o], q)
    BY <1>9, <2>7 DEF Grown
  <2>9. DOMAIN r \subseteq DOMAIN p /\ \A y : ~Follows(q, y)
    BY <1>3, <1>5, <1>9 DEF Follows
  <2> QED BY <1>8, <2>8, <2>9 DEF GoesOn, p, r
<1>10. CASE ~IsLast(q)
  <2>1. got'[o] = Grown(got[o], q)
    BY <1>3, <1>5, <1>10 DEF Grown
  <2> DEFINE a == SubSeq(q.rest, 1, ChunkSize)
             b == SubSeq(q.rest, ChunkSize + 1, n)
  <2>2. a \o b = q.rest /\ a \in Seq(Bytes) /\ b \in Seq(Bytes)
    <3>1. ChunkSize \in Nat \ {0} /\ ChunkSize < n
      BY <1>3, <1>10, ConnAssumption
    <3>2. a \in Seq(Bytes) /\ b \in Seq(Bytes)
      BY <1>3, <3>1, SectionType
    <3>3. a \o b = SubSeq(q.rest, 1, n)
      <4>1. 1 \in 1..Len(q.rest) + 1 /\ ChunkSize \in 1..Len(q.rest)
        BY <1>3, <3>1
      <4> QED BY <1>3, <3>1, <4>1, ConcatAdjacentSubSeq
    <3> QED BY <1>3, <3>2, <3>3, SubSeqFull
  <2>3. rec.payload = a
    BY <1>3, <1>10
  <2> HIDE DEF a
  <2>4. /\ DOMAIN r = DOMAIN p
        /\ r[q.sid].type = q.msg.type /\ r[q.sid].content = c \o a
    <3>1. DOMAIN r = DOMAIN p /\ r[q.sid] = Extended(o, rec)
      BY <1>3, <1>5, <1>10
    <3>2. Extended(o, rec) = [type |-> q.msg.type, content |-> c \o a]
      BY <1>6, <2>3
    <3> QED BY <3>1, <3>2
  <2>5. ASSUME NEW y, Follows(q, y) PROVE Expected(r, y)
    <3>1. y.msg = q.msg /\ y.sid = q.sid /\ y.part = "chunk" /\ y.rest = b
      BY <1>3, <2>5, AdvanceIs DEF Follows
    <3> HIDE DEF b
    <3>4. a \in Seq(Bytes) /\ b \in Seq(Bytes) /\ c \in Seq(Bytes)
      BY <1>7, <2>2
    <3>5. \A s, t, u \in Seq(Bytes) : (s \o t) \o u = s \o (t \o u)
      BY ConcatAssociative
    <3>2. (c \o a) \o b = c \o (a \o b)
      BY <3>4, <3>5
    <3>3. r[y.sid].content \o y.rest = y.msg.content
      BY <1>4, <2>2, <2>4, <3>1, <3>2
    <3> QED BY <1>4, <2>4, <3>1, <3>3 DEF Expected
  <2> QED BY <1>8, <2>1, <2>4, <2>5 DEF GoesOn, p, r
<1> QED BY <1>9, <1>10

\* The first of the records is taken, and the others stay.
LEMMA CarriesRead ==
    ASSUME ConnTypes, NEW e \in Ends, ReadEnvelope(Peer(e)) \/ ReadChunk(Peer(e)),
           NEW Q \in Seq(Sender(e)), NEW D \in Seq(Nat), Carries(e, Q, D),
           NEW P, P = Tail(Q), NEW E, E = Tail(D)
    PROVE  /\ Q # <<>> /\ P \in Seq(Sender(e)) /\ E \in Seq(Nat) /\ Carries(e, P, E)'
           /\ expect'[Peer(e)] = expect[Peer(e)] + 1
<1> DEFINE o == Peer(e)
           q == Q[1]
           p == pending[o]
           r == pending'[o]
           n == expect[o]
           l == Len(Q)
<1>1. o \in Ends /\ Peer(o) = e
  BY PeerIs
<1>2. /\ Takes(o) /\ Opens(o, Arrived(o)) /\ expect' = [expect EXCEPT ![o] = @ + 1]
      /\ UNCHANGED <<hsVars, writeVars, up, faults>>
  BY DEF ReadEnvelope, ReadChunk, Reads, Takes
<1>3. /\ Q # <<>> /\ q \in Sender(e) /\ Arrived(o).rec = Record(q)
      /\ q.sid = 0 \/ Expected(p, q)
  BY <1>2, OpenedIs
<1>4. /\ got'[o] = Grown(got[o], q)
      /\ GoesOn(e, p, q, r)
  BY <1>3, EnvelopeRead, ChunkRead
<1>5. /\ P \in Seq(Sender(e)) /\ l \in Nat \ {0} /\ Len(P) = l - 1
      /\ \A i \in 1..Len(P) : P[i] = Q[i + 1]
  BY <1>3, Tailed
<1>6. expect'[o] = n + 1 /\ n \in Nat
  <2>1. ReadTypes
    BY DEF ConnTypes
  <2>2. expect'[o] = n + 1
    BY <1>1, <1>2, <2>1, CountIs
  <2>3. n \in Nat
    BY <1>1, <2>1 DEF ReadTypes
  <2> QED BY <2>2, <2>3
<1>7. psk' = psk /\ writer' = writer /\ nonce' = nonce /\ outSeq' = outSeq /\ sent' = sent
      /\ hs' = hs /\ up' = up
  BY <1>2 DEF hsVars, writeVars
<1>8. /\ Range(net'[e]) \subseteq Range(net[e])
      /\ \A f \in Range(net[e]) : f.nonce \in Nat
  <2>1. Range(net'[e]) \subseteq Range(net[e])
    BY <1>1, <1>2, TakesIs
  <2>2. net[e] \in Seq(Frame)
    BY DEF ConnTypes, NetTypes
  <2>3. \A f \in Range(net[e]) : f \in Frame
    BY <2>2 DEF Range
  <2>4. \A f \in Frame : f.nonce \in Nat
    BY DEF Frame
  <2> QED BY <2>1, <2>3, <2>4
<1> HIDE DEF n, l, p, r, q
<1>9. SealsInOrder(e, P)'
  <2>1. n + 1 + (l - 1) = n + l
    BY <1>5, <1>6
  <2>2. expect'[o] + Len(P) = expect[o] + Len(Q)
    BY <1>5, <1>6, <2>1 DEF n, l
  <2> QED BY <1>7, <2>2 DEF Carries, SealsInOrder
<1>10. FramesGenuine(e, P)'
  <2>1. Hello(e)' = Hello(e) /\ CipherStates(e)' = CipherStates(e)
    BY <1>7 DEF Hello, CipherStates
  <2>2. ASSUME NEW f \in Range(net[e]) PROVE Genuine(e, P, f)'
    <3>1. Genuine(e, Q, f) /\ f.nonce \in Nat
      BY <1>8, <2>2 DEF Carries, FramesGenuine
    <3>2. Among(n, Q, f) => Among(n + 1, P, f)
      BY <1>3, <1>6, <3>1, AmongFewer
    <3> QED BY <1>6, <2>1, <3>1, <3>2 DEF Genuine, n
  <2> QED BY <1>8, <2>2 DEF FramesGenuine
<1>11. E \in Seq(Nat) /\ CompletesInOrder(e, P, E)'
  <2>1. got[o] \in Seq(Message) /\ sent[e] \in Seq(Message) /\ q.msg \in Message
    <3>1. sent[e] \in Seq(Messages(e)) /\ q.msg \in Messages(e)
      BY <1>3, SenderIs DEF ConnTypes, WriteTypes
    <3>2. Messages(e) \subseteq Message
      BY MessagesAre
    <3>3. got[o] \in Seq(Message)
      BY <1>1 DEF ConnTypes, ReadTypes
    <3> QED BY <3>1, <3>2, <3>3
  <2>2. Completes(got[o], sent[e], Q, D)
    BY DEF Carries, CompletesInOrder
  <2>3. Tail(D) \in Seq(Nat) /\ Completes(Grown(got[o], Q[1]), sent[e], Tail(Q), Tail(D))
    BY <1>3, <2>1, <2>2, CompletesFewer DEF q
  <2> QED BY <1>4, <1>7, <2>3 DEF CompletesInOrder, q
<1>12. StreamsInTurn(e, P)'
  <2>1. ASSUME NEW i \in 1..l, NEW y \in Sender(e), InTurn(p, Q, i + 1, y)
        PROVE  InTurn(r, P, i, y)
    <3>1. y.sid # 0 /\ y.sid # Q[1].sid /\ Expected(p, y) => Expected(r, y)
      BY <1>4 DEF GoesOn, q
    <3>2. Follows(Q[1], y) => Expected(r, y)
      BY <1>4 DEF GoesOn, q
    <3>3. i \in 1..Len(Q)
      BY DEF l
    <3> QED BY <1>3, <2>1, <3>1, <3>2, <3>3, InTurnFewer
  <2>2. ASSUME NEW i \in 1..Len(P) PROVE InTurn(r, P, i, P[i])
    <3>1. i \in 1..l /\ i + 1 \in 1..Len(Q)
      BY <1>5 DEF l
    <3>2. P[i] = Q[i + 1] /\ Q[i + 1] \in Sender(e)
      BY <1>5, <3>1
    <3>3. InTurn(p, Q, i + 1, Q[i + 1])
      BY <3>1 DEF Carries, StreamsInTurn, p
    <3> QED BY <2>1, <3>1, <3>2, <3>3
  <2>3. ASSUME NEW w \in Sending(e) PROVE InTurn(r, P, Len(P) + 1, writer[e][w])
    <3>1. writer[e][w] \in Sender(e)
      BY DEF Sending, ConnTypes, WriteTypes
    <3>2. InTurn(p, Q, Len(Q) + 1, writer[e][w])
      BY DEF Carries, StreamsInTurn, p
    <3>3. l \in 1..l /\ Len(P) + 1 = l
      BY <1>5
    <3>4. InTurn(r, P, l, writer[e][w])
      BY <2>1, <3>1, <3>2, <3>3 DEF l
    <3> QED BY <3>3, <3>4
  <2>4. Sending(e)' = Sending(e)
    BY <1>7 DEF Sending
  <2> QED BY <1>7, <2>2, <2>3, <2>4 DEF StreamsInTurn, r
<1>13. StreamIDs(e, P)'
  <2>1. \A i \in 1..Len(P) : P[i].sid <= outSeq[e]
    <3>1. \A i \in 1..Len(P) : i + 1 \in 1..Len(Q)
      BY <1>5 DEF l
    <3> QED BY <1>5, <3>1 DEF Carries, StreamIDs
  <2>2. \A s \in DOMAIN r : s \in 1..outSeq[e]
    <3>1. q.sid \in Nat /\ q.sid <= outSeq[e] /\ outSeq[e] \in Nat
      <4>1. 1 \in 1..Len(Q)
        BY <1>5 DEF l
      <4>2. Q[1].sid <= outSeq[e]
        BY <4>1 DEF Carries, StreamIDs
      <4>3. outSeq[e] \in Nat
        BY DEF ConnTypes, WriteTypes
      <4> QED BY <1>3, <4>2, <4>3, SenderIs DEF q
    <3>2. \A s \in DOMAIN p : s \in 1..outSeq[e]
      BY DEF Carries, StreamIDs, p
    <3>3. q.sid # 0 => q.sid \in 1..outSeq[e]
      BY <3>1
    <3> QED BY <1>4, <3>2, <3>3 DEF GoesOn
  <2>3. Sending(e)' = Sending(e)
    BY <1>7 DEF Sending
  <2> QED BY <1>7, <2>1, <2>2, <2>3 DEF Carries, StreamIDs, r
<1>14. hs'[e] = "up"
  BY <1>3, <1>7 DEF Carries
<1> QED BY <1>3, <1>5, <1>6, <1>9, <1>10, <1>11, <1>12, <1>13, <1>14 DEF Carries, n

-----------------------------------------------------------------------------
(* The frames under way, with no fault of the network *)

\* The frame of the i-th record, and what it is one of.
FrameOf(k, n, Q, i) == [key |-> k, nonce |-> n + i - 1, rec |-> Record(Q[i])]

Framings(k, S) == [key : {k}, nonce : Nat, rec : {Record(x) : x \in S}]

\* A frame for each record.
LEMMA FramesAre ==
    ASSUME NEW S, NEW Q \in Seq(S), NEW k, NEW n \in Nat
    PROVE  LET F == Frames(k, n, Q)
           IN  /\ F \in Seq(Framings(k, S))
               /\ Len(F) = Len(Q)
               /\ \A i \in 1..Len(Q) :
                    F[i] = FrameOf(k, n, Q, i)
<1> DEFINE T == Framings(k, S)
           F == Frames(k, n, Q)
           l == Len(Q)
<1>1. l \in Nat
  OBVIOUS
<1>2. ASSUME NEW i \in 1..l
      PROVE  FrameOf(k, n, Q, i) \in T
  <2>1. Q[i] \in S
    OBVIOUS
  <2>2. n + i - 1 \in Nat
    BY <1>1, <1>2
  <2> QED BY <2>1, <2>2 DEF FrameOf, Framings
<1> HIDE DEF T, l
<1>3. F = [i \in 1..l |-> FrameOf(k, n, Q, i)]
  BY DEF Frames, FrameOf, l
<1> HIDE DEF F
<1>4. F \in [1..l -> T] /\ \A i \in 1..l :
            F[i] = FrameOf(k, n, Q, i)
  BY <1>2, <1>3
<1>5. F \in Seq(T) /\ Len(F) = l
  BY <1>1, <1>4
<1> QED BY <1>4, <1>5 DEF F, T, l

\* A record more is a frame more.
LEMMA FramesMore ==
    ASSUME NEW S, NEW Q \in Seq(S), NEW k, NEW n \in Nat, NEW x \in S
    PROVE  Frames(k, n, Append(Q, x)) =
                Append(Frames(k, n, Q), [key |-> k, nonce |-> n + Len(Q), rec |-> Record(x)])
<1> DEFINE T == Framings(k, S)
           P == Append(Q, x)
           F == Frames(k, n, Q)
           G == Frames(k, n, P)
           f == [key |-> k, nonce |-> n + Len(Q), rec |-> Record(x)]
           l == Len(Q)
<1>1. /\ P \in Seq(S) /\ l \in Nat /\ Len(P) = l + 1 /\ P[l + 1] = x
      /\ \A i \in 1..l : P[i] = Q[i]
  BY Appended
<1>2. /\ F \in Seq(T) /\ Len(F) = l
      /\ \A i \in 1..l : F[i] = FrameOf(k, n, Q, i)
  BY FramesAre
<1> HIDE DEF P
<1>3. /\ G \in Seq(T) /\ Len(G) = l + 1
      /\ \A i \in 1..(l + 1) : G[i] = FrameOf(k, n, P, i)
  BY <1>1, FramesAre
<1>4. f \in T
  <2>1. n + Len(Q) \in Nat
    OBVIOUS
  <2> QED BY <2>1 DEF Framings
<1>5. f = [key |-> k, nonce |-> n + l, rec |-> Record(x)]
  OBVIOUS
<1> HIDE DEF F, G, T, f, l
<1>6. Append(F, f) \in Seq(T) /\ Len(Append(F, f)) = l + 1 /\ Append(F, f)[l + 1] = f
      /\ \A i \in 1..l : Append(F, f)[i] = F[i]
  BY <1>2, <1>4, Appended
<1>7. ASSUME NEW i \in 1..(l + 1) PROVE G[i] = Append(F, f)[i]
  <2>1. CASE i = l + 1
    <3>1. n + i - 1 = n + l
      BY <1>1, <2>1
    <3>2. G[i] = FrameOf(k, n, P, i)
      BY <1>3
    <3> QED BY <1>1, <1>5, <1>6, <2>1, <3>1, <3>2 DEF FrameOf
  <2>2. CASE i # l + 1
    <3>1. i \in 1..l
      BY <1>1, <2>2
    <3> QED BY <1>1, <1>2, <1>3, <1>6, <3>1 DEF FrameOf
  <2> QED BY <2>1, <2>2
<1>8. G = Append(F, f)
  BY <1>3, <1>6, <1>7, SeqEqual
<1> QED BY <1>8 DEF F, G, P, f

\* The first record is in the first frame, the others in the others.
LEMMA FramesFewer ==
    ASSUME NEW S, NEW Q \in Seq(S), Q # <<>>, NEW k, NEW n \in Nat
    PROVE  /\ Head(Frames(k, n, Q)) = [key |-> k, nonce |-> n, rec |-> Record(Q[1])]
           /\ Frames(k, n, Q) # <<>>
           /\ Tail(Frames(k, n, Q)) = Frames(k, n + 1, Tail(Q))
<1> DEFINE T == Framings(k, S)
           P == Tail(Q)
           F == Frames(k, n, Q)
           G == Frames(k, n + 1, P)
           l == Len(Q)
<1>1. /\ P \in Seq(S) /\ l \in Nat \ {0} /\ Len(P) = l - 1
      /\ \A i \in 1..(l - 1) : P[i] = Q[i + 1]
  BY Tailed
<1>2. /\ F \in Seq(T) /\ Len(F) = l
      /\ \A i \in 1..l : F[i] = FrameOf(k, n, Q, i)
  BY FramesAre
<1>3. n + 1 \in Nat
  OBVIOUS
<1> HIDE DEF P
<1>4. /\ G \in Seq(T) /\ Len(G) = l - 1
      /\ \A i \in 1..(l - 1) :
            G[i] = FrameOf(k, n + 1, P, i)
  BY <1>1, <1>3, FramesAre
<1> HIDE DEF F, G, T, l
<1>5. F # <<>> /\ Head(F) = F[1]
  BY <1>1, <1>2
<1>6. F[1] = [key |-> k, nonce |-> n, rec |-> Record(Q[1])]
  <2>1. 1 \in 1..l /\ n + 1 - 1 = n
    BY <1>1
  <2> QED BY <1>2, <2>1 DEF FrameOf
<1>7. Tail(F) \in Seq(T) /\ Len(Tail(F)) = l - 1 /\ \A i \in 1..(l - 1) : Tail(F)[i] = F[i + 1]
  BY <1>2, <1>5, Tailed
<1>8. ASSUME NEW i \in 1..(l - 1) PROVE G[i] = Tail(F)[i]
  <2>1. i + 1 \in 1..l /\ n + 1 + i - 1 = n + (i + 1) - 1
    BY <1>1
  <2> QED BY <1>1, <1>2, <1>4, <1>7, <2>1, SMTT(30) DEF FrameOf
<1>9. G = Tail(F)
  BY <1>4, <1>7, <1>8, SeqEqual
<1> QED BY <1>5, <1>6, <1>9 DEF F, G, P

\* Nothing of them changes.
LEMMA UntouchedRest ==
    ASSUME NEW e \in Ends, NEW Q, Untouched(e, Q), psk' = psk, faults' = faults,
           net'[e] = net[e], expect'[Peer(e)] = expect[Peer(e)],
           \A d \in Ends : hs'[d] = hs[d] \/ hs'[d] = "failed"
    PROVE  Untouched(e, Q)'
<1>1. Hello(e)' = Hello(e) /\ CipherStates(e)' = CipherStates(e)
  BY DEF Hello, CipherStates
<1>2. /\ hs'[Peer(e)] = "up" => hs[Peer(e)] = "up"
      /\ hs'["client"] = "wait" => hs["client"] = "wait"
      /\ hs'["server"] = "up" => hs["server"] = "up"
      /\ hs'["server"] = "wait" => hs["server"] = "wait"
  BY PeerIs DEF Ends
<1> QED BY <1>1, <1>2 DEF Untouched, CipherStates

\* A record is written.
LEMMA UntouchedWrite ==
    ASSUME ConnTypes, HandshakeInv, NEW e \in Ends, NEW w \in Writers(e), WriteRecord(e, w),
           NEW Q \in Seq(Sender(e)), NEW D, Carries(e, Q, D), Untouched(e, Q),
           NEW s, s = writer[e][w]
    PROVE  Untouched(e, Append(Q, s))'
<1> DEFINE o == Peer(e)
           k == CipherStates(e).send
           n == expect[o]
           F == Frames(k, n, Q)
           f == [key |-> k, nonce |-> n + Len(Q), rec |-> Record(s)]
<1>1. /\ s.pc = "sealed" /\ up
      /\ net' = [net EXCEPT ![e] = Append(net[e], Seal(e, s.n, Record(s)))]
      /\ UNCHANGED <<hsVars, nonce, outSeq, readVars, up, faults>>
  BY DEF WriteRecord
<1>2. s \in Sender(e) /\ hs[e] = "up"
  BY <1>1, IdleIs DEF ConnTypes, WriteTypes, HandshakeInv
<1>3. s.n = n + Len(Q)
  BY <1>1 DEF Carries, SealsInOrder
<1>4. n \in Nat
  BY PeerIs DEF ConnTypes, ReadTypes
<1>5. net'[e] = Append(net[e], f)
  <2>1. net \in [Ends -> Seq(Frame)]
    BY DEF ConnTypes, NetTypes
  <2>2. Seal(e, s.n, Record(s)) = f
    BY <1>3 DEF Seal
  <2> QED BY <1>1, <2>1, <2>2
<1>6. Frames(k, n, Append(Q, s)) = Append(F, f)
  BY <1>2, <1>4, FramesMore
<1>7. Hello(e)' = Hello(e) /\ CipherStates(e)' = CipherStates(e)
      /\ expect'[o] = n /\ hs' = hs /\ faults' = faults
  BY <1>1 DEF Hello, CipherStates, hsVars, readVars
<1>8. e = "client" => hs["server"] = "up"
  BY <1>2 DEF HandshakeInv
<1>9. <<Hello(e)>> \o Append(F, f) = Append(<<Hello(e)>> \o F, f)
  <2> DEFINE T == {Hello(e), f} \cup Framings(k, Sender(e))
  <2>1. F \in Seq(T)
    <3>1. F \in Seq(Framings(k, Sender(e)))
      BY <1>4, FramesAre
    <3> QED BY <3>1, SeqMonotonic
  <2>2. <<Hello(e)>> \in Seq(T) /\ <<f>> \in Seq(T) /\ f \in T
    OBVIOUS
  <2> HIDE DEF T, F, f
  <2>3. /\ Append(F, f) = F \o <<f>>
        /\ <<Hello(e)>> \o F \in Seq(T)
        /\ Append(<<Hello(e)>> \o F, f) = (<<Hello(e)>> \o F) \o <<f>>
    BY <2>1, <2>2, AppendIsConcat, ConcatProperties
  <2> QED BY <2>1, <2>2, <2>3, ConcatAssociative
<1> HIDE DEF F, f
<1>10. faults = 0 /\ hs[o] = "up" => net'[e] = Append(F, f)
  BY <1>5 DEF Untouched, F
<1>11. faults = 0 /\ e = "server" /\ hs["server"] = "up" /\ hs["client"] = "wait" =>
            net'[e] = <<Hello(e)>> \o Append(F, f)
  BY <1>5, <1>9 DEF Untouched, F
<1>12. ASSUME NEW P, P = Append(Q, s) PROVE Untouched(e, P)'
  <2>1. Frames(CipherStates(e)'.send, expect'[o], P) = Append(F, f)
    BY <1>6, <1>7, <1>12
  <2> QED BY <1>7, <1>8, <1>10, <1>11, <2>1 DEF Untouched
<1> QED BY <1>12

\* A record is read.
LEMMA UntouchedRead ==
    ASSUME ConnTypes, HandshakeInv, NEW e \in Ends, Takes(Peer(e)),
           expect'[Peer(e)] = expect[Peer(e)] + 1,
           NEW Q \in Seq(Sender(e)), Q # <<>>, Untouched(e, Q), NEW P, P = Tail(Q)
    PROVE  Untouched(e, P)'
<1> DEFINE o == Peer(e)
           k == CipherStates(e).send
           n == expect[o]
<1>1. /\ hs[o] = "up" /\ net'[e] = Tail(net[e])
      /\ UNCHANGED <<hsVars, writeVars, up, faults>>
  BY PeerIs, TakesIs DEF Takes
<1>2. n \in Nat
  BY PeerIs DEF ConnTypes, ReadTypes
<1>3. Tail(Frames(k, n, Q)) = Frames(k, n + 1, P)
  BY <1>2, FramesFewer
<1>4. Hello(e)' = Hello(e) /\ CipherStates(e)' = CipherStates(e) /\ hs' = hs /\ faults' = faults
  BY <1>1 DEF Hello, CipherStates, hsVars
<1>5. faults = 0 => net'[e] = Frames(k, n + 1, P)
  BY <1>1, <1>3 DEF Untouched
<1>6. /\ e = "server" => hs["client"] # "wait"
      /\ e = "client" => hs["server"] # "wait"
  BY <1>1, PeerIs
<1> QED BY <1>4, <1>5, <1>6 DEF Untouched

\* With the handshake done and no fault, the next frame opens.
LEMMA UntouchedOpens ==
    ASSUME ConnTypes, HandshakeInv, NEW e \in Ends, Takes(Peer(e)), faults = 0,
           NEW Q \in Seq(Sender(e)), Untouched(e, Q)
    PROVE  Opens(Peer(e), Arrived(Peer(e)))
<1> DEFINE o == Peer(e)
           k == CipherStates(e).send
           n == expect[o]
<1>1. hs[o] = "up" /\ net[e] # <<>> /\ Arrived(o) = Head(net[e])
  BY PeerIs DEF Takes, Arrived
<1>2. n \in Nat
  BY PeerIs DEF ConnTypes, ReadTypes
<1>3. net[e] = Frames(k, n, Q)
  BY <1>1 DEF Untouched
<1>4. Q # <<>>
  <2>1. Len(Frames(k, n, Q)) = Len(Q) /\ Frames(k, n, Q) \in Seq(Framings(k, Sender(e)))
    BY <1>2, FramesAre
  <2> QED BY <1>1, <1>3, <2>1
<1>5. Arrived(o) = [key |-> k, nonce |-> n, rec |-> Record(Q[1])]
  BY <1>1, <1>2, <1>3, <1>4, FramesFewer
<1>6. psk[o] = psk[e]
  BY <1>1, PeerIs DEF HandshakeInv, Authenticated
<1>7. CipherStates(o).recv = k
  BY <1>6, PeerIs DEF CipherStates, Ends
<1> QED BY <1>5, <1>7 DEF Opens

-----------------------------------------------------------------------------
(* The handshake, the bounds and the two directions *)

\* An end's first frame proves that its peer has the same key, or nothing.
LEMMA ProvesKey ==
    ASSUME NEW e \in Ends, NEW Q, NEW f, Genuine(Peer(e), Q, f), Proves(f, e)
    PROVE  psk[e] = psk[Peer(e)]
<1> DEFINE o == Peer(e)
<1>1. f.key = <<psk[e], o>>
  BY DEF Proves, Hello
<1>2. o \in Ends
  BY PeerIs
<1>3. CASE f = Hello(o)
  BY <1>1, <1>3 DEF Hello
<1>4. f # Garbage
  BY <1>1, <1>2 DEF Garbage, Ends
<1>5. f.key # CipherStates(o).send
  BY <1>1, <1>2 DEF CipherStates, Ends
<1> QED BY <1>3, <1>4, <1>5 DEF Genuine

\* Nothing of a direction changes.
LEMMA DirectionRests ==
    ASSUME NEW e \in Ends, Direction(e), Rests(e), net'[e] = net[e], faults' = faults,
           \A d \in Ends : hs'[d] = hs[d] \/ hs'[d] = "failed"
    PROVE  Direction(e)'
<1>1. PICK Q \in Seq(Sender(e)), D \in Seq(Nat) : Carries(e, Q, D) /\ Untouched(e, Q)
  BY DEF Direction
<1>2. Carries(e, Q, D)' /\ Untouched(e, Q)'
  BY <1>1, CarriesRest, UntouchedRest DEF Rests
<1> QED BY <1>2 DEF Direction

\* The client's first message.
LEMMA HelloKeeps ==
    ASSUME ConnTypes, HandshakeInv, NetInv, Direction("client"), Direction("server"), ClientHello
    PROVE  HandshakeInv' /\ NetInv' /\ Direction("client")' /\ Direction("server")'
<1>1. /\ hs["client"] = "start" /\ net["client"] = <<>> /\ hs["server"] # "up"
      /\ net["server"] = <<>>
      /\ hs' = [hs EXCEPT !["client"] = "wait"]
      /\ net' = [net EXCEPT !["client"] = Append(net["client"], Hello("client"))]
      /\ UNCHANGED <<psk, writeVars, readVars, up, faults>>
  BY DEF ClientHello, HandshakeInv
<1>2. hs'["client"] = "wait" /\ hs'["server"] = hs["server"]
  BY <1>1 DEF ConnTypes, HsTypes, Ends
<1>3. /\ Len(net'["client"]) = 1 /\ net'["server"] = net["server"]
      /\ Range(net'["client"]) = {Hello("client")}
  <2>1. NetTypes /\ Hello("client") \in Frame /\ "client" \in Ends
    BY FrameIs DEF ConnTypes, HsTypes, Ends
  <2>2. /\ Len(net'["client"]) = Len(net["client"]) + 1
        /\ Range(net'["client"]) = Range(net["client"]) \cup {Hello("client")}
        /\ net'["server"] = net["server"]
    BY <1>1, <2>1, FrameSent, PeerIs
  <2>3. Len(net["client"]) = 0 /\ Range(net["client"]) = {}
    BY <1>1 DEF Range
  <2> QED BY <2>2, <2>3
<1>4. HandshakeInv'
  <2>1. \A e \in Ends : hs'[e] = "up" <=> hs[e] = "up"
    BY <1>1, <1>2 DEF Ends
  <2>2. writer' = writer /\ psk' = psk
    BY <1>1 DEF writeVars
  <2> QED BY <1>1, <1>2, <1>3, <2>1, <2>2 DEF HandshakeInv, Authenticated
<1>5. NetInv'
  <2>1. NetCap \in Nat \ {0} /\ faults \in Nat /\ faults' = faults
    BY <1>1, ConnAssumption DEF ConnTypes, NetTypes
  <2>2. Len(net'["client"]) <= NetCap + faults'
    BY <1>3, <2>1
  <2>3. Len(net'["server"]) <= NetCap + faults'
    BY <1>3, <2>1 DEF NetInv, Ends
  <2> QED BY <2>2, <2>3 DEF NetInv, Ends
<1>6. Direction("client")'
  <2>1. PICK Q \in Seq(Sender("client")), D \in Seq(Nat) :
                Carries("client", Q, D) /\ Untouched("client", Q)
    BY DEF Direction
  <2>2. Rests("client")
    BY <1>1, <1>2, <1>3 DEF Rests, writeVars, readVars
  <2>3. Untouched("client", Q)'
    BY <1>1, <1>2, <1>3, PeerIs DEF Untouched
  <2> QED BY <2>1, <2>2, <2>3, CarriesRest DEF Direction
<1>7. Direction("server")'
  <2>1. PICK Q \in Seq(Sender("server")), D \in Seq(Nat) :
                Carries("server", Q, D) /\ Untouched("server", Q)
    BY DEF Direction
  <2>2. Rests("server")
    BY <1>1, <1>2, <1>3 DEF Rests, writeVars, readVars
  <2>3. Untouched("server", Q)'
    BY <1>1, <1>2, PeerIs DEF Untouched
  <2> QED BY <2>1, <2>2, <2>3, CarriesRest DEF Direction
<1> QED BY <1>4, <1>5, <1>6, <1>7

\* The server's answer.
LEMMA AnswerKeeps ==
    ASSUME ConnTypes, HandshakeInv, NetInv, Direction("client"), Direction("server"),
           ServerAnswers
    PROVE  HandshakeInv' /\ NetInv' /\ Direction("client")' /\ Direction("server")'
<1> DEFINE ok == up /\ Proves(Head(net["client"]), "server")
<1>1. /\ hs["server"] = "wait" /\ net["client"] # <<>> /\ net["server"] = <<>>
      /\ hs["client"] \notin {"start", "up"}
      /\ UNCHANGED <<psk, writeVars, readVars, up, faults>>
  BY DEF ServerAnswers, HandshakeInv
<1>2. /\ hs' = [hs EXCEPT !["server"] = IF ok THEN "up" ELSE "failed"]
      /\ ok => net' = [net EXCEPT !["client"] = Tail(@), !["server"] = Append(@, Hello("server"))]
      /\ ~ok => net' = [net EXCEPT !["client"] = Tail(@)]
  <2>1. CASE ok
    BY <2>1 DEF ServerAnswers
  <2>2. CASE ~ok
    BY <2>2 DEF ServerAnswers
  <2> QED BY <2>1, <2>2
<1>3. PICK Q \in Seq(Sender("client")), D \in Seq(Nat) :
            Carries("client", Q, D) /\ Untouched("client", Q)
  BY DEF Direction
<1>4. PICK R \in Seq(Sender("server")), E \in Seq(Nat) :
            Carries("server", R, E) /\ Untouched("server", R)
  BY DEF Direction
<1>5. NetTypes /\ net \in [Ends -> Seq(Frame)] /\ "client" \in Ends /\ "server" \in Ends
      /\ net["client"] \in Seq(Frame) /\ faults \in Nat /\ faults' = faults
  BY <1>1, ConnAssumption DEF ConnTypes, NetTypes, Ends
<1>6. ok => psk["server"] = psk["client"]
  <2>1. Head(net["client"]) \in Range(net["client"])
    <3>1. Len(net["client"]) \in Nat \ {0}
      BY <1>1, <1>5, EmptySeq
    <3>2. 1 \in DOMAIN net["client"] /\ Head(net["client"]) = net["client"][1]
      BY <1>5, <3>1
    <3> QED BY <3>2 DEF Range
  <2>2. Genuine("client", Q, Head(net["client"]))
    BY <1>3, <2>1 DEF Carries, FramesGenuine
  <2>3. Peer("server") = "client"
    BY PeerIs
  <2> QED BY <1>5, <2>2, <2>3, ProvesKey
<1>7. /\ net'["client"] = Tail(net["client"])
      /\ ok => net'["server"] = <<Hello("server")>>
      /\ ~ok => net'["server"] = <<>>
  <2>1. DOMAIN net = Ends /\ Append(<<>>, Hello("server")) = <<Hello("server")>>
    BY <1>5
  <2> HIDE DEF ok
  <2>2. CASE ok
    BY <1>1, <1>2, <1>5, <2>1, <2>2
  <2>3. CASE ~ok
    BY <1>1, <1>2, <1>5, <2>1, <2>3
  <2> QED BY <2>2, <2>3
<1>8. hs'["client"] = hs["client"] /\ hs'["server"] = IF ok THEN "up" ELSE "failed"
  <2> HIDE DEF ok
  <2> QED BY <1>2, <1>5 DEF ConnTypes, HsTypes
<1> HIDE DEF ok
<1>9. /\ Len(net'["client"]) = Len(net["client"]) - 1
      /\ Range(net'["client"]) \subseteq Range(net["client"])
  <2>1. Tail(net["client"]) = SubSeq(net["client"], 2, Len(net["client"]))
    BY <1>1, <1>5, TailIsSubSeq
  <2>2. Range(SubSeq(net["client"], 2, Len(net["client"]))) \subseteq Range(net["client"])
    BY <1>5, SectionRange
  <2>3. Len(Tail(net["client"])) = Len(net["client"]) - 1
    BY <1>1, <1>5, Tailed
  <2> QED BY <1>7, <2>1, <2>2, <2>3
<1>10. HandshakeInv'
  <2>1. writer' = writer /\ psk' = psk
    BY <1>1 DEF writeVars
  <2>2. Authenticated'
    BY <1>1, <1>6, <1>8, <2>1, PeerIs DEF Authenticated, Ends, HandshakeInv
  <2>3. \A e \in Ends : hs'[e] # "up" => \A w \in Writers(e) : writer'[e][w] = Idle
    BY <1>1, <1>8, <2>1 DEF HandshakeInv, Ends
  <2> QED BY <1>1, <1>7, <1>8, <2>2, <2>3 DEF HandshakeInv
<1>11. NetInv'
  <2>1. NetCap \in Nat \ {0} /\ Len(net["client"]) \in Nat
    BY <1>5, ConnAssumption
  <2>2. Len(net'["client"]) <= NetCap + faults'
    BY <1>5, <1>9, <2>1 DEF NetInv
  <2>3. Len(net'["server"]) = 0 \/ Len(net'["server"]) = 1
    <3>3. \A x : Len(<<x>>) = 1
      OBVIOUS
    <3>1. CASE ok
      <4>1. net'["server"] = <<Hello("server")>>
        BY <1>7, <3>1
      <4> QED BY <3>3, <4>1
    <3>2. CASE ~ok
      <4>1. net'["server"] = <<>> /\ Len(<<>>) = 0
        BY <1>7, <3>2
      <4> QED BY <4>1
    <3> QED BY <3>1, <3>2
  <2>5. 0 <= NetCap + faults /\ 1 <= NetCap + faults
    BY <1>5, <2>1
  <2>4. Len(net'["server"]) <= NetCap + faults'
    BY <1>5, <2>3, <2>5
  <2> QED BY <2>2, <2>4 DEF NetInv, Ends
<1>12. Direction("client")'
  <2>1. Rests("client")
    BY <1>1, <1>8, <1>9 DEF Rests, writeVars, readVars
  <2>2. Untouched("client", Q)'
    <3>1. Q = <<>>
      BY <1>1, <1>3 DEF Carries
    <3>2. ASSUME NEW k, NEW n PROVE Frames(k, n, Q) = <<>>
      BY <3>1 DEF Frames
    <3>3. faults' = 0 => net'["client"] = <<>>
      <4>1. faults = 0 => Len(net["client"]) <= 1
        BY <1>1, <1>3 DEF Untouched
      <4>2. Len(net["client"]) \in Nat \ {0}
        BY <1>1, <1>5, EmptySeq
      <4>3. net'["client"] \in Seq(Frame)
        BY <1>1, <1>5, <1>7
      <4>5. \A n \in Nat \ {0} : n <= 1 => n - 1 = 0
        OBVIOUS
      <4>4. faults = 0 => Len(net'["client"]) = 0
        BY <1>9, <4>1, <4>2, <4>5
      <4> QED BY <1>5, <4>3, <4>4, EmptySeq
    <3> QED BY <1>8, <3>2, <3>3 DEF Untouched
  <2> QED BY <1>3, <2>1, <2>2, CarriesRest DEF Direction
<1>13. Direction("server")'
  <2>1. Range(net'["server"]) \subseteq {Hello("server")}
    BY <1>7 DEF Range
  <2>2. Rests("server")
    BY <1>1, <1>8, <2>1 DEF Rests, writeVars, readVars
  <2>3. Untouched("server", R)'
    <3>1. R = <<>>
      BY <1>1, <1>4 DEF Carries
    <3>2. ASSUME NEW k, NEW n PROVE Frames(k, n, R) = <<>>
      BY <3>1 DEF Frames
    <3>3. <<Hello("server")>> \o <<>> = <<Hello("server")>> /\ Hello("server")' = Hello("server")
      BY <1>1 DEF Hello
    <3>4. hs'["client"] # "up" /\ (hs'["server"] = "up" => net'["server"] = <<Hello("server")>>)
      BY <1>1, <1>7, <1>8
    <3> QED BY <3>2, <3>3, <3>4, PeerIs DEF Untouched
  <2> QED BY <1>4, <2>2, <2>3, CarriesRest DEF Direction
<1> QED BY <1>10, <1>11, <1>12, <1>13

\* The client reads it.
LEMMA FinishKeeps ==
    ASSUME ConnTypes, HandshakeInv, NetInv, Direction("client"), Direction("server"),
           ClientFinishes
    PROVE  HandshakeInv' /\ NetInv' /\ Direction("client")' /\ Direction("server")'
<1> DEFINE ok == Proves(Head(net["server"]), "client")
<1>1. /\ hs["client"] = "wait" /\ net["server"] # <<>> /\ hs["server"] = "up"
      /\ UNCHANGED <<psk, writeVars, readVars, up, faults>>
      /\ hs' = [hs EXCEPT !["client"] = IF ok THEN "up" ELSE "failed"]
      /\ net' = [net EXCEPT !["server"] = Tail(@)]
  BY DEF ClientFinishes, HandshakeInv
<1>2. PICK R \in Seq(Sender("server")), E \in Seq(Nat) :
            Carries("server", R, E) /\ Untouched("server", R)
  BY DEF Direction
<1>3. NetTypes /\ net \in [Ends -> Seq(Frame)] /\ "client" \in Ends /\ "server" \in Ends
      /\ net["server"] \in Seq(Frame) /\ faults \in Nat /\ faults' = faults
  BY <1>1, ConnAssumption DEF ConnTypes, NetTypes, Ends
<1>4. ok => psk["client"] = psk["server"]
  <2>1. Head(net["server"]) \in Range(net["server"])
    <3>1. Len(net["server"]) \in Nat \ {0}
      BY <1>1, <1>3, EmptySeq
    <3>2. 1 \in DOMAIN net["server"] /\ Head(net["server"]) = net["server"][1]
      BY <1>3, <3>1
    <3> QED BY <3>2 DEF Range
  <2>2. Genuine("server", R, Head(net["server"]))
    BY <1>2, <2>1 DEF Carries, FramesGenuine
  <2>3. Peer("client") = "server"
    BY PeerIs
  <2> QED BY <1>3, <2>2, <2>3, ProvesKey
<1>5. hs'["client"] \in {"up", "failed"} /\ (hs'["client"] = "up" => ok)
      /\ hs'["server"] = hs["server"]
  <2> HIDE DEF ok
  <2>1. hs'["client"] = (IF ok THEN "up" ELSE "failed") /\ hs'["server"] = hs["server"]
    BY <1>1, <1>3 DEF ConnTypes, HsTypes
  <2> QED BY <2>1
<1> HIDE DEF ok
<1>6. net'["server"] = Tail(net["server"]) /\ net'["client"] = net["client"]
  BY <1>1, <1>3
<1>7. /\ Len(net'["server"]) = Len(net["server"]) - 1
      /\ Range(net'["server"]) \subseteq Range(net["server"])
  <2>1. Tail(net["server"]) = SubSeq(net["server"], 2, Len(net["server"]))
    BY <1>1, <1>3, TailIsSubSeq
  <2>2. Range(SubSeq(net["server"], 2, Len(net["server"]))) \subseteq Range(net["server"])
    BY <1>3, SectionRange, SMTT(30)
  <2>3. Len(Tail(net["server"])) = Len(net["server"]) - 1
    BY <1>1, <1>3, Tailed
  <2> QED BY <1>6, <2>1, <2>2, <2>3
<1>8. HandshakeInv'
  <2>1. writer' = writer /\ psk' = psk
    BY <1>1 DEF writeVars
  <2>2. Authenticated'
    BY <1>1, <1>4, <1>5, <2>1, PeerIs DEF Authenticated, Ends, HandshakeInv
  <2>3. \A e \in Ends : hs'[e] # "up" => \A w \in Writers(e) : writer'[e][w] = Idle
    BY <1>1, <1>5, <2>1 DEF HandshakeInv, Ends
  <2> QED BY <1>1, <1>5, <2>2, <2>3 DEF HandshakeInv
<1>9. NetInv'
  <2>1. NetCap \in Nat \ {0} /\ Len(net["server"]) \in Nat
    BY <1>3, ConnAssumption
  <2>2. Len(net'["server"]) <= NetCap + faults'
    BY <1>3, <1>7, <2>1 DEF NetInv
  <2> QED BY <1>3, <1>6, <2>2 DEF NetInv, Ends
<1>10. Direction("client")'
  <2>1. PICK Q \in Seq(Sender("client")), D \in Seq(Nat) :
                Carries("client", Q, D) /\ Untouched("client", Q)
    BY DEF Direction
  <2>2. Rests("client")
    BY <1>1, <1>5, <1>6 DEF Rests, writeVars, readVars
  <2>3. Untouched("client", Q)'
    <3>1. Peer("client") = "server" /\ expect' = expect /\
          CipherStates("client")' = CipherStates("client")
      BY <1>1, PeerIs DEF readVars, CipherStates
    <3>2. faults = 0 => net["client"] = Frames(CipherStates("client").send, expect["server"], Q)
      BY <1>1, <2>1, <3>1 DEF Untouched
    <3> QED BY <1>1, <1>3, <1>5, <1>6, <3>1, <3>2 DEF Untouched
  <2> QED BY <2>1, <2>2, <2>3, CarriesRest DEF Direction
<1>11. Direction("server")'
  <2>1. Rests("server")
    BY <1>1, <1>5, <1>7 DEF Rests, writeVars, readVars
  <2>2. Untouched("server", R)'
    <3> DEFINE F == Frames(CipherStates("server").send, expect["client"], R)
    <3>1. Peer("server") = "client" /\ expect' = expect /\
          CipherStates("server")' = CipherStates("server")
      BY <1>1, PeerIs DEF readVars, CipherStates
    <3>2. faults = 0 => net["server"] = <<Hello("server")>> \o F
      BY <1>1, <1>2, <3>1 DEF Untouched
    <3>3. Tail(<<Hello("server")>> \o F) = F
      <4>1. expect["client"] \in Nat
        BY <1>3 DEF ConnTypes, ReadTypes
      <4> DEFINE k == CipherStates("server").send
                 T == Framings(k, Sender("server")) \cup {Hello("server")}
                 h == <<Hello("server")>>
                 G == h \o F
      <4>2. F \in Seq(Framings(k, Sender("server")))
        BY <4>1, FramesAre
      <4>3. F \in Seq(T) /\ h \in Seq(T) /\ Len(h) = 1
        BY <4>2, SeqMonotonic
      <4> HIDE DEF T, F, h
      <4>4. /\ G \in Seq(T) /\ Len(G) = 1 + Len(F)
            /\ \A i \in 1..(1 + Len(F)) : G[i] = IF i <= 1 THEN h[i] ELSE F[i - 1]
        <5>1. /\ G \in Seq(T) /\ Len(G) = Len(h) + Len(F)
              /\ \A i \in 1..(Len(h) + Len(F)) :
                    G[i] = IF i <= Len(h) THEN h[i] ELSE F[i - Len(h)]
          BY <4>3, ConcatProperties
        <5> QED BY <4>3, <5>1
      <4> HIDE DEF G
      <4>5. Len(F) \in Nat /\ G # <<>>
        BY <4>3, <4>4
      <4>6. Tail(G) \in Seq(T) /\ Len(Tail(G)) = Len(F) /\ \A i \in 1..Len(F) :
            Tail(G)[i] = G[i + 1]
        <5>1. /\ Tail(G) \in Seq(T) /\ Len(Tail(G)) = Len(G) - 1
              /\ \A i \in 1..Len(Tail(G)) : Tail(G)[i] = G[i + 1]
          BY <4>4, <4>5, Tailed
        <5> QED BY <4>4, <4>5, <5>1
      <4>7. ASSUME NEW i \in 1..Len(F) PROVE Tail(G)[i] = F[i]
        <5>1. i + 1 \in 1..(1 + Len(F)) /\ ~(i + 1 <= 1) /\ i + 1 - 1 = i
          BY <4>5
        <5>2. G[i + 1] = F[i]
          BY <4>4, <5>1
        <5> QED BY <4>6, <5>2
      <4>8. Tail(G) = F
        BY <4>3, <4>6, <4>7, SeqEqual
      <4> QED BY <4>8 DEF G, h
    <3>4. faults' = 0 => net'["server"] = F
      BY <1>3, <1>6, <3>2, <3>3
    <3> QED BY <1>5, <3>1, <3>4 DEF Untouched
  <2> QED BY <1>2, <2>1, <2>2, CarriesRest DEF Direction
<1> QED BY <1>8, <1>9, <1>10, <1>11

\* An end gives up.
LEMMA CutKeeps ==
    ASSUME ConnTypes, HandshakeInv, NetInv, Direction("client"), Direction("server"),
           NEW e \in Ends, HandshakeCut(e)
    PROVE  HandshakeInv' /\ NetInv' /\ Direction("client")' /\ Direction("server")'
<1>1. /\ hs[e] \in {"start", "wait"} /\ hs' = [hs EXCEPT ![e] = "failed"]
      /\ UNCHANGED <<psk, writeVars, readVars, netVars>>
  BY DEF HandshakeCut
<1>2. hs'[e] = "failed" /\ \A d \in Ends : d # e => hs'[d] = hs[d]
  BY <1>1 DEF ConnTypes, HsTypes
<1>3. \A d \in Ends : (hs'[d] = "up" <=> hs[d] = "up") /\ (hs'[d] = hs[d] \/ hs'[d] = "failed")
  BY <1>1, <1>2
<1>4. "client" \in Ends /\ "server" \in Ends
  BY DEF Ends
<1>5. HandshakeInv'
  <2>1. writer' = writer /\ psk' = psk /\ net' = net
    BY <1>1 DEF writeVars, netVars
  <2>2. hs'["client"] = "start" => hs["client"] = "start"
    BY <1>3, <1>4
  <2> QED BY <1>3, <1>4, <2>1, <2>2 DEF HandshakeInv, Authenticated
<1>6. NetInv'
  BY <1>1 DEF NetInv, netVars
<1>7. ASSUME NEW d \in Ends PROVE Rests(d) /\ net'[d] = net[d] /\ faults' = faults
  BY <1>1, <1>3 DEF Rests, writeVars, readVars, netVars
<1> QED BY <1>3, <1>4, <1>5, <1>6, <1>7, DirectionRests

\* What a goroutine's step leaves of the other end and of the handshake.
LEMMA WriterRests ==
    ASSUME ConnTypes, HandshakeInv, NEW e \in Ends, Direction(Peer(e)), hs[e] = "up",
           UNCHANGED <<hsVars, readVars, up, faults>>,
           \A d \in Ends : d # e =>
                /\ writer'[d] = writer[d] /\ nonce'[d] = nonce[d] /\ outSeq'[d] = outSeq[d]
                /\ sent'[d] = sent[d] /\ net'[d] = net[d]
    PROVE  HandshakeInv' /\ Direction(Peer(e))'
<1>1. Peer(e) \in Ends /\ Peer(e) # e
  BY PeerIs
<1>2. hs' = hs /\ psk' = psk
  BY DEF hsVars
<1>3. HandshakeInv'
  <2>1. \A d \in Ends : hs'[d] # "up" => \A w \in Writers(d) : writer'[d][w] = Idle
    BY <1>2 DEF HandshakeInv
  <2>2. /\ hs'["client"] = "start" => net'["client"] = <<>>
        /\ hs'["server"] # "up" => net'["server"] = <<>>
    BY <1>2 DEF HandshakeInv, Ends
  <2> QED BY <1>2, <2>1, <2>2 DEF HandshakeInv, Authenticated
<1>4. Rests(Peer(e)) /\ net'[Peer(e)] = net[Peer(e)] /\ faults' = faults
  BY <1>1, <1>2 DEF Rests, readVars
<1> QED BY <1>1, <1>2, <1>3, <1>4, DirectionRests

\* The goroutines of an end that are sending.
LEMMA SendingFinite ==
    ASSUME ConnTypes, NEW e \in Ends
    PROVE  /\ IsFiniteSet(Sending(e)) /\ Cardinality(Sending(e)) \in Nat
           /\ Len(sent[e]) \in Nat /\ MaxSends[e] \in Nat \ {0}
<1>1. IsFiniteSet(Writers(e)) /\ MaxSends[e] \in Nat \ {0}
  BY ConnAssumption DEF Writers, Ends
<1>2. IsFiniteSet(Sending(e))
  BY <1>1, FS_Subset DEF Sending
<1>3. Len(sent[e]) \in Nat
  <2>1. sent[e] \in Seq(Messages(e))
    BY DEF ConnTypes, WriteTypes
  <2> QED BY <2>1
<1> QED BY <1>1, <1>2, <1>3, FS_CardinalityType

\* A message is begun.
LEMMA BeginKeeps ==
    ASSUME ConnTypes, HandshakeInv, NetInv, SendsInv, NEW e \in Ends,
           Direction(e), Direction(Peer(e)),
           NEW w \in Writers(e), NEW m \in Messages(e), Begin(e, w, m)
    PROVE  HandshakeInv' /\ NetInv' /\ SendsInv' /\ Direction(e)' /\ Direction(Peer(e))'
<1>1. /\ hs[e] = "up" /\ writer[e][w] = Idle
      /\ writer' = [writer EXCEPT ![e][w] = BeginState(e, m)]
      /\ outSeq' = [outSeq EXCEPT ![e] = IF HasContent(m) THEN @ + 1 ELSE @]
      /\ UNCHANGED <<hsVars, nonce, sent, readVars, netVars>>
      /\ Len(sent[e]) + Cardinality(Sending(e)) < MaxSends[e]
  BY DEF Begin, BeginState, Sending
<1>2. /\ BeginState(e, m) # Idle
      /\ writer'[e][w] = BeginState(e, m)
      /\ \A v \in Writers(e) : v # w => writer'[e][v] = writer[e][v]
      /\ writer'[Peer(e)] = writer[Peer(e)]
  <2>1. BeginState(e, m) \in Sender(e)
    BY BeginIs DEF ConnTypes
  <2>2. writer' = [writer EXCEPT ![e][w] = BeginState(e, m)]
    BY <1>1
  <2> QED BY <2>1, <2>2, IdleIs, WriterStep
<1>3. \A d \in Ends : d # e =>
            /\ writer'[d] = writer[d] /\ nonce'[d] = nonce[d] /\ outSeq'[d] = outSeq[d]
            /\ sent'[d] = sent[d] /\ net'[d] = net[d]
  <2>1. \A d \in Ends : d # e => outSeq'[d] = outSeq[d]
    BY <1>1 DEF ConnTypes, WriteTypes
  <2> QED BY <1>1, <1>2, <2>1, PeerIs DEF netVars
<1>4. HandshakeInv' /\ Direction(Peer(e))'
  BY <1>1, <1>3, WriterRests DEF netVars
<1>5. NetInv'
  BY <1>1 DEF NetInv, netVars
<1>6. SendsInv'
  <2>1. Sending(e)' = Sending(e) \cup {w} /\ w \notin Sending(e)
    BY <1>1, <1>2 DEF Sending
  <2>2. IsFiniteSet(Sending(e)) /\ Cardinality(Sending(e)) \in Nat
        /\ Len(sent[e]) \in Nat /\ MaxSends[e] \in Nat \ {0}
    BY SendingFinite
  <2>3. Cardinality(Sending(e) \cup {w}) = Cardinality(Sending(e)) + 1
    BY <2>1, <2>2, FS_AddElement
  <2>4. Len(sent[e]) + (Cardinality(Sending(e)) + 1) <= MaxSends[e]
    BY <1>1, <2>2
  <2>5. Len(sent'[e]) + Cardinality(Sending(e)') <= MaxSends[e]
    BY <1>1, <2>1, <2>3, <2>4
  <2>6. \A d \in Ends : d # e => Sending(d)' = Sending(d)
    BY <1>3 DEF Sending
  <2> QED BY <1>3, <2>5, <2>6 DEF SendsInv
<1>7. Direction(e)'
  <2>1. PICK Q \in Seq(Sender(e)), D \in Seq(Nat) : Carries(e, Q, D) /\ Untouched(e, Q)
    BY DEF Direction
  <2>2. Carries(e, Q, D)'
    BY <2>1, CarriesBegin
  <2>3. Untouched(e, Q)'
    BY <1>1, <2>1, UntouchedRest DEF hsVars, readVars, netVars
  <2> QED BY <2>2, <2>3 DEF Direction
<1> QED BY <1>4, <1>5, <1>6, <1>7

\* A record is sealed.
LEMMA SealKeeps ==
    ASSUME ConnTypes, HandshakeInv, NetInv, SendsInv, NEW e \in Ends,
           Direction(e), Direction(Peer(e)), NEW w \in Writers(e), SealRecord(e, w)
    PROVE  HandshakeInv' /\ NetInv' /\ SendsInv' /\ Direction(e)' /\ Direction(Peer(e))'
<1>1. /\ writer[e][w].pc = "ready"
      /\ writer' = [writer EXCEPT ![e][w] = SealedState(e, w)]
      /\ nonce' = [nonce EXCEPT ![e] = @ + 1]
      /\ UNCHANGED <<hsVars, outSeq, sent, readVars, netVars>>
  BY DEF SealRecord, SealedState
<1>2. /\ SealedState(e, w) # Idle /\ writer[e][w] # Idle
      /\ writer'[e][w] = SealedState(e, w)
      /\ \A v \in Writers(e) : v # w => writer'[e][v] = writer[e][v]
      /\ writer'[Peer(e)] = writer[Peer(e)]
  <2>1. SealedState(e, w) \in Sender(e) /\ writer[e][w] \in Sender(e)
    BY <1>1, SealedIs DEF ConnTypes
  <2>2. writer' = [writer EXCEPT ![e][w] = SealedState(e, w)]
    BY <1>1
  <2> QED BY <2>1, <2>2, IdleIs, WriterStep
<1>3. \A d \in Ends : d # e =>
            /\ writer'[d] = writer[d] /\ nonce'[d] = nonce[d] /\ outSeq'[d] = outSeq[d]
            /\ sent'[d] = sent[d] /\ net'[d] = net[d]
  <2>1. \A d \in Ends : d # e => nonce'[d] = nonce[d]
    BY <1>1 DEF ConnTypes, WriteTypes
  <2> QED BY <1>1, <1>2, <2>1, PeerIs DEF netVars
<1>4. HandshakeInv' /\ Direction(Peer(e))'
  <2>1. hs[e] = "up"
    BY <1>2 DEF HandshakeInv
  <2> QED BY <1>1, <1>3, <2>1, WriterRests DEF netVars
<1>5. NetInv'
  BY <1>1 DEF NetInv, netVars
<1>6. SendsInv'
  <2>1. Sending(e)' = Sending(e)
    BY <1>2 DEF Sending
  <2>2. \A d \in Ends : d # e => Sending(d)' = Sending(d)
    BY <1>3 DEF Sending
  <2> QED BY <1>1, <2>1, <2>2 DEF SendsInv
<1>7. Direction(e)'
  <2>1. PICK Q \in Seq(Sender(e)), D \in Seq(Nat) : Carries(e, Q, D) /\ Untouched(e, Q)
    BY DEF Direction
  <2>2. Carries(e, Q, D)'
    BY <2>1, CarriesSeal
  <2>3. Untouched(e, Q)'
    BY <1>1, <2>1, UntouchedRest DEF hsVars, readVars, netVars
  <2> QED BY <2>2, <2>3 DEF Direction
<1> QED BY <1>4, <1>5, <1>6, <1>7

\* A record is written.
LEMMA WriteKeeps ==
    ASSUME ConnTypes, HandshakeInv, NetInv, SendsInv, NEW e \in Ends,
           Direction(e), Direction(Peer(e)), NEW w \in Writers(e), WriteRecord(e, w)
    PROVE  HandshakeInv' /\ NetInv' /\ SendsInv' /\ Direction(e)' /\ Direction(Peer(e))'
<1> DEFINE s == writer[e][w]
           x == IF IsLast(s) THEN Idle ELSE Advance(s)
           f == Seal(e, s.n, Record(s))
<1>1. /\ s.pc = "sealed" /\ Len(net[e]) < NetCap
      /\ writer' = [writer EXCEPT ![e][w] = x]
      /\ net' = [net EXCEPT ![e] = Append(net[e], f)]
      /\ sent' = [sent EXCEPT ![e] = IF IsLast(s) THEN Append(@, s.msg) ELSE @]
      /\ UNCHANGED <<hsVars, nonce, outSeq, readVars, up, faults>>
  BY DEF WriteRecord
<1>2. s \in Sender(e) /\ s # Idle
  BY <1>1, IdleIs DEF ConnTypes, WriteTypes
<1>3. f \in Frame /\ NetTypes
  <2>1. Record(s) \in PlainRecord /\ s.n \in Nat
    BY <1>2, RecordIs, SenderIs
  <2> QED BY <2>1, FrameIs DEF ConnTypes, HsTypes
<1>4. x = Idle <=> IsLast(s)
  <2>1. ~IsLast(s) => Advance(s) \in Sender(e)
    BY <1>2, AdvanceIs
  <2> QED BY <2>1, IdleIs
<1> HIDE DEF x, f
<1>5. /\ writer'[e][w] = x
      /\ \A v \in Writers(e) : v # w => writer'[e][v] = writer[e][v]
      /\ writer'[Peer(e)] = writer[Peer(e)]
  <2>1. writer' = [writer EXCEPT ![e][w] = x]
    BY <1>1
  <2> QED BY <2>1, WriterStep, ZenonT(40)
<1>6. Len(net'[e]) = Len(net[e]) + 1 /\ net'[Peer(e)] = net[Peer(e)]
  BY <1>1, <1>3, FrameSent
<1>7. \A d \in Ends : d # e =>
            /\ writer'[d] = writer[d] /\ nonce'[d] = nonce[d] /\ outSeq'[d] = outSeq[d]
            /\ sent'[d] = sent[d] /\ net'[d] = net[d]
  <2>1. \A d \in Ends : d # e => sent'[d] = sent[d]
    BY <1>1 DEF ConnTypes, WriteTypes
  <2> QED BY <1>1, <1>5, <1>6, <2>1, PeerIs
<1>8. HandshakeInv' /\ Direction(Peer(e))'
  <2>1. hs[e] = "up"
    BY <1>2 DEF HandshakeInv
  <2> QED BY <1>1, <1>7, <2>1, WriterRests
<1>9. NetInv'
  <2>1. Len(net[e]) \in Nat /\ NetCap \in Nat /\ faults \in Nat /\ faults' = faults
    BY <1>1, <1>3, ConnAssumption DEF NetTypes
  <2>2. Len(net'[e]) <= NetCap + faults'
    BY <1>1, <1>6, <2>1
  <2>3. \A d \in Ends : d # e => Len(net'[d]) <= NetCap + faults'
    BY <1>7, <2>1 DEF NetInv
  <2> QED BY <2>2, <2>3 DEF NetInv
<1>10. SendsInv'
  <2>1. \A d \in Ends : d # e => Sending(d)' = Sending(d)
    BY <1>7 DEF Sending
  <2>2. IsFiniteSet(Sending(e)) /\ Cardinality(Sending(e)) \in Nat
        /\ Len(sent[e]) \in Nat /\ MaxSends[e] \in Nat \ {0}
    BY SendingFinite
  <2>3. Len(sent[e]) + Cardinality(Sending(e)) <= MaxSends[e]
    BY DEF SendsInv
  <2>4. w \in Sending(e)
    BY <1>2 DEF Sending
  <2>5. CASE IsLast(s)
    <3>1. Sending(e)' = Sending(e) \ {w}
      BY <1>4, <1>5, <2>5 DEF Sending
    <3>2. Cardinality(Sending(e) \ {w}) = Cardinality(Sending(e)) - 1
      BY <2>2, <2>4, FS_RemoveElement
    <3>3. Len(sent'[e]) = Len(sent[e]) + 1
      <4>1. sent[e] \in Seq(Messages(e)) /\ s.msg \in Messages(e)
        BY <1>2, SenderIs DEF ConnTypes, WriteTypes
      <4>2. sent'[e] = Append(sent[e], s.msg)
        BY <1>1, <2>5 DEF ConnTypes, WriteTypes
      <4> QED BY <4>1, <4>2
    <3>4. Len(sent[e]) + 1 + (Cardinality(Sending(e)) - 1) <= MaxSends[e]
      BY <2>2, <2>3
    <3>5. Len(sent'[e]) + Cardinality(Sending(e)') <= MaxSends[e]
      BY <3>1, <3>2, <3>3, <3>4
    <3> QED BY <1>7, <2>1, <3>5 DEF SendsInv
  <2>6. CASE ~IsLast(s)
    <3>1. Sending(e)' = Sending(e)
      BY <1>2, <1>4, <1>5, <2>6 DEF Sending
    <3>2. sent'[e] = sent[e]
      BY <1>1, <2>6 DEF ConnTypes, WriteTypes
    <3> QED BY <1>7, <2>1, <3>1, <3>2 DEF SendsInv
  <2> QED BY <2>5, <2>6
<1>11. Direction(e)'
  <2>1. PICK Q \in Seq(Sender(e)), D \in Seq(Nat) : Carries(e, Q, D) /\ Untouched(e, Q)
    BY DEF Direction
  <2>2. PICK y, P, l, E : y = s /\ P = Append(Q, y) /\ l = Len(sent'[e]) /\ E = Append(D, l)
    OBVIOUS
  <2>3. P \in Seq(Sender(e)) /\ E \in Seq(Nat) /\ Carries(e, P, E)'
    BY <2>1, <2>2, CarriesWrite
  <2>4. Untouched(e, P)'
    <3>1. Untouched(e, Append(Q, y))'
      BY <2>1, <2>2, UntouchedWrite
    <3> QED BY <2>2, <3>1
  <2> QED BY <2>3, <2>4 DEF Direction
<1> QED BY <1>8, <1>9, <1>10, <1>11

\* What a step leaves of the handshake and of the sends when only frames change.
LEMMA OthersRest ==
    ASSUME HandshakeInv, SendsInv, UNCHANGED <<hsVars, writeVars>>,
           \A d \in Ends : net[d] = <<>> => net'[d] = <<>>
    PROVE  HandshakeInv' /\ SendsInv'
<1>1. hs' = hs /\ psk' = psk /\ writer' = writer /\ sent' = sent
  BY DEF hsVars, writeVars
<1>2. SendsInv'
  BY <1>1 DEF SendsInv, Sending
<1>3. /\ hs["client"] = "start" => net'["client"] = <<>>
      /\ hs["server"] # "up" => net'["server"] = <<>>
  BY DEF HandshakeInv, Ends
<1> QED BY <1>1, <1>2, <1>3 DEF HandshakeInv, Authenticated

\* An end reads what its peer wrote.
LEMMA ReadKeeps ==
    ASSUME ConnTypes, HandshakeInv, NetInv, SendsInv, NoFalseAlarm, NEW e \in Ends,
           Direction(e), Direction(Peer(e)), Read(Peer(e))
    PROVE  /\ HandshakeInv' /\ NetInv' /\ SendsInv' /\ Direction(e)' /\ Direction(Peer(e))'
           /\ NoFalseAlarm'
<1> DEFINE o == Peer(e)
<1>1. o \in Ends /\ Peer(o) = e /\ o # e /\ \A d \in Ends : d = e \/ d = o
  BY PeerIs
<1>2. PICK Q \in Seq(Sender(e)), D \in Seq(Nat) : Carries(e, Q, D) /\ Untouched(e, Q)
  BY DEF Direction
<1>3. ASSUME Takes(o) PROVE HandshakeInv' /\ NetInv' /\ SendsInv'
  <2>1. /\ net[e] # <<>> /\ net'[o] = net[o] /\ Len(net'[e]) = Len(net[e]) - 1
        /\ UNCHANGED <<hsVars, writeVars, up, faults>>
    BY <1>1, <1>3, TakesIs DEF Takes
  <2>2. Len(net[e]) \in Nat /\ NetCap \in Nat /\ faults \in Nat
    BY ConnAssumption DEF ConnTypes, NetTypes
  <2>3. Len(net'[e]) <= NetCap + faults'
    BY <2>1, <2>2 DEF NetInv
  <2>4. NetInv'
    BY <1>1, <2>1, <2>3 DEF NetInv
  <2> QED BY <1>1, <2>1, <2>4, OthersRest
<1>4. CASE ReadEnvelope(o) \/ ReadChunk(o)
  <2>1. /\ Takes(o) /\ rd' = rd /\ UNCHANGED <<hsVars, writeVars, up, faults>>
        /\ net'[o] = net[o] /\ expect' = [expect EXCEPT ![o] = @ + 1]
    <3>1. Takes(o)
      BY <1>4 DEF ReadEnvelope, ReadChunk, Reads
    <3> QED BY <1>1, <1>4, <3>1, TakesIs DEF ReadEnvelope, ReadChunk, Reads, Takes
  <2>2. PICK P, E : P = Tail(Q) /\ E = Tail(D)
    OBVIOUS
  <2>3. /\ Q # <<>> /\ P \in Seq(Sender(e)) /\ E \in Seq(Nat) /\ Carries(e, P, E)'
        /\ expect'[o] = expect[o] + 1
    BY <1>2, <1>4, <2>2, CarriesRead
  <2>4. Untouched(e, P)'
    BY <1>2, <2>1, <2>2, <2>3, UntouchedRead
  <2>5. Direction(o)'
    <3>1. pending'[e] = pending[e] /\ got'[e] = got[e] /\ expect'[e] = expect[e]
      <4>1. ReadTypes
        BY DEF ConnTypes
      <4>2. CASE ReadEnvelope(o)
        <5>1. pending'[e] = pending[e]
          BY <1>1, <4>2, ReadEnvelopeIs
        <5>2. got'[e] = got[e]
          BY <1>1, <4>1, <4>2 DEF ReadEnvelope, ReadTypes
        <5>3. expect'[e] = expect[e]
          BY <1>1, <2>1, <4>1, CountIs
        <5> QED BY <5>1, <5>2, <5>3
      <4>3. CASE ReadChunk(o)
        <5>1. pending'[e] = pending[e]
          BY <1>1, <4>3, ReadChunkIs
        <5>2. got'[e] = got[e]
          BY <1>1, <4>1, <4>3 DEF ReadChunk, ReadTypes
        <5>3. expect'[e] = expect[e]
          BY <1>1, <2>1, <4>1, CountIs
        <5> QED BY <5>1, <5>2, <5>3
      <4> QED BY <1>4, <4>2, <4>3
    <3>2. Rests(o) /\ faults' = faults /\ \A d \in Ends : hs'[d] = hs[d] \/ hs'[d] = "failed"
      BY <1>1, <2>1, <3>1 DEF Rests, hsVars, writeVars
    <3> QED BY <1>1, <2>1, <3>2, DirectionRests
  <2>6. NoFalseAlarm'
    BY <2>1 DEF NoFalseAlarm
  <2> QED BY <1>3, <2>1, <2>3, <2>4, <2>5, <2>6 DEF Direction
<1>5. CASE ReadFails(o)
  <2>1. /\ Takes(o) /\ net'[o] = net[o] /\ Range(net'[e]) \subseteq Range(net[e])
        /\ UNCHANGED <<hsVars, writeVars, up, faults, expect, pending, got>>
    BY <1>1, <1>5, TakesIs DEF ReadFails, Takes
  <2>2. faults # 0
    <3> SUFFICES ASSUME faults = 0 PROVE FALSE
      OBVIOUS
    <3>1. Opens(o, Arrived(o))
      BY <1>2, <2>1, UntouchedOpens
    <3>2. /\ Q # <<>> /\ Q[1] \in Sender(e) /\ Arrived(o).rec = Record(Q[1])
          /\ Q[1].sid = 0 \/ Expected(pending[o], Q[1])
      BY <1>2, <2>1, <3>1, OpenedIs
    <3>3. Arrived(o).rec.tag = "chunk" /\ Arrived(o).rec.sid \notin DOMAIN pending[o]
      BY <1>5, <3>1 DEF ReadFails
    <3>4. Q[1].part = "chunk" /\ Q[1].sid # 0 /\ Arrived(o).rec.sid = Q[1].sid
      BY <3>2, <3>3, RecordIs, SenderIs
    <3> QED BY <3>2, <3>3, <3>4 DEF Expected
  <2>3. Rests(e) /\ Rests(o)
    BY <1>1, <2>1 DEF Rests, hsVars, writeVars
  <2>4. Direction(e)'
    <3>1. Untouched(e, Q)'
      BY <2>1, <2>2 DEF Untouched
    <3>2. Carries(e, Q, D)'
      BY <1>2, <2>3, CarriesRest
    <3> QED BY <3>1, <3>2 DEF Direction
  <2>5. Direction(o)'
    <3>1. faults' = faults /\ \A d \in Ends : hs'[d] = hs[d] \/ hs'[d] = "failed"
      BY <2>1 DEF hsVars
    <3> QED BY <1>1, <2>1, <2>3, <3>1, DirectionRests
  <2>6. NoFalseAlarm'
    BY <2>1, <2>2 DEF NoFalseAlarm
  <2> QED BY <1>3, <2>1, <2>4, <2>5, <2>6
<1>6. CASE ReadCut(o)
  <2>1. /\ rd' = [rd EXCEPT ![o] = "closed"]
        /\ UNCHANGED <<hsVars, writeVars, expect, pending, got, netVars>>
    BY <1>6 DEF ReadCut
  <2>2. net' = net /\ faults' = faults
    BY <2>1 DEF netVars
  <2>3. HandshakeInv' /\ SendsInv'
    BY <2>1, <2>2, OthersRest
  <2>4. NetInv'
    BY <2>2 DEF NetInv
  <2>5. ASSUME NEW d \in Ends PROVE Rests(d) /\ net'[d] = net[d]
    BY <2>1, <2>2 DEF Rests, hsVars, writeVars, netVars
  <2>6. Direction(e)' /\ Direction(o)'
    <3>1. \A d \in Ends : hs'[d] = hs[d] \/ hs'[d] = "failed"
      BY <2>1 DEF hsVars
    <3> QED BY <1>1, <2>2, <2>5, <3>1, DirectionRests
  <2>7. NoFalseAlarm'
    <3>1. \A d \in Ends : rd'[d] = rd[d] \/ rd'[d] = "closed"
      BY <2>1 DEF ConnTypes, ReadTypes
    <3> QED BY <2>2, <3>1 DEF NoFalseAlarm
  <2> QED BY <2>3, <2>4, <2>6, <2>7
<1> QED BY <1>4, <1>5, <1>6 DEF Read

\* The network tampers with a frame.
LEMMA FaultKeeps ==
    ASSUME ConnTypes, HandshakeInv, NetInv, SendsInv, NEW e \in Ends,
           Direction(e), Direction(Peer(e)), Fault(e)
    PROVE  /\ HandshakeInv' /\ NetInv' /\ SendsInv' /\ Direction(e)' /\ Direction(Peer(e))'
           /\ NoFalseAlarm'
<1> DEFINE o == Peer(e)
<1>1. o \in Ends /\ o # e /\ \A d \in Ends : d = e \/ d = o
  BY PeerIs
<1>2. /\ net[e] # <<>> /\ net'[o] = net[o] /\ Len(net'[e]) <= Len(net[e]) + 1
      /\ Range(net'[e]) \subseteq Range(net[e]) \cup {Garbage}
      /\ net'[e] \in Seq(Frame) /\ net[e] \in Seq(Frame)
  BY FaultIs DEF ConnTypes, NetTypes
<1>3. faults' = faults + 1 /\ UNCHANGED <<hsVars, writeVars, readVars, up>>
  BY DEF Fault
<1>4. faults \in Nat /\ faults' # 0
  <2>1. faults \in Nat
    BY ConnAssumption DEF ConnTypes, NetTypes
  <2> QED BY <1>3, <2>1
<1>5. HandshakeInv' /\ SendsInv'
  BY <1>1, <1>2, <1>3, OthersRest
<1>6. NetInv'
  <2>1. Len(net[e]) \in Nat /\ Len(net[o]) \in Nat /\ Len(net'[e]) \in Nat /\ NetCap \in Nat
    BY <1>1, <1>2, ConnAssumption DEF ConnTypes, NetTypes
  <2>2. Len(net[e]) <= NetCap + faults /\ Len(net[o]) <= NetCap + faults
    BY <1>1 DEF NetInv
  <2>3. Len(net'[e]) <= NetCap + faults'
    BY <1>2, <1>3, <1>4, <2>1, <2>2
  <2>4. Len(net'[o]) <= NetCap + faults'
    BY <1>2, <1>3, <1>4, <2>1, <2>2
  <2> QED BY <1>1, <2>3, <2>4 DEF NetInv
<1>7. ASSUME NEW d \in Ends, Direction(d) PROVE Direction(d)'
  <2>1. PICK Q \in Seq(Sender(d)), D \in Seq(Nat) : Carries(d, Q, D) /\ Untouched(d, Q)
    BY <1>7 DEF Direction
  <2>2. Rests(d)
    BY <1>1, <1>2, <1>3 DEF Rests, hsVars, writeVars, readVars
  <2>3. Untouched(d, Q)'
    BY <1>4 DEF Untouched
  <2> QED BY <2>1, <2>2, <2>3, CarriesRest DEF Direction
<1>8. NoFalseAlarm'
  BY <1>4 DEF NoFalseAlarm
<1> QED BY <1>1, <1>5, <1>6, <1>7, <1>8

\* The connection is lost.
LEMMA DownKeeps ==
    ASSUME ConnTypes, HandshakeInv, NetInv, SendsInv, NoFalseAlarm,
           Direction("client"), Direction("server"), GoesDown
    PROVE  /\ HandshakeInv' /\ NetInv' /\ SendsInv' /\ NoFalseAlarm'
           /\ Direction("client")' /\ Direction("server")'
<1>1. /\ \A e \in Ends : \A w \in Writers(e) : writer'[e][w] = Idle
      /\ UNCHANGED <<hsVars, nonce, outSeq, sent, readVars, net, faults>>
  BY DEF GoesDown
<1>2. HandshakeInv'
  BY <1>1 DEF HandshakeInv, Authenticated, hsVars
<1>3. NetInv'
  BY <1>1 DEF NetInv
<1>4. SendsInv'
  <2>1. ASSUME NEW e \in Ends PROVE Len(sent'[e]) + Cardinality(Sending(e)') <= MaxSends[e]
    <3>1. Sending(e)' = {} /\ Cardinality({}) = 0
      BY <1>1, FS_EmptySet DEF Sending
    <3>2. Cardinality(Sending(e)) \in Nat /\ Len(sent[e]) \in Nat /\ MaxSends[e] \in Nat \ {0}
      BY SendingFinite
    <3>3. Len(sent[e]) + Cardinality(Sending(e)) <= MaxSends[e]
      BY DEF SendsInv
    <3>4. Len(sent[e]) + 0 <= MaxSends[e]
      BY <3>2, <3>3
    <3> QED BY <1>1, <3>1, <3>4
  <2> QED BY <2>1 DEF SendsInv
<1>5. NoFalseAlarm'
  BY <1>1 DEF NoFalseAlarm, readVars
<1>6. ASSUME NEW d \in Ends, Direction(d) PROVE Direction(d)'
  <2>1. PICK Q \in Seq(Sender(d)), D \in Seq(Nat) : Carries(d, Q, D) /\ Untouched(d, Q)
    BY <1>6 DEF Direction
  <2>2. Carries(d, Q, D)'
    BY <2>1, CarriesDown
  <2>3. Untouched(d, Q)'
    BY <1>1, <2>1, UntouchedRest DEF hsVars, readVars
  <2> QED BY <2>2, <2>3 DEF Direction
<1> QED BY <1>2, <1>3, <1>4, <1>5, <1>6 DEF Ends

-----------------------------------------------------------------------------
(* The invariant *)

\* At first there is nothing under way.
LEMMA InitInv == Init => ConnInv
<1> SUFFICES ASSUME Init PROVE ConnInv
  OBVIOUS
<1>1. /\ psk \in [Ends -> PSKs] /\ up = TRUE /\ faults = 0
      /\ hs["client"] = "start" /\ hs["server"] = "wait"
      /\ \A e \in Ends : /\ hs[e] # "up"
                         /\ \A w \in Writers(e) : writer[e][w] = Idle
                         /\ Sending(e) = {}
                         /\ nonce[e] = 0 /\ expect[e] = 0 /\ outSeq[e] = 0
                         /\ pending[e] = NoStreams /\ rd[e] = "ok"
                         /\ net[e] = <<>> /\ sent[e] = <<>> /\ got[e] = <<>>
  BY DEF Init, Ends, Sending
<1>2. DOMAIN NoStreams = {}
  BY DEF NoStreams
<1>3. ConnTypes
  <2>1. HsTypes
    BY DEF Init, HsTypes
  <2>2. WriteTypes
    <3>1. DOMAIN writer = Ends /\ DOMAIN sent = Ends
      BY DEF Init
    <3>2. \A e \in Ends : writer[e] \in [Writers(e) -> {Idle} \cup Sender(e)]
      BY DEF Init
    <3>3. nonce \in [Ends -> Nat] /\ outSeq \in [Ends -> Nat]
      BY DEF Init
    <3> QED BY <1>1, <3>1, <3>2, <3>3, EmptySeq DEF WriteTypes
  <2>3. ReadTypes
    <3>1. DOMAIN pending = Ends
      BY DEF Init
    <3>2. \A e \in Ends : pending[e] \in [DOMAIN pending[e] -> Stream]
      BY <1>1, <1>2 DEF NoStreams
    <3>3. expect \in [Ends -> Nat] /\ rd \in [Ends -> {"ok", "closed", "decrypt", "unknown stream"}]
      BY DEF Init
    <3>4. got \in [Ends -> Seq(Message)]
      BY EmptySeq DEF Init
    <3> QED BY <3>1, <3>2, <3>3, <3>4 DEF ReadTypes
  <2>4. NetTypes
    <3>1. net \in [Ends -> Seq(Frame)]
      BY EmptySeq DEF Init
    <3>2. faults \in 0..MaxFaults
      BY <1>1, ConnAssumption
    <3> QED BY <1>1, <3>1, <3>2 DEF NetTypes
  <2> QED BY <2>1, <2>2, <2>3, <2>4 DEF ConnTypes
<1>4. HandshakeInv
  BY <1>1 DEF HandshakeInv, Authenticated, Ends
<1>5. NetInv
  BY <1>1, ConnAssumption DEF NetInv
<1>6. SendsInv
  <2>1. Cardinality({}) = 0
    BY FS_EmptySet
  <2>2. \A e \in Ends : MaxSends[e] \in Nat \ {0}
    BY ConnAssumption DEF Ends
  <2>3. ASSUME NEW e \in Ends PROVE Len(sent[e]) + Cardinality(Sending(e)) <= MaxSends[e]
    <3>1. sent[e] = <<>> /\ Sending(e) = {}
      BY <1>1
    <3>2. Len(sent[e]) = 0
      BY <3>1
    <3>3. Cardinality(Sending(e)) = 0
      BY <2>1, <3>1
    <3> QED BY <2>2, <3>2, <3>3
  <2> QED BY <2>3 DEF SendsInv
<1>7. ASSUME NEW e \in Ends PROVE Direction(e)
  <2> DEFINE o == Peer(e)
  <2>1. o \in Ends
    BY PeerIs
  <2>2. PICK Q, D : Q = <<>> /\ D = <<0>>
    OBVIOUS
  <2>3. Q \in Seq(Sender(e)) /\ D \in Seq(Nat) /\ Len(Q) = 0 /\ Len(D) = 1 /\ D[1] = 0
    BY <2>2
  <2>4. SealsInOrder(e, Q)
    BY <1>1, <2>1, <2>3, IdleIs DEF SealsInOrder
  <2>5. FramesGenuine(e, Q)
    BY <1>1 DEF FramesGenuine, Range
  <2>6. CompletesInOrder(e, Q, D)
    BY <1>1, <2>1, <2>3 DEF CompletesInOrder, Completes
  <2>7. StreamsInTurn(e, Q) /\ StreamIDs(e, Q)
    BY <1>1, <1>2, <2>1, <2>3 DEF StreamsInTurn, StreamIDs
  <2>8. Untouched(e, Q)
    BY <1>1, <2>1 DEF Untouched
  <2> QED BY <2>2, <2>3, <2>4, <2>5, <2>6, <2>7, <2>8 DEF Direction, Carries
<1>8. NoFalseAlarm
  BY <1>1 DEF NoFalseAlarm
<1> QED BY <1>3, <1>4, <1>5, <1>6, <1>7, <1>8 DEF ConnInv

\* Every step keeps it.
LEMMA NextInv == ConnInv /\ [Next]_vars => ConnInv'
<1> SUFFICES ASSUME ConnInv, [Next]_vars PROVE ConnInv'
  OBVIOUS
<1>1. /\ ConnTypes /\ HandshakeInv /\ NetInv /\ SendsInv /\ NoFalseAlarm
      /\ \A e \in Ends : Direction(e) /\ Direction(Peer(e))
      /\ Direction("client") /\ Direction("server")
  BY PeerIs DEF ConnInv, Ends
<1>2. ConnTypes'
  BY <1>1, NextTypes
<1>3. ASSUME NEW e \in Ends, Direction(e)', Direction(Peer(e))'
      PROVE  \A d \in Ends : Direction(d)'
  BY <1>3, PeerIs
<1>4. ASSUME Direction("client")', Direction("server")'
      PROVE  \A d \in Ends : Direction(d)'
  BY <1>4 DEF Ends
<1>5. CASE Handshake
  <2>1. SendsInv' /\ NoFalseAlarm'
    <3>1. UNCHANGED <<writer, sent, rd, faults>>
      BY <1>5 DEF Handshake, ClientHello, ServerAnswers, ClientFinishes, HandshakeCut,
                  writeVars, readVars, netVars
    <3> QED BY <1>1, <3>1 DEF SendsInv, Sending, NoFalseAlarm
  <2>2. HandshakeInv' /\ NetInv' /\ Direction("client")' /\ Direction("server")'
    BY <1>1, <1>5, HelloKeeps, AnswerKeeps, FinishKeeps, CutKeeps DEF Handshake
  <2> QED BY <1>2, <1>4, <2>1, <2>2 DEF ConnInv
<1>6. ASSUME NEW e \in Ends, NEW w \in Writers(e),
             Step(e, w) \/ \E m \in Messages(e) : Begin(e, w, m)
      PROVE  ConnInv'
  <2>1. HandshakeInv' /\ NetInv' /\ SendsInv' /\ Direction(e)' /\ Direction(Peer(e))'
    BY <1>1, <1>6, BeginKeeps, SealKeeps, WriteKeeps DEF Step
  <2>2. NoFalseAlarm'
    <3>1. UNCHANGED <<rd, faults>>
      BY <1>6 DEF Step, SealRecord, WriteRecord, Begin, readVars, netVars
    <3> QED BY <1>1, <3>1 DEF NoFalseAlarm
  <2> QED BY <1>2, <1>3, <2>1, <2>2 DEF ConnInv
<1>7. ASSUME NEW e \in Ends, Read(e) PROVE ConnInv'
  <2>1. Peer(e) \in Ends /\ Peer(Peer(e)) = e
    BY PeerIs
  <2>2. Direction(Peer(Peer(e))) /\ Read(Peer(Peer(e))) /\ Direction(Peer(e))
    BY <1>1, <1>7, <2>1
  <2>3. /\ HandshakeInv' /\ NetInv' /\ SendsInv' /\ NoFalseAlarm'
        /\ Direction(Peer(e))' /\ Direction(Peer(Peer(e)))'
    BY <1>1, <2>1, <2>2, ReadKeeps
  <2> QED BY <1>2, <1>3, <2>1, <2>3 DEF ConnInv
<1>8. ASSUME NEW e \in Ends, Fault(e) PROVE ConnInv'
  <2>1. /\ HandshakeInv' /\ NetInv' /\ SendsInv' /\ NoFalseAlarm'
        /\ Direction(e)' /\ Direction(Peer(e))'
    BY <1>1, <1>8, FaultKeeps
  <2> QED BY <1>2, <1>3, <2>1 DEF ConnInv
<1>9. CASE CloseFailed \/ Disconnect
  <2>1. GoesDown
    BY <1>9 DEF CloseFailed, Disconnect
  <2>2. /\ HandshakeInv' /\ NetInv' /\ SendsInv' /\ NoFalseAlarm'
        /\ Direction("client")' /\ Direction("server")'
    BY <1>1, <2>1, DownKeeps
  <2> QED BY <1>2, <1>4, <2>2 DEF ConnInv
<1>10. CASE UNCHANGED vars
  <2>1. UNCHANGED <<psk, hs, writer, nonce, outSeq, sent, expect, pending, rd, got, net, up,
                    faults>>
    BY <1>10 DEF vars, hsVars, writeVars, readVars, netVars
  <2>2. HandshakeInv' /\ NetInv' /\ SendsInv' /\ NoFalseAlarm'
    BY <1>1, <2>1 DEF HandshakeInv, Authenticated, NetInv, SendsInv, Sending, NoFalseAlarm
  <2>3. \A d \in Ends : Rests(d)
    BY <2>1 DEF Rests
  <2>4. \A d \in Ends : Direction(d)'
    BY <1>1, <2>1, <2>3, DirectionRests
  <2> QED BY <1>2, <2>2, <2>4 DEF ConnInv
<1> QED BY <1>5, <1>6, <1>7, <1>8, <1>9, <1>10 DEF Next

\* The inductive invariant holds, whatever the goroutines and the network do.
THEOREM ConnInvCorrect == Spec => []ConnInv
<1>1. Init => ConnInv
  BY InitInv
<1>2. ConnInv /\ [Next]_vars => ConnInv'
  BY NextInv
<1> QED BY <1>1, <1>2, PTL DEF Spec

\* An end that is through the handshake (noise.Handshake) has a peer with its key.
THEOREM AuthenticatedCorrect == Spec => []Authenticated
<1>1. ConnInv => Authenticated
  BY DEF ConnInv, HandshakeInv
<1> QED BY <1>1, ConnInvCorrect, PTL

\* With an honest network ReadMessage fails only once the connection is down.
THEOREM NoFalseAlarmCorrect == Spec => []NoFalseAlarm
<1>1. ConnInv => NoFalseAlarm
  BY DEF ConnInv
<1> QED BY <1>1, ConnInvCorrect, PTL

-----------------------------------------------------------------------------
(* What is written and not yet given *)

\* What an end was given is a beginning of what its peer wrote.
LEMMA GivenIs ==
    ASSUME ConnInv, NEW e \in Ends
    PROVE  /\ sent[e] \in Seq(Messages(e)) /\ got[Peer(e)] \in Seq(Messages(e))
           /\ Len(got[Peer(e)]) <= Len(sent[e])
           /\ \A i \in 1..Len(got[Peer(e)]) : got[Peer(e)][i] = sent[e][i]
<1> DEFINE g == got[Peer(e)]
           s == sent[e]
           M == Messages(e)
<1>1. s \in Seq(M) /\ g \in Seq(Message)
  BY PeerIs DEF ConnInv, ConnTypes, WriteTypes, ReadTypes
<1>2. Len(g) <= Len(s) /\ \A i \in 1..Len(g) : g[i] = s[i]
  BY DEF ConnInv, Direction, Carries, CompletesInOrder, Completes
<1> HIDE DEF g, s, M
<1>3. Len(g) \in Nat /\ Len(s) \in Nat /\ g = [i \in 1..Len(g) |-> g[i]]
  BY <1>1
<1>4. \A i \in 1..Len(g) : g[i] \in M
  BY <1>1, <1>2, <1>3
<1>5. g \in Seq(M)
  BY <1>3, <1>4
<1> QED BY <1>1, <1>2, <1>5 DEF g, s, M

\* Types and sizes are as declared, so no sequence mixes the two directions.
THEOREM TypeCorrect == Spec => []TypeOK
<1>1. ASSUME ConnInv PROVE TypeOK
  <2>1. ConnTypes /\ NetInv
    BY <1>1 DEF ConnInv
  <2>2. \A e \in Ends : \A w \in Sending(e) :
            writer[e][w].pc \in {"ready", "sealed"} /\ writer[e][w].msg \in Messages(e)
    <3>1. \A e \in Ends : \A w \in Sending(e) : writer[e][w] \in Sender(e)
      BY <2>1 DEF ConnTypes, WriteTypes, Sending
    <3> QED BY <3>1, SenderIs
  <2>3. \A e \in Ends : sent[e] \in Seq(Messages(e)) /\ got[e] \in Seq(Messages(Peer(e)))
    BY <1>1, PeerIs, GivenIs
  <2>4. ASSUME NEW e \in Ends PROVE Len(net[e]) <= NetCap + MaxFaults
    <3>1. net[e] \in Seq(Frame) /\ faults \in 0..MaxFaults
      BY <2>1 DEF ConnTypes, NetTypes
    <3>2. Len(net[e]) \in Nat /\ NetCap \in Nat /\ MaxFaults \in Nat
      BY <3>1, ConnAssumption
    <3>3. Len(net[e]) <= NetCap + faults
      BY <2>1 DEF NetInv
    <3> QED BY <3>1, <3>2, <3>3
  <2> QED BY <2>1, <2>2, <2>3, <2>4 DEF TypeOK, ConnTypes, HsTypes, NetTypes
<1> QED BY <1>1, ConnInvCorrect, PTL

\* What follows g in s.
Beyond(g, s) == SubSeq(s, Len(g) + 1, Len(s))

\* It is a sequence of the elements of s from there on.
LEMMA BeyondIs ==
    ASSUME NEW M, NEW g \in Seq(M), NEW s \in Seq(M), Len(g) <= Len(s)
    PROVE  /\ Beyond(g, s) \in Seq(M) /\ Len(Beyond(g, s)) = Len(s) - Len(g)
           /\ \A i \in 1..(Len(s) - Len(g)) : Beyond(g, s)[i] = s[Len(g) + i]
<1> DEFINE m == Len(g) + 1
           n == Len(s)
           t == SubSeq(s, m, n)
<1>1. m \in Nat /\ n \in Nat /\ m >= 1 /\ Len(g) \in Nat
  BY LenProperties
<1>2. t \in Seq(M) /\ Len(t) = (IF m <= n THEN n - m + 1 ELSE 0)
      /\ \A i \in 1..(n - m + 1) : t[i] = s[m + i - 1]
  BY <1>1, SectionType
<1> HIDE DEF t
<1>3. Len(t) = n - Len(g) /\ n - m + 1 = n - Len(g)
  BY <1>1, <1>2
<1>4. \A i \in 1..(n - Len(g)) : m + i - 1 = Len(g) + i
  BY <1>1
<1>5. \A i \in 1..(n - Len(g)) : t[i] = s[Len(g) + i]
  BY <1>2, <1>3, <1>4
<1> QED BY <1>2, <1>3, <1>5 DEF Beyond, t

\* An element added to s is added to what follows g.
LEMMA BeyondMore ==
    ASSUME NEW M, NEW g \in Seq(M), NEW s \in Seq(M), Len(g) <= Len(s), NEW m \in M
    PROVE  Beyond(g, Append(s, m)) = Append(Beyond(g, s), m)
<1>1. PICK t : t = Append(s, m)
  OBVIOUS
<1>2. /\ t \in Seq(M) /\ Len(t) = Len(s) + 1 /\ t[Len(s) + 1] = m
      /\ \A i \in 1..Len(s) : t[i] = s[i]
      /\ Len(s) \in Nat /\ Len(g) \in Nat
  BY <1>1
<1>3. PICK b, a, c : b = Beyond(g, t) /\ a = Beyond(g, s) /\ c = Append(a, m)
  OBVIOUS
<1>4. /\ b \in Seq(M) /\ Len(b) = Len(t) - Len(g)
      /\ \A i \in 1..(Len(t) - Len(g)) : b[i] = t[Len(g) + i]
  BY <1>2, <1>3, BeyondIs
<1>5. /\ a \in Seq(M) /\ Len(a) = Len(s) - Len(g)
      /\ \A i \in 1..(Len(s) - Len(g)) : a[i] = s[Len(g) + i]
  BY <1>3, BeyondIs
<1>6. /\ c \in Seq(M) /\ Len(c) = Len(a) + 1 /\ c[Len(a) + 1] = m
      /\ \A i \in 1..Len(a) : c[i] = a[i]
  BY <1>3, <1>5
<1>7. Len(b) = Len(c)
  BY <1>2, <1>4, <1>5, <1>6
<1>8. ASSUME NEW i \in 1..Len(b) PROVE b[i] = c[i]
  <2>1. i \in 1..(Len(t) - Len(g)) /\ b[i] = t[Len(g) + i]
    BY <1>2, <1>4
  <2>2. CASE i = Len(s) - Len(g) + 1
    <3>1. Len(g) + i = Len(s) + 1 /\ i = Len(a) + 1
      BY <1>2, <1>5, <2>2
    <3> QED BY <1>2, <1>6, <2>1, <3>1
  <2>3. CASE i # Len(s) - Len(g) + 1
    <3>1. i \in 1..(Len(s) - Len(g)) /\ Len(g) + i \in 1..Len(s) /\ i \in 1..Len(a)
      BY <1>2, <1>5, <2>1, <2>3
    <3> QED BY <1>2, <1>5, <1>6, <2>1, <3>1
  <2> QED BY <2>2, <2>3
<1>9. b = c
  BY <1>4, <1>6, <1>7, <1>8, SeqEqual
<1> QED BY <1>1, <1>3, <1>9

\* An element added to g is taken from what follows it.
LEMMA BeyondFewer ==
    ASSUME NEW M, NEW g \in Seq(M), NEW s \in Seq(M), NEW m, NEW h \in Seq(M),
           h = Append(g, m), Len(h) <= Len(s)
    PROVE  Beyond(g, s) # <<>> /\ Beyond(h, s) = Tail(Beyond(g, s))
<1>1. Len(h) = Len(g) + 1 /\ Len(s) \in Nat /\ Len(g) \in Nat /\ Len(h) \in Nat
  OBVIOUS
<1>2. Len(g) <= Len(s)
  BY <1>1
<1>3. PICK b, a, c : b = Beyond(h, s) /\ a = Beyond(g, s) /\ c = Tail(a)
  OBVIOUS
<1>4. /\ b \in Seq(M) /\ Len(b) = Len(s) - Len(h)
      /\ \A i \in 1..(Len(s) - Len(h)) : b[i] = s[Len(h) + i]
  BY <1>3, BeyondIs
<1>5. /\ a \in Seq(M) /\ Len(a) = Len(s) - Len(g)
      /\ \A i \in 1..(Len(s) - Len(g)) : a[i] = s[Len(g) + i]
  BY <1>2, <1>3, BeyondIs
<1>6. Len(a) > 0 /\ a # <<>>
  BY <1>1, <1>5
<1>7. c \in Seq(M) /\ Len(c) = Len(a) - 1 /\ \A i \in 1..(Len(a) - 1) : c[i] = a[i + 1]
  BY <1>3, <1>5, <1>6
<1>8. Len(b) = Len(c)
  BY <1>1, <1>4, <1>5, <1>7
<1>9. ASSUME NEW i \in 1..Len(b) PROVE b[i] = c[i]
  <2>1. i \in 1..(Len(s) - Len(h)) /\ i \in 1..(Len(a) - 1) /\ i + 1 \in 1..(Len(s) - Len(g))
    BY <1>1, <1>4, <1>5
  <2>2. Len(g) + (i + 1) = Len(h) + i
    BY <1>1, <2>1
  <2>3. b[i] = s[Len(h) + i] /\ c[i] = a[i + 1] /\ a[i + 1] = s[Len(g) + (i + 1)]
    BY <1>4, <1>5, <1>7, <2>1
  <2> QED BY <2>2, <2>3
<1>10. b = c
  BY <1>4, <1>7, <1>8, <1>9, SeqEqual
<1> QED BY <1>3, <1>6, <1>10

\* The refinement mapping: what is written and not yet given.
LEMMA UndeliveredIs ==
    ASSUME ConnInv, NEW e \in Ends
    PROVE  Undelivered(e) = Beyond(got[Peer(e)], sent[e])
<1>1. PICK g, s : g = got[Peer(e)] /\ s = sent[e]
  OBVIOUS
<1>2. /\ s \in Seq(Messages(e)) /\ g \in Seq(Messages(e)) /\ Len(g) <= Len(s)
      /\ \A i \in 1..Len(g) : g[i] = s[i]
  BY <1>1, GivenIs
<1>3. Len(g) \in Nat /\ Len(s) \in Nat /\ 1 \in Nat
  BY <1>2
<1>4. PICK a, b : a = SubSeq(g, 1, Len(g)) /\ b = SubSeq(s, 1, Len(g))
  OBVIOUS
<1>5. /\ a \in Seq(Messages(e)) /\ Len(a) = IF 1 <= Len(g) THEN Len(g) - 1 + 1 ELSE 0
      /\ \A i \in 1..(Len(g) - 1 + 1) : a[i] = g[1 + i - 1]
  BY <1>2, <1>3, <1>4, SectionType
<1>6. /\ b \in Seq(Messages(e)) /\ Len(b) = IF 1 <= Len(g) THEN Len(g) - 1 + 1 ELSE 0
      /\ \A i \in 1..(Len(g) - 1 + 1) : b[i] = s[1 + i - 1]
  BY <1>2, <1>3, <1>4, SectionType
<1>7. Len(a) = Len(g) /\ Len(b) = Len(g)
  BY <1>3, <1>5, <1>6
<1>8. ASSUME NEW i \in 1..Len(a) PROVE a[i] = b[i]
  <2>1. i \in 1..Len(g) /\ i \in 1..(Len(g) - 1 + 1) /\ 1 + i - 1 = i
    BY <1>3, <1>7
  <2>2. a[i] = g[i] /\ b[i] = s[i]
    BY <1>5, <1>6, <2>1
  <2> QED BY <1>2, <2>1, <2>2
<1>9. a = b
  BY <1>5, <1>6, <1>7, <1>8, SeqEqual
<1>10. IsPrefix(g, s)
  BY <1>2, <1>4, <1>9 DEF IsPrefix
<1> QED BY <1>1, <1>10 DEF Undelivered, Beyond

(* How a step shows in the messages: it is about none, or one is written, or one *)
(* is given, or the connection goes down.                                        *)
Silent == (\A e \in Ends : sent'[e] = sent[e]) /\ UNCHANGED <<got, up>>

Writes(e, m) ==
    /\ up
    /\ sent' = [sent EXCEPT ![e] = Append(@, m)]
    /\ UNCHANGED <<got, up>>

Gives(e, m) ==
    /\ got' = [got EXCEPT ![e] = Append(@, m)]
    /\ UNCHANGED <<sent, up>>

\* There is no other step.
LEMMA StepIs ==
    ASSUME ConnTypes, [Next]_vars
    PROVE  \/ Silent
           \/ GoesDown
           \/ \E e \in Ends : \E m \in Messages(e) : Writes(e, m)
           \/ \E e \in Ends : \E m \in Message : Gives(e, m)
<1>1. CASE Handshake
  BY <1>1 DEF Handshake, ClientHello, ServerAnswers, ClientFinishes, HandshakeCut,
              writeVars, readVars, netVars, Silent
<1>2. ASSUME NEW e \in Ends, NEW w \in Writers(e), NEW m \in Messages(e), Begin(e, w, m)
      PROVE  Silent
  BY <1>2 DEF Begin, readVars, netVars, Silent
<1>3. ASSUME NEW e \in Ends, NEW w \in Writers(e), SealRecord(e, w)
      PROVE  Silent
  BY <1>3 DEF SealRecord, readVars, netVars, Silent
<1>4. ASSUME NEW e \in Ends, NEW w \in Writers(e), WriteRecord(e, w)
      PROVE  Silent \/ \E m \in Messages(e) : Writes(e, m)
  <2> DEFINE s == writer[e][w]
  <2>1. /\ s.pc = "sealed" /\ up /\ UNCHANGED <<got, up>>
        /\ sent' = [sent EXCEPT ![e] = IF IsLast(s) THEN Append(@, s.msg) ELSE @]
    BY <1>4 DEF WriteRecord, readVars
  <2>2. s \in Sender(e)
    BY <2>1, IdleIs DEF ConnTypes, WriteTypes
  <2>3. s.msg \in Messages(e)
    BY <2>2, SenderIs
  <2> HIDE DEF s
  <2>4. CASE IsLast(s)
    BY <2>1, <2>3, <2>4 DEF Writes
  <2>5. CASE ~IsLast(s)
    <3>1. DOMAIN sent = Ends
      BY DEF ConnTypes, WriteTypes
    <3>2. sent' = [sent EXCEPT ![e] = sent[e]]
      BY <2>1, <2>5
    <3>3. \A d \in Ends : sent'[d] = sent[d]
      BY <3>1, <3>2
    <3> QED BY <2>1, <3>3 DEF Silent
  <2> QED BY <2>4, <2>5
<1>5. ASSUME NEW e \in Ends, ReadEnvelope(e)
      PROVE  Silent \/ \E m \in Message : Gives(e, m)
  <2> DEFINE rec == Arrived(e).rec
             m == [type |-> rec.type]
  <2>1. /\ Takes(e) /\ rec.tag = "envelope" /\ UNCHANGED <<sent, up>>
        /\ got' = [got EXCEPT ![e] = Append(@, m)] \/ UNCHANGED got
    BY <1>5 DEF ReadEnvelope, Reads, Takes, writeVars
  <2>2. m \in Message
    <3>1. rec.type \in STRING
      BY <2>1, ArrivedIs
    <3> QED BY <3>1 DEF Message
  <2> QED BY <2>1, <2>2 DEF Gives, Silent
<1>6. ASSUME NEW e \in Ends, ReadChunk(e)
      PROVE  Silent \/ \E m \in Message : Gives(e, m)
  <2> DEFINE rec == Arrived(e).rec
             m == Extended(e, rec)
  <2>1. /\ Takes(e) /\ rec.tag = "chunk" /\ rec.sid \in DOMAIN pending[e]
        /\ UNCHANGED <<sent, up>>
        /\ got' = [got EXCEPT ![e] = Append(@, m)] \/ UNCHANGED got
    BY <1>6 DEF ReadChunk, Reads, Takes, writeVars, Extended
  <2>2. m \in Message
    <3>1. rec.payload \in Seq(Bytes) /\ ReadTypes
      BY <2>1, ArrivedIs DEF ConnTypes
    <3>2. m \in Stream
      BY <2>1, <3>1, ExtendedIs
    <3> QED BY <3>2 DEF Message, Stream
  <2> QED BY <2>1, <2>2 DEF Gives, Silent
<1>7. ASSUME NEW e \in Ends, ReadFails(e) \/ ReadCut(e) \/ Fault(e)
      PROVE  Silent
  BY <1>7 DEF ReadFails, ReadCut, Takes, Fault, writeVars, readVars, netVars, Silent
<1>8. CASE CloseFailed \/ Disconnect
  BY <1>8 DEF CloseFailed, Disconnect
<1>9. CASE UNCHANGED vars
  BY <1>9 DEF vars, writeVars, readVars, netVars, Silent
<1> QED
  BY <1>1, <1>2, <1>3, <1>4, <1>5, <1>6, <1>7, <1>8, <1>9 DEF Next, Step, Read

\* That, and how many they are, in every state.
LEMMA UndeliveredAre ==
    ConnInv => \A e \in Ends :
        /\ Undelivered(e) = Beyond(got[Peer(e)], sent[e])
        /\ sent[e] \in Seq(Messages(e)) /\ got[Peer(e)] \in Seq(Messages(e))
        /\ Len(got[Peer(e)]) <= Len(sent[e]) /\ Len(sent[e]) <= MaxSends[e]
<1> SUFFICES ASSUME ConnInv, NEW e \in Ends
             PROVE  /\ Undelivered(e) = Beyond(got[Peer(e)], sent[e])
                    /\ sent[e] \in Seq(Messages(e)) /\ got[Peer(e)] \in Seq(Messages(e))
                    /\ Len(got[Peer(e)]) <= Len(sent[e]) /\ Len(sent[e]) <= MaxSends[e]
  OBVIOUS
<1>1. Len(sent[e]) <= MaxSends[e]
  <2>1. ConnTypes /\ SendsInv
    BY DEF ConnInv
  <2>2. /\ Cardinality(Sending(e)) \in Nat /\ Len(sent[e]) \in Nat
        /\ MaxSends[e] \in Nat \ {0}
    BY <2>1, SendingFinite
  <2>3. Len(sent[e]) + Cardinality(Sending(e)) <= MaxSends[e]
    BY <2>1 DEF SendsInv
  <2> QED BY <2>2, <2>3
<1> QED BY <1>1, GivenIs, UndeliveredIs

\* The same in the state after a step.
LEMMA UndeliveredThen ==
    ConnInv' => \A e \in Ends :
        /\ Undelivered(e)' = Beyond(got'[Peer(e)], sent'[e])
        /\ sent'[e] \in Seq(Messages(e)) /\ got'[Peer(e)] \in Seq(Messages(e))
        /\ Len(got'[Peer(e)]) <= Len(sent'[e]) /\ Len(sent'[e]) <= MaxSends[e]
<1>1. (ConnInv => \A e \in Ends :
        /\ Undelivered(e) = Beyond(got[Peer(e)], sent[e])
        /\ sent[e] \in Seq(Messages(e)) /\ got[Peer(e)] \in Seq(Messages(e))
        /\ Len(got[Peer(e)]) <= Len(sent[e]) /\ Len(sent[e]) <= MaxSends[e])'
  BY UndeliveredAre, PTL
<1> QED BY <1>1

\* A message is written: it joins those of its direction, for which there is room.
LEMMA WritesIs ==
    ASSUME ConnInv, ConnInv', NEW e \in Ends, NEW m \in Messages(e), Writes(e, m)
    PROVE  /\ Undelivered(e)' = Append(Undelivered(e), m)
           /\ Undelivered(Peer(e))' = Undelivered(Peer(e))
           /\ Len(Undelivered(e)) < MaxSends["client"] + MaxSends["server"]
<1> DEFINE o == Peer(e)
<1>1. o \in Ends /\ o # e /\ Peer(o) = e
  BY PeerIs
<1>2. DOMAIN sent = Ends /\ got' = got
  BY DEF ConnInv, ConnTypes, WriteTypes, Writes
<1>3. sent'[e] = Append(sent[e], m) /\ sent'[o] = sent[o]
  BY <1>1, <1>2 DEF Writes
<1>4. \A d \in Ends : Undelivered(d) = Beyond(got[Peer(d)], sent[d])
  BY UndeliveredIs
<1>5. \A d \in Ends : Undelivered(d)' = Beyond(got'[Peer(d)], sent'[d])
  BY UndeliveredThen
<1>6. /\ sent[e] \in Seq(Messages(e)) /\ got[o] \in Seq(Messages(e))
      /\ Len(got[o]) <= Len(sent[e])
  BY GivenIs
<1>7. Beyond(got[o], Append(sent[e], m)) = Append(Beyond(got[o], sent[e]), m)
  BY <1>6, BeyondMore
<1>8. Undelivered(e)' = Append(Undelivered(e), m) /\ Undelivered(o)' = Undelivered(o)
  BY <1>1, <1>2, <1>3, <1>4, <1>5, <1>7 DEF Beyond
<1>9. Len(Undelivered(e)) = Len(sent[e]) - Len(got[o])
  BY <1>4, <1>6, BeyondIs
<1>10. Len(sent'[e]) <= MaxSends[e]
  BY UndeliveredThen
<1>11. Len(sent[e]) < MaxSends[e]
  <2>1. Len(sent'[e]) = Len(sent[e]) + 1 /\ Len(sent[e]) \in Nat
    BY <1>3, <1>6
  <2>2. MaxSends[e] \in Nat
    BY ConnAssumption DEF Ends
  <2> QED BY <1>10, <2>1, <2>2
<1>12. Len(Undelivered(e)) < MaxSends["client"] + MaxSends["server"]
  <2>1. MaxSends["client"] \in Nat /\ MaxSends["server"] \in Nat
    BY ConnAssumption
  <2>2. MaxSends[e] = MaxSends["client"] \/ MaxSends[e] = MaxSends["server"]
    BY DEF Ends
  <2>3. Len(sent[e]) \in Nat /\ Len(got[o]) \in Nat
    BY <1>6
  <2>4. MaxSends[e] <= MaxSends["client"] + MaxSends["server"] /\ MaxSends[e] \in Nat
    BY <2>1, <2>2
  <2>5. \A k, a, b, n, top : k = a - b /\ a \in Nat /\ b \in Nat /\ a < n /\ n <= top
                            /\ n \in Nat /\ top \in Nat => k < top
    OBVIOUS
  <2>6. MaxSends["client"] + MaxSends["server"] \in Nat
    BY <2>1
  <2> HIDE DEF o
  <2> QED BY <1>9, <1>11, <2>3, <2>4, <2>5, <2>6, ZenonT(40)
<1> QED BY <1>8, <1>12

\* A message is given: the first of those of its direction.
LEMMA GivesIs ==
    ASSUME ConnInv, ConnInv', NEW e \in Ends, NEW m \in Message, Gives(Peer(e), m)
    PROVE  /\ Undelivered(e) # <<>> /\ Head(Undelivered(e)) \in Messages(e)
           /\ Undelivered(e)' = Tail(Undelivered(e))
           /\ Undelivered(Peer(e))' = Undelivered(Peer(e))
<1> DEFINE o == Peer(e)
<1>1. o \in Ends /\ o # e /\ Peer(o) = e
  BY PeerIs
<1>2. DOMAIN got = Ends /\ sent' = sent
  BY DEF ConnInv, ConnTypes, ReadTypes, Gives
<1>3. got'[o] = Append(got[o], m) /\ got'[e] = got[e]
  BY <1>1, <1>2 DEF Gives
<1>4. \A d \in Ends : Undelivered(d) = Beyond(got[Peer(d)], sent[d])
  BY UndeliveredIs
<1>5. \A d \in Ends : Undelivered(d)' = Beyond(got'[Peer(d)], sent'[d])
  BY UndeliveredThen
<1>6. sent[e] \in Seq(Messages(e)) /\ got[o] \in Seq(Messages(e)) /\ Len(got[o]) <= Len(sent[e])
  BY GivenIs
<1>7. /\ sent'[e] \in Seq(Messages(e)) /\ got'[o] \in Seq(Messages(e))
      /\ Len(got'[o]) <= Len(sent'[e])
  BY UndeliveredThen
<1>8. /\ Beyond(got[o], sent[e]) # <<>>
      /\ Beyond(got'[o], sent[e]) = Tail(Beyond(got[o], sent[e]))
  <2>1. got'[o] \in Seq(Messages(e)) /\ Len(got'[o]) <= Len(sent[e])
    BY <1>2, <1>7
  <2> QED BY <1>3, <1>6, <2>1, BeyondFewer, ZenonT(40)
<1>9. Undelivered(e)' = Tail(Undelivered(e)) /\ Undelivered(o)' = Undelivered(o)
  BY <1>1, <1>2, <1>3, <1>4, <1>5, <1>8 DEF Beyond
<1>10. Head(Undelivered(e)) \in Messages(e)
  <2>1. Undelivered(e) \in Seq(Messages(e)) /\ Undelivered(e) # <<>>
    BY <1>4, <1>6, <1>8, BeyondIs
  <2> QED BY <2>1
<1> QED BY <1>4, <1>8, <1>9, <1>10

\* Every step is a step of Link, or leaves it as it is.
LEMMA StepRefines ==
    ConnInv /\ ConnInv' /\ [Next]_vars =>
        [Promise!LinkNext(ToServer, ToClient)]_(Promise!wireVars)
<1> SUFFICES ASSUME ConnInv, ConnInv', [Next]_vars
             PROVE  [Promise!LinkNext(ToServer, ToClient)]_(Promise!wireVars)
  OBVIOUS
<1> DEFINE c == Undelivered("client")
           s == Undelivered("server")
<1>1. /\ Peer("client") = "server" /\ Peer("server") = "client"
      /\ Messages("client") = ToServer /\ Messages("server") = ToClient
      /\ "client" \in Ends /\ "server" \in Ends
      /\ \A e \in Ends : e = "client" \/ e = "server"
  BY PeerIs DEF Messages, Ends
<1>2. ASSUME \A e \in Ends : sent'[e] = sent[e], got' = got PROVE c' = c /\ s' = s
  BY <1>1, <1>2 DEF Undelivered
<1>3. CASE Silent
  BY <1>2, <1>3 DEF Silent, Promise!wireVars
<1>4. CASE GoesDown
  <2>1. up /\ up' = FALSE /\ c' = c /\ s' = s
    BY <1>2, <1>4 DEF GoesDown, readVars
  <2>2. Promise!ConnLost
    BY <2>1 DEF Promise!ConnLost
  <2> QED BY <2>2 DEF Promise!LinkNext
<1>5. ASSUME NEW e \in Ends, NEW m \in Messages(e), Writes(e, m)
      PROVE  Promise!LinkNext(ToServer, ToClient)
  <2>1. /\ up /\ up' = up
        /\ Undelivered(e)' = Append(Undelivered(e), m)
        /\ Undelivered(Peer(e))' = Undelivered(Peer(e))
        /\ Len(Undelivered(e)) < MaxSends["client"] + MaxSends["server"]
    BY <1>5, WritesIs DEF Writes
  <2>2. CASE e = "client"
    <3>1. Promise!ClientSends(m) /\ m \in ToServer /\ s' = s
      BY <1>1, <2>1, <2>2 DEF Promise!ClientSends
    <3> QED BY <2>1, <3>1 DEF Promise!LinkNext
  <2>3. CASE e = "server"
    <3>1. Promise!ServerSends(m) /\ m \in ToClient /\ c' = c
      BY <1>1, <2>1, <2>3 DEF Promise!ServerSends
    <3> QED BY <2>1, <3>1 DEF Promise!LinkNext
  <2> QED BY <1>1, <2>2, <2>3
<1>6. ASSUME NEW e \in Ends, NEW m \in Message, Gives(Peer(e), m)
      PROVE  Promise!LinkNext(ToServer, ToClient)
  <2>1. /\ up' = up
        /\ Undelivered(e) # <<>> /\ Head(Undelivered(e)) \in Messages(e)
        /\ Undelivered(e)' = Tail(Undelivered(e))
        /\ Undelivered(Peer(e))' = Undelivered(Peer(e))
    BY <1>6, GivesIs DEF Gives
  <2>2. CASE e = "client"
    <3>1. /\ Promise!ServerReads(Head(c).type) /\ Head(c) \in ToServer /\ s' = s
      BY <1>1, <2>1, <2>2 DEF Promise!ServerReads
    <3> QED BY <2>1, <3>1 DEF Promise!LinkNext
  <2>3. CASE e = "server"
    <3>1. /\ Promise!ClientReads(Head(s).type) /\ Head(s) \in ToClient /\ c' = c
      BY <1>1, <2>1, <2>3 DEF Promise!ClientReads
    <3> QED BY <2>1, <3>1 DEF Promise!LinkNext
  <2> QED BY <1>1, <2>2, <2>3
<1>7. ASSUME NEW e \in Ends, NEW m \in Message, Gives(e, m)
      PROVE  Promise!LinkNext(ToServer, ToClient)
  BY <1>6, <1>7, PeerIs
<1>8. ConnTypes
  BY DEF ConnInv
<1> QED BY <1>3, <1>4, <1>5, <1>7, <1>8, StepIs

\* SendEnvelope, SendContent and ReadMessage keep the promise of Link: whole
\* messages, in order, none twice, whatever the goroutines and the network do.
THEOREM Refinement == Spec => RefinesLink
<1>1. Init => Promise!WireInit
  <2> SUFFICES ASSUME Init PROVE Promise!WireInit
    OBVIOUS
  <2>1. up = TRUE /\ \A e \in Ends : sent[e] = <<>> /\ got[e] = <<>>
    BY DEF Init
  <2>2. ConnInv
    BY InitInv
  <2>3. ASSUME NEW e \in Ends PROVE Undelivered(e) = <<>>
    <3>1. Undelivered(e) = Beyond(<<>>, <<>>)
      BY <2>1, <2>2, UndeliveredIs, PeerIs
    <3>2. <<>> \in Seq(Messages(e)) /\ Len(<<>>) = 0 /\ Len(<<>>) <= Len(<<>>)
      OBVIOUS
    <3>3. PICK t : t = <<>>
      OBVIOUS
    <3>4. t \in Seq(Messages(e)) /\ Len(t) <= Len(t) /\ Len(t) = 0
      BY <3>2, <3>3
    <3>5. Beyond(t, t) \in Seq(Messages(e)) /\ Len(Beyond(t, t)) = Len(t) - Len(t)
      BY <3>4, BeyondIs
    <3>6. Len(Beyond(t, t)) = 0
      BY <3>4, <3>5
    <3>7. Beyond(t, t) = <<>>
      BY <3>5, <3>6
    <3> QED BY <3>1, <3>3, <3>7
  <2> QED BY <2>1, <2>3 DEF Promise!WireInit, Ends
<1>2. ConnInv /\ ConnInv' /\ [Next]_vars =>
            [Promise!LinkNext(ToServer, ToClient)]_(Promise!wireVars)
  BY StepRefines
<1> QED BY <1>1, <1>2, ConnInvCorrect, PTL DEF Spec, RefinesLink
=============================================================================
