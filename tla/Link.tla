-------------------------------- MODULE Link --------------------------------
(***************************************************************************)
(* What one client connection promises the two applications: whole         *)
(* messages, in order, in each direction, until the connection is lost or  *)
(* closed.  SecureConn shows how records, chunks and encryption keep this  *)
(* promise: a message with content appears here when its last chunk is     *)
(* written.                                                                *)
(*                                                                         *)
(* What was sent before the connection went down may still be read or may  *)
(* be lost; nothing can be sent after it.                                  *)
(***************************************************************************)
EXTENDS Naturals, Sequences

CONSTANT WireCap        \* messages in flight before a writer blocks

ASSUME WireAssumption == WireCap \in Nat \ {0}

VARIABLES
    c2s,        \* messages from the client that the server has not read
    s2c,        \* messages from the server that the client has not read
    connUp      \* the WebSocket is open

wireVars == <<c2s, s2c, connUp>>

WireInit ==
    /\ c2s = <<>>
    /\ s2c = <<>>
    /\ connUp = TRUE

\* A server goroutine writes m; it blocks while the connection is full.
ServerSends(m) ==
    /\ connUp
    /\ Len(s2c) < WireCap
    /\ s2c' = Append(s2c, m)

\* A message whose sender ignores the error: lost when the connection is down.
ServerTries(m) ==
    \/ ServerSends(m)
    \/ /\ ~connUp
       /\ UNCHANGED s2c

\* The client writes m.
ClientSends(m) ==
    /\ connUp
    /\ Len(c2s) < WireCap
    /\ c2s' = Append(c2s, m)

\* The server takes the next message, of type t, off the connection.
ServerReads(t) ==
    /\ c2s # <<>>
    /\ Head(c2s).type = t
    /\ c2s' = Tail(c2s)

\* The client takes the next message, of type t, off the connection.
ClientReads(t) ==
    /\ s2c # <<>>
    /\ Head(s2c).type = t
    /\ s2c' = Tail(s2c)

\* The network drops the connection.
ConnLost ==
    /\ connUp
    /\ connUp' = FALSE
    /\ UNCHANGED <<c2s, s2c>>

-----------------------------------------------------------------------------
(* The connection on its own, for a client that sends messages of the set   *)
(* toServer and a server that sends messages of the set toClient.           *)

LinkNext(toServer, toClient) ==
    \/ /\ \/ \E m \in toServer : ClientSends(m)
          \/ \E m \in toServer : ServerReads(m.type)
       /\ UNCHANGED <<s2c, connUp>>
    \/ /\ \/ \E m \in toClient : ServerSends(m)
          \/ \E m \in toClient : ClientReads(m.type)
       /\ UNCHANGED <<c2s, connUp>>
    \/ ConnLost
=============================================================================
