-------------------------------- MODULE Wire --------------------------------
(***************************************************************************)
(* The connection between client and server with the messages of           *)
(* internal/protocol, each with the fields that steer its handler.         *)
(***************************************************************************)
EXTENDS FileTree, Link

ClientMessages ==
    [type : {"session.start"}, manifest : Manifests]
    \cup [type : {"blob"}, hash : Hashes, content : Contents]
    \cup [type : {"sync.done", "prompt", "interrupt", "session.end", "unknown", "malformed"}]

ServerMessages ==
    [type : {"sync.request"}, missing : SUBSET Hashes]
    \cup [type : {"file.change"}, change : Changes, content : Contents]
    \cup [type : {"file.change"}, change : [op : {"delete"}, path : Paths]]
    \cup [type : {"session.ready", "stream.event", "turn.done", "error"}]

WireTypeOK ==
    /\ c2s \in Seq(ClientMessages)
    /\ s2c \in Seq(ServerMessages)
    /\ Len(c2s) <= WireCap
    /\ Len(s2c) <= WireCap
    /\ connUp \in BOOLEAN
=============================================================================
