---------------------------- MODULE MCSecureConn ----------------------------
(* A small instance of SecureConn: the client sends a prompt, two goroutines *)
(* of the server send events and files of no bytes, one chunk and two.       *)
EXTENDS SecureConn

MCToServer == {[type |-> "prompt"]}
MCToClient == {[type |-> "stream.event"],
               [type |-> "file.change", content |-> <<>>],
               [type |-> "file.change", content |-> <<1, 2>>],
               [type |-> "file.change", content |-> <<1, 2, 3>>]}
MCMaxSends == [client |-> 1, server |-> 2]
=============================================================================
