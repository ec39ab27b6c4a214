------------------------------ MODULE MCServer ------------------------------
(* A small instance of Server: three clients for two slots, two blobs.        *)
EXTENDS Server

MCProjects == {{<<"sha256", "c1">>, <<"sha256", "c2">>}}
MCHash == [c \in Contents |-> <<"sha256", c>>]
=============================================================================
