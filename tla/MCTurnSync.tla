----------------------------- MODULE MCTurnSync -----------------------------
(* Small instances of TurnSync: a file and a directory that compete for the *)
(* name "a", a default-ignored directory "n", and a path the client ignores. *)
EXTENDS TurnSync

MCPaths == {"a", "a/b", "i", "n", "n/x"}
MCAncestorsOf == [p \in MCPaths |->
    CASE p = "a/b" -> {"a"} [] p = "n/x" -> {"n"} [] OTHER -> {}]
MCRank == [p \in MCPaths |->
    CASE p = "a" -> 1 [] p = "a/b" -> 2 [] p = "i" -> 3 [] p = "n" -> 4 [] OTHER -> 5]
MCContents == {"c1", "c2"}
MCHash == [c \in MCContents |-> <<"sha256", c>>]
MCHashes == {MCHash[c] : c \in MCContents}
\* 0o644 and 0o666, which a umask of 022 turns into 0o644
MCModes == {420, 438}
MCUmask == [m \in MCModes |-> 420]
=============================================================================
