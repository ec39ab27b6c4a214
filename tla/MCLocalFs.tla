----------------------------- MODULE MCLocalFs ------------------------------
(* Apply with a directory "a" whose name a file may take, and temporary      *)
(* files in it and beside it.                                                *)
EXTENDS LocalFs

MCTemps == {"t1", "t2", "a/t1", "a/t2"}
MCPaths == {"a", "a/b"} \cup MCTemps
MCAncestorsOf == [p \in MCPaths |-> IF p \in {"a/b", "a/t1", "a/t2"} THEN {"a"} ELSE {}]
MCRank == [p \in MCPaths |->
    CASE p = "a" -> 1 [] p = "a/t1" -> 2 [] p = "a/t2" -> 3 [] p = "a/b" -> 4
      [] p = "t1" -> 5 [] OTHER -> 6]
MCContents == {"", "c"}
MCHash == [c \in MCContents |-> <<"sha256", c>>]
MCHashes == {MCHash[c] : c \in MCContents}
\* 0o600, 0o644 and a umask that leaves both alone
MCModes == {384, 420}
MCUmask == [m \in MCModes |-> m]
=============================================================================
