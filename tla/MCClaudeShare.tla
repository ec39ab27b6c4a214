--------------------------- MODULE MCClaudeShare ----------------------------
(* A file and a directory that compete for the name "a", and a path that the    *)
(* client ignores, ranked by an order given as MCOrder.                         *)
EXTENDS ClaudeShare

MCOrder == <<"a", "a/b", "i">>
MCAncestorsOf == [p \in Paths |-> IF p = "a/b" THEN {"a"} ELSE {}]
MCRank == [p \in Paths |-> CHOOSE n \in 1..Len(MCOrder) : MCOrder[n] = p]
MCHash == [c \in Contents |-> <<"sha256", c>>]
MCHashes == {MCHash[c] : c \in Contents}
MCUmask == [m \in Modes |-> m]

\* The first session of a server, whose store is still empty.
FirstInit == Init /\ blobs = NoFiles
FirstSession == FirstInit /\ [][Next]_vars /\ Fairness
=============================================================================
