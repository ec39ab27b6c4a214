---------------------------- MODULE MCAnyClient -----------------------------
(* A project of at most one file, or of none; one hash has no content that   *)
(* a client could upload.                                                    *)
EXTENDS AnyClient

MCAncestorsOf == [p \in Paths |-> {}]
MCRank == [p \in Paths |-> 1]
MCHash == [c \in Contents |-> <<"sha256", c>>]
MCHashes == {MCHash[c] : c \in Contents} \cup {<<"sha256", "not uploaded">>}
MCUmask == [m \in Modes |-> m]
=============================================================================
