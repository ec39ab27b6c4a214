----------------------------- MODULE BlobStore -----------------------------
(***************************************************************************)
(* The content-addressed store that all sessions of a server share, and    *)
(* that outlives the server process (blobstore.go).  Put is its system     *)
(* calls: a temporary file is created, written and renamed to its hash.    *)
(***************************************************************************)
EXTENDS Naturals, Functions

CONSTANTS
    Users,          \* the goroutines that call Put, one call at a time each
    Contents,       \* file contents
    Hash,           \* Hash[c]: the hex SHA-256 of content c
    TempNames,      \* the names CreateTemp draws from
    DiskErrors      \* may a system call fail?

\* No two contents in play share their SHA-256.
ASSUME StoreAssumption ==
    /\ Hash \in [Contents -> Range(Hash)]
    /\ \A c, d \in Contents : Hash[c] = Hash[d] => c = d
    /\ DiskErrors \in BOOLEAN

VARIABLES
    stored,     \* the files named by a hash: hash to content
    temps,      \* the temporary files: name to content, or Incomplete
    left,       \* history: the temporary files of processes that ended
    put         \* put[u]: the Put call of u: [pc, hash, content, tmp, ok]

storeVars == <<stored, temps, left, put>>

Hashes == Range(Hash)
Incomplete == "incomplete"
TempOf(p) == IF p.pc = "idle" THEN {} ELSE p.tmp
NotPutting == [pc |-> "idle"]

\* f with one entry added or replaced, and without one.
With(f, x, y) == [z \in DOMAIN f \cup {x} |-> IF z = x THEN y ELSE f[z]]
Without(f, x) == Restrict(f, DOMAIN f \ {x})

\* Whatever an earlier server left, each content under its own hash.
StoreInit ==
    /\ \E C \in SUBSET Contents :
        stored = [h \in {Hash[c] : c \in C} |-> CHOOSE c \in C : Hash[c] = h]
    /\ temps = [n \in {} |-> n]
    /\ left = {}
    /\ put = [u \in Users |-> NotPutting]

Has(h) == h \in DOMAIN stored

\* Put compares the hashes before it touches the disk.
BeginPut(u, h, c) ==
    /\ put[u] = NotPutting
    /\ put' = [put EXCEPT ![u] =
            [pc |-> IF Hash[c] = h THEN "create" ELSE "return",
             hash |-> h, content |-> c, tmp |-> {}, ok |-> FALSE]]
    /\ UNCHANGED <<stored, temps, left>>

\* A call returns an error, and Put goes to its deferred Remove.
PutFails(u) ==
    /\ put' = [put EXCEPT ![u].pc = "return"]
    /\ UNCHANGED <<stored, temps, left>>

CreateTempShared(u) ==  \* mutant: every Put uses the same temporary file
    /\ put[u].pc = "create"
    /\ LET name == CHOOSE n \in TempNames : TRUE
       IN  /\ temps' = With(temps, name, Incomplete)
           /\ put' = [put EXCEPT ![u].pc = "write", ![u].tmp = {name}]
    /\ UNCHANGED <<stored, left>>

NamesInUse == UNION {TempOf(put[u]) : u \in Users}

FreeNames == TempNames \ (DOMAIN temps \cup NamesInUse)

\* os.CreateTemp makes a file nobody else has, or gives up when it finds no name.
\* Its random name is also taken to differ from that of a file another call has
\* just renamed and will still try to remove.
CreateTemp(u) ==
    /\ put[u].pc = "create"
    /\ \/ LET name == CHOOSE n \in FreeNames : TRUE
          IN  /\ FreeNames # {}
              /\ temps' = With(temps, name, Incomplete)
              /\ put' = [put EXCEPT ![u].pc = "write", ![u].tmp = {name}]
              /\ UNCHANGED <<stored, left>>
       \/ (DiskErrors \/ FreeNames = {}) /\ PutFails(u)

\* Write and Close; a write that fails leaves the file incomplete.
WriteTemp(u) ==
    /\ put[u].pc = "write"
    /\ \/ /\ temps' = [n \in DOMAIN temps |->
                        IF n \in put[u].tmp THEN put[u].content ELSE temps[n]]
          /\ put' = [put EXCEPT ![u].pc = "rename"]
          /\ UNCHANGED <<stored, left>>
       \/ DiskErrors /\ PutFails(u)

\* The rename replaces what another session may have stored meanwhile.
RenameTemp(u) ==
    /\ put[u].pc = "rename"
    /\ \/ \E n \in put[u].tmp :
            /\ n \in DOMAIN temps
            /\ stored' = With(stored, put[u].hash, temps[n])
            /\ temps' = Without(temps, n)
            /\ put' = [put EXCEPT ![u].pc = "return", ![u].ok = TRUE]
            /\ UNCHANGED left
       \/ DiskErrors /\ PutFails(u)

PutStep(u) == CreateTemp(u) \/ WriteTemp(u) \/ RenameTemp(u)

PutKeepsTemp(u) ==      \* mutant: the temporary file is removed only on success
    /\ put[u].pc = "return"
    /\ put' = [put EXCEPT ![u] = NotPutting]
    /\ UNCHANGED <<stored, temps, left>>

\* The deferred Remove, which finds nothing after a rename; the caller goes on.
PutReturns(u) ==
    /\ put[u].pc = "return"
    /\ temps' = Restrict(temps, DOMAIN temps \ put[u].tmp)
    /\ put' = [put EXCEPT ![u] = NotPutting]
    /\ UNCHANGED <<stored, left>>

\* The process ends: calls under way are cut off, the files stay.
StoreCrash ==
    /\ put' = [u \in Users |-> NotPutting]
    /\ left' = DOMAIN temps
    /\ UNCHANGED <<stored, temps>>

-----------------------------------------------------------------------------
\* The store is the atomic map that Session takes it for: in one step it gains
\* one whole content under its own hash, or stays as it is; nothing is lost,
\* overwritten by something else or seen half-written, however many sessions put
\* the same blob at once and wherever the process ends (blobstore.go:46).
StoreIsMap ==
    [][stored' # stored => \E c \in Contents : stored' = With(stored, Hash[c], c)]_storeVars

\* A temporary file belongs to a call under way or was left by a process that
\* ended in the middle of one: no Put that returns, with an error or without,
\* leaves its file behind (blobstore.go:61).
TempsOwned ==
    DOMAIN temps \subseteq left \cup NamesInUse
=============================================================================
