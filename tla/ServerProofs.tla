---------------------------- MODULE ServerProofs ----------------------------
(***************************************************************************)
(* The server process with any number of connections, slots, blobs and     *)
(* process ends: the store is an atomic map, what a session was told is in *)
(* it is in it, and the session cap bounds the agents.                     *)
(***************************************************************************)
EXTENDS Server, FiniteSetTheorems, TLAPS

(* The store *)

\* A Put call under way.
Call == [pc : {"create", "write", "rename", "return"}, hash : Hashes,
         content : Contents, tmp : SUBSET TempNames, ok : BOOLEAN]

\* What Put relies on between its system calls.  It goes on only with content of
\* the claimed hash; from CreateTemp to the rename its temporary file exists, is
\* nobody else's and, once written, holds its content.
CallInv(u) ==
    put[u] # NotPutting =>
        /\ put[u] \in Call
        /\ put[u].pc \in {"create", "write", "rename"} => put[u].hash = Hash[put[u].content]
        /\ put[u].pc = "create" => put[u].tmp = {}
        /\ put[u].pc \in {"write", "rename"} =>
            \E n \in DOMAIN temps :
                put[u].tmp = {n} /\ (put[u].pc = "rename" => temps[n] = put[u].content)
        /\ put[u].ok => put[u].hash \in DOMAIN stored

OwnTemps ==
    \A u, v \in Users : u # v => TempOf(put[u]) \cap TempOf(put[v]) = {}

\* Each content is stored under its own hash.
StoredInv ==
    /\ stored = [h \in DOMAIN stored |-> stored[h]]
    /\ \A h \in DOMAIN stored : \E c \in Contents : h = Hash[c] /\ stored[h] = c

StoreInv ==
    /\ put = [u \in Users |-> put[u]]
    /\ \A u \in Users : CallInv(u)
    /\ OwnTemps
    /\ StoredInv
    /\ TempsOwned

\* A store that an earlier process left is in order.
LEMMA InitStore == StoreInit => StoreInv
<1> SUFFICES ASSUME StoreInit PROVE StoreInv
  OBVIOUS
<1>1. put = [u \in Users |-> NotPutting] /\ DOMAIN temps = {}
  BY DEF StoreInit
<1>2. \A u \in Users : put[u] = NotPutting /\ TempOf(put[u]) = {}
  BY <1>1 DEF TempOf, NotPutting
<1>3. PICK C \in SUBSET Contents :
        stored = [h \in {Hash[c] : c \in C} |-> CHOOSE c \in C : Hash[c] = h]
  BY DEF StoreInit
<1>4. \A h \in DOMAIN stored : \E c \in Contents : h = Hash[c] /\ stored[h] = c
  <2> SUFFICES ASSUME NEW c \in C
               PROVE  \E d \in Contents : Hash[c] = Hash[d] /\ stored[Hash[c]] = d
    BY <1>3
  <2> DEFINE d == CHOOSE d \in C : Hash[d] = Hash[c]
  <2>1. d \in C /\ Hash[d] = Hash[c]
    OBVIOUS
  <2>2. stored[Hash[c]] = d
    BY <1>3
  <2> QED BY <2>1, <2>2
<1>5. StoredInv
  BY <1>3, <1>4 DEF StoredInv
<1> QED BY <1>1, <1>2, <1>5 DEF StoreInv, CallInv, OwnTemps, TempsOwned

\* A step of one call keeps StoreInv when the call itself is in order after it,
\* the other calls' temporary files are as they were and no file loses its owner.
LEMMA OneCall ==
    ASSUME StoreInv, NEW u \in Users, NEW p,
           put' = [put EXCEPT ![u] = p],
           CallInv(u)', StoredInv', DOMAIN stored \subseteq DOMAIN stored',
           \A v \in Users \ {u} : \A n \in TempOf(put[v]) :
                /\ n \notin TempOf(p)
                /\ n \in DOMAIN temps => n \in DOMAIN temps' /\ temps'[n] = temps[n],
           DOMAIN temps' \subseteq left' \cup TempOf(p) \cup
                UNION {TempOf(put[v]) : v \in Users \ {u}}
    PROVE  StoreInv'
<1>1. put'[u] = p /\ \A v \in Users \ {u} : put'[v] = put[v]
  BY DEF StoreInv
<1>2. ASSUME NEW v \in Users PROVE CallInv(v)'
  <2>1. CASE v = u
    BY <2>1
  <2>2. CASE v # u
    <3>1. CallInv(v) /\ put'[v] = put[v]
      BY <1>1, <2>2 DEF StoreInv
    <3>2. put[v].pc \in {"write", "rename"} => TempOf(put[v]) = put[v].tmp
      BY DEF TempOf
    <3> QED BY <2>2, <3>1, <3>2 DEF CallInv
  <2> QED BY <2>1, <2>2
<1>3. OwnTemps'
  <2> SUFFICES ASSUME NEW v \in Users, NEW w \in Users, v # w
               PROVE  TempOf(put'[v]) \cap TempOf(put'[w]) = {}
    BY DEF OwnTemps, TempOf
  <2>1. TempOf(put[v]) \cap TempOf(put[w]) = {}
    BY DEF StoreInv, OwnTemps
  <2> QED BY <1>1, <2>1
<1>4. TempsOwned'
  <2>1. TempOf(p) \subseteq NamesInUse'
    BY <1>1 DEF NamesInUse, TempOf
  <2>2. \A v \in Users \ {u} : TempOf(put[v]) \subseteq NamesInUse'
    BY <1>1 DEF NamesInUse, TempOf
  <2> QED BY <2>1, <2>2 DEF TempsOwned
<1>5. (put = [v \in Users |-> put[v]])'
  BY DEF StoreInv
<1> QED BY <1>2, <1>3, <1>4, <1>5 DEF StoreInv

\* TempsOwned in the form OneCall asks for.
LEMMA Owners ==
    ASSUME StoreInv, NEW u \in Users
    PROVE  DOMAIN temps \subseteq left \cup TempOf(put[u]) \cup
                UNION {TempOf(put[v]) : v \in Users \ {u}}
BY DEF StoreInv, TempsOwned, NamesInUse

\* A call starts.
LEMMA BeginKeeps ==
    ASSUME StoreInv, NEW u \in Users, NEW h \in Hashes, NEW c \in Contents, BeginPut(u, h, c)
    PROVE  StoreInv'
<1> DEFINE p == [pc |-> IF Hash[c] = h THEN "create" ELSE "return",
                 hash |-> h, content |-> c, tmp |-> {}, ok |-> FALSE]
<1>1. /\ put' = [put EXCEPT ![u] = p]
      /\ put[u] = NotPutting
      /\ UNCHANGED <<stored, temps, left>>
  BY DEF BeginPut
<1>2. put'[u] = p
  BY <1>1 DEF StoreInv
<1>3. TempOf(p) = {} /\ TempOf(put[u]) = {}
  BY <1>1 DEF TempOf, NotPutting
<1>4. CallInv(u)'
  BY <1>2 DEF CallInv, Call
<1>5. StoredInv'
  BY <1>1 DEF StoreInv, StoredInv
<1> HIDE DEF p
<1> QED BY <1>1, <1>3, <1>4, <1>5, OneCall, Owners

\* A call fails, wherever it is.
LEMMA FailKeeps ==
    ASSUME StoreInv, NEW u \in Users, put[u].pc \in {"create", "write", "rename"}, PutFails(u)
    PROVE  StoreInv'
<1> DEFINE p == [put[u] EXCEPT !.pc = "return"]
<1>1. put' = [put EXCEPT ![u] = p] /\ UNCHANGED <<stored, temps, left>>
  BY DEF PutFails
<1>2. put'[u] = p
  BY <1>1 DEF StoreInv
<1>3. CallInv(u) /\ put[u] # NotPutting
  BY DEF StoreInv, NotPutting
<1>4. TempOf(p) = TempOf(put[u])
  BY <1>3 DEF TempOf, CallInv, Call
<1>5. CallInv(u)'
  BY <1>1, <1>2, <1>3 DEF CallInv, Call
<1>6. StoredInv'
  BY <1>1 DEF StoreInv, StoredInv
<1> HIDE DEF p
<1> QED BY <1>1, <1>4, <1>5, <1>6, OneCall, Owners DEF StoreInv, OwnTemps

\* CreateTemp: the new file is nobody else's.
LEMMA CreateKeeps ==
    ASSUME StoreInv, NEW u \in Users, CreateTemp(u)
    PROVE  StoreInv'
<1>0. put[u].pc = "create" /\ CallInv(u) /\ put[u] # NotPutting
  BY DEF CreateTemp, StoreInv, NotPutting
<1>1. CASE PutFails(u)
  BY <1>0, <1>1, FailKeeps
<1>2. CASE ~PutFails(u)
  <2> DEFINE name == CHOOSE n \in FreeNames : TRUE
             p == [put[u] EXCEPT !.pc = "write", !.tmp = {name}]
  <2>1. /\ FreeNames # {}
        /\ temps' = With(temps, name, Incomplete)
        /\ put' = [put EXCEPT ![u] = p]
        /\ UNCHANGED <<stored, left>>
    BY <1>2 DEF CreateTemp
  <2>2. name \in FreeNames
    BY <2>1
  <2> HIDE DEF name
  <2>3. /\ DOMAIN temps' = DOMAIN temps \cup {name}
        /\ \A n \in DOMAIN temps : temps'[n] = temps[n]
    BY <2>1, <2>2 DEF With, FreeNames
  <2>4. put'[u] = p
    BY <2>1 DEF StoreInv
  <2>5. /\ p \in Call
        /\ p.pc = "write" /\ p.tmp = {name}
        /\ p.hash = put[u].hash /\ p.content = put[u].content /\ p.ok = put[u].ok
    <3>1. put[u] \in Call
      BY <1>0 DEF CallInv
    <3>2. {name} \in SUBSET TempNames
      BY <2>2 DEF FreeNames
    <3> QED BY <3>1, <3>2 DEF Call
  <2>6. TempOf(p) = {name} /\ TempOf(put[u]) = {}
    BY <1>0, <2>5 DEF TempOf, CallInv
  <2>7. CallInv(u)'
    <3>1. p.hash = Hash[p.content] /\ (p.ok => p.hash \in DOMAIN stored)
      BY <1>0, <2>5 DEF CallInv
    <3>2. p.tmp = {name} /\ name \in DOMAIN temps'
      BY <2>3, <2>5
    <3> HIDE DEF p
    <3> QED BY <2>1, <2>4, <2>5, <3>1, <3>2 DEF CallInv
  <2> HIDE DEF p
  <2>8. \A v \in Users : name \notin TempOf(put[v])
    BY <2>2 DEF FreeNames, NamesInUse
  <2>9. StoredInv'
    BY <2>1 DEF StoreInv, StoredInv
  <2>10. DOMAIN temps' \subseteq left' \cup TempOf(p) \cup
            UNION {TempOf(put[v]) : v \in Users \ {u}}
    BY <2>1, <2>3, <2>6, Owners
  <2>11. ASSUME NEW v \in Users \ {u}, NEW n \in TempOf(put[v])
         PROVE  n \notin TempOf(p) /\ (n \in DOMAIN temps => n \in DOMAIN temps' /\
                temps'[n] = temps[n])
    BY <2>3, <2>6, <2>8
  <2>12. DOMAIN stored \subseteq DOMAIN stored'
    BY <2>1
  <2>13. put' = [put EXCEPT ![u] = p]
    BY <2>1
  <2> QED BY <2>7, <2>9, <2>10, <2>11, <2>12, <2>13, OneCall
<1> QED BY <1>1, <1>2

\* Write and Close: the file is complete, or the call fails.
LEMMA WriteKeeps ==
    ASSUME StoreInv, NEW u \in Users, WriteTemp(u)
    PROVE  StoreInv'
<1>0. put[u].pc = "write" /\ CallInv(u) /\ put[u] # NotPutting
  BY DEF WriteTemp, StoreInv, NotPutting
<1>1. CASE PutFails(u)
  BY <1>0, <1>1, FailKeeps
<1>2. CASE ~PutFails(u)
  <2> DEFINE p == [put[u] EXCEPT !.pc = "rename"]
  <2>1. /\ temps' = [n \in DOMAIN temps |-> IF n \in put[u].tmp THEN put[u].content ELSE temps[n]]
        /\ put' = [put EXCEPT ![u] = p]
        /\ UNCHANGED <<stored, left>>
    BY <1>2 DEF WriteTemp
  <2>2. PICK n \in DOMAIN temps : put[u].tmp = {n}
    BY <1>0 DEF CallInv
  <2>3. put[u] \in Call
    BY <1>0 DEF CallInv
  <2>4. /\ p \in Call
        /\ p.pc = "rename" /\ p.tmp = {n}
        /\ p.hash = put[u].hash /\ p.content = put[u].content /\ p.ok = put[u].ok
    BY <2>2, <2>3 DEF Call
  <2> HIDE DEF p
  <2>5. put'[u] = p
    BY <2>1 DEF StoreInv
  <2>6. DOMAIN temps' = DOMAIN temps /\ temps'[n] = p.content
    BY <2>1, <2>2, <2>4
  <2>7. CallInv(u)'
    <3>1. p.hash = Hash[p.content] /\ (p.ok => p.hash \in DOMAIN stored)
      BY <1>0, <2>4 DEF CallInv
    <3> QED BY <2>1, <2>4, <2>5, <2>6, <3>1 DEF CallInv
  <2>8. TempOf(p) = {n} /\ TempOf(put[u]) = {n}
    BY <1>0, <2>2, <2>4 DEF TempOf
  <2>9. StoredInv'
    BY <2>1 DEF StoreInv, StoredInv
  <2>10. ASSUME NEW v \in Users \ {u}, NEW m \in TempOf(put[v])
         PROVE  m \notin TempOf(p) /\ (m \in DOMAIN temps => m \in DOMAIN temps' /\
                temps'[m] = temps[m])
    BY <2>1, <2>2, <2>8 DEF StoreInv, OwnTemps
  <2>11. DOMAIN temps' \subseteq left' \cup TempOf(p) \cup
            UNION {TempOf(put[v]) : v \in Users \ {u}}
    BY <2>1, <2>6, <2>8, Owners
  <2>12. DOMAIN stored \subseteq DOMAIN stored' /\ put' = [put EXCEPT ![u] = p]
    BY <2>1
  <2> QED BY <2>7, <2>9, <2>10, <2>11, <2>12, OneCall
<1> QED BY <1>1, <1>2

\* The rename: the store gains the content of the call under its hash.
LEMMA RenameStores ==
    ASSUME StoreInv, NEW u \in Users, RenameTemp(u), ~PutFails(u)
    PROVE  /\ put[u].pc = "rename" /\ put[u] \in Call
           /\ put[u].hash = Hash[put[u].content]
           /\ stored' = With(stored, Hash[put[u].content], put[u].content)
           /\ \E n \in DOMAIN temps : put[u].tmp = {n} /\ temps' = Without(temps, n)
           /\ put' = [put EXCEPT ![u].pc = "return", ![u].ok = TRUE]
           /\ left' = left
<1>1. put[u].pc = "rename" /\ CallInv(u) /\ put[u] # NotPutting
  BY DEF RenameTemp, StoreInv, NotPutting
<1>2. /\ put[u] \in Call
      /\ put[u].hash = Hash[put[u].content]
      /\ \E n \in DOMAIN temps : put[u].tmp = {n} /\ temps[n] = put[u].content
  BY <1>1 DEF CallInv
<1>3. PICK n \in DOMAIN temps : put[u].tmp = {n} /\ temps[n] = put[u].content
  BY <1>2
<1>4. PICK m \in put[u].tmp :
        /\ m \in DOMAIN temps
        /\ stored' = With(stored, put[u].hash, temps[m])
        /\ temps' = Without(temps, m)
        /\ put' = [put EXCEPT ![u].pc = "return", ![u].ok = TRUE]
        /\ left' = left
  BY DEF RenameTemp
<1>5. m = n
  BY <1>3, <1>4
<1>6. stored' = With(stored, Hash[put[u].content], put[u].content)
  BY <1>2, <1>3, <1>4, <1>5
<1> QED BY <1>1, <1>2, <1>3, <1>4, <1>5, <1>6

\* The rename puts a complete file under its name and gives up the temporary one.
LEMMA RenameKeeps ==
    ASSUME StoreInv, NEW u \in Users, RenameTemp(u)
    PROVE  StoreInv'
<1>0. put[u].pc = "rename"
  BY DEF RenameTemp
<1>1. CASE PutFails(u)
  BY <1>0, <1>1, FailKeeps
<1>2. CASE ~PutFails(u)
  <2> DEFINE p == [put[u] EXCEPT !.pc = "return", !.ok = TRUE]
             c == put[u].content
  <2>1. /\ put[u] \in Call
        /\ put[u].hash = Hash[c]
        /\ stored' = With(stored, Hash[c], c)
        /\ put' = [put EXCEPT ![u].pc = "return", ![u].ok = TRUE]
        /\ left' = left
    BY <1>2, RenameStores
  <2>2. PICK n \in DOMAIN temps : put[u].tmp = {n} /\ temps' = Without(temps, n)
    BY <1>2, RenameStores
  <2>3. c \in Contents
    BY <2>1 DEF Call
  <2>4. put' = [put EXCEPT ![u] = p]
    BY <2>1
  <2>5. p \in Call /\ p.pc = "return" /\ p.tmp = {n} /\ p.hash = Hash[c]
    BY <2>1, <2>2 DEF Call
  <2> HIDE DEF p, c
  <2>6. put'[u] = p
    BY <2>4 DEF StoreInv
  <2>7. DOMAIN stored' = DOMAIN stored \cup {Hash[c]}
    BY <2>1 DEF With
  <2>8. CallInv(u)'
    BY <2>5, <2>6, <2>7 DEF CallInv
  <2>9. StoredInv'
    BY <2>1, <2>3 DEF With, StoreInv, StoredInv
  <2>10. DOMAIN temps' = DOMAIN temps \ {n} /\ \A m \in DOMAIN temps \ {n} : temps'[m] = temps[m]
    BY <2>2 DEF Without, Restrict
  <2>11. TempOf(p) = {n} /\ TempOf(put[u]) = {n}
    BY <1>0, <2>2, <2>5 DEF TempOf
  <2>12. ASSUME NEW v \in Users \ {u}, NEW m \in TempOf(put[v])
         PROVE  m \notin TempOf(p) /\ (m \in DOMAIN temps => m \in DOMAIN temps' /\
                temps'[m] = temps[m])
    BY <2>10, <2>11 DEF StoreInv, OwnTemps
  <2>13. DOMAIN temps' \subseteq left' \cup TempOf(p) \cup
            UNION {TempOf(put[v]) : v \in Users \ {u}}
    BY <2>1, <2>10, <2>11, Owners
  <2> QED BY <2>4, <2>7, <2>8, <2>9, <2>12, <2>13, OneCall
<1> QED BY <1>1, <1>2

\* Put returns: its temporary file is gone.
LEMMA ReturnKeeps ==
    ASSUME StoreInv, NEW u \in Users, PutReturns(u)
    PROVE  StoreInv'
<1>1. /\ put[u].pc = "return"
      /\ temps' = Restrict(temps, DOMAIN temps \ put[u].tmp)
      /\ put' = [put EXCEPT ![u] = NotPutting]
      /\ UNCHANGED <<stored, left>>
  BY DEF PutReturns
<1>2. /\ DOMAIN temps' = DOMAIN temps \ put[u].tmp
      /\ \A n \in DOMAIN temps \ put[u].tmp : temps'[n] = temps[n]
  BY <1>1 DEF Restrict
<1>3. TempOf(NotPutting) = {} /\ TempOf(put[u]) = put[u].tmp
  BY <1>1 DEF TempOf, NotPutting
<1>4. put'[u] = NotPutting
  BY <1>1 DEF StoreInv
<1>5. CallInv(u)'
  BY <1>4 DEF CallInv
<1>6. StoredInv'
  BY <1>1 DEF StoreInv, StoredInv
<1>7. ASSUME NEW v \in Users \ {u}, NEW m \in TempOf(put[v])
      PROVE  /\ m \notin TempOf(NotPutting)
             /\ m \in DOMAIN temps => m \in DOMAIN temps' /\ temps'[m] = temps[m]
  BY <1>2, <1>3 DEF StoreInv, OwnTemps
<1>8. DOMAIN temps' \subseteq left' \cup TempOf(NotPutting) \cup
            UNION {TempOf(put[v]) : v \in Users \ {u}}
  BY <1>1, <1>2, <1>3, Owners
<1> QED BY <1>1, <1>5, <1>6, <1>7, <1>8, OneCall

\* The process ends: every temporary file becomes one that was left behind.
LEMMA CrashKeeps ==
    ASSUME StoreInv, StoreCrash
    PROVE  StoreInv'
<1>1. \A u \in Users : put'[u] = NotPutting /\ TempOf(put'[u]) = {}
  BY DEF StoreCrash, TempOf, NotPutting
<1>2. (put = [u \in Users |-> put[u]])' /\ StoredInv' /\ TempsOwned'
  BY DEF StoreCrash, StoreInv, StoredInv, TempsOwned
<1>3. OwnTemps' /\ \A u \in Users : CallInv(u)'
  BY <1>1 DEF OwnTemps, CallInv, TempOf
<1> QED BY <1>2, <1>3 DEF StoreInv

\* The store is left as it is.
LEMMA SameKeeps ==
    ASSUME StoreInv, UNCHANGED storeVars
    PROVE  StoreInv'
BY DEF StoreInv, storeVars, CallInv, OwnTemps, TempOf, StoredInv, TempsOwned, NamesInUse

-----------------------------------------------------------------------------
(* The handlers *)

SyncTypes ==
    /\ TypeOK
    /\ todo = [c \in Conns |-> todo[c]]
    /\ missing = [c \in Conns |-> missing[c]]

\* What StartSession said is missing is all that is missing, at every stage, and
\* a Put is under way only for something the session still waits for.
SyncInv(c) ==
    /\ pc[c] \in {"none", "handshake", "start"} => missing[c] = {}
    /\ pc[c] = "has" => need[c] \subseteq DOMAIN stored \cup missing[c] \cup todo[c]
    /\ pc[c] = "upload" => need[c] \subseteq DOMAIN stored \cup missing[c]
    /\ pc[c] = "get" => need[c] \subseteq DOMAIN stored
    /\ put[c] # NotPutting => pc[c] = "upload" /\ put[c].hash \in missing[c]

\* The handlers that hold a slot.
Holders == {c \in Conns : pc[c] \notin {"none", "returned"}}

\* The tokens in Server.slots are those of the handlers under way, and an agent
\* runs only under a handler that holds one.
SlotsInv ==
    /\ IsFiniteSet(Holders)
    /\ slots = Cardinality(Holders)
    /\ MaxSessions > 0 => slots <= MaxSessions
    /\ \A c \in Conns : agent[c] = "running" => pc[c] \in {"prompts", "close"}

ServerInv ==
    /\ SyncTypes
    /\ StoreInv
    /\ \A c \in Conns : SyncInv(c)
    /\ SlotsInv

\* A server that has just started is in such a state.
LEMMA InitServer == Init => ServerInv
<1> SUFFICES ASSUME Init PROVE ServerInv
  OBVIOUS
<1>1. StoreInv
  BY InitStore DEF Init
<1>2. TypeOK
  <2>1. stored = [h \in DOMAIN stored |-> stored[h]] /\ DOMAIN stored \in SUBSET Hashes
    BY <1>1, StoreAssumption DEF StoreInv, StoredInv, Hashes, Range
  <2>2. stored \in [DOMAIN stored -> Contents]
    BY <1>1, <2>1 DEF StoreInv, StoredInv
  <2> QED BY <2>1, <2>2, ServerAssumption DEF Init, TypeOK, States
<1>3. SyncTypes /\ \A c \in Conns : SyncInv(c)
  BY <1>2 DEF Init, SyncTypes, SyncInv, StoreInit, Conns
<1>4. SlotsInv
  <2>1. Holders = {}
    BY DEF Init, Holders
  <2> QED BY <2>1, FS_EmptySet, ServerAssumption DEF Init, SlotsInv
<1> QED BY <1>1, <1>3, <1>4 DEF ServerInv

\* Where a step of the server touches the store.
LEMMA StoreSteps ==
    ASSUME SyncTypes, [Next]_vars
    PROVE  \/ UNCHANGED storeVars
           \/ \E u \in Users, h \in Hashes, c \in Contents : BeginPut(u, h, c)
           \/ \E u \in Users : PutStep(u)
           \/ \E u \in Users : PutReturns(u)
           \/ StoreCrash
<1>1. CASE UNCHANGED vars
  BY <1>1 DEF vars
<1>2. ASSUME NEW c \in Conns, HandlerStep(c)
      PROVE  UNCHANGED storeVars \/ PutStep(c) \/ PutReturns(c)
  BY <1>2 DEF HandlerStep, HandshakeFails, DispatchReturns, CloseWaits, CloseRemoves,
        StartChecks, StartFails, StartAnswers, Putting, Uploaded, MaterializeGets, SyncFails,
        AgentStarts
<1>3. ASSUME NEW c \in Conns, ClientStep(c)
      PROVE  UNCHANGED storeVars \/ \E h \in Hashes, d \in Contents : BeginPut(c, h, d)
  <2>1. CASE Upload(c)
    BY <2>1 DEF Upload, SyncTypes, TypeOK
  <2>2. CASE ~Upload(c)
    BY <1>3, <2>2 DEF ClientStep, Accept, HandshakeDone, SyncDone, ClientGone,
          HandshakeFails, DispatchReturns, StartSession
  <2> QED BY <2>1, <2>2
<1>4. ASSUME NEW c \in Conns, AgentEnds(c) PROVE UNCHANGED storeVars
  BY <1>4 DEF AgentEnds
<1>5. ProcessEnds => StoreCrash
  BY DEF ProcessEnds
<1>6. Restart => UNCHANGED storeVars
  BY DEF Restart
<1> QED BY <1>1, <1>2, <1>3, <1>4, <1>5, <1>6 DEF Next, Conns

\* No step of a session, of the store or of the machine breaks the store.
LEMMA NextStore ==
    ASSUME SyncTypes, StoreInv, [Next]_vars
    PROVE  StoreInv'
BY StoreSteps, SameKeeps, BeginKeeps, CreateKeeps, WriteKeeps, RenameKeeps, ReturnKeeps,
   CrashKeeps DEF PutStep

\* A step leaves the store alone or adds one content under its hash.
LEMMA StoreChange ==
    ASSUME SyncTypes, StoreInv, [Next]_vars
    PROVE  \/ UNCHANGED stored
           \/ \E c \in Contents : stored' = With(stored, Hash[c], c)
<1>1. CASE UNCHANGED storeVars
  BY <1>1 DEF storeVars
<1>2. ASSUME NEW u \in Users, NEW h \in Hashes, NEW c \in Contents, BeginPut(u, h, c)
      PROVE  UNCHANGED stored
  BY <1>2 DEF BeginPut
<1>3. ASSUME NEW u \in Users, PutStep(u)
      PROVE  \/ UNCHANGED stored
             \/ \E c \in Contents : stored' = With(stored, Hash[c], c)
  <2>1. CASE RenameTemp(u) /\ ~PutFails(u)
    BY <2>1, RenameStores DEF Call
  <2>2. CASE ~(RenameTemp(u) /\ ~PutFails(u))
    BY <1>3, <2>2 DEF PutStep, CreateTemp, WriteTemp, PutFails
  <2> QED BY <2>1, <2>2
<1>4. ASSUME NEW u \in Users, PutReturns(u) PROVE UNCHANGED stored
  BY <1>4 DEF PutReturns
<1>5. StoreCrash => UNCHANGED stored
  BY DEF StoreCrash
<1> QED BY <1>1, <1>2, <1>3, <1>4, <1>5, StoreSteps

\* No step takes a blob out of the store.
LEMMA StoreGrows ==
    ASSUME SyncTypes, StoreInv, [Next]_vars
    PROVE  DOMAIN stored \subseteq DOMAIN stored'
BY StoreChange DEF With

\* Every step keeps the handlers, their uploads and the slots typed.
LEMMA NextTypes ==
    ASSUME SyncTypes, StoreInv, \A c \in Conns : SyncInv(c), SlotsInv, [Next]_vars
    PROVE  SyncTypes'
<1> USE DEF Conns
<1>1. (\E H \in SUBSET Hashes : stored \in [H -> Contents])'
  <2>1. StoredInv'
    BY NextStore DEF StoreInv
  <2>2. DOMAIN stored' \in SUBSET Hashes
    BY <2>1, StoreAssumption DEF StoredInv, Hashes, Range
  <2>3. stored' \in [DOMAIN stored' -> Contents]
    BY <2>1 DEF StoredInv
  <2> QED BY <2>2, <2>3
<1> DEFINE Rest ==
    /\ pc \in [Conns -> States]
    /\ here \in [Conns -> BOOLEAN]
    /\ \A c \in Conns : todo[c] \subseteq need[c] /\ missing[c] \subseteq need[c]
    /\ need \in [Conns -> SUBSET Hashes]
    /\ dir \in [Conns -> BOOLEAN]
    /\ agent \in [Conns -> {"none", "running", "orphan"}]
    /\ slots \in Nat
    /\ running \in BOOLEAN /\ ends \in 0..MaxEnds
    /\ todo = [c \in Conns |-> todo[c]]
    /\ missing = [c \in Conns |-> missing[c]]
<1>2. Rest
  BY DEF SyncTypes, TypeOK
<1> SUFFICES Rest'
  BY <1>1 DEF SyncTypes, TypeOK
<1>3. CASE UNCHANGED vars
  BY <1>2, <1>3 DEF vars, connVars
<1>4. ASSUME NEW c \in Conns, Return(c, "handshake") \/ Return(c, "remove") PROVE slots' \in Nat
  <2>1. c \in Holders
    BY <1>2, <1>4 DEF Return, Goes, Holders
  <2>2. slots # 0
    BY <2>1, FS_EmptySet DEF SlotsInv
  <2> QED BY <1>2, <1>4, <2>2 DEF Return
<1>5. ASSUME NEW c \in Conns, HandlerStep(c) PROVE Rest'
  <2>1. CASE HandshakeFails(c)
    BY <1>2, <1>4, <2>1 DEF HandshakeFails, Return, Goes, States
  <2>2. CASE DispatchReturns(c)
    BY <1>2, <2>2 DEF DispatchReturns, ToClose, States
  <2>3. CASE CloseWaits(c)
    BY <1>2, <2>3 DEF CloseWaits, Goes, States
  <2>4. CASE CloseRemoves(c)
    BY <1>2, <1>4, <2>4 DEF CloseRemoves, Return, Goes, States
  <2>5. CASE StartChecks(c)
    <3>1. PICK h \in todo[c] :
            /\ todo' = [todo EXCEPT ![c] = @ \ {h}]
            /\ missing' = [missing EXCEPT ![c] = IF Has(h) THEN @ ELSE @ \cup {h}]
      BY <2>5 DEF StartChecks
    <3>2. todo'[c] = todo[c] \ {h} /\ missing'[c] \subseteq missing[c] \cup {h}
      BY <1>2, <3>1
    <3>3. \A x \in Conns : todo'[x] \subseteq need[x] /\ missing'[x] \subseteq need[x]
      BY <1>2, <3>1, <3>2
    <3> QED BY <1>2, <2>5, <3>1, <3>3 DEF StartChecks
  <2>6. CASE StartAnswers(c)
    BY <1>2, <2>6 DEF StartAnswers, Goes, States
  <2>7. CASE Putting(c)
    BY <1>2, <2>7 DEF Putting, connVars
  <2>8. CASE Uploaded(c)
    <3>1. CASE put[c].ok
      BY <1>2, <2>8, <3>1 DEF Uploaded
    <3>2. CASE ~put[c].ok
      BY <1>2, <2>8, <3>2, ZenonT(40) DEF Uploaded, ToClose, States
    <3> QED BY <3>1, <3>2
  <2>9. CASE MaterializeGets(c)
    BY <1>2, <2>9 DEF MaterializeGets
  <2>10. CASE SyncFails(c)
    BY <1>2, <2>10 DEF SyncFails, ToClose, States
  <2>11. CASE AgentStarts(c)
    BY <1>2, <2>11 DEF AgentStarts, Goes, States
  <2>12. CASE StartFails(c)
    BY <1>2, <2>12 DEF StartFails, ToClose, States
  <2> QED BY <1>5, <2>1, <2>2, <2>3, <2>4, <2>5, <2>6, <2>7, <2>8, <2>9, <2>10, <2>11,
        <2>12 DEF HandlerStep
<1>6. ASSUME NEW c \in Conns, ClientStep(c) PROVE Rest'
  <2>1. CASE Accept(c)
    <3>1. \E s \in States : pc' = [pc EXCEPT ![c] = s]
      BY <2>1 DEF Accept, Goes, States
    <3>2. \/ UNCHANGED <<here, slots>>
          \/ here' = [here EXCEPT ![c] = TRUE] /\ slots' = slots + 1
      BY <2>1 DEF Accept
    <3>3. UNCHANGED <<need, todo, missing, dir, agent, running, ends>>
      BY <2>1 DEF Accept
    <3>4. pc' \in [Conns -> States]
      BY <1>2, <3>1
    <3>5. here' \in [Conns -> BOOLEAN]
      BY <1>2, <3>2
    <3>6. slots' \in Nat
      BY <1>2, <3>2
    <3> QED BY <1>2, <3>3, <3>4, <3>5, <3>6
  <2>2. CASE HandshakeDone(c)
    BY <1>2, <2>2 DEF HandshakeDone, Goes, States
  <2>3. CASE Upload(c)
    BY <1>2, <2>3 DEF Upload, connVars
  <2>4. CASE SyncDone(c)
    BY <1>2, <2>4 DEF SyncDone, Goes, States
  <2>5. CASE ClientGone(c)
    BY <1>2, <2>5 DEF ClientGone
  <2>6. CASE HandshakeFails(c)
    BY <1>2, <1>4, <2>6 DEF HandshakeFails, Return, Goes, States
  <2>7. CASE DispatchReturns(c)
    BY <1>2, <2>7 DEF DispatchReturns, ToClose, States
  <2>8. CASE \E S \in Projects : StartSession(c, S)
    <3>1. PICK S \in Projects : StartSession(c, S)
      BY <2>8
    <3>2. S \subseteq Hashes
      BY ServerAssumption DEF Hashes
    <3>3. pc' \in [Conns -> States]
      BY <1>2, <3>1 DEF StartSession, Goes, States
    <3>4. /\ need' \in [Conns -> SUBSET Hashes]
          /\ \A x \in Conns : todo'[x] \subseteq need'[x] /\ missing'[x] \subseteq need'[x]
      <4>1. missing[c] \subseteq S
        BY <3>1 DEF StartSession, Goes, SyncInv
      <4> QED BY <1>2, <3>1, <3>2, <4>1 DEF StartSession
    <3> QED BY <1>2, <3>1, <3>3, <3>4 DEF StartSession
  <2> QED BY <1>6, <2>1, <2>2, <2>3, <2>4, <2>5, <2>6, <2>7, <2>8 DEF ClientStep
<1>7. ASSUME NEW c \in Conns, AgentEnds(c) PROVE Rest'
  BY <1>2, <1>7 DEF AgentEnds
<1>8. CASE ProcessEnds
  <2>1. pc' \in [Conns -> States]
    BY <1>2, <1>8 DEF ProcessEnds, States
  <2>2. agent' \in [Conns -> {"none", "running", "orphan"}]
    BY <1>2, <1>8 DEF ProcessEnds
  <2>3. ends' \in 0..MaxEnds /\ running' \in BOOLEAN /\ slots' \in Nat
    <3>1. ends < MaxEnds /\ ends' = ends + 1 /\ running' = FALSE /\ slots' = 0
      BY <1>8 DEF ProcessEnds
    <3>2. ends \in 0..MaxEnds /\ MaxEnds \in Nat
      BY <1>2, ServerAssumption
    <3>3. running' \in BOOLEAN
      BY <3>1
    <3>4. ends' \in 0..MaxEnds /\ slots' \in Nat
      BY <3>1, <3>2
    <3> QED BY <3>3, <3>4
  <2>4. /\ here' \in [Conns -> BOOLEAN] /\ need' \in [Conns -> SUBSET Hashes]
        /\ dir' \in [Conns -> BOOLEAN]
    BY <1>2, <1>8 DEF ProcessEnds
  <2>5. /\ todo' = [c \in Conns |-> {}] /\ missing' = [c \in Conns |-> {}]
    BY <1>8 DEF ProcessEnds
  <2> QED BY <2>1, <2>2, <2>3, <2>4, <2>5
<1>9. CASE Restart
  BY <1>2, <1>9 DEF Restart, connVars
<1> QED BY <1>3, <1>5, <1>6, <1>7, <1>8, <1>9 DEF Next

\* A handler moves on in a step of its own; what the others were told stays true
\* because the store only grows.
LEMMA NextSync ==
    ASSUME SyncTypes, StoreInv, \A c \in Conns : SyncInv(c), [Next]_vars,
           NEW d \in Conns
    PROVE  SyncInv(d)'
<1> USE DEF Conns
<1>1. SyncInv(d) /\ DOMAIN stored \subseteq DOMAIN stored' /\ put = [u \in Users |-> put[u]]
  BY StoreGrows DEF StoreInv
<1>2. /\ pc \in [Conns -> States] /\ need = [c \in Conns |-> need[c]]
      /\ todo = [c \in Conns |-> todo[c]] /\ missing = [c \in Conns |-> missing[c]]
  BY DEF SyncTypes, TypeOK
<1>3. CASE UNCHANGED vars
  BY <1>1, <1>3 DEF vars, connVars, storeVars, SyncInv
<1>4. ASSUME NEW c \in Conns, HandlerStep(c) PROVE SyncInv(d)'
  <2>1. CASE HandshakeFails(c)
    BY <1>1, <1>2, <2>1 DEF HandshakeFails, Return, Goes, storeVars, SyncInv
  <2>2. CASE DispatchReturns(c)
    BY <1>1, <1>2, <2>2 DEF DispatchReturns, ToClose, storeVars, SyncInv
  <2>3. CASE CloseWaits(c)
    BY <1>1, <1>2, <2>3 DEF CloseWaits, Goes, storeVars, SyncInv
  <2>4. CASE CloseRemoves(c)
    BY <1>1, <1>2, <2>4 DEF CloseRemoves, Return, Goes, storeVars, SyncInv
  <2>5. CASE StartChecks(c)
    BY <1>1, <1>2, <2>5 DEF StartChecks, Has, storeVars, SyncInv
  <2>6. CASE StartAnswers(c)
    BY <1>1, <1>2, <2>6 DEF StartAnswers, Goes, storeVars, SyncInv
  <2>7. CASE Putting(c)
    <3>1. /\ put'[c] # NotPutting => put[c] # NotPutting /\ put'[c].hash = put[c].hash
          /\ \A u \in Users \ {c} : put'[u] = put[u]
      <4>1. put[c].pc \in {"create", "write", "rename"}
        BY <2>7 DEF Putting, PutStep, CreateTemp, WriteTemp, RenameTemp
      <4>2. put[c] # NotPutting /\ put[c] \in Call
        BY <4>1 DEF NotPutting, StoreInv, CallInv
      <4>3. CASE PutFails(c)
        BY <1>1, <4>2, <4>3 DEF PutFails, Call
      <4>4. CASE CreateTemp(c) /\ ~PutFails(c)
        BY <1>1, <4>2, <4>4 DEF CreateTemp, Call
      <4>5. CASE WriteTemp(c) /\ ~PutFails(c)
        BY <1>1, <4>2, <4>5 DEF WriteTemp, Call
      <4>6. CASE RenameTemp(c) /\ ~PutFails(c)
        BY <1>1, <4>2, <4>6 DEF RenameTemp, Call
      <4> QED BY <2>7, <4>2, <4>3, <4>4, <4>5, <4>6 DEF Putting, PutStep
    <3> QED BY <1>1, <2>7, <3>1 DEF Putting, connVars, SyncInv
  <2>8. CASE Uploaded(c)
    <3>1. put[c] # NotPutting /\ put' = [put EXCEPT ![c] = NotPutting]
      BY <2>8 DEF Uploaded, PutReturns, NotPutting
    <3>2. put[c].ok => put[c].hash \in DOMAIN stored
      BY <3>1 DEF StoreInv, CallInv
    <3>3. put'[c] = NotPutting /\ \A u \in Users \ {c} : put'[u] = put[u]
      BY <1>1, <3>1
    <3>4. CASE put[c].ok
      <4>1. /\ missing' = [missing EXCEPT ![c] = @ \ {put[c].hash}]
            /\ UNCHANGED <<pc, need, todo>>
        BY <2>8, <3>4 DEF Uploaded
      <4> QED BY <1>1, <1>2, <3>2, <3>3, <3>4, <4>1 DEF SyncInv
    <3>5. CASE ~put[c].ok
      <4>1. ToClose(c)
        BY <2>8, <3>5 DEF Uploaded
      <4> QED BY <1>1, <1>2, <3>3, <4>1 DEF ToClose, SyncInv
    <3> QED BY <3>4, <3>5
  <2>9. CASE MaterializeGets(c)
    BY <1>1, <1>2, <2>9 DEF MaterializeGets, storeVars, SyncInv
  <2>10. CASE SyncFails(c)
    BY <1>1, <1>2, <2>10 DEF SyncFails, ToClose, storeVars, SyncInv
  <2>11. CASE AgentStarts(c)
    BY <1>1, <1>2, <2>11 DEF AgentStarts, Goes, storeVars, SyncInv
  <2>12. CASE StartFails(c)
    BY <1>1, <1>2, <2>12 DEF StartFails, ToClose, storeVars, SyncInv
  <2> QED BY <1>4, <2>1, <2>2, <2>3, <2>4, <2>5, <2>6, <2>7, <2>8, <2>9, <2>10, <2>11,
        <2>12 DEF HandlerStep
<1>5. ASSUME NEW c \in Conns, ClientStep(c) PROVE SyncInv(d)'
  <2>1. CASE Accept(c)
    BY <1>1, <1>2, <2>1 DEF Accept, Goes, storeVars, SyncInv
  <2>2. CASE HandshakeDone(c)
    BY <1>1, <1>2, <2>2 DEF HandshakeDone, Goes, storeVars, SyncInv
  <2>3. CASE Upload(c)
    <3>1. PICK h \in missing[c], x \in Contents : BeginPut(c, h, x)
      BY <2>3 DEF Upload
    <3>2. \A u \in Users \ {c} : put'[u] = put[u]
      BY <1>1, <3>1 DEF BeginPut
    <3>3. put'[c].hash = h
      BY <1>1, <3>1 DEF BeginPut
    <3> QED BY <1>1, <2>3, <3>2, <3>3 DEF Upload, connVars, SyncInv
  <2>4. CASE SyncDone(c)
    BY <1>1, <1>2, <2>4 DEF SyncDone, Goes, storeVars, SyncInv
  <2>5. CASE ClientGone(c)
    BY <1>1, <1>2, <2>5 DEF ClientGone, storeVars, SyncInv
  <2>6. CASE HandshakeFails(c)
    BY <1>1, <1>2, <2>6 DEF HandshakeFails, Return, Goes, storeVars, SyncInv
  <2>7. CASE DispatchReturns(c)
    BY <1>1, <1>2, <2>7 DEF DispatchReturns, ToClose, storeVars, SyncInv
  <2>8. CASE \E S \in Projects : StartSession(c, S)
    BY <1>1, <1>2, <2>8 DEF StartSession, Goes, storeVars, SyncInv
  <2> QED BY <1>5, <2>1, <2>2, <2>3, <2>4, <2>5, <2>6, <2>7, <2>8 DEF ClientStep
<1>6. ASSUME NEW c \in Conns, AgentEnds(c) PROVE SyncInv(d)'
  BY <1>1, <1>6 DEF AgentEnds, storeVars, SyncInv
<1>7. CASE ProcessEnds
  BY <1>1, <1>2, <1>7 DEF ProcessEnds, StoreCrash, SyncInv
<1>8. CASE Restart
  BY <1>1, <1>8 DEF Restart, connVars, storeVars, SyncInv
<1> QED BY <1>3, <1>4, <1>5, <1>6, <1>7, <1>8 DEF Next

-----------------------------------------------------------------------------
(* Slots *)

\* A handler that holds its slot moves on and keeps it.
LEMMA KeepsSlot ==
    ASSUME SyncTypes, SlotsInv, NEW c \in Conns, NEW s,
           pc[c] \notin {"none", "returned"}, s \notin {"none", "returned"},
           pc' = [pc EXCEPT ![c] = s], slots' = slots,
           \A d \in Conns : agent'[d] = "running" => pc'[d] \in {"prompts", "close"}
    PROVE  SlotsInv'
<1>1. Holders' = Holders
  BY DEF Holders, SyncTypes, TypeOK
<1> QED BY <1>1 DEF SlotsInv

\* A handler ends and gives its slot back.
LEMMA GivesSlotBack ==
    ASSUME SyncTypes, SlotsInv, NEW c \in Conns,
           pc[c] \notin {"none", "returned", "prompts", "close"},
           pc' = [pc EXCEPT ![c] = "returned"], slots' = slots - 1, agent' = agent
    PROVE  SlotsInv'
<1>1. c \in Holders /\ Holders' = Holders \ {c}
  BY DEF Holders, SyncTypes, TypeOK
<1>2. IsFiniteSet(Holders') /\ slots' = Cardinality(Holders')
  BY <1>1, FS_RemoveElement DEF SlotsInv
<1>3. MaxSessions > 0 => slots' <= MaxSessions
  <2>1. slots \in Nat /\ MaxSessions \in Nat
    BY ServerAssumption DEF SyncTypes, TypeOK
  <2> QED BY <2>1 DEF SlotsInv
<1>4. \A d \in Conns : agent'[d] = "running" => pc'[d] \in {"prompts", "close"}
  BY DEF SlotsInv, SyncTypes, TypeOK
<1> QED BY <1>2, <1>3, <1>4 DEF SlotsInv

\* A connection takes a slot when there is one.
LEMMA TakesSlot ==
    ASSUME SyncTypes, SlotsInv, NEW c \in Conns, Accept(c)
    PROVE  SlotsInv'
<1>1. pc[c] = "none" /\ agent' = agent
  BY DEF Accept, Goes
<1>2. CASE MaxSessions > 0 /\ slots = MaxSessions
  <2>1. pc' = [pc EXCEPT ![c] = "returned"] /\ slots' = slots
    BY <1>2 DEF Accept, Goes
  <2>2. Holders' = Holders
    BY <1>1, <2>1 DEF Holders, SyncTypes, TypeOK
  <2>3. \A d \in Conns : agent'[d] = "running" => pc'[d] \in {"prompts", "close"}
    BY <1>1, <2>1 DEF SlotsInv, SyncTypes, TypeOK
  <2> QED BY <2>1, <2>2, <2>3 DEF SlotsInv
<1>3. CASE ~(MaxSessions > 0 /\ slots = MaxSessions)
  <2>1. pc' = [pc EXCEPT ![c] = "handshake"] /\ slots' = slots + 1
    BY <1>3 DEF Accept, Goes
  <2>2. c \notin Holders /\ Holders' = Holders \cup {c}
    BY <1>1, <2>1 DEF Holders, SyncTypes, TypeOK
  <2>3. IsFiniteSet(Holders') /\ slots' = Cardinality(Holders')
    BY <2>1, <2>2, FS_AddElement DEF SlotsInv
  <2>4. MaxSessions > 0 => slots' <= MaxSessions
    <3>1. slots \in Nat /\ MaxSessions \in Nat
      BY ServerAssumption DEF SyncTypes, TypeOK
    <3> QED BY <1>3, <2>1, <3>1 DEF SlotsInv
  <2>5. \A d \in Conns : agent'[d] = "running" => pc'[d] \in {"prompts", "close"}
    BY <1>1, <2>1 DEF SlotsInv, SyncTypes, TypeOK
  <2> QED BY <2>3, <2>4, <2>5 DEF SlotsInv
<1> QED BY <1>2, <1>3

\* No step loses a slot, takes one too many, or lets an agent run without one.
LEMMA NextSlots ==
    ASSUME SyncTypes, \A c \in Conns : SyncInv(c), SlotsInv, [Next]_vars
    PROVE  SlotsInv'
<1>1. pc = [c \in Conns |-> pc[c]] /\ agent = [c \in Conns |-> agent[c]]
  BY DEF SyncTypes, TypeOK
<1>2. \A c \in Conns : agent[c] = "running" => pc[c] \in {"prompts", "close"}
  BY DEF SlotsInv
<1>3. ASSUME pc' = pc, slots' = slots,
             \A c \in Conns : agent'[c] = "running" => agent[c] = "running"
      PROVE  SlotsInv'
  BY <1>3 DEF SlotsInv, Holders
<1>4. CASE UNCHANGED vars
  BY <1>3, <1>4 DEF vars, connVars
<1>5. ASSUME NEW c \in Conns, HandshakeFails(c) PROVE SlotsInv'
  BY <1>5, GivesSlotBack DEF HandshakeFails, Return, Goes
<1>6. ASSUME NEW c \in Conns, ToClose(c), pc[c] \in {"start", "has", "upload", "get", "prompts"},
             UNCHANGED <<agent, slots>>
      PROVE  SlotsInv'
  <2>1. \A d \in Conns : agent'[d] = "running" => pc'[d] \in {"prompts", "close"}
    BY <1>1, <1>2, <1>6 DEF ToClose
  <2> QED BY <1>6, <2>1, KeepsSlot DEF ToClose
<1>7. ASSUME NEW c \in Conns, DispatchReturns(c) PROVE SlotsInv'
  BY <1>6, <1>7 DEF DispatchReturns, Reading
<1>8. ASSUME NEW c \in Conns, NEW s, NEW t, Goes(c, s, t), slots' = slots, agent' = agent,
             s \notin {"none", "returned", "prompts", "close"}, t \notin {"none", "returned"}
      PROVE  SlotsInv'
  <2>1. \A d \in Conns : agent'[d] = "running" => pc'[d] \in {"prompts", "close"}
    BY <1>1, <1>2, <1>8 DEF Goes
  <2> QED BY <1>8, <2>1, KeepsSlot DEF Goes
<1>9. ASSUME NEW c \in Conns, HandlerStep(c) PROVE SlotsInv'
  <2>1. CASE HandshakeFails(c) \/ DispatchReturns(c)
    BY <2>1, <1>5, <1>7
  <2>2. CASE CloseWaits(c)
    <3>1. \A d \in Conns : agent'[d] = "running" => pc'[d] \in {"prompts", "close"}
      BY <1>1, <1>2, <2>2 DEF CloseWaits, Goes
    <3> QED BY <2>2, <3>1, KeepsSlot DEF CloseWaits, Goes
  <2>3. CASE CloseRemoves(c)
    BY <2>3, GivesSlotBack DEF CloseRemoves, Return, Goes
  <2>4. CASE StartChecks(c) \/ Putting(c) \/ MaterializeGets(c)
    BY <1>3, <2>4 DEF StartChecks, Putting, MaterializeGets, connVars
  <2>5. CASE StartAnswers(c)
    BY <1>8, <2>5 DEF StartAnswers
  <2>6. CASE Uploaded(c)
    <3>1. pc[c] = "upload"
      BY <2>6 DEF Uploaded, PutReturns, NotPutting, SyncInv
    <3> QED BY <1>3, <1>6, <2>6, <3>1 DEF Uploaded
  <2>7. CASE SyncFails(c)
    BY <1>6, <2>7 DEF SyncFails
  <2>8. CASE AgentStarts(c)
    <3>1. \A d \in Conns : agent'[d] = "running" => pc'[d] \in {"prompts", "close"}
      BY <1>1, <1>2, <2>8 DEF AgentStarts, Goes
    <3> QED BY <2>8, <3>1, KeepsSlot DEF AgentStarts, Goes
  <2>9. CASE StartFails(c)
    BY <1>6, <2>9 DEF StartFails
  <2> QED BY <1>9, <2>1, <2>2, <2>3, <2>4, <2>5, <2>6, <2>7, <2>8, <2>9 DEF HandlerStep
<1>10. ASSUME NEW c \in Conns, ClientStep(c) PROVE SlotsInv'
  <2>1. CASE Accept(c)
    BY <2>1, TakesSlot
  <2>2. CASE HandshakeDone(c)
    BY <1>8, <2>2 DEF HandshakeDone
  <2>3. CASE Upload(c) \/ ClientGone(c)
    BY <1>3, <2>3 DEF Upload, ClientGone, connVars
  <2>4. CASE SyncDone(c)
    BY <1>8, <2>4 DEF SyncDone
  <2>5. CASE HandshakeFails(c) \/ DispatchReturns(c)
    BY <2>5, <1>5, <1>7
  <2>6. CASE \E S \in Projects : StartSession(c, S)
    BY <1>8, <2>6 DEF StartSession
  <2> QED BY <1>10, <2>1, <2>2, <2>3, <2>4, <2>5, <2>6 DEF ClientStep
<1>11. ASSUME NEW c \in Conns, AgentEnds(c) PROVE SlotsInv'
  BY <1>1, <1>3, <1>11 DEF AgentEnds
<1>12. CASE ProcessEnds
  <2>1. Holders' = {} /\ slots' = 0 /\ \A c \in Conns : agent'[c] # "running"
    BY <1>12 DEF ProcessEnds, Holders
  <2> QED BY <2>1, FS_EmptySet, ServerAssumption DEF SlotsInv
<1>13. CASE Restart
  BY <1>3, <1>13 DEF Restart, connVars
<1> QED BY <1>4, <1>9, <1>10, <1>11, <1>12, <1>13 DEF Next

-----------------------------------------------------------------------------
\* The invariant of the server is inductive.
LEMMA NextServer == ServerInv /\ [Next]_vars => ServerInv'
BY NextTypes, NextStore, NextSync, NextSlots DEF ServerInv, Conns

\* The inductive invariant: the types, the store between the system calls of its
\* callers, what each session was told, and who holds the slots.
THEOREM ServerInvCorrect == Spec => []ServerInv
<1>1. Init => ServerInv
  BY InitServer
<1>2. ServerInv /\ [Next]_vars => ServerInv'
  BY NextServer
<1> QED BY <1>1, <1>2, PTL DEF Spec

\* Every variable of the server and of the store keeps its type.
THEOREM TypeCorrect == Spec => []TypeOK
<1>1. ServerInv => TypeOK
  BY DEF ServerInv, SyncTypes
<1> QED BY <1>1, ServerInvCorrect, PTL

\* The blob store is an atomic map from hashes to contents (blobstore.go: Put).
THEOREM StoreIsMapCorrect == Spec => StoreIsMap
<1>1. ServerInv /\ [Next]_vars =>
        [stored' # stored => \E c \in Contents : stored' = With(stored, Hash[c], c)]_storeVars
  BY StoreChange DEF ServerInv
<1> QED BY <1>1, ServerInvCorrect, PTL DEF Spec, StoreIsMap

\* No Put that returns leaves its temporary file behind (blobstore.go: Put).
THEOREM TempsOwnedCorrect == Spec => []TempsOwned
<1>1. ServerInv => TempsOwned
  BY DEF ServerInv, StoreInv
<1> QED BY <1>1, ServerInvCorrect, PTL

\* After the uploads every blob of the manifest is in the store, whatever other
\* sessions and crashed processes do (session.go: StartSession, SyncDone).
THEOREM BlobsThereCorrect == Spec => []BlobsThere
<1>1. ServerInv => BlobsThere
  BY DEF ServerInv, SyncInv, BlobsThere
<1> QED BY <1>1, ServerInvCorrect, PTL

\* The session cap bounds the agents that run (server.go: acquireSlot, handle).
THEOREM AgentsBoundedCorrect == Spec => []AgentsBounded
<1>1. ServerInv => AgentsBounded
  <2> SUFFICES ASSUME ServerInv, MaxSessions > 0
               PROVE  Cardinality({c \in Conns : agent[c] = "running"}) <= MaxSessions
    BY DEF AgentsBounded
  <2> DEFINE R == {c \in Conns : agent[c] = "running"}
  <2>1. R \subseteq Holders /\ IsFiniteSet(Holders)
    BY DEF ServerInv, SlotsInv, Holders
  <2>2. IsFiniteSet(R) /\ Cardinality(R) <= Cardinality(Holders)
    BY <2>1, FS_Subset
  <2>3. Cardinality(R) \in Nat /\ Cardinality(Holders) \in Nat
    BY <2>1, <2>2, FS_CardinalityType
  <2>4. Cardinality(Holders) <= MaxSessions
    BY DEF ServerInv, SlotsInv
  <2> HIDE DEF R
  <2> QED BY <2>2, <2>3, <2>4, ServerAssumption DEF R
<1> QED BY <1>1, ServerInvCorrect, PTL
=============================================================================
