------------------------------ MODULE ClientApp ------------------------------
(***************************************************************************)
(* The client (clientapp.go, with cmd/client's main): Run's sync handshake *)
(* and REPL in the main goroutine, and readLoop in another, which applies  *)
(* file changes to the local project as they arrive.  The two talk through *)
(* four channels of capacity 1.                                            *)
(***************************************************************************)
EXTENDS Wire

CONSTANTS
    UserPrompts,        \* prompts the user types before ending the input
    LocalEdits,         \* edits the user makes to the project meanwhile
    ClientMayStop,      \* may the client be interrupted or killed?
    LocalErrors         \* may the client's disk fail, or what it sends not fit a record?

ASSUME ClientAssumption ==
    /\ UserPrompts \in Nat
    /\ LocalEdits \in Nat
    /\ ClientMayStop \in BOOLEAN
    /\ LocalErrors \in BOOLEAN

VARIABLES
    client,     \* the main goroutine, see ClientStates
    local,      \* the project on disk: [files, dirs]
    listed,     \* the manifest Run built
    toUpload,   \* missing hashes still to upload
    syncReq,    \* channel: the sync request, or empty
    ready,      \* channel: a session id is waiting
    turnOver,   \* channel: a turn.done is waiting
    readErr,    \* channel: readLoop's error is waiting
    reading,    \* readLoop is running
    typed,      \* prompts sent
    edits       \* edits the user has made

chanVars == <<syncReq, ready, turnOver, readErr>>
clientVars == <<client, local, listed, toUpload, chanVars, reading, typed, edits>>

ClientStates ==
    {"start",       \* building the manifest
     "hello",       \* session.start is to be sent
     "syncing",     \* waiting for the sync request
     "upload",      \* uploading
     "starting",    \* waiting for session.ready
     "repl",        \* waiting for the user
     "turn",        \* waiting for the turn to end
     "bye",         \* session.end sent, main is returning
     "exit"}        \* the process has ended

ClientInit ==
    /\ client = "start"
    /\ \E f \in Trees :
        /\ Consistent(DOMAIN f)
        /\ local = [files |-> f, dirs |-> DirsOf(DOMAIN f)]
    /\ listed = NoFiles
    /\ toUpload = {}
    /\ syncReq = {}
    /\ ready = FALSE
    /\ turnOver = FALSE
    /\ readErr = FALSE
    /\ reading = FALSE
    /\ typed = 0
    /\ edits = 0

-----------------------------------------------------------------------------
(* Run and repl *)

\* Run returns, main ends: the connection and readLoop go with the process.
ClientExits ==
    /\ client' = "exit"
    /\ connUp' = FALSE
    /\ reading' = FALSE

RunStart ==
    /\ client = "start"
    /\ \/ /\ client' = "hello"
          /\ listed' = WalkManifest(local.files, Ignored)
          /\ reading' = TRUE
          /\ UNCHANGED connUp
       \/ /\ LocalErrors
          /\ ClientExits
          /\ UNCHANGED listed
    /\ UNCHANGED <<c2s, s2c, local, toUpload, chanVars, typed, edits>>

\* A send that fails because the connection is down ends the client.
SendsOr(m, next) ==
    \/ /\ ClientSends(m)
       /\ client' = next
       /\ UNCHANGED <<connUp, reading>>
    \/ /\ ~connUp
       /\ ClientExits
       /\ UNCHANGED c2s

\* EncodeEnvelope refuses a manifest or a prompt that is too long for one record.
TooLong ==
    /\ LocalErrors
    /\ ClientExits
    /\ UNCHANGED c2s

RunHello ==
    /\ client = "hello"
    /\ SendsOr([type |-> "session.start", manifest |-> listed], "syncing") \/ TooLong
    /\ UNCHANGED <<s2c, local, listed, toUpload, chanVars, typed, edits>>

RunSyncRequest ==
    /\ client = "syncing"
    /\ syncReq # {}
    /\ \E missing \in syncReq : toUpload' = missing
    /\ syncReq' = {}
    /\ client' = "upload"
    /\ UNCHANGED <<wireVars, local, listed, ready, turnOver, readErr, reading, typed, edits>>

\* toDTO's index: the first path of the manifest that has the hash.
ByHash(h) ==
    CHOOSE p \in DOMAIN listed :
        /\ listed[p].hash = h
        /\ \A q \in DOMAIN listed : listed[q].hash = h => Rank[p] <= Rank[q]

\* The file is read when its turn comes, not when the manifest was built.
RunUpload ==
    /\ client = "upload"
    /\ \E h \in toUpload :
        /\ \/ /\ h \in {listed[p].hash : p \in DOMAIN listed}
              /\ ByHash(h) \in DOMAIN local.files
              /\ SendsOr([type |-> "blob", hash |-> h,
                          content |-> local.files[ByHash(h)].content], "upload")
           \/ /\ \/ h \notin {listed[p].hash : p \in DOMAIN listed}
                 \/ ByHash(h) \notin DOMAIN local.files
                 \/ LocalErrors
              /\ ClientExits
              /\ UNCHANGED c2s
        /\ toUpload' = toUpload \ {h}
    /\ UNCHANGED <<s2c, local, listed, chanVars, typed, edits>>

RunSyncDone ==
    /\ client = "upload"
    /\ toUpload = {}
    /\ SendsOr([type |-> "sync.done"], "starting")
    /\ UNCHANGED <<s2c, local, listed, toUpload, chanVars, typed, edits>>

RunReady ==
    /\ client = "starting"
    /\ ready
    /\ ready' = FALSE
    /\ client' = "repl"
    /\ UNCHANGED <<wireVars, local, listed, toUpload, syncReq, turnOver, readErr, reading,
                   typed, edits>>

ReplPrompt ==
    /\ client = "repl"
    /\ typed < UserPrompts
    /\ typed' = typed + 1
    /\ SendsOr([type |-> "prompt"], "turn") \/ TooLong
    /\ UNCHANGED <<s2c, local, listed, toUpload, chanVars, edits>>

ReplTurnDone ==
    /\ client = "turn"
    /\ turnOver
    /\ turnOver' = FALSE
    /\ client' = "repl"
    /\ UNCHANGED <<wireVars, local, listed, toUpload, syncReq, ready, readErr, reading,
                   typed, edits>>

\* The end of the input: session.end, if it can still be sent, and main returns;
\* the server may read the message or only see the connection close.
ReplEnd ==
    /\ client = "repl"
    /\ SendsOr([type |-> "session.end"], "bye")
    /\ UNCHANGED <<s2c, local, listed, toUpload, chanVars, typed, edits>>

MainReturns ==
    /\ client = "bye"
    /\ ClientExits
    /\ UNCHANGED <<c2s, s2c, local, listed, toUpload, chanVars, typed, edits>>

WaitFailsLate ==    \* mutant: only the REPL watches for readLoop's error
    /\ client = "turn"
    /\ readErr
    /\ readErr' = FALSE
    /\ ClientExits
    /\ UNCHANGED <<c2s, s2c, local, listed, toUpload, syncReq, ready, turnOver, typed, edits>>

\* Each wait of Run and repl also ends with readLoop's error.
WaitFails ==
    /\ client \in {"syncing", "starting", "turn"}
    /\ readErr
    /\ readErr' = FALSE
    /\ ClientExits
    /\ UNCHANGED <<c2s, s2c, local, listed, toUpload, syncReq, ready, turnOver, typed, edits>>

\* ... or with the context; the REPL's read of the terminal does not notice it,
\* but the prompt or session.end that follows fails.
ClientStops ==
    /\ ClientMayStop
    /\ client # "exit"
    /\ ClientExits
    /\ UNCHANGED <<c2s, s2c, local, listed, toUpload, chanVars, typed, edits>>

MainStep ==
    \/ RunStart \/ RunHello \/ RunSyncRequest \/ RunUpload \/ RunSyncDone
    \/ RunReady \/ ReplPrompt \/ ReplTurnDone \/ ReplEnd
    \/ MainReturns \/ WaitFails

-----------------------------------------------------------------------------
(* readLoop *)

\* A second sync request or session id would block readLoop until Run takes
\* the first.
ReadSyncRequest ==
    /\ syncReq = {}
    /\ ClientReads("sync.request")
    /\ syncReq' = {Head(s2c).missing}
    /\ UNCHANGED <<local, ready, turnOver>>

ReadReady ==
    /\ ~ready
    /\ ClientReads("session.ready")
    /\ ready' = TRUE
    /\ UNCHANGED <<local, syncReq, turnOver>>

ReadShownFlushes ==     \* mutant: what is buffered behind the message is thrown away
    /\ s2c # <<>>
    /\ Head(s2c).type \in {"stream.event", "error"}
    /\ s2c' = <<>>
    /\ UNCHANGED <<local, syncReq, ready, turnOver>>

\* Stream events and errors are only shown to the user.
ReadShown ==
    /\ ClientReads("stream.event") \/ ClientReads("error")
    /\ UNCHANGED <<local, syncReq, ready, turnOver>>

ReadDeleteAsEmpty ==    \* mutant: Apply does not return after a delete
    /\ ClientReads("file.change")
    /\ local' = IF Head(s2c).change.op = "delete"
                THEN Write(local, Head(s2c).change.path, [content |-> "", mode |-> DefaultMode])
                ELSE Apply(local, Head(s2c).change, Head(s2c).content)
    /\ UNCHANGED <<syncReq, ready, turnOver>>

\* applyChange: an error is shown, and the next message follows.
ReadFileChange ==
    /\ ClientReads("file.change")
    /\ \/ local' = Apply(local, Head(s2c).change,
                         IF Head(s2c).change.op = "delete" THEN NoFiles ELSE Head(s2c).content)
       \/ LocalErrors /\ UNCHANGED local
    /\ UNCHANGED <<syncReq, ready, turnOver>>

\* The send does not block: one waiting turn.done is as good as two.
ReadTurnDone ==
    /\ ClientReads("turn.done")
    /\ turnOver' = TRUE
    /\ UNCHANGED <<local, syncReq, ready>>

ReadMessage ==
    /\ reading
    /\ \/ ReadSyncRequest \/ ReadReady \/ ReadShown \/ ReadFileChange \/ ReadTurnDone
    /\ UNCHANGED <<c2s, connUp, client, listed, toUpload, readErr, reading, typed, edits>>

\* A read error ends readLoop; what was still in flight is lost.
ReadFails ==
    /\ reading
    /\ ~connUp
    /\ readErr' = TRUE
    /\ reading' = FALSE
    /\ UNCHANGED <<wireVars, client, local, listed, toUpload, syncReq, ready, turnOver,
                   typed, edits>>

ReaderStep == ReadMessage \/ ReadFails

-----------------------------------------------------------------------------
\* The user creates, changes or deletes a file of the project meanwhile.
UserEdits ==
    /\ client # "exit"
    /\ edits < LocalEdits
    /\ edits' = edits + 1
    /\ \E p \in Paths :
        local' \in {Remove(local, p)} \cup {Write(local, p, f) : f \in FileEntry}
    /\ UNCHANGED <<wireVars, client, listed, toUpload, chanVars, reading, typed>>

ClientStep == MainStep \/ ReaderStep \/ UserEdits \/ ClientStops

ClientTypeOK ==
    /\ client \in ClientStates
    /\ local \in [files : Trees, dirs : SUBSET Paths]
    /\ listed \in Manifests
    /\ toUpload \subseteq Hashes
    /\ syncReq \subseteq SUBSET Hashes
    /\ {ready, turnOver, readErr, reading} \subseteq BOOLEAN
    /\ typed \in 0..UserPrompts
    /\ edits \in 0..LocalEdits
=============================================================================
