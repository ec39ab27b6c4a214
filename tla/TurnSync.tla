------------------------------ MODULE TurnSync ------------------------------
(***************************************************************************)
(* What a session promises about files, turn after turn and without its    *)
(* threads and messages: the client's project starts equal to the server's *)
(* workspace; a turn changes the workspace; the changes between the two    *)
(* snapshots are applied to the project one at a time, in path order, and  *)
(* then the two are equal again.                                           *)
(*                                                                         *)
(* The steps are those of finishTurn (session.go) feeding applyChange      *)
(* (clientapp.go), one change at a time; the workspace does not change     *)
(* while a turn is being pushed.                                           *)
(***************************************************************************)
EXTENDS FileTree

CONSTANTS
    AgentReplacesDirs,  \* may a turn put a file where the project has a directory?
    AgentWritesIgnored  \* may a turn create files that the client ignores?

ASSUME FlagAssumption ==
    /\ AgentReplacesDirs \in BOOLEAN
    /\ AgentWritesIgnored \in BOOLEAN

VARIABLES
    local,      \* the client's disk: [files, dirs]
    ws,         \* the files of the server's workspace
    todo,       \* the changes of the turn that are not yet applied
    lost        \* the paths whose last change could not be applied, as the user was told

vars == <<local, ws, todo, lost>>

-----------------------------------------------------------------------------
\* Any project may be shared; the workspace holds what its manifest lists.
Init ==
    /\ local \in {d \in Disks : WellFormed(d)}
    /\ \E blobs \in {b \in [{Hash[c] : c \in Contents} -> Contents] : Intact(b)} :
        ws = Materialize(WalkManifest(local.files, Ignored), blobs)
    /\ todo = {}
    /\ lost = {}

\* The agent leaves the workspace in any state it likes, within the flags.
Turn(new) ==
    /\ todo = {}
    /\ Consistent(DOMAIN new)
    /\ AgentReplacesDirs \/ DOMAIN new \cap local.dirs = {}
    /\ AgentWritesIgnored \/ \A p \in DOMAIN Snapshot(new) : Visible(p, Ignored)
    /\ ws' = new
    /\ todo' = Diff(Snapshot(ws), Snapshot(new))
    /\ UNCHANGED <<local, lost>>

\* What the user has been told once Apply has returned for ch: applyChange
\* shows an error and goes on.
Reported(ch) ==
    IF Refused(local, ch) THEN lost \cup {ch.path} ELSE lost \ {ch.path}

ApplyLast ==        \* mutant: changes applied in reverse path order
    \E ch \in todo :
        /\ \A d \in todo : Rank[d.path] <= Rank[ch.path]
        /\ local' = Apply(local, ch, IF ch.op = "delete" THEN ch ELSE ws[ch.path].content)
        /\ todo' = todo \ {ch}
        /\ lost' = Reported(ch)
        /\ UNCHANGED ws

\* finishTurn reads the content and pushes the change, applyChange applies it;
\* an error of Apply is shown to the user and the next change follows.
ApplyNext ==
    \E ch \in todo :
        /\ \A d \in todo : Rank[ch.path] <= Rank[d.path]
        /\ local' = Apply(local, ch, IF ch.op = "delete" THEN ch ELSE ws[ch.path].content)
        /\ todo' = todo \ {ch}
        /\ lost' = Reported(ch)
        /\ UNCHANGED ws

Next == ApplyNext \/ \E new \in Trees : Turn(new)

Spec == Init /\ [][Next]_vars

\* The disk may also fail Apply (no space, no permission).  The file stays as it
\* was; directories made for it may stay behind.
ApplyFails ==
    \E ch \in todo, made \in SUBSET Paths :
        /\ \A d \in todo : Rank[ch.path] <= Rank[d.path]
        /\ made \subseteq AncestorsOf[ch.path]
        /\ local' = [local EXCEPT !.dirs = @ \cup made]
        /\ WellFormed(local')
        /\ todo' = todo \ {ch}
        /\ lost' = lost \cup {ch.path}
        /\ UNCHANGED ws

FaultyNext == Next \/ ApplyFails

FaultySpec == Init /\ [][FaultyNext]_vars

-----------------------------------------------------------------------------
PendingPaths == {ch.path : ch \in todo}

TypeOK ==
    /\ local \in Disks
    /\ WellFormed(local)
    /\ ws \in Trees
    /\ Consistent(DOMAIN ws)
    /\ todo \subseteq Changes
    /\ lost \subseteq Paths

\* Once every change of a turn is applied, the project holds exactly the files
\* of the workspace's snapshot: Diff, the order of its changes and the way
\* Apply treats directories fit together, over any number of turns.
Synced == todo = {} => SameFiles(local, ws)

\* No change is lost without a word: wherever the project differs from the
\* workspace at a path the client shares, the change is still to come or the
\* last one there failed and the user was told, whatever the disk and the agent
\* do and however many turns later.
NoSilentLoss ==
    \A p \in Paths : Visible(p, Ignored) /\ p \notin PendingPaths \cup lost =>
        /\ p \in DOMAIN local.files <=> p \in DOMAIN ws
        /\ p \in DOMAIN ws => Agrees(local.files[p], ws[p])

\* What lies below a directory that is never synced, such as .git, stays as the
\* client has it: no turn creates, removes or changes a file there, whatever the
\* agent puts in the workspace, also at the name of the directory itself.
NeverSynced ==
    [][\A p \in Paths : AncestorsOf[p] \cap IgnoredDirs # {} =>
        /\ p \in DOMAIN local.files <=> p \in DOMAIN local'.files
        /\ p \in DOMAIN local.files => local'.files[p] = local.files[p]]_vars
=============================================================================
