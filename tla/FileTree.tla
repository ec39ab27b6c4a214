------------------------------ MODULE FileTree ------------------------------
(***************************************************************************)
(* The file-tree algebra that client and server share: what a manifest     *)
(* says about a tree (fsutil.WalkManifest), which changes turn one         *)
(* manifest into another (fsutil.Diff), and what writing a tree from a     *)
(* manifest (fsstore.Workspace.Materialize) and applying one change to a   *)
(* local project (localfs.Project.Apply) do to the disk.                   *)
(*                                                                         *)
(* A tree is a partial function from paths to files.  File contents, names *)
(* and permission bits are opaque; a path is known by the directories it   *)
(* lies under and by its place in the byte order of path strings, the      *)
(* order in which the code sorts manifests and changes.                    *)
(***************************************************************************)
EXTENDS Naturals, Functions

CONSTANTS
    Paths,              \* the slash-separated relative paths in play
    AncestorsOf,        \* AncestorsOf[p]: the paths of the directories p lies under
    Rank,               \* Rank[p]: the place of p in the order of path strings
    Contents,           \* file contents
    Hashes,             \* hex SHA-256 strings
    Hash,               \* Hash[c]: the hex SHA-256 of content c
    Modes,              \* permission bits of a regular file, 0 included
    DefaultMode,        \* 0o644
    Umask,              \* Umask[m]: what the server's umask leaves of mode m
    IgnoredDirs,        \* the paths whose last name is .git, node_modules or .claude
    Ignored             \* the paths the client's .gitignore and .claudeshareignore match

ASSUME PathAssumption ==
    /\ AncestorsOf \in [Paths -> SUBSET Paths]
    /\ Rank \in [Paths -> Nat]
    /\ \A p, q \in Paths : Rank[p] = Rank[q] => p = q
    /\ \A p \in Paths : \A q \in AncestorsOf[p] : AncestorsOf[q] \subseteq AncestorsOf[p]
    \* the string of a directory is a prefix of the strings under it
    /\ \A p \in Paths : \A q \in AncestorsOf[p] : Rank[q] < Rank[p]

\* No two contents in play share their SHA-256.
ASSUME HashAssumption ==
    /\ Hash \in [Contents -> Hashes]
    /\ \A c, d \in Contents : Hash[c] = Hash[d] => c = d

ASSUME ModeAssumption ==
    /\ Modes \subseteq Nat
    /\ DefaultMode \in Modes \ {0}
    /\ Umask \in [Modes -> Modes]
    /\ IgnoredDirs \subseteq Paths
    /\ Ignored \subseteq Paths

-----------------------------------------------------------------------------
FileEntry == [content : Contents, mode : Modes]
ManifestEntry == [hash : Hashes, mode : Modes]

\* The partial functions from A to B.
Partial(A, B) == UNION {[S -> B] : S \in SUBSET A}

\* Every tree of files, whether or not a disk could hold it.
Trees == Partial(Paths, FileEntry)

\* A manifest lists a path once, as every walk does.
Manifests == Partial(Paths, ManifestEntry)

\* domain.FileChange
Changes ==
    [op : {"create", "modify"}, path : Paths, hash : Hashes, mode : Modes]
    \cup [op : {"delete"}, path : Paths]

\* The empty tree, and the manifest of one.
NoFiles == [p \in {} |-> p]

\* A disk holds no file at a path that is also a directory of another file.
Consistent(S) == \A p \in S : AncestorsOf[p] \cap S = {}

\* The directories a tree with files at the paths of S has at least.
DirsOf(S) == UNION {AncestorsOf[p] : p \in S}

\* A disk has files and directories, empty ones included.
Disks == [files : Trees, dirs : SUBSET Paths]

\* A state a disk can be in.
WellFormed(disk) ==
    /\ Consistent(DOMAIN disk.files)
    /\ DirsOf(DOMAIN disk.files \cup disk.dirs) \subseteq disk.dirs
    /\ DOMAIN disk.files \cap disk.dirs = {}

-----------------------------------------------------------------------------
(* fsutil.WalkManifest *)

VisibleByRules(p, ignored) ==    \* mutant: the caller's rules stand in for the default ones
    p \notin ignored /\ AncestorsOf[p] \cap ignored = {}

\* The walk skips a directory with a default-ignored name or that the caller
\* ignores, with everything under it, and a file that the caller ignores.
Visible(p, ignored) ==
    /\ p \notin ignored
    /\ AncestorsOf[p] \cap (ignored \cup IgnoredDirs) = {}

WalkManifest(files, ignored) ==
    [p \in {q \in DOMAIN files : Visible(q, ignored)} |->
        [hash |-> Hash[files[p].content], mode |-> files[p].mode]]

\* fsstore.Workspace.Snapshot: the walk without a caller's ignore rules.
Snapshot(files) == WalkManifest(files, {})

(* fsutil.Diff: a set, because the code sorts the changes by path anyway. *)

DiffHashes(old, new) ==     \* mutant: a change of mode alone goes unnoticed
    {[op |-> "create", path |-> p, hash |-> new[p].hash, mode |-> new[p].mode] :
        p \in DOMAIN new \ DOMAIN old}
    \cup {[op |-> "modify", path |-> p, hash |-> new[p].hash, mode |-> new[p].mode] :
        p \in {q \in DOMAIN new \cap DOMAIN old : new[q].hash # old[q].hash}}
    \cup {[op |-> "delete", path |-> p] : p \in DOMAIN old \ DOMAIN new}

Diff(old, new) ==
    {[op |-> "create", path |-> p, hash |-> new[p].hash, mode |-> new[p].mode] :
        p \in DOMAIN new \ DOMAIN old}
    \cup {[op |-> "modify", path |-> p, hash |-> new[p].hash, mode |-> new[p].mode] :
        p \in {q \in DOMAIN new \cap DOMAIN old : new[q] # old[q]}}
    \cup {[op |-> "delete", path |-> p] : p \in DOMAIN old \ DOMAIN new}

-----------------------------------------------------------------------------
(* fsstore.Workspace.Materialize and localfs.Project.Apply *)

EffectiveMode(m) == IF m = 0 THEN DefaultMode ELSE m

Put(files, p, f) == [q \in DOMAIN files \cup {p} |-> IF q = p THEN f ELSE files[q]]

\* The blobs a content-addressed store may hold: content under its own hash.
Blobs == Partial(Hashes, Contents)
Intact(blobs) == \A h \in DOMAIN blobs : Hash[blobs[h]] = h

\* A manifest can be written out when the store has every blob and no file is
\* in the way of a directory.
CanMaterialize(manifest, blobs) ==
    /\ \A p \in DOMAIN manifest : manifest[p].hash \in DOMAIN blobs
    /\ Consistent(DOMAIN manifest)

Materialize(manifest, blobs) ==
    [p \in DOMAIN manifest |->
        [content |-> blobs[manifest[p].hash],
         mode |-> Umask[EffectiveMode(manifest[p].mode)]]]

\* Removing succeeds on a file, an empty directory and a path that does not
\* exist; a path below a regular file is an error of another kind.
Remove(disk, p) ==
    LET occupied == DOMAIN disk.files \cup disk.dirs
        empty(d) == \A q \in occupied : d \notin AncestorsOf[q]
    IN  [files |-> Restrict(disk.files, DOMAIN disk.files \ {p}),
         dirs  |-> IF empty(p) THEN disk.dirs \ {p} ELSE disk.dirs]

WriteNoMkdir(disk, p, f) ==     \* mutant: the parent directories are not made
    IF AncestorsOf[p] \cap DOMAIN disk.files # {} \/ p \in disk.dirs
    THEN disk
    ELSE [files |-> Put(disk.files, p, f), dirs |-> disk.dirs]

\* MkdirAll fails below a regular file, the final rename fails onto a
\* directory; both leave the tree as it was.
Write(disk, p, f) ==
    IF AncestorsOf[p] \cap DOMAIN disk.files # {} \/ p \in disk.dirs
    THEN disk
    ELSE [files |-> Put(disk.files, p, f),
          dirs  |-> disk.dirs \cup AncestorsOf[p]]

\* Apply returns an error: a file is above the path, or the path is a directory
\* that cannot be replaced or is not empty.
Refused(disk, change) ==
    \/ AncestorsOf[change.path] \cap DOMAIN disk.files # {}
    \/ /\ change.path \in disk.dirs
       /\ change.op = "delete" =>
            \E q \in DOMAIN disk.files \cup disk.dirs : change.path \in AncestorsOf[q]

Apply(disk, change, content) ==
    IF change.op = "delete"
    THEN Remove(disk, change.path)
    ELSE Write(disk, change.path,
               [content |-> content, mode |-> EffectiveMode(change.mode)])

-----------------------------------------------------------------------------
(* What "in sync" means *)

\* A file of the project and its counterpart in the workspace: the content is
\* the same; the mode is the one the server pushed or, for a file no turn has
\* changed, the one Materialize derived the workspace's mode from.
Agrees(mine, theirs) ==
    /\ mine.content = theirs.content
    /\ \/ mine.mode = EffectiveMode(theirs.mode)
       \/ theirs.mode = Umask[EffectiveMode(mine.mode)]

\* The project holds exactly the files of the workspace's snapshot.
SameFiles(disk, files) ==
    /\ {p \in DOMAIN disk.files : Visible(p, Ignored)} = DOMAIN Snapshot(files)
    /\ \A p \in DOMAIN Snapshot(files) : Agrees(disk.files[p], files[p])
=============================================================================
