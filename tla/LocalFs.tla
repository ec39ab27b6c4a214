------------------------------- MODULE LocalFs ------------------------------
(***************************************************************************)
(* Project.Apply (localfs.go) as the system calls it makes: the parent     *)
(* directories, a temporary file beside the target, its content, its mode, *)
(* the rename, and the deferred removal.  Any call may fail, and the       *)
(* client may be killed between any two; another session then starts from  *)
(* what is on the disk.                                                    *)
(*                                                                         *)
(* TurnSync has Apply as one step.  With the temporary file and the        *)
(* directories of an unfinished Apply hidden, every session here is a      *)
(* behaviour of it.                                                        *)
(***************************************************************************)
EXTENDS FileTree, FiniteSets

CONSTANTS
    Temps,          \* the paths whose last name begins with .claude-share-
    TempMode,       \* 0o600, the mode of os.CreateTemp
    Empty,          \* the content of a new file
    MaxErrors,      \* the system calls that fail
    MaxKills        \* how often the client is killed

ASSUME TempAssumption ==
    /\ Temps \subseteq Paths
    /\ TempMode \in Modes
    /\ Empty \in Contents
    /\ MaxErrors \in Nat
    /\ MaxKills \in Nat

VARIABLES
    disk,       \* what the project's directory holds, temporary files included
    ws,         \* the files of the server's workspace
    todo,       \* the changes of the turn that Apply has not been called for
    lost,       \* the paths whose last change could not be applied
    ap,         \* Apply: where it is, its change while undecided, its temporary file, the
                \* directories it made
    stray,      \* temporary files left behind in this session
    known,      \* those of earlier sessions, by now files of the project
    errors,
    kills

vars == <<disk, ws, todo, lost, ap, stray, known, errors, kills>>

Idle == [pc |-> "idle", change |-> {}, tmp |-> {}, made |-> {}]

-----------------------------------------------------------------------------
\* The workspace as a new session builds it from the manifest of files.
Uploaded(files) ==
    Materialize(WalkManifest(files, Ignored), [h \in {Hash[c] : c \in Contents} |->
        CHOOSE c \in Contents : Hash[c] = h])

Init ==
    /\ disk \in {d \in Disks : WellFormed(d) /\ (DOMAIN d.files \cup d.dirs) \cap Temps = {}}
    /\ ws = Uploaded(disk.files)
    /\ todo = {} /\ lost = {}
    /\ ap = Idle
    /\ stray = {} /\ known = {}
    /\ errors = 0 /\ kills = 0

\* A turn of the agent, which writes no files with the prefix of Temps, though it
\* may remove one, and nothing the client ignores.
Turn(mine, kept) ==
    LET new == [p \in DOMAIN mine \cup kept |-> IF p \in kept THEN ws[p] ELSE mine[p]]
    IN  /\ ap.pc = "idle" /\ todo = {}
        /\ Consistent(DOMAIN new)
        /\ \A p \in DOMAIN Snapshot(new) : Visible(p, Ignored)
        /\ ws' = new
        /\ todo' = Diff(Snapshot(ws), Snapshot(new))
        /\ UNCHANGED <<disk, lost, ap, stray, known, errors, kills>>

\* applyChange calls Apply for the next change.
ApplyBegins ==
    /\ ap.pc = "idle"
    /\ \E ch \in todo :
        /\ \A d \in todo : Rank[ch.path] <= Rank[d.path]
        /\ ap' = [Idle EXCEPT !.pc = IF ch.op = "delete" THEN "remove" ELSE "mkdir",
                              !.change = {ch}]
        /\ todo' = todo \ {ch}
    /\ UNCHANGED <<disk, ws, lost, stray, known, errors, kills>>

\* Apply has an error to return; applyChange shows it.  From CreateTemp on the
\* deferred removal comes first.
GivesUp(ch) ==
    /\ lost' = lost \cup {ch.path}
    /\ ap' = IF ap.tmp = {} THEN Idle ELSE [Idle EXCEPT !.pc = "clean", !.tmp = ap.tmp]

RemoveFile(ch) ==
    /\ ap.pc = "remove"
    /\ disk' = Remove(disk, ch.path)
    /\ IF Refused(disk, ch) THEN GivesUp(ch)
       ELSE lost' = lost \ {ch.path} /\ ap' = Idle
    /\ UNCHANGED errors

MkdirNever(ch) ==       \* mutant: the parent directories are not made
    /\ ap.pc = "mkdir"
    /\ ap' = [ap EXCEPT !.pc = "create"]
    /\ UNCHANGED <<disk, lost, errors>>

MkdirAll(ch) ==
    /\ ap.pc = "mkdir"
    /\ IF AncestorsOf[ch.path] \cap DOMAIN disk.files # {}
       THEN GivesUp(ch) /\ UNCHANGED disk
       ELSE /\ disk' = [disk EXCEPT !.dirs = @ \cup AncestorsOf[ch.path]]
            /\ ap' = [ap EXCEPT !.pc = "create", !.made = AncestorsOf[ch.path] \ disk.dirs]
            /\ UNCHANGED lost
    /\ UNCHANGED errors

\* os.CreateTemp gives up when it finds no free name.
CreateTemp(ch) ==
    LET free == {t \in Temps \ (DOMAIN disk.files \cup disk.dirs) :
                    AncestorsOf[t] = AncestorsOf[ch.path]}
    IN  /\ ap.pc = "create"
        /\ \/ /\ free = {}
              /\ GivesUp(ch)
              /\ UNCHANGED disk
           \/ \E t \in free :
                /\ disk' = [disk EXCEPT !.files =
                                Put(@, t, [content |-> Empty, mode |-> TempMode])]
                /\ ap' = [ap EXCEPT !.pc = "write", !.tmp = {t}]
                /\ UNCHANGED lost
        /\ UNCHANGED errors

WriteTemp(ch) ==
    /\ ap.pc = "write"
    /\ \E t \in ap.tmp : disk' = [disk EXCEPT !.files[t].content = ws[ch.path].content]
    /\ ap' = [ap EXCEPT !.pc = "chmod"]
    /\ UNCHANGED <<lost, errors>>

ChmodLate(ch) ==        \* mutant: renamed before it has its mode
    /\ ap.pc = "chmod"
    /\ ch.path \notin disk.dirs
    /\ \E t \in ap.tmp :
        disk' = [disk EXCEPT !.files =
            Put(Restrict(@, DOMAIN @ \ {t}), ch.path, disk.files[t])]
    /\ ap' = [Idle EXCEPT !.pc = "clean", !.tmp = ap.tmp]
    /\ UNCHANGED <<lost, errors>>

ChmodTemp(ch) ==
    /\ ap.pc = "chmod"
    /\ \E t \in ap.tmp : disk' = [disk EXCEPT !.files[t].mode = EffectiveMode(ch.mode)]
    /\ ap' = [ap EXCEPT !.pc = "rename"]
    /\ UNCHANGED <<lost, errors>>

RenameSilent(ch) ==     \* mutant: the error of the rename is dropped
    /\ ap.pc = "rename"
    /\ \E t \in ap.tmp :
        disk' = IF ch.path \in disk.dirs THEN disk
                ELSE [disk EXCEPT !.files =
                        Put(Restrict(@, DOMAIN @ \ {t}), ch.path, disk.files[t])]
    /\ lost' = lost \ {ch.path}
    /\ ap' = [Idle EXCEPT !.pc = "clean", !.tmp = ap.tmp]
    /\ UNCHANGED errors

RenameTemp(ch) ==
    /\ ap.pc = "rename"
    /\ IF ch.path \in disk.dirs
       THEN GivesUp(ch) /\ UNCHANGED disk
       ELSE /\ \E t \in ap.tmp :
                disk' = [disk EXCEPT !.files =
                            Put(Restrict(@, DOMAIN @ \ {t}), ch.path, disk.files[t])]
            /\ lost' = lost \ {ch.path}
            /\ ap' = [Idle EXCEPT !.pc = "clean", !.tmp = ap.tmp]
    /\ UNCHANGED errors

\* A system call fails: no space, no permission.  MkdirAll may have made some
\* of the directories.
CallFails(ch) ==
    /\ errors < MaxErrors
    /\ errors' = errors + 1
    /\ IF ap.pc = "mkdir"
       THEN /\ \E made \in SUBSET AncestorsOf[ch.path] :
                disk' = [disk EXCEPT !.dirs = @ \cup made]
            /\ WellFormed(disk')
       ELSE UNCHANGED disk
    /\ GivesUp(ch)

ApplyStep ==
    /\ ap.pc # "dead"
    /\ \E ch \in ap.change :
        \/ RemoveFile(ch) \/ MkdirAll(ch) \/ CreateTemp(ch) \/ WriteTemp(ch)
        \/ ChmodTemp(ch) \/ RenameTemp(ch) \/ CallFails(ch)
    /\ UNCHANGED <<ws, todo, stray, known, kills>>

CleanUpNever ==         \* mutant: no deferred removal
    /\ ap.pc = "clean"
    /\ ap' = Idle
    /\ UNCHANGED <<disk, ws, todo, lost, stray, known, errors, kills>>

\* The deferred removal: after a rename there is nothing left to remove.  Its
\* error is ignored.
CleanUp ==
    /\ ap.pc = "clean"
    /\ \/ /\ disk' = [disk EXCEPT !.files = Restrict(@, DOMAIN @ \ ap.tmp)]
          /\ UNCHANGED <<stray, errors>>
       \/ /\ ap.tmp \subseteq DOMAIN disk.files
          /\ errors < MaxErrors
          /\ errors' = errors + 1
          /\ stray' = stray \cup ap.tmp
          /\ UNCHANGED disk
    /\ ap' = Idle
    /\ UNCHANGED <<ws, todo, lost, known, kills>>

Kill ==
    /\ ap.pc # "dead" /\ kills < MaxKills
    /\ kills' = kills + 1
    /\ ap' = [ap EXCEPT !.pc = "dead"]
    /\ stray' = stray \cup (ap.tmp \cap DOMAIN disk.files)
    /\ UNCHANGED <<disk, ws, todo, lost, known, errors>>

\* The next session shares whatever is on the disk.
Reopen ==
    /\ ap.pc = "dead"
    /\ ap' = Idle
    /\ ws' = Uploaded(disk.files)
    /\ todo' = {} /\ lost' = {}
    /\ stray' = {} /\ known' = known \cup stray
    /\ UNCHANGED <<disk, errors, kills>>

Next ==
    \/ ApplyBegins \/ ApplyStep \/ CleanUp \/ Kill \/ Reopen
    \/ \E mine \in Partial(Paths \ Temps, FileEntry), kept \in SUBSET (Temps \cap DOMAIN ws) :
        Turn(mine, kept)

Spec == Init /\ [][Next]_vars

-----------------------------------------------------------------------------
(* What an observer who knows nothing of temporary files sees *)

Project ==
    [files |-> Restrict(disk.files, DOMAIN disk.files \ (ap.tmp \cup stray)),
     dirs  |-> disk.dirs \ ap.made]

Pending == todo \cup ap.change

T == INSTANCE TurnSync WITH
        local <- Project, todo <- Pending,
        AgentReplacesDirs <- TRUE, AgentWritesIgnored <- FALSE

TypeOK ==
    /\ disk \in Disks /\ WellFormed(disk)
    /\ ws \in Trees
    /\ todo \subseteq Changes /\ ap.change \subseteq Changes
    /\ Cardinality(ap.change) <= 1 /\ Cardinality(ap.tmp) <= 1
    /\ lost \subseteq Paths
    /\ ap.tmp \cup stray \cup known \subseteq Temps

\* Apply is atomic: however its calls fail and wherever the client is killed,
\* a reader of the project sees each file as it was before the change or as the
\* server pushed it, content and mode, and each session, from the manifest of
\* what the last one left, is a behaviour of TurnSync.
RefinesTurnSync ==
    /\ T!Init
    /\ [][\/ T!ApplyNext
          \/ T!ApplyFails
          \/ ws' \in Trees /\ T!Turn(ws')
          \/ ap.pc = "dead" /\ T!Init']_<<Project, ws, Pending, lost>>

\* No change is lost without a word, whichever of Apply's calls fails.
NoSilentLoss == T!NoSilentLoss

\* A temporary file outlives its Apply only when the client was killed or could
\* not remove it; no error path of Apply forgets it.
TempsCleaned == Temps \cap DOMAIN disk.files \subseteq ap.tmp \cup stray \cup known
=============================================================================
