--------------------------- MODULE LocalFsProofs ----------------------------
(***************************************************************************)
(* Apply as system calls implements Apply as one step, for any paths,      *)
(* files and changes, however its calls fail and wherever the client is    *)
(* killed; so what TurnSync promises of a session holds of the files on    *)
(* the disk.                                                               *)
(***************************************************************************)
EXTENDS LocalFs, FileTreeProofs, FiniteSetTheorems, TLAPS

\* TurnSync again, as LocalFs instantiates it, with what is proved about it.
P == INSTANCE TurnSyncProofs WITH
        local <- Project, todo <- Pending,
        AgentReplacesDirs <- TRUE, AgentWritesIgnored <- FALSE

-----------------------------------------------------------------------------
(* The inductive invariant *)

Working == {"mkdir", "create", "write", "chmod", "rename"}

ApType == [pc : Working \cup {"idle", "remove", "clean", "dead"},
           change : SUBSET Changes, tmp : SUBSET Temps, made : SUBSET Paths]

FsTypes ==
    /\ disk \in Disks /\ WellFormed(disk)
    /\ ws \in Trees /\ Consistent(DOMAIN ws)
    /\ todo \subseteq Changes
    /\ lost \subseteq Paths
    /\ stray \cup known \subseteq Temps
    /\ ap \in ApType
    /\ \E ch : ap.change \subseteq {ch}
    /\ \E t : ap.tmp \subseteq {t}

\* Apply between its system calls.  The parents of the target exist from mkdir
\* on; the temporary file exists until the rename and holds, step by step, what
\* the target is to hold; a killed client's temporary file is on record.
ApInv ==
    /\ ap.pc = "idle" => ap = Idle
    /\ ap.pc = "clean" => ap.change = {} /\ ap.made = {}
    /\ ap.pc \in {"remove", "mkdir"} => ap.tmp = {} /\ ap.made = {}
    /\ ap.pc = "create" => ap.tmp = {}
    /\ ap.pc \in Working \cup {"remove"} =>
        \E ch \in Changes : ap.change = {ch} /\ (ap.pc = "remove" <=> ch.op = "delete")
    /\ ap.pc \in Working \ {"mkdir"} =>
        \A ch \in ap.change :
            ap.made \subseteq AncestorsOf[ch.path] /\ AncestorsOf[ch.path] \subseteq disk.dirs
    /\ ap.pc \in {"write", "chmod", "rename"} =>
        \E t \in DOMAIN disk.files :
            /\ ap.tmp = {t}
            /\ \A ch \in ap.change :
                /\ ap.pc \in {"chmod", "rename"} =>
                    disk.files[t].content = ws[ch.path].content
                /\ ap.pc = "rename" => disk.files[t].mode = EffectiveMode(ch.mode)
    /\ ap.pc = "dead" => ap.tmp \cap DOMAIN disk.files \subseteq stray

\* The changes to come, the one under way included, describe the workspace, none
\* writes a path of a temporary file, and the one under way is the first.
PendingInv ==
    /\ \A ch \in Pending :
        IF ch.op = "delete" THEN ch.path \notin DOMAIN ws
        ELSE /\ ch.path \in DOMAIN ws \ Temps
             /\ ch.mode = ws[ch.path].mode
    /\ \A ch \in ap.change : ch \notin todo /\ \A d \in todo : Rank[ch.path] <= Rank[d.path]

FsInv ==
    /\ FsTypes
    /\ ApInv
    /\ PendingInv
    /\ WellFormed(Project)
    /\ TempsCleaned

-----------------------------------------------------------------------------
(* The operators of the instance are those of FileTree *)

\* The assumptions of TurnSync hold of the paths, hashes and modes of this disk.
LEMMA Assumptions ==
    P!PathAssumption /\ P!HashAssumption /\ P!ModeAssumption /\ P!FlagAssumption
BY PathAssumption, HashAssumption, ModeAssumption
   DEF P!PathAssumption, P!HashAssumption, P!ModeAssumption, P!FlagAssumption

\* Trees, disks and changes mean the same in both modules.
LEMMA SameTypes ==
    /\ P!Trees = Trees /\ P!Disks = Disks /\ P!Changes = Changes
    /\ \A S : P!Consistent(S) = Consistent(S)
    /\ \A d : P!WellFormed(d) = WellFormed(d)
BY DEF P!Trees, Trees, P!Disks, Disks, P!Changes, Changes, P!Partial, Partial,
       P!FileEntry, FileEntry, P!Consistent, Consistent, P!WellFormed, WellFormed,
       P!DirsOf, DirsOf

\* Applying a change does the same in both modules and is refused alike.
LEMMA SameApply ==
    /\ \A d, c, x : P!Apply(d, c, x) = Apply(d, c, x)
    /\ \A d, c : P!Refused(d, c) = Refused(d, c)
BY DEF P!Apply, Apply, P!Remove, Remove, P!Write, Write, P!Restrict, Restrict,
       P!Put, Put, P!EffectiveMode, EffectiveMode, P!Refused, Refused

\* Walking and comparing trees gives the same in both modules.
LEMMA SameWalk ==
    /\ \A p, I : P!Visible(p, I) = Visible(p, I)
    /\ \A t, I : P!WalkManifest(t, I) = WalkManifest(t, I)
    /\ \A t : P!Snapshot(t) = Snapshot(t)
    /\ \A a, b : P!Diff(a, b) = Diff(a, b)
BY DEF P!WalkManifest, WalkManifest, P!Visible, Visible, P!Snapshot, Snapshot, P!Diff, Diff

\* Writing a tree from a manifest does the same in both modules.
LEMMA SameBlobs ==
    /\ \A b : P!Intact(b) = Intact(b)
    /\ \A m, b : P!Materialize(m, b) = Materialize(m, b)
BY DEF P!Intact, Intact, P!Materialize, Materialize, P!EffectiveMode, EffectiveMode

\* What is shown of one instance of TurnSync holds of the other.
LEMMA SameSteps ==
    /\ P!Init => T!Init
    /\ P!ApplyNext => T!ApplyNext
    /\ P!ApplyFails => T!ApplyFails
    /\ \A new : P!Turn(new) => T!Turn(new)
    /\ P!NoSilentLoss = T!NoSilentLoss
<1>1. P!Init => T!Init
  BY DEF P!Init, T!Init, P!WalkManifest, T!WalkManifest, P!Visible, T!Visible,
         P!Materialize, T!Materialize, P!EffectiveMode, T!EffectiveMode, P!Intact, T!Intact,
         P!Disks, T!Disks, P!Trees, T!Trees, P!Partial, T!Partial, P!FileEntry, T!FileEntry,
         P!WellFormed, T!WellFormed, P!Consistent, T!Consistent, P!DirsOf, T!DirsOf
<1>2. P!ApplyNext => T!ApplyNext
  BY DEF P!ApplyNext, T!ApplyNext, P!Apply, T!Apply, P!Remove, T!Remove, P!Write, T!Write,
         P!Restrict, T!Restrict, P!Put, T!Put, P!EffectiveMode, T!EffectiveMode,
         P!Reported, T!Reported, P!Refused, T!Refused
<1>3. P!ApplyFails => T!ApplyFails
  BY DEF P!ApplyFails, T!ApplyFails, P!WellFormed, T!WellFormed,
         P!Consistent, T!Consistent, P!DirsOf, T!DirsOf
<1>4. \A new : P!Turn(new) => T!Turn(new)
  BY DEF P!Turn, T!Turn, P!Consistent, T!Consistent, P!Snapshot, T!Snapshot,
         P!WalkManifest, T!WalkManifest, P!Visible, T!Visible, P!Diff, T!Diff
<1>5. P!NoSilentLoss = T!NoSilentLoss
  BY DEF P!NoSilentLoss, T!NoSilentLoss, P!Visible, T!Visible, P!PendingPaths,
         T!PendingPaths, P!Agrees, T!Agrees, P!EffectiveMode, T!EffectiveMode
<1> QED BY <1>1, <1>2, <1>3, <1>4, <1>5

-----------------------------------------------------------------------------
(* One system call after another *)

\* A disk without some of its files is a disk.
LEMMA HideFiles ==
    ASSUME NEW d \in Disks, WellFormed(d), NEW S
    PROVE  WellFormed([files |-> Restrict(d.files, DOMAIN d.files \ S), dirs |-> d.dirs])
<1> DEFINE f == Restrict(d.files, DOMAIN d.files \ S)
<1>1. DOMAIN f \subseteq DOMAIN d.files
  BY DEF Restrict
<1> DEFINE e == [files |-> f, dirs |-> d.dirs]
<1>2. e.files = f /\ e.dirs = d.dirs
  OBVIOUS
<1> HIDE DEF f, e
<1>3. Consistent(DOMAIN e.files)
  BY <1>1, <1>2 DEF WellFormed, Consistent
<1>4. DirsOf(DOMAIN e.files \cup e.dirs) \subseteq e.dirs
  BY <1>1, <1>2 DEF WellFormed, DirsOf
<1>5. DOMAIN e.files \cap e.dirs = {}
  BY <1>1, <1>2 DEF WellFormed
<1>6. WellFormed(e)
  BY <1>3, <1>4, <1>5 DEF WellFormed
<1> QED BY <1>6 DEF e, f

\* What is known of the change under way.
LEMMA UnderWay ==
    ASSUME FsInv, NEW ch \in ap.change
    PROVE  /\ ch \in Changes /\ ch.path \in Paths
           /\ ap.change = {ch} /\ Pending = todo \cup {ch} /\ ch \notin todo
           /\ \A d \in Pending : Rank[ch.path] <= Rank[d.path]
           /\ IF ch.op = "delete" THEN ch.path \notin DOMAIN ws
              ELSE ch.path \in DOMAIN ws \ Temps /\ ch.mode = ws[ch.path].mode
<1>1. ch \in Changes /\ ap.change = {ch}
  BY DEF FsInv, FsTypes, ApType
<1>2. ch.path \in Paths
  BY <1>1 DEF Changes
<1>3. Pending = todo \cup {ch} /\ ch \in Pending
  BY <1>1 DEF Pending
<1>4. ch \notin todo /\ \A d \in todo : Rank[ch.path] <= Rank[d.path]
  BY DEF FsInv, PendingInv
<1>5. Rank[ch.path] \in Nat
  BY <1>2, PathAssumption
<1> QED BY <1>1, <1>2, <1>3, <1>4, <1>5 DEF FsInv, PendingInv

\* Whatever makes Apply return an error, it is the failure of the abstract Apply,
\* and the directories made so far may stay behind.
LEMMA GivesUpStep ==
    ASSUME FsInv, NEW ch \in ap.change, ap.pc \in Working \cup {"remove"}, GivesUp(ch),
           disk' \in Disks, WellFormed(disk'), disk'.files = disk.files,
           NEW made \in SUBSET AncestorsOf[ch.path], disk'.dirs = disk.dirs \cup made,
           UNCHANGED <<ws, todo, stray, known>>
    PROVE  FsInv' /\ P!ApplyFails
<1>1. /\ ch \in Changes /\ ch.path \in Paths
      /\ ap.change = {ch} /\ Pending = todo \cup {ch} /\ ch \notin todo
      /\ \A d \in Pending : Rank[ch.path] <= Rank[d.path]
  BY UnderWay
<1>2. /\ ap'.change = {} /\ ap'.made = {} /\ ap'.tmp = ap.tmp
      /\ ap'.pc \in {"idle", "clean"} /\ (ap'.pc = "idle" => ap' = Idle)
      /\ ap' = [pc |-> ap'.pc, change |-> {}, tmp |-> ap.tmp, made |-> {}]
      /\ lost' = lost \cup {ch.path}
  BY DEF GivesUp, Idle
<1>3. disk \in Disks /\ WellFormed(disk) /\ ap.tmp \subseteq Temps /\ \E t : ap.tmp \subseteq {t}
  BY DEF FsInv, FsTypes, ApType
<1>4. ap' \in ApType
  BY <1>2, <1>3 DEF ApType
<1>5. FsTypes'
  BY <1>1, <1>2, <1>3, <1>4 DEF FsInv, FsTypes
<1>6. ApInv'
  BY <1>2 DEF ApInv, Working
<1>7. Pending' = todo
  BY <1>2 DEF Pending
<1>8. PendingInv'
  BY <1>1, <1>2, <1>7 DEF FsInv, PendingInv
<1>9. WellFormed(Project')
  <2>1. Project' = [files |-> Restrict(disk'.files, DOMAIN disk'.files \ (ap'.tmp \cup stray')),
                    dirs |-> disk'.dirs]
    BY <1>2 DEF Project
  <2> QED BY <2>1, HideFiles
<1>10. TempsCleaned'
  BY <1>2 DEF FsInv, TempsCleaned
<1>11. P!ApplyFails
  <2> DEFINE gone == made \cup ap.made
  <2>1. ap.made \subseteq AncestorsOf[ch.path] /\ (ap.made = {} \/ ap.made \subseteq disk.dirs)
    BY <1>1 DEF FsInv, ApInv, Working
  <2>2. gone \subseteq AncestorsOf[ch.path] /\ AncestorsOf[ch.path] \in SUBSET Paths
    BY <1>1, <2>1, PathAssumption
  <2>3. Project' = [Project EXCEPT !.dirs = @ \cup gone]
    <3>1. disk'.dirs = (disk.dirs \ ap.made) \cup gone
      BY <2>1
    <3>2. ap'.tmp \cup stray' = ap.tmp \cup stray /\ disk'.dirs \ ap'.made = disk'.dirs
      BY <1>2
    <3>3. Project' = [files |-> Project.files, dirs |-> (disk.dirs \ ap.made) \cup gone]
      BY <3>1, <3>2 DEF Project
    <3>4. Project = [files |-> Project.files, dirs |-> disk.dirs \ ap.made]
      BY DEF Project
    <3> DEFINE all == Project.dirs \cup gone
    <3> HIDE DEF gone
    <3>5. [Project EXCEPT !.dirs = @ \cup gone] = [Project EXCEPT !.dirs = all]
      OBVIOUS
    <3>6. all = (disk.dirs \ ap.made) \cup gone
      BY <3>4
    <3> HIDE DEF all
    <3>7. [Project EXCEPT !.dirs = all] = [files |-> Project.files, dirs |-> all]
      BY <3>4
    <3> QED BY <3>3, <3>5, <3>6, <3>7
  <2>4. Pending' = Pending \ {ch}
    BY <1>1, <1>7
  <2> HIDE DEF gone
  <2> QED BY <1>1, <1>2, <1>9, <2>2, <2>3, <2>4, SameTypes DEF P!ApplyFails
<1> QED BY <1>5, <1>6, <1>8, <1>9, <1>10, <1>11 DEF FsInv

\* applyChange calls Apply: nothing an observer sees.
LEMMA BeginStep ==
    ASSUME FsInv, ApplyBegins
    PROVE  FsInv' /\ UNCHANGED <<Project, ws, Pending, lost>>
<1>1. PICK ch \in todo :
        /\ \A d \in todo : Rank[ch.path] <= Rank[d.path]
        /\ ap' = [Idle EXCEPT !.pc = IF ch.op = "delete" THEN "remove" ELSE "mkdir",
                              !.change = {ch}]
        /\ todo' = todo \ {ch}
  BY DEF ApplyBegins
<1>2. ap = Idle /\ UNCHANGED <<disk, ws, lost, stray, known>>
  BY DEF ApplyBegins, FsInv, ApInv
<1>3. ap' = [pc |-> IF ch.op = "delete" THEN "remove" ELSE "mkdir", change |-> {ch},
             tmp |-> {}, made |-> {}]
  BY <1>1 DEF Idle
<1>4. ap.change = {} /\ ap.tmp = {} /\ ap.made = {}
  BY <1>2 DEF Idle
<1>5. ch \in Changes
  BY DEF FsInv, FsTypes
<1>6. ap' \in ApType
  BY <1>3, <1>5 DEF ApType, Working
<1>7. FsTypes'
  BY <1>1, <1>2, <1>3, <1>6 DEF FsInv, FsTypes
<1>8. ApInv'
  BY <1>3, <1>5 DEF ApInv, Working
<1>9. Pending' = Pending
  BY <1>1, <1>3, <1>4 DEF Pending
<1>10. PendingInv'
  BY <1>1, <1>2, <1>3, <1>9 DEF FsInv, PendingInv
<1>11. Project' = Project
  BY <1>2, <1>3, <1>4 DEF Project
<1>12. TempsCleaned'
  BY <1>2, <1>3, <1>4 DEF FsInv, TempsCleaned
<1> QED BY <1>2, <1>7, <1>8, <1>9, <1>10, <1>11, <1>12 DEF FsInv

\* os.Remove: refused by the disk, it is a failure; else it is the abstract
\* removal, although a stray file may keep a directory that looks empty.
LEMMA RemoveStep ==
    ASSUME FsInv, NEW ch \in ap.change, RemoveFile(ch), UNCHANGED <<ws, todo, stray, known>>
    PROVE  FsInv' /\ (P!ApplyNext \/ P!ApplyFails)
<1> DEFINE p == ch.path
<1>1. /\ ch \in Changes /\ p \in Paths
      /\ ap.change = {ch} /\ Pending = todo \cup {ch} /\ ch \notin todo
      /\ \A d \in Pending : Rank[p] <= Rank[d.path]
  BY UnderWay
<1>2. /\ ap.pc = "remove" /\ ap.tmp = {} /\ ap.made = {} /\ ch.op = "delete"
      /\ disk' = Remove(disk, p)
  BY <1>1 DEF RemoveFile, FsInv, ApInv
<1>3. /\ disk \in Disks /\ WellFormed(disk)
      /\ disk' \in Disks /\ WellFormed(disk')
      /\ disk'.files = Restrict(disk.files, DOMAIN disk.files \ {p})
  BY <1>1, <1>2, RemoveEffect DEF FsInv, FsTypes
<1>a. disk'.dirs = IF \A q \in DOMAIN disk.files \cup disk.dirs : p \notin AncestorsOf[q]
                   THEN disk.dirs \ {p} ELSE disk.dirs
  BY <1>2 DEF Remove
<1>4. CASE Refused(disk, ch)
  <2>1. p \notin DOMAIN disk.files /\ disk'.dirs = disk.dirs
    <3>1. p \notin DOMAIN disk.files
      BY <1>1, <1>2, <1>3, <1>4 DEF Refused, WellFormed, Consistent
    <3>2. CASE AncestorsOf[p] \cap DOMAIN disk.files # {}
      <4>1. p \notin disk.dirs
        BY <1>3, <3>2 DEF WellFormed, DirsOf
      <4> QED BY <1>a, <3>1, <4>1
    <3>3. CASE AncestorsOf[p] \cap DOMAIN disk.files = {}
      BY <1>2, <1>4, <1>a, <3>1, <3>3 DEF Refused
    <3> QED BY <3>1, <3>2, <3>3
  <2>2. disk'.files = disk.files
    <3>1. disk.files = [x \in DOMAIN disk.files |-> disk.files[x]]
      BY <1>3, DiskElim, PartialElim DEF Trees
    <3>2. DOMAIN disk.files \ {p} = DOMAIN disk.files
      BY <2>1
    <3> QED BY <1>3, <3>1, <3>2 DEF Restrict
  <2>3. GivesUp(ch)
    BY <1>2, <1>4 DEF RemoveFile
  <2>4. {} \in SUBSET AncestorsOf[p] /\ disk'.dirs = disk.dirs \cup {}
    BY <2>1
  <2> QED BY <1>2, <1>3, <2>2, <2>3, <2>4, GivesUpStep
<1>5. CASE ~Refused(disk, ch)
  <2>1. lost' = lost \ {p} /\ ap' = Idle
    BY <1>5 DEF RemoveFile
  <2>2. ap'.change = {} /\ ap'.made = {} /\ ap'.tmp = {} /\ ap'.pc = "idle" /\ ap' \in ApType
    BY <2>1 DEF Idle, ApType
  <2>3. FsTypes'
    BY <1>1, <1>3, <2>1, <2>2 DEF FsInv, FsTypes
  <2>4. ApInv'
    BY <2>1, <2>2 DEF ApInv, Working
  <2>5. Pending' = todo
    BY <2>2 DEF Pending
  <2>6. PendingInv'
    BY <1>1, <2>2, <2>5 DEF FsInv, PendingInv
  <2>7. TempsCleaned'
    BY <1>2, <1>3, <2>2 DEF FsInv, TempsCleaned, Restrict
  <2>8. /\ Project' = [files |-> Restrict(disk'.files, DOMAIN disk'.files \ stray),
                       dirs |-> disk'.dirs]
        /\ Project = [files |-> Restrict(disk.files, DOMAIN disk.files \ stray),
                      dirs |-> disk.dirs]
    <3>1. ap.tmp \cup stray = stray /\ ap'.tmp \cup stray' = stray
      BY <1>2, <2>2
    <3>2. disk.dirs \ ap.made = disk.dirs /\ disk'.dirs \ ap'.made = disk'.dirs
      BY <1>2, <2>2
    <3> QED BY <3>1, <3>2 DEF Project
  <2>9. WellFormed(Project')
    BY <1>3, <2>8, HideFiles
  <2>10. Project' = Remove(Project, p)
    <3>1. Project'.files = Restrict(Project.files, DOMAIN Project.files \ {p})
      BY <1>3, <2>8 DEF Restrict
    <3>2. DOMAIN Project.files \subseteq DOMAIN disk.files /\ Project.dirs = disk.dirs
      BY <2>8 DEF Restrict
    <3>3. Project'.dirs = disk'.dirs
      BY <2>8
    <3>4. p \in disk.dirs => \A q \in DOMAIN disk.files \cup disk.dirs : p \notin AncestorsOf[q]
      BY <1>2, <1>5 DEF Refused
    <3>5. disk'.dirs = disk.dirs \ {p}
      BY <1>a, <3>4
    <3>6. disk'.dirs = IF \A q \in DOMAIN Project.files \cup Project.dirs : p \notin AncestorsOf[q]
                       THEN Project.dirs \ {p} ELSE Project.dirs
      BY <3>2, <3>4, <3>5
    <3>7. Project' = [files |-> Project'.files, dirs |-> Project'.dirs]
      BY <2>8
    <3> QED BY <3>1, <3>3, <3>6, <3>7 DEF Remove
  <2>11. ~Refused(Project, ch)
    <3>1. DOMAIN Project.files \subseteq DOMAIN disk.files /\ Project.dirs = disk.dirs
      BY <2>8 DEF Restrict
    <3> QED BY <1>2, <1>5, <3>1 DEF Refused
  <2>12. Project' = P!Apply(Project, ch, ch)
    BY <1>2, <2>10, SameApply DEF Apply
  <2>13. lost' = P!Reported(ch)
    BY <2>1, <2>11, SameApply DEF P!Reported
  <2>14. Pending' = Pending \ {ch}
    BY <1>1, <2>5
  <2>15. P!ApplyNext
    BY <1>1, <1>2, <2>12, <2>13, <2>14 DEF P!ApplyNext
  <2> QED BY <2>3, <2>4, <2>6, <2>7, <2>9, <2>15 DEF FsInv
<1> QED BY <1>4, <1>5

\* MkdirAll below no file.
LEMMA AddDirs ==
    ASSUME NEW d \in Disks, WellFormed(d), NEW p \in Paths,
           AncestorsOf[p] \cap DOMAIN d.files = {}
    PROVE  LET e == [d EXCEPT !.dirs = @ \cup AncestorsOf[p]]
           IN  /\ e \in Disks /\ WellFormed(e)
               /\ e.files = d.files /\ e.dirs = d.dirs \cup AncestorsOf[p]
<1> DEFINE e == [d EXCEPT !.dirs = @ \cup AncestorsOf[p]]
<1>1. AncestorsOf[p] \in SUBSET Paths /\ \A q \in AncestorsOf[p] :
      AncestorsOf[q] \subseteq AncestorsOf[p]
  BY PathAssumption
<1>2. e \in Disks /\ e.files = d.files /\ e.dirs = d.dirs \cup AncestorsOf[p]
  BY <1>1 DEF Disks
<1> HIDE DEF e
<1>3. WellFormed(e)
  BY <1>1, <1>2 DEF WellFormed, DirsOf
<1> QED BY <1>2, <1>3 DEF e

\* CreateTemp in a directory that exists.
LEMMA AddFile ==
    ASSUME NEW d \in Disks, WellFormed(d), NEW p \in Paths, NEW f \in FileEntry,
           AncestorsOf[p] \subseteq d.dirs, p \notin d.dirs
    PROVE  LET e == [d EXCEPT !.files = Put(@, p, f)]
           IN  /\ e \in Disks /\ WellFormed(e)
               /\ e.files = Put(d.files, p, f) /\ e.dirs = d.dirs
<1> DEFINE e == [d EXCEPT !.files = Put(@, p, f)]
           w == Write(d, p, f)
<1>1. e.files = Put(d.files, p, f) /\ e.dirs = d.dirs /\ e = [files |-> e.files, dirs |-> e.dirs]
  BY DEF Disks
<1>2. AncestorsOf[p] \cap DOMAIN d.files = {}
  BY DEF WellFormed
<1>3. w \in Disks /\ WellFormed(w) /\ w.files = Put(d.files, p, f) /\
      w.dirs = d.dirs \cup AncestorsOf[p]
  BY <1>2, WriteEffect
<1>4. w = [files |-> w.files, dirs |-> w.dirs]
  BY <1>3 DEF Disks
<1> HIDE DEF e, w
<1>5. e = w
  BY <1>1, <1>3, <1>4
<1> QED BY <1>1, <1>3, <1>5 DEF e

\* What happens to a file whose path does not change.
LEMMA ChangeFile ==
    ASSUME NEW d \in Disks, WellFormed(d), NEW e \in Disks,
           DOMAIN e.files = DOMAIN d.files, e.dirs = d.dirs
    PROVE  WellFormed(e)
BY DEF WellFormed

\* MkdirAll leaves the project alone, or refuses the change as TurnSync does.
LEMMA MkdirStep ==
    ASSUME FsInv, NEW ch \in ap.change, MkdirAll(ch), UNCHANGED <<ws, todo, stray, known>>
    PROVE  FsInv' /\ (P!ApplyFails \/ UNCHANGED <<Project, ws, Pending, lost>>)
<1> DEFINE p == ch.path
<1>1. ch \in Changes /\ p \in Paths /\ ap.change = {ch}
  BY UnderWay
<1>2. /\ ap.pc = "mkdir" /\ ap.tmp = {} /\ ap.made = {} /\ ch.op # "delete"
      /\ disk \in Disks /\ WellFormed(disk) /\ ap \in ApType
  BY <1>1 DEF MkdirAll, FsInv, FsTypes, ApInv, Working
<1>3. AncestorsOf[p] \in SUBSET Paths
  BY <1>1, PathAssumption
<1>4. CASE AncestorsOf[p] \cap DOMAIN disk.files # {}
  <2>1. GivesUp(ch) /\ disk' = disk
    BY <1>4 DEF MkdirAll
  <2>2. {} \in SUBSET AncestorsOf[p] /\ disk'.dirs = disk.dirs \cup {}
    BY <2>1
  <2>3. disk' \in Disks /\ WellFormed(disk') /\ disk'.files = disk.files
    BY <1>2, <2>1
  <2> QED BY <1>2, <2>1, <2>2, <2>3, GivesUpStep DEF Working
<1>5. CASE AncestorsOf[p] \cap DOMAIN disk.files = {}
  <2>1. /\ disk' = [disk EXCEPT !.dirs = @ \cup AncestorsOf[p]]
        /\ ap' = [ap EXCEPT !.pc = "create", !.made = AncestorsOf[p] \ disk.dirs]
        /\ lost' = lost
    BY <1>5 DEF MkdirAll
  <2>2. /\ disk' \in Disks /\ WellFormed(disk')
        /\ disk'.files = disk.files /\ disk'.dirs = disk.dirs \cup AncestorsOf[p]
    BY <1>1, <1>2, <1>5, <2>1, AddDirs
  <2>3. /\ ap'.pc = "create" /\ ap'.change = {ch} /\ ap'.tmp = {}
        /\ ap'.made = AncestorsOf[p] \ disk.dirs /\ ap' \in ApType
    BY <1>1, <1>2, <1>3, <2>1 DEF ApType, Working
  <2>4. FsTypes'
    BY <2>1, <2>2, <2>3 DEF FsInv, FsTypes
  <2>5. ApInv'
    BY <1>1, <1>2, <2>2, <2>3 DEF ApInv, Working
  <2>6. Pending' = Pending /\ PendingInv'
    BY <1>1, <2>3 DEF FsInv, PendingInv, Pending
  <2>7. Project' = Project
    <3>1. ap'.tmp \cup stray' = ap.tmp \cup stray
      BY <1>2, <2>3
    <3>2. disk'.dirs \ ap'.made = disk.dirs \ ap.made
      BY <1>2, <2>2, <2>3
    <3> QED BY <2>2, <3>1, <3>2 DEF Project
  <2>8. TempsCleaned'
    BY <1>2, <2>2, <2>3 DEF FsInv, TempsCleaned
  <2> QED BY <2>1, <2>4, <2>5, <2>6, <2>7, <2>8 DEF FsInv
<1> QED BY <1>4, <1>5

\* The temporary file is hidden from the observer as soon as it exists.
LEMMA CreateStep ==
    ASSUME FsInv, NEW ch \in ap.change, CreateTemp(ch), UNCHANGED <<ws, todo, stray, known>>
    PROVE  FsInv' /\ (P!ApplyFails \/ UNCHANGED <<Project, ws, Pending, lost>>)
<1> DEFINE p == ch.path
           free == {t \in Temps \ (DOMAIN disk.files \cup disk.dirs) :
           AncestorsOf[t] = AncestorsOf[p]}
           f == [content |-> Empty, mode |-> TempMode]
<1>1. ch \in Changes /\ p \in Paths /\ ap.change = {ch}
  BY UnderWay
<1>2. /\ ap.pc = "create" /\ ap.tmp = {} /\ ch.op # "delete"
      /\ ap.made \subseteq AncestorsOf[p] /\ AncestorsOf[p] \subseteq disk.dirs
      /\ disk \in Disks /\ WellFormed(disk) /\ ap \in ApType
  BY <1>1 DEF CreateTemp, FsInv, FsTypes, ApInv, Working
<1>3. CASE GivesUp(ch) /\ UNCHANGED disk
  <2>1. {} \in SUBSET AncestorsOf[p] /\ disk'.dirs = disk.dirs \cup {}
    BY <1>3
  <2>2. disk' \in Disks /\ WellFormed(disk') /\ disk'.files = disk.files
    BY <1>2, <1>3
  <2> QED BY <1>2, <1>3, <2>1, <2>2, GivesUpStep DEF Working
<1>4. CASE ~(GivesUp(ch) /\ UNCHANGED disk)
  <2>1. PICK t \in free :
          /\ disk' = [disk EXCEPT !.files = Put(@, t, f)]
          /\ ap' = [ap EXCEPT !.pc = "write", !.tmp = {t}]
          /\ lost' = lost
    BY <1>4 DEF CreateTemp
  <2>2. t \in Temps /\ t \in Paths /\ t \notin DOMAIN disk.files /\ t \notin disk.dirs /\
        AncestorsOf[t] \subseteq disk.dirs
    BY <1>2, TempAssumption
  <2>3. f \in FileEntry
    BY TempAssumption DEF FileEntry
  <2> HIDE DEF f
  <2>4. /\ disk' \in Disks /\ WellFormed(disk')
        /\ disk'.files = Put(disk.files, t, f) /\ disk'.dirs = disk.dirs
    BY <1>2, <2>1, <2>2, <2>3, AddFile
  <2>5. /\ DOMAIN disk'.files = DOMAIN disk.files \cup {t}
        /\ \A q \in DOMAIN disk.files : disk'.files[q] = disk.files[q]
    BY <2>2, <2>4 DEF Put
  <2>6. /\ ap'.pc = "write" /\ ap'.change = {ch} /\ ap'.tmp = {t}
        /\ ap'.made = ap.made /\ ap' \in ApType
    BY <1>1, <1>2, <2>1, <2>2 DEF ApType, Working
  <2>7. FsTypes'
    BY <2>1, <2>4, <2>6 DEF FsInv, FsTypes
  <2>8. ApInv'
    BY <1>1, <1>2, <2>4, <2>5, <2>6 DEF ApInv, Working
  <2>9. Pending' = Pending /\ PendingInv'
    BY <1>1, <2>6 DEF FsInv, PendingInv, Pending
  <2>10. Project' = Project
    <3>1. DOMAIN disk'.files \ (ap'.tmp \cup stray') = DOMAIN disk.files \ (ap.tmp \cup stray)
      BY <1>2, <2>2, <2>5, <2>6
    <3>2. Restrict(disk'.files, DOMAIN disk.files \ (ap.tmp \cup stray)) =
          Restrict(disk.files, DOMAIN disk.files \ (ap.tmp \cup stray))
      BY <2>5 DEF Restrict
    <3> QED BY <2>4, <2>6, <3>1, <3>2 DEF Project
  <2>11. TempsCleaned'
    BY <1>2, <2>5, <2>6 DEF FsInv, TempsCleaned
  <2> QED BY <2>1, <2>7, <2>8, <2>9, <2>10, <2>11 DEF FsInv
<1> QED BY <1>3, <1>4

\* What the temporary file holds is nobody's business before the rename.
LEMMA FillStep ==
    ASSUME FsInv, NEW ch \in ap.change, WriteTemp(ch) \/ ChmodTemp(ch),
           UNCHANGED <<ws, todo, stray, known>>
    PROVE  FsInv' /\ UNCHANGED <<Project, ws, Pending, lost>>
<1> DEFINE p == ch.path
<1>1. ch \in Changes /\ ap.change = {ch} /\ p \in Paths
  BY UnderWay
<1>2. /\ ap.pc \in {"write", "chmod"} /\ ch.op # "delete" /\ p \in DOMAIN ws
      /\ ap.made \subseteq AncestorsOf[p] /\ AncestorsOf[p] \subseteq disk.dirs
      /\ disk \in Disks /\ WellFormed(disk) /\ ap \in ApType /\ ws \in Trees
  BY <1>1, UnderWay DEF WriteTemp, ChmodTemp, FsInv, FsTypes, ApInv, Working
<1>3. PICK t \in DOMAIN disk.files :
        /\ ap.tmp = {t}
        /\ ap.pc = "chmod" => disk.files[t].content = ws[p].content
  BY <1>2 DEF FsInv, ApInv
<1>4. disk.files \in Trees /\ disk.dirs \in SUBSET Paths /\ disk.files[t] \in FileEntry
  BY <1>2, DiskElim, TreeElim
<1>5. ch.mode \in Modes /\ EffectiveMode(ch.mode) \in Modes
  BY <1>1, <1>2, ModeAssumption DEF Changes, EffectiveMode
<1>6. ws[p].content \in Contents
  BY <1>2, TreeElim
<1>7. PICK g \in FileEntry :
        /\ disk' = [disk EXCEPT !.files = Put(@, t, g)]
        /\ g.content = ws[p].content
        /\ ap.pc = "chmod" => g.mode = EffectiveMode(ch.mode)
  <2> DEFINE old == disk.files[t]
             G == [content |-> ws[p].content, mode |-> old.mode]
             H == [content |-> old.content, mode |-> EffectiveMode(ch.mode)]
  <2>1. G \in FileEntry /\ H \in FileEntry
    BY <1>4, <1>5, <1>6 DEF FileEntry
  <2>2. disk.files = [q \in DOMAIN disk.files |-> disk.files[q]]
    BY <1>4, PartialElim DEF Trees
  <2>3. /\ [disk.files EXCEPT ![t].content = ws[p].content] = Put(disk.files, t, G)
        /\ [disk.files EXCEPT ![t].mode = EffectiveMode(ch.mode)] = Put(disk.files, t, H)
    <3>1. [old EXCEPT !.content = ws[p].content] = G /\
          [old EXCEPT !.mode = EffectiveMode(ch.mode)] = H
      BY <1>4 DEF FileEntry
    <3>2. \A x : [disk.files EXCEPT ![t] = x] = Put(disk.files, t, x)
      BY <2>2 DEF Put
    <3> QED BY <3>1, <3>2
  <2>4. CASE WriteTemp(ch)
    <3>1. disk' = [disk EXCEPT !.files = [disk.files EXCEPT ![t].content = ws[p].content]]
      BY <1>3, <2>4 DEF WriteTemp
    <3>2. ap.pc # "chmod" /\ G.content = ws[p].content
      BY <2>4 DEF WriteTemp
    <3> HIDE DEF G
    <3> QED BY <2>1, <2>3, <3>1, <3>2
  <2>5. CASE ChmodTemp(ch)
    <3>1. disk' = [disk EXCEPT !.files = [disk.files EXCEPT ![t].mode = EffectiveMode(ch.mode)]]
      BY <1>3, <2>5 DEF ChmodTemp
    <3>2. H.content = ws[p].content /\ H.mode = EffectiveMode(ch.mode)
      BY <1>3, <2>5 DEF ChmodTemp
    <3> HIDE DEF H
    <3> QED BY <2>1, <2>3, <3>1, <3>2
  <2> QED BY <2>4, <2>5
<1>8. /\ DOMAIN disk'.files = DOMAIN disk.files /\ disk'.dirs = disk.dirs
      /\ disk'.files[t] = g /\ \A q \in DOMAIN disk.files \ {t} : disk'.files[q] = disk.files[q]
      /\ disk' \in Disks
  <2>1. disk'.files = Put(disk.files, t, g) /\ disk'.dirs = disk.dirs /\
        disk' = [files |-> disk'.files, dirs |-> disk.dirs]
    BY <1>2, <1>7 DEF Disks
  <2>2. Put(disk.files, t, g) \in Trees
    BY <1>4, <1>7, PutType, TreeElim DEF Trees
  <2> QED BY <1>4, <2>1, <2>2 DEF Put, Disks
<1>9. WellFormed(disk')
  BY <1>2, <1>8, ChangeFile
<1>10. /\ ap'.pc = (IF ap.pc = "write" THEN "chmod" ELSE "rename") /\ ap'.change = {ch}
       /\ ap'.tmp = {t} /\ ap'.made = ap.made /\ ap' \in ApType /\ lost' = lost
  BY <1>1, <1>2, <1>3 DEF WriteTemp, ChmodTemp, ApType, Working
<1>11. FsTypes'
  BY <1>8, <1>9, <1>10 DEF FsInv, FsTypes
<1>12. ApInv'
  BY <1>1, <1>2, <1>7, <1>8, <1>10 DEF ApInv, Working
<1>13. Pending' = Pending /\ PendingInv'
  BY <1>1, <1>10 DEF FsInv, PendingInv, Pending
<1>14. Project' = Project
  <2>1. DOMAIN disk'.files \ (ap'.tmp \cup stray') = DOMAIN disk.files \ (ap.tmp \cup stray)
    BY <1>3, <1>8, <1>10
  <2>2. Restrict(disk'.files, DOMAIN disk.files \ (ap.tmp \cup stray)) =
        Restrict(disk.files, DOMAIN disk.files \ (ap.tmp \cup stray))
    BY <1>3, <1>8 DEF Restrict
  <2> QED BY <1>8, <1>10, <2>1, <2>2 DEF Project
<1>15. TempsCleaned'
  BY <1>3, <1>8, <1>10 DEF FsInv, TempsCleaned
<1> QED BY <1>10, <1>11, <1>12, <1>13, <1>14, <1>15 DEF FsInv

\* The rename is the moment at which the change happens.
LEMMA RenameStep ==
    ASSUME FsInv, NEW ch \in ap.change, RenameTemp(ch), UNCHANGED <<ws, todo, stray, known>>
    PROVE  FsInv' /\ (P!ApplyFails \/ P!ApplyNext)
<1> DEFINE p == ch.path
<1>1. /\ ch \in Changes /\ p \in Paths
      /\ ap.change = {ch} /\ Pending = todo \cup {ch} /\ ch \notin todo
      /\ \A d \in Pending : Rank[p] <= Rank[d.path]
  BY UnderWay
<1>2. /\ ap.pc = "rename" /\ ch.op # "delete" /\ p \in DOMAIN ws \ Temps
      /\ ap.made \subseteq AncestorsOf[p] /\ AncestorsOf[p] \subseteq disk.dirs
      /\ disk \in Disks /\ WellFormed(disk) /\ ap \in ApType /\ ws \in Trees
      /\ stray \subseteq Temps
  BY <1>1, UnderWay DEF RenameTemp, FsInv, FsTypes, ApInv, Working
<1>3. CASE p \in disk.dirs
  <2>1. GivesUp(ch) /\ disk' = disk
    BY <1>3 DEF RenameTemp
  <2>2. {} \in SUBSET AncestorsOf[p] /\ disk'.dirs = disk.dirs \cup {}
    BY <2>1
  <2>3. disk' \in Disks /\ WellFormed(disk') /\ disk'.files = disk.files
    BY <1>2, <2>1
  <2> QED BY <1>2, <2>1, <2>2, <2>3, GivesUpStep DEF Working
<1>4. CASE p \notin disk.dirs
  <2>1. PICK t \in DOMAIN disk.files :
          /\ ap.tmp = {t}
          /\ disk.files[t].content = ws[p].content
          /\ disk.files[t].mode = EffectiveMode(ch.mode)
    BY <1>1, <1>2 DEF FsInv, ApInv
  <2> DEFINE g == disk.files[t]
             rest == Restrict(disk.files, DOMAIN disk.files \ {t})
             d == [files |-> rest, dirs |-> disk.dirs]
  <2>2. /\ disk' = [disk EXCEPT !.files = Put(rest, p, g)]
        /\ lost' = lost \ {p}
        /\ ap' = [Idle EXCEPT !.pc = "clean", !.tmp = {t}]
    BY <1>4, <2>1 DEF RenameTemp
  <2>3. t \in Temps /\ p # t
    BY <1>2, <2>1 DEF ApType
  <2>4. disk.files \in Trees /\ disk.dirs \in SUBSET Paths /\ g \in FileEntry
    BY <1>2, DiskElim, TreeElim
  <2>5. g = [content |-> ws[p].content, mode |-> EffectiveMode(ch.mode)]
    BY <2>1, <2>4 DEF FileEntry
  <2>6. /\ rest \in Trees /\ DOMAIN rest = DOMAIN disk.files \ {t}
        /\ \A q \in DOMAIN rest : rest[q] = disk.files[q]
    BY <2>4, RestrictType DEF Trees
  <2>7. d \in Disks /\ WellFormed(d)
    BY <1>2, <2>4, <2>6, HideFiles DEF Disks
  <2> HIDE DEF g, rest
  <2>8. AncestorsOf[p] \cap DOMAIN disk.files = {}
    BY <1>2 DEF WellFormed
  <2>9. disk' = [files |-> Put(rest, p, g), dirs |-> disk.dirs]
    BY <1>2, <2>2 DEF Disks
  <2>10. disk' = Write(d, p, g) /\ disk' \in Disks /\ WellFormed(disk')
    <3>1. disk.dirs \cup AncestorsOf[p] = disk.dirs
      BY <1>2
    <3>2. Write(d, p, g) = [files |-> Put(rest, p, g), dirs |-> disk.dirs \cup AncestorsOf[p]]
      BY <1>4, <2>6, <2>8 DEF Write
    <3> HIDE DEF d
    <3>3. disk' = Write(d, p, g)
      BY <2>9, <3>1, <3>2
    <3>4. Write(d, p, g) \in Disks /\ WellFormed(Write(d, p, g))
      BY <1>1, <2>4, <2>7, WriteEffect
    <3> QED BY <3>3, <3>4
  <2>11. /\ DOMAIN disk'.files = (DOMAIN disk.files \ {t}) \cup {p} /\ disk'.dirs = disk.dirs
         /\ disk'.files[p] = g /\ \A q \in DOMAIN disk.files \ {t, p} :
              disk'.files[q] = disk.files[q]
    BY <2>6, <2>9 DEF Put
  <2>12. /\ ap'.pc = "clean" /\ ap'.change = {} /\ ap'.tmp = {t} /\ ap'.made = {} /\ ap' \in ApType
    BY <2>2, <2>3 DEF Idle, ApType
  <2>13. FsTypes'
    BY <1>1, <2>2, <2>10, <2>12 DEF FsInv, FsTypes
  <2>14. ApInv'
    BY <2>12 DEF ApInv, Working
  <2>15. Pending' = todo
    BY <2>12 DEF Pending
  <2>16. PendingInv'
    BY <1>1, <2>12, <2>15 DEF FsInv, PendingInv
  <2>17. TempsCleaned'
    BY <1>2, <2>1, <2>11, <2>12 DEF FsInv, TempsCleaned
  <2> DEFINE S == {t} \cup stray
  <2>18. /\ Project = [files |-> Restrict(disk.files, DOMAIN disk.files \ S),
              dirs |-> disk.dirs \ ap.made]
         /\ Project' = [files |-> Restrict(disk'.files, DOMAIN disk'.files \ S), dirs |-> disk.dirs]
    <3>1. ap'.tmp \cup stray' = S /\ ap.tmp \cup stray = S /\ disk'.dirs \ ap'.made = disk.dirs
      BY <2>1, <2>11, <2>12
    <3> QED BY <3>1 DEF Project
  <2>19. WellFormed(Project')
    BY <2>10, <2>11, <2>18, HideFiles
  <2>20. p \notin S
    BY <1>2, <2>3
  <2>21. Restrict(disk'.files, DOMAIN disk'.files \ S) =
         Put(Restrict(disk.files, DOMAIN disk.files \ S), p, g)
    <3>1. DOMAIN disk'.files \ S = (DOMAIN disk.files \ S) \cup {p}
      BY <2>11, <2>20
    <3> QED BY <2>11, <3>1 DEF Restrict, Put
  <2>22. /\ AncestorsOf[p] \cap DOMAIN Project.files = {} /\ p \notin Project.dirs
         /\ Project.dirs \cup AncestorsOf[p] = disk.dirs
    BY <1>2, <1>4, <2>8, <2>18 DEF Restrict
  <2>23. Project' = Write(Project, p, g)
    BY <2>18, <2>21, <2>22 DEF Write
  <2>24. Project' = P!Apply(Project, ch, ws[p].content)
    BY <1>2, <2>5, <2>23, SameApply DEF Apply
  <2>25. lost' = P!Reported(ch)
    BY <1>2, <2>2, <2>22, SameApply DEF P!Reported, Refused
  <2>26. Pending' = Pending \ {ch}
    BY <1>1, <2>15
  <2>27. P!ApplyNext
    BY <1>1, <1>2, <2>24, <2>25, <2>26 DEF P!ApplyNext
  <2> QED BY <2>13, <2>14, <2>16, <2>17, <2>19, <2>27 DEF FsInv
<1> QED BY <1>3, <1>4

\* A system call of Apply that fails is a change that TurnSync's disk fails, nothing more.
LEMMA FailStep ==
    ASSUME FsInv, NEW ch \in ap.change, ap.pc \in Working \cup {"remove"}, CallFails(ch),
           UNCHANGED <<ws, todo, stray, known>>
    PROVE  FsInv' /\ P!ApplyFails
<1>1. disk \in Disks /\ WellFormed(disk) /\ GivesUp(ch)
  BY DEF FsInv, FsTypes, CallFails
<1>2. CASE ap.pc = "mkdir"
  <2>1. PICK made \in SUBSET AncestorsOf[ch.path] : disk' = [disk EXCEPT !.dirs = @ \cup made]
    BY <1>2 DEF CallFails
  <2>2. WellFormed(disk')
    BY <1>2 DEF CallFails
  <2>3. ch.path \in Paths
    BY UnderWay
  <2>4. made \in SUBSET Paths
    BY <2>3, PathAssumption
  <2>5. disk' \in Disks /\ disk'.files = disk.files /\ disk'.dirs = disk.dirs \cup made
    BY <1>1, <2>1, <2>4 DEF Disks
  <2> QED BY <1>1, <2>2, <2>5, GivesUpStep
<1>3. CASE ap.pc # "mkdir"
  <2>1. disk' = disk
    BY <1>3 DEF CallFails
  <2>2. {} \in SUBSET AncestorsOf[ch.path] /\ disk'.dirs = disk.dirs \cup {}
    BY <2>1
  <2>3. disk' \in Disks /\ WellFormed(disk') /\ disk'.files = disk.files
    BY <1>1, <2>1
  <2> QED BY <1>1, <2>2, <2>3, GivesUpStep
<1> QED BY <1>2, <1>3

\* Every step of Apply is the abstract change, its failure, or not seen.
LEMMA WorkStep ==
    ASSUME FsInv, ApplyStep
    PROVE  /\ FsInv'
           /\ P!ApplyNext \/ P!ApplyFails \/ UNCHANGED <<Project, ws, Pending, lost>>
<1>1. UNCHANGED <<ws, todo, stray, known>>
  BY DEF ApplyStep
<1>2. PICK ch \in ap.change :
        \/ RemoveFile(ch) \/ MkdirAll(ch) \/ CreateTemp(ch) \/ WriteTemp(ch)
        \/ ChmodTemp(ch) \/ RenameTemp(ch) \/ CallFails(ch)
  BY DEF ApplyStep
<1>3. ap.pc \in Working \cup {"remove"}
  <2>1. ap.pc # "dead" /\ ap \in ApType
    BY DEF ApplyStep, FsInv, FsTypes
  <2>2. ap.pc # "idle" /\ ap.pc # "clean"
    BY DEF FsInv, ApInv, Idle
  <2> QED BY <2>1, <2>2 DEF ApType
<1> QED BY <1>1, <1>2, <1>3, RemoveStep, MkdirStep, CreateStep, FillStep, RenameStep, FailStep

\* The deferred removal, and one that fails: the file stays hidden.
LEMMA CleanStep ==
    ASSUME FsInv, CleanUp
    PROVE  FsInv' /\ UNCHANGED <<Project, ws, Pending, lost>>
<1>1. /\ ap.pc = "clean" /\ ap.change = {} /\ ap.made = {} /\ ap.tmp \subseteq Temps
      /\ disk \in Disks /\ WellFormed(disk)
  BY DEF CleanUp, FsInv, FsTypes, ApInv, ApType
<1>2. /\ ap' = Idle /\ UNCHANGED <<ws, todo, lost, known>>
      /\ \/ disk' = [disk EXCEPT !.files = Restrict(@, DOMAIN @ \ ap.tmp)] /\ stray' = stray
         \/ disk' = disk /\ stray' = stray \cup ap.tmp
  BY DEF CleanUp
<1>3. /\ ap'.pc = "idle" /\ ap'.change = {} /\ ap'.tmp = {} /\ ap'.made = {} /\ ap' \in ApType
  BY <1>2 DEF Idle, ApType
<1>4. disk.files \in Trees /\ disk.dirs \in SUBSET Paths
  BY <1>1, DiskElim
<1> DEFINE rest == Restrict(disk.files, DOMAIN disk.files \ ap.tmp)
<1>5. rest \in Trees /\ DOMAIN rest = DOMAIN disk.files \ ap.tmp
      /\ \A q \in DOMAIN rest : rest[q] = disk.files[q]
  BY <1>4, RestrictType DEF Trees
<1>6. WellFormed([files |-> rest, dirs |-> disk.dirs])
  BY <1>1, HideFiles
<1> HIDE DEF rest
<1>7. [disk EXCEPT !.files = rest] = [files |-> rest, dirs |-> disk.dirs]
  BY <1>1 DEF Disks
<1>8. /\ disk' \in Disks /\ WellFormed(disk') /\ disk'.dirs = disk.dirs
      /\ DOMAIN disk'.files \subseteq DOMAIN disk.files
      /\ \A q \in DOMAIN disk'.files : disk'.files[q] = disk.files[q]
      /\ \/ DOMAIN disk'.files = DOMAIN disk.files \ ap.tmp /\ stray' = stray
         \/ DOMAIN disk'.files = DOMAIN disk.files /\ stray' = stray \cup ap.tmp
  <2>1. CASE disk' = [disk EXCEPT !.files = rest] /\ stray' = stray
    <3>1. disk' = [files |-> rest, dirs |-> disk.dirs]
      BY <1>7, <2>1
    <3> QED BY <1>4, <1>5, <1>6, <2>1, <3>1 DEF Disks
  <2>2. CASE disk' = disk /\ stray' = stray \cup ap.tmp
    BY <1>1, <2>2
  <2> QED BY <1>2, <2>1, <2>2 DEF rest
<1>9. FsTypes'
  BY <1>1, <1>2, <1>3, <1>8 DEF FsInv, FsTypes
<1>10. ApInv'
  BY <1>2, <1>3 DEF ApInv, Working
<1>11. Pending' = Pending /\ PendingInv'
  BY <1>1, <1>2, <1>3 DEF FsInv, PendingInv, Pending
<1>12. Project' = Project
  <2>1. DOMAIN disk'.files \ (ap'.tmp \cup stray') = DOMAIN disk.files \ (ap.tmp \cup stray)
    BY <1>3, <1>8
  <2>2. Restrict(disk'.files, DOMAIN disk.files \ (ap.tmp \cup stray)) =
        Restrict(disk.files, DOMAIN disk.files \ (ap.tmp \cup stray))
    BY <1>8, <2>1 DEF Restrict
  <2> QED BY <1>1, <1>3, <1>8, <2>1, <2>2 DEF Project
<1>13. TempsCleaned'
  BY <1>2, <1>3, <1>8 DEF FsInv, TempsCleaned
<1> QED BY <1>2, <1>9, <1>10, <1>11, <1>12, <1>13 DEF FsInv

\* The client is killed.
LEMMA KillStep ==
    ASSUME FsInv, Kill
    PROVE  FsInv' /\ UNCHANGED <<Project, ws, Pending, lost>>
<1>1. /\ ap' = [ap EXCEPT !.pc = "dead"] /\ stray' = stray \cup (ap.tmp \cap DOMAIN disk.files)
      /\ UNCHANGED <<disk, ws, todo, lost, known>>
  BY DEF Kill
<1>2. /\ ap'.pc = "dead" /\ ap'.change = ap.change /\ ap'.tmp = ap.tmp /\ ap'.made = ap.made
      /\ ap' \in ApType /\ ap.tmp \subseteq Temps
  BY <1>1 DEF FsInv, FsTypes, ApType
<1>3. FsTypes'
  BY <1>1, <1>2 DEF FsInv, FsTypes
<1>4. ApInv'
  BY <1>1, <1>2 DEF ApInv, Working
<1>5. Pending' = Pending /\ PendingInv'
  BY <1>1, <1>2 DEF FsInv, PendingInv, Pending
<1>6. Project' = Project
  <2>1. DOMAIN disk.files \ (ap'.tmp \cup stray') = DOMAIN disk.files \ (ap.tmp \cup stray)
    BY <1>1, <1>2
  <2> QED BY <1>1, <1>2, <2>1 DEF Project
<1>7. TempsCleaned'
  BY <1>1, <1>2 DEF FsInv, TempsCleaned
<1> QED BY <1>1, <1>3, <1>4, <1>5, <1>6, <1>7 DEF FsInv

-----------------------------------------------------------------------------
(* Sessions and turns *)

\* What StartSession and Materialize make of the project.
LEMMA UploadedTree ==
    ASSUME NEW d \in Disks, WellFormed(d)
    PROVE  /\ Uploaded(d.files) \in Trees
           /\ Consistent(DOMAIN Uploaded(d.files))
           /\ \E blobs \in {b \in [{Hash[c] : c \in Contents} -> Contents] : Intact(b)} :
                Uploaded(d.files) = Materialize(WalkManifest(d.files, Ignored), blobs)
<1> DEFINE blobs == [h \in {Hash[c] : c \in Contents} |-> CHOOSE c \in Contents : Hash[c] = h]
           m == WalkManifest(d.files, Ignored)
           w == Materialize(m, blobs)
<1>1. \A h \in DOMAIN blobs : blobs[h] \in Contents /\ Hash[blobs[h]] = h
  <2> SUFFICES ASSUME NEW c \in Contents
               PROVE  blobs[Hash[c]] \in Contents /\ Hash[blobs[Hash[c]]] = Hash[c]
    OBVIOUS
  <2>1. blobs[Hash[c]] = CHOOSE e \in Contents : Hash[e] = Hash[c]
    OBVIOUS
  <2> QED BY <2>1
<1>2. DOMAIN blobs = {Hash[c] : c \in Contents} /\ DOMAIN blobs \subseteq Hashes
  BY HashAssumption
<1>3. blobs \in [{Hash[c] : c \in Contents} -> Contents] /\ Intact(blobs)
  BY <1>1 DEF Intact
<1>4. blobs \in Blobs
  BY <1>2, <1>3 DEF Blobs, Partial
<1> HIDE DEF blobs
<1>5. d.files \in Trees
  BY DiskElim
<1>6. /\ m \in Manifests
      /\ \A p : p \in DOMAIN m <=> p \in DOMAIN d.files /\ Visible(p, Ignored)
      /\ \A p \in DOMAIN m : m[p] = [hash |-> Hash[d.files[p].content], mode |-> d.files[p].mode]
  BY <1>5, WalkType
<1> HIDE DEF m
<1>7. \A p \in DOMAIN m : m[p].hash \in DOMAIN blobs
  <2>1. \A p \in DOMAIN m : d.files[p].content \in Contents
    BY <1>5, <1>6, TreeElim
  <2>2. \A c \in Contents : Hash[c] \in DOMAIN blobs
    BY <1>2
  <2>3. \A p \in DOMAIN m : m[p].hash = Hash[d.files[p].content]
    BY <1>6
  <2> QED BY <2>1, <2>2, <2>3
<1>8. Uploaded(d.files) = w
  BY DEF Uploaded, blobs, m
<1>9. w = Restrict(w, DOMAIN m) /\ DOMAIN w = DOMAIN m
  BY DEF Materialize, Restrict
<1>10. w \in Trees
  BY <1>4, <1>6, <1>7, <1>9, MaterializeType
<1>11. Consistent(DOMAIN w)
  BY <1>6, <1>9 DEF WellFormed, Consistent
<1> QED BY <1>3, <1>8, <1>10, <1>11 DEF m

\* A session starts: from what is on the disk, temporary files of earlier
\* sessions included.
Fresh ==
    /\ disk \in Disks /\ WellFormed(disk)
    /\ ws = Uploaded(disk.files)
    /\ todo = {} /\ lost = {} /\ ap = Idle
    /\ stray = {} /\ known \subseteq Temps
    /\ Temps \cap DOMAIN disk.files \subseteq known

\* Where a session opens, both disks are the initial state of TurnSync.
LEMMA FreshSession == Fresh => FsInv /\ P!Init
<1> SUFFICES ASSUME Fresh PROVE FsInv /\ P!Init
  OBVIOUS
<1> USE DEF Fresh
<1>1. ap.pc = "idle" /\ ap.change = {} /\ ap.tmp = {} /\ ap.made = {} /\ ap \in ApType
  BY DEF Idle, ApType
<1>2. FsTypes
  BY <1>1, UploadedTree DEF FsTypes
<1>3. ApInv
  BY <1>1 DEF ApInv, Working
<1>4. Pending = {} /\ PendingInv
  BY <1>1 DEF PendingInv, Pending
<1>5. Project = disk
  <2>1. disk = [files |-> disk.files, dirs |-> disk.dirs]
    BY DEF Disks
  <2>2. disk.files = [x \in DOMAIN disk.files |-> disk.files[x]]
    BY DiskElim, PartialElim DEF Trees
  <2>3. Restrict(disk.files, DOMAIN disk.files) = disk.files
    BY <2>2 DEF Restrict
  <2>4. DOMAIN disk.files \ (ap.tmp \cup stray) = DOMAIN disk.files /\
        disk.dirs \ ap.made = disk.dirs
    BY <1>1
  <2> QED BY <2>1, <2>3, <2>4 DEF Project
<1>6. TempsCleaned
  BY DEF TempsCleaned
<1>7. P!Init
  <2>1. PICK blobs \in {b \in [{Hash[c] : c \in Contents} -> Contents] : Intact(b)} :
          ws = Materialize(WalkManifest(disk.files, Ignored), blobs)
    BY UploadedTree
  <2>2. ws = P!Materialize(P!WalkManifest(Project.files, Ignored), blobs) /\ P!Intact(blobs)
    BY <1>5, <2>1, SameWalk, SameBlobs
  <2>3. Project \in P!Disks /\ P!WellFormed(Project)
    BY <1>5, SameTypes
  <2> QED BY <1>4, <2>1, <2>2, <2>3 DEF P!Init
<1> QED BY <1>2, <1>3, <1>4, <1>5, <1>6, <1>7 DEF FsInv

\* The first session opens on such a disk.
LEMMA InitStep == Init => FsInv /\ P!Init
<1>1. Init => Fresh
  BY DEF Init, Fresh
<1> QED BY <1>1, FreshSession

\* So does every later one, whatever a killed client left behind.
LEMMA ReopenStep ==
    ASSUME FsInv, Reopen
    PROVE  FsInv' /\ ap.pc = "dead" /\ P!Init'
<1>1. Fresh' => FsInv' /\ P!Init'
  BY FreshSession, PTL
<1>2. Fresh'
  BY DEF Reopen, FsInv, FsTypes, ApInv, TempsCleaned, Fresh
<1> QED BY <1>1, <1>2 DEF Reopen

\* A turn of the agent.  Where it leaves a file with the name of a temporary file,
\* the file is as it was, so that no change of the turn writes there.
LEMMA TurnStep ==
    ASSUME FsInv, NEW mine \in Partial(Paths \ Temps, FileEntry),
           NEW kept \in SUBSET (Temps \cap DOMAIN ws), Turn(mine, kept)
    PROVE  FsInv' /\ ws' \in Trees /\ P!Turn(ws')
<1> DEFINE new == [p \in DOMAIN mine \cup kept |-> IF p \in kept THEN ws[p] ELSE mine[p]]
           old == Snapshot(ws)
           now == Snapshot(new)
<1>1. /\ ap.pc = "idle" /\ todo = {} /\ Consistent(DOMAIN new)
      /\ \A p \in DOMAIN now : Visible(p, Ignored)
      /\ ws' = new /\ todo' = Diff(old, now)
      /\ UNCHANGED <<disk, lost, ap, stray, known>>
  BY DEF Turn
<1>2. ap = Idle /\ ap.change = {} /\ ws \in Trees
  BY <1>1 DEF FsInv, FsTypes, ApInv, Idle
<1>3. new \in Trees
  <2>1. /\ DOMAIN mine \subseteq Paths \ Temps
        /\ \A p \in DOMAIN mine : mine[p] \in FileEntry
    BY PartialElim
  <2>2. kept \subseteq Paths /\ \A p \in kept : ws[p] \in FileEntry
    BY <1>2, TreeElim
  <2>3. /\ DOMAIN new \subseteq Paths /\ \A p \in DOMAIN new : new[p] \in FileEntry
        /\ new = [p \in DOMAIN new |-> new[p]]
    BY <2>1, <2>2
  <2> HIDE DEF new
  <2> QED BY <2>3, PartialIntro DEF Trees
<1>4. \A p \in DOMAIN new \cap Temps : p \in DOMAIN ws /\ new[p] = ws[p]
  BY PartialElim
<1> HIDE DEF new
<1>5. /\ old \in Manifests
      /\ \A p : p \in DOMAIN old <=> p \in DOMAIN ws /\ Visible(p, {})
      /\ \A p \in DOMAIN old : old[p] = [hash |-> Hash[ws[p].content], mode |-> ws[p].mode]
  BY <1>2, WalkType DEF Snapshot
<1>6. /\ now \in Manifests
      /\ \A p : p \in DOMAIN now <=> p \in DOMAIN new /\ Visible(p, {})
      /\ \A p \in DOMAIN now : now[p] = [hash |-> Hash[new[p].content], mode |-> new[p].mode]
  BY <1>3, WalkType DEF Snapshot
<1> HIDE DEF old, now
<1>7. todo' \subseteq Changes
  BY <1>1, <1>5, <1>6, DiffType
<1>8. FsTypes'
  BY <1>1, <1>3, <1>7 DEF FsInv, FsTypes
<1>9. ApInv'
  BY <1>1, <1>2 DEF ApInv, Idle, Working
<1>10. Pending' = todo' /\ Pending = {}
  BY <1>1, <1>2 DEF Pending
<1>11. ASSUME NEW ch \in todo'
       PROVE  IF ch.op = "delete" THEN ch.path \notin DOMAIN new
              ELSE ch.path \in DOMAIN new \ Temps /\ ch.mode = new[ch.path].mode
  <2>1. IF ch.op = "delete" THEN ch.path \in DOMAIN old \ DOMAIN now
        ELSE /\ ch.path \in DOMAIN now /\ ch.mode = now[ch.path].mode
             /\ ~(ch.path \in DOMAIN old /\ old[ch.path] = now[ch.path])
    BY <1>1 DEF Diff
  <2>2. CASE ch.op = "delete"
    BY <1>5, <1>6, <2>1, <2>2
  <2>3. CASE ch.op # "delete"
    <3>1. ch.path \in DOMAIN new /\ Visible(ch.path, {}) /\ ch.mode = new[ch.path].mode
      BY <1>6, <2>1, <2>3
    <3>2. ch.path \notin Temps
      BY <1>4, <1>5, <1>6, <2>1, <2>3, <3>1
    <3> QED BY <2>3, <3>1, <3>2
  <2> QED BY <2>2, <2>3
<1>12. PendingInv'
  BY <1>1, <1>2, <1>10, <1>11 DEF PendingInv
<1>13. Project' = Project /\ WellFormed(Project')
  BY <1>1 DEF Project, FsInv
<1>14. TempsCleaned'
  BY <1>1 DEF FsInv, TempsCleaned
<1>15. P!Turn(ws')
  <2>1. /\ P!Consistent(DOMAIN new) /\ \A p \in DOMAIN P!Snapshot(new) : P!Visible(p, Ignored)
        /\ Pending' = P!Diff(P!Snapshot(ws), P!Snapshot(new))
    BY <1>1, <1>10, SameTypes, SameWalk DEF old, now
  <2> QED BY <1>1, <1>10, <1>13, <2>1 DEF P!Turn
<1> QED BY <1>1, <1>3, <1>8, <1>9, <1>12, <1>13, <1>14, <1>15 DEF FsInv

-----------------------------------------------------------------------------
(* The refinement *)

\* Every step keeps the invariant and is a step of TurnSync, a new session, or
\* nothing that an observer sees.
Seen ==
    \/ P!ApplyNext
    \/ P!ApplyFails
    \/ ws' \in Trees /\ P!Turn(ws')
    \/ ap.pc = "dead" /\ P!Init'
    \/ UNCHANGED <<Project, ws, Pending, lost>>

\* Every step keeps FsInv and is seen as a step of TurnSync, as nothing, or as a new session.
LEMMA NextStep ==
    ASSUME FsInv, [Next]_vars
    PROVE  FsInv' /\ Seen
<1>1. CASE ApplyBegins
  BY <1>1, BeginStep DEF Seen
<1>2. CASE ApplyStep
  BY <1>2, WorkStep DEF Seen
<1>3. CASE CleanUp
  BY <1>3, CleanStep DEF Seen
<1>4. CASE Kill
  BY <1>4, KillStep DEF Seen
<1>5. CASE Reopen
  BY <1>5, ReopenStep DEF Seen
<1>6. ASSUME NEW mine \in Partial(Paths \ Temps, FileEntry),
             NEW kept \in SUBSET (Temps \cap DOMAIN ws), Turn(mine, kept)
      PROVE  FsInv' /\ Seen
  BY <1>6, TurnStep DEF Seen
<1>7. CASE UNCHANGED vars
  <2>1. UNCHANGED <<disk, ws, todo, lost, ap, stray, known>>
    BY <1>7 DEF vars
  <2>2. FsInv'
    BY <2>1 DEF FsInv, FsTypes, ApInv, PendingInv, Pending, Project, TempsCleaned
  <2> QED BY <2>1, <2>2 DEF Seen, Project, Pending
<1> QED BY <1>1, <1>2, <1>3, <1>4, <1>5, <1>6, <1>7 DEF Next

\* The inductive invariant of Apply's system calls.
THEOREM FsInvCorrect == Spec => []FsInv
<1>1. Init => FsInv
  BY InitStep
<1>2. FsInv /\ [Next]_vars => FsInv'
  BY NextStep
<1> QED BY <1>1, <1>2, PTL DEF Spec

\* Every variable keeps its type; the project's directory never has a file above
\* another, and one change with one temporary file is under way at a time.
THEOREM TypeCorrect == Spec => []TypeOK
<1>1. FsInv => TypeOK
  <2> SUFFICES ASSUME FsInv PROVE TypeOK
    OBVIOUS
  <2>1. \A S : (\E x : S \subseteq {x}) => Cardinality(S) <= 1
    <3> SUFFICES ASSUME NEW S, NEW x, S \subseteq {x} PROVE Cardinality(S) <= 1
      OBVIOUS
    <3>1. CASE S = {}
      BY <3>1, FS_EmptySet
    <3>2. CASE S = {x}
      <4>1. Cardinality({x}) = 1
        BY FS_Singleton
      <4> QED BY <3>2, <4>1
    <3> QED BY <3>1, <3>2
  <2>2. ap.change \subseteq Changes /\ ap.tmp \subseteq Temps
    BY DEF FsInv, FsTypes, ApType
  <2> QED BY <2>1, <2>2 DEF FsInv, FsTypes, TypeOK
<1> QED BY <1>1, FsInvCorrect, PTL

\* No error path of Apply forgets its temporary file (localfs.go: Apply).
THEOREM TempsCleanedCorrect == Spec => []TempsCleaned
<1>1. FsInv => TempsCleaned
  BY DEF FsInv
<1> QED BY <1>1, FsInvCorrect, PTL

\* Apply is atomic to whoever reads the project, and every session, from what
\* the last one left, is a behaviour of TurnSync.
THEOREM Refinement == Spec => RefinesTurnSync
<1>1. Init => T!Init
  BY InitStep, SameSteps
<1>2. FsInv /\ [Next]_vars =>
        [\/ T!ApplyNext
         \/ T!ApplyFails
         \/ ws' \in Trees /\ T!Turn(ws')
         \/ ap.pc = "dead" /\ T!Init']_<<Project, ws, Pending, lost>>
  <2>1. P!Init' => T!Init'
    BY SameSteps, PTL
  <2> QED BY <2>1, NextStep, SameSteps DEF Seen
<1> QED BY <1>1, <1>2, FsInvCorrect, PTL DEF Spec, RefinesTurnSync

-----------------------------------------------------------------------------
(* What TurnSync promises, of the files on the disk *)

\* The project and the workspace that TurnSync sees are trees a disk can hold.
LEMMA AbstractTypes == FsInv => P!TypeOK
<1> SUFFICES ASSUME FsInv PROVE P!TypeOK
  OBVIOUS
<1>1. disk \in Disks /\ ap \in ApType
  BY DEF FsInv, FsTypes
<1>2. disk.files \in Trees /\ disk.dirs \in SUBSET Paths
  BY <1>1, DiskElim
<1> DEFINE f == Restrict(disk.files, DOMAIN disk.files \ (ap.tmp \cup stray))
<1>3. f \in Trees
  BY <1>2, RestrictType DEF Trees
<1> HIDE DEF f
<1>4. Project \in Disks
  BY <1>2, <1>3 DEF Project, Disks, f
<1>5. Pending \subseteq Changes
  BY <1>1 DEF FsInv, FsTypes, ApType, Pending
<1> QED BY <1>4, <1>5, SameTypes DEF FsInv, FsTypes, P!TypeOK

\* Nothing is lost when a session opens.
LEMMA InitLoss == P!Init => P!LossInv
BY P!InitLoss, Assumptions

\* Each step of Apply keeps the account of what is pending and what was reported lost.
LEMMA NextLoss ==
    ASSUME FsInv, P!LossInv, [Next]_vars
    PROVE  P!LossInv'
<1>1. P!TypeOK'
  <2>1. FsInv' => P!TypeOK'
    BY AbstractTypes, PTL
  <2> QED BY <2>1, NextStep
<1>2. CASE P!ApplyNext
  BY <1>1, <1>2, P!ApplyLoses, Assumptions
<1>3. CASE P!ApplyFails
  BY <1>1, <1>3, P!FailLoses, Assumptions
<1>4. CASE ws' \in Trees /\ P!Turn(ws')
  BY <1>1, <1>4, P!TurnLoses, Assumptions, SameTypes
<1>5. CASE P!Init'
  <2>1. P!Init' => P!LossInv'
    BY InitLoss, PTL
  <2> QED BY <1>5, <2>1
<1>6. CASE UNCHANGED <<Project, ws, Pending, lost>>
  BY <1>1, <1>6 DEF P!LossInv, P!NoSilentLoss, P!PendingPaths
<1> QED BY <1>2, <1>3, <1>4, <1>5, <1>6, NextStep DEF Seen

\* No change is lost without a word, whichever system call of Apply fails and
\* however often the client is killed and started again (localfs.go: Apply,
\* clientapp.go: applyChange).
THEOREM NoSilentLossCorrect == Spec => []NoSilentLoss
<1>1. Init => P!LossInv
  BY InitStep, InitLoss
<1>2. FsInv /\ P!LossInv /\ [Next]_vars => P!LossInv'
  BY NextLoss
<1>3. P!LossInv => NoSilentLoss
  BY SameSteps DEF P!LossInv, NoSilentLoss
<1> QED BY <1>1, <1>2, <1>3, FsInvCorrect, PTL DEF Spec
=============================================================================
