--------------------------- MODULE TurnSyncProofs ---------------------------
(***************************************************************************)
(* TurnSync keeps the client's project equal to the workspace, for any     *)
(* paths, contents and modes and any number of turns, as long as no turn   *)
(* puts a file where the project has a directory or writes what the client *)
(* ignores.                                                                *)
(* Without these conditions, and with a disk that may refuse any change,   *)
(* whatever differs is pending or was reported to the user, and nothing    *)
(* below a directory that is never synced is touched.                      *)
(***************************************************************************)
EXTENDS TurnSync, FileTreeProofs

\* What holds between any two changes: with the pending ones applied, the project
\* will hold what the workspace's snapshot lists.
SyncInv == TypeOK /\ InSync(local, Snapshot(ws), todo)

\* TypeOK is inductive once a pending file is known to be in the workspace.
TypeInv ==
    /\ TypeOK
    /\ \A ch \in todo : ch.op # "delete" => ch.path \in DOMAIN ws

\* The type invariant is inductive.
LEMMA InitType == Init => TypeInv
<1> SUFFICES ASSUME Init PROVE TypeInv
  OBVIOUS
<1>1. local \in Disks /\ WellFormed(local) /\ todo = {} /\ lost = {}
  BY DEF Init
<1> DEFINE m == WalkManifest(local.files, Ignored)
<1>2. PICK blobs \in [{Hash[c] : c \in Contents} -> Contents] :
        Intact(blobs) /\ ws = Materialize(m, blobs)
  BY DEF Init
<1>3. local.files \in Trees
  BY <1>1, DiskElim
<1>4. /\ m \in Manifests
      /\ \A p : p \in DOMAIN m <=> p \in DOMAIN local.files /\ Visible(p, Ignored)
      /\ \A p \in DOMAIN m : m[p] = [hash |-> Hash[local.files[p].content],
                                   mode |-> local.files[p].mode]
  BY <1>3, WalkType
<1> HIDE DEF m
<1>5. blobs \in Blobs
  <2>1. DOMAIN blobs = {Hash[c] : c \in Contents}
    BY <1>2
  <2>2. DOMAIN blobs \subseteq Hashes
    BY <2>1, HashAssumption
  <2> QED BY <1>2, <2>2 DEF Blobs, Partial
<1>6. \A p \in DOMAIN m : m[p].hash \in DOMAIN blobs
  <2>1. \A p \in DOMAIN m : local.files[p].content \in Contents
    BY <1>3, <1>4, TreeElim
  <2>2. \A c \in Contents : Hash[c] \in DOMAIN blobs
    BY <1>2
  <2>3. \A p \in DOMAIN m : m[p].hash = Hash[local.files[p].content]
    BY <1>4
  <2> QED BY <2>1, <2>2, <2>3
<1>7. ws = Restrict(ws, DOMAIN m) /\ DOMAIN ws = DOMAIN m
  BY <1>2 DEF Materialize, Restrict
<1>8. ws \in Trees
  BY <1>2, <1>4, <1>5, <1>6, <1>7, MaterializeType
<1>9. Consistent(DOMAIN ws)
  BY <1>1, <1>4, <1>7 DEF WellFormed, Consistent
<1> QED BY <1>1, <1>8, <1>9 DEF TypeInv, TypeOK

\* Every step of TurnSync keeps the types, a failing Apply included.
LEMMA NextType == TypeInv /\ [FaultyNext]_vars => TypeInv'
<1> SUFFICES ASSUME TypeInv, [FaultyNext]_vars PROVE TypeInv'
  OBVIOUS
<1>0. /\ local \in Disks /\ WellFormed(local)
      /\ ws \in Trees /\ Consistent(DOMAIN ws)
      /\ todo \subseteq Changes
      /\ lost \subseteq Paths
      /\ \A ch \in todo : ch.op # "delete" => ch.path \in DOMAIN ws
  BY DEF TypeInv, TypeOK
<1>a. \A ch \in todo : ch.path \in Paths
  BY <1>0 DEF Changes
<1>1. CASE ApplyNext
  <2>1. PICK ch \in todo :
          /\ local' = Apply(local, ch, IF ch.op = "delete" THEN ch ELSE ws[ch.path].content)
          /\ todo' = todo \ {ch}
          /\ lost' = Reported(ch)
          /\ ws' = ws
    BY <1>1 DEF ApplyNext
  <2>2. local' \in Disks /\ WellFormed(local')
    <3>1. PICK c : c = IF ch.op = "delete" THEN ch ELSE ws[ch.path].content
      OBVIOUS
    <3>2. ch.op # "delete" => c \in Contents
      BY <1>0, <3>1, TreeElim
    <3>3. local' = Apply(local, ch, c)
      BY <2>1, <3>1, Zenon
    <3> QED BY <1>0, <3>2, <3>3, ApplyEffect
  <2>3. lost' \subseteq Paths
    BY <1>0, <1>a, <2>1 DEF Reported
  <2> QED BY <1>0, <2>1, <2>2, <2>3 DEF TypeInv, TypeOK
<1>2. ASSUME NEW new \in Trees, Turn(new) PROVE TypeInv'
  <2>1. /\ ws' = new /\ local' = local /\ lost' = lost /\ Consistent(DOMAIN new)
        /\ todo' = Diff(Snapshot(ws), Snapshot(new))
    BY <1>2 DEF Turn
  <2>2. /\ Snapshot(ws) \in Manifests
        /\ Snapshot(new) \in Manifests
        /\ DOMAIN Snapshot(new) \subseteq DOMAIN new
    BY <1>0, WalkType DEF Snapshot
  <2>3. todo' \subseteq Changes
    BY <2>1, <2>2, DiffType
  <2>4. \A ch \in todo' : ch.op # "delete" => ch.path \in DOMAIN new
    BY <2>1, <2>2, DiffPaths
  <2> QED BY <1>0, <2>1, <2>3, <2>4 DEF TypeInv, TypeOK
<1>3. CASE ApplyFails
  <2>1. PICK ch \in todo, made \in SUBSET Paths :
          /\ local' = [local EXCEPT !.dirs = @ \cup made]
          /\ WellFormed(local')
          /\ todo' = todo \ {ch}
          /\ lost' = lost \cup {ch.path}
          /\ ws' = ws
    BY <1>3 DEF ApplyFails
  <2>2. local' \in Disks
    BY <1>0, <2>1 DEF Disks
  <2> QED BY <1>0, <1>a, <2>1, <2>2 DEF TypeInv, TypeOK
<1>4. CASE UNCHANGED vars
  BY <1>0, <1>4 DEF vars, TypeInv, TypeOK
<1> QED BY <1>1, <1>2, <1>3, <1>4 DEF FaultyNext, Next

\* Whatever the agent and the disk do, the state keeps its type: in particular
\* the client's disk never has a file above another.  Spec is a special case of
\* FaultySpec.
THEOREM TypeCorrect == FaultySpec => []TypeOK
<1>1. TypeInv => TypeOK
  BY DEF TypeInv
<1> QED BY InitType, NextType, <1>1, PTL DEF FaultySpec

-----------------------------------------------------------------------------
\* SyncInv holds initially ...
LEMMA InitSync == Init => SyncInv
<1> SUFFICES ASSUME Init PROVE SyncInv
  OBVIOUS
<1>1. TypeOK /\ local \in Disks /\ WellFormed(local) /\ todo = {}
  BY InitType DEF Init, TypeInv
<1> DEFINE m == WalkManifest(local.files, Ignored)
<1>2. PICK blobs \in [{Hash[c] : c \in Contents} -> Contents] :
        Intact(blobs) /\ ws = Materialize(m, blobs)
  BY DEF Init
<1>3. local.files \in Trees
  BY <1>1, DiskElim
<1>4. /\ \A p : p \in DOMAIN m <=> p \in DOMAIN local.files /\ Visible(p, Ignored)
      /\ \A p \in DOMAIN m : m[p] = [hash |-> Hash[local.files[p].content],
                                     mode |-> local.files[p].mode]
  BY <1>3, WalkType
<1>5. blobs \in Blobs
  <2>1. DOMAIN blobs \subseteq Hashes
    BY <1>2, HashAssumption
  <2> QED BY <1>2, <2>1 DEF Blobs, Partial
<1>6. \A p \in DOMAIN m : m[p].hash \in DOMAIN blobs
  <2> SUFFICES ASSUME NEW p \in DOMAIN m PROVE m[p].hash \in DOMAIN blobs
    OBVIOUS
  <2>1. local.files[p].content \in Contents
    BY <1>3, <1>4, TreeElim
  <2>2. m[p].hash = Hash[local.files[p].content]
    <3>1. m[p] = [hash |-> Hash[local.files[p].content], mode |-> local.files[p].mode]
      BY <1>4
    <3> QED BY <3>1
  <2> QED BY <1>2, <2>1, <2>2
<1>7. InSync(local, Snapshot(Materialize(m, blobs)), {})
  BY <1>1, <1>2, <1>5, <1>6, SyncStarts
<1> QED BY <1>1, <1>2, <1>7 DEF SyncInv

\* ... a turn keeps it: what the diff leaves out agrees with the new workspace ...
LEMMA TurnSyncs ==
    ASSUME ~AgentReplacesDirs, ~AgentWritesIgnored, SyncInv, TypeOK',
           NEW new \in Trees, Turn(new)
    PROVE  SyncInv'
<1>1. /\ ws \in Trees /\ todo = {} /\ ws' = new /\ local' = local
      /\ Consistent(DOMAIN new)
      /\ DOMAIN new \cap local.dirs = {}
      /\ \A p \in DOMAIN Snapshot(new) : Visible(p, Ignored)
      /\ todo' = Diff(Snapshot(ws), Snapshot(new))
  BY DEF Turn, SyncInv, TypeOK
<1>2. /\ Snapshot(ws) \in Manifests /\ Snapshot(new) \in Manifests
      /\ DOMAIN Snapshot(new) \subseteq DOMAIN new
  BY <1>1, WalkType DEF Snapshot
<1>3. Consistent(DOMAIN Snapshot(new)) /\ DOMAIN Snapshot(new) \cap local.dirs = {}
  BY <1>1, <1>2 DEF Consistent
<1>4. InSync(local, Snapshot(ws), {})
  BY <1>1 DEF SyncInv
<1>5. InSync(local, Snapshot(new), Diff(Snapshot(ws), Snapshot(new)))
  BY <1>1, <1>2, <1>3, <1>4, SyncTurns
<1> QED BY <1>1, <1>5 DEF SyncInv

\* ... and so does applying the first pending change.
LEMMA ApplySyncs ==
    ASSUME SyncInv, TypeOK', ApplyNext
    PROVE  SyncInv'
<1>1. PICK ch \in todo :
        /\ \A d \in todo : Rank[ch.path] <= Rank[d.path]
        /\ local' = Apply(local, ch, IF ch.op = "delete" THEN ch ELSE ws[ch.path].content)
        /\ todo' = todo \ {ch}
        /\ ws' = ws
  BY DEF ApplyNext
<1> DEFINE s == Snapshot(ws)
<1>2. /\ local \in Disks /\ WellFormed(local) /\ ws \in Trees /\ todo \in SUBSET Changes
      /\ InSync(local, s, todo)
  BY DEF SyncInv, TypeOK
<1>3. /\ s \in Manifests
      /\ \A p : p \in DOMAIN s <=> p \in DOMAIN ws /\ Visible(p, {})
      /\ \A p \in DOMAIN s : s[p] = [hash |-> Hash[ws[p].content], mode |-> ws[p].mode]
  BY <1>2, WalkType DEF Snapshot
<1> HIDE DEF s
<1>4. PICK c : c = IF ch.op = "delete" THEN ch ELSE ws[ch.path].content
  OBVIOUS
<1>5. ASSUME ch.op # "delete" PROVE c \in Contents /\ Hash[c] = s[ch.path].hash
  <2>1. ch.path \in DOMAIN s
    BY <1>2, <1>5 DEF InSync
  <2>2. ch.path \in DOMAIN ws /\ s[ch.path].hash = Hash[ws[ch.path].content]
    BY <1>3, <2>1
  <2>3. ws[ch.path].content \in Contents
    BY <1>2, <2>2, TreeElim
  <2> QED BY <1>4, <1>5, <2>2, <2>3
<1>6. InSync(Apply(local, ch, c), s, todo \ {ch})
  BY <1>1, <1>2, <1>3, <1>5, SyncApplies
<1>7. local' = Apply(local, ch, c)
  BY <1>1, <1>4, Zenon
<1>8. InSync(local', s, todo')
  BY <1>1, <1>6, <1>7, Zenon
<1> QED BY <1>1, <1>8 DEF SyncInv, s

\* A file that is pending is in the workspace.
LEMMA PendingListed == SyncInv => \A ch \in todo : ch.op # "delete" => ch.path \in DOMAIN ws
<1> SUFFICES ASSUME SyncInv, NEW ch \in todo, ch.op # "delete" PROVE ch.path \in DOMAIN ws
  OBVIOUS
<1>1. ch.path \in DOMAIN Snapshot(ws) /\ ws \in Trees
  BY DEF SyncInv, InSync, TypeOK
<1> QED BY <1>1, WalkType DEF Snapshot

\* SyncInv is inductive when turns stay within the two flags.
LEMMA NextSync ==
    ASSUME ~AgentReplacesDirs, ~AgentWritesIgnored
    PROVE  SyncInv /\ [Next]_vars => SyncInv'
<1> SUFFICES ASSUME SyncInv, [Next]_vars PROVE SyncInv'
  OBVIOUS
<1>1. TypeInv
  BY PendingListed DEF SyncInv, TypeInv
<1>2. TypeOK'
  BY <1>1, NextType DEF TypeInv, FaultyNext
<1>3. CASE ApplyNext
  BY <1>2, <1>3, ApplySyncs
<1>4. ASSUME NEW new \in Trees, Turn(new) PROVE SyncInv'
  BY <1>2, <1>4, TurnSyncs
<1>5. CASE UNCHANGED vars
  <2>1. local' = local /\ ws' = ws /\ todo' = todo
    BY <1>5 DEF vars
  <2> QED BY <1>2, <2>1 DEF SyncInv, PendingPaths
<1> QED BY <1>3, <1>4, <1>5 DEF Next

\* With every change of a turn applied, the project holds exactly the files of
\* the workspace, after any number of turns.
THEOREM SyncCorrect ==
    ASSUME ~AgentReplacesDirs, ~AgentWritesIgnored
    PROVE  Spec => []Synced
<1>1. SyncInv => Synced
  <2> SUFFICES ASSUME SyncInv, todo = {} PROVE SameFiles(local, ws)
    BY DEF Synced
  <2>1. local \in Disks /\ ws \in Trees /\ InSync(local, Snapshot(ws), {})
    BY DEF SyncInv, TypeOK
  <2> QED BY <2>1, SyncEnds
<1>2. SyncInv /\ [Next]_vars => SyncInv'
  BY NextSync
<1> QED BY InitSync, <1>1, <1>2, PTL DEF Spec

\* Applying a change leaves every other path alone.
LEMMA ApplyOthers ==
    ASSUME NEW disk \in Disks, NEW ch \in Changes, NEW c,
           NEW q, q # ch.path
    PROVE  LET d == Apply(disk, ch, c)
           IN  /\ q \in DOMAIN disk.files <=> q \in DOMAIN d.files
               /\ q \in DOMAIN disk.files => d.files[q] = disk.files[q]
<1> DEFINE p == ch.path
           f == [content |-> c, mode |-> EffectiveMode(ch.mode)]
<1>1. CASE ch.op = "delete"
  <2>1. Apply(disk, ch, c).files = Restrict(disk.files, DOMAIN disk.files \ {p})
    BY <1>1 DEF Apply, Remove
  <2> QED BY <2>1 DEF Restrict
<1>2. CASE ch.op # "delete"
  <2>1. Apply(disk, ch, c) = Write(disk, p, f)
    BY <1>2 DEF Apply
  <2>2. Apply(disk, ch, c) = disk \/ Apply(disk, ch, c).files = Put(disk.files, p, f)
    BY <2>1 DEF Write
  <2> QED BY <2>2 DEF Put
<1> QED BY <1>1, <1>2

\* What holds between any two changes whatever the agent and the disk do: no
\* pending change is at a path the server's own walk skips.
SkipInv ==
    /\ TypeInv
    /\ \A ch \in todo : Visible(ch.path, {})

\* A turn pushes only what one of its two snapshots lists.
LEMMA TurnSkips ==
    ASSUME TypeInv, NEW new \in Trees, Turn(new)
    PROVE  \A ch \in todo' : Visible(ch.path, {})
<1>1. ws \in Trees /\ todo' = Diff(Snapshot(ws), Snapshot(new))
  BY DEF Turn, TypeInv, TypeOK
<1> DEFINE old == Snapshot(ws)
           now == Snapshot(new)
<1>2. old \in Manifests /\ \A p \in DOMAIN old : Visible(p, {})
  BY <1>1, WalkType DEF Snapshot
<1>3. now \in Manifests /\ \A p \in DOMAIN now : Visible(p, {})
  BY WalkType DEF Snapshot
<1> HIDE DEF old, now
<1>4. \A ch \in Diff(old, now) : ch.path \in DOMAIN old \cup DOMAIN now
  BY <1>2, <1>3, DiffPaths
<1>5. todo' = Diff(old, now)
  BY <1>1 DEF old, now
<1> QED BY <1>2, <1>3, <1>4, <1>5

\* Nothing below a directory that is never synced is created, removed or changed
\* on the client's disk, whatever the agent writes and whichever change the disk
\* refuses or fails.
THEOREM NeverSyncedCorrect == FaultySpec => NeverSynced
<1> DEFINE Untouched ==
        \A p \in Paths : AncestorsOf[p] \cap IgnoredDirs # {} =>
            /\ p \in DOMAIN local.files <=> p \in DOMAIN local'.files
            /\ p \in DOMAIN local.files => local'.files[p] = local.files[p]
<1>1. Init => SkipInv
  BY InitType DEF SkipInv, Init
<1>2. SkipInv /\ [FaultyNext]_vars => SkipInv'
  <2> SUFFICES ASSUME SkipInv, [FaultyNext]_vars
               PROVE  \A ch \in todo' : Visible(ch.path, {})
    BY NextType DEF SkipInv
  <2>1. CASE ApplyNext \/ ApplyFails \/ UNCHANGED vars
    <3>1. todo' \subseteq todo
      BY <2>1 DEF ApplyNext, ApplyFails, vars
    <3> QED BY <3>1 DEF SkipInv
  <2>2. ASSUME NEW new \in Trees, Turn(new) PROVE \A ch \in todo' : Visible(ch.path, {})
    BY <2>2, TurnSkips DEF SkipInv
  <2> QED BY <2>1, <2>2 DEF FaultyNext, Next
<1>3. SkipInv /\ [FaultyNext]_vars => [Untouched]_vars
  <2> SUFFICES ASSUME SkipInv, FaultyNext PROVE Untouched
    OBVIOUS
  <2>1. local \in Disks /\ todo \subseteq Changes
    BY DEF SkipInv, TypeInv, TypeOK
  <2>2. CASE ApplyNext
    <3>1. PICK ch \in todo :
            local' = Apply(local, ch, IF ch.op = "delete" THEN ch ELSE ws[ch.path].content)
      BY <2>2 DEF ApplyNext
    <3>2. \A p \in Paths : AncestorsOf[p] \cap IgnoredDirs # {} => p # ch.path
      BY DEF SkipInv, Visible
    <3> QED BY <2>1, <3>1, <3>2, ApplyOthers
  <2>3. CASE ApplyFails
    <3>1. local'.files = local.files
      BY <2>1, <2>3 DEF ApplyFails, Disks
    <3> QED BY <3>1
  <2>4. ASSUME NEW new \in Trees, Turn(new) PROVE Untouched
    BY <2>4 DEF Turn
  <2> QED BY <2>2, <2>3, <2>4 DEF FaultyNext, Next
<1> QED BY <1>1, <1>2, <1>3, PTL DEF FaultySpec, NeverSynced

-----------------------------------------------------------------------------
\* What holds between any two changes whatever the agent and the disk do: the
\* pending changes describe the workspace, one for each path, and NoSilentLoss.
LossInv ==
    /\ TypeOK
    /\ \A ch \in todo :
        IF ch.op = "delete" THEN ch.path \notin DOMAIN ws
        ELSE ch.path \in DOMAIN ws /\ ch.mode = ws[ch.path].mode
    /\ NoSilentLoss

\* A turn keeps it: a shared path at which the two snapshots differ is pending.
LEMMA TurnLoses ==
    ASSUME LossInv, TypeOK', NEW new \in Trees, Turn(new)
    PROVE  LossInv'
<1>1. /\ ws \in Trees /\ todo = {} /\ ws' = new /\ local' = local /\ lost' = lost
      /\ todo' = Diff(Snapshot(ws), Snapshot(new))
  BY DEF Turn, LossInv, TypeOK
<1> DEFINE old == Snapshot(ws)
           now == Snapshot(new)
<1>2. /\ old \in Manifests
      /\ \A p : p \in DOMAIN old <=> p \in DOMAIN ws /\ Visible(p, {})
      /\ \A p \in DOMAIN old : old[p] = [hash |-> Hash[ws[p].content], mode |-> ws[p].mode]
  BY <1>1, WalkType DEF Snapshot
<1>3. /\ now \in Manifests
      /\ \A p : p \in DOMAIN now <=> p \in DOMAIN new /\ Visible(p, {})
      /\ \A p \in DOMAIN now : now[p] = [hash |-> Hash[new[p].content], mode |-> new[p].mode]
  BY <1>1, WalkType DEF Snapshot
<1> HIDE DEF old, now
<1>4. /\ \A ch \in todo' :
            IF ch.op = "delete" THEN ch.path \in DOMAIN old \ DOMAIN now
            ELSE ch.path \in DOMAIN now /\ ch.mode = now[ch.path].mode
      /\ \A p : p \notin PendingPaths' =>
            /\ p \in DOMAIN old <=> p \in DOMAIN now
            /\ p \in DOMAIN now => old[p] = now[p]
  <2>1. todo' = Diff(old, now)
    BY <1>1 DEF old, now
  <2> QED BY <1>2, <1>3, <2>1, DiffPaths DEF PendingPaths
<1>5. \A ch \in todo' :
        IF ch.op = "delete" THEN ch.path \notin DOMAIN new
        ELSE ch.path \in DOMAIN new /\ ch.mode = new[ch.path].mode
  <2> SUFFICES ASSUME NEW ch \in todo'
               PROVE  IF ch.op = "delete" THEN ch.path \notin DOMAIN new
                      ELSE ch.path \in DOMAIN new /\ ch.mode = new[ch.path].mode
    OBVIOUS
  <2>1. CASE ch.op = "delete"
    BY <1>2, <1>3, <1>4, <2>1
  <2>2. CASE ch.op # "delete"
    <3>1. ch.path \in DOMAIN now /\ ch.mode = now[ch.path].mode
      BY <1>4, <2>2
    <3> QED BY <1>3, <2>2, <3>1
  <2> QED BY <2>1, <2>2
<1>6. ASSUME NEW p \in Paths, Visible(p, Ignored), p \notin PendingPaths', p \notin lost
      PROVE  /\ p \in DOMAIN local.files <=> p \in DOMAIN new
             /\ p \in DOMAIN new => Agrees(local.files[p], new[p])
  <2>1. Visible(p, {})
    BY <1>6, VisibleToBoth
  <2>2. /\ p \in DOMAIN local.files <=> p \in DOMAIN ws
        /\ p \in DOMAIN ws => Agrees(local.files[p], ws[p])
    BY <1>1, <1>6 DEF LossInv, NoSilentLoss, PendingPaths
  <2>3. p \in DOMAIN ws <=> p \in DOMAIN new
    BY <1>2, <1>3, <1>4, <1>6, <2>1
  <2>4. ASSUME p \in DOMAIN new PROVE Agrees(local.files[p], new[p])
    <3>1. p \in DOMAIN old /\ p \in DOMAIN now /\ old[p] = now[p]
      BY <1>2, <1>3, <1>4, <1>6, <2>1, <2>3, <2>4
    <3>2. Hash[ws[p].content] = Hash[new[p].content] /\ ws[p].mode = new[p].mode
      BY <1>2, <1>3, <3>1
    <3>3. ws[p].content \in Contents /\ new[p].content \in Contents
      BY <1>1, <2>3, <2>4, TreeElim
    <3>4. ws[p].content = new[p].content
      BY <3>2, <3>3, HashAssumption
    <3> QED BY <2>2, <2>3, <2>4, <3>2, <3>4 DEF Agrees
  <2> QED BY <2>2, <2>3, <2>4
<1> QED BY <1>1, <1>5, <1>6 DEF LossInv, NoSilentLoss

\* ... and so does a change that is applied, or that Apply refuses ...
LEMMA ApplyLoses ==
    ASSUME LossInv, TypeOK', ApplyNext
    PROVE  LossInv'
<1>1. PICK ch \in todo :
        /\ local' = Apply(local, ch, IF ch.op = "delete" THEN ch ELSE ws[ch.path].content)
        /\ todo' = todo \ {ch}
        /\ lost' = Reported(ch)
        /\ ws' = ws
  BY DEF ApplyNext
<1> DEFINE p == ch.path
<1>2. /\ local \in Disks /\ WellFormed(local) /\ ws \in Trees
      /\ ch \in Changes /\ p \in Paths
      /\ ch.op = "delete" => p \notin DOMAIN ws
      /\ ch.op # "delete" => p \in DOMAIN ws /\ ch.mode = ws[p].mode
  BY DEF LossInv, TypeOK, Changes
<1>3. \A q : q # p => /\ q \in DOMAIN local.files <=> q \in DOMAIN local'.files
                      /\ q \in DOMAIN local.files => local'.files[q] = local.files[q]
  BY <1>1, <1>2, ApplyOthers
<1>4. ASSUME p \notin lost'
      PROVE  /\ p \in DOMAIN local'.files <=> p \in DOMAIN ws
             /\ p \in DOMAIN ws => Agrees(local'.files[p], ws[p])
  <2>1. ~Refused(local, ch)
    BY <1>1, <1>4 DEF Reported
  <2>2. CASE ch.op = "delete"
    <3>1. local' = Remove(local, p)
      BY <1>1, <2>2 DEF Apply
    <3>2. local'.files = Restrict(local.files, DOMAIN local.files \ {p})
      BY <1>2, <3>1, RemoveEffect
    <3>3. p \notin DOMAIN local'.files
      BY <3>2 DEF Restrict
    <3> QED BY <1>2, <2>2, <3>3
  <2>3. CASE ch.op # "delete"
    <3> DEFINE f == [content |-> ws[p].content, mode |-> EffectiveMode(ch.mode)]
    <3>1. f \in FileEntry /\ local' = Write(local, p, f)
      <4>1. PICK c : c = ws[p].content
        OBVIOUS
      <4>2. c \in Contents
        BY <1>2, <2>3, <4>1, TreeElim
      <4>3. local' = Apply(local, ch, c)
        BY <1>1, <2>3, <4>1
      <4> QED BY <1>2, <2>3, <4>1, <4>2, <4>3, ApplyEffect
    <3>2. p \notin local.dirs /\ AncestorsOf[p] \cap DOMAIN local.files = {}
      BY <2>1, <2>3 DEF Refused
    <3>3. local'.files = Put(local.files, p, f)
      BY <1>2, <3>1, <3>2, WriteEffect
    <3>4. p \in DOMAIN local'.files /\ local'.files[p] = f
      BY <3>3 DEF Put
    <3> QED BY <1>2, <2>3, <3>4 DEF Agrees
  <2> QED BY <2>2, <2>3
<1>5. \A q : q # p /\ q \notin PendingPaths' \cup lost' => q \notin PendingPaths \cup lost
  BY <1>1 DEF PendingPaths, Reported
<1>6. ASSUME NEW q \in Paths, Visible(q, Ignored), q \notin PendingPaths' \cup lost'
      PROVE  /\ q \in DOMAIN local'.files <=> q \in DOMAIN ws
             /\ q \in DOMAIN ws => Agrees(local'.files[q], ws[q])
  <2>1. CASE q = p
    BY <1>4, <1>6, <2>1
  <2>2. CASE q # p
    <3>1. /\ q \in DOMAIN local.files <=> q \in DOMAIN ws
          /\ q \in DOMAIN ws => Agrees(local.files[q], ws[q])
      BY <1>5, <1>6, <2>2 DEF LossInv, NoSilentLoss
    <3> QED BY <1>3, <2>2, <3>1
  <2> QED BY <2>1, <2>2
<1>7. \A c \in todo' : IF c.op = "delete" THEN c.path \notin DOMAIN ws'
                       ELSE c.path \in DOMAIN ws' /\ c.mode = ws'[c.path].mode
  BY <1>1 DEF LossInv
<1> QED BY <1>1, <1>6, <1>7 DEF LossInv, NoSilentLoss

\* ... and one that the disk fails: the files stay, the user is told.
LEMMA FailLoses ==
    ASSUME LossInv, TypeOK', ApplyFails
    PROVE  LossInv'
<1>1. PICK ch \in todo, made \in SUBSET Paths :
        /\ local' = [local EXCEPT !.dirs = @ \cup made]
        /\ todo' = todo \ {ch}
        /\ lost' = lost \cup {ch.path}
        /\ ws' = ws
  BY DEF ApplyFails
<1>2. local'.files = local.files
  BY <1>1 DEF LossInv, TypeOK, Disks
<1>3. \A q : q \notin PendingPaths' \cup lost' => q \notin PendingPaths \cup lost
  BY <1>1 DEF PendingPaths
<1>4. NoSilentLoss'
  BY <1>1, <1>2, <1>3 DEF LossInv, NoSilentLoss
<1>5. \A c \in todo' : IF c.op = "delete" THEN c.path \notin DOMAIN ws'
                       ELSE c.path \in DOMAIN ws' /\ c.mode = ws'[c.path].mode
  BY <1>1 DEF LossInv
<1> QED BY <1>4, <1>5 DEF LossInv

\* Nothing is lost when a session opens: project and workspace agree everywhere.
LEMMA InitLoss == Init => LossInv
<1> SUFFICES ASSUME Init PROVE LossInv
  OBVIOUS
<1>1. TypeOK /\ todo = {} /\ InSync(local, Snapshot(ws), {})
  BY InitSync DEF Init, SyncInv
<1>2. local \in Disks /\ ws \in Trees /\ PathsOf({}) = {}
  BY <1>1 DEF TypeOK, PathsOf
<1> QED BY <1>1, <1>2, SyncAgrees DEF LossInv, NoSilentLoss

\* No change is ever lost without a word: for any agent, any ignore rules, and a
\* disk that may fail any Apply.
THEOREM NoSilentLossCorrect == FaultySpec => []NoSilentLoss
<1>1. Init => LossInv
  BY InitLoss
<1>2. LossInv /\ [FaultyNext]_vars => LossInv'
  <2> SUFFICES ASSUME LossInv, [FaultyNext]_vars PROVE LossInv'
    OBVIOUS
  <2>1. TypeOK'
    <3>1. TypeInv
      BY DEF LossInv, TypeInv
    <3> QED BY <3>1, NextType DEF TypeInv
  <2>2. CASE ApplyNext
    BY <2>1, <2>2, ApplyLoses
  <2>3. ASSUME NEW new \in Trees, Turn(new) PROVE LossInv'
    BY <2>1, <2>3, TurnLoses
  <2>4. CASE ApplyFails
    BY <2>1, <2>4, FailLoses
  <2>5. CASE UNCHANGED vars
    <3>1. local' = local /\ ws' = ws /\ todo' = todo /\ lost' = lost
      BY <2>5 DEF vars
    <3> QED BY <2>1, <3>1 DEF LossInv, NoSilentLoss, PendingPaths
  <2> QED BY <2>2, <2>3, <2>4, <2>5 DEF FaultyNext, Next
<1>3. LossInv => NoSilentLoss
  BY DEF LossInv
<1> QED BY <1>1, <1>2, <1>3, PTL DEF FaultySpec
=============================================================================
