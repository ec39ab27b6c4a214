--------------------------- MODULE FileTreeProofs ---------------------------
(* Facts about the operators of FileTree, for every set of paths, contents,  *)
(* hashes and modes that satisfies its assumptions.                          *)
EXTENDS FileTree, TLAPS

\* A partial function is known by its domain and its values.
LEMMA PartialIntro ==
    ASSUME NEW A, NEW B, NEW f,
           f = [x \in DOMAIN f |-> f[x]],
           DOMAIN f \subseteq A,
           \A x \in DOMAIN f : f[x] \in B
    PROVE  f \in Partial(A, B)
BY DEF Partial

\* What membership in the partial functions gives.
LEMMA PartialElim ==
    ASSUME NEW A, NEW B, NEW f \in Partial(A, B)
    PROVE  /\ f = [x \in DOMAIN f |-> f[x]]
           /\ DOMAIN f \subseteq A
           /\ \A x \in DOMAIN f : f[x] \in B
BY DEF Partial

\* The same for trees, manifests and stores, down to the fields.
LEMMA TreeElim ==
    ASSUME NEW t \in Trees
    PROVE  /\ DOMAIN t \subseteq Paths
           /\ \A p \in DOMAIN t : /\ t[p] \in FileEntry
                                  /\ t[p].content \in Contents
                                  /\ t[p].mode \in Modes
<1>1. DOMAIN t \subseteq Paths /\ \A p \in DOMAIN t : t[p] \in FileEntry
  BY PartialElim DEF Trees
<1> QED BY <1>1 DEF FileEntry

\* A manifest has paths in its domain, hashes and modes in its entries.
LEMMA ManifestElim ==
    ASSUME NEW m \in Manifests
    PROVE  /\ DOMAIN m \subseteq Paths
           /\ \A p \in DOMAIN m : m[p].hash \in Hashes /\ m[p].mode \in Modes
<1>1. DOMAIN m \subseteq Paths /\ \A p \in DOMAIN m : m[p] \in ManifestEntry
  BY PartialElim DEF Manifests
<1> QED BY <1>1 DEF ManifestEntry

\* A store maps hashes to contents.
LEMMA BlobsElim ==
    ASSUME NEW b \in Blobs
    PROVE  DOMAIN b \subseteq Hashes /\ \A h \in DOMAIN b : b[h] \in Contents
BY PartialElim DEF Blobs

\* The empty tree is a tree, a manifest and a store.
LEMMA NoFilesType == \A A, B : NoFiles \in Partial(A, B)
<1> SUFFICES ASSUME NEW A, NEW B PROVE NoFiles \in Partial(A, B)
  OBVIOUS
<1>1. DOMAIN NoFiles = {} /\ NoFiles = [x \in DOMAIN NoFiles |-> NoFiles[x]]
  BY DEF NoFiles
<1> QED BY <1>1, PartialIntro

\* Adding one entry keeps a partial function in its type.
LEMMA PutType ==
    ASSUME NEW A, NEW B, NEW f \in Partial(A, B), NEW a \in A, NEW b \in B
    PROVE  Put(f, a, b) \in Partial(A, B)
<1> DEFINE g == Put(f, a, b)
<1>1. /\ g = [x \in DOMAIN g |-> g[x]]
      /\ DOMAIN g = DOMAIN f \cup {a}
      /\ \A x \in DOMAIN g : g[x] = IF x = a THEN b ELSE f[x]
  BY DEF Put
<1>2. DOMAIN g \subseteq A /\ \A x \in DOMAIN g : g[x] \in B
  BY <1>1, PartialElim
<1> QED BY <1>1, <1>2, PartialIntro

\* Put changes one entry and no other.
LEMMA PutEffect ==
    ASSUME NEW f, NEW a, NEW b
    PROVE  /\ DOMAIN Put(f, a, b) = DOMAIN f \cup {a}
           /\ Put(f, a, b)[a] = b
           /\ \A x \in DOMAIN f : x # a => Put(f, a, b)[x] = f[x]
BY DEF Put

\* So does removing entries.
LEMMA RestrictType ==
    ASSUME NEW A, NEW B, NEW f \in Partial(A, B), NEW S, S \subseteq DOMAIN f
    PROVE  /\ Restrict(f, S) \in Partial(A, B)
           /\ DOMAIN Restrict(f, S) = S
           /\ \A x \in S : Restrict(f, S)[x] = f[x]
<1> DEFINE g == Restrict(f, S)
<1>1. /\ g = [x \in DOMAIN g |-> g[x]]
      /\ DOMAIN g = S
      /\ \A x \in S : g[x] = f[x]
  BY DEF Restrict
<1>2. DOMAIN g \subseteq A /\ \A x \in DOMAIN g : g[x] \in B
  BY <1>1, PartialElim
<1>3. g \in Partial(A, B)
  BY <1>1, <1>2, PartialIntro
<1> QED BY <1>1, <1>3

\* WalkManifest lists the visible files of a tree.
LEMMA WalkType ==
    ASSUME NEW t \in Trees, NEW I
    PROVE  /\ WalkManifest(t, I) \in Manifests
           /\ \A p : p \in DOMAIN WalkManifest(t, I) <=> p \in DOMAIN t /\ Visible(p, I)
           /\ \A p \in DOMAIN WalkManifest(t, I) :
                WalkManifest(t, I)[p] = [hash |-> Hash[t[p].content], mode |-> t[p].mode]
<1> DEFINE m == WalkManifest(t, I)
<1>1. /\ DOMAIN t \subseteq Paths
      /\ \A p \in DOMAIN t : t[p].content \in Contents /\ t[p].mode \in Modes
  BY TreeElim
<1>2. /\ m = [p \in DOMAIN m |-> m[p]]
      /\ \A p : p \in DOMAIN m <=> p \in DOMAIN t /\ Visible(p, I)
      /\ \A p \in DOMAIN m : m[p] = [hash |-> Hash[t[p].content], mode |-> t[p].mode]
  BY DEF WalkManifest
<1>3. \A p \in DOMAIN m : m[p] \in ManifestEntry
  BY <1>1, <1>2, HashAssumption DEF ManifestEntry
<1>4. m \in Manifests
  BY <1>1, <1>2, <1>3, PartialIntro DEF Manifests
<1> QED BY <1>2, <1>4

\* Diff yields changes of the paths of its two arguments.
LEMMA DiffType ==
    ASSUME NEW old \in Manifests, NEW new \in Manifests
    PROVE  Diff(old, new) \subseteq Changes
<1>1. /\ DOMAIN old \subseteq Paths
      /\ DOMAIN new \subseteq Paths
      /\ \A p \in DOMAIN new : new[p].hash \in Hashes /\ new[p].mode \in Modes
  BY ManifestElim
<1> QED BY <1>1 DEF Diff, Changes

\* Materialize yields a tree with the paths of the manifest, and each file has
\* the content stored under the hash the manifest lists.
LEMMA MaterializeType ==
    ASSUME NEW m \in Manifests, NEW b \in Blobs, NEW S \in SUBSET DOMAIN m,
           \A p \in S : m[p].hash \in DOMAIN b
    PROVE  LET t == Restrict(Materialize(m, b), S)
           IN  /\ t \in Trees
               /\ DOMAIN t = S
               /\ \A p \in S : t[p].content = b[m[p].hash]
<1> DEFINE t == Restrict(Materialize(m, b), S)
<1>1. /\ DOMAIN m \subseteq Paths
      /\ \A p \in DOMAIN m : m[p].mode \in Modes
      /\ \A h \in DOMAIN b : b[h] \in Contents
  BY ManifestElim, BlobsElim
<1>2. /\ t = [p \in DOMAIN t |-> t[p]]
      /\ DOMAIN t = S
      /\ \A p \in S : t[p] = [content |-> b[m[p].hash], mode |-> Umask[EffectiveMode(m[p].mode)]]
  BY DEF Restrict, Materialize
<1>3. \A p \in S : Umask[EffectiveMode(m[p].mode)] \in Modes
  BY <1>1, ModeAssumption DEF EffectiveMode
<1>4. \A p \in S : t[p] \in FileEntry
  BY <1>1, <1>2, <1>3 DEF FileEntry
<1>5. t \in Trees
  BY <1>1, <1>2, <1>4, PartialIntro DEF Trees
<1> QED BY <1>2, <1>5

\* A disk's two parts.
LEMMA DiskElim ==
    ASSUME NEW disk \in Disks
    PROVE  disk.files \in Trees /\ disk.dirs \in SUBSET Paths
BY DEF Disks

\* Write either leaves the disk alone or adds the file and its directories, and
\* a disk with no file above another stays one.
LEMMA WriteEffect ==
    ASSUME NEW disk \in Disks, WellFormed(disk), NEW p \in Paths, NEW f \in FileEntry
    PROVE  /\ Write(disk, p, f) \in Disks
           /\ WellFormed(Write(disk, p, f))
           /\ (AncestorsOf[p] \cap DOMAIN disk.files = {} /\ p \notin disk.dirs) =>
                /\ Write(disk, p, f).files = Put(disk.files, p, f)
                /\ Write(disk, p, f).dirs = disk.dirs \cup AncestorsOf[p]
<1> DEFINE d == [files |-> Put(disk.files, p, f), dirs |-> disk.dirs \cup AncestorsOf[p]]
<1>1. CASE AncestorsOf[p] \cap DOMAIN disk.files # {} \/ p \in disk.dirs
  BY <1>1 DEF Write
<1>2. CASE AncestorsOf[p] \cap DOMAIN disk.files = {} /\ p \notin disk.dirs
  <2>1. Write(disk, p, f) = d
    BY <1>2 DEF Write
  <2>2. disk.files \in Trees /\ disk.dirs \in SUBSET Paths
    BY DiskElim
  <2>3. /\ d.files \in Trees
        /\ DOMAIN d.files = DOMAIN disk.files \cup {p}
    <3>1. disk.files \in Partial(Paths, FileEntry)
      BY <2>2 DEF Trees
    <3>2. /\ Put(disk.files, p, f) \in Partial(Paths, FileEntry)
          /\ DOMAIN Put(disk.files, p, f) = DOMAIN disk.files \cup {p}
      BY <3>1, PutType, PutEffect
    <3> QED BY <3>2 DEF Trees
  <2>4. d \in Disks
    <3>1. disk.dirs \cup AncestorsOf[p] \in SUBSET Paths
      BY <2>2, PathAssumption
    <3> QED BY <2>3, <3>1 DEF Disks
  <2>5. /\ Consistent(DOMAIN disk.files)
        /\ DirsOf(DOMAIN disk.files \cup disk.dirs) \subseteq disk.dirs
        /\ DOMAIN disk.files \cap disk.dirs = {}
    BY DEF WellFormed
  <2>6. DOMAIN disk.files \subseteq Paths
    BY <2>2, TreeElim
  <2>7. p \notin AncestorsOf[p]
    BY PathAssumption
  <2>8. \A q \in DOMAIN disk.files \cup disk.dirs : AncestorsOf[q] \subseteq disk.dirs
    BY <2>5 DEF DirsOf
  <2>9. Consistent(DOMAIN d.files)
    BY <1>2, <2>3, <2>5, <2>7, <2>8 DEF Consistent
  <2>10. DirsOf(DOMAIN d.files \cup d.dirs) \subseteq d.dirs
    <3>1. \A q \in AncestorsOf[p] : AncestorsOf[q] \subseteq AncestorsOf[p]
      BY PathAssumption
    <3>2. \A q \in DOMAIN d.files \cup d.dirs : AncestorsOf[q] \subseteq d.dirs
      BY <2>3, <2>8, <3>1
    <3> QED BY <3>2 DEF DirsOf
  <2>11. DOMAIN d.files \cap d.dirs = {}
    BY <1>2, <2>3, <2>5, <2>7
  <2>12. WellFormed(d)
    BY <2>9, <2>10, <2>11 DEF WellFormed
  <2> QED BY <1>2, <2>1, <2>4, <2>12
<1> QED BY <1>1, <1>2

\* Remove takes the file away and at most an empty directory.
LEMMA RemoveEffect ==
    ASSUME NEW disk \in Disks, WellFormed(disk), NEW p \in Paths
    PROVE  /\ Remove(disk, p) \in Disks
           /\ WellFormed(Remove(disk, p))
           /\ Remove(disk, p).files = Restrict(disk.files, DOMAIN disk.files \ {p})
           /\ Remove(disk, p).dirs \subseteq disk.dirs
<1> DEFINE d == Remove(disk, p)
<1>1. disk.files \in Trees /\ disk.dirs \in SUBSET Paths
  BY DiskElim
<1>2. /\ d.files = Restrict(disk.files, DOMAIN disk.files \ {p})
      /\ d = [files |-> d.files, dirs |-> d.dirs]
      /\ d.dirs \subseteq disk.dirs
      /\ \/ d.dirs = disk.dirs
         \/ /\ d.dirs = disk.dirs \ {p}
            /\ \A q \in DOMAIN disk.files \cup disk.dirs : p \notin AncestorsOf[q]
  BY DEF Remove
<1>3. /\ d.files \in Trees
      /\ DOMAIN d.files = DOMAIN disk.files \ {p}
  <2>1. disk.files \in Partial(Paths, FileEntry)
    BY <1>1 DEF Trees
  <2> QED BY <2>1, <1>2, RestrictType DEF Trees
<1>4. d \in Disks
  BY <1>1, <1>2, <1>3 DEF Disks
<1>5. /\ Consistent(DOMAIN disk.files)
      /\ DirsOf(DOMAIN disk.files \cup disk.dirs) \subseteq disk.dirs
      /\ DOMAIN disk.files \cap disk.dirs = {}
  BY DEF WellFormed
<1>6. Consistent(DOMAIN d.files)
  BY <1>3, <1>5 DEF Consistent
<1>7. DirsOf(DOMAIN d.files \cup d.dirs) \subseteq d.dirs
  <2>1. \A q \in DOMAIN disk.files \cup disk.dirs : AncestorsOf[q] \subseteq disk.dirs
    BY <1>5 DEF DirsOf
  <2>2. \A q \in DOMAIN d.files \cup d.dirs : AncestorsOf[q] \subseteq d.dirs
    BY <1>2, <1>3, <2>1
  <2> QED BY <2>2 DEF DirsOf
<1>8. DOMAIN d.files \cap d.dirs = {}
  BY <1>2, <1>3, <1>5
<1>9. WellFormed(d)
  BY <1>6, <1>7, <1>8 DEF WellFormed
<1> QED BY <1>2, <1>4, <1>9

\* What applying a change does to the disk.
LEMMA ApplyEffect ==
    ASSUME NEW disk \in Disks, WellFormed(disk), NEW ch \in Changes,
           NEW c, ch.op # "delete" => c \in Contents
    PROVE  LET d == Apply(disk, ch, c)
               f == [content |-> c, mode |-> EffectiveMode(ch.mode)]
           IN  /\ d \in Disks
               /\ WellFormed(d)
               /\ ch.op = "delete" => d = Remove(disk, ch.path)
               /\ ch.op # "delete" => f \in FileEntry /\ d = Write(disk, ch.path, f)
<1> DEFINE d == Apply(disk, ch, c)
           f == [content |-> c, mode |-> EffectiveMode(ch.mode)]
<1>1. ch.path \in Paths
  BY DEF Changes
<1>2. CASE ch.op = "delete"
  <2>1. d = Remove(disk, ch.path)
    BY <1>2 DEF Apply
  <2> QED BY <1>1, <1>2, <2>1, RemoveEffect
<1>3. CASE ch.op # "delete"
  <2>1. ch.mode \in Modes
    BY <1>3 DEF Changes
  <2>2. EffectiveMode(ch.mode) \in Modes
    BY <2>1, ModeAssumption DEF EffectiveMode
  <2>3. f \in FileEntry
    BY <1>3, <2>2 DEF FileEntry
  <2>4. d = Write(disk, ch.path, f)
    BY <1>3 DEF Apply
  <2> QED BY <1>1, <1>3, <2>3, <2>4, WriteEffect
<1> QED BY <1>2, <1>3

-----------------------------------------------------------------------------
(* Keeping a project in sync with a manifest *)

\* The workspace's own walk sees whatever the client's walk sees.
LEMMA VisibleToBoth == \A p : Visible(p, Ignored) => Visible(p, {})
BY DEF Visible

\* What lies above a visible path is visible.
LEMMA VisibleAbove ==
    ASSUME NEW p \in Paths, Visible(p, Ignored), NEW q \in AncestorsOf[p]
    PROVE  Visible(q, Ignored)
<1>1. AncestorsOf[q] \subseteq AncestorsOf[p]
  BY PathAssumption
<1> QED BY <1>1 DEF Visible

\* The paths of a diff are those at which two manifests differ.
LEMMA DiffPaths ==
    ASSUME NEW old \in Manifests, NEW new \in Manifests
    PROVE  /\ \A ch \in Diff(old, new) :
                IF ch.op = "delete" THEN ch.path \in DOMAIN old \ DOMAIN new
                ELSE ch.path \in DOMAIN new /\ ch.mode = new[ch.path].mode
           /\ \A c, d \in Diff(old, new) : c.path = d.path => c = d
           /\ \A p : p \notin {ch.path : ch \in Diff(old, new)} =>
                /\ p \in DOMAIN old <=> p \in DOMAIN new
                /\ p \in DOMAIN new => old[p] = new[p]
<1>1. \A ch \in Diff(old, new) :
        IF ch.op = "delete" THEN ch.path \in DOMAIN old \ DOMAIN new
        ELSE ch.path \in DOMAIN new /\ ch.mode = new[ch.path].mode
  BY DEF Diff
<1>2. \A c, d \in Diff(old, new) : c.path = d.path => c = d
  BY DEF Diff
<1>3. ASSUME NEW p, p \notin {ch.path : ch \in Diff(old, new)}
      PROVE  /\ p \in DOMAIN old <=> p \in DOMAIN new
             /\ p \in DOMAIN new => old[p] = new[p]
  <2>1. p \notin DOMAIN new \ DOMAIN old
    <3>1. SUFFICES ASSUME p \in DOMAIN new \ DOMAIN old PROVE FALSE
      OBVIOUS
    <3>2. [op |-> "create", path |-> p, hash |-> new[p].hash, mode |-> new[p].mode]
            \in Diff(old, new)
      BY <3>1 DEF Diff
    <3> QED BY <1>3, <3>2
  <2>2. p \notin DOMAIN old \ DOMAIN new
    <3>1. SUFFICES ASSUME p \in DOMAIN old \ DOMAIN new PROVE FALSE
      OBVIOUS
    <3>2. [op |-> "delete", path |-> p] \in Diff(old, new)
      BY <3>1 DEF Diff
    <3> QED BY <1>3, <3>2
  <2>3. p \in DOMAIN new => old[p] = new[p]
    <3>1. SUFFICES ASSUME p \in DOMAIN new, old[p] # new[p] PROVE FALSE
      OBVIOUS
    <3>2. [op |-> "modify", path |-> p, hash |-> new[p].hash, mode |-> new[p].mode]
            \in Diff(old, new)
      BY <2>1, <3>1 DEF Diff
    <3> QED BY <1>3, <3>2
  <2> QED BY <2>1, <2>2, <2>3
<1> QED BY <1>1, <1>2, <1>3

\* A file of the project and the manifest's entry for it: the content has the
\* listed hash; the mode is the listed one or the listed one was derived from it.
Matches(f, e) ==
    /\ Hash[f.content] = e.hash
    /\ f.mode = EffectiveMode(e.mode) \/ e.mode = Umask[EffectiveMode(f.mode)]

\* The paths of a set of changes.
PathsOf(C) == {ch.path : ch \in C}

\* The project d comes to hold what the manifest m lists once the changes of C
\* have been applied in path order: a visible path that no change is for already
\* matches; a change is for a visible path, carries the listed mode and is the
\* only one for it; and nothing listed is where the project has a directory.
InSync(d, m, C) ==
    /\ Consistent(DOMAIN m)
    /\ \A p \in DOMAIN m : Visible(p, Ignored)
    /\ DOMAIN m \cap d.dirs = {}
    /\ \A ch \in C :
        /\ Visible(ch.path, Ignored)
        /\ IF ch.op = "delete" THEN ch.path \notin DOMAIN m
           ELSE ch.path \in DOMAIN m /\ ch.mode = m[ch.path].mode
    /\ \A c, e \in C : c.path = e.path => c = e
    /\ \A p \in Paths : Visible(p, Ignored) /\ p \notin PathsOf(C) =>
        /\ p \in DOMAIN d.files <=> p \in DOMAIN m
        /\ p \in DOMAIN m => Matches(d.files[p], m[p])

\* A workspace written from a project's own manifest is in sync with it.
LEMMA SyncStarts ==
    ASSUME NEW d \in Disks, WellFormed(d), NEW b \in Blobs, Intact(b),
           NEW m, m = WalkManifest(d.files, Ignored),
           \A p \in DOMAIN m : m[p].hash \in DOMAIN b
    PROVE  /\ Materialize(m, b) \in Trees
           /\ Consistent(DOMAIN Materialize(m, b))
           /\ InSync(d, Snapshot(Materialize(m, b)), {})
<1> DEFINE t == Materialize(m, b)
           s == Snapshot(t)
<1>1. d.files \in Trees
  BY DiskElim
<1>2. /\ m \in Manifests
      /\ \A p : p \in DOMAIN m <=> p \in DOMAIN d.files /\ Visible(p, Ignored)
      /\ \A p \in DOMAIN m : m[p] = [hash |-> Hash[d.files[p].content],
                                     mode |-> d.files[p].mode]
  BY <1>1, WalkType
<1>3. /\ DOMAIN t = DOMAIN m
      /\ \A p \in DOMAIN m : t[p] = [content |-> b[m[p].hash],
                                     mode |-> Umask[EffectiveMode(m[p].mode)]]
  BY DEF Materialize
<1>4. t \in Trees
  <2>1. Restrict(t, DOMAIN m) \in Trees
    BY <1>2, MaterializeType
  <2>2. t = Restrict(t, DOMAIN m)
    BY DEF Materialize, Restrict
  <2> QED BY <2>1, <2>2
<1> HIDE DEF t
<1>5. Consistent(DOMAIN t)
  BY <1>2, <1>3 DEF WellFormed, Consistent
<1>6. /\ \A p : p \in DOMAIN s <=> p \in DOMAIN t /\ Visible(p, {})
      /\ \A p \in DOMAIN s : s[p] = [hash |-> Hash[t[p].content], mode |-> t[p].mode]
  BY <1>4, WalkType DEF Snapshot
<1> HIDE DEF s
<1>7. \A p : p \in DOMAIN s <=> p \in DOMAIN m
  BY <1>2, <1>3, <1>6, VisibleToBoth
<1>8. ASSUME NEW p \in DOMAIN s PROVE Matches(d.files[p], s[p])
  <2>0. p \in DOMAIN m
    BY <1>7, <1>8
  <2>1. m[p].hash = Hash[d.files[p].content] /\ m[p].mode = d.files[p].mode
    <3>1. m[p] = [hash |-> Hash[d.files[p].content], mode |-> d.files[p].mode]
      BY <1>2, <2>0
    <3> QED BY <3>1
  <2>2. Hash[b[m[p].hash]] = m[p].hash
    BY <2>0 DEF Intact
  <2>3. t[p].content = b[m[p].hash] /\ t[p].mode = Umask[EffectiveMode(m[p].mode)]
    BY <1>3, <2>0
  <2>4. s[p].hash = Hash[t[p].content] /\ s[p].mode = t[p].mode
    BY <1>6, <1>8
  <2> QED BY <2>1, <2>2, <2>3, <2>4 DEF Matches
<1>9. Consistent(DOMAIN s) /\ DOMAIN s \cap d.dirs = {}
  BY <1>2, <1>5, <1>6, <1>7 DEF WellFormed, Consistent
<1>10. InSync(d, s, {})
  BY <1>2, <1>7, <1>8, <1>9 DEF InSync, PathsOf
<1> QED BY <1>4, <1>5, <1>10 DEF t, s

\* What a diff leaves out agrees with the new manifest.
LEMMA SyncTurns ==
    ASSUME NEW d, NEW old \in Manifests, NEW new \in Manifests, InSync(d, old, {}),
           Consistent(DOMAIN new), DOMAIN new \cap d.dirs = {},
           \A p \in DOMAIN new : Visible(p, Ignored)
    PROVE  InSync(d, new, Diff(old, new))
<1> DEFINE C == Diff(old, new)
<1>1. /\ \A ch \in C :
            IF ch.op = "delete" THEN ch.path \in DOMAIN old \ DOMAIN new
            ELSE ch.path \in DOMAIN new /\ ch.mode = new[ch.path].mode
      /\ \A c, e \in C : c.path = e.path => c = e
      /\ \A p : p \notin PathsOf(C) =>
            /\ p \in DOMAIN old <=> p \in DOMAIN new
            /\ p \in DOMAIN new => old[p] = new[p]
  BY DiffPaths DEF PathsOf
<1> HIDE DEF C
<1>2. \A p \in DOMAIN old : Visible(p, Ignored)
  BY DEF InSync
<1>3. \A ch \in C : Visible(ch.path, Ignored)
  BY <1>1, <1>2
<1>4. ASSUME NEW p \in Paths, Visible(p, Ignored), p \notin PathsOf(C)
      PROVE  /\ p \in DOMAIN d.files <=> p \in DOMAIN new
             /\ p \in DOMAIN new => Matches(d.files[p], new[p])
  <2>1. /\ p \in DOMAIN d.files <=> p \in DOMAIN old
        /\ p \in DOMAIN old => Matches(d.files[p], old[p])
    BY <1>4 DEF InSync, PathsOf
  <2> QED BY <1>1, <1>4, <2>1
<1>5. \A ch \in C : IF ch.op = "delete" THEN ch.path \notin DOMAIN new
                    ELSE ch.path \in DOMAIN new /\ ch.mode = new[ch.path].mode
  BY <1>1
<1>6. InSync(d, new, C)
  BY <1>1, <1>3, <1>4, <1>5 DEF InSync
<1> QED BY <1>6 DEF C

\* Applying the change with the smallest path leaves one less to apply.  The order
\* matters: a file that stands where the change needs a directory has a smaller
\* path, so its own deletion is no longer pending.
LEMMA SyncApplies ==
    ASSUME NEW d \in Disks, WellFormed(d), NEW m \in Manifests, NEW C \in SUBSET Changes,
           InSync(d, m, C), NEW ch \in C, \A e \in C : Rank[ch.path] <= Rank[e.path],
           NEW c, ch.op # "delete" => c \in Contents /\ Hash[c] = m[ch.path].hash
    PROVE  InSync(Apply(d, ch, c), m, C \ {ch})
<1> DEFINE p == ch.path
           e == Apply(d, ch, c)
           f == [content |-> c, mode |-> EffectiveMode(ch.mode)]
           D == C \ {ch}
<1>1. /\ ch \in Changes /\ p \in Paths /\ Visible(p, Ignored)
      /\ ch.op = "delete" => p \notin DOMAIN m
      /\ ch.op # "delete" => p \in DOMAIN m /\ ch.mode = m[p].mode
      /\ Consistent(DOMAIN m) /\ DOMAIN m \cap d.dirs = {}
  BY DEF InSync, Changes
<1>2. /\ e \in Disks /\ WellFormed(e)
      /\ ch.op = "delete" => e = Remove(d, p)
      /\ ch.op # "delete" => f \in FileEntry /\ e = Write(d, p, f)
  BY <1>1, ApplyEffect
<1> HIDE DEF e
<1>3. \A q \in Paths : Visible(q, Ignored) /\ q \notin PathsOf(C) =>
        /\ q \in DOMAIN d.files <=> q \in DOMAIN m
        /\ q \in DOMAIN m => Matches(d.files[q], m[q])
  BY DEF InSync
<1>4. \A q : q \notin PathsOf(D) => q \notin PathsOf(C) \/ q = p
  BY DEF PathsOf
\* Everything but p is as it was, p is as listed, and the directories stay clear
\* of the listed files.
<1>5. /\ \A q : q # p => /\ q \in DOMAIN e.files <=> q \in DOMAIN d.files
                         /\ q \in DOMAIN d.files => e.files[q] = d.files[q]
      /\ p \in DOMAIN e.files <=> p \in DOMAIN m
      /\ p \in DOMAIN m => Matches(e.files[p], m[p])
      /\ DOMAIN m \cap e.dirs = {}
  <2>1. CASE ch.op = "delete"
    <3>1. /\ e.files = Restrict(d.files, DOMAIN d.files \ {p})
          /\ e.dirs \subseteq d.dirs
      BY <1>1, <1>2, <2>1, RemoveEffect
    <3>2. /\ DOMAIN e.files = DOMAIN d.files \ {p}
          /\ \A q \in DOMAIN e.files : e.files[q] = d.files[q]
      BY <3>1 DEF Restrict
    <3> QED BY <1>1, <2>1, <3>1, <3>2
  <2>2. CASE ch.op # "delete"
    <3>1. p \notin d.dirs
      BY <1>1, <2>2
    <3>2. AncestorsOf[p] \cap DOMAIN d.files = {}
      <4> SUFFICES ASSUME NEW q \in AncestorsOf[p], q \in DOMAIN d.files PROVE FALSE
        OBVIOUS
      <4>1. q \in Paths /\ Rank[q] < Rank[p] /\ Rank[q] \in Nat /\ Rank[p] \in Nat
        BY <1>1, PathAssumption
      <4>2. Visible(q, Ignored)
        BY <1>1, VisibleAbove
      <4>3. q \notin PathsOf(C)
        BY <4>1 DEF PathsOf
      <4>4. q \in DOMAIN m
        BY <1>3, <4>1, <4>2, <4>3
      <4> QED BY <1>1, <2>2, <4>4 DEF Consistent
    <3>3. /\ e.files = Put(d.files, p, f)
          /\ e.dirs = d.dirs \cup AncestorsOf[p]
      BY <1>1, <1>2, <2>2, <3>1, <3>2, WriteEffect
    <3>4. /\ DOMAIN e.files = DOMAIN d.files \cup {p}
          /\ e.files[p] = f
          /\ \A q \in DOMAIN d.files : q # p => e.files[q] = d.files[q]
      BY <3>3 DEF Put
    <3>5. Matches(e.files[p], m[p])
      BY <1>1, <2>2, <3>4 DEF Matches
    <3>6. DOMAIN m \cap AncestorsOf[p] = {}
      BY <1>1, <2>2 DEF Consistent
    <3> QED BY <1>1, <2>2, <3>3, <3>4, <3>5, <3>6
  <2> QED BY <2>1, <2>2
<1>6. ASSUME NEW q \in Paths, Visible(q, Ignored), q \notin PathsOf(D)
      PROVE  /\ q \in DOMAIN e.files <=> q \in DOMAIN m
             /\ q \in DOMAIN m => Matches(e.files[q], m[q])
  <2>1. CASE q = p
    BY <1>5, <2>1
  <2>2. CASE q # p
    <3>1. /\ q \in DOMAIN d.files <=> q \in DOMAIN m
          /\ q \in DOMAIN m => Matches(d.files[q], m[q])
      BY <1>3, <1>4, <1>6, <2>2
    <3> QED BY <1>5, <2>2, <3>1
  <2> QED BY <2>1, <2>2
<1>7. /\ \A x \in D :
            /\ Visible(x.path, Ignored)
            /\ IF x.op = "delete" THEN x.path \notin DOMAIN m
               ELSE x.path \in DOMAIN m /\ x.mode = m[x.path].mode
      /\ \A x, y \in D : x.path = y.path => x = y
      /\ \A q \in DOMAIN m : Visible(q, Ignored)
  BY DEF InSync
<1> HIDE DEF D
<1>8. InSync(e, m, D)
  BY <1>1, <1>5, <1>6, <1>7 DEF InSync
<1> QED BY <1>8 DEF e, D

\* A path that is in sync with a workspace's snapshot agrees with the workspace.
LEMMA SyncAgrees ==
    ASSUME NEW d \in Disks, NEW t \in Trees, NEW C, InSync(d, Snapshot(t), C),
           NEW p \in Paths, Visible(p, Ignored), p \notin PathsOf(C)
    PROVE  /\ p \in DOMAIN d.files <=> p \in DOMAIN t
           /\ p \in DOMAIN t => Agrees(d.files[p], t[p])
<1> DEFINE s == Snapshot(t)
<1>1. /\ p \in DOMAIN s <=> p \in DOMAIN t
      /\ p \in DOMAIN s => s[p] = [hash |-> Hash[t[p].content], mode |-> t[p].mode]
  BY WalkType, VisibleToBoth DEF Snapshot
<1>2. /\ p \in DOMAIN d.files <=> p \in DOMAIN s
      /\ p \in DOMAIN s => Matches(d.files[p], s[p])
  BY DEF InSync
<1> HIDE DEF s
<1>3. ASSUME p \in DOMAIN t PROVE Agrees(d.files[p], t[p])
  <2>1. d.files \in Trees /\ p \in DOMAIN d.files
    BY <1>1, <1>2, <1>3, DiskElim
  <2>2. d.files[p].content \in Contents /\ t[p].content \in Contents
    BY <1>3, <2>1, TreeElim
  <2>3. s[p].hash = Hash[t[p].content] /\ s[p].mode = t[p].mode
    BY <1>1, <1>3
  <2>4. Hash[d.files[p].content] = Hash[t[p].content]
    BY <1>1, <1>2, <1>3, <2>3 DEF Matches
  <2>5. d.files[p].content = t[p].content
    BY <2>2, <2>4, HashAssumption
  <2> QED BY <1>1, <1>2, <1>3, <2>3, <2>5 DEF Matches, Agrees
<1> QED BY <1>1, <1>2, <1>3

\* With no change left, project and workspace hold the same files.
LEMMA SyncEnds ==
    ASSUME NEW d \in Disks, NEW t \in Trees, InSync(d, Snapshot(t), {})
    PROVE  SameFiles(d, t)
<1>1. DOMAIN d.files \subseteq Paths /\ DOMAIN t \subseteq Paths
  BY DiskElim, TreeElim
<1>2. \A p : p \in DOMAIN Snapshot(t) <=> p \in DOMAIN t /\ Visible(p, {})
  BY WalkType DEF Snapshot
<1>3. \A p \in DOMAIN Snapshot(t) : Visible(p, Ignored)
  BY DEF InSync
<1>4. \A p \in Paths : Visible(p, Ignored) =>
        /\ p \in DOMAIN d.files <=> p \in DOMAIN t
        /\ p \in DOMAIN t => Agrees(d.files[p], t[p])
  <2>1. PathsOf({}) = {}
    BY DEF PathsOf
  <2> QED BY <2>1, SyncAgrees
<1>5. {p \in DOMAIN d.files : Visible(p, Ignored)} = DOMAIN Snapshot(t)
  BY <1>1, <1>2, <1>3, <1>4, VisibleToBoth
<1>6. \A p \in DOMAIN Snapshot(t) : Agrees(d.files[p], t[p])
  BY <1>1, <1>2, <1>3, <1>4
<1> QED BY <1>5, <1>6 DEF SameFiles
=============================================================================
