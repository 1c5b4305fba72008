-------------------------- MODULE FilesystemProofs --------------------------
(***************************************************************************)
(* The safety of Filesystem for every set of paths, files and descriptors, *)
(* every bound, and every number of failing FileX calls and resets.  The   *)
(* invariant says where the file of each descriptor is, who has the length *)
(* of each file, and what every step of a rename finds.  It is proved from *)
(* what the operators of the model do to a volume: first paths and what    *)
(* moving one does to those below, then the parts that calls are made of,  *)
(* then the calls.                                                         *)
(***************************************************************************)
EXTENDS Filesystem, SequenceTheorems, WellFoundedInduction, TLAPS

-----------------------------------------------------------------------------
(* The invariant.                                                           *)

Moving == rename.pc \in {"delete", "migrate"}
\* The path at which the file of a descriptor with path p is: once the source
\* has moved, the descriptors on it still have their old paths.
Where(p) == IF Moving /\ (entries[rename.new].kind = "dir" \/ p = rename.old)
            THEN Migrated(p, rename.old, rename.new) ELSE p
Slot == [allocated : BOOLEAN, path : Paths \cup {<<>>}, mode : {"closed", "read", "write"},
         file : Files \cup {Nobody}, len : 0 .. MaxLen, readable : BOOLEAN, writable : BOOLEAN,
         flush_on_close : BOOLEAN, opened : Files \cup {Nobody}]
Renaming == [pc : {"idle", "backup", "source", "restore", "delete", "migrate", "sync"},
             old : Paths \cup {<<>>}, new : Paths \cup {<<>>}, backup : Paths \cup {<<>>},
             file : Files \cup {Nobody}, replaces : BOOLEAN, failed : BOOLEAN]
\* A descriptor in use, whose file is at path w of the volume e.
SlotAt(h, w, e, sz) ==
    /\ h.allocated \/ h = FreeSlot
    /\ h.allocated => {h.path, w} \subseteq Paths \ Backups
    /\ h.mode # "closed" => h.file # Nobody /\ e[w].file = h.file
    /\ h.opened # Nobody => e[w].file = h.opened
    /\ h.mode = "write" => h.len = sz[h.file]
\* A file has one writer, and what the writer has not is in the entry.
Writers(d) ==
    \A f, g \in Fds : f # g /\ d[f].mode = "write" /\ d[g].mode = "write" => d[f].file # d[g].file
Written(d, o) == \E f \in Fds : d[f].mode = "write" /\ d[f].file = o
Lengths(e, d, sz) ==
    \A p \in Paths : e[p].kind = "file" => e[p].len = sz[e[p].file] \/ Written(d, e[p].file)
\* The entry of a settled file is on the medium, with the length it should have.
Settles(e, md, sz, files) == \A o \in files : \E p \in Paths : md[p] = Regular(o, sz[o]) /\ e[p] = md[p]
Volumes(e, md, d, sz, files) ==
    /\ e \in [Paths -> Entry] /\ md \in [Paths -> Entry] /\ d \in [Fds -> Slot]
    /\ sz \in [Files -> 0 .. MaxLen] /\ files \subseteq Files
    /\ Tree(e) /\ OneName(e) /\ Writers(d) /\ Lengths(e, d, sz) /\ Settles(e, md, sz, files)
\* Between the renames each file is at the path of its descriptors.
Calm(e, md, d, sz, files) ==
    Volumes(e, md, d, sz, files) /\ \A f \in Fds : SlotAt(d[f], d[f].path, e, sz)

FsTypes ==
    /\ filesystem_state \in {"not_attempted", "ready", "unavailable"}
    /\ current_directory \in Paths \cup {<<>>} /\ rename \in Renaming
    /\ calls \in 0 .. MaxCalls /\ faults \in 0 .. MaxFaults /\ resets \in 0 .. MaxResets
FsVolumes == Volumes(entries, media, descriptors, size, settled)
FsSlots == \A f \in Fds : SlotAt(descriptors[f], Where(descriptors[f].path), entries, size)
FsDirectory == IsDir(IF Moving THEN NewDirectory ELSE current_directory)
\* The source of a rename that has not moved yet, and the name it will get.
SourceReady(old, new) ==
    /\ entries[old].kind # "none" /\ entries[old].file = rename.file
    /\ old # new => ~Below(new, old) /\ ~Below(old, new)
    /\ \A f \in Allocated : Affected(old, descriptors[f].path, old) =>
           Migrated(descriptors[f].path, old, new) \in Paths
    /\ Below(current_directory, old) => Migrated(current_directory, old, new) \in Paths
    /\ \A p \in Paths : Below(p, old) /\ entries[p].kind # "none" =>
           /\ Migrated(p, old, new) \in Paths
           /\ entries[p].file \notin settled
           /\ entries[p].kind = "file" => entries[p].len = size[entries[p].file]
\* A name that is free, in a directory, for what a rename moves there.
NameReady(new) == IsDir(Parent(new)) /\ \A p \in Paths : Below(p, new) => entries[p].kind = "none"
\* Nobody is at the destination or has it for the current directory.
NameUnused(new) == /\ \A f \in Allocated : descriptors[f].path # new
                   /\ ~Below(current_directory, new)
\* The replaced destination under its backup name.
BackupReady(b) ==
    /\ b \in Backups /\ ~Below(rename.new, b)
    /\ entries[b].kind # "none" /\ Empty(b) /\ entries[b].file \notin settled
    /\ entries[b].file # Nobody => entries[b].len = size[entries[b].file]
    /\ ~Below(current_directory, b)
FsRename ==
    LET old == rename.old  new == rename.new IN
    /\ rename.pc # "idle" => filesystem_state = "ready" /\ {old, new} \subseteq Paths \ Backups
    /\ rename.pc \in {"backup", "source"} => SourceReady(old, new)
    /\ rename.pc = "backup" => /\ rename.replaces /\ old # new
                               /\ entries[new].kind = entries[old].kind /\ Empty(new)
                               /\ IsDir(Parent(new)) /\ NameUnused(new)
    /\ rename.pc = "source" /\ old # new => NameReady(new)
    /\ rename.pc = "source" /\ rename.replaces => old # new
    /\ rename.pc \in {"source", "restore"} /\ rename.replaces =>
           BackupReady(rename.backup) /\ NameUnused(new)
    /\ rename.pc = "restore" => rename.replaces /\ NameReady(new)
    /\ rename.pc = "delete" => /\ BackupReady(rename.backup) /\ rename.replaces
                               /\ entries[new].file = rename.file
    /\ rename.pc \in {"delete", "migrate", "sync"} => entries[new].kind # "none"
FsInv == FsTypes /\ FsVolumes /\ FsSlots /\ FsDirectory /\ FsRename

-----------------------------------------------------------------------------
(* Paths.                                                                   *)

LEMMA BelowMeans ==
    ASSUME NEW S, NEW p \in Seq(S), NEW q \in Seq(S)
    PROVE  Below(p, q) <=> Len(q) <= Len(p) /\ \A i \in 1 .. Len(q) : q[i] = p[i]
  BY DEF Below, IsPrefix

LEMMA SameSequence ==
    ASSUME NEW S, NEW p \in Seq(S), NEW q \in Seq(S), Len(p) = Len(q),
           \A i \in 1 .. Len(p) : p[i] = q[i]
    PROVE  p = q
  OBVIOUS

LEMMA BelowOrder ==
    ASSUME NEW S, NEW p \in Seq(S), NEW q \in Seq(S), NEW r \in Seq(S)
    PROVE  /\ Below(p, p)
           /\ Below(p, q) /\ Below(q, r) => Below(p, r)
           /\ Below(p, q) /\ Below(q, p) => p = q
           /\ Below(p, q) /\ Below(p, r) => Below(q, r) \/ Below(r, q)
           /\ Below(p, q) /\ Len(p) = Len(q) => p = q
           /\ Below(p, q) => Len(q) <= Len(p)
           /\ Below(p, <<>>)
  <1>1. Below(p, p) /\ (Below(p, q) /\ Below(q, r) => Below(p, r))
    BY BelowMeans
  <1>2. Below(p, q) /\ Len(p) = Len(q) => p = q
    BY BelowMeans, SameSequence
  <1>3. Below(p, q) => Len(q) <= Len(p)
    BY BelowMeans
  <1>4. Below(p, q) /\ Below(q, p) => p = q
    BY BelowMeans, <1>2
  <1>5. Below(p, q) /\ Below(p, r) => Below(q, r) \/ Below(r, q)
    BY BelowMeans
  <1>6. Below(p, <<>>)
    BY DEF Below, IsPrefix
  <1> QED BY <1>1, <1>2, <1>3, <1>4, <1>5, <1>6

LEMMA ParentMeans ==
    ASSUME NEW S, NEW p \in Seq(S), p # <<>>
    PROVE  /\ Parent(p) \in Seq(S) /\ Len(Parent(p)) = Len(p) - 1
           /\ \A i \in 1 .. Len(p) - 1 : Parent(p)[i] = p[i]
           /\ Below(p, Parent(p)) /\ Parent(p) # p
  <1>1. /\ Parent(p) \in Seq(S) /\ Len(Parent(p)) = Len(p) - 1
        /\ \A i \in 1 .. Len(p) - 1 : Parent(p)[i] = p[i]
    <2>1. Len(p) \in Nat /\ Len(p) > 0
      OBVIOUS
    <2> DEFINE front == SubSeq(p, 1, Len(p) - 1)
    <2>2. /\ front \in Seq(S) /\ Len(front) = IF 1 <= Len(p) - 1 THEN (Len(p) - 1) - 1 + 1 ELSE 0
          /\ \A i \in 1 .. (Len(p) - 1) - 1 + 1 : front[i] = p[1 + i - 1]
      <3>1. \A i \in 1 .. Len(p) - 1 : p[i] \in S
        BY <2>1
      <3> QED BY <2>1, <3>1, SubSeqProperties
    <2>3. Parent(p) = front
      BY DEF Parent, Front
    <2> HIDE DEF front
    <2>4. front \in Seq(S) /\ Len(front) = Len(p) - 1
      <3>1. CASE 1 <= Len(p) - 1
        BY <2>1, <2>2, <3>1
      <3>2. CASE ~(1 <= Len(p) - 1)
        <4>1. ASSUME NEW n \in Nat, n > 0, ~(1 <= n - 1) PROVE n - 1 = 0
          BY <4>1
        <4>2. Len(p) - 1 = 0
          BY <2>1, <3>2, <4>1
        <4> QED BY <2>2, <3>2, <4>2
      <3> QED BY <3>1, <3>2
    <2>5. \A i \in 1 .. Len(p) - 1 : front[i] = p[i]
      BY <2>1, <2>2
    <2> QED BY <2>3, <2>4, <2>5
  <1> QED BY <1>1, BelowMeans

LEMMA AboveParent ==
    ASSUME NEW S, NEW p \in Seq(S), p # <<>>, NEW q \in Seq(S), Below(p, q), p # q
    PROVE  Below(Parent(p), q)
  <1>1. Len(q) <= Len(p) /\ \A i \in 1 .. Len(q) : q[i] = p[i]
    BY BelowMeans
  <1>2. Len(q) # Len(p)
    BY BelowOrder
  <1> QED BY <1>1, <1>2, ParentMeans, BelowMeans

\* A path below old has the same place below new.
IsMigrated(m, p, old, new) ==
    /\ Len(m) = Len(new) + (Len(p) - Len(old))
    /\ \A i \in 1 .. Len(new) : m[i] = new[i]
    /\ \A i \in 1 .. Len(p) - Len(old) : m[Len(new) + i] = p[Len(old) + i]

LEMMA MigratedMeans ==
    ASSUME NEW S, NEW p \in Seq(S), NEW old \in Seq(S), NEW new \in Seq(S), Below(p, old)
    PROVE  Migrated(p, old, new) \in Seq(S) /\ IsMigrated(Migrated(p, old, new), p, old, new)
  <1>1. Len(old) <= Len(p) /\ Len(old) \in Nat /\ Len(p) \in Nat /\ Len(new) \in Nat
    BY BelowMeans
  <1> DEFINE tail == SubSeq(p, Len(old) + 1, Len(p))
             from == Len(old) + 1
  <1>2. /\ tail \in Seq(S) /\ Len(tail) = IF from <= Len(p) THEN Len(p) - from + 1 ELSE 0
        /\ \A i \in 1 .. Len(p) - from + 1 : tail[i] = p[from + i - 1]
    <2>1. \A i \in from .. Len(p) : p[i] \in S
      BY <1>1
    <2>2. from \in Int /\ Len(p) \in Int
      BY <1>1
    <2> QED BY <2>1, <2>2, SubSeqProperties
  <1>3. Migrated(p, old, new) = new \o tail
    BY DEF Migrated
  <1> HIDE DEF tail
  <1>4. tail \in Seq(S) /\ Len(tail) = Len(p) - Len(old)
    BY <1>1, <1>2
  <1>5. ASSUME NEW i \in 1 .. Len(p) - Len(old) PROVE tail[i] = p[Len(old) + i]
    <2>1. i \in 1 .. Len(p) - from + 1 /\ from + i - 1 = Len(old) + i
      BY <1>1
    <2> QED BY <1>2, <2>1
  <1> DEFINE m == new \o tail
  <1>6. /\ m \in Seq(S) /\ Len(m) = Len(new) + Len(tail)
        /\ \A i \in 1 .. Len(new) + Len(tail) : m[i] = IF i <= Len(new) THEN new[i] ELSE tail[i - Len(new)]
    BY <1>4, ConcatProperties
  <1> HIDE DEF m
  <1>7. ASSUME NEW i \in 1 .. Len(new) PROVE m[i] = new[i]
    <2>1. i \in 1 .. Len(new) + Len(tail) /\ i <= Len(new)
      BY <1>1, <1>4
    <2> QED BY <1>6, <2>1
  <1>8. ASSUME NEW i \in 1 .. Len(p) - Len(old) PROVE m[Len(new) + i] = p[Len(old) + i]
    <2>1. /\ Len(new) + i \in 1 .. Len(new) + Len(tail) /\ ~(Len(new) + i <= Len(new))
          /\ (Len(new) + i) - Len(new) = i
      BY <1>1, <1>4
    <2>2. m[Len(new) + i] = tail[i]
      BY <1>6, <2>1
    <2> QED BY <1>5, <2>2
  <1>9. Len(m) = Len(new) + (Len(p) - Len(old))
    BY <1>4, <1>6
  <1> QED BY <1>3, <1>6, <1>7, <1>8, <1>9 DEF IsMigrated, m

LEMMA MigratedBack ==
    ASSUME NEW S, NEW p \in Seq(S), NEW old \in Seq(S), NEW new \in Seq(S), Below(p, old)
    PROVE  /\ Migrated(p, old, new) \in Seq(S)
           /\ Below(Migrated(p, old, new), new)
           /\ Migrated(Migrated(p, old, new), new, old) = p
           /\ Migrated(p, old, new) = new <=> p = old
  <1> DEFINE m == Migrated(p, old, new)
  <1>1. Len(old) <= Len(p) /\ \A i \in 1 .. Len(old) : old[i] = p[i]
    BY BelowMeans
  <1>2. m \in Seq(S) /\ IsMigrated(m, p, old, new)
    BY MigratedMeans
  <1> HIDE DEF m
  <1>i. /\ Len(m) = Len(new) + (Len(p) - Len(old))
        /\ \A i \in 1 .. Len(new) : m[i] = new[i]
        /\ \A i \in 1 .. Len(p) - Len(old) : m[Len(new) + i] = p[Len(old) + i]
    BY <1>2 DEF IsMigrated
  <1>3. Below(m, new)
    BY <1>1, <1>2, <1>i, BelowMeans
  <1> DEFINE b == Migrated(m, new, old)
  <1>4. b \in Seq(S) /\ IsMigrated(b, m, new, old)
    BY <1>2, <1>3, MigratedMeans
  <1> HIDE DEF b
  <1>j. /\ Len(b) = Len(old) + (Len(m) - Len(new))
        /\ \A i \in 1 .. Len(old) : b[i] = old[i]
        /\ \A i \in 1 .. Len(m) - Len(new) : b[Len(old) + i] = m[Len(new) + i]
    BY <1>4 DEF IsMigrated
  <1>5. Len(b) = Len(p)
    BY <1>1, <1>2, <1>i, <1>4, <1>j
  <1>6. ASSUME NEW i \in 1 .. Len(b) PROVE b[i] = p[i]
    <2>1. CASE i <= Len(old)
      BY <1>1, <1>4, <1>j, <2>1
    <2>2. CASE i > Len(old)
      <3>1. i - Len(old) \in 1 .. Len(m) - Len(new) /\ i - Len(old) \in 1 .. Len(p) - Len(old)
            /\ Len(old) + (i - Len(old)) = i
        BY <1>1, <1>2, <1>i, <1>5, <2>2
      <3> QED BY <1>2, <1>i, <1>4, <1>j, <3>1
    <2> QED BY <1>4, <1>j, <2>1, <2>2
  <1>7. b = p
    BY <1>4, <1>j, <1>5, <1>6, SameSequence
  <1>8. m = new <=> p = old
    <2>1. ASSUME m = new PROVE p = old
      <3>1. Len(p) = Len(old)
        BY <1>1, <1>2, <1>i, <2>1
      <3> QED BY <3>1, <1>1, SameSequence
    <2>2. ASSUME p = old PROVE m = new
      BY <1>2, <1>i, <2>2, SameSequence
    <2> QED BY <2>1, <2>2
  <1> QED BY <1>2, <1>i, <1>3, <1>7, <1>8 DEF m, b

LEMMA MigratedSelf ==
    ASSUME NEW S, NEW p \in Seq(S), NEW old \in Seq(S), Below(p, old)
    PROVE  Migrated(p, old, old) = p
  <1> DEFINE m == Migrated(p, old, old)
  <1>1. Len(old) <= Len(p) /\ \A i \in 1 .. Len(old) : old[i] = p[i]
    BY BelowMeans
  <1>2. /\ m \in Seq(S) /\ Len(m) = Len(p)
        /\ \A i \in 1 .. Len(old) : m[i] = old[i]
        /\ \A i \in 1 .. Len(p) - Len(old) : m[Len(old) + i] = p[Len(old) + i]
    <2>1. m \in Seq(S) /\ IsMigrated(m, p, old, old)
      BY MigratedMeans
    <2> HIDE DEF m
    <2> QED BY <1>1, <2>1 DEF IsMigrated
  <1> HIDE DEF m
  <1>3. ASSUME NEW i \in 1 .. Len(p) PROVE m[i] = p[i]
    <2>1. CASE i <= Len(old)
      BY <1>1, <1>2, <2>1
    <2>2. CASE i > Len(old)
      <3>1. i - Len(old) \in 1 .. Len(p) - Len(old) /\ Len(old) + (i - Len(old)) = i
        BY <1>1, <2>2
      <3> QED BY <1>2, <3>1
    <2> QED BY <2>1, <2>2
  <1> QED BY <1>2, <1>3, SameSequence DEF m

\* The order below old is the order below new.
LEMMA MigratedOrder ==
    ASSUME NEW S, NEW p \in Seq(S), NEW q \in Seq(S), NEW old \in Seq(S), NEW new \in Seq(S),
           Below(p, old), Below(q, old), Below(p, q)
    PROVE  Below(Migrated(p, old, new), Migrated(q, old, new))
  <1> DEFINE m == Migrated(p, old, new)  n == Migrated(q, old, new)
  <1>1. Len(old) <= Len(p) /\ Len(old) <= Len(q) /\ Len(q) <= Len(p) /\ \A i \in 1 .. Len(q) : q[i] = p[i]
    BY BelowMeans
  <1>a. m \in Seq(S) /\ IsMigrated(m, p, old, new)
    BY MigratedMeans
  <1>b. n \in Seq(S) /\ IsMigrated(n, q, old, new)
    BY MigratedMeans
  <1> HIDE DEF m, n
  <1>2. /\ Len(m) = Len(new) + (Len(p) - Len(old))
        /\ \A i \in 1 .. Len(new) : m[i] = new[i]
        /\ \A i \in 1 .. Len(p) - Len(old) : m[Len(new) + i] = p[Len(old) + i]
    BY <1>a DEF IsMigrated
  <1>3. /\ Len(n) = Len(new) + (Len(q) - Len(old))
        /\ \A i \in 1 .. Len(new) : n[i] = new[i]
        /\ \A i \in 1 .. Len(q) - Len(old) : n[Len(new) + i] = q[Len(old) + i]
    BY <1>b DEF IsMigrated
  <1>4. ASSUME NEW i \in 1 .. Len(n) PROVE n[i] = m[i]
    <2>1. CASE i <= Len(new)
      BY <1>2, <1>a, <1>3, <1>b, <2>1
    <2>2. CASE i > Len(new)
      <3>1. /\ i - Len(new) \in 1 .. Len(p) - Len(old) /\ i - Len(new) \in 1 .. Len(q) - Len(old)
            /\ Len(new) + (i - Len(new)) = i
            /\ Len(old) + (i - Len(new)) \in 1 .. Len(q)
        BY <1>1, <1>3, <1>b, <2>2
      <3> QED BY <1>1, <1>2, <1>a, <1>3, <1>b, <3>1
    <2> QED BY <1>3, <1>b, <2>1, <2>2
  <1> QED BY <1>1, <1>2, <1>a, <1>3, <1>b, <1>4, BelowMeans DEF m, n

-----------------------------------------------------------------------------
(* Volumes.                                                                 *)

LEMMA PathsAre == \A p \in Paths \cup {<<>>} : p \in Seq(Components)
  <1>1. <<>> \in Seq(Components)
    BY EmptySeq
  <1>2. Paths \subseteq Seq(Components)
    BY ConstantsAssumption DEF ConstantsAssumption
  <1> QED BY <1>1, <1>2

LEMMA PathOrder ==
    ASSUME NEW p \in Paths \cup {<<>>}, NEW q \in Paths \cup {<<>>}, NEW r \in Paths \cup {<<>>}
    PROVE  /\ Below(p, p)
           /\ Below(p, q) /\ Below(q, r) => Below(p, r)
           /\ Below(p, q) /\ Below(q, p) => p = q
           /\ Below(p, q) /\ Below(p, r) => Below(q, r) \/ Below(r, q)
           /\ Below(p, <<>>)
  BY BelowOrder, PathsAre

\* What is above a path is a path.
LEMMA PathAbove ==
    ASSUME NEW p \in Paths, NEW q \in Seq(Components), Below(p, q), q # <<>>
    PROVE  q \in Paths
  <1>1. p \in Seq(Components)
    BY PathsAre
  <1>2. Len(q) \in 1 .. Len(p)
    BY <1>1, BelowMeans
  <1>3. SubSeq(p, 1, Len(q)) \in Paths
    BY <1>2, ConstantsAssumption DEF ConstantsAssumption
  <1>4. SubSeq(q, 1, Len(q)) = SubSeq(p, 1, Len(q))
    BY DEF Below, IsPrefix
  <1>5. SubSeq(q, 1, Len(q)) = q
    BY SubSeqFull
  <1> QED BY <1>3, <1>4, <1>5

LEMMA PathParent ==
    ASSUME NEW p \in Paths
    PROVE  /\ Parent(p) \in Paths \cup {<<>>} /\ Below(p, Parent(p)) /\ Parent(p) # p
           /\ \A q \in Paths \cup {<<>>} : Below(p, q) /\ p # q => Below(Parent(p), q)
  <1>1. p \in Seq(Components) /\ p # <<>>
    BY PathsAre, ConstantsAssumption DEF ConstantsAssumption
  <1>2. Parent(p) \in Seq(Components) /\ Below(p, Parent(p)) /\ Parent(p) # p
    BY <1>1, ParentMeans
  <1>3. Parent(p) \in Paths \cup {<<>>}
    BY <1>2, PathAbove
  <1>4. \A q \in Paths \cup {<<>>} : Below(p, q) /\ p # q => Below(Parent(p), q)
    BY <1>1, AboveParent, PathsAre
  <1> QED BY <1>2, <1>3, <1>4

\* A path below old goes to its place below new, and back to itself.
LEMMA PathMigrated ==
    ASSUME NEW p \in Paths \cup {<<>>}, NEW old \in Paths, NEW new \in Paths, Below(p, old)
    PROVE  /\ Migrated(p, old, new) \in Seq(Components)
           /\ Below(Migrated(p, old, new), new)
           /\ Migrated(Migrated(p, old, new), new, old) = p
           /\ Migrated(p, old, new) = new <=> p = old
  BY MigratedBack, PathsAre

LEMMA PathMigratedOrder ==
    ASSUME NEW p \in Paths, NEW q \in Paths, NEW old \in Paths, NEW new \in Paths,
           Below(p, old), Below(q, old), Below(p, q)
    PROVE  /\ Below(Migrated(p, old, new), Migrated(q, old, new))
           /\ Migrated(p, old, new) \in Paths => Migrated(q, old, new) \in Paths
  <1>1. Below(Migrated(p, old, new), Migrated(q, old, new))
    BY MigratedOrder, PathsAre
  <1>2. Migrated(q, old, new) \in Seq(Components) /\ Below(Migrated(q, old, new), new)
    BY PathMigrated
  <1>3. new \in Seq(Components) /\ new # <<>>
    BY PathsAre, ConstantsAssumption DEF ConstantsAssumption
  <1>4. Migrated(q, old, new) # <<>>
    BY <1>2, <1>3, BelowOrder
  <1> QED BY <1>1, <1>2, <1>4, PathAbove

LEMMA EntryFacts ==
    ASSUME NEW x \in Entry
    PROVE  /\ x.kind \in {"none", "dir", "file"} /\ x.file \in Files \cup {Nobody}
           /\ x.len \in 0 .. MaxLen /\ Nobody \notin Files
           /\ x.kind = "none" <=> x = Absent
           /\ x.kind = "file" <=> x.file # Nobody
           /\ x.kind = "file" => x = Regular(x.file, x.len)
           /\ x.kind = "file" => \A n \in 0 .. MaxLen : [x EXCEPT !.len = n] = Regular(x.file, n)
           /\ x.kind # "file" => x.len = 0 /\ x.file = Nobody
           /\ \A n \in 0 .. MaxLen : x.kind = "file" => [x EXCEPT !.len = n] \in Entry
  <1>1. Nobody \notin Files /\ MaxLen \in Nat
    BY ConstantsAssumption DEF ConstantsAssumption
  <1>2. CASE x = Absent
    BY <1>1, <1>2 DEF Absent, Entry, Nobody
  <1>3. CASE x = Directory
    BY <1>1, <1>3 DEF Absent, Directory, Entry, Nobody
  <1>4. CASE \E o \in Files, n \in 0 .. MaxLen : x = Regular(o, n)
    BY <1>1, <1>4 DEF Absent, Regular, Entry, Nobody
  <1> QED BY <1>2, <1>3, <1>4 DEF Entry

\* What a FileX rename does to a volume: the entries below old get their
\* places below new, which was free, and nothing else changes.
Movable(e, old, new) ==
    /\ e \in [Paths -> Entry] /\ Tree(e) /\ OneName(e) /\ old \in Paths /\ new \in Paths
    /\ old # new => ~Below(new, old) /\ ~Below(old, new)
    /\ old # new => \A p \in Paths : Below(p, new) => e[p].kind = "none"
    /\ old # new => Parent(new) = <<>> \/ (Parent(new) \in Paths /\ e[Parent(new)].kind = "dir")
    /\ \A p \in Paths : Below(p, old) /\ e[p].kind # "none" => Migrated(p, old, new) \in Paths

LEMMA RenamedSame ==
    ASSUME NEW e, NEW old, Movable(e, old, old)
    PROVE  FxRenamed(e, old, old) = e
  <1>1. /\ e \in [Paths -> Entry] /\ old \in Paths
        /\ \A p \in Paths : Below(p, old) => Migrated(p, old, old) = p
    BY MigratedSelf, PathsAre DEF Movable
  <1>2. \A p \in Paths : (IF Below(p, old) /\ Migrated(p, old, old) \in Paths
                          THEN e[Migrated(p, old, old)]
                          ELSE IF Below(p, old) THEN Absent ELSE e[p]) = e[p]
    BY <1>1
  <1> QED BY <1>1, <1>2 DEF FxRenamed

LEMMA RenamedEntries ==
    ASSUME NEW e, NEW old, NEW new, Movable(e, old, new), old # new
    PROVE  LET m == FxRenamed(e, old, new) IN
           /\ m \in [Paths -> Entry]
           /\ \A p \in Paths : ~Below(p, old) /\ ~Below(p, new) => m[p] = e[p]
           /\ \A p \in Paths : Below(p, old) /\ Migrated(p, old, new) \in Paths =>
                  m[Migrated(p, old, new)] = e[p]
           /\ \A p \in Paths : Below(p, old) => m[p] = Absent
           /\ \A p \in Paths : Below(p, new) /\ m[p].kind # "none" =>
                  /\ Migrated(p, new, old) \in Paths /\ Below(Migrated(p, new, old), old)
                  /\ Migrated(Migrated(p, new, old), old, new) = p
                  /\ m[p] = e[Migrated(p, new, old)]
  <1> DEFINE m == FxRenamed(e, old, new)
  <1>1. e \in [Paths -> Entry] /\ old \in Paths /\ new \in Paths /\ ~Below(new, old) /\ ~Below(old, new)
        /\ \A p \in Paths : Below(p, new) => e[p].kind = "none"
    BY DEF Movable
  <1>2. \A p \in Paths : m[p] = IF Below(p, new) /\ Migrated(p, new, old) \in Paths
                                THEN e[Migrated(p, new, old)]
                                ELSE IF Below(p, old) THEN Absent ELSE e[p]
    BY DEF FxRenamed
  <1>3. m \in [Paths -> Entry]
    BY <1>1 DEF FxRenamed, Entry
  <1> HIDE DEF m
  <1>4. \A p \in Paths : ~(Below(p, old) /\ Below(p, new))
    <2>1. ASSUME NEW p \in Paths, Below(p, old), Below(p, new) PROVE FALSE
      BY <1>1, <2>1, PathOrder
    <2> QED BY <2>1
  <1>5. \A p \in Paths : ~Below(p, old) /\ ~Below(p, new) => m[p] = e[p]
    BY <1>2
  <1>6. ASSUME NEW p \in Paths, Below(p, old), Migrated(p, old, new) \in Paths
        PROVE  m[Migrated(p, old, new)] = e[p]
    <2>1. Below(Migrated(p, old, new), new) /\ Migrated(Migrated(p, old, new), new, old) = p
      BY <1>1, <1>6, PathMigrated
    <2> QED BY <1>2, <1>6, <2>1
  <1>7. \A p \in Paths : Below(p, old) => m[p] = Absent
    BY <1>2, <1>4
  <1>8. ASSUME NEW p \in Paths, Below(p, new), m[p].kind # "none"
        PROVE  /\ Migrated(p, new, old) \in Paths /\ Below(Migrated(p, new, old), old)
               /\ Migrated(Migrated(p, new, old), old, new) = p
               /\ m[p] = e[Migrated(p, new, old)]
    <2>1. Below(Migrated(p, new, old), old) /\ Migrated(Migrated(p, new, old), old, new) = p
      BY <1>1, <1>8, PathMigrated
    <2>2. Migrated(p, new, old) \in Paths
      BY <1>1, <1>2, <1>4, <1>8 DEF Absent
    <2> QED BY <1>2, <1>8, <2>1, <2>2
  <1> QED BY <1>3, <1>5, <1>6, <1>7, <1>8 DEF m

LEMMA RenamedTree ==
    ASSUME NEW e, NEW old, NEW new, Movable(e, old, new)
    PROVE  Tree(FxRenamed(e, old, new))
  <1>1. CASE old = new
    BY <1>1, RenamedSame DEF Movable
  <1>2. CASE old # new
    <2> DEFINE m == FxRenamed(e, old, new)
    <2>1. /\ \A p \in Paths : ~Below(p, old) /\ ~Below(p, new) => m[p] = e[p]
          /\ \A p \in Paths : Below(p, old) /\ Migrated(p, old, new) \in Paths =>
                  m[Migrated(p, old, new)] = e[p]
          /\ \A p \in Paths : Below(p, old) => m[p] = Absent
          /\ \A p \in Paths : Below(p, new) /\ m[p].kind # "none" =>
                  /\ Migrated(p, new, old) \in Paths /\ Below(Migrated(p, new, old), old)
                  /\ Migrated(Migrated(p, new, old), old, new) = p
                  /\ m[p] = e[Migrated(p, new, old)]
      BY <1>2, RenamedEntries
    <2> HIDE DEF m
    <2>2. Tree(e) /\ old \in Paths /\ new \in Paths
      BY DEF Movable
    <2> SUFFICES ASSUME NEW p \in Paths, NEW q \in Paths, m[p].kind # "none", Below(p, q), p # q
                 PROVE  m[q].kind = "dir"
      BY DEF Tree, m
    <2>3. ~Below(p, old)
      BY <2>1 DEF Absent
    <2>4. CASE Below(p, new) /\ Below(q, new)
      <3> DEFINE r == Migrated(p, new, old)  s == Migrated(q, new, old)
      <3>1. r \in Paths /\ e[r].kind # "none"
        BY <2>1, <2>4
      <3>2. Below(r, s) /\ s \in Paths
        BY <2>2, <2>4, <3>1, PathMigratedOrder
      <3>3. Below(s, old) /\ Migrated(s, old, new) = q /\ Migrated(r, old, new) = p
        BY <2>1, <2>2, <2>4, PathMigrated
      <3>4. r # s
        BY <3>3
      <3>5. e[s].kind = "dir"
        BY <2>2, <3>1, <3>2, <3>4 DEF Tree
      <3>6. m[Migrated(s, old, new)] = e[s]
        BY <2>1, <3>2, <3>3
      <3> QED BY <3>3, <3>5, <3>6
    <2>5. CASE Below(p, new) /\ ~Below(q, new)
      <3>1. Below(new, q) /\ new # q
        BY <2>2, <2>5, PathOrder
      <3>2. Below(Parent(new), q) /\ Parent(new) \in Paths \cup {<<>>}
        BY <2>2, <3>1, PathParent
      <3>3. q # <<>>
        BY ConstantsAssumption DEF ConstantsAssumption
      <3>4. Parent(new) # <<>>
        <4>1. Below(q, <<>>) /\ (Below(<<>>, q) => q = <<>>)
          BY PathOrder
        <4> QED BY <3>2, <3>3, <4>1
      <3>5. Parent(new) \in Paths /\ e[Parent(new)].kind = "dir"
        BY <1>2, <3>4 DEF Movable
      <3>6. e[q].kind = "dir"
        BY <2>2, <3>2, <3>5 DEF Tree
      <3>7. ~Below(q, old)
        <4>1. ~Below(new, old)
          BY <1>2 DEF Movable
        <4> QED BY <2>2, <3>1, <4>1, PathOrder
      <3> QED BY <2>1, <2>5, <3>6, <3>7
    <2>6. CASE ~Below(p, new)
      <3>1. m[p] = e[p] /\ ~Below(q, old) /\ ~Below(q, new)
        BY <2>1, <2>2, <2>3, <2>6, PathOrder
      <3> QED BY <2>1, <2>2, <3>1 DEF Tree
    <2> QED BY <2>4, <2>5, <2>6
  <1> QED BY <1>1, <1>2

LEMMA RenamedOneName ==
    ASSUME NEW e, NEW old, NEW new, Movable(e, old, new)
    PROVE  OneName(FxRenamed(e, old, new))
  <1>1. CASE old = new
    BY <1>1, RenamedSame DEF Movable
  <1>2. CASE old # new
    <2> DEFINE m == FxRenamed(e, old, new)
               From(p) == IF Below(p, new) THEN Migrated(p, new, old) ELSE p
    <2>1. /\ \A p \in Paths : ~Below(p, old) /\ ~Below(p, new) => m[p] = e[p]
          /\ \A p \in Paths : Below(p, old) => m[p] = Absent
          /\ \A p \in Paths : Below(p, new) /\ m[p].kind # "none" =>
                  /\ Migrated(p, new, old) \in Paths /\ Below(Migrated(p, new, old), old)
                  /\ Migrated(Migrated(p, new, old), old, new) = p
                  /\ m[p] = e[Migrated(p, new, old)]
          /\ m \in [Paths -> Entry]
      BY <1>2, RenamedEntries
    <2> HIDE DEF m
    <2>2. ASSUME NEW p \in Paths, m[p].file # Nobody
          PROVE  /\ From(p) \in Paths /\ m[p] = e[From(p)]
                 /\ Below(p, new) <=> Below(From(p), old)
                 /\ Below(p, new) => Migrated(From(p), old, new) = p
      <3>1. m[p].kind # "none" /\ ~Below(p, old)
        BY <2>1, <2>2, EntryFacts DEF Absent
      <3> QED BY <2>1, <3>1
    <2> SUFFICES ASSUME NEW p \in Paths, NEW q \in Paths, p # q, m[p].file # Nobody,
                        m[p].file = m[q].file
                 PROVE  FALSE
      BY DEF OneName, m
    <2>3. From(p) # From(q)
      BY <2>2
    <2> QED BY <2>2, <2>3 DEF Movable, OneName
  <1> QED BY <1>1, <1>2

\* Nothing is lost.
LEMMA RenamedHeld ==
    ASSUME NEW e, NEW old, NEW new, Movable(e, old, new)
    PROVE  Held(e) \subseteq Held(FxRenamed(e, old, new))
  <1>1. CASE old = new
    BY <1>1, RenamedSame
  <1>2. CASE old # new
    <2> DEFINE m == FxRenamed(e, old, new)
    <2>1. /\ \A p \in Paths : ~Below(p, old) /\ ~Below(p, new) => m[p] = e[p]
          /\ \A p \in Paths : Below(p, old) /\ Migrated(p, old, new) \in Paths =>
                  m[Migrated(p, old, new)] = e[p]
      BY <1>2, RenamedEntries
    <2> HIDE DEF m
    <2> SUFFICES ASSUME NEW p \in Paths, e[p].file # Nobody PROVE e[p].file \in {m[q].file : q \in Paths}
      BY DEF Held, m
    <2>2. e[p].kind # "none"
      BY EntryFacts DEF Movable
    <2>3. ~Below(p, new)
      BY <1>2, <2>2 DEF Movable
    <2>4. CASE Below(p, old)
      BY <2>1, <2>2, <2>4 DEF Movable
    <2>5. CASE ~Below(p, old)
      BY <2>1, <2>3, <2>5
    <2> QED BY <2>4, <2>5
  <1> QED BY <1>1, <1>2

-----------------------------------------------------------------------------
(* What the adapter's calls are made of, and what each part keeps.          *)

SameNames(x, e) ==
    x \in [Paths -> Entry] /\ \A p \in Paths : x[p].kind = e[p].kind /\ x[p].file = e[p].file

LEMMA SameNamesKeep ==
    ASSUME NEW e, NEW x, SameNames(x, e), Tree(e), OneName(e)
    PROVE  Tree(x) /\ OneName(x)
  BY DEF SameNames, Tree, OneName

\* Publishing gives the entries of written files the lengths they should have.
LEMMA Publishing ==
    ASSUME NEW e, NEW md, NEW d, NEW sz, NEW files, Volumes(e, md, d, sz, files),
           NEW handles, handles \subseteq Slot,
           \A h \in handles : h.mode = "write" => h.file # Nobody /\ h.len = sz[h.file]
    PROVE  LET x == FxPublished(e, handles) IN
           /\ SameNames(x, e)
           /\ \A p \in Paths : \/ x[p] = e[p]
                               \/ e[p].kind = "file" /\ x[p] = Regular(e[p].file, sz[e[p].file])
           /\ \A p \in Paths : (\E h \in handles : h.mode = "write" /\ h.file = e[p].file) =>
                  e[p].kind = "file" /\ x[p] = Regular(e[p].file, sz[e[p].file])
  <1> DEFINE x == FxPublished(e, handles)
             of(p) == {h \in handles : h.mode = "write" /\ h.file = e[p].file}
  <1>1. e \in [Paths -> Entry] /\ sz \in [Files -> 0 .. MaxLen]
    BY DEF Volumes
  <1>2. ASSUME NEW p \in Paths, ~\E h \in handles : h.mode = "write" /\ h.file = e[p].file
        PROVE  x[p] = e[p]
    BY <1>2 DEF FxPublished
  <1>3. ASSUME NEW p \in Paths, \E h \in handles : h.mode = "write" /\ h.file = e[p].file
        PROVE  e[p].kind = "file" /\ x[p] = Regular(e[p].file, sz[e[p].file])
    <2> DEFINE w == CHOOSE h \in handles : h.mode = "write" /\ h.file = e[p].file
    <2>1. w \in handles /\ w.mode = "write" /\ w.file = e[p].file
      BY <1>3
    <2>2. x[p] = [e[p] EXCEPT !.len = w.len]
      BY <1>3 DEF FxPublished
    <2> HIDE DEF w, x
    <2>3. e[p] \in Entry /\ e[p].file # Nobody /\ w.len = sz[e[p].file]
      BY <1>1, <2>1
    <2>4. e[p].kind = "file" /\ e[p].file \in Files
      BY <2>3, EntryFacts
    <2>5. w.len \in 0 .. MaxLen
      BY <1>1, <2>3, <2>4
    <2> QED BY <2>2, <2>3, <2>4, <2>5, EntryFacts
  <1>4. \A p \in Paths : /\ x[p] \in Entry /\ x[p].kind = e[p].kind /\ x[p].file = e[p].file
    <2> SUFFICES ASSUME NEW p \in Paths
                 PROVE  x[p] \in Entry /\ x[p].kind = e[p].kind /\ x[p].file = e[p].file
      OBVIOUS
    <2>1. CASE \E h \in handles : h.mode = "write" /\ h.file = e[p].file
      <3>1. e[p].kind = "file" /\ x[p] = Regular(e[p].file, sz[e[p].file])
        BY <1>3, <2>1
      <3> HIDE DEF x
      <3>2. e[p] \in Entry
        BY <1>1
      <3>3. e[p].file \in Files /\ sz[e[p].file] \in 0 .. MaxLen
        BY <1>1, <3>1, <3>2, EntryFacts
      <3> QED BY <3>1, <3>3 DEF Regular, Entry
    <2>2. CASE ~\E h \in handles : h.mode = "write" /\ h.file = e[p].file
      BY <1>1, <1>2, <2>2
    <2> QED BY <2>1, <2>2
  <1>5. x = [p \in Paths |-> x[p]]
    BY DEF FxPublished
  <1> HIDE DEF x
  <1>6. x \in [Paths -> Entry]
    BY <1>4, <1>5
  <1>7. SameNames(x, e)
    BY <1>4, <1>6 DEF SameNames
  <1> QED BY <1>2, <1>3, <1>7 DEF x

\* A slot looks at the volume at one path only, and at one length.
LEMMA SlotElsewhere ==
    ASSUME NEW h, NEW w, NEW e, NEW sz, SlotAt(h, w, e, sz), NEW x, NEW z,
           w \in Paths => x[w].file = e[w].file \/ (h.mode = "closed" /\ h.opened = Nobody),
           h.mode = "write" => z[h.file] = sz[h.file]
    PROVE  SlotAt(h, w, x, z)
  <1>1. CASE h.allocated
    BY <1>1 DEF SlotAt
  <1>2. CASE h = FreeSlot
    BY <1>2 DEF SlotAt, FreeSlot
  <1> QED BY <1>1, <1>2 DEF SlotAt

\* Publishing some handles keeps everything.
LEMMA PublishingKeeps ==
    ASSUME NEW e, NEW md, NEW d, NEW sz, NEW files, Calm(e, md, d, sz, files),
           NEW x, SameNames(x, e),
           \A p \in Paths : \/ x[p] = e[p]
                            \/ e[p].kind = "file" /\ x[p] = Regular(e[p].file, sz[e[p].file])
    PROVE  Calm(x, md, d, sz, files)
  <1>1. Tree(x) /\ OneName(x) /\ x \in [Paths -> Entry]
    BY SameNamesKeep DEF Calm, Volumes, SameNames
  <1>2. Lengths(x, d, sz)
    BY DEF Calm, Volumes, Lengths, SameNames, Regular
  <1>3. Settles(x, md, sz, files)
    <2> SUFFICES ASSUME NEW o \in files
                 PROVE  \E p \in Paths : md[p] = Regular(o, sz[o]) /\ x[p] = md[p]
      BY DEF Settles
    <2>1. PICK p \in Paths : md[p] = Regular(o, sz[o]) /\ e[p] = md[p]
      BY DEF Calm, Volumes, Settles
    <2>2. e[p].file = o
      BY <2>1 DEF Regular
    <2> QED BY <2>1, <2>2
  <1>4. ASSUME NEW f \in Fds PROVE SlotAt(d[f], d[f].path, x, sz)
    <2>1. SlotAt(d[f], d[f].path, e, sz)
      BY DEF Calm
    <2> QED BY <2>1, SlotElsewhere DEF SameNames
  <1> QED BY <1>1, <1>2, <1>3, <1>4 DEF Calm, Volumes

\* A flush makes every file as long as it should be, on the medium too.
LEMMA FlushingKeeps ==
    ASSUME NEW e, NEW md, NEW d, NEW sz, NEW files, Calm(e, md, d, sz, files),
           NEW x, SameNames(x, e), NEW more, more \subseteq files \cup Held(e),
           \A p \in Paths : e[p].kind = "file" => x[p] = Regular(e[p].file, sz[e[p].file]),
           \A p \in Paths : e[p].kind # "file" => x[p] = e[p]
    PROVE  Calm(x, x, d, sz, more)
  <1>1. Calm(x, md, d, sz, files)
    BY PublishingKeeps
  <1>2. \A p \in Paths : e[p] \in Entry
    BY DEF Calm, Volumes
  <1>3. ASSUME NEW o \in more PROVE o \in Files /\ \E p \in Paths : e[p].file = o /\ e[p].kind = "file"
    <2>1. CASE o \in files
      <3>1. PICK p \in Paths : md[p] = Regular(o, sz[o]) /\ e[p] = md[p]
        BY <2>1 DEF Calm, Volumes, Settles
      <3> QED BY <2>1, <3>1 DEF Calm, Volumes, Regular
    <2>2. CASE o \in Held(e)
      <3>1. PICK p \in Paths : e[p].file = o /\ o # Nobody
        BY <2>2 DEF Held
      <3> QED BY <1>2, <3>1, EntryFacts
    <2> QED BY <2>1, <2>2
  <1>4. Settles(x, x, sz, more)
    <2> SUFFICES ASSUME NEW o \in more PROVE \E p \in Paths : x[p] = Regular(o, sz[o])
      BY DEF Settles
    <2>1. PICK p \in Paths : e[p].file = o /\ e[p].kind = "file"
      BY <1>3
    <2> QED BY <2>1
  <1> QED BY <1>1, <1>3, <1>4 DEF Calm, Volumes

LEMMA FewerSettled ==
    ASSUME NEW e, NEW md, NEW d, NEW sz, NEW files, Calm(e, md, d, sz, files),
           NEW less, less \subseteq files
    PROVE  Calm(e, md, d, sz, less)
  BY DEF Calm, Volumes, Settles

\* A descriptor without a handle, in place of one with nothing to lose.
LEMMA DroppingKeeps ==
    ASSUME NEW e, NEW md, NEW d, NEW sz, NEW files, Calm(e, md, d, sz, files),
           NEW f \in Fds, d[f].mode = "write" => e[d[f].path].len = sz[d[f].file],
           NEW k \in Slot, k.mode = "closed", SlotAt(k, k.path, e, sz)
    PROVE  Calm(e, md, [d EXCEPT ![f] = k], sz, files)
  <1> DEFINE c == [d EXCEPT ![f] = k]
  <1>1. d \in [Fds -> Slot] /\ c \in [Fds -> Slot] /\ c[f] = k /\ \A g \in Fds \ {f} : c[g] = d[g]
    BY DEF Calm, Volumes
  <1> HIDE DEF c
  <1>2. Writers(c)
    BY <1>1 DEF Calm, Volumes, Writers
  <1>3. Lengths(e, c, sz)
    <2> SUFFICES ASSUME NEW p \in Paths, e[p].kind = "file"
                 PROVE  e[p].len = sz[e[p].file] \/ Written(c, e[p].file)
      BY DEF Lengths
    <2>1. e[p].len = sz[e[p].file] \/ \E g \in Fds : d[g].mode = "write" /\ d[g].file = e[p].file
      BY DEF Calm, Volumes, Lengths, Written
    <2>2. ASSUME d[f].mode = "write", d[f].file = e[p].file PROVE e[p].len = sz[e[p].file]
      <3>1. SlotAt(d[f], d[f].path, e, sz)
        BY DEF Calm
      <3>2. d[f].path \in Paths /\ e[d[f].path].file = e[p].file /\ e[p].file # Nobody
        BY <2>2, <3>1 DEF SlotAt, FreeSlot
      <3>3. d[f].path = p
        BY <3>2 DEF Calm, Volumes, OneName
      <3> QED BY <2>2, <3>3
    <2> QED BY <1>1, <2>1, <2>2 DEF Written
  <1>4. \A g \in Fds : SlotAt(c[g], c[g].path, e, sz)
    BY <1>1 DEF Calm
  <1> QED BY <1>1, <1>2, <1>3, <1>4 DEF Calm, Volumes, c

\* A close that fails: the length the entry has is the length of the file now.
LEMMA LosingKeeps ==
    ASSUME NEW e, NEW md, NEW d, NEW sz, NEW files, Calm(e, md, d, sz, files),
           NEW f \in Fds, d[f].mode = "write",
           NEW k \in Slot, k.mode = "closed", SlotAt(k, k.path, e, sz)
    PROVE  LET o == d[f].file  z == [sz EXCEPT ![o] = e[d[f].path].len] IN
           /\ Calm(e, md, [d EXCEPT ![f] = k], z, files \ {o})
           /\ z = sz => Calm(e, md, [d EXCEPT ![f] = k], sz, files)
  <1> DEFINE o == d[f].file
             z == [sz EXCEPT ![o] = e[d[f].path].len]
             c == [d EXCEPT ![f] = k]
  <1>1. d \in [Fds -> Slot] /\ c \in [Fds -> Slot] /\ c[f] = k /\ \A g \in Fds \ {f} : c[g] = d[g]
    BY DEF Calm, Volumes
  <1>2. SlotAt(d[f], d[f].path, e, sz)
    BY DEF Calm
  <1>3. d[f].path \in Paths /\ o # Nobody /\ e[d[f].path].file = o
    BY <1>2 DEF SlotAt, FreeSlot
  <1>4. e[d[f].path] \in Entry /\ sz \in [Files -> 0 .. MaxLen]
    BY <1>3 DEF Calm, Volumes
  <1>5. o \in Files /\ e[d[f].path].len \in 0 .. MaxLen
    BY <1>3, <1>4, EntryFacts
  <1>6. z \in [Files -> 0 .. MaxLen] /\ z[o] = e[d[f].path].len /\ \A q : q # o => z[q] = sz[q]
    BY <1>4, <1>5
  <1> HIDE DEF c, z
  <1>7. Writers(c)
    BY <1>1 DEF Calm, Volumes, Writers
  <1>8. Lengths(e, c, z)
    <2> SUFFICES ASSUME NEW p \in Paths, e[p].kind = "file"
                 PROVE  e[p].len = z[e[p].file] \/ Written(c, e[p].file)
      BY DEF Lengths
    <2>1. e[p].len = sz[e[p].file] \/ \E g \in Fds : d[g].mode = "write" /\ d[g].file = e[p].file
      BY DEF Calm, Volumes, Lengths, Written
    <2>2. CASE e[p].file = o
      <3>1. d[f].path = p
        BY <1>3, <2>2 DEF Calm, Volumes, OneName
      <3> QED BY <1>6, <2>2, <3>1
    <2>3. CASE e[p].file # o
      BY <1>1, <1>6, <2>1, <2>3 DEF Written
    <2> QED BY <2>2, <2>3
  <1>9. Settles(e, md, z, files \ {o})
    BY <1>6 DEF Calm, Volumes, Settles
  <1>10. ASSUME NEW g \in Fds PROVE SlotAt(c[g], c[g].path, e, z)
    <2>1. CASE g = f
      BY <1>1, <2>1, SlotElsewhere
    <2>2. CASE g # f
      <3>1. SlotAt(d[g], d[g].path, e, sz) /\ c[g] = d[g]
        BY <1>1, <2>2 DEF Calm
      <3>2. d[g].mode = "write" => d[g].file # o
        BY <2>2 DEF Calm, Volumes, Writers
      <3> QED BY <1>6, <3>1, <3>2, SlotElsewhere
    <2> QED BY <2>1, <2>2
  <1>11. Calm(e, md, c, z, files \ {o})
    BY <1>1, <1>6, <1>7, <1>8, <1>9, <1>10 DEF Calm, Volumes
  <1>12. z = sz => Calm(e, md, c, sz, files)
    BY <1>6, DroppingKeeps DEF c
  <1> QED BY <1>11, <1>12 DEF c, z

\* A handle that is opened on the entry at the descriptor's path.
LEMMA OpeningKeeps ==
    ASSUME NEW e, NEW md, NEW d, NEW sz, NEW files, Calm(e, md, d, sz, files),
           NEW f \in Fds, d[f].mode = "closed", d[f].allocated, NEW mode \in {"read", "write"},
           e[d[f].path].kind = "file",
           mode = "write" => /\ e[d[f].path].len = sz[e[d[f].path].file]
                             /\ \A g \in Fds \ {f} : d[g].mode = "write" => d[g].file # e[d[f].path].file
    PROVE  Calm(e, md, [d EXCEPT ![f] = [d[f] EXCEPT !.mode = mode, !.file = e[d[f].path].file,
                                                     !.len = e[d[f].path].len]], sz, files)
  <1> DEFINE o == e[d[f].path].file
             k == [d[f] EXCEPT !.mode = mode, !.file = o, !.len = e[d[f].path].len]
             c == [d EXCEPT ![f] = k]
  <1>1. d[f] \in Slot /\ d[f].path \in Paths /\ e[d[f].path] \in Entry /\ SlotAt(d[f], d[f].path, e, sz)
    BY DEF Calm, Volumes, SlotAt
  <1>2. o \in Files /\ o # Nobody /\ e[d[f].path].len \in 0 .. MaxLen
    BY <1>1, EntryFacts
  <1>3. /\ k \in Slot /\ k.allocated /\ k.path = d[f].path /\ k.mode = mode /\ k.file = o
        /\ k.len = e[d[f].path].len /\ k.opened = d[f].opened
    BY <1>1, <1>2 DEF Slot
  <1> HIDE DEF k
  <1>4. d \in [Fds -> Slot] /\ c \in [Fds -> Slot] /\ c[f] = k /\ \A g \in Fds \ {f} : c[g] = d[g]
    BY <1>3 DEF Calm, Volumes
  <1> HIDE DEF c
  <1>5. Writers(c)
    BY <1>3, <1>4 DEF Calm, Volumes, Writers
  <1>6. Lengths(e, c, sz)
    BY <1>3, <1>4 DEF Calm, Volumes, Lengths, Written
  <1>7. SlotAt(k, k.path, e, sz)
    BY <1>1, <1>2, <1>3 DEF SlotAt
  <1>8. \A g \in Fds : SlotAt(c[g], c[g].path, e, sz)
    BY <1>4, <1>7 DEF Calm
  <1> QED BY <1>4, <1>5, <1>6, <1>8 DEF Calm, Volumes, c, k

\* A new length reaches the open handles of the file, and nothing else of a slot.
LEMMA ResizedSlots ==
    ASSUME NEW d \in [Fds -> Slot], NEW o, NEW n \in 0 .. MaxLen
    PROVE  /\ FxResized(d, o, n) \in [Fds -> Slot]
           /\ \A g \in Fds :
                LET k == FxResized(d, o, n)[g] IN
                /\ k.allocated = d[g].allocated /\ k.path = d[g].path /\ k.mode = d[g].mode
                /\ k.file = d[g].file /\ k.opened = d[g].opened
                /\ d[g].mode # "closed" /\ d[g].file = o => k.len = n
                /\ d[g].mode = "closed" \/ d[g].file # o => k = d[g]
  <1> DEFINE c == FxResized(d, o, n)
  <1>1. \A g \in Fds : c[g] = IF d[g].mode # "closed" /\ d[g].file = o
                              THEN [d[g] EXCEPT !.len = n] ELSE d[g]
    BY DEF FxResized
  <1>2. ASSUME NEW g \in Fds
        PROVE  /\ [d[g] EXCEPT !.len = n] \in Slot
               /\ [d[g] EXCEPT !.len = n].allocated = d[g].allocated
               /\ [d[g] EXCEPT !.len = n].path = d[g].path /\ [d[g] EXCEPT !.len = n].mode = d[g].mode
               /\ [d[g] EXCEPT !.len = n].file = d[g].file /\ [d[g] EXCEPT !.len = n].len = n
               /\ [d[g] EXCEPT !.len = n].opened = d[g].opened
    BY DEF Slot
  <1>3. c \in [Fds -> Slot]
    <2>1. \A g \in Fds : c[g] \in Slot
      BY <1>1, <1>2
    <2> QED BY <2>1 DEF FxResized
  <1> HIDE DEF c
  <1>4. \A g \in Fds :
                /\ c[g].allocated = d[g].allocated /\ c[g].path = d[g].path /\ c[g].mode = d[g].mode
                /\ c[g].file = d[g].file /\ c[g].opened = d[g].opened
                /\ d[g].mode # "closed" /\ d[g].file = o => c[g].len = n
                /\ d[g].mode = "closed" \/ d[g].file # o => c[g] = d[g]
    BY <1>1, <1>2
  <1> QED BY <1>3, <1>4 DEF c

\* A write or a truncation changes the length of the file with those of its handles.
LEMMA ResizingKeeps ==
    ASSUME NEW e, NEW md, NEW d, NEW sz, NEW files, Calm(e, md, d, sz, files),
           NEW f \in Fds, d[f].mode = "write", NEW n \in 0 .. MaxLen
    PROVE  Calm(e, md, FxResized(d, d[f].file, n), [sz EXCEPT ![d[f].file] = n],
                files \ {d[f].file})
  <1> DEFINE o == d[f].file
             c == FxResized(d, o, n)
             z == [sz EXCEPT ![o] = n]
  <1>1. /\ d \in [Fds -> Slot] /\ d[f] \in Slot /\ SlotAt(d[f], d[f].path, e, sz)
        /\ sz \in [Files -> 0 .. MaxLen]
    BY DEF Calm, Volumes
  <1>2. o # Nobody /\ o \in Files
    BY <1>1 DEF SlotAt, FreeSlot, Slot
  <1>3. z \in [Files -> 0 .. MaxLen] /\ z[o] = n /\ \A q : q # o => z[q] = sz[q]
    BY <1>1, <1>2
  <1>4. /\ c \in [Fds -> Slot]
        /\ \A g \in Fds :
             /\ c[g].allocated = d[g].allocated /\ c[g].path = d[g].path /\ c[g].mode = d[g].mode
             /\ c[g].file = d[g].file /\ c[g].opened = d[g].opened
             /\ d[g].mode # "closed" /\ d[g].file = o => c[g].len = n
             /\ d[g].mode = "closed" \/ d[g].file # o => c[g] = d[g]
    BY <1>1, ResizedSlots
  <1> HIDE DEF c, z
  <1>5. Writers(c)
    BY <1>4 DEF Calm, Volumes, Writers
  <1>6. Lengths(e, c, z)
    <2> SUFFICES ASSUME NEW p \in Paths, e[p].kind = "file"
                 PROVE  e[p].len = z[e[p].file] \/ Written(c, e[p].file)
      BY DEF Lengths
    <2>1. e[p].len = sz[e[p].file] \/ \E g \in Fds : d[g].mode = "write" /\ d[g].file = e[p].file
      BY DEF Calm, Volumes, Lengths, Written
    <2>2. CASE e[p].file = o
      BY <1>4, <2>2 DEF Written
    <2>3. CASE e[p].file # o
      BY <1>3, <1>4, <2>1, <2>3 DEF Written
    <2> QED BY <2>2, <2>3
  <1>7. Settles(e, md, z, files \ {o})
    BY <1>3 DEF Calm, Volumes, Settles
  <1>8. ASSUME NEW g \in Fds PROVE SlotAt(c[g], c[g].path, e, z)
    <2>1. SlotAt(d[g], d[g].path, e, sz)
      BY DEF Calm
    <2>2. CASE d[g].mode # "closed" /\ d[g].file = o
      <3>1. d[g].allocated
        BY <2>1, <2>2 DEF SlotAt, FreeSlot
      <3> QED BY <1>3, <1>4, <2>1, <2>2, <3>1 DEF SlotAt
    <2>3. CASE d[g].mode = "closed" \/ d[g].file # o
      <3>1. c[g] = d[g] /\ (d[g].mode = "write" => z[d[g].file] = sz[d[g].file])
        BY <1>3, <1>4, <2>3
      <3> QED BY <2>1, <3>1, SlotElsewhere
    <2> QED BY <2>2, <2>3
  <1> QED BY <1>3, <1>4, <1>5, <1>6, <1>7, <1>8 DEF Calm, Volumes, c, z

\* A new entry in a directory, and one less with nothing below it.
LEMMA AddedTree ==
    ASSUME NEW e, Tree(e), e \in [Paths -> Entry], NEW p \in Paths, e[p].kind = "none", NEW v \in Entry,
           Parent(p) = <<>> \/ (Parent(p) \in Paths /\ e[Parent(p)].kind = "dir")
    PROVE  Tree([e EXCEPT ![p] = v])
  <1> DEFINE x == [e EXCEPT ![p] = v]
  <1>1. \A q \in Paths : q # p => x[q] = e[q]
    OBVIOUS
  <1> HIDE DEF x
  <1> SUFFICES ASSUME NEW q \in Paths, NEW r \in Paths, x[q].kind # "none", Below(q, r), q # r
               PROVE  x[r].kind = "dir"
    BY DEF Tree, x
  <1>2. CASE q # p
    <2>1. e[r].kind = "dir"
      BY <1>1, <1>2 DEF Tree
    <2>2. r # p
      BY <2>1
    <2> QED BY <1>1, <2>1, <2>2
  <1>3. CASE q = p
    <2>1. Below(Parent(p), r) /\ Parent(p) \in Paths \cup {<<>>}
      BY <1>3, PathParent
    <2>2. r # <<>> /\ Parent(p) # <<>>
      <3>1. r # <<>>
        BY ConstantsAssumption DEF ConstantsAssumption
      <3>2. Below(r, <<>>) /\ (Below(<<>>, r) => r = <<>>)
        BY PathOrder
      <3> QED BY <2>1, <3>1, <3>2
    <2>3. e[r].kind = "dir"
      BY <2>1, <2>2 DEF Tree
    <2> QED BY <1>1, <1>3, <2>3
  <1> QED BY <1>2, <1>3

LEMMA RemovedTree ==
    ASSUME NEW e, Tree(e), e \in [Paths -> Entry], NEW p \in Paths,
           \A q \in Paths : Below(q, p) /\ q # p => e[q].kind = "none"
    PROVE  Tree([e EXCEPT ![p] = Absent])
  BY DEF Tree, Absent

\* Entries that are not files come and go.
LEMMA PlacingKeeps ==
    ASSUME NEW e, NEW md, NEW d, NEW sz, NEW files, Calm(e, md, d, sz, files),
           NEW p \in Paths, e[p].kind # "file", NEW v \in {Absent, Directory},
           Tree([e EXCEPT ![p] = v])
    PROVE  Calm([e EXCEPT ![p] = v], md, d, sz, files)
  <1> DEFINE x == [e EXCEPT ![p] = v]
  <1>1. e \in [Paths -> Entry]
    BY DEF Calm, Volumes
  <1>2. e[p].file = Nobody /\ e[p].kind \in {"none", "dir"}
    BY <1>1, EntryFacts
  <1>3. v \in Entry /\ v.file = Nobody /\ v.kind \in {"none", "dir"}
    BY DEF Entry, Absent, Directory
  <1>4. /\ x \in [Paths -> Entry] /\ \A q \in Paths : x[q].file = e[q].file
        /\ \A q \in Paths : e[q].kind = "file" \/ x[q].kind = "file" => x[q] = e[q]
    BY <1>1, <1>2, <1>3
  <1> HIDE DEF x
  <1>5. OneName(x) /\ Lengths(x, d, sz)
    BY <1>4 DEF Calm, Volumes, OneName, Lengths
  <1>6. Settles(x, md, sz, files)
    <2> SUFFICES ASSUME NEW o \in files
                 PROVE  \E q \in Paths : md[q] = Regular(o, sz[o]) /\ x[q] = md[q]
      BY DEF Settles
    <2>1. PICK q \in Paths : md[q] = Regular(o, sz[o]) /\ e[q] = md[q]
      BY DEF Calm, Volumes, Settles
    <2>2. e[q].kind = "file"
      BY <2>1 DEF Regular
    <2> QED BY <1>4, <2>1, <2>2
  <1>7. ASSUME NEW f \in Fds PROVE SlotAt(d[f], d[f].path, x, sz)
    BY <1>4, SlotElsewhere DEF Calm
  <1>8. Tree(x)
    BY DEF x
  <1> QED BY <1>4, <1>5, <1>6, <1>7, <1>8 DEF Calm, Volumes, x

\* A file is created where nothing was, empty.
LEMMA CreatingKeeps ==
    ASSUME NEW e, NEW md, NEW d, NEW sz, NEW files, Calm(e, md, d, sz, files),
           NEW p \in Paths, e[p].kind = "none", NEW o \in Files, o \notin Held(e), o \notin files,
           Parent(p) = <<>> \/ (Parent(p) \in Paths /\ e[Parent(p)].kind = "dir")
    PROVE  Calm([e EXCEPT ![p] = Regular(o, 0)], md, d, [sz EXCEPT ![o] = 0], files)
  <1> DEFINE v == Regular(o, 0)
             x == [e EXCEPT ![p] = v]
             z == [sz EXCEPT ![o] = 0]
  <1>1. /\ e \in [Paths -> Entry] /\ sz \in [Files -> 0 .. MaxLen] /\ 0 \in 0 .. MaxLen
        /\ o # Nobody /\ Tree(e) /\ d \in [Fds -> Slot]
    BY ConstantsAssumption DEF ConstantsAssumption, Calm, Volumes
  <1>2. v \in Entry /\ v.file = o /\ v.len = 0 /\ v.kind = "file"
    BY <1>1 DEF Entry, Regular
  <1> HIDE DEF v
  <1>3. Tree(x)
    BY <1>1, <1>2, AddedTree
  <1>4. /\ x \in [Paths -> Entry] /\ x[p] = v /\ \A q \in Paths : q # p => x[q] = e[q]
        /\ z \in [Files -> 0 .. MaxLen] /\ z[o] = 0 /\ \A q : q # o => z[q] = sz[q]
    BY <1>1, <1>2
  <1> HIDE DEF x, z
  <1>5. \A q \in Paths : e[q].file # o
    BY <1>1 DEF Held
  <1>6. OneName(x)
    BY <1>2, <1>4, <1>5 DEF Calm, Volumes, OneName
  <1>7. Lengths(x, d, z)
    <2> SUFFICES ASSUME NEW q \in Paths, x[q].kind = "file"
                 PROVE  x[q].len = z[x[q].file] \/ Written(d, x[q].file)
      BY DEF Lengths
    <2>1. CASE q = p
      BY <1>2, <1>4, <2>1
    <2>2. CASE q # p
      BY <1>4, <1>5, <2>2 DEF Calm, Volumes, Lengths
    <2> QED BY <2>1, <2>2
  <1>8. Settles(x, md, z, files)
    <2> SUFFICES ASSUME NEW u \in files
                 PROVE  \E q \in Paths : md[q] = Regular(u, z[u]) /\ x[q] = md[q]
      BY DEF Settles
    <2>1. PICK q \in Paths : md[q] = Regular(u, sz[u]) /\ e[q] = md[q]
      BY DEF Calm, Volumes, Settles
    <2>2. q # p
      BY <2>1 DEF Regular
    <2>3. z[u] = sz[u]
      BY <1>4
    <2> QED BY <1>4, <2>1, <2>2, <2>3
  <1>9. ASSUME NEW f \in Fds PROVE SlotAt(d[f], d[f].path, x, z)
    <2>1. SlotAt(d[f], d[f].path, e, sz)
      BY DEF Calm
    <2>2. e[p].file = Nobody
      BY <1>1, EntryFacts
    <2>3. d[f].mode = "write" => d[f].path \in Paths /\ d[f].file = e[d[f].path].file
      BY <2>1 DEF SlotAt, FreeSlot
    <2>4. d[f].path = p => d[f].mode = "closed" /\ d[f].opened = Nobody
      BY <2>1, <2>2 DEF SlotAt
    <2> QED BY <1>4, <1>5, <2>1, <2>3, <2>4, SlotElsewhere
  <1> QED BY <1>3, <1>4, <1>6, <1>7, <1>8, <1>9 DEF Calm, Volumes, x, z, v

\* unlink: a file without an open handle goes, and its descriptors forget it.
LEMMA UnlinkingKeeps ==
    ASSUME NEW e, NEW md, NEW d, NEW sz, NEW files, Calm(e, md, d, sz, files),
           NEW p \in Paths, e[p].kind = "file",
           \A f \in Fds : d[f].mode # "closed" => d[f].file # e[p].file
    PROVE  Calm([e EXCEPT ![p] = Absent], md,
                [f \in Fds |-> IF d[f].allocated /\ d[f].path = p
                               THEN [d[f] EXCEPT !.opened = Nobody, !.file = Nobody] ELSE d[f]],
                sz, files \ {e[p].file})
  <1> DEFINE x == [e EXCEPT ![p] = Absent]
             c == [f \in Fds |-> IF d[f].allocated /\ d[f].path = p
                                 THEN [d[f] EXCEPT !.opened = Nobody, !.file = Nobody] ELSE d[f]]
  <1>1. e \in [Paths -> Entry] /\ sz \in [Files -> 0 .. MaxLen] /\ Tree(e) /\ d \in [Fds -> Slot]
    BY DEF Calm, Volumes
  <1>2. \A q \in Paths : Below(q, p) /\ q # p => e[q].kind = "none"
    BY <1>1 DEF Tree
  <1>3. Tree(x)
    BY <1>1, <1>2, RemovedTree
  <1>4. x \in [Paths -> Entry] /\ x[p] = Absent /\ \A q \in Paths : q # p => x[q] = e[q]
    BY <1>1 DEF Entry
  <1>5. ASSUME NEW f \in Fds
        PROVE  /\ c[f] \in Slot /\ c[f].mode = d[f].mode /\ c[f].path = d[f].path
               /\ c[f].mode # "closed" => c[f] = d[f] /\ d[f].path # p
               /\ SlotAt(c[f], c[f].path, x, sz)
    <2>1. d[f] \in Slot /\ SlotAt(d[f], d[f].path, e, sz)
      BY <1>1 DEF Calm
    <2>2. CASE d[f].allocated /\ d[f].path = p
      <3> DEFINE k == [d[f] EXCEPT !.opened = Nobody, !.file = Nobody]
      <3>1. c[f] = k
        BY <2>2
      <3>2. /\ k \in Slot /\ k.allocated = d[f].allocated /\ k.path = p /\ k.mode = d[f].mode
            /\ k.opened = Nobody
        BY <2>1, <2>2 DEF Slot
      <3> HIDE DEF k, c, x
      <3>3. d[f].mode = "closed"
        BY <2>1, <2>2 DEF SlotAt
      <3>4. SlotAt(k, k.path, x, sz)
        BY <2>1, <2>2, <3>2, <3>3 DEF SlotAt
      <3> QED BY <2>2, <3>1, <3>2, <3>3, <3>4
    <2>3. CASE ~(d[f].allocated /\ d[f].path = p)
      <3>1. c[f] = d[f]
        BY <2>3
      <3> HIDE DEF c, x
      <3>2. d[f].path = p => d[f].mode = "closed" /\ d[f].opened = Nobody
        BY <2>1, <2>3 DEF SlotAt, FreeSlot
      <3>3. SlotAt(d[f], d[f].path, x, sz)
        BY <1>4, <2>1, <3>2, SlotElsewhere
      <3> QED BY <2>1, <3>1, <3>2, <3>3
    <2> QED BY <2>2, <2>3
  <1>6. c \in [Fds -> Slot]
    <2>1. c = [f \in Fds |-> c[f]]
      OBVIOUS
    <2> HIDE DEF c
    <2> QED BY <1>5, <2>1
  <1> HIDE DEF x, c
  <1>7. Writers(c)
    BY <1>5 DEF Calm, Volumes, Writers
  <1>8. OneName(x)
    BY <1>4 DEF Calm, Volumes, OneName, Absent
  <1>9. Lengths(x, c, sz)
    <2> SUFFICES ASSUME NEW q \in Paths, x[q].kind = "file"
                 PROVE  x[q].len = sz[x[q].file] \/ Written(c, x[q].file)
      BY DEF Lengths
    <2>1. q # p /\ x[q] = e[q]
      BY <1>4 DEF Absent
    <2>2. e[q].len = sz[e[q].file] \/ \E g \in Fds : d[g].mode = "write" /\ d[g].file = e[q].file
      BY <2>1 DEF Calm, Volumes, Lengths, Written
    <2> QED BY <1>5, <2>1, <2>2 DEF Written
  <1>10. Settles(x, md, sz, files \ {e[p].file})
    <2> SUFFICES ASSUME NEW u \in files \ {e[p].file}
                 PROVE  \E q \in Paths : md[q] = Regular(u, sz[u]) /\ x[q] = md[q]
      BY DEF Settles
    <2>1. PICK q \in Paths : md[q] = Regular(u, sz[u]) /\ e[q] = md[q]
      BY DEF Calm, Volumes, Settles
    <2>2. q # p
      BY <2>1 DEF Regular
    <2> QED BY <1>4, <2>1, <2>2
  <1> QED BY <1>3, <1>4, <1>5, <1>6, <1>7, <1>8, <1>9, <1>10 DEF Calm, Volumes, x, c

-----------------------------------------------------------------------------
(* switch_mode.                                                             *)

\* A flush with all writers leaves no entry behind its file.
LEMMA FlushedEntries ==
    ASSUME NEW e, NEW md, NEW d, NEW sz, NEW files, Calm(e, md, d, sz, files),
           NEW handles, handles \subseteq Slot,
           \A h \in handles : h.mode = "write" => \E g \in Fds : h = d[g],
           \A g \in Fds : d[g].mode = "write" => d[g] \in handles
    PROVE  LET x == FxPublished(e, handles) IN
           /\ SameNames(x, e)
           /\ \A p \in Paths : e[p].kind = "file" => x[p] = Regular(e[p].file, sz[e[p].file])
           /\ \A p \in Paths : e[p].kind # "file" => x[p] = e[p]
  <1> DEFINE x == FxPublished(e, handles)
  <1>1. \A g \in Fds : d[g] \in Slot /\ SlotAt(d[g], d[g].path, e, sz)
    BY DEF Calm, Volumes
  <1>2. /\ handles \subseteq Slot
        /\ \A h \in handles : h.mode = "write" => h.file # Nobody /\ h.len = sz[h.file]
    BY <1>1 DEF SlotAt
  <1>3. /\ SameNames(x, e)
        /\ \A p \in Paths : \/ x[p] = e[p]
                            \/ e[p].kind = "file" /\ x[p] = Regular(e[p].file, sz[e[p].file])
        /\ \A p \in Paths : (\E h \in handles : h.mode = "write" /\ h.file = e[p].file) =>
                  e[p].kind = "file" /\ x[p] = Regular(e[p].file, sz[e[p].file])
    BY <1>2, Publishing DEF Calm
  <1> HIDE DEF x
  <1>4. ASSUME NEW p \in Paths, e[p].kind = "file"
        PROVE  x[p] = Regular(e[p].file, sz[e[p].file])
    <2>1. e[p].len = sz[e[p].file] \/ \E g \in Fds : d[g].mode = "write" /\ d[g].file = e[p].file
      BY <1>4 DEF Calm, Volumes, Lengths, Written
    <2>2. CASE e[p].len = sz[e[p].file]
      <3>1. e[p] \in Entry
        BY DEF Calm, Volumes
      <3>2. e[p] = Regular(e[p].file, sz[e[p].file])
        BY <1>4, <2>2, <3>1, EntryFacts
      <3> QED BY <1>3, <3>2
    <2>3. CASE \E g \in Fds : d[g].mode = "write" /\ d[g].file = e[p].file
      BY <1>3, <2>3
    <2> QED BY <2>1, <2>2, <2>3
  <1> QED BY <1>3, <1>4 DEF x

\* What a switch of mode returns: a handle in that mode that sees the whole
\* file, or none, and what the handle before had not written is published or lost.
SwitchEnds(f, h, mode, r, e, d, sz, files) ==
    LET c == [d EXCEPT ![f] = r.handle]
        z == [sz EXCEPT ![h.file] = r.entries[h.path].len]
    IN /\ r.ok \in BOOLEAN /\ r.faults \in {0, 1} /\ SameNames(r.entries, e)
       /\ r.handle \in Slot /\ r.handle.path = h.path /\ r.handle.opened = h.opened
       /\ r.handle.allocated /\ r.handle.readable = h.readable /\ r.handle.writable = h.writable
       /\ r.ok => /\ Calm(r.entries, r.media, c, sz, files) /\ r.handle.mode = mode
                  /\ h.mode # mode => /\ r.handle.len = sz[r.handle.file]
                                      /\ r.entries[h.path].len = sz[r.handle.file]
       /\ ~r.ok => /\ r.handle.mode = "closed"
                   /\ h.mode # "write" => Calm(r.entries, r.media, c, sz, files)
                   /\ h.mode = "write" => /\ r.entries[h.path].file = h.file
                                          /\ Calm(r.entries, r.media, c, z, files \ {h.file})
                                          /\ z = sz => Calm(r.entries, r.media, c, sz, files)

LEMMA SwitchKeeps ==
    ASSUME NEW f \in Fds, NEW h, NEW e, NEW d, NEW sz, NEW files,
           descriptors \in [Fds -> Slot], d = [descriptors EXCEPT ![f] = h],
           Calm(e, media, d, sz, files), h.allocated,
           NEW mode \in {"read", "write"}, NEW r \in Switched(f, h, e, mode)
    PROVE  SwitchEnds(f, h, mode, r, e, d, sz, files)
  <1> DEFINE others == {descriptors[g] : g \in Fds \ {f}}
             shut == [h EXCEPT !.mode = "closed"]
             closed == FxPublished(e, {h})
             stale == StaleEntry(others, h, mode)
             fresh == IF stale THEN FxPublished(closed, others) ELSE closed
             flushed == IF stale THEN fresh ELSE media
             c == [d EXCEPT ![f] = shut]
             opened == [shut EXCEPT !.mode = mode, !.file = fresh[h.path].file, !.len = fresh[h.path].len]
  <1>1. /\ d[f] = h /\ h \in Slot /\ SlotAt(h, h.path, e, sz) /\ h.path \in Paths
        /\ \A g \in Fds \ {f} : d[g] = descriptors[g]
        /\ d \in [Fds -> Slot] /\ e \in [Paths -> Entry] /\ Tree(e) /\ OneName(e)
        /\ e[h.path] \in Entry
    BY DEF Calm, Volumes, SlotAt
  <1>2. /\ shut \in Slot /\ shut.path = h.path /\ shut.opened = h.opened /\ shut.allocated
        /\ shut.readable = h.readable /\ shut.writable = h.writable /\ shut.mode = "closed"
    BY <1>1 DEF Slot
  <1>3. /\ SameNames(closed, e)
        /\ \A p \in Paths : \/ closed[p] = e[p]
                            \/ e[p].kind = "file" /\ closed[p] = Regular(e[p].file, sz[e[p].file])
        /\ \A p \in Paths : h.mode = "write" /\ h.file = e[p].file => closed[p] = Regular(e[p].file, sz[e[p].file])
    <2>1. \A k \in {h} : k.mode = "write" => k.file # Nobody /\ k.len = sz[k.file]
      BY <1>1 DEF SlotAt
    <2>2. {h} \subseteq Slot /\ Volumes(e, media, d, sz, files)
      BY <1>1 DEF Calm
    <2> QED BY <2>1, <2>2, Publishing
  <1> HIDE DEF closed, shut
  <1>4. Calm(closed, media, d, sz, files)
    BY <1>3, PublishingKeeps
  <1>5. h.mode = "write" => closed[h.path].len = sz[h.file]
    <2>1. h.mode = "write" => e[h.path].file = h.file
      BY <1>1 DEF SlotAt
    <2>2. h.mode = "write" => closed[h.path] = Regular(h.file, sz[h.file])
      BY <1>1, <1>3, <2>1
    <2> QED BY <2>2 DEF Regular
  <1>6. /\ c \in [Fds -> Slot] /\ c[f] = shut /\ \A g \in Fds \ {f} : c[g] = descriptors[g]
    BY <1>1, <1>2
  <1> HIDE DEF c
  <1>7. ASSUME NEW x, SameNames(x, e) PROVE SlotAt(shut, shut.path, x, sz)
    BY <1>1, <1>2, <1>7 DEF SlotAt, SameNames
  <1>8. Calm(closed, media, c, sz, files)
    BY ZenonT(30), <1>1, <1>2, <1>3, <1>4, <1>5, <1>7, DroppingKeeps DEF c
  <1>9. /\ Calm(fresh, flushed, c, sz, files) /\ SameNames(fresh, e)
        /\ stale => \A p \in Paths : fresh[p].kind = "file" => fresh[p].len = sz[fresh[p].file]
    <2>1. CASE ~stale
      BY <1>3, <1>8, <2>1
    <2>2. CASE stale
      <3>1. others \subseteq Slot /\ (\A k \in others : \E g \in Fds : k = c[g]) /\ \A g \in Fds : c[g].mode = "write" => c[g] \in others
        BY <1>2, <1>6
      <3> HIDE DEF others
      <3> DEFINE x == FxPublished(closed, others)
      <3>2. /\ SameNames(x, closed)
            /\ \A p \in Paths : closed[p].kind = "file" => x[p] = Regular(closed[p].file, sz[closed[p].file])
            /\ \A p \in Paths : closed[p].kind # "file" => x[p] = closed[p]
        BY <1>8, <3>1, FlushedEntries
      <3>3. fresh = x /\ flushed = x
        BY <2>2
      <3> HIDE DEF x
      <3>4. Calm(x, x, c, sz, files)
        BY <1>8, <3>2, FlushingKeeps
      <3>5. SameNames(x, e)
        BY <1>3, <3>2 DEF SameNames
      <3>6. \A p \in Paths : x[p].kind = "file" => x[p].len = sz[x[p].file]
        BY <3>2 DEF SameNames, Regular
      <3> QED BY <3>3, <3>4, <3>5, <3>6
    <2> QED BY <2>1, <2>2
  <1>10. /\ FxMayOpen(fresh, others, h.path, mode) =>
            /\ Calm(fresh, flushed, [d EXCEPT ![f] = opened], sz, files)
            /\ fresh[h.path].len = sz[fresh[h.path].file]
            /\ opened \in Slot /\ opened.path = h.path /\ opened.opened = h.opened /\ opened.allocated
            /\ opened.readable = h.readable /\ opened.writable = h.writable /\ opened.mode = mode
            /\ opened.len = fresh[h.path].len /\ opened.file = fresh[h.path].file
    <2> SUFFICES ASSUME FxMayOpen(fresh, others, h.path, mode)
                 PROVE  /\ Calm(fresh, flushed, [d EXCEPT ![f] = opened], sz, files)
                        /\ fresh[h.path].len = sz[fresh[h.path].file]
                        /\ opened \in Slot /\ opened.path = h.path /\ opened.opened = h.opened /\ opened.allocated
                        /\ opened.readable = h.readable /\ opened.writable = h.writable /\ opened.mode = mode
                        /\ opened.len = fresh[h.path].len /\ opened.file = fresh[h.path].file
      OBVIOUS
    <2> DEFINE o == fresh[h.path].file
    <2>1. /\ fresh[h.path].kind = "file"
          /\ mode = "write" => \A g \in Fds \ {f} : c[g].mode = "write" => c[g].file # o
      BY <1>6 DEF FxMayOpen
    <2>2. mode = "read" /\ ~stale => \A g \in Fds \ {f} : c[g].mode = "write" => c[g].path # h.path
      BY <1>6 DEF StaleEntry
    <2> HIDE DEF fresh, flushed, stale, others
    <2>3. ASSUME NEW g \in Fds, c[g].mode = "write", c[g].file = o, ~stale PROVE FALSE
      <3>1. g # f
        BY <1>2, <1>6, <2>3
      <3>2. SlotAt(c[g], c[g].path, fresh, sz)
        BY <1>9 DEF Calm
      <3>3. c[g].path \in Paths /\ fresh[c[g].path].file = o /\ o # Nobody
        BY <2>3, <3>2 DEF SlotAt, FreeSlot
      <3>4. c[g].path = h.path
        BY <1>1, <1>9, <3>3 DEF Calm, Volumes, OneName
      <3> QED BY <2>1, <2>2, <2>3, <3>1, <3>4
    <2>4. fresh[h.path].len = sz[o]
      <3>1. CASE stale
        BY <1>1, <1>9, <2>1, <3>1
      <3>2. CASE ~stale
        BY <1>1, <1>9, <2>1, <2>3, <3>2 DEF Calm, Volumes, Lengths, Written
      <3> QED BY <3>1, <3>2
    <2>5. Calm(fresh, flushed, [c EXCEPT ![f] = [c[f] EXCEPT !.mode = mode, !.file = fresh[c[f].path].file,
                                                             !.len = fresh[c[f].path].len]], sz, files)
      <3>1. /\ c[f].mode = "closed" /\ c[f].allocated /\ fresh[c[f].path].kind = "file"
            /\ mode = "write" => /\ fresh[c[f].path].len = sz[fresh[c[f].path].file]
                                 /\ \A g \in Fds \ {f} : c[g].mode = "write" => c[g].file # fresh[c[f].path].file
        BY <1>2, <1>6, <2>1, <2>4
      <3>2. Calm(fresh, flushed, c, sz, files)
        BY <1>9
      <3> QED BY <3>1, <3>2, OpeningKeeps
    <2>6. [c EXCEPT ![f] = [c[f] EXCEPT !.mode = mode, !.file = fresh[c[f].path].file,
                                        !.len = fresh[c[f].path].len]] = [d EXCEPT ![f] = opened]
      BY <1>1, <1>2, <1>6 DEF c
    <2>7. o \in Files \cup {Nobody} /\ fresh[h.path].len \in 0 .. MaxLen
      BY <1>1, <1>9, EntryFacts DEF Calm, Volumes
    <2>8. /\ opened \in Slot /\ opened.path = h.path /\ opened.opened = h.opened /\ opened.allocated
          /\ opened.readable = h.readable /\ opened.writable = h.writable /\ opened.mode = mode
          /\ opened.len = fresh[h.path].len /\ opened.file = fresh[h.path].file
      BY <1>2, <2>7 DEF Slot
    <2> QED BY <2>4, <2>5, <2>6, <2>8
  <1>11. ASSUME NEW x, NEW y, SameNames(x, e), Calm(x, y, c, sz, files), h.mode = "write" => x[h.path].len = sz[h.file],
                r = [ok |-> FALSE, entries |-> x, media |-> y, handle |-> shut, faults |-> 0]
                \/ r = [ok |-> FALSE, entries |-> x, media |-> y, handle |-> shut, faults |-> 1]
         PROVE  SwitchEnds(f, h, mode, r, e, d, sz, files)
    <2>1. /\ r.ok = FALSE /\ r.entries = x /\ r.media = y /\ r.handle = shut /\ r.faults \in {0, 1}
      BY <1>11
    <2>2. h.mode = "write" => x[h.path].file = h.file
      BY <1>1, <1>11 DEF SameNames, SlotAt
    <2>3. Calm(x, y, [d EXCEPT ![f] = shut], sz, files)
      BY <1>11 DEF c
    <2>4. h.mode = "write" => [sz EXCEPT ![h.file] = x[h.path].len] = sz
      BY <1>11 DEF Calm, Volumes
    <2>5. Calm(x, y, [d EXCEPT ![f] = shut], sz, files \ {h.file})
      BY <2>3 DEF Calm, Volumes, Settles
    <2> QED BY <1>2, <1>11, <2>1, <2>2, <2>3, <2>4, <2>5 DEF SwitchEnds
  <1>12. /\ h.mode = "write" => fresh[h.path].len = sz[h.file]
    <2>1. h.mode = "write" => fresh[h.path].kind = "file" /\ fresh[h.path].file = h.file
      <3>1. h.mode = "write" => e[h.path].kind = "file" /\ e[h.path].file = h.file
        BY <1>1, EntryFacts DEF SlotAt
      <3> QED BY <1>1, <1>9, <3>1 DEF SameNames
    <2>2. CASE stale
      BY <1>1, <1>9, <2>1, <2>2
    <2>3. CASE ~stale
      BY <1>5, <2>3
    <2> QED BY <2>2, <2>3
  <1>13. SameNames(e, e)
    BY <1>1 DEF SameNames
  <1>14. CASE h.mode = mode /\ r = [ok |-> TRUE, entries |-> e, media |-> media, handle |-> h, faults |-> 0]
    <2>1. r.ok = TRUE /\ r.entries = e /\ r.media = media /\ r.handle = h /\ r.faults = 0
      BY <1>14
    <2>2. [d EXCEPT ![f] = h] = d
      BY <1>1
    <2> QED BY <1>1, <1>13, <1>14, <2>1, <2>2 DEF SwitchEnds
  <1>15. CASE /\ h.mode # mode /\ FxMayOpen(fresh, others, h.path, mode)
              /\ r = [ok |-> TRUE, entries |-> fresh, media |-> flushed, handle |-> opened, faults |-> 0]
    <2> HIDE DEF fresh, flushed, opened, others
    <2>1. r.ok = TRUE /\ r.entries = fresh /\ r.media = flushed /\ r.handle = opened /\ r.faults = 0
      BY <1>15
    <2> QED BY <1>9, <1>10, <1>15, <2>1 DEF SwitchEnds
  <1>16. CASE r = [ok |-> FALSE, entries |-> fresh, media |-> flushed, handle |-> shut, faults |-> 0]
    <2> HIDE DEF fresh, flushed
    <2> QED BY <1>9, <1>11, <1>12, <1>16
  <1>17. CASE r = [ok |-> FALSE, entries |-> closed, media |-> media, handle |-> shut, faults |-> 1]
    BY <1>3, <1>5, <1>8, <1>11, <1>17
  <1>18. CASE h.mode # mode /\ r = [ok |-> FALSE, entries |-> e, media |-> media, handle |-> shut, faults |-> 1]
    <2>1. /\ r.ok = FALSE /\ r.entries = e /\ r.media = media /\ r.handle = shut /\ r.faults = 1
      BY <1>18
    <2>2. SlotAt(shut, shut.path, e, sz)
      BY <1>7, <1>13
    <2>3. h.mode # "write" => Calm(e, media, [d EXCEPT ![f] = shut], sz, files)
      BY <1>1, <1>2, <2>2, DroppingKeeps
    <2>4. h.mode = "write" => e[h.path].file = h.file
      BY <1>1 DEF SlotAt
    <2> DEFINE z == [sz EXCEPT ![h.file] = e[h.path].len]
    <2>5. h.mode = "write" => /\ Calm(e, media, [d EXCEPT ![f] = shut], z, files \ {h.file})
                              /\ z = sz => Calm(e, media, [d EXCEPT ![f] = shut], sz, files)
      BY <1>1, <1>2, <2>2, LosingKeeps
    <2> QED BY <1>2, <1>13, <2>1, <2>3, <2>4, <2>5 DEF SwitchEnds
  <1>19. \/ h.mode = mode /\ r = [ok |-> TRUE, entries |-> e, media |-> media, handle |-> h, faults |-> 0]
         \/ /\ h.mode # mode /\ FxMayOpen(fresh, others, h.path, mode)
            /\ r = [ok |-> TRUE, entries |-> fresh, media |-> flushed, handle |-> opened, faults |-> 0]
         \/ /\ h.mode # mode
            /\ r = [ok |-> FALSE, entries |-> fresh, media |-> flushed, handle |-> shut, faults |-> 0]
         \/ /\ h.mode # mode
            /\ r = [ok |-> FALSE, entries |-> closed, media |-> media, handle |-> shut, faults |-> 1]
         \/ /\ h.mode # mode
            /\ r = [ok |-> FALSE, entries |-> e, media |-> media, handle |-> shut, faults |-> 1]
    BY SMTT(60) DEF Switched, shut, closed
  <1> HIDE DEF fresh, flushed, others, opened, stale
  <1> QED BY <1>14, <1>15, <1>16, <1>17, <1>18, <1>19

LEMMA SwitchFaults ==
    ASSUME NEW f, NEW h, NEW e, NEW mode, NEW r \in Switched(f, h, e, mode)
    PROVE  r.faults \in {0, 1}
  BY SMTT(60) DEF Switched

-----------------------------------------------------------------------------
(* The calls that are one step.                                             *)

LEMMA InvIsCalm ==
    ASSUME FsInv, ~Moving
    PROVE  Calm(entries, media, descriptors, size, settled) /\ IsDir(current_directory)
  BY DEF FsInv, FsVolumes, FsSlots, FsDirectory, Where, Calm

LEMMA CalmIsInv ==
    ASSUME FsTypes', ~Moving', Calm(entries, media, descriptors, size, settled)',
           IsDir(current_directory)', FsRename'
    PROVE  FsInv'
  BY DEF FsInv, FsVolumes, FsSlots, FsDirectory, Where, Calm

LEMMA IdleKeeps ==
    ASSUME FsInv, rename.pc = "idle", rename' = rename, FsTypes',
           Calm(entries, media, descriptors, size, settled)', IsDir(current_directory)'
    PROVE  FsInv'
  <1>1. ~Moving' /\ FsRename'
    BY DEF Moving, FsRename
  <1> QED BY <1>1, CalmIsInv

LEMMA NamesStay ==
    ASSUME IsDir(current_directory), current_directory' = current_directory,
           \A p \in Paths : p = current_directory => entries'[p].kind = entries[p].kind
    PROVE  IsDir(current_directory)'
  BY DEF IsDir

\* A call takes one of the calls, and may take one of the faults.
LEMMA CallTypes ==
    ASSUME FsTypes, Rest, faults' \in {faults, faults + 1}, faults' <= MaxFaults
    PROVE  FsTypes'
  BY ConstantsAssumption DEF ConstantsAssumption, FsTypes, Rest, Called

\* A handle that a call opens sees the whole file.
OpenedCurrent ==
    \A f \in Fds : descriptors[f].mode # descriptors'[f].mode /\ descriptors'[f].mode # "closed"
        => descriptors'[f].len = size'[descriptors'[f].file]

LEMMA NothingOpened ==
    ASSUME \A f \in Fds : descriptors'[f].mode = descriptors[f].mode \/ descriptors'[f].mode = "closed"
    PROVE  OpenedCurrent
  BY DEF OpenedCurrent

LEMMA SwitchStep ==
    ASSUME FsInv, rename.pc = "idle", NEW f \in Fds, descriptors[f].allocated, NEW mode \in {"read", "write"},
           NEW r \in Switched(f, descriptors[f], entries, mode),
           entries' = r.entries, media' = r.media, Rest, faults' \in {faults, faults + 1}, faults' <= MaxFaults,
           \/ r.ok /\ descriptors' = [descriptors EXCEPT ![f] = r.handle] /\ UNCHANGED ghosts
           \/ r.ok /\ mode = "write" /\ \E n \in 0 .. MaxLen : Resized(f, r.handle, n)
           \/ /\ ~r.ok /\ descriptors' = [descriptors EXCEPT ![f] = r.handle]
              /\ size' = SizeAfter(f, r)
              /\ settled' = IF size' = size THEN settled ELSE settled \ {descriptors[f].file}
    PROVE  FsInv' /\ OpenedCurrent
  <1> DEFINE h == descriptors[f]
             c == [descriptors EXCEPT ![f] = r.handle]
  <1>1. ~Moving
    BY DEF Moving
  <1>2. Calm(entries, media, descriptors, size, settled) /\ IsDir(current_directory)
    BY <1>1, InvIsCalm
  <1>3. descriptors \in [Fds -> Slot] /\ [descriptors EXCEPT ![f] = h] = descriptors
    BY <1>2 DEF Calm, Volumes
  <1>4. SwitchEnds(f, h, mode, r, entries, descriptors, size, settled)
    BY <1>2, <1>3, SwitchKeeps
  <1>5. FsTypes'
    BY CallTypes DEF FsInv
  <1>6. IsDir(current_directory)'
    <2>1. SameNames(entries', entries) /\ current_directory' = current_directory
      BY <1>4 DEF SwitchEnds, Rest
    <2> QED BY <1>2, <2>1, NamesStay DEF SameNames
  <1>7. rename' = rename
    BY DEF Rest
  <1>8. ASSUME Calm(entries, media, descriptors, size, settled)' PROVE FsInv'
    BY <1>5, <1>6, <1>7, <1>8, IdleKeeps
  <1>9. /\ c[f] = r.handle /\ \A g \in Fds \ {f} : c[g] = descriptors[g]
        /\ r.handle \in Slot
    BY <1>3, <1>4 DEF SwitchEnds
  <1>10. CASE r.ok /\ descriptors' = c /\ UNCHANGED ghosts
    <2>1. Calm(r.entries, r.media, c, size, settled)
      BY <1>4, <1>10 DEF SwitchEnds
    <2>2. FsInv'
      BY <1>8, <1>10, <2>1 DEF ghosts
    <2>3. h.mode # r.handle.mode => r.handle.len = size[r.handle.file]
      BY <1>4, <1>10 DEF SwitchEnds
    <2>4. OpenedCurrent
      BY <1>9, <1>10, <2>3 DEF OpenedCurrent, ghosts
    <2> QED BY <2>2, <2>4
  <1>11. CASE r.ok /\ mode = "write" /\ \E n \in 0 .. MaxLen : Resized(f, r.handle, n)
    <2>1. PICK n \in 0 .. MaxLen : Resized(f, r.handle, n)
      BY <1>11
    <2>2. Calm(r.entries, r.media, c, size, settled) /\ r.handle.mode = "write"
      BY <1>4, <1>11 DEF SwitchEnds
    <2>3. c[f].mode = "write" /\ c \in [Fds -> Slot]
      BY <1>3, <1>9, <2>2
    <2>4. Calm(r.entries, r.media, FxResized(c, c[f].file, n), [size EXCEPT ![c[f].file] = n],
               settled \ {c[f].file})
      <3> HIDE DEF c
      <3> QED BY <2>2, <2>3, ResizingKeeps
    <2>5. /\ descriptors' = FxResized(c, c[f].file, n)
          /\ size' = [size EXCEPT ![c[f].file] = n] /\ settled' = settled \ {c[f].file}
      BY <1>9, <2>1 DEF Resized
    <2>6. FsInv'
      BY <1>8, <2>4, <2>5
    <2>7. SlotAt(r.handle, r.handle.path, r.entries, size)
      BY <1>9, <2>2 DEF Calm
    <2>8. r.handle.file \in Files /\ size \in [Files -> 0 .. MaxLen]
      BY <1>2, <1>9, <2>2, <2>7 DEF SlotAt, Slot, Calm, Volumes
    <2>9. size'[c[f].file] = n
      BY <1>9, <2>5, <2>8
    <2>10. /\ descriptors'[f].len = n /\ descriptors'[f].file = c[f].file
           /\ \A g \in Fds : descriptors'[g].mode = c[g].mode
      <3> HIDE DEF c
      <3> QED BY <2>3, <2>5, ResizedSlots
    <2> QED BY <1>9, <2>6, <2>9, <2>10 DEF OpenedCurrent
  <1>12. CASE /\ ~r.ok /\ descriptors' = c
              /\ size' = SizeAfter(f, r)
              /\ settled' = IF size' = size THEN settled ELSE settled \ {h.file}
    <2>1. r.handle.mode = "closed"
      BY <1>4, <1>12 DEF SwitchEnds
    <2>2. OpenedCurrent
      BY <1>9, <1>12, <2>1, NothingOpened
    <2>3. CASE h.mode # "write"
      <3>1. size' = size
        BY <1>12, <2>3 DEF SizeAfter
      <3>2. Calm(r.entries, r.media, c, size, settled)
        BY <1>4, <1>12, <2>3 DEF SwitchEnds
      <3> QED BY <1>8, <1>12, <2>2, <3>1, <3>2
    <2>4. CASE h.mode = "write"
      <3> DEFINE z == [size EXCEPT ![h.file] = r.entries[h.path].len]
      <3>1. /\ r.entries[h.path].file = h.file
            /\ Calm(r.entries, r.media, c, z, settled \ {h.file})
            /\ z = size => Calm(r.entries, r.media, c, size, settled)
        BY <1>4, <1>12, <2>4 DEF SwitchEnds
      <3>2. size' = z
        BY <1>12, <2>4, <3>1 DEF SizeAfter
      <3> HIDE DEF z, c
      <3> QED BY <1>8, <1>12, <2>2, <3>1, <3>2
    <2> QED BY <2>3, <2>4
  <1> QED BY <1>10, <1>11, <1>12

LEMMA IdleReady ==
    ASSUME FsInv, NEW f \in Allocated
    PROVE  f \in Fds /\ descriptors[f].allocated /\ faults \in 0 .. MaxFaults /\ MaxFaults \in Nat
  BY ConstantsAssumption DEF ConstantsAssumption, Allocated, FsInv, FsTypes

\* The calls that switch the mode of a descriptor: what the call adds to it.
Switches(f, mode, r) ==
    /\ mode \in {"read", "write"} /\ r \in Switched(f, descriptors[f], entries, mode)
    /\ faults + r.faults <= MaxFaults
    /\ entries' = r.entries /\ media' = r.media
    /\ \/ /\ r.ok /\ (Works \/ Fails)
          /\ descriptors' = [descriptors EXCEPT ![f] = r.handle] /\ UNCHANGED ghosts
       \/ /\ r.ok /\ (Works \/ Fails)
          /\ mode = "write" /\ \E n \in 0 .. MaxLen : Resized(f, r.handle, n)
       \/ /\ ~r.ok /\ descriptors' = [descriptors EXCEPT ![f] = r.handle]
          /\ size' = SizeAfter(f, r)
          /\ settled' = IF size' = size THEN settled ELSE settled \ {descriptors[f].file}
          /\ faults' = faults + r.faults
Calls(f) == f \in Allocated /\ rename.pc = "idle" /\ Rest

LEMMA ReadSwitches ==
    ASSUME NEW f \in Fds, Read(f)
    PROVE  Calls(f) /\ \E r : Switches(f, "read", r)
  <1>1. PICK r \in Switched(f, descriptors[f], entries, "read") :
            /\ faults + r.faults <= MaxFaults
            /\ entries' = r.entries
            /\ media' = r.media
            /\ \/ r.ok /\ descriptors' = [descriptors EXCEPT ![f] = r.handle] /\ UNCHANGED ghosts /\ Works
               \/ /\ ~r.ok /\ descriptors' = [descriptors EXCEPT ![f] = r.handle]
                  /\ size' = SizeAfter(f, r)
                  /\ settled' = IF size' = size THEN settled ELSE settled \ {descriptors[f].file}
                  /\ faults' = faults + r.faults
    BY DEF Read, SwitchThen
  <1>2. Switches(f, "read", r)
    BY <1>1 DEF Switches
  <1> QED BY <1>2 DEF Calls, Read, Ready

LEMMA LseekSwitches ==
    ASSUME NEW f \in Fds, Lseek(f)
    PROVE  Calls(f) /\ \E mode, r : Switches(f, mode, r)
  <1> DEFINE mode == IF descriptors[f].readable THEN "read" ELSE "write"
  <1>1. PICK r \in Switched(f, descriptors[f], entries, mode) :
            /\ faults + r.faults <= MaxFaults
            /\ entries' = r.entries
            /\ media' = r.media
            /\ \/ r.ok /\ descriptors' = [descriptors EXCEPT ![f] = r.handle] /\ UNCHANGED ghosts /\ Works
               \/ /\ ~r.ok /\ descriptors' = [descriptors EXCEPT ![f] = r.handle]
                  /\ size' = SizeAfter(f, r)
                  /\ settled' = IF size' = size THEN settled ELSE settled \ {descriptors[f].file}
                  /\ faults' = faults + r.faults
    BY DEF Lseek, SwitchThen
  <1>2. mode \in {"read", "write"}
    OBVIOUS
  <1> HIDE DEF mode
  <1>3. Switches(f, mode, r)
    BY <1>1, <1>2 DEF Switches
  <1> QED BY <1>2, <1>3 DEF Calls, Lseek, Ready

LEMMA WriteSwitches ==
    ASSUME NEW f \in Fds, Write(f)
    PROVE  Calls(f) /\ \E r : Switches(f, "write", r)
  <1>1. PICK r \in Switched(f, descriptors[f], entries, "write") :
            /\ faults + r.faults <= MaxFaults
            /\ entries' = r.entries
            /\ media' = r.media
            /\ \/ /\ r.ok /\ (Works \/ Fails)
                  /\ \E n \in {r.handle.len, r.handle.len + 1} \cap 1 .. MaxLen : Resized(f, r.handle, n)
               \/ r.ok /\ descriptors' = [descriptors EXCEPT ![f] = r.handle] /\ UNCHANGED ghosts /\ Fails
               \/ /\ ~r.ok /\ descriptors' = [descriptors EXCEPT ![f] = r.handle]
                  /\ size' = SizeAfter(f, r)
                  /\ settled' = IF size' = size THEN settled ELSE settled \ {descriptors[f].file}
                  /\ faults' = faults + r.faults
    BY DEF Write, SwitchThen, NotResized
  <1>2. \A n \in {r.handle.len, r.handle.len + 1} \cap 1 .. MaxLen : n \in 0 .. MaxLen
    BY ConstantsAssumption DEF ConstantsAssumption
  <1>3. Switches(f, "write", r)
    BY <1>1, <1>2 DEF Switches
  <1> QED BY <1>3 DEF Calls, Write, Ready

LEMMA FtruncateSwitches ==
    ASSUME FsInv, NEW f \in Fds, NEW n \in 0 .. MaxLen, Ftruncate(f, n)
    PROVE  Calls(f) /\ \E r : Switches(f, "write", r)
  <1>1. PICK r \in Switched(f, descriptors[f], entries, "write") :
            /\ faults + r.faults <= MaxFaults
            /\ entries' = r.entries
            /\ media' = r.media
            /\ \/ /\ r.ok /\ (Works \/ Fails)
                  /\ \E m \in {n} \cup r.handle.len .. n : Resized(f, r.handle, m)
               \/ r.ok /\ descriptors' = [descriptors EXCEPT ![f] = r.handle] /\ UNCHANGED ghosts /\ Fails
               \/ /\ ~r.ok /\ descriptors' = [descriptors EXCEPT ![f] = r.handle]
                  /\ size' = SizeAfter(f, r)
                  /\ settled' = IF size' = size THEN settled ELSE settled \ {descriptors[f].file}
                  /\ faults' = faults + r.faults
    BY DEF Ftruncate, SwitchThen, NotResized
  <1>2. Calls(f)
    BY DEF Calls, Ftruncate, Ready
  <1>3. r.handle.len \in 0 .. MaxLen
    <2>1. Calm(entries, media, descriptors, size, settled)
      BY <1>2, InvIsCalm DEF Moving, Calls
    <2>2. descriptors \in [Fds -> Slot] /\ [descriptors EXCEPT ![f] = descriptors[f]] = descriptors
      BY <2>1 DEF Calm, Volumes
    <2>3. SwitchEnds(f, descriptors[f], "write", r, entries, descriptors, size, settled)
      BY <1>2, <2>1, <2>2, IdleReady, SwitchKeeps DEF Calls
    <2> QED BY <2>3 DEF SwitchEnds, Slot
  <1>4. \A m \in {n} \cup r.handle.len .. n : m \in 0 .. MaxLen
    BY <1>3, ConstantsAssumption DEF ConstantsAssumption
  <1>5. Switches(f, "write", r)
    BY <1>1, <1>4 DEF Switches
  <1> QED BY <1>2, <1>5

LEMMA CallsSwitch ==
    ASSUME FsInv, NEW f \in Fds,
           \/ Read(f) \/ Lseek(f) \/ Write(f) \/ \E n \in 0 .. MaxLen : Ftruncate(f, n)
    PROVE  Calls(f) /\ \E mode, r : Switches(f, mode, r)
  BY ReadSwitches, LseekSwitches, WriteSwitches, FtruncateSwitches

LEMMA SwitchesFaults ==
    ASSUME FsInv, NEW f \in Fds, Calls(f), NEW mode, NEW r, Switches(f, mode, r)
    PROVE  /\ r.faults \in {0, 1} /\ faults \in 0 .. MaxFaults
           /\ faults' \in {faults, faults + 1} /\ faults' <= MaxFaults
  <1>1. r.faults \in {0, 1}
    BY SwitchFaults DEF Switches
  <1> QED BY <1>1, IdleReady DEF Switches, Calls, Works, Fails

\* _read, _lseek, _write and _ftruncate.
LEMMA CallsStep ==
    ASSUME FsInv, NEW f \in Fds,
           \/ Read(f) \/ Lseek(f) \/ Write(f) \/ \E n \in 0 .. MaxLen : Ftruncate(f, n)
    PROVE  FsInv' /\ OpenedCurrent
  <1>1. PICK mode, r : Switches(f, mode, r) /\ Calls(f)
    BY CallsSwitch
  <1>2. faults' \in {faults, faults + 1} /\ faults' <= MaxFaults
    BY <1>1, SwitchesFaults
  <1>3. /\ mode \in {"read", "write"} /\ r \in Switched(f, descriptors[f], entries, mode)
        /\ entries' = r.entries /\ media' = r.media
    BY <1>1 DEF Switches
  <1>4. rename.pc = "idle" /\ Rest /\ descriptors[f].allocated
    BY <1>1, IdleReady DEF Calls
  <1> QED BY <1>1, <1>2, <1>3, <1>4, SwitchStep DEF Switches

-----------------------------------------------------------------------------
(* _open.                                                                   *)

LEMMA LeastExists ==
    ASSUME NEW S, S \subseteq Nat, S # {}
    PROVE  \E m \in S : \A k \in S : m <= k
  <1>1. PICK m \in S : \A k \in S : ~(<<k, m>> \in OpToRel(<, Nat))
    BY NatLessThanWellFounded, WFMin, Zenon
  <1>2. \A k \in S : ~(k < m)
    BY <1>1 DEF OpToRel
  <1> QED BY <1>2

LEMMA FreeSlotIsFree ==
    /\ FreeSlot \in Slot /\ FreeSlot.mode = "closed" /\ FreeSlot.path = <<>>
    /\ ~FreeSlot.allocated /\ FreeSlot.opened = Nobody
    /\ \A e, sz : SlotAt(FreeSlot, FreeSlot.path, e, sz)
  BY ConstantsAssumption DEF ConstantsAssumption, FreeSlot, Slot, SlotAt

\* The slot that _open fills, on the entry it found or made.
OpenedSlot(p, o, flags) ==
    [FreeSlot EXCEPT !.allocated = TRUE, !.path = p, !.opened = o,
                     !.readable = flags.read, !.writable = flags.write,
                     !.flush_on_close = (entries[p].kind = "none") \/ flags.write]

LEMMA OpenReady ==
    ASSUME FsInv, rename.pc = "idle", NEW p \in Paths \ Backups, NEW flags \in Flags,
           NEW f \in Fds \ Allocated,
           IsDir(Parent(p)), entries[p].kind # "dir",
           NEW o, IF entries[p].kind = "none" THEN o \in Unused ELSE o = entries[p].file
    PROVE  LET new == entries[p].kind = "none"
               e == IF new THEN Creates(p, o) ELSE entries
               sz == IF new THEN [size EXCEPT ![o] = 0] ELSE size
               slot == OpenedSlot(p, o, flags)
           IN /\ Calm(e, media, [descriptors EXCEPT ![f] = slot], sz, settled)
              /\ descriptors[f] = FreeSlot /\ descriptors \in [Fds -> Slot]
              /\ slot.allocated /\ slot.mode = "closed" /\ slot.path = p /\ slot.opened = o
              /\ o \in Files /\ size \in [Files -> 0 .. MaxLen]
              /\ \A q \in Paths : q = current_directory => e[q].kind = entries[q].kind
              /\ IsDir(current_directory)
  <1> DEFINE new == entries[p].kind = "none"
             e == IF new THEN Creates(p, o) ELSE entries
             sz == IF new THEN [size EXCEPT ![o] = 0] ELSE size
             slot == OpenedSlot(p, o, flags)
  <1>1. ~Moving
    BY DEF Moving
  <1>2. Calm(entries, media, descriptors, size, settled) /\ IsDir(current_directory)
    BY <1>1, InvIsCalm
  <1>3. /\ descriptors \in [Fds -> Slot] /\ entries \in [Paths -> Entry] /\ size \in [Files -> 0 .. MaxLen]
        /\ entries[p] \in Entry
    BY <1>2 DEF Calm, Volumes
  <1>4. descriptors[f] = FreeSlot
    BY <1>2 DEF Calm, SlotAt, Allocated
  <1>5. o \in Files /\ o # Nobody
    BY <1>3, EntryFacts DEF Unused
  <1>6. Calm(e, media, descriptors, sz, settled)
    <2>1. CASE new
      <3>1. o \notin Held(entries) /\ o \notin settled
        BY <2>1 DEF Unused
      <3>2. Parent(p) = <<>> \/ (Parent(p) \in Paths /\ entries[Parent(p)].kind = "dir")
        BY DEF IsDir
      <3>3. Calm([entries EXCEPT ![p] = Regular(o, 0)], media, descriptors, [size EXCEPT ![o] = 0], settled)
        BY <1>2, <1>5, <2>1, <3>1, <3>2, CreatingKeeps
      <3> QED BY <2>1, <3>3 DEF Creates
    <2>2. CASE ~new
      BY <1>2, <2>2
    <2> QED BY <2>1, <2>2
  <1>7. e[p].file = o /\ \A q \in Paths : q = current_directory => e[q].kind = entries[q].kind
    <2>1. CASE new
      <3>1. e[p].file = o /\ \A q \in Paths : q # p => e[q] = entries[q]
        BY <1>3, <2>1 DEF Creates, Regular
      <3>2. p # current_directory \/ p = <<>>
        BY <1>2, <2>1 DEF IsDir
      <3>3. p # <<>>
        BY ConstantsAssumption DEF ConstantsAssumption
      <3> QED BY <3>1, <3>2, <3>3
    <2>2. CASE ~new
      BY <2>2
    <2> QED BY <2>1, <2>2
  <1>8. flags.read \in BOOLEAN /\ flags.write \in BOOLEAN
    BY ConstantsAssumption DEF ConstantsAssumption
  <1>9. /\ slot \in Slot /\ slot.allocated /\ slot.mode = "closed" /\ slot.path = p /\ slot.opened = o
    BY <1>5, <1>8, FreeSlotIsFree DEF OpenedSlot, Slot, FreeSlot
  <1> HIDE DEF e, sz, slot, new
  <1>10. SlotAt(slot, slot.path, e, sz)
    BY <1>7, <1>9 DEF SlotAt
  <1>11. Calm(e, media, [descriptors EXCEPT ![f] = slot], sz, settled)
    BY <1>4, <1>6, <1>9, <1>10, FreeSlotIsFree, DroppingKeeps
  <1> QED BY <1>2, <1>3, <1>4, <1>5, <1>7, <1>9, <1>11 DEF e, sz, slot, new

LEMMA OpenStep ==
    ASSUME FsInv, NEW p \in Paths \ Backups, NEW flags \in Flags, Open(p, flags)
    PROVE  FsInv' /\ OpenedCurrent
  <1> DEFINE new == entries[p].kind = "none"
             f == CHOOSE g \in Fds \ Allocated : \A k \in Fds \ Allocated : g <= k
             o == IF new THEN CHOOSE u \in Unused : \A w \in Unused : u <= w ELSE entries[p].file
             e == IF new THEN Creates(p, o) ELSE entries
             sz == IF new THEN [size EXCEPT ![o] = 0] ELSE size
             slot == OpenedSlot(p, o, flags)
             mode == IF flags.write THEN "write" ELSE "read"
             truncates == flags.write /\ flags.truncate
  <1>1. /\ Ready /\ Allocated # Fds /\ IsDir(Parent(p)) /\ entries[p].kind # "dir" /\ Rest
        /\ new => Unused # {}
    BY DEF Open
  <1>2. rename.pc = "idle" /\ rename' = rename /\ current_directory' = current_directory
    BY <1>1 DEF Ready, Rest
  <1>3. f \in Fds \ Allocated
    <2>1. Fds \ Allocated \subseteq Nat /\ Fds \ Allocated # {}
      BY <1>1, ConstantsAssumption DEF ConstantsAssumption, Allocated
    <2> QED BY <2>1, LeastExists
  <1>4. new => o \in Unused
    <2>1. Unused \subseteq Nat
      BY ConstantsAssumption DEF ConstantsAssumption, Unused
    <2> QED BY <1>1, <2>1, LeastExists
  <1>5. PICK r \in Switched(f, slot, e, mode) :
             /\ entries' = r.entries
             /\ media' = r.media
             /\ \/ /\ r.ok
                   /\ faults' = faults
                   /\ descriptors' = IF truncates THEN FxResized([descriptors EXCEPT ![f] = r.handle], o, 0)
                                     ELSE [descriptors EXCEPT ![f] = r.handle]
                   /\ size' = IF new \/ truncates THEN [size EXCEPT ![o] = 0] ELSE size
                   /\ settled' = IF new \/ truncates THEN settled \ {o} ELSE settled
                \/ /\ ~r.ok \/ (truncates /\ faults < MaxFaults)
                   /\ faults' = faults + IF r.ok THEN 1 ELSE r.faults
                   /\ faults' <= MaxFaults
                   /\ UNCHANGED descriptors
                   /\ size' = IF new THEN [size EXCEPT ![o] = 0] ELSE size
                   /\ settled' = IF new THEN settled \ {o} ELSE settled
    BY DEF Open, OpenedSlot
  <1>6. mode \in {"read", "write"} /\ (truncates => mode = "write")
    OBVIOUS
  <1>7. new \/ o = entries[p].file
    OBVIOUS
  <1> HIDE DEF f, o, mode, truncates
  <1>8. /\ Calm(e, media, [descriptors EXCEPT ![f] = slot], sz, settled)
        /\ descriptors[f] = FreeSlot /\ descriptors \in [Fds -> Slot]
        /\ slot.allocated /\ slot.mode = "closed" /\ slot.path = p /\ slot.opened = o
        /\ o \in Files /\ size \in [Files -> 0 .. MaxLen]
        /\ \A q \in Paths : q = current_directory => e[q].kind = entries[q].kind
        /\ IsDir(current_directory)
    BY <1>1, <1>2, <1>3, <1>4, <1>7, OpenReady
  <1>9. sz = IF new THEN [size EXCEPT ![o] = 0] ELSE size
    OBVIOUS
  <1> HIDE DEF e, sz, slot, new
  <1> DEFINE d == [descriptors EXCEPT ![f] = slot]
             c == [d EXCEPT ![f] = r.handle]
  <1>10. SwitchEnds(f, slot, mode, r, e, d, sz, settled)
    <2>1. f \in Fds /\ d = [descriptors EXCEPT ![f] = slot]
      BY <1>3
    <2> HIDE DEF d
    <2> QED BY <1>5, <1>6, <1>8, <2>1, SwitchKeeps
  <1>11. /\ c = [descriptors EXCEPT ![f] = r.handle] /\ d[f] = slot /\ c[f] = r.handle /\ c \in [Fds -> Slot]
         /\ \A g \in Fds \ {f} : c[g] = descriptors[g]
    BY <1>3, <1>8, <1>10 DEF SwitchEnds
  <1>12. IsDir(current_directory)'
    <2>1. \A q \in Paths : q = current_directory => entries'[q].kind = entries[q].kind
      BY <1>5, <1>8, <1>10 DEF SwitchEnds, SameNames
    <2> QED BY <1>2, <1>8, <2>1, NamesStay
  <1>13. FsTypes'
    <2>1. faults \in 0 .. MaxFaults /\ MaxFaults \in Nat /\ r.faults \in {0, 1}
      BY <1>10, ConstantsAssumption DEF ConstantsAssumption, FsInv, FsTypes, SwitchEnds
    <2>2. faults' \in {faults, faults + 1} /\ faults' <= MaxFaults
      BY <1>5, <2>1
    <2> QED BY <1>1, <2>2, CallTypes DEF FsInv
  <1>14. ASSUME Calm(entries, media, descriptors, size, settled)' PROVE FsInv'
    BY <1>2, <1>12, <1>13, <1>14, IdleKeeps
  <1>15. settled \ {o} \subseteq settled
    OBVIOUS
  <1>16. r.ok => Calm(r.entries, r.media, c, sz, settled) /\ r.handle.len = sz[r.handle.file]
                 /\ r.entries[p].len = sz[r.handle.file] /\ r.handle.mode = mode
                 /\ r.handle.path = p /\ r.handle.allocated /\ r.handle.opened = o
    BY <1>6, <1>8, <1>10 DEF SwitchEnds
  <1>17. CASE /\ r.ok /\ ~truncates
              /\ descriptors' = [descriptors EXCEPT ![f] = r.handle]
              /\ size' = sz
              /\ settled' = IF new THEN settled \ {o} ELSE settled
    <2>1. Calm(r.entries, r.media, c, sz, settled') /\ descriptors' = c
      BY <1>11, <1>15, <1>16, <1>17, FewerSettled
    <2> HIDE DEF c
    <2>2. FsInv'
      BY <1>5, <1>14, <1>17, <2>1
    <2>3. OpenedCurrent
      BY <1>11, <1>16, <1>17, <2>1 DEF OpenedCurrent
    <2> QED BY <2>2, <2>3
  <1>18. CASE /\ r.ok /\ truncates
              /\ descriptors' = FxResized([descriptors EXCEPT ![f] = r.handle], o, 0)
              /\ size' = [size EXCEPT ![o] = 0]
              /\ settled' = settled \ {o}
    <2>1. Calm(r.entries, r.media, c, sz, settled) /\ c[f].mode = "write"
      BY <1>6, <1>11, <1>16, <1>18
    <2>2. c[f].file = o
      <3>1. SlotAt(c[f], c[f].path, r.entries, sz)
        BY <1>3, <2>1 DEF Calm
      <3> QED BY <1>8, <1>11, <1>16, <1>18, <2>1, <3>1, EntryFacts DEF SlotAt
    <2>3. [sz EXCEPT ![o] = 0] = size' /\ descriptors' = FxResized(c, o, 0)
      BY <1>8, <1>9, <1>11, <1>18
    <2>4. 0 \in 0 .. MaxLen /\ f \in Fds
      BY <1>3, ConstantsAssumption DEF ConstantsAssumption
    <2> HIDE DEF c
    <2>5. Calm(r.entries, r.media, FxResized(c, o, 0), [sz EXCEPT ![o] = 0], settled \ {o})
      BY <2>1, <2>2, <2>4, ResizingKeeps
    <2>6. FsInv'
      BY <1>5, <1>14, <1>18, <2>3, <2>5
    <2>7. OpenedCurrent
      <3> DEFINE k == FxResized(c, o, 0)
      <3>0. c \in [Fds -> Slot]
        BY <1>11
      <3>1. \A g \in Fds : /\ k[g].mode = c[g].mode /\ k[g].file = c[g].file
                           /\ c[g].mode # "closed" /\ c[g].file = o => k[g].len = 0
        <4> HIDE DEF k
        <4>1. /\ FxResized(c, o, 0) \in [Fds -> Slot]
              /\ \A g \in Fds :
                   LET j == FxResized(c, o, 0)[g] IN
                   /\ j.allocated = c[g].allocated /\ j.path = c[g].path /\ j.mode = c[g].mode
                   /\ j.file = c[g].file /\ j.opened = c[g].opened
                   /\ c[g].mode # "closed" /\ c[g].file = o => j.len = 0
                   /\ c[g].mode = "closed" \/ c[g].file # o => j = c[g]
          BY <2>4, <3>0, ResizedSlots
        <4> QED BY <4>1 DEF k
      <3>2. descriptors' = k
        BY <2>3
      <3> HIDE DEF k
      <3>3. /\ descriptors'[f].len = 0 /\ descriptors'[f].file = o
            /\ \A g \in Fds : descriptors'[g].mode = c[g].mode
        BY <2>1, <2>2, <2>4, <3>1, <3>2
      <3>4. size'[o] = 0
        BY <1>8, <1>18
      <3> QED BY <1>11, <3>3, <3>4 DEF OpenedCurrent
    <2> QED BY <2>6, <2>7
  <1>19. CASE /\ UNCHANGED descriptors /\ size' = sz
              /\ settled' = IF new THEN settled \ {o} ELSE settled
    <2>1. Calm(r.entries, r.media, c, sz, settled)
      <3>1. slot.mode # "write" /\ r.ok \in BOOLEAN
        BY <1>8, <1>10 DEF SwitchEnds
      <3> QED BY <1>10, <3>1 DEF SwitchEnds
    <2>2. c[f].mode = "write" => r.entries[c[f].path].len = sz[c[f].file]
      BY <1>8, <1>10, <1>11, <1>16 DEF SwitchEnds
    <2>3. [c EXCEPT ![f] = FreeSlot] = descriptors
      BY <1>3, <1>8, <1>11
    <2> HIDE DEF c
    <2>4. Calm(r.entries, r.media, [c EXCEPT ![f] = FreeSlot], sz, settled)
      BY <1>3, <2>1, <2>2, FreeSlotIsFree, DroppingKeeps
    <2>5. Calm(r.entries, r.media, descriptors, sz, settled')
      BY <1>15, <1>19, <2>3, <2>4, FewerSettled
    <2>6. FsInv'
      BY <1>5, <1>14, <1>19, <2>5
    <2> QED BY <1>19, <2>6, NothingOpened
  <1> QED BY <1>5, <1>9, <1>17, <1>18, <1>19

-----------------------------------------------------------------------------
(* _close and the calls that flush the media.                               *)

\* The handles that a flush takes: with all writers of the descriptors, and no other.
AllWriters(handles, d) ==
    /\ handles \subseteq Slot
    /\ \A h \in handles : h.mode = "write" => \E g \in Fds : h = d[g]
    /\ \A g \in Fds : d[g].mode = "write" => d[g] \in handles

LEMMA FlushedKeeps ==
    ASSUME NEW e, NEW md, NEW d, NEW sz, NEW files, Calm(e, md, d, sz, files),
           NEW more, more \subseteq files \cup Held(e), NEW handles, AllWriters(handles, d)
    PROVE  LET x == FxPublished(e, handles) IN Calm(x, x, d, sz, more) /\ SameNames(x, e)
  <1> DEFINE x == FxPublished(e, handles)
  <1>1. /\ SameNames(x, e)
        /\ \A p \in Paths : e[p].kind = "file" => x[p] = Regular(e[p].file, sz[e[p].file])
        /\ \A p \in Paths : e[p].kind # "file" => x[p] = e[p]
    BY FlushedEntries DEF AllWriters
  <1> HIDE DEF x
  <1>2. Calm(x, x, d, sz, more)
    BY <1>1, FlushingKeeps
  <1> QED BY <1>1, <1>2 DEF x

LEMMA HandlesAreWriters ==
    ASSUME NEW d \in [Fds -> Slot]
    PROVE  AllWriters({d[g] : g \in Fds}, d)
  BY DEF AllWriters

LEMMA NoFaults ==
    ASSUME FsInv, Works \/ Fails
    PROVE  faults' \in {faults, faults + 1} /\ faults' <= MaxFaults
  BY ConstantsAssumption DEF ConstantsAssumption, FsInv, FsTypes, Works, Fails

LEMMA CallStep ==
    ASSUME FsInv, rename.pc = "idle", Rest, Works \/ Fails,
           Calm(entries, media, descriptors, size, settled)',
           \A q \in Paths : q = current_directory => entries'[q].kind = entries[q].kind
    PROVE  FsInv'
  <1>1. FsTypes'
    BY NoFaults, CallTypes DEF FsInv
  <1>2. IsDir(current_directory)
    BY InvIsCalm DEF Moving
  <1>3. rename' = rename /\ current_directory' = current_directory
    BY DEF Rest
  <1>4. IsDir(current_directory)'
    BY <1>2, <1>3, NamesStay
  <1> QED BY <1>1, <1>3, <1>4, IdleKeeps

LEMMA CloseStep ==
    ASSUME FsInv, NEW f \in Fds, Close(f)
    PROVE  FsInv' /\ OpenedCurrent
  <1> DEFINE h == descriptors[f]
             left == Released(f)
             others == {left[g] : g \in Fds}
             closed == FxPublished(entries, {h})
  <1>1. /\ rename.pc = "idle" /\ Rest /\ f \in Allocated /\ descriptors' = left
        /\ \/ /\ IF h.flush_on_close THEN Flushed(closed, others) ELSE NotFlushed(closed)
              /\ settled' = IF h.flush_on_close THEN settled \cup ({h.opened} \ {Nobody}) ELSE settled
              /\ UNCHANGED size /\ Works
           \/ NotFlushed(closed) /\ UNCHANGED ghosts /\ Fails
           \/ /\ h.mode # "closed"
              /\ NotFlushed(entries)
              /\ size' = IF h.mode = "write" THEN [size EXCEPT ![h.file] = entries[h.path].len] ELSE size
              /\ settled' = IF size' = size THEN settled ELSE settled \ {h.file}
              /\ Fails
    BY DEF Close, Ready, FlushesOnClose
  <1>2. Calm(entries, media, descriptors, size, settled)
    BY <1>1, InvIsCalm DEF Moving
  <1>3. /\ h \in Slot /\ SlotAt(h, h.path, entries, size) /\ h.allocated
        /\ entries \in [Paths -> Entry] /\ descriptors \in [Fds -> Slot]
    BY <1>1, <1>2 DEF Calm, Volumes, Allocated
  <1>4. h.path \in Paths
    BY <1>3 DEF SlotAt
  <1>5. /\ SameNames(closed, entries)
        /\ \A p \in Paths : \/ closed[p] = entries[p]
                            \/ entries[p].kind = "file" /\ closed[p] = Regular(entries[p].file, size[entries[p].file])
        /\ \A p \in Paths : h.mode = "write" /\ h.file = entries[p].file =>
               closed[p] = Regular(entries[p].file, size[entries[p].file])
    <2>1. \A k \in {h} : k.mode = "write" => k.file # Nobody /\ k.len = size[k.file]
      BY <1>3 DEF SlotAt
    <2>2. {h} \subseteq Slot /\ Volumes(entries, media, descriptors, size, settled)
      BY <1>2, <1>3 DEF Calm
    <2> QED BY <2>1, <2>2, Publishing
  <1> HIDE DEF closed
  <1>6. Calm(closed, media, descriptors, size, settled)
    BY <1>2, <1>5, PublishingKeeps
  <1>7. h.mode = "write" => closed[h.path].len = size[h.file]
    <2>1. h.mode = "write" => entries[h.path].file = h.file
      BY <1>3 DEF SlotAt
    <2>2. h.mode = "write" => closed[h.path] = Regular(h.file, size[h.file])
      BY <1>4, <1>5, <2>1
    <2> QED BY <2>2 DEF Regular
  <1>8. Calm(closed, media, left, size, settled)
    BY <1>6, <1>7, FreeSlotIsFree, DroppingKeeps DEF Released
  <1>9. OpenedCurrent
    <2>1. left[f].mode = "closed" /\ \A g \in Fds \ {f} : left[g] = descriptors[g]
      BY <1>3, FreeSlotIsFree DEF Released
    <2> QED BY <1>1, <2>1, NothingOpened
  <1> HIDE DEF left
  <1>10. ASSUME Calm(entries, media, descriptors, size, settled)', SameNames(entries', entries), Works \/ Fails
         PROVE  FsInv'
    BY <1>1, <1>10, CallStep DEF SameNames
  <1>11. CASE /\ h.flush_on_close /\ Flushed(closed, others)
              /\ settled' = settled \cup ({h.opened} \ {Nobody})
              /\ UNCHANGED size /\ Works
    <2>1. {h.opened} \ {Nobody} \subseteq Held(closed)
      BY <1>3, <1>4, <1>5 DEF SlotAt, SameNames, Held
    <2>2. Calm(entries', entries', left, size, settled') /\ SameNames(entries', closed)
      <3>1. settled' \subseteq settled \cup Held(closed)
        BY <1>11, <2>1
      <3>2. AllWriters(others, left)
        BY <1>8, HandlesAreWriters DEF Calm, Volumes
      <3> QED BY <1>8, <1>11, <3>1, <3>2, FlushedKeeps DEF Flushed
    <2>3. SameNames(entries', entries)
      BY <1>5, <2>2 DEF SameNames
    <2> QED BY <1>1, <1>9, <1>10, <1>11, <2>2, <2>3 DEF Flushed
  <1>12. CASE /\ NotFlushed(closed) /\ UNCHANGED <<size, settled>> /\ (Works \/ Fails)
    BY <1>1, <1>5, <1>8, <1>9, <1>10, <1>12 DEF NotFlushed
  <1>13. CASE /\ NotFlushed(entries)
              /\ size' = IF h.mode = "write" THEN [size EXCEPT ![h.file] = entries[h.path].len] ELSE size
              /\ settled' = IF size' = size THEN settled ELSE settled \ {h.file}
              /\ Fails
    <2>1. SameNames(entries', entries) /\ entries' = entries /\ media' = media
      BY <1>3, <1>13 DEF SameNames, NotFlushed
    <2>2. CASE h.mode # "write"
      <3>1. Calm(entries, media, left, size, settled)
        BY <1>2, <2>2, FreeSlotIsFree, DroppingKeeps DEF left, Released
      <3> QED BY <1>1, <1>9, <1>10, <1>13, <2>1, <2>2, <3>1
    <2>3. CASE h.mode = "write"
      <3> DEFINE z == [size EXCEPT ![h.file] = entries[h.path].len]
      <3>1. /\ Calm(entries, media, left, z, settled \ {h.file})
            /\ z = size => Calm(entries, media, left, size, settled)
        BY <1>2, <2>3, FreeSlotIsFree, LosingKeeps DEF left, Released
      <3>2. size' = z
        BY <1>13, <2>3
      <3> HIDE DEF z
      <3> QED BY <1>1, <1>9, <1>10, <1>13, <2>1, <3>1, <3>2
    <2> QED BY <2>2, <2>3
  <1> QED BY <1>1, <1>11, <1>12, <1>13 DEF ghosts

LEMMA FlushStep ==
    ASSUME FsInv, rename.pc = "idle", Rest, Works \/ Fails, UNCHANGED <<descriptors, size>>,
           Flushed(entries, Handles), settled' \subseteq settled \cup Held(entries)
    PROVE  FsInv' /\ OpenedCurrent
  <1>1. Calm(entries, media, descriptors, size, settled)
    BY InvIsCalm DEF Moving
  <1>2. Calm(entries', entries', descriptors, size, settled') /\ SameNames(entries', entries)
    <2>1. AllWriters(Handles, descriptors)
      BY <1>1, HandlesAreWriters DEF Calm, Volumes, Handles
    <2> QED BY <1>1, <2>1, FlushedKeeps DEF Flushed
  <1>3. FsInv'
    BY <1>2, CallStep DEF Flushed, SameNames
  <1> QED BY <1>3, NothingOpened

LEMMA FsyncStep ==
    ASSUME FsInv, NEW f \in Fds, Fsync(f)
    PROVE  FsInv' /\ OpenedCurrent
  <1>1. rename.pc = "idle" /\ Rest /\ Works /\ UNCHANGED <<descriptors, size>> /\ Flushed(entries, Handles)
        /\ f \in Allocated /\ settled' = settled \cup ({descriptors[f].opened} \ {Nobody})
    BY DEF Fsync, Ready
  <1>2. SlotAt(descriptors[f], descriptors[f].path, entries, size)
    BY <1>1, InvIsCalm DEF Moving, Calm
  <1>3. {descriptors[f].opened} \ {Nobody} \subseteq Held(entries)
    BY <1>1, <1>2 DEF SlotAt, Held, Allocated
  <1> QED BY <1>1, <1>3, FlushStep

LEMMA UtimeStep ==
    ASSUME FsInv, NEW p \in Paths, Utime(p)
    PROVE  FsInv' /\ OpenedCurrent
  <1>1. rename.pc = "idle" /\ Rest /\ (Works \/ Fails) /\ UNCHANGED <<descriptors, size, settled>>
        /\ Flushed(entries, Handles)
    BY DEF Utime, Ready
  <1> QED BY <1>1, FlushStep

-----------------------------------------------------------------------------
(* The calls that change an entry.                                          *)

\* After the change of the entries to e, a flush or a failed one.
LEMMA EnteredStep ==
    ASSUME FsInv, rename.pc = "idle", Rest, NEW e, NEW out, Entered(e, out),
           Calm(e, media, descriptors', size, settled \ out), AllWriters(Handles, descriptors'),
           \A q \in Paths : q = current_directory => e[q].kind = entries[q].kind
    PROVE  FsInv'
  <1>1. UNCHANGED size /\ settled' = settled \ out
    BY DEF Entered
  <1>2. CASE Flushed(e, Handles) /\ Works
    <2>1. Calm(entries', entries', descriptors', size, settled') /\ SameNames(entries', e)
      BY <1>1, <1>2, FlushedKeeps DEF Flushed
    <2> QED BY <1>1, <1>2, <2>1, CallStep DEF SameNames, Flushed
  <1>3. CASE NotFlushed(e) /\ Fails
    <2>1. Calm(entries, media, descriptors, size, settled)'
      BY <1>1, <1>3 DEF NotFlushed
    <2> QED BY <1>3, <2>1, CallStep DEF NotFlushed
  <1> QED BY <1>2, <1>3 DEF Entered

LEMMA UnlinkStep ==
    ASSUME FsInv, NEW p \in Paths, Unlink(p)
    PROVE  FsInv' /\ OpenedCurrent
  <1>1. /\ rename.pc = "idle" /\ Rest /\ entries[p].kind = "file"
        /\ Entered([entries EXCEPT ![p] = Absent], {entries[p].file})
        /\ descriptors' = [f \in Fds |-> IF descriptors[f].allocated /\ descriptors[f].path = p
                                     THEN [descriptors[f] EXCEPT !.opened = Nobody, !.file = Nobody]
                                     ELSE descriptors[f]]
        /\ \A f \in Fds : descriptors[f].mode # "closed" => descriptors[f].file # entries[p].file
    BY DEF Unlink, Ready, Handles
  <1>2. Calm(entries, media, descriptors, size, settled) /\ IsDir(current_directory)
    BY <1>1, InvIsCalm DEF Moving
  <1>3. Calm([entries EXCEPT ![p] = Absent], media, descriptors', size, settled \ {entries[p].file})
    BY <1>1, <1>2, UnlinkingKeeps
  <1>4. ASSUME NEW f \in Fds
        PROVE  descriptors'[f].mode = descriptors[f].mode
               /\ (descriptors[f].mode = "write" => descriptors'[f] = descriptors[f])
    <2>1. descriptors[f] \in Slot /\ SlotAt(descriptors[f], descriptors[f].path, entries, size)
      BY <1>2 DEF Calm, Volumes
    <2>2. CASE descriptors[f].allocated /\ descriptors[f].path = p
      <3>1. descriptors'[f] = [descriptors[f] EXCEPT !.opened = Nobody, !.file = Nobody]
        BY <1>1, <2>2
      <3>2. descriptors[f].mode = "closed"
        BY <1>1, <2>1, <2>2 DEF SlotAt
      <3> QED BY <2>1, <3>1, <3>2 DEF Slot
    <2>3. CASE ~(descriptors[f].allocated /\ descriptors[f].path = p)
      BY <1>1, <2>3
    <2> QED BY <2>2, <2>3
  <1>5. AllWriters(Handles, descriptors')
    BY <1>2, <1>4 DEF AllWriters, Handles, Calm, Volumes
  <1>6. \A q \in Paths : q = current_directory => [entries EXCEPT ![p] = Absent][q].kind = entries[q].kind
    <2>1. entries \in [Paths -> Entry] /\ (p = current_directory => p = <<>>) /\ p # <<>>
      BY <1>1, <1>2, ConstantsAssumption DEF ConstantsAssumption, IsDir, Calm, Volumes
    <2> QED BY <2>1
  <1>7. FsInv'
    BY <1>1, <1>3, <1>5, <1>6, EnteredStep
  <1> QED BY <1>4, <1>7, NothingOpened

LEMMA PlaceStep ==
    ASSUME FsInv, NEW p \in Paths, rename.pc = "idle", Rest, UNCHANGED descriptors, NEW v \in {Absent, Directory},
           Entered([entries EXCEPT ![p] = v], {}), entries[p].kind # "file",
           Tree([entries EXCEPT ![p] = v]), p # current_directory
    PROVE  FsInv' /\ OpenedCurrent
  <1> DEFINE e == [entries EXCEPT ![p] = v]
  <1>1. Calm(entries, media, descriptors, size, settled)
    BY InvIsCalm DEF Moving
  <1>2. Calm(e, media, descriptors', size, settled \ {})
    BY <1>1, PlacingKeeps
  <1>3. AllWriters(Handles, descriptors')
    BY <1>1, HandlesAreWriters DEF Calm, Volumes, Handles
  <1>4. \A q \in Paths : q = current_directory => e[q].kind = entries[q].kind
    BY <1>1 DEF Calm, Volumes
  <1> HIDE DEF e
  <1>5. FsInv'
    BY <1>2, <1>3, <1>4, EnteredStep DEF e
  <1> QED BY <1>5, NothingOpened

LEMMA MkdirStep ==
    ASSUME FsInv, NEW p \in Paths, Mkdir(p)
    PROVE  FsInv' /\ OpenedCurrent
  <1>1. rename.pc = "idle" /\ Rest /\ UNCHANGED descriptors /\ entries[p].kind = "none"
        /\ Entered([entries EXCEPT ![p] = Directory], {}) /\ IsDir(Parent(p))
    BY DEF Mkdir, Ready
  <1>2. Calm(entries, media, descriptors, size, settled) /\ IsDir(current_directory)
    BY <1>1, InvIsCalm DEF Moving
  <1>3. Tree([entries EXCEPT ![p] = Directory])
    <2>1. Directory \in Entry /\ (Parent(p) = <<>> \/ (Parent(p) \in Paths /\ entries[Parent(p)].kind = "dir"))
      BY <1>1 DEF Entry, IsDir
    <2> QED BY <1>1, <1>2, <2>1, AddedTree DEF Calm, Volumes
  <1>4. p # current_directory
    BY <1>1, <1>2, ConstantsAssumption DEF ConstantsAssumption, IsDir
  <1> QED BY <1>1, <1>3, <1>4, PlaceStep

LEMMA RmdirStep ==
    ASSUME FsInv, NEW p \in Paths, Rmdir(p)
    PROVE  FsInv' /\ OpenedCurrent
  <1>1. rename.pc = "idle" /\ Rest /\ UNCHANGED descriptors /\ entries[p].kind = "dir"
        /\ Entered([entries EXCEPT ![p] = Absent], {}) /\ ~Below(current_directory, p) /\ Empty(p)
    BY DEF Rmdir, Ready
  <1>2. Calm(entries, media, descriptors, size, settled)
    BY <1>1, InvIsCalm DEF Moving
  <1>3. Tree([entries EXCEPT ![p] = Absent])
    BY <1>1, <1>2, RemovedTree DEF Calm, Volumes, Empty
  <1>4. p # current_directory
    BY <1>1, PathOrder
  <1> QED BY <1>1, <1>3, <1>4, PlaceStep

LEMMA ChdirStep ==
    ASSUME FsInv, NEW arg, Chdir(arg)
    PROVE  FsInv' /\ OpenedCurrent
  <1>1. /\ rename.pc = "idle" /\ Called /\ IsDir(current_directory')
        /\ UNCHANGED <<filesystem_state, data, descriptors, rename, faults, resets>>
    BY DEF Chdir, Ready
  <1>2. Calm(entries, media, descriptors, size, settled)
    BY <1>1, InvIsCalm DEF Moving
  <1>3. Calm(entries, media, descriptors, size, settled)' /\ IsDir(current_directory)'
    BY <1>1, <1>2 DEF data, IsDir
  <1>4. FsTypes'
    BY <1>1, ConstantsAssumption DEF ConstantsAssumption, FsInv, FsTypes, Called, IsDir
  <1>5. FsInv'
    BY <1>1, <1>3, <1>4, IdleKeeps
  <1> QED BY <1>1, <1>5, NothingOpened

-----------------------------------------------------------------------------
(* The start of the program and a reset.                                    *)

LEMMA IdleIsIdle == Idle \in Renaming /\ Idle.pc = "idle" /\ ~Idle.replaces
  BY DEF Idle, Renaming

LEMMA InitializeStep ==
    ASSUME FsInv, Initialize
    PROVE  FsInv' /\ OpenedCurrent
  <1>1. /\ filesystem_state = "not_attempted" /\ filesystem_state' \in {"ready", "unavailable"}
        /\ Works \/ Fails
        /\ UNCHANGED <<data, descriptors, current_directory, rename, calls, resets>>
    BY DEF Initialize
  <1>2. rename.pc = "idle"
    BY <1>1 DEF FsInv, FsRename
  <1>3. Calm(entries, media, descriptors, size, settled) /\ IsDir(current_directory)
    BY <1>2, InvIsCalm DEF Moving
  <1>4. Calm(entries, media, descriptors, size, settled)' /\ IsDir(current_directory)'
    BY <1>1, <1>3 DEF data, IsDir
  <1>5. FsTypes'
    <2>1. faults' \in 0 .. MaxFaults
      BY <1>1, NoFaults, ConstantsAssumption DEF ConstantsAssumption, FsInv, FsTypes
    <2> QED BY <1>1, <2>1 DEF FsInv, FsTypes
  <1>6. FsInv'
    BY <1>1, <1>2, <1>4, <1>5, IdleKeeps
  <1> QED BY <1>1, <1>6, NothingOpened

\* What a reset leaves: each settled file under its name, with its length.
LEMMA LeftKeeps ==
    ASSUME NEW e, NEW md, NEW d, NEW sz, NEW files, Volumes(e, md, d, sz, files),
           NEW left, left \in [Paths -> Entry], \A p \in Paths : left[p] \in {e[p], md[p]},
           Tree(left), OneName(left),
           NEW c, c = [f \in Fds |-> FreeSlot], NEW z,
           z = [o \in Files |-> IF o \in files \/ o \notin Held(left) THEN sz[o]
                                ELSE left[CHOOSE p \in Paths : left[p].file = o].len]
    PROVE  Calm(left, left, c, z, files)
  <1>1. /\ e \in [Paths -> Entry] /\ md \in [Paths -> Entry] /\ sz \in [Files -> 0 .. MaxLen]
        /\ files \subseteq Files
    BY DEF Volumes
  <1>2. ASSUME NEW p \in Paths, left[p].file # Nobody
        PROVE  left[p].file \in Files /\ z[left[p].file] = left[p].len
    <2> DEFINE o == left[p].file
    <2>1. o \in Files /\ left[p].len \in 0 .. MaxLen /\ o \in Held(left)
      BY <1>2, EntryFacts DEF Held
    <2>2. \A q \in Paths : left[q].file = o => q = p
      BY <1>2 DEF OneName
    <2>3. CASE o \in files
      <3>1. PICK q \in Paths : md[q] = Regular(o, sz[o]) /\ e[q] = md[q]
        BY <2>3 DEF Volumes, Settles
      <3>2. left[q] = Regular(o, sz[o])
        BY <3>1
      <3>3. q = p
        BY <2>2, <3>2 DEF Regular
      <3> QED BY <2>1, <2>3, <3>2, <3>3 DEF Regular
    <2>4. CASE o \notin files
      <3>1. (CHOOSE q \in Paths : left[q].file = o) = p
        BY <2>2
      <3> QED BY <2>1, <2>4, <3>1
    <2> QED BY <2>1, <2>3, <2>4
  <1>3. z \in [Files -> 0 .. MaxLen]
    <2>1. ASSUME NEW o \in Files PROVE z[o] \in 0 .. MaxLen
      <3>1. CASE o \in files \/ o \notin Held(left)
        BY <1>1, <3>1
      <3>2. CASE o \notin files /\ o \in Held(left)
        <4>1. PICK p \in Paths : left[p].file = o /\ o # Nobody
          BY <3>2 DEF Held
        <4> QED BY <1>2, <4>1, EntryFacts
      <3> QED BY <3>1, <3>2
    <2>2. z = [o \in Files |-> z[o]]
      OBVIOUS
    <2> QED BY <2>1, <2>2, Zenon
  <1>4. Lengths(left, c, z)
    BY <1>2, EntryFacts DEF Lengths
  <1>5. Settles(left, left, z, files)
    <2> SUFFICES ASSUME NEW o \in files PROVE \E p \in Paths : left[p] = Regular(o, z[o])
      BY DEF Settles
    <2>1. PICK q \in Paths : md[q] = Regular(o, sz[o]) /\ e[q] = md[q]
      BY DEF Volumes, Settles
    <2>2. left[q] = Regular(o, sz[o]) /\ z[o] = sz[o]
      BY <1>1, <2>1
    <2> QED BY <2>2
  <1>6. c \in [Fds -> Slot] /\ \A f \in Fds : c[f] = FreeSlot
    BY FreeSlotIsFree
  <1>7. Writers(c) /\ \A f \in Fds : SlotAt(c[f], c[f].path, left, z)
    BY <1>6, FreeSlotIsFree DEF Writers
  <1> QED BY <1>1, <1>3, <1>4, <1>5, <1>6, <1>7 DEF Calm, Volumes

LEMMA ResetStep ==
    ASSUME FsInv, Reset
    PROVE  FsInv' /\ OpenedCurrent
  <1> DEFINE left(written) == [p \in Paths |-> IF <<p[1]>> \in written THEN entries[p] ELSE media[p]]
  <1>1. PICK written \in SUBSET Top :
            /\ Tree(left(written)) /\ OneName(left(written))
            /\ entries' = left(written)
            /\ media' = left(written)
            /\ size' = [o \in Files |-> IF o \in settled \/ o \notin Held(left(written)) THEN size[o]
                          ELSE left(written)[CHOOSE p \in Paths : left(written)[p].file = o].len]
    BY DEF Reset
  <1>2. /\ resets < MaxResets /\ resets' = resets + 1 /\ filesystem_state' = "not_attempted"
        /\ descriptors' = [f \in Fds |-> FreeSlot] /\ current_directory' = <<>> /\ rename' = Idle
        /\ UNCHANGED <<settled, calls, faults>>
    BY DEF Reset
  <1>3. Volumes(entries, media, descriptors, size, settled)
    BY DEF FsInv, FsVolumes
  <1>4. /\ entries' \in [Paths -> Entry] /\ Tree(entries') /\ OneName(entries') /\ media' = entries'
        /\ \A p \in Paths : entries'[p] \in {entries[p], media[p]}
        /\ size' = [o \in Files |-> IF o \in settled \/ o \notin Held(entries') THEN size[o]
                                    ELSE entries'[CHOOSE p \in Paths : entries'[p].file = o].len]
    BY <1>1, <1>3 DEF Volumes
  <1>5. Calm(entries', entries', descriptors', size', settled)
    BY <1>2, <1>3, <1>4, LeftKeeps
  <1>6. FsTypes'
    BY <1>2, IdleIsIdle, ConstantsAssumption DEF ConstantsAssumption, FsInv, FsTypes
  <1>7. ~Moving' /\ FsRename' /\ IsDir(current_directory)'
    BY <1>2, IdleIsIdle DEF Moving, FsRename, IsDir
  <1>8. FsInv'
    BY <1>2, <1>4, <1>5, <1>6, <1>7, CalmIsInv
  <1> QED BY <1>2, <1>8, FreeSlotIsFree, NothingOpened

-----------------------------------------------------------------------------
(* The FileX calls of a rename.                                             *)

\* A step of a rename: what it keeps, and that it loses nothing.
RenameKeeps ==
    /\ \A o \in Held(entries) \ Held(entries') :
          rename.pc = "delete" /\ entries[rename.new].file = rename.file
    /\ rename'.pc = "idle" /\ rename.replaces /\ rename.pc # "restore" =>
          entries'[rename.new].kind # "none"

\* The files below a name that moves keep their lengths, and were not settled.
MovedLengths(e, old, sz, files) ==
    \A p \in Paths : Below(p, old) /\ e[p].kind # "none" =>
        e[p].file \notin files /\ (e[p].kind = "file" => e[p].len = sz[e[p].file])

LEMMA MovingKeeps ==
    ASSUME NEW e, NEW md, NEW d, NEW sz, NEW files, Volumes(e, md, d, sz, files),
           NEW old, NEW new, Movable(e, old, new), MovedLengths(e, old, sz, files)
    PROVE  Volumes(FxRenamed(e, old, new), md, d, sz, files)
  <1> DEFINE m == FxRenamed(e, old, new)
  <1>1. CASE old = new
    BY <1>1, RenamedSame
  <1>2. CASE old # new
    <2>1. /\ m \in [Paths -> Entry]
          /\ \A p \in Paths : ~Below(p, old) /\ ~Below(p, new) => m[p] = e[p]
          /\ \A p \in Paths : Below(p, old) => m[p] = Absent
          /\ \A p \in Paths : Below(p, new) /\ m[p].kind # "none" =>
                 /\ Migrated(p, new, old) \in Paths /\ Below(Migrated(p, new, old), old)
                 /\ m[p] = e[Migrated(p, new, old)]
      BY <1>2, RenamedEntries
    <2>2. Tree(m) /\ OneName(m)
      BY RenamedTree, RenamedOneName
    <2> HIDE DEF m
    <2>3. Lengths(m, d, sz)
      <3> SUFFICES ASSUME NEW p \in Paths, m[p].kind = "file"
                   PROVE  m[p].len = sz[m[p].file] \/ Written(d, m[p].file)
        BY DEF Lengths
      <3>1. CASE Below(p, new)
        BY <2>1, <3>1 DEF MovedLengths
      <3>2. CASE ~Below(p, new)
        <4>1. ~Below(p, old)
          BY <2>1 DEF Absent
        <4>2. m[p] = e[p]
          BY <2>1, <3>2, <4>1
        <4> QED BY <4>2 DEF Volumes, Lengths
      <3> QED BY <3>1, <3>2
    <2>4. Settles(m, md, sz, files)
      <3> SUFFICES ASSUME NEW o \in files
                   PROVE  \E p \in Paths : md[p] = Regular(o, sz[o]) /\ m[p] = md[p]
        BY DEF Settles
      <3>1. PICK p \in Paths : md[p] = Regular(o, sz[o]) /\ e[p] = md[p]
        BY DEF Volumes, Settles
      <3>2. e[p].kind = "file" /\ e[p].file = o
        BY <3>1 DEF Regular
      <3>3. ~Below(p, old) /\ ~Below(p, new)
        BY <1>2, <3>2 DEF MovedLengths, Movable
      <3> QED BY <2>1, <3>1, <3>3
    <2> QED BY <2>1, <2>2, <2>3, <2>4 DEF Volumes, m
  <1> QED BY <1>1, <1>2

\* A descriptor whose path w is not on the entry that moves stays where it is.
LEMMA SlotStays ==
    ASSUME NEW e, NEW sz, NEW old, NEW new, Movable(e, old, new), old # new,
           NEW h, NEW w, SlotAt(h, w, e, sz), Below(w, old) => e[w].kind = "none"
    PROVE  SlotAt(h, w, FxRenamed(e, old, new), sz)
  <1>1. /\ \A p \in Paths : ~Below(p, old) /\ ~Below(p, new) => FxRenamed(e, old, new)[p] = e[p]
        /\ e \in [Paths -> Entry]
        /\ \A p \in Paths : Below(p, new) => e[p].kind = "none"
    BY RenamedEntries DEF Movable
  <1>2. ASSUME w \in Paths, Below(w, old) \/ Below(w, new)
        PROVE  h.mode = "closed" /\ h.opened = Nobody
    <2>1. e[w].file = Nobody
      BY <1>1, <1>2, EntryFacts
    <2> QED BY <2>1 DEF SlotAt
  <1> QED BY <1>1, <1>2, SlotElsewhere

\* The name under which a descriptor's file is once old has become new.
MovedTo(e, p, old, new) == IF e[new].kind = "dir" \/ p = old THEN Migrated(p, old, new) ELSE p

LEMMA SlotMoves ==
    ASSUME NEW e, NEW sz, NEW old, NEW new, Movable(e, old, new), e[old].kind # "none",
           {old, new} \subseteq Paths \ Backups,
           NEW h, SlotAt(h, h.path, e, sz),
           h.allocated /\ (IF e[old].kind = "dir" THEN Below(h.path, old) ELSE h.path = old) =>
               Migrated(h.path, old, new) \in Paths
    PROVE  LET m == FxRenamed(e, old, new) IN SlotAt(h, MovedTo(m, h.path, old, new), m, sz)
  <1> DEFINE m == FxRenamed(e, old, new)
             w == MovedTo(m, h.path, old, new)
  <1>1. CASE ~h.allocated
    <2>1. h = FreeSlot
      BY <1>1 DEF SlotAt
    <2> QED BY <2>1 DEF SlotAt, FreeSlot
  <1>2. CASE old = new
    <2>1. m = e
      BY <1>2, RenamedSame
    <2>2. w = h.path
      <3>1. h.path \in Seq(Components) /\ old \in Seq(Components)
        BY PathsAre DEF SlotAt, FreeSlot, Movable
      <3>2. Below(h.path, old) => Migrated(h.path, old, old) = h.path
        BY <3>1, MigratedSelf
      <3>3. Migrated(h.path, old, old) = h.path
        BY <3>2 DEF Migrated
      <3> QED BY <1>2, <3>3 DEF MovedTo
    <2> QED BY <2>1, <2>2
  <1>3. CASE h.allocated /\ old # new
    <2>1. /\ m \in [Paths -> Entry]
          /\ \A p \in Paths : Below(p, old) /\ Migrated(p, old, new) \in Paths => m[Migrated(p, old, new)] = e[p]
      BY <1>3, RenamedEntries
    <2>2. /\ h.path \in Paths \ Backups /\ e \in [Paths -> Entry] /\ Tree(e)
          /\ old \in Paths /\ new \in Paths
      BY <1>3 DEF SlotAt, Movable
    <2>3. Below(old, old) /\ Migrated(old, old, new) = new
      BY <2>2, PathOrder, PathMigrated
    <2>4. m[new].kind = e[old].kind
      BY <2>1, <2>2, <2>3
    <2> HIDE DEF m
    <2>5. CASE Below(h.path, old) /\ (e[old].kind = "dir" \/ h.path = old)
      <3> DEFINE q == Migrated(h.path, old, new)
      <3>1. w = q
        BY <2>4, <2>5 DEF MovedTo
      <3>2. q \in Paths /\ m[q] = e[h.path]
        BY <1>3, <2>1, <2>2, <2>5
      <3>3. q \notin Backups
        <4>1. (Len(q) = Len(new) => q = new) /\ Len(new) <= Len(q)
          <5>1. Below(q, new)
            BY <2>2, <2>5, PathMigrated
          <5>2. q \in Seq(Components) /\ new \in Seq(Components)
            BY <2>2, <3>2, PathsAre
          <5> QED BY <5>1, <5>2, BelowOrder
        <4>2. Len(new) >= 1 /\ Len(new) \in Nat
          <5>1. new \in Seq(Components) /\ new # <<>>
            BY <2>2, PathsAre, ConstantsAssumption DEF ConstantsAssumption
          <5> QED BY <5>1
        <4>3. q \in Backups => Len(q) = 1
          BY ConstantsAssumption DEF ConstantsAssumption, Top
        <4>4. new \notin Backups
          OBVIOUS
        <4> HIDE DEF q
        <4>5. ASSUME q \in Backups PROVE FALSE
          <5>1. Len(q) = 1
            BY <4>3, <4>5
          <5>2. Len(new) = 1
            BY <4>1, <4>2, <5>1
          <5> QED BY <4>1, <4>4, <4>5, <5>1, <5>2
        <4> QED BY <4>5
      <3> HIDE DEF q, w
      <3>4. SlotAt(h, w, m, sz)
        BY <1>3, <2>2, <3>1, <3>2, <3>3 DEF SlotAt
      <3> QED BY <3>4 DEF w, m
    <2>6. CASE ~(Below(h.path, old) /\ (e[old].kind = "dir" \/ h.path = old))
      <3>1. h.path # old
        BY <2>3, <2>6
      <3>2. w = h.path
        BY <2>4, <2>6, <3>1 DEF MovedTo, Migrated
      <3>3. Below(h.path, old) => e[h.path].kind = "none"
        BY <2>2, <2>6, <3>1 DEF Tree
      <3> HIDE DEF w
      <3>4. SlotAt(h, h.path, m, sz)
        BY <1>3, <3>3, SlotStays DEF m
      <3> QED BY <3>2, <3>4 DEF w, m
    <2> QED BY <2>5, <2>6
  <1> QED BY <1>1, <1>2, <1>3

LEMMA TopIsAlone ==
    ASSUME NEW b \in Backups, NEW p \in Paths, Below(b, p)
    PROVE  p = b
  <1>1. b \in Paths /\ Len(b) = 1 /\ p # <<>>
    BY ConstantsAssumption DEF ConstantsAssumption, Top
  <1>2. b \in Seq(Components) /\ p \in Seq(Components)
    BY <1>1, PathsAre
  <1>3. Len(p) >= 1
    BY <1>1, <1>2
  <1>4. Len(p) <= Len(b) /\ (Len(b) = Len(p) => b = p)
    BY <1>2, BelowOrder
  <1> QED BY <1>1, <1>2, <1>3, <1>4

LEMMA TopHasNoParent == \A b \in Backups : Parent(b) = <<>>
  <1> SUFFICES ASSUME NEW b \in Backups PROVE Parent(b) = <<>>
    OBVIOUS
  <1>1. b \in Paths /\ Len(b) = 1 /\ b # <<>>
    BY ConstantsAssumption DEF ConstantsAssumption, Top
  <1>2. Parent(b) \in Seq(Components) /\ Len(Parent(b)) = 0
    BY <1>1, PathsAre, ParentMeans
  <1> QED BY <1>2

\* Below a name there is something only if it is a directory.
LEMMA OnlyBelowDirectories ==
    ASSUME NEW e, e \in [Paths -> Entry], Tree(e), NEW q \in Paths, NEW p \in Paths, Below(p, q), p # q, e[q].kind # "dir"
    PROVE  e[p].kind = "none"
  BY EntryFacts DEF Tree

LEMMA CurrentIsBelowDirectories ==
    ASSUME IsDir(current_directory), entries \in [Paths -> Entry], Tree(entries),
           NEW q \in Paths, Below(current_directory, q)
    PROVE  entries[q].kind = "dir" /\ current_directory \in Paths
  <1>1. q # <<>>
    BY ConstantsAssumption DEF ConstantsAssumption
  <1>2. current_directory # <<>>
    BY <1>1, PathOrder
  <1> QED BY <1>2 DEF IsDir, Tree

\* The checks of _rename and the flush make the source ready.
LEMMA RenameStartsKeeps ==
    ASSUME FsInv, NEW old \in Paths \ Backups, NEW new \in Paths \ Backups, RenameStarts(old, new)
    PROVE  /\ Calm(entries, media, descriptors, size, settled)' /\ SameNames(entries', entries)
           /\ \A p \in Paths : Below(p, old) /\ entries[p].kind = "file" => entries'[p].len = size[entries[p].file]
  <1>1. /\ rename.pc = "idle" /\ MayRename(old, new) /\ UNCHANGED <<descriptors, size>>
        /\ IF SourceIsOpen(old) THEN Flushed(entries, Handles) ELSE UNCHANGED <<entries, media>>
        /\ settled' = settled \ FilesBelow(entries, old)
    BY DEF RenameStarts, Ready
  <1>2. Calm(entries, media, descriptors, size, settled)
    BY <1>1, InvIsCalm DEF Moving
  <1>3. entries \in [Paths -> Entry] /\ Tree(entries) /\ OneName(entries) /\ descriptors \in [Fds -> Slot]
    BY <1>2 DEF Calm, Volumes
  <1>4. settled' \subseteq settled
    BY <1>1
  <1>5. CASE SourceIsOpen(old)
    <2>1. AllWriters(Handles, descriptors)
      BY <1>3, HandlesAreWriters DEF Handles
    <2>2. Calm(entries', entries', descriptors, size, settled') /\ SameNames(entries', entries)
      BY <1>1, <1>2, <1>4, <1>5, <2>1, FlushedKeeps DEF Flushed
    <2>3. \A p \in Paths : entries[p].kind = "file" => entries'[p] = Regular(entries[p].file, size[entries[p].file])
      BY <1>1, <1>2, <1>5, <2>1, FlushedEntries DEF Flushed, AllWriters
    <2>4. ASSUME NEW p \in Paths, entries[p].kind = "file" PROVE entries'[p].len = size[entries[p].file]
      <3>1. entries'[p] = Regular(entries[p].file, size[entries[p].file])
        BY <2>3, <2>4
      <3> QED BY <3>1 DEF Regular
    <2> QED BY <1>1, <1>5, <2>2, <2>4 DEF Flushed
  <1>6. CASE ~SourceIsOpen(old)
    <2>1. Calm(entries, media, descriptors, size, settled)'
      BY <1>1, <1>2, <1>4, <1>6, FewerSettled
    <2>2. SameNames(entries', entries)
      BY <1>1, <1>3, <1>6 DEF SameNames
    <2>3. ASSUME NEW p \in Paths, Below(p, old), entries[p].kind = "file"
          PROVE  entries[p].len = size[entries[p].file]
      <3>1. ASSUME NEW f \in Fds, descriptors[f].mode = "write", descriptors[f].file = entries[p].file
            PROVE  FALSE
        <4>1. SlotAt(descriptors[f], descriptors[f].path, entries, size)
          BY <1>2 DEF Calm
        <4>2. /\ f \in Allocated /\ descriptors[f].path \in Paths
              /\ entries[descriptors[f].path].file = entries[p].file /\ entries[p].file # Nobody
          BY <3>1, <4>1 DEF SlotAt, Allocated, FreeSlot
        <4>3. descriptors[f].path = p
          BY <1>3, <4>2 DEF OneName
        <4>4. Affected(old, p, old)
          BY <1>3, <2>3, OnlyBelowDirectories DEF Affected
        <4> QED BY <1>6, <3>1, <4>2, <4>3, <4>4 DEF SourceIsOpen
      <3> QED BY <1>2, <2>3, <3>1 DEF Calm, Volumes, Lengths, Written
    <2> QED BY <1>1, <1>6, <2>1, <2>2, <2>3
  <1> QED BY <1>5, <1>6

LEMMA RenameStartsReady ==
    ASSUME FsInv, NEW old \in Paths \ Backups, NEW new \in Paths \ Backups, RenameStarts(old, new)
    PROVE  FsRename'
  <1>1. /\ rename.pc = "idle" /\ MayRename(old, new) /\ filesystem_state = "ready"
        /\ rename' = [Idle EXCEPT !.pc = IF Replaces(old, new) THEN "backup" ELSE "source",
                              !.old = old, !.new = new, !.file = entries[old].file,
                              !.replaces = Replaces(old, new)]
        /\ settled' = settled \ FilesBelow(entries, old)
        /\ UNCHANGED <<filesystem_state, descriptors, current_directory, size>>
    BY DEF RenameStarts, Ready
  <1>2. Calm(entries, media, descriptors, size, settled) /\ IsDir(current_directory)
    BY <1>1, InvIsCalm DEF Moving
  <1>3. entries \in [Paths -> Entry] /\ Tree(entries)
    BY <1>2 DEF Calm, Volumes
  <1>4. /\ \A p \in Paths : entries'[p].kind = entries[p].kind /\ entries'[p].file = entries[p].file
        /\ \A p \in Paths : Below(p, old) /\ entries[p].kind = "file" => entries'[p].len = size[entries[p].file]
    BY RenameStartsKeeps DEF SameNames
  <1>5. /\ rename'.pc = IF Replaces(old, new) THEN "backup" ELSE "source"
        /\ rename'.old = old /\ rename'.new = new /\ rename'.file = entries[old].file
        /\ rename'.replaces = Replaces(old, new)
    BY <1>1 DEF Idle
  <1>6. entries[old].kind # "none" /\ IsDir(Parent(new))
    BY <1>1 DEF MayRename
  <1>7. ASSUME old # new PROVE ~Below(new, old) /\ ~Below(old, new)
    <2>1. ASSUME Below(new, old) PROVE FALSE
      <3>1. entries[old].kind # "dir"
        BY <1>1, <1>7, <2>1 DEF MayRename
      <3>2. Below(Parent(new), old) /\ Parent(new) \in Paths \cup {<<>>} /\ old # <<>>
        BY <1>7, <2>1, PathParent, ConstantsAssumption DEF ConstantsAssumption
      <3>3. Parent(new) # <<>>
        BY <3>2, PathOrder
      <3>4. Parent(new) \in Paths /\ entries[Parent(new)].kind = "dir"
        BY <1>6, <3>3 DEF IsDir
      <3> QED BY <1>3, <3>1, <3>2, <3>4, OnlyBelowDirectories
    <2>2. ASSUME Below(old, new) PROVE FALSE
      <3>1. entries[new].kind = "dir"
        BY <1>3, <1>6, <1>7, <2>2 DEF Tree
      <3>2. entries[old].kind = "dir" /\ Empty(new)
        BY <1>1, <1>7, <3>1 DEF MayRename, Replaces
      <3> QED BY <1>6, <1>7, <2>2, <3>2 DEF Empty
    <2> QED BY <2>1, <2>2
  <1>8. SourceReady(old, new)'
    <2>1. \A f \in Allocated : Affected(old, descriptors[f].path, old) =>
              Migrated(descriptors[f].path, old, new) \in Paths
      BY <1>1 DEF MayRename
    <2>2. Below(current_directory, old) => Migrated(current_directory, old, new) \in Paths
      BY <1>1, <1>2, <1>3, CurrentIsBelowDirectories DEF MayRename
    <2>3. ASSUME NEW p \in Paths, Below(p, old), entries[p].kind # "none"
          PROVE  /\ Migrated(p, old, new) \in Paths
                 /\ entries[p].file \notin settled'
                 /\ entries[p].kind = "file" => entries'[p].len = size[entries[p].file]
      <3>1. Migrated(p, old, new) \in Paths
        BY <1>1, <2>3 DEF MayRename
      <3>2. entries[p].file \in FilesBelow(entries, old) \/ entries[p].file = Nobody
        BY <2>3 DEF FilesBelow
      <3>3. Nobody \notin settled
        BY <1>2, ConstantsAssumption DEF ConstantsAssumption, Calm, Volumes
      <3> QED BY <1>1, <1>4, <2>3, <3>1, <3>2, <3>3
    <2>4. Allocated' = Allocated /\ descriptors' = descriptors /\ current_directory' = current_directory /\ size' = size
      BY <1>1 DEF Allocated
    <2>5. (entries[old].kind = "dir")' <=> entries[old].kind = "dir"
      BY <1>4
    <2>6. entries'[old].kind # "none" /\ entries'[old].file = rename'.file
      BY <1>4, <1>5, <1>6
    <2>7. (\A f \in Allocated : Affected(old, descriptors[f].path, old) =>
               Migrated(descriptors[f].path, old, new) \in Paths)'
      BY <2>1, <2>4, <2>5 DEF Affected
    <2>8. \A p \in Paths : Below(p, old) /\ entries'[p].kind # "none" =>
           /\ Migrated(p, old, new) \in Paths
           /\ entries'[p].file \notin settled'
           /\ entries'[p].kind = "file" => entries'[p].len = size'[entries'[p].file]
      BY <1>4, <2>3, <2>4
    <2> QED BY <1>7, <2>2, <2>4, <2>6, <2>7, <2>8 DEF SourceReady
  <1>9. \A p : IsDir(p)' <=> IsDir(p)
    BY <1>4 DEF IsDir
  <1>10. ASSUME Replaces(old, new)
         PROVE  /\ old # new /\ entries'[new].kind = entries'[old].kind
                /\ Empty(new)' /\ IsDir(Parent(new))' /\ NameUnused(new)'
    <2>1. /\ old # new /\ entries[new].kind = entries[old].kind /\ ~InUse(old, new)
          /\ entries[old].kind = "dir" => ~Below(current_directory, new) /\ Empty(new)
      BY <1>1, <1>10 DEF MayRename, Replaces
    <2>2. Empty(new)
      BY <1>3, <2>1, OnlyBelowDirectories DEF Empty
    <2>3. ~Below(current_directory, new)
      BY <1>2, <1>3, <2>1, CurrentIsBelowDirectories
    <2>4. \A f \in Allocated : descriptors[f].path # new
      BY <2>1, PathOrder DEF InUse, Affected
    <2>5. NameUnused(new)'
      BY <1>1, <2>3, <2>4 DEF NameUnused, Allocated
    <2>6. Empty(new)'
      BY <1>4, <2>2 DEF Empty
    <2> QED BY <1>4, <1>6, <1>9, <2>1, <2>5, <2>6
  <1>11. ASSUME ~Replaces(old, new), old # new PROVE NameReady(new)'
    <2>1. entries[new].kind = "none"
      BY <1>11 DEF Replaces
    <2>2. \A p \in Paths : Below(p, new) => entries[p].kind = "none"
      BY <1>3, <2>1, OnlyBelowDirectories
    <2> QED BY <1>4, <1>6, <1>9, <2>2 DEF NameReady
  <1>12. filesystem_state' = "ready"
    BY <1>1
  <1> QED BY <1>5, <1>8, <1>10, <1>11, <1>12 DEF FsRename

LEMMA RenameStartsStep ==
    ASSUME FsInv, NEW old \in Paths \ Backups, NEW new \in Paths \ Backups, RenameStarts(old, new)
    PROVE  FsInv' /\ OpenedCurrent
  <1>1. /\ rename.pc = "idle" /\ Called
        /\ rename' = [Idle EXCEPT !.pc = IF Replaces(old, new) THEN "backup" ELSE "source",
                              !.old = old, !.new = new, !.file = entries[old].file,
                              !.replaces = Replaces(old, new)]
        /\ UNCHANGED <<filesystem_state, descriptors, current_directory, size, faults, resets>>
    BY DEF RenameStarts, Ready
  <1>2. Calm(entries, media, descriptors, size, settled) /\ IsDir(current_directory)
    BY <1>1, InvIsCalm DEF Moving
  <1>3. /\ Calm(entries, media, descriptors, size, settled)' /\ SameNames(entries', entries)
    BY RenameStartsKeeps
  <1>4. IsDir(current_directory)'
    BY <1>1, <1>2, <1>3, NamesStay DEF SameNames
  <1>5. entries[old].file \in Files \cup {Nobody}
    BY <1>2, EntryFacts DEF Calm, Volumes
  <1>6. rename' \in Renaming /\ rename'.pc \in {"backup", "source"}
    BY <1>1, <1>5 DEF Idle, Renaming, Replaces
  <1>7. FsTypes'
    BY <1>1, <1>6, ConstantsAssumption DEF ConstantsAssumption, FsInv, FsTypes, Called
  <1>8. FsInv'
    BY <1>3, <1>4, <1>6, <1>7, RenameStartsReady, CalmIsInv DEF Moving
  <1> QED BY <1>1, <1>8, NothingOpened

\* A step of a rename takes a fault or none, and leaves the calls alone.
LEMMA RenameTypes ==
    ASSUME FsInv, Works \/ Fails, rename' \in Renaming, current_directory' \in Paths \cup {<<>>},
           UNCHANGED <<filesystem_state, calls, resets>>
    PROVE  FsTypes'
  BY NoFaults, ConstantsAssumption DEF ConstantsAssumption, FsInv, FsTypes

LEMMA RenameIdles ==
    ASSUME FsInv, rename' = Idle, FsTypes', Calm(entries, media, descriptors, size, settled)',
           IsDir(current_directory)'
    PROVE  FsInv'
  <1>1. ~Moving' /\ FsRename'
    BY IdleIsIdle DEF Moving, FsRename
  <1> QED BY <1>1, CalmIsInv

\* A backup name that is free can take the destination.
LEMMA BackupMovable ==
    ASSUME FsInv, rename.pc = "backup", NEW b \in FreeBackups
    PROVE  /\ Movable(entries, rename.new, b) /\ rename.new # b
           /\ MovedLengths(entries, rename.new, size, settled \ {entries[rename.new].file})
           /\ \A p \in Paths : Below(p, rename.new) /\ p # rename.new => entries[p].kind = "none"
           /\ ~Below(rename.new, b) /\ ~Below(b, rename.new)
  <1> DEFINE new == rename.new
  <1>1. /\ new \in Paths \ Backups /\ entries[new].kind # "none" /\ Empty(new) /\ NameUnused(new)
        /\ b \in Backups /\ b \in Paths /\ entries[b].kind = "none"
    BY ConstantsAssumption DEF ConstantsAssumption, Top, FreeBackups, FsInv, FsRename, SourceReady
  <1>2. Calm(entries, media, descriptors, size, settled)
    BY InvIsCalm DEF Moving
  <1>3. /\ entries \in [Paths -> Entry] /\ Tree(entries) /\ OneName(entries) /\ settled \subseteq Files
        /\ descriptors \in [Fds -> Slot]
    BY <1>2 DEF Calm, Volumes
  <1> HIDE DEF new
  <1>4. new # b /\ ~Below(new, b) /\ ~Below(b, new)
    BY <1>1, <1>3, TopIsAlone, OnlyBelowDirectories
  <1>5. \A p \in Paths : Below(p, b) => entries[p].kind = "none"
    BY <1>1, <1>3, OnlyBelowDirectories
  <1>6. Parent(b) = <<>>
    BY <1>1, TopHasNoParent
  <1>7. \A p \in Paths : Below(p, new) /\ p # new => entries[p].kind = "none"
    BY <1>1 DEF Empty
  <1>8. Below(new, new) /\ Migrated(new, new, b) = b
    BY <1>1, PathOrder, PathMigrated
  <1>9. Movable(entries, new, b)
    BY <1>1, <1>3, <1>4, <1>5, <1>6, <1>7, <1>8 DEF Movable
  <1>10. entries[new].kind = "file" => entries[new].len = size[entries[new].file]
    <2>1. ASSUME entries[new].kind = "file"
          PROVE  ~Written(descriptors, entries[new].file)
      <3> SUFFICES ASSUME NEW f \in Fds, descriptors[f].mode = "write", descriptors[f].file = entries[new].file
                   PROVE  FALSE
        BY DEF Written
      <3>1. SlotAt(descriptors[f], descriptors[f].path, entries, size)
        BY <1>2 DEF Calm
      <3>2. /\ f \in Allocated /\ descriptors[f].path \in Paths
            /\ entries[descriptors[f].path].file = entries[new].file /\ entries[new].file # Nobody
        BY <3>1 DEF SlotAt, Allocated, FreeSlot
      <3>3. descriptors[f].path = new
        BY <1>1, <1>3, <3>2 DEF OneName
      <3> QED BY <1>1, <3>2, <3>3 DEF NameUnused
    <2> QED BY <1>1, <1>2, <2>1 DEF Calm, Volumes, Lengths
  <1>11. Nobody \notin settled
    BY <1>3, ConstantsAssumption DEF ConstantsAssumption
  <1>12. MovedLengths(entries, new, size, settled \ {entries[new].file})
    BY <1>7, <1>10, <1>11 DEF MovedLengths
  <1> QED BY <1>4, <1>7, <1>9, <1>12 DEF new

LEMMA BackupMoves ==
    ASSUME FsInv, rename.pc = "backup", NEW b \in FreeBackups,
           NEW old, old = rename.old, NEW new, new = rename.new,
           entries' = FxRenamed(entries, rename.new, b),
           rename' = [rename EXCEPT !.pc = "source", !.backup = b],
           settled' = settled \ {entries[rename.new].file}, Works,
           UNCHANGED <<filesystem_state, media, descriptors, current_directory, size, calls, resets>>
    PROVE  FsInv' /\ Held(entries) \subseteq Held(entries')
  <1>1. Calm(entries, media, descriptors, size, settled) /\ IsDir(current_directory)
    BY InvIsCalm DEF Moving
  <1>2. /\ entries \in [Paths -> Entry] /\ Tree(entries) /\ OneName(entries)
    BY <1>1 DEF Calm, Volumes
  <1>3. /\ rename \in Renaming /\ b \in Backups /\ b \in Paths /\ entries[b].kind = "none"
        /\ {old, new} \subseteq Paths \ Backups /\ filesystem_state = "ready"
        /\ SourceReady(old, new) /\ rename.replaces /\ old # new /\ entries[new].kind = entries[old].kind
        /\ Empty(new) /\ IsDir(Parent(new)) /\ NameUnused(new)
    BY ConstantsAssumption DEF ConstantsAssumption, Top, FreeBackups, FsInv, FsTypes, FsRename
  <1>4. /\ rename'.pc = "source" /\ rename'.old = old /\ rename'.new = new /\ rename'.backup = b
        /\ rename'.file = rename.file /\ rename'.replaces = rename.replaces /\ rename' \in Renaming
    BY <1>3 DEF Renaming
  <1>5. /\ Movable(entries, new, b) /\ new # b
        /\ MovedLengths(entries, new, size, settled')
        /\ \A p \in Paths : Below(p, new) /\ p # new => entries[p].kind = "none"
        /\ ~Below(new, b) /\ ~Below(b, new)
    BY BackupMovable
  <1>6. /\ entries' \in [Paths -> Entry]
        /\ \A p \in Paths : ~Below(p, new) /\ ~Below(p, b) => entries'[p] = entries[p]
        /\ Below(new, new) /\ Migrated(new, new, b) \in Paths => entries'[Migrated(new, new, b)] = entries[new]
        /\ \A p \in Paths : Below(p, new) => entries'[p] = Absent
        /\ \A p \in Paths : Below(p, b) /\ entries'[p].kind # "none" =>
               /\ Migrated(p, b, new) \in Paths /\ Below(Migrated(p, b, new), new)
               /\ Migrated(Migrated(p, b, new), new, b) = p
               /\ entries'[p] = entries[Migrated(p, b, new)]
    BY <1>3, <1>5, RenamedEntries
  <1>7. entries'[b] = entries[new] /\ Below(new, new) /\ Migrated(new, new, b) = b
    BY <1>3, <1>6, PathOrder, PathMigrated
  <1>8. \A p \in Paths : Below(p, b) => entries[p].kind = "none"
    BY <1>2, <1>3, OnlyBelowDirectories
  <1>9. Volumes(entries, media, descriptors, size, settled)'
    <2>1. Volumes(entries, media, descriptors, size, settled')
      BY <1>1, FewerSettled DEF Calm
    <2> QED BY <1>5, <2>1, MovingKeeps
  <1>10. ASSUME NEW f \in Fds PROVE SlotAt(descriptors[f], descriptors[f].path, entries', size)
    <2>1. SlotAt(descriptors[f], descriptors[f].path, entries, size)
      BY <1>1 DEF Calm
    <2>2. Below(descriptors[f].path, new) => entries[descriptors[f].path].kind = "none"
      <3>1. CASE descriptors[f].allocated
        BY <1>3, <1>5, <2>1, <3>1 DEF NameUnused, Allocated, SlotAt
      <3>2. CASE ~descriptors[f].allocated
        <4>1. descriptors[f].path = <<>> /\ new # <<>>
          BY <1>3, <2>1, <3>2, ConstantsAssumption DEF ConstantsAssumption, SlotAt, FreeSlot
        <4> QED BY <1>3, <4>1, PathOrder
      <3> QED BY <3>1, <3>2
    <2> QED BY <1>5, <2>1, <2>2, SlotStays
  <1>11. Calm(entries, media, descriptors, size, settled)'
    BY <1>9, <1>10 DEF Calm
  <1>12. \A p : p = <<>> \/ (~Below(p, new) /\ IsDir(p)) => IsDir(p)'
    BY <1>6, <1>8 DEF IsDir
  <1>13. ~Below(current_directory, new) /\ IsDir(current_directory)'
    BY <1>1, <1>3, <1>12 DEF NameUnused, IsDir
  <1>14. FsTypes'
    BY <1>4, RenameTypes DEF FsInv, FsTypes
  <1>15. NameReady(new)'
    <2>1. new \in Paths
      BY <1>3
    <2>2. ~Below(Parent(new), new)
      BY <2>1, PathParent, PathOrder
    <2> QED BY <1>3, <1>6, <1>12, <2>2 DEF NameReady, Absent
  <1>16. NameUnused(new)'
    BY <1>3 DEF NameUnused, Allocated
  <1>17. BackupReady(b)'
    <2>1. Empty(b)'
      <3> SUFFICES ASSUME NEW p \in Paths, Below(p, b), p # b, entries'[p].kind # "none" PROVE FALSE
        BY DEF Empty
      <3>1. /\ Migrated(p, b, new) \in Paths /\ Below(Migrated(p, b, new), new)
            /\ Migrated(Migrated(p, b, new), new, b) = p
            /\ entries'[p] = entries[Migrated(p, b, new)]
        BY <1>6
      <3>2. Migrated(p, b, new) # new
        BY <1>7, <3>1
      <3> QED BY <1>5, <3>1, <3>2
    <2>2. ~Below(current_directory, b)
      BY <1>1, <1>2, <1>3, CurrentIsBelowDirectories
    <2>3. entries[new].file \notin settled' /\ entries[new].kind # "none"
      BY <1>3 DEF SourceReady
    <2>4. entries[new].file # Nobody => entries[new].len = size[entries[new].file]
      <3>1. new \in Paths /\ entries[new] \in Entry
        BY <1>2, <1>3
      <3> QED BY <1>5, <1>7, <2>3, <3>1, EntryFacts DEF MovedLengths
    <2> QED BY <1>3, <1>4, <1>5, <1>7, <2>1, <2>2, <2>3, <2>4 DEF BackupReady
  <1>18. SourceReady(old, new)'
    <2>1. \A p \in Paths : Below(p, old) => ~Below(p, new)
      BY <1>3, PathOrder DEF SourceReady
    <2>2. \A p \in Paths : Below(p, old) => entries'[p] = entries[p] \/ (Below(p, b) /\ entries[p].kind = "none")
      BY <1>6, <1>8, <2>1
    <2>3. \A p \in Paths : Below(p, old) /\ entries'[p].kind # "none" => entries'[p] = entries[p] /\ entries[p].kind # "none"
      <3> SUFFICES ASSUME NEW p \in Paths, Below(p, old), entries'[p].kind # "none", Below(p, b) PROVE FALSE
        BY <2>2
      <3>1. entries[old].kind # "none" /\ old \in Paths
        BY <1>3 DEF SourceReady
      <3>2. Below(b, old) \/ Below(old, b)
        BY <1>3, <3>1, PathOrder
      <3> QED BY <1>3, <1>8, <3>1, <3>2, TopIsAlone
    <2>4. Below(old, old) /\ old \in Paths
      BY <1>3, PathOrder
    <2>5. entries'[old] = entries[old]
      BY <1>3, <1>8, <2>2, <2>4 DEF SourceReady
    <2>6. /\ \A p \in Paths : Below(p, old) /\ entries'[p].kind # "none" =>
               /\ Migrated(p, old, new) \in Paths
               /\ entries'[p].file \notin settled'
               /\ entries'[p].kind = "file" => entries'[p].len = size[entries'[p].file]
      BY <1>3, <2>3 DEF SourceReady
    <2>7. (\A f \in Allocated : Affected(old, descriptors[f].path, old) =>
               Migrated(descriptors[f].path, old, new) \in Paths)'
      BY <1>3, <2>5 DEF SourceReady, Affected, Allocated
    <2> QED BY <1>3, <1>4, <2>5, <2>6, <2>7 DEF SourceReady
  <1>19. FsRename'
    BY <1>3, <1>4, <1>15, <1>16, <1>17, <1>18 DEF FsRename
  <1>20. FsInv'
    BY <1>4, <1>11, <1>13, <1>14, <1>19, CalmIsInv DEF Moving
  <1>21. Held(entries) \subseteq Held(entries')
    BY <1>5, RenamedHeld
  <1> QED BY <1>20, <1>21

LEMMA BackupStep ==
    ASSUME FsInv, Backup
    PROVE  FsInv' /\ OpenedCurrent /\ RenameKeeps
  <1>1. /\ rename.pc = "backup" /\ settled' = settled \ {entries[rename.new].file}
        /\ UNCHANGED <<filesystem_state, media, descriptors, current_directory, size, calls, resets>>
        /\ \/ /\ FreeBackups # {}
              /\ LET b == CHOOSE x \in FreeBackups : TRUE IN
                 /\ entries' = FxRenamed(entries, rename.new, b)
                 /\ rename' = [rename EXCEPT !.pc = "source", !.backup = b]
              /\ Works
           \/ rename' = Idle /\ UNCHANGED entries /\ (Works \/ Fails)
    BY DEF Backup, RenameEnds
  <1>2. Calm(entries, media, descriptors, size, settled) /\ IsDir(current_directory)
    BY <1>1, InvIsCalm DEF Moving
  <1>3. /\ rename \in Renaming /\ entries[rename.new].kind # "none"
    BY <1>1 DEF FsInv, FsTypes, FsRename, SourceReady
  <1>4. OpenedCurrent
    BY <1>1, NothingOpened
  <1>5. CASE /\ FreeBackups # {} /\ Works
             /\ LET b == CHOOSE x \in FreeBackups : TRUE IN
                 /\ entries' = FxRenamed(entries, rename.new, b)
                 /\ rename' = [rename EXCEPT !.pc = "source", !.backup = b]
    <2>1. PICK b \in FreeBackups : /\ entries' = FxRenamed(entries, rename.new, b)
                                   /\ rename' = [rename EXCEPT !.pc = "source", !.backup = b]
      BY <1>5
    <2>2. FsInv' /\ Held(entries) \subseteq Held(entries')
      BY <1>1, <1>5, <2>1, BackupMoves
    <2>3. rename'.pc = "source"
      BY <1>3, <2>1 DEF Renaming
    <2> QED BY <1>4, <2>2, <2>3 DEF RenameKeeps
  <1>6. CASE rename' = Idle /\ UNCHANGED entries /\ (Works \/ Fails)
    <2>1. Calm(entries, media, descriptors, size, settled)' /\ IsDir(current_directory)'
      BY <1>1, <1>2, <1>6, FewerSettled DEF IsDir
    <2>2. FsTypes'
      BY <1>1, <1>6, IdleIsIdle, RenameTypes DEF FsInv, FsTypes
    <2>3. FsInv'
      BY <1>6, <2>1, <2>2, RenameIdles
    <2> QED BY <1>3, <1>4, <1>6, <2>3 DEF RenameKeeps
  <1> QED BY <1>1, <1>5, <1>6

LEMMA SourceMovable ==
    ASSUME FsInv, rename.pc = "source", NEW old, old = rename.old, NEW new, new = rename.new
    PROVE  /\ Movable(entries, old, new) /\ MovedLengths(entries, old, size, settled)
           /\ {old, new} \subseteq Paths \ Backups /\ SourceReady(old, new)
           /\ filesystem_state = "ready"
           /\ old # new => NameReady(new)
  <1>1. /\ {old, new} \subseteq Paths \ Backups /\ SourceReady(old, new) /\ filesystem_state = "ready"
        /\ old # new => NameReady(new)
    BY DEF FsInv, FsRename
  <1>2. entries \in [Paths -> Entry] /\ Tree(entries) /\ OneName(entries)
    BY DEF FsInv, FsVolumes, Volumes
  <1>3. Movable(entries, old, new)
    BY <1>1, <1>2 DEF Movable, SourceReady, NameReady, IsDir
  <1>4. MovedLengths(entries, old, size, settled)
    BY <1>1 DEF MovedLengths, SourceReady
  <1> QED BY <1>1, <1>3, <1>4

\* The flush before left the open handles nothing to lose.
LEMMA HandlesKeep ==
    ASSUME FsInv, rename.pc = "source"
    PROVE  FxRenamedHandles(entries, rename.old) = descriptors
  <1>1. Calm(entries, media, descriptors, size, settled)
    BY InvIsCalm DEF Moving
  <1>2. /\ entries \in [Paths -> Entry] /\ OneName(entries) /\ descriptors \in [Fds -> Slot]
    BY <1>1 DEF Calm, Volumes
  <1>3. MovedLengths(entries, rename.old, size, settled)
    BY SourceMovable
  <1>4. ASSUME NEW f \in Fds, descriptors[f].mode = "write", descriptors[f].file \in FilesBelow(entries, rename.old)
        PROVE  [descriptors[f] EXCEPT !.len = entries[CHOOSE p \in Paths : entries[p].file = descriptors[f].file].len]
                   = descriptors[f]
    <2>1. PICK q \in Paths : Below(q, rename.old) /\ entries[q].file = descriptors[f].file /\ entries[q].file # Nobody
      BY <1>4 DEF FilesBelow
    <2>2. (CHOOSE p \in Paths : entries[p].file = descriptors[f].file) = q
      BY <1>2, <2>1 DEF OneName
    <2>3. entries[q].kind = "file"
      BY <1>2, <2>1, EntryFacts
    <2>4. entries[q].len = size[descriptors[f].file]
      BY <1>3, <2>1, <2>3 DEF MovedLengths
    <2>5. descriptors[f].len = size[descriptors[f].file] /\ descriptors[f] \in Slot
      BY <1>1, <1>2, <1>4 DEF Calm, SlotAt
    <2> QED BY <2>2, <2>4, <2>5 DEF Slot
  <1> QED BY <1>2, <1>4 DEF FxRenamedHandles

LEMMA SourceMoves ==
    ASSUME FsInv, rename.pc = "source", NEW old, old = rename.old, NEW new, new = rename.new,
           entries' = FxRenamed(entries, old, new), descriptors' = descriptors,
           rename' = [rename EXCEPT !.pc = IF rename.replaces THEN "delete" ELSE "migrate"], Works,
           UNCHANGED <<filesystem_state, media, current_directory, size, settled, calls, resets>>
    PROVE  FsInv' /\ Held(entries) \subseteq Held(entries') /\ rename'.pc # "idle"
  <1>1. Calm(entries, media, descriptors, size, settled) /\ IsDir(current_directory)
    BY InvIsCalm DEF Moving
  <1>2. entries \in [Paths -> Entry] /\ Tree(entries) /\ OneName(entries) /\ rename \in Renaming
    BY <1>1 DEF Calm, Volumes, FsInv, FsTypes
  <1>3. /\ Movable(entries, old, new) /\ MovedLengths(entries, old, size, settled)
        /\ {old, new} \subseteq Paths \ Backups /\ SourceReady(old, new) /\ filesystem_state = "ready"
        /\ old # new => NameReady(new)
    BY SourceMovable
  <1>4. entries[old].kind # "none" /\ entries[old].file = rename.file
    BY <1>3 DEF SourceReady
  <1>5. /\ rename'.pc = (IF rename.replaces THEN "delete" ELSE "migrate") /\ rename'.old = old /\ rename'.new = new
        /\ rename'.backup = rename.backup /\ rename'.file = rename.file
        /\ rename'.replaces = rename.replaces /\ rename' \in Renaming
    BY <1>2 DEF Renaming
  <1>6. /\ old = new => entries' = entries
        /\ old # new => /\ entries' \in [Paths -> Entry]
                        /\ \A p \in Paths : ~Below(p, old) /\ ~Below(p, new) => entries'[p] = entries[p]
                        /\ \A p \in Paths : Below(p, old) /\ Migrated(p, old, new) \in Paths =>
                               entries'[Migrated(p, old, new)] = entries[p]
                        /\ \A p \in Paths : Below(p, old) => entries'[p] = Absent
                        /\ \A p \in Paths : Below(p, new) /\ entries'[p].kind # "none" =>
                               /\ Migrated(p, new, old) \in Paths /\ Below(Migrated(p, new, old), old)
                               /\ entries'[p] = entries[Migrated(p, new, old)]
    BY <1>3, RenamedSame, RenamedEntries
  <1>7. Migrated(old, old, new) = new /\ Below(old, old) /\ Below(new, new)
    BY <1>3, PathOrder, PathMigrated
  <1>8. entries'[new] = entries[old]
    BY <1>3, <1>6, <1>7
  <1>9. Volumes(entries, media, descriptors, size, settled)'
    BY <1>1, <1>3, MovingKeeps DEF Calm
  <1>10. ASSUME NEW f \in Fds
         PROVE  SlotAt(descriptors[f], MovedTo(entries', descriptors[f].path, old, new), entries', size)
    <2>1. SlotAt(descriptors[f], descriptors[f].path, entries, size)
      BY <1>1 DEF Calm
    <2>2. descriptors[f].allocated /\ (IF entries[old].kind = "dir" THEN Below(descriptors[f].path, old)
                                       ELSE descriptors[f].path = old) =>
              Migrated(descriptors[f].path, old, new) \in Paths
      BY <1>3 DEF SourceReady, Affected, Allocated
    <2> QED BY <1>3, <1>4, <2>1, <2>2, SlotMoves
  <1>11. Moving'
    BY <1>5 DEF Moving
  <1>12. FsSlots'
    <2>1. ASSUME NEW f \in Fds PROVE SlotAt(descriptors[f], Where(descriptors[f].path), entries, size)'
      <3>1. Where(descriptors[f].path)' = MovedTo(entries', descriptors[f].path, old, new)
        BY <1>5, <1>11 DEF Where, MovedTo
      <3> QED BY <1>10, <3>1
    <2> QED BY <2>1 DEF FsSlots
  <1>13. FsDirectory'
    <2> DEFINE cwd == current_directory
               to == IF entries'[new].kind = "dir" THEN Migrated(cwd, old, new) ELSE cwd
    <2>1. to = <<>> \/ (to \in Paths /\ entries'[to].kind = "dir")
      <3>1. CASE Below(cwd, old)
        <4>1. entries[old].kind = "dir" /\ cwd \in Paths /\ entries[cwd].kind = "dir"
          <5>1. cwd # <<>>
            <6>1. old # <<>> /\ old \in Paths
              BY <1>3, ConstantsAssumption DEF ConstantsAssumption
            <6> QED BY <3>1, <6>1, PathOrder
          <5> QED BY <1>1, <1>2, <1>3, <3>1, <5>1, CurrentIsBelowDirectories DEF IsDir
        <4>2. to = Migrated(cwd, old, new) /\ to \in Paths
          BY <1>3, <1>8, <3>1, <4>1 DEF SourceReady
        <4>3. entries'[to] = entries[cwd]
          <5>1. CASE old = new
            <6>1. to = cwd
              BY <3>1, <4>1, <4>2, <5>1, <1>3, MigratedSelf, PathsAre
            <6> QED BY <1>6, <5>1, <6>1
          <5>2. CASE old # new
            BY <1>6, <3>1, <4>1, <4>2, <5>2
          <5> QED BY <5>1, <5>2
        <4> QED BY <4>1, <4>2, <4>3
      <3>2. CASE ~Below(cwd, old)
        <4>1. to = cwd
          BY <3>2 DEF Migrated
        <4>2. old # new /\ cwd # <<>> => ~Below(cwd, new)
          BY <1>1, <1>3 DEF NameReady, IsDir
        <4> QED BY <1>1, <1>6, <3>2, <4>1, <4>2 DEF IsDir
      <3> QED BY <3>1, <3>2
    <2>2. NewDirectory' = to
      BY <1>5 DEF NewDirectory
    <2> HIDE DEF to
    <2> QED BY <1>11, <2>1, <2>2 DEF FsDirectory, IsDir
  <1>14. FsTypes'
    BY <1>5, RenameTypes DEF FsInv, FsTypes
  <1>15. ASSUME rename.replaces PROVE BackupReady(rename.backup)'
    <2>1. BackupReady(rename.backup) /\ old # new
      BY <1>15 DEF FsInv, FsRename
    <2> DEFINE b == rename.backup
    <2>2. /\ b \in Backups /\ b \in Paths /\ ~Below(new, b) /\ Empty(b) /\ entries[b].kind # "none"
      BY <2>1, ConstantsAssumption DEF ConstantsAssumption, BackupReady, Top
    <2>3. ~Below(b, old) /\ ~Below(b, new)
      BY <1>3, <2>2, TopIsAlone
    <2>4. entries'[b] = entries[b]
      BY <1>6, <2>1, <2>2, <2>3
    <2>5. \A p \in Paths : Below(p, b) /\ p # b => entries'[p].kind = "none"
      <3> SUFFICES ASSUME NEW p \in Paths, Below(p, b), p # b PROVE entries'[p].kind = "none"
        OBVIOUS
      <3>1. ~Below(p, new)
        BY <1>3, <2>2, <2>3, PathOrder
      <3>2. entries'[p] = entries[p] \/ entries'[p] = Absent
        BY <1>6, <2>1, <3>1
      <3> QED BY <2>2, <3>2 DEF Empty, Absent
    <2> QED BY <1>5, <2>1, <2>4, <2>5 DEF BackupReady, Empty
  <1>16. FsRename'
    BY <1>3, <1>4, <1>5, <1>8, <1>15 DEF FsRename
  <1>17. FsInv'
    BY <1>9, <1>12, <1>13, <1>14, <1>16 DEF FsInv, FsVolumes
  <1>18. Held(entries) \subseteq Held(entries')
    BY <1>3, RenamedHeld
  <1> QED BY <1>5, <1>17, <1>18

LEMMA MoveSourceStep ==
    ASSUME FsInv, MoveSource
    PROVE  FsInv' /\ OpenedCurrent /\ RenameKeeps
  <1>1. rename.pc = "source" /\ UNCHANGED <<filesystem_state, media, current_directory, size, settled, calls, resets>>
    BY DEF MoveSource, ghosts
  <1>2. CASE /\ entries' = FxRenamed(entries, rename.old, rename.new)
             /\ descriptors' = FxRenamedHandles(entries, rename.old)
             /\ rename' = [rename EXCEPT !.pc = IF rename.replaces THEN "delete" ELSE "migrate"]
             /\ Works
    <2>1. descriptors' = descriptors
      BY <1>1, <1>2, HandlesKeep
    <2>2. FsInv' /\ Held(entries) \subseteq Held(entries') /\ rename'.pc # "idle"
      BY <1>1, <1>2, <2>1, SourceMoves
    <2> QED BY <2>1, <2>2, NothingOpened DEF RenameKeeps
  <1>3. CASE rename' = AfterFailedMove /\ UNCHANGED <<entries, descriptors>> /\ Fails
    <2>1. Calm(entries, media, descriptors, size, settled) /\ IsDir(current_directory) /\ rename \in Renaming
      BY <1>1, InvIsCalm DEF Moving, FsInv, FsTypes
    <2>2. Calm(entries, media, descriptors, size, settled)' /\ IsDir(current_directory)'
      BY <1>1, <1>3, <2>1 DEF IsDir
    <2>3. OpenedCurrent
      BY <1>3, NothingOpened
    <2>4. Held(entries) = Held(entries')
      BY <1>3
    <2>5. CASE ~rename.replaces
      <3>1. rename' = Idle
        BY <1>3, <2>5 DEF AfterFailedMove
      <3>2. FsTypes'
        BY <1>1, <1>3, <3>1, IdleIsIdle, RenameTypes DEF FsInv, FsTypes
      <3> QED BY <2>2, <2>3, <2>4, <2>5, <3>1, <3>2, RenameIdles DEF RenameKeeps
    <2>6. CASE rename.replaces
      <3>1. /\ rename'.pc = "restore" /\ rename'.old = rename.old /\ rename'.new = rename.new
            /\ rename'.backup = rename.backup /\ rename'.file = rename.file /\ rename'.replaces /\ rename' \in Renaming
        BY <1>3, <2>1, <2>6 DEF AfterFailedMove, Renaming
      <3>2. FsTypes'
        BY <1>1, <1>3, <3>1, RenameTypes DEF FsInv, FsTypes
      <3>3. /\ BackupReady(rename.backup) /\ NameUnused(rename.new) /\ NameReady(rename.new)
            /\ filesystem_state = "ready" /\ {rename.old, rename.new} \subseteq Paths \ Backups
        BY <1>1, <2>6 DEF FsInv, FsRename
      <3>4. BackupReady(rename.backup)' /\ NameUnused(rename.new)' /\ NameReady(rename.new)'
        BY <1>1, <1>3, <3>1, <3>3 DEF BackupReady, NameUnused, NameReady, Empty, Allocated, IsDir
      <3>5. FsRename'
        BY <1>1, <3>1, <3>3, <3>4 DEF FsRename
      <3>6. FsInv'
        BY <2>2, <3>1, <3>2, <3>5, CalmIsInv DEF Moving
      <3> QED BY <2>3, <2>4, <3>1, <3>6 DEF RenameKeeps
    <2> QED BY <2>5, <2>6
  <1> QED BY <1>2, <1>3 DEF MoveSource

LEMMA BackupMovesBack ==
    ASSUME FsInv, rename.pc = "restore", NEW b, b = rename.backup, NEW new, new = rename.new,
           entries' = FxRenamed(entries, b, new), rename' = Idle, Works,
           UNCHANGED <<filesystem_state, media, descriptors, current_directory, size, settled, calls, resets>>
    PROVE  FsInv' /\ Held(entries) \subseteq Held(entries')
  <1>1. Calm(entries, media, descriptors, size, settled) /\ IsDir(current_directory)
    BY InvIsCalm DEF Moving
  <1>2. entries \in [Paths -> Entry] /\ Tree(entries) /\ OneName(entries)
    BY <1>1 DEF Calm, Volumes
  <1>3. /\ new \in Paths \ Backups /\ BackupReady(b) /\ NameUnused(new) /\ NameReady(new)
        /\ b \in Backups /\ b \in Paths
    BY ConstantsAssumption DEF ConstantsAssumption, Top, BackupReady, FsInv, FsRename
  <1>4. ~Below(new, b) /\ ~Below(b, new) /\ Migrated(b, b, new) = new
    BY <1>3, TopIsAlone, PathOrder, PathMigrated DEF BackupReady
  <1>5. Movable(entries, b, new) /\ MovedLengths(entries, b, size, settled) /\ b # new
    <2>1. \A p \in Paths : Below(p, b) /\ p # b => entries[p].kind = "none"
      BY <1>3 DEF BackupReady, Empty
    <2>2. entries[b].kind = "file" => entries[b].file # Nobody
      BY <1>2, <1>3, EntryFacts
    <2> QED BY <1>2, <1>3, <1>4, <2>1, <2>2 DEF Movable, MovedLengths, BackupReady, NameReady, IsDir
  <1>6. Volumes(entries, media, descriptors, size, settled)'
    BY <1>1, <1>5, MovingKeeps DEF Calm
  <1>7. ASSUME NEW f \in Fds PROVE SlotAt(descriptors[f], descriptors[f].path, entries', size)
    <2>1. SlotAt(descriptors[f], descriptors[f].path, entries, size)
      BY <1>1 DEF Calm
    <2>2. Below(descriptors[f].path, b) => entries[descriptors[f].path].kind = "none"
      <3>1. CASE descriptors[f].allocated
        BY <1>3, <2>1, <3>1 DEF BackupReady, Empty, SlotAt
      <3>2. CASE ~descriptors[f].allocated
        <4>1. descriptors[f].path = <<>> /\ b # <<>>
          BY <1>3, <2>1, <3>2, ConstantsAssumption DEF ConstantsAssumption, SlotAt, FreeSlot
        <4> QED BY <1>3, <4>1, PathOrder
      <3> QED BY <3>1, <3>2
    <2> QED BY <1>5, <2>1, <2>2, SlotStays
  <1>8. Calm(entries, media, descriptors, size, settled)'
    BY <1>6, <1>7 DEF Calm
  <1>9. IsDir(current_directory)'
    <2>1. \A p \in Paths : ~Below(p, b) /\ ~Below(p, new) => entries'[p] = entries[p]
      BY <1>5, RenamedEntries
    <2>2. ~Below(current_directory, b) /\ ~Below(current_directory, new)
      BY <1>3 DEF BackupReady, NameUnused
    <2> QED BY <1>1, <2>1, <2>2 DEF IsDir
  <1>10. FsTypes'
    BY IdleIsIdle, RenameTypes DEF FsInv, FsTypes
  <1>11. FsInv'
    BY <1>8, <1>9, <1>10, RenameIdles
  <1>12. Held(entries) \subseteq Held(entries')
    BY <1>5, RenamedHeld
  <1> QED BY <1>11, <1>12

LEMMA RestoreStep ==
    ASSUME FsInv, Restore
    PROVE  FsInv' /\ OpenedCurrent /\ RenameKeeps
  <1>1. /\ rename.pc = "restore" /\ rename' = Idle
        /\ UNCHANGED <<filesystem_state, media, descriptors, current_directory, size, settled, calls, resets>>
        /\ \/ entries' = FxRenamed(entries, rename.backup, rename.new) /\ Works
           \/ UNCHANGED entries /\ Fails
    BY DEF Restore, RenameEnds, ghosts
  <1>2. OpenedCurrent
    BY <1>1, NothingOpened
  <1>3. CASE entries' = FxRenamed(entries, rename.backup, rename.new) /\ Works
    <2>1. FsInv' /\ Held(entries) \subseteq Held(entries')
      BY <1>1, <1>3, BackupMovesBack
    <2> QED BY <1>1, <1>2, <2>1 DEF RenameKeeps
  <1>4. CASE UNCHANGED entries /\ Fails
    <2>1. Calm(entries, media, descriptors, size, settled) /\ IsDir(current_directory)
      BY <1>1, InvIsCalm DEF Moving
    <2>2. Calm(entries, media, descriptors, size, settled)' /\ IsDir(current_directory)'
      BY <1>1, <1>4, <2>1 DEF IsDir
    <2>3. FsTypes'
      BY <1>1, <1>4, IdleIsIdle, RenameTypes DEF FsInv, FsTypes
    <2> QED BY <1>1, <1>2, <1>4, <2>2, <2>3, RenameIdles DEF RenameKeeps
  <1> QED BY <1>1, <1>3, <1>4

\* While the source has moved and its descriptors have not, the other entries
\* may go: no descriptor and no current directory is on them.
LEMMA BackupGoes ==
    ASSUME FsInv, rename.pc = "delete", NEW b, b = rename.backup,
           entries' = [entries EXCEPT ![b] = Absent],
           rename' = [rename EXCEPT !.pc = "migrate"], Works,
           UNCHANGED <<filesystem_state, media, descriptors, current_directory, size, settled, calls, resets>>
    PROVE  FsInv'
  <1>1. /\ entries \in [Paths -> Entry] /\ Tree(entries) /\ OneName(entries) /\ rename \in Renaming
        /\ descriptors \in [Fds -> Slot]
        /\ Volumes(entries, media, descriptors, size, settled)
    BY DEF FsInv, FsVolumes, Volumes, FsTypes
  <1>2. /\ {rename.old, rename.new} \subseteq Paths \ Backups /\ BackupReady(b)
        /\ b \in Backups /\ b \in Paths /\ filesystem_state = "ready" /\ entries[rename.new].kind # "none"
    BY ConstantsAssumption DEF ConstantsAssumption, Top, BackupReady, FsInv, FsRename
  <1>3. /\ rename'.pc = "migrate" /\ rename'.old = rename.old /\ rename'.new = rename.new /\ rename' \in Renaming
    BY <1>1 DEF Renaming
  <1>4. /\ entries' \in [Paths -> Entry] /\ entries'[b] = Absent /\ \A p \in Paths : p # b => entries'[p] = entries[p]
    BY <1>1, <1>2 DEF Entry
  <1>5. entries'[rename.new] = entries[rename.new]
    BY <1>2, <1>4
  <1>6. Volumes(entries', media, descriptors, size, settled)
    <2>1. Tree(entries')
      BY <1>1, <1>2, RemovedTree DEF BackupReady, Empty
    <2>2. OneName(entries')
      BY <1>1, <1>4 DEF OneName, Absent
    <2>3. Lengths(entries', descriptors, size)
      BY <1>1, <1>4 DEF Volumes, Lengths, Absent
    <2>4. Settles(entries', media, size, settled)
      <3> SUFFICES ASSUME NEW o \in settled
                   PROVE  \E p \in Paths : media[p] = Regular(o, size[o]) /\ entries'[p] = media[p]
        BY DEF Settles
      <3>1. PICK p \in Paths : media[p] = Regular(o, size[o]) /\ entries[p] = media[p]
        BY <1>1 DEF Volumes, Settles
      <3>2. p # b
        BY <1>2, <3>1 DEF BackupReady, Regular
      <3> QED BY <1>4, <3>1, <3>2
    <2> QED BY <1>1, <1>4, <2>1, <2>2, <2>3, <2>4 DEF Volumes
  <1>8. ASSUME NEW f \in Fds
        PROVE  SlotAt(descriptors[f], Where(descriptors[f].path), entries', size)
    <2> DEFINE w == Where(descriptors[f].path)
    <2>1. SlotAt(descriptors[f], w, entries, size)
      BY DEF FsInv, FsSlots
    <2> HIDE DEF w
    <2>2. descriptors[f].allocated => w \in Paths \ Backups
      BY <2>1 DEF SlotAt
    <2>3. descriptors[f].allocated => entries'[w] = entries[w]
      BY <1>2, <1>4, <2>2
    <2> QED BY <2>1, <2>3 DEF SlotAt, FreeSlot, w
  <1>9. FsSlots'
    <2>1. ASSUME NEW f \in Fds PROVE SlotAt(descriptors[f], Where(descriptors[f].path), entries, size)'
      <3>1. Where(descriptors[f].path)' = Where(descriptors[f].path)
        BY <1>3, <1>5 DEF Where, Moving
      <3> QED BY <1>8, <3>1
    <2> QED BY <2>1 DEF FsSlots
  <1>10. FsDirectory'
    <2>1. Moving /\ Moving' /\ NewDirectory' = NewDirectory /\ IsDir(NewDirectory)
      BY <1>3, <1>5 DEF Moving, NewDirectory, FsInv, FsDirectory
    <2>2. NewDirectory # b
      <3>1. current_directory # b
        BY <1>2, PathOrder DEF BackupReady
      <3>2. CASE NewDirectory = current_directory
        BY <3>1, <3>2
      <3>3. CASE NewDirectory = Migrated(current_directory, rename.old, rename.new) /\ Below(current_directory, rename.old)
        <4>1. Below(NewDirectory, rename.new)
          BY <1>2, <3>3, PathMigrated DEF FsInv, FsTypes
        <4> QED BY <1>2, <4>1, TopIsAlone
      <3> QED BY <3>2, <3>3 DEF NewDirectory, Migrated
    <2> QED BY <1>4, <2>1, <2>2 DEF FsDirectory, IsDir
  <1>11. FsTypes'
    BY <1>3, RenameTypes DEF FsInv, FsTypes
  <1>12. FsRename'
    BY <1>2, <1>3, <1>5 DEF FsRename
  <1> QED BY <1>6, <1>9, <1>10, <1>11, <1>12 DEF FsInv, FsVolumes

LEMMA DeleteBackupStep ==
    ASSUME FsInv, DeleteBackup
    PROVE  FsInv' /\ OpenedCurrent /\ RenameKeeps
  <1>1. /\ rename.pc = "delete"
        /\ UNCHANGED <<filesystem_state, media, descriptors, current_directory, size, settled, calls, resets>>
        /\ \/ /\ entries' = [entries EXCEPT ![rename.backup] = Absent]
              /\ rename' = [rename EXCEPT !.pc = "migrate"] /\ Works
           \/ UNCHANGED entries /\ rename' = [rename EXCEPT !.pc = "migrate", !.failed = TRUE] /\ Fails
    BY DEF DeleteBackup, ghosts
  <1>2. rename \in Renaming /\ entries[rename.new].file = rename.file
    BY <1>1 DEF FsInv, FsTypes, FsRename
  <1>3. OpenedCurrent
    BY <1>1, NothingOpened
  <1>4. rename'.pc = "migrate"
    BY <1>1, <1>2 DEF Renaming
  <1>5. RenameKeeps
    BY <1>1, <1>2, <1>4 DEF RenameKeeps
  <1>6. CASE UNCHANGED entries /\ rename' = [rename EXCEPT !.pc = "migrate", !.failed = TRUE] /\ Fails
    <2>1. /\ rename'.old = rename.old /\ rename'.new = rename.new /\ rename' \in Renaming
      BY <1>2, <1>6 DEF Renaming
    <2>2. FsTypes'
      BY <1>1, <1>6, <2>1, RenameTypes DEF FsInv, FsTypes
    <2>3. Moving /\ Moving'
      BY <1>1, <1>4 DEF Moving
    <2>4. FsSlots'
      <3>1. ASSUME NEW f \in Fds PROVE SlotAt(descriptors[f], Where(descriptors[f].path), entries, size)'
        <4>1. Where(descriptors[f].path)' = Where(descriptors[f].path)
          BY <1>1, <1>6, <2>1, <2>3 DEF Where
        <4>2. SlotAt(descriptors[f], Where(descriptors[f].path), entries, size)
          BY DEF FsInv, FsSlots
        <4> QED BY <1>1, <1>6, <4>1, <4>2
      <3> QED BY <3>1 DEF FsSlots
    <2>5. FsDirectory'
      BY <1>1, <1>6, <2>1, <2>3 DEF FsInv, FsDirectory, NewDirectory, IsDir
    <2>6. FsVolumes'
      BY <1>1, <1>6 DEF FsInv, FsVolumes
    <2>7. FsRename'
      BY <1>1, <1>4, <1>6, <2>1 DEF FsInv, FsRename
    <2> QED BY <1>3, <1>5, <2>2, <2>4, <2>5, <2>6, <2>7 DEF FsInv
  <1>7. CASE /\ entries' = [entries EXCEPT ![rename.backup] = Absent]
             /\ rename' = [rename EXCEPT !.pc = "migrate"] /\ Works
    BY <1>1, <1>3, <1>5, <1>7, BackupGoes
  <1> QED BY <1>1, <1>6, <1>7

LEMMA MigrateStep ==
    ASSUME FsInv, Migrate
    PROVE  FsInv' /\ OpenedCurrent /\ RenameKeeps
  <1> DEFINE moved(p) == IF entries[rename.new].kind = "dir" \/ p = rename.old
                         THEN Migrated(p, rename.old, rename.new) ELSE p
  <1>1. /\ rename.pc = "migrate"
        /\ descriptors' = [f \in Fds |-> IF descriptors[f].allocated
                                         THEN [descriptors[f] EXCEPT !.path = moved(@)] ELSE descriptors[f]]
        /\ current_directory' = NewDirectory
        /\ IF rename.failed THEN rename' = Idle ELSE rename' = [rename EXCEPT !.pc = "sync"]
        /\ UNCHANGED <<filesystem_state, entries, media, size, settled, calls, faults, resets>>
    BY DEF Migrate, RenameEnds, data
  <1>2. Moving
    BY <1>1 DEF Moving
  <1>3. /\ Volumes(entries, media, descriptors, size, settled) /\ descriptors \in [Fds -> Slot]
        /\ rename \in Renaming /\ entries[rename.new].kind # "none" /\ filesystem_state = "ready"
        /\ {rename.old, rename.new} \subseteq Paths \ Backups
    BY <1>1 DEF FsInv, FsVolumes, FsTypes, FsRename, Volumes
  <1>4. ASSUME NEW f \in Fds
        PROVE  /\ descriptors'[f] \in Slot /\ descriptors'[f].mode = descriptors[f].mode
               /\ descriptors'[f].file = descriptors[f].file
               /\ SlotAt(descriptors'[f], descriptors'[f].path, entries, size)
    <2>1. SlotAt(descriptors[f], moved(descriptors[f].path), entries, size) /\ descriptors[f] \in Slot
      BY <1>2, <1>3 DEF FsInv, FsSlots, Where
    <2> HIDE DEF moved
    <2>2. CASE descriptors[f].allocated
      <3> DEFINE w == moved(descriptors[f].path)
                 k == [descriptors[f] EXCEPT !.path = w]
      <3>1. descriptors'[f] = k
        BY <1>1, <2>2
      <3>2. w \in Paths \ Backups
        BY <2>1, <2>2 DEF SlotAt
      <3> HIDE DEF w
      <3>3. /\ k \in Slot /\ k.path = w /\ k.mode = descriptors[f].mode /\ k.file = descriptors[f].file
            /\ k.opened = descriptors[f].opened /\ k.len = descriptors[f].len /\ k.allocated
        BY <2>1, <2>2, <3>2 DEF Slot
      <3> HIDE DEF k
      <3>4. SlotAt(k, w, entries, size)
        BY <2>1, <3>2, <3>3 DEF SlotAt, w
      <3> QED BY <3>1, <3>3, <3>4
    <2>3. CASE ~descriptors[f].allocated
      <3>1. descriptors'[f] = descriptors[f]
        BY <1>1, <2>3
      <3>2. descriptors[f] = FreeSlot
        BY <2>1, <2>3 DEF SlotAt
      <3> QED BY <2>1, <3>1, <3>2, FreeSlotIsFree
    <2> QED BY <2>2, <2>3
  <1>5. Calm(entries, media, descriptors', size, settled)
    <2>1. descriptors' \in [Fds -> Slot]
      <3>1. descriptors' = [f \in Fds |-> descriptors'[f]]
        BY <1>1
      <3> QED BY <1>4, <3>1
    <2>2. Writers(descriptors') /\ Lengths(entries, descriptors', size)
      BY <1>3, <1>4 DEF Volumes, Writers, Lengths, Written
    <2> QED BY <1>3, <1>4, <2>1, <2>2 DEF Calm, Volumes
  <1>6. Calm(entries, media, descriptors, size, settled)' /\ IsDir(current_directory)'
    <2>1. IsDir(NewDirectory)
      BY <1>2 DEF FsInv, FsDirectory
    <2> QED BY <1>1, <1>5, <2>1 DEF IsDir
  <1>7. OpenedCurrent
    BY <1>4, NothingOpened
  <1>8. RenameKeeps
    BY <1>1, <1>3 DEF RenameKeeps
  <1>9. current_directory' \in Paths \cup {<<>>}
    BY <1>6 DEF IsDir
  <1>10. ASSUME rename' \in Renaming PROVE FsTypes'
    BY <1>1, <1>9, <1>10 DEF FsInv, FsTypes
  <1>11. CASE rename' = Idle
    BY <1>6, <1>7, <1>8, <1>10, <1>11, IdleIsIdle, RenameIdles
  <1>12. CASE rename' = [rename EXCEPT !.pc = "sync"]
    <2>1. /\ rename' \in Renaming /\ rename'.pc = "sync" /\ rename'.old = rename.old /\ rename'.new = rename.new
      BY <1>3, <1>12 DEF Renaming
    <2>2. FsRename' /\ ~Moving'
      BY <1>1, <1>3, <2>1 DEF FsRename, Moving
    <2> QED BY <1>6, <1>7, <1>8, <1>10, <2>1, <2>2, CalmIsInv
  <1> QED BY <1>1, <1>11, <1>12

LEMMA SyncStep ==
    ASSUME FsInv, Sync
    PROVE  FsInv' /\ OpenedCurrent /\ RenameKeeps
  <1>1. /\ rename.pc = "sync" /\ rename' = Idle /\ (Works \/ Fails)
        /\ UNCHANGED <<filesystem_state, descriptors, current_directory, size, calls, resets>>
        /\ \/ Flushed(entries, Handles) /\ settled' = settled \cup FilesBelow(entries, rename.new)
           \/ NotFlushed(entries) /\ UNCHANGED settled
    BY DEF Sync, RenameEnds
  <1>2. /\ Calm(entries, media, descriptors, size, settled) /\ IsDir(current_directory)
        /\ entries[rename.new].kind # "none" /\ rename.new \in Paths
    BY <1>1, InvIsCalm DEF Moving, FsInv, FsRename
  <1>3. OpenedCurrent
    BY <1>1, NothingOpened
  <1>4. FsTypes'
    BY <1>1, IdleIsIdle, RenameTypes DEF FsInv, FsTypes
  <1>5. Calm(entries, media, descriptors, size, settled)' /\ SameNames(entries', entries)
    <2>1. CASE Flushed(entries, Handles) /\ settled' = settled \cup FilesBelow(entries, rename.new)
      <3>1. settled' \subseteq settled \cup Held(entries)
        BY <2>1 DEF FilesBelow, Held
      <3>2. AllWriters(Handles, descriptors)
        BY <1>2, HandlesAreWriters DEF Calm, Volumes, Handles
      <3>3. Calm(entries', entries', descriptors, size, settled') /\ SameNames(entries', entries)
        BY <1>2, <2>1, <3>1, <3>2, FlushedKeeps DEF Flushed
      <3> QED BY <1>1, <2>1, <3>3 DEF Flushed
    <2>2. CASE NotFlushed(entries) /\ UNCHANGED settled
      BY <1>1, <1>2, <2>2 DEF NotFlushed, SameNames, Calm, Volumes
    <2> QED BY <1>1, <2>1, <2>2
  <1>6. IsDir(current_directory)'
    BY <1>1, <1>2, <1>5, NamesStay DEF SameNames
  <1>7. Held(entries') = Held(entries) /\ entries'[rename.new].kind # "none"
    BY <1>2, <1>5 DEF SameNames, Held
  <1> QED BY <1>1, <1>3, <1>4, <1>5, <1>6, <1>7, RenameIdles DEF RenameKeeps

-----------------------------------------------------------------------------
(* The theorems.                                                            *)

LEMMA FsInit == Init => FsInv
  <1> SUFFICES ASSUME Init PROVE FsInv
    OBVIOUS
  <1>1. /\ filesystem_state = "not_attempted" /\ entries \in Formatted /\ media = entries
        /\ descriptors = [f \in Fds |-> FreeSlot] /\ current_directory = <<>> /\ rename = Idle
        /\ size = [o \in Files |-> 0] /\ settled = Held(entries)
        /\ calls = 0 /\ faults = 0 /\ resets = 0
    BY DEF Init
  <1>2. /\ entries \in [Paths -> Entry] /\ Tree(entries) /\ OneName(entries)
        /\ \A p \in Paths : entries[p].len = 0
        /\ 0 \in 0 .. MaxLen /\ 0 \in 0 .. MaxCalls /\ 0 \in 0 .. MaxFaults /\ 0 \in 0 .. MaxResets
    BY <1>1, ConstantsAssumption DEF ConstantsAssumption
  <1>3. FsTypes /\ FsRename /\ ~Moving /\ IsDir(current_directory)
    BY <1>1, <1>2, IdleIsIdle DEF FsTypes, FsRename, Moving, IsDir
  <1>4. \A p \in Paths : entries[p].file # Nobody => /\ entries[p].file \in Files
                                                     /\ entries[p] = Regular(entries[p].file, size[entries[p].file])
    <2> SUFFICES ASSUME NEW p \in Paths, entries[p].file # Nobody
                 PROVE  entries[p].file \in Files /\ entries[p] = Regular(entries[p].file, size[entries[p].file])
      OBVIOUS
    <2>1. entries[p].file \in Files /\ entries[p] = Regular(entries[p].file, entries[p].len)
      BY <1>2, EntryFacts
    <2> QED BY <1>1, <1>2, <2>1
  <1>5. settled \subseteq Files /\ Settles(entries, media, size, settled)
    BY <1>1, <1>4 DEF Settles, Held
  <1>6. size \in [Files -> 0 .. MaxLen] /\ descriptors \in [Fds -> Slot] /\ \A f \in Fds : descriptors[f] = FreeSlot
    BY <1>1, <1>2, FreeSlotIsFree
  <1>7. Lengths(entries, descriptors, size)
    <2> SUFFICES ASSUME NEW p \in Paths, entries[p].kind = "file" PROVE entries[p].len = size[entries[p].file]
      BY DEF Lengths
    <2>1. entries[p].file \in Files
      BY <1>2, EntryFacts
    <2> QED BY <1>1, <1>2, <2>1
  <1>8. Writers(descriptors) /\ \A f \in Fds : SlotAt(descriptors[f], descriptors[f].path, entries, size)
    BY <1>6, FreeSlotIsFree DEF Writers
  <1>9. Calm(entries, media, descriptors, size, settled)
    BY <1>1, <1>2, <1>5, <1>6, <1>7, <1>8 DEF Calm, Volumes
  <1> QED BY <1>3, <1>9 DEF FsInv, FsVolumes, FsSlots, FsDirectory, Where, Calm

\* What one step keeps.
StepKeeps == FsInv' /\ OpenedCurrent /\ (rename.pc # "idle" /\ filesystem_state' = "ready" => RenameKeeps)

LEMMA FsStep == FsInv /\ Next => StepKeeps
  <1> SUFFICES ASSUME FsInv, Next PROVE StepKeeps
    OBVIOUS
  <1>1. ASSUME FsInv' /\ OpenedCurrent, Ready PROVE StepKeeps
    BY <1>1 DEF StepKeeps, Ready
  <1>2. CASE Initialize
    <2>1. rename.pc = "idle"
      BY <1>2 DEF Initialize, FsInv, FsRename
    <2> QED BY <1>2, <2>1, InitializeStep DEF StepKeeps
  <1>3. CASE Reset
    BY <1>3, ResetStep DEF StepKeeps, Reset
  <1>4. CASE \E p \in Paths \ Backups : (\E flags \in Flags : Open(p, flags)) \/ Utime(p) \/ Mkdir(p)
    BY ZenonT(30), <1>1, <1>4, OpenStep, UtimeStep, MkdirStep DEF Open, Utime, Mkdir
  <1>5. CASE \E p \in Paths : Unlink(p) \/ Rmdir(p)
    BY <1>1, <1>5, UnlinkStep, RmdirStep DEF Unlink, Rmdir
  <1>6. CASE \E f \in Fds : Close(f) \/ Read(f) \/ Lseek(f) \/ Write(f) \/ Fsync(f)
                            \/ \E n \in 0 .. MaxLen : Ftruncate(f, n)
    <2>1. PICK f \in Fds : Close(f) \/ Read(f) \/ Lseek(f) \/ Write(f) \/ Fsync(f)
                           \/ \E n \in 0 .. MaxLen : Ftruncate(f, n)
      BY <1>6
    <2>2. Ready
      BY <2>1 DEF Close, Read, Lseek, Write, Fsync, Ftruncate
    <2>3. FsInv' /\ OpenedCurrent
      BY <2>1, CloseStep, CallsStep, FsyncStep
    <2> QED BY <1>1, <2>2, <2>3
  <1>7. CASE \E arg \in Targets : Chdir(arg)
    BY <1>1, <1>7, ChdirStep DEF Chdir
  <1>8. CASE \E old, new \in Paths \ Backups : RenameStarts(old, new)
    BY <1>1, <1>8, RenameStartsStep DEF RenameStarts
  <1>9. CASE Backup \/ MoveSource \/ Restore \/ DeleteBackup \/ Migrate \/ Sync
    BY <1>9, BackupStep, MoveSourceStep, RestoreStep, DeleteBackupStep, MigrateStep, SyncStep DEF StepKeeps
  <1> QED BY <1>2, <1>3, <1>4, <1>5, <1>6, <1>7, <1>8, <1>9 DEF Next

LEMMA FsStutter == FsInv /\ UNCHANGED vars => FsInv'
  <1> SUFFICES ASSUME FsInv, UNCHANGED vars PROVE FsInv'
    OBVIOUS
  <1> USE DEF vars
  <1>1. FsTypes' /\ FsVolumes'
    BY DEF FsInv, FsTypes, FsVolumes
  <1>2. FsSlots'
    BY DEF FsInv, FsSlots, Where, Moving
  <1>3. FsDirectory'
    BY DEF FsInv, FsDirectory, NewDirectory, Moving, IsDir
  <1>4. FsRename'
    BY DEF FsInv, FsRename, SourceReady, NameReady, NameUnused, BackupReady, Affected, Allocated, Empty, IsDir
  <1> QED BY <1>1, <1>2, <1>3, <1>4 DEF FsInv

LEMMA FsAlways == Spec => []FsInv
  <1>1. FsInv /\ [Next]_vars => FsInv'
    BY FsStep, FsStutter DEF StepKeeps
  <1> QED BY <1>1, FsInit, PTL DEF Spec

-----------------------------------------------------------------------------
(* What _stat answers.                                                      *)

\* Without a fault every open handle has the length of its file.
Current ==
    faults = 0 => \A f \in Fds : descriptors[f].mode # "closed" =>
                      descriptors[f].len = size[descriptors[f].file]

\* The reader's length is the one it had, of a file that kept its size, or the new one.
ReaderKept(f) ==
    \/ descriptors'[f].len = size'[descriptors'[f].file]
    \/ /\ descriptors'[f].len = descriptors[f].len /\ descriptors'[f].file = descriptors[f].file
       /\ size'[descriptors[f].file] = size[descriptors[f].file]

LEMMA CurrentKeeps ==
    ASSUME FsInv', OpenedCurrent, Current, faults = 0,
           \A f \in Fds : descriptors[f].mode = "read" /\ descriptors'[f].mode = "read" => ReaderKept(f)
    PROVE  Current'
  <1> SUFFICES ASSUME NEW f \in Fds, descriptors'[f].mode # "closed"
               PROVE  descriptors'[f].len = size'[descriptors'[f].file]
    BY DEF Current
  <1>1. descriptors'[f].mode \in {"read", "write"}
    BY DEF FsInv, FsVolumes, Volumes, Slot
  <1>2. CASE descriptors'[f].mode = "write"
    BY <1>2 DEF FsInv, FsSlots, SlotAt
  <1>3. CASE descriptors'[f].mode = "read" /\ descriptors[f].mode = "read"
    BY <1>3 DEF Current, ReaderKept
  <1>4. CASE descriptors'[f].mode = "read" /\ descriptors[f].mode # "read"
    BY <1>4 DEF OpenedCurrent
  <1> QED BY <1>1, <1>2, <1>3, <1>4

LEMMA FaultsAreCounted ==
    ASSUME FsInv
    PROVE  faults \in Nat /\ (Fails => faults' # 0) /\ (Works => faults' = faults)
  BY ConstantsAssumption DEF ConstantsAssumption, FsInv, FsTypes, Fails, Works

\* A new length of a file is the one of its readers.
LEMMA ResizedReaders ==
    ASSUME FsInv, FsInv', NEW f \in Fds, NEW h \in Slot, NEW n \in 0 .. MaxLen,
           NEW g \in Fds \ {f}, h.file \in Files,
           descriptors' = FxResized([descriptors EXCEPT ![f] = h], h.file, n),
           size' = [size EXCEPT ![h.file] = n], descriptors[g].mode = "read"
    PROVE  ReaderKept(g)
  <1> DEFINE c == [descriptors EXCEPT ![f] = h]
  <1>1. descriptors \in [Fds -> Slot] /\ size \in [Files -> 0 .. MaxLen]
    BY DEF FsInv, FsVolumes, Volumes
  <1>2. c \in [Fds -> Slot] /\ c[g] = descriptors[g] /\ descriptors' = FxResized(c, h.file, n)
    BY <1>1
  <1> HIDE DEF c
  <1>3. /\ descriptors'[g].file = descriptors[g].file
        /\ descriptors[g].file = h.file => descriptors'[g].len = n
        /\ descriptors[g].file # h.file => descriptors'[g] = descriptors[g]
    BY <1>2, ResizedSlots
  <1>4. /\ size'[h.file] = n
        /\ descriptors[g].file # h.file => size'[descriptors[g].file] = size[descriptors[g].file]
    BY <1>1
  <1> QED BY <1>3, <1>4 DEF ReaderKept

\* switch_mode: the other readers stay as they are, and the one that fails without
\* a fault was no writer.
LEMMA SwitchReaders ==
    ASSUME FsInv, FsInv', NEW f \in Fds, Calls(f), NEW mode, NEW r, Switches(f, mode, r),
           faults = 0, faults' = 0,
           NEW g \in Fds, descriptors[g].mode = "read", descriptors'[g].mode = "read"
    PROVE  ReaderKept(g)
  <1> DEFINE h == descriptors[f]
             c == [descriptors EXCEPT ![f] = r.handle]
  <1>1. Calm(entries, media, descriptors, size, settled)
    BY InvIsCalm DEF Moving, Calls
  <1>2. descriptors \in [Fds -> Slot] /\ [descriptors EXCEPT ![f] = h] = descriptors
    BY <1>1 DEF Calm, Volumes
  <1>3. SwitchEnds(f, h, mode, r, entries, descriptors, size, settled)
    <2>1. descriptors[f].allocated /\ mode \in {"read", "write"} /\ r \in Switched(f, h, entries, mode)
      BY IdleReady DEF Calls, Switches
    <2> QED BY <1>1, <1>2, <2>1, SwitchKeeps
  <1>4. /\ c[f] = r.handle /\ \A k \in Fds \ {f} : c[k] = descriptors[k]
        /\ r.handle \in Slot /\ c \in [Fds -> Slot]
    BY <1>2, <1>3 DEF SwitchEnds
  <1>5. /\ h.mode = mode => r.ok /\ r.handle = h
        /\ mode \in {"read", "write"}
    BY DEF Switched, Switches
  <1>6. CASE r.ok /\ descriptors' = c /\ UNCHANGED ghosts
    <2>1. CASE g = f
      <3>1. r.handle.mode = mode
        BY <1>3, <1>6 DEF SwitchEnds
      <3>2. r.handle = h
        BY <1>4, <1>5, <1>6, <2>1, <3>1
      <3> QED BY <1>4, <1>6, <2>1, <3>2 DEF ReaderKept, ghosts
    <2>2. CASE g # f
      BY <1>4, <1>6, <2>2 DEF ReaderKept, ghosts
    <2> QED BY <2>1, <2>2
  <1>7. CASE r.ok /\ mode = "write" /\ \E n \in 0 .. MaxLen : Resized(f, r.handle, n)
    <2>1. PICK n \in 0 .. MaxLen : Resized(f, r.handle, n)
      BY <1>7
    <2>2. Calm(r.entries, r.media, c, size, settled) /\ r.handle.mode = "write"
      BY <1>3, <1>7 DEF SwitchEnds
    <2>3. SlotAt(r.handle, r.handle.path, r.entries, size)
      BY <1>4, <2>2 DEF Calm
    <2>4. r.handle.file \in Files
      BY <1>4, <2>2, <2>3 DEF SlotAt, Slot
    <2>5. g # f
      <3>1. c[f].mode = "write"
        BY <1>4, <2>2
      <3>2. descriptors' = FxResized(c, r.handle.file, n)
        BY <2>1 DEF Resized
      <3> HIDE DEF c
      <3>3. descriptors'[f].mode = "write"
        BY <1>4, <3>1, <3>2, ResizedSlots
      <3> QED BY <3>3
    <2> QED BY <1>4, <2>1, <2>4, <2>5, ResizedReaders DEF Resized
  <1>8. CASE ~r.ok /\ descriptors' = c /\ size' = SizeAfter(f, r)
    <2>1. r.handle.mode = "closed"
      BY <1>3, <1>8 DEF SwitchEnds
    <2>2. g # f
      BY <1>4, <1>8, <2>1
    <2>3. h.mode # "write"
      <3> SUFFICES ASSUME h.mode = "write" PROVE FALSE
        OBVIOUS
      <3>1. mode = "read" /\ r.faults = 0
        <4>1. r.faults \in {0, 1} /\ faults' = faults + r.faults
          BY <1>8, SwitchesFaults DEF Switches
        <4> QED BY <1>5, <1>8, <4>1
      <3>2. ~FxMayOpen(r.entries, {descriptors[k] : k \in Fds \ {f}}, h.path, "read")
        BY <1>8, <3>1 DEF Switched, Switches
      <3>6. r.entries[h.path].kind # "file"
        BY <3>2 DEF FxMayOpen
      <3>3. SlotAt(h, h.path, entries, size)
        BY <1>1 DEF Calm
      <3>4. h.path \in Paths /\ entries[h.path] \in Entry /\ entries[h.path].file # Nobody
        BY <1>1, <3>3 DEF SlotAt, FreeSlot, Calm, Volumes
      <3>5. entries[h.path].kind = "file"
        BY <3>4, EntryFacts
      <3> QED BY <1>3, <3>4, <3>5, <3>6 DEF SwitchEnds, SameNames
    <2>4. size' = size
      BY <1>8, <2>3 DEF SizeAfter
    <2> QED BY <1>4, <1>8, <2>2, <2>4 DEF ReaderKept
  <1> QED BY <1>6, <1>7, <1>8 DEF Switches

\* _open: its own handle is new, and what it does to the file the others see.
LEMMA OpenReaders ==
    ASSUME FsInv, NEW p \in Paths \ Backups, NEW flags \in Flags, Open(p, flags),
           NEW g \in Fds, descriptors[g].mode = "read"
    PROVE  ReaderKept(g)
  <1> DEFINE new == entries[p].kind = "none"
             f == CHOOSE k \in Fds \ Allocated : \A l \in Fds \ Allocated : k <= l
             o == IF new THEN CHOOSE u \in Unused : \A w \in Unused : u <= w ELSE entries[p].file
             truncates == flags.write /\ flags.truncate
  <1>1. /\ entries[p].kind # "dir" /\ Allocated # Fds /\ (new => Unused # {})
        /\ rename.pc = "idle"
    BY DEF Open, Ready
  <1>2. \E k : \/ /\ descriptors' = IF truncates THEN FxResized([descriptors EXCEPT ![f] = k], o, 0)
                                    ELSE [descriptors EXCEPT ![f] = k]
                  /\ size' = IF new \/ truncates THEN [size EXCEPT ![o] = 0] ELSE size
               \/ /\ UNCHANGED descriptors
                  /\ size' = IF new THEN [size EXCEPT ![o] = 0] ELSE size
    BY DEF Open
  <1>3. /\ descriptors \in [Fds -> Slot] /\ size \in [Files -> 0 .. MaxLen]
        /\ entries \in [Paths -> Entry] /\ SlotAt(descriptors[g], Where(descriptors[g].path), entries, size)
    BY DEF FsInv, FsVolumes, Volumes, FsSlots
  <1>4. descriptors[g].allocated /\ descriptors[g].file \in Files
    BY <1>3 DEF SlotAt, FreeSlot, Slot
  <1>5. f # g
    <2>1. Fds \ Allocated \subseteq Nat /\ Fds \ Allocated # {}
      BY <1>1, ConstantsAssumption DEF ConstantsAssumption, Allocated
    <2>2. f \in Fds \ Allocated
      BY <2>1, LeastExists
    <2> QED BY <1>4, <2>2 DEF Allocated
  <1>6. o \in Files /\ (new => o # descriptors[g].file)
    <2>1. CASE new
      <3>1. Unused \subseteq Nat
        BY ConstantsAssumption DEF ConstantsAssumption, Unused
      <3>2. o \in Unused
        BY <1>1, <2>1, <3>1, LeastExists
      <3> QED BY <3>2 DEF Unused, Handles
    <2>2. CASE ~new
      <3>1. entries[p] \in Entry /\ entries[p].kind \notin {"none", "dir"}
        BY <1>1, <1>3, <2>2
      <3> QED BY <2>2, <3>1, EntryFacts
    <2> QED BY <2>1, <2>2
  <1> HIDE DEF f, o, truncates, new
  <1>7. LET z == [size EXCEPT ![o] = 0]
        IN  z[o] = 0 /\ (descriptors[g].file # o => z[descriptors[g].file] = size[descriptors[g].file])
    BY <1>3, <1>4, <1>6
  <1>8. PICK k : \/ /\ descriptors' = IF truncates THEN FxResized([descriptors EXCEPT ![f] = k], o, 0)
                                     ELSE [descriptors EXCEPT ![f] = k]
                   /\ size' = IF new \/ truncates THEN [size EXCEPT ![o] = 0] ELSE size
                \/ /\ UNCHANGED descriptors
                   /\ size' = IF new THEN [size EXCEPT ![o] = 0] ELSE size
    BY <1>2
  <1> DEFINE c == [descriptors EXCEPT ![f] = k]
  <1>9. c[g] = descriptors[g]
    BY <1>3, <1>5
  <1>10. CASE descriptors'[g] = descriptors[g] /\ size' = IF new THEN [size EXCEPT ![o] = 0] ELSE size
    BY <1>6, <1>7, <1>10 DEF ReaderKept
  <1>11. CASE descriptors' = FxResized(c, o, 0) /\ size' = [size EXCEPT ![o] = 0]
    <2> HIDE DEF c
    <2>1. descriptors'[g] = IF c[g].mode # "closed" /\ c[g].file = o
                            THEN [c[g] EXCEPT !.len = 0] ELSE c[g]
      BY <1>11 DEF FxResized
    <2>2. /\ descriptors[g].file = o => descriptors'[g].file = o /\ descriptors'[g].len = 0
          /\ descriptors[g].file # o => descriptors'[g] = descriptors[g]
      BY <1>3, <1>9, <2>1 DEF Slot
    <2> QED BY <1>7, <1>11, <2>2 DEF ReaderKept
  <1> QED BY <1>8, <1>9, <1>10, <1>11

LEMMA CurrentStep == FsInv /\ Current /\ Next => Current'
  <1> SUFFICES ASSUME FsInv, Current, Next, faults' = 0 PROVE Current'
    BY DEF Current
  <1>1. FsInv' /\ OpenedCurrent
    BY FsStep DEF StepKeeps
  <1>2. faults \in Nat /\ ~Fails /\ (Works => faults = 0)
    BY FaultsAreCounted
  <1>3. ASSUME faults = 0, \A f \in Fds : descriptors[f].mode = "read" /\ descriptors'[f].mode = "read" => ReaderKept(f)
        PROVE  Current'
    BY <1>1, <1>3, CurrentKeeps
  <1>4. ASSUME faults = 0, UNCHANGED <<descriptors, size>> PROVE Current'
    BY <1>3, <1>4 DEF ReaderKept
  <1>5. CASE Initialize \/ Backup \/ Restore \/ DeleteBackup \/ Sync
    BY <1>2, <1>4, <1>5 DEF Initialize, Backup, Restore, DeleteBackup, Sync, data, ghosts
  <1>6. CASE Reset
    <2>1. \A f \in Fds : descriptors'[f].mode = "closed"
      BY <1>6 DEF Reset, FreeSlot
    <2> QED BY <2>1 DEF Current
  <1>7. CASE \E p \in Paths \ Backups : \E flags \in Flags : Open(p, flags)
    <2>1. PICK p \in Paths \ Backups, flags \in Flags : Open(p, flags)
      BY <1>7
    <2>2. PICK n \in {0, 1} : faults' = faults + n
      <3>1. \E f, h, e, mode : \E r \in Switched(f, h, e, mode) :
                faults' = faults \/ faults' = faults + 1 \/ faults' = faults + r.faults
        BY <2>1 DEF Open
      <3>2. PICK f, h, e, mode : \E r \in Switched(f, h, e, mode) :
                faults' = faults \/ faults' = faults + 1 \/ faults' = faults + r.faults
        BY <3>1
      <3>3. PICK r \in Switched(f, h, e, mode) :
                faults' = faults \/ faults' = faults + 1 \/ faults' = faults + r.faults
        BY <3>2
      <3>4. r.faults \in {0, 1}
        BY SwitchFaults
      <3> QED BY <1>2, <3>3, <3>4
    <2>3. faults = 0
      BY <1>2, <2>2
    <2> QED BY <1>3, <2>1, <2>3, OpenReaders
  <1>8. CASE \E p \in Paths \ Backups : Utime(p) \/ Mkdir(p)
    BY <1>2, <1>4, <1>8 DEF Utime, Mkdir, Entered
  <1>9. CASE \E p \in Paths : Rmdir(p)
    BY <1>2, <1>4, <1>9 DEF Rmdir, Entered
  <1>10. CASE \E p \in Paths : Unlink(p)
    <2>1. PICK p \in Paths : Unlink(p)
      BY <1>10
    <2>2. /\ faults = 0 /\ size' = size /\ rename.pc = "idle"
          /\ ~\E h \in Handles : h.mode # "closed" /\ h.file = entries[p].file
          /\ descriptors' = [f \in Fds |-> IF descriptors[f].allocated /\ descriptors[f].path = p
                                           THEN [descriptors[f] EXCEPT !.opened = Nobody, !.file = Nobody]
                                           ELSE descriptors[f]]
      BY <1>2, <2>1 DEF Unlink, Entered, Ready
    <2>3. ASSUME NEW f \in Fds, descriptors[f].mode = "read" PROVE descriptors'[f] = descriptors[f]
      <3>1. SlotAt(descriptors[f], descriptors[f].path, entries, size)
        BY <2>2 DEF FsInv, FsSlots, Where, Moving
      <3>2. descriptors[f].path # p
        BY <2>2, <2>3, <3>1 DEF SlotAt, Handles
      <3> QED BY <2>2, <3>2
    <2> QED BY <1>3, <2>2, <2>3 DEF ReaderKept
  <1>11. CASE \E f \in Fds : Close(f)
    <2>1. PICK f \in Fds : Close(f)
      BY <1>11
    <2>2. faults = 0 /\ size' = size /\ descriptors' = [descriptors EXCEPT ![f] = FreeSlot]
      BY <1>2, <2>1 DEF Close, Released, ghosts
    <2>3. descriptors \in [Fds -> Slot] /\ FreeSlot.mode = "closed"
      BY FreeSlotIsFree DEF FsInv, FsVolumes, Volumes
    <2>4. \A g \in Fds : descriptors'[g].mode = "read" => descriptors'[g] = descriptors[g]
      BY <2>2, <2>3
    <2> QED BY <1>3, <2>2, <2>4 DEF ReaderKept
  <1>12. ASSUME NEW f \in Fds,
                \/ Read(f) \/ Lseek(f) \/ Write(f) \/ \E n \in 0 .. MaxLen : Ftruncate(f, n)
         PROVE  Current'
    <2>1. PICK mode, r : Switches(f, mode, r) /\ Calls(f)
      BY <1>12, CallsSwitch
    <2>2. faults = 0
      BY <1>2, <2>1, SwitchesFaults
    <2> QED BY <1>1, <1>3, <2>1, <2>2, SwitchReaders
  <1>13. CASE \E f \in Fds : Fsync(f)
    BY <1>2, <1>4, <1>13 DEF Fsync
  <1>14. CASE \E arg \in Targets : Chdir(arg)
    BY <1>2, <1>4, <1>14 DEF Chdir, data
  <1>15. CASE \E old, new \in Paths \ Backups : RenameStarts(old, new)
    BY <1>2, <1>4, <1>15 DEF RenameStarts
  <1>16. CASE MoveSource
    <2>1. faults = 0 /\ size' = size
      BY <1>2, <1>16 DEF MoveSource, ghosts
    <2>2. \A f \in Fds : descriptors[f].mode = "read" => descriptors'[f] = descriptors[f]
      BY <1>16 DEF MoveSource, FxRenamedHandles
    <2> QED BY <1>3, <2>1, <2>2 DEF ReaderKept
  <1>17. CASE Migrate
    <2>1. faults = 0 /\ size' = size
      BY <1>17 DEF Migrate, data
    <2>2. descriptors \in [Fds -> Slot]
      BY DEF FsInv, FsVolumes, Volumes
    <2>3. \A f \in Fds : \E q : descriptors'[f] \in {descriptors[f], [descriptors[f] EXCEPT !.path = q]}
      BY <1>17 DEF Migrate
    <2>4. \A f \in Fds : descriptors'[f].len = descriptors[f].len /\ descriptors'[f].file = descriptors[f].file
      BY <2>2, <2>3 DEF Slot
    <2> QED BY <1>3, <2>1, <2>4 DEF ReaderKept
  <1> QED BY <1>5, <1>6, <1>7, <1>8, <1>9, <1>10, <1>11, <1>12, <1>13, <1>14, <1>15, <1>16, <1>17 DEF Next

LEMMA CurrentAlways == Spec => []Current
  <1>1. Init => Current
    BY DEF Init, Current, FreeSlot
  <1>2. FsInv /\ Current /\ [Next]_vars => Current'
    BY CurrentStep DEF vars, Current
  <1> QED BY <1>1, <1>2, FsAlways, PTL DEF Spec

\* The answer of _stat: the writer's length, or the largest of the others.
LEMMA StatMeans == FsInv /\ Current => StatIsCurrent
  <1> SUFFICES ASSUME FsInv, Current, rename.pc = "idle", NEW p \in Paths, entries[p].kind = "file"
               PROVE  /\ StatSize(p) >= size[entries[p].file]
                      /\ faults = 0 => StatSize(p) = size[entries[p].file]
    BY DEF StatIsCurrent
  <1> DEFINE o == entries[p].file
             on == {f \in Fds : descriptors[f].mode # "closed" /\ descriptors[f].path = p}
             writers == {f \in on : descriptors[f].mode = "write"}
             lengths == {entries[p].len} \cup {descriptors[f].len : f \in on}
  <1>1. Calm(entries, media, descriptors, size, settled)
    BY InvIsCalm DEF Moving
  <1>2. /\ entries \in [Paths -> Entry] /\ descriptors \in [Fds -> Slot]
        /\ size \in [Files -> 0 .. MaxLen] /\ OneName(entries)
        /\ \A f \in Fds : SlotAt(descriptors[f], descriptors[f].path, entries, size)
        /\ MaxLen \in Nat
    BY <1>1, ConstantsAssumption DEF ConstantsAssumption, Calm, Volumes
  <1>3. o \in Files /\ o # Nobody /\ entries[p].len \in 0 .. MaxLen /\ size[o] \in 0 .. MaxLen
    BY <1>2, EntryFacts
  <1>4. \A f \in on : descriptors[f].file = o /\ descriptors[f].len \in 0 .. MaxLen
    BY <1>2 DEF SlotAt, Slot
  <1>5. StatSize(p) = IF writers # {} THEN descriptors[CHOOSE f \in writers : TRUE].len ELSE Max(lengths)
    BY DEF StatSize
  <1>6. CASE writers # {}
    <2>1. PICK f \in writers : StatSize(p) = descriptors[f].len
      BY <1>5, <1>6
    <2>2. descriptors[f].len = size[o]
      BY <1>2, <1>4, <2>1 DEF SlotAt
    <2> QED BY <1>3, <2>1, <2>2
  <1>7. CASE writers = {}
    <2>1. entries[p].len = size[o]
      <3>1. ~Written(descriptors, o)
        <4> SUFFICES ASSUME NEW f \in Fds, descriptors[f].mode = "write", descriptors[f].file = o PROVE FALSE
          BY DEF Written
        <4>1. descriptors[f].path \in Paths /\ entries[descriptors[f].path].file = o
          BY <1>2 DEF SlotAt, FreeSlot
        <4>2. descriptors[f].path = p
          BY <1>2, <1>3, <4>1 DEF OneName
        <4> QED BY <1>7, <4>2
      <3> QED BY <1>1, <3>1 DEF Calm, Volumes, Lengths
    <2> HIDE DEF on
    <2>2. lengths \subseteq 0 .. MaxLen /\ entries[p].len \in lengths
      BY <1>3, <1>4
    <2>3. faults = 0 => lengths = {size[o]}
      <3>1. faults = 0 => \A f \in on : descriptors[f].len = size[o]
        BY <1>4 DEF Current, on
      <3> QED BY <2>1, <3>1
    <2> HIDE DEF lengths
    <2>4. \E x \in lengths : \A y \in lengths : x >= y
      <3> DEFINE below == {MaxLen - x : x \in lengths}
      <3>1. below \subseteq Nat /\ below # {}
        <4>1. \A x \in lengths : MaxLen - x \in Nat
          BY <1>2, <2>2
        <4>2. MaxLen - entries[p].len \in below
          BY <2>2
        <4> QED BY <4>1, <4>2
      <3> HIDE DEF below
      <3>2. PICK m \in below : \A k \in below : m <= k
        BY <3>1, LeastExists
      <3>3. PICK x \in lengths : m = MaxLen - x
        BY DEF below
      <3>4. \A y \in lengths : MaxLen - x <= MaxLen - y
        BY <3>2, <3>3 DEF below
      <3> QED BY <1>2, <2>2, <3>4
    <2>5. Max(lengths) \in lengths /\ \A y \in lengths : Max(lengths) >= y
      BY <2>4 DEF Max
    <2> QED BY <1>3, <1>5, <1>7, <2>1, <2>2, <2>3, <2>5
  <1> QED BY <1>6, <1>7

\* What the invariant says of the volume at any time, and between the renames.
LEMMA InvMeans == FsInv => Consistent /\ PromisesSurvive /\ WritesAreKept
  <1> SUFFICES ASSUME FsInv PROVE Consistent /\ PromisesSurvive /\ WritesAreKept
    OBVIOUS
  <1>1. /\ Volumes(entries, media, descriptors, size, settled)
        /\ entries \in [Paths -> Entry] /\ media \in [Paths -> Entry] /\ descriptors \in [Fds -> Slot]
    BY DEF FsInv, FsVolumes, Volumes
  <1>2. \A f \in Fds : SlotAt(descriptors[f], Where(descriptors[f].path), entries, size)
    BY DEF FsInv, FsSlots
  <1>3. Consistent
    <2>1. \A h \in Handles : h.mode \in {"closed", "read", "write"} /\ (h.allocated \/ h = FreeSlot)
      BY <1>1, <1>2 DEF Handles, SlotAt, Slot
    <2>2. \A e \in {entries, media} : \A p \in Paths : e[p] \in Entry
      BY <1>1
    <2>3. WorkingDirectoryExists
      BY InvIsCalm DEF WorkingDirectoryExists, Moving
    <2>4. NeverRetargeted
      <3> SUFFICES ASSUME rename.pc = "idle", NEW f \in Fds, descriptors[f].opened # Nobody
                   PROVE  /\ entries[descriptors[f].path].file = descriptors[f].opened
                          /\ descriptors[f].mode # "closed" => descriptors[f].file = descriptors[f].opened
        BY DEF NeverRetargeted, Handles
      <3> QED BY <1>2 DEF SlotAt, Where, Moving
    <2>5. TypeOK
      BY <1>1, <2>1, <2>2 DEF TypeOK, FsInv, FsTypes, Volumes
    <2> QED BY <2>3, <2>4, <2>5 DEF Consistent
  <1>4. PromisesSurvive
    BY <1>1 DEF PromisesSurvive, Volumes, Settles, Regular
  <1>5. WritesAreKept
    <2> DEFINE x == FxPublished(entries, Handles)
    <2>1. Handles \subseteq Slot /\ \A h \in Handles : h.mode = "write" => h.file # Nobody /\ h.len = size[h.file]
      BY <1>1, <1>2 DEF Handles, SlotAt
    <2>2. /\ \A p \in Paths : \/ x[p] = entries[p]
                              \/ x[p] = Regular(entries[p].file, size[entries[p].file])
          /\ \A p \in Paths : (\E h \in Handles : h.mode = "write" /\ h.file = entries[p].file) =>
                 x[p] = Regular(entries[p].file, size[entries[p].file])
      BY <1>1, <2>1, Publishing
    <2> HIDE DEF x
    <2>3. ASSUME NEW p \in Paths, entries[p].kind = "file" PROVE x[p].len = size[entries[p].file]
      <3>1. entries[p].len = size[entries[p].file] \/ \E f \in Fds : descriptors[f].mode = "write" /\ descriptors[f].file = entries[p].file
        BY <1>1, <2>3 DEF Volumes, Lengths, Written
      <3>2. CASE x[p] = Regular(entries[p].file, size[entries[p].file])
        BY <3>2 DEF Regular
      <3>3. CASE x[p] # Regular(entries[p].file, size[entries[p].file])
        BY <2>2, <3>1, <3>3 DEF Handles
      <3> QED BY <3>2, <3>3
    <2> QED BY <2>3 DEF WritesAreKept, x
  <1> QED BY <1>3, <1>4, <1>5

(* What the calls of filesystem.cpp work on exists and has its type through *)
(* every call, failing FileX call and reset: rmdir and rename never take the *)
(* current directory away, and between renames the path of a descriptor     *)
(* names the file that _open gave it, so that switch_mode reopens the same. *)
THEOREM ConsistentHolds == Spec => []Consistent
  BY FsAlways, InvMeans, PTL

(* A file that close, fsync or rename promised to be durable is on the      *)
(* medium, under its name and with every byte written before the call, until *)
(* a later call changes it: a reset finds it there.                        *)
THEOREM PromisesSurviveHolds == Spec => []PromisesSurvive
  BY FsAlways, InvMeans, PTL

(* No call loses a completed write: what _write reported is in the entry or *)
(* in the open handle that will publish it, also while rename moves the     *)
(* entry below the handle, and through every switch_mode.                  *)
THEOREM WritesAreKeptHolds == Spec => []WritesAreKept
  BY FsAlways, InvMeans, PTL

(* When switch_mode opens a handle, the length it reads from the entry is   *)
(* the one that the completed writes of every descriptor gave the file.    *)
THEOREM OpensAreCurrentHolds == Spec => OpensAreCurrent
  <1>1. FsInv /\ [Next]_vars =>
          [\A f \in Fds : descriptors[f].mode # descriptors'[f].mode /\ descriptors'[f].mode # "closed"
               => descriptors'[f].len = size'[descriptors'[f].file]]_vars
    BY FsStep DEF StepKeeps, OpenedCurrent
  <1> QED BY <1>1, FsAlways, PTL DEF Spec, OpensAreCurrent

(* Whatever FileX call of _rename fails, no file goes away except the       *)
(* replaced one once the source has its name, and the destination is a file *)
(* afterwards unless restoring it failed too.                              *)
THEOREM RenameLosesNothingHolds == Spec => RenameLosesNothing
  <1>1. FsInv /\ [Next]_vars =>
          [rename.pc # "idle" /\ filesystem_state' = "ready" =>
             /\ \A o \in Held(entries) \ Held(entries') :
                   rename.pc = "delete" /\ entries[rename.new].file = rename.file
             /\ rename'.pc = "idle" /\ rename.replaces /\ rename.pc # "restore" =>
                   entries'[rename.new].kind # "none"]_vars
    BY FsStep DEF StepKeeps, RenameKeeps
  <1> QED BY <1>1, FsAlways, PTL DEF Spec, RenameLosesNothing

(* What _stat answers covers every completed write, and without an I/O error *)
(* it is the length they gave the file: through the writer's own handle, and *)
(* through the entry and the readers FileX keeps up to date when none is open. *)
THEOREM StatIsCurrentHolds == Spec => []StatIsCurrent
  BY FsAlways, CurrentAlways, StatMeans, PTL

=============================================================================
