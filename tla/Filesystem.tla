----------------------------- MODULE Filesystem -----------------------------
(***************************************************************************)
(* The C file interface of src/platform/runtime/libc/filesystem.cpp: its   *)
(* table of descriptors, its current directory and its rename, over the    *)
(* FileX media that hold the data.                                         *)
(*                                                                         *)
(* registry_mutex is held for the whole of a call, so a call of one thread *)
(* is one step of the model; rename, which makes several FileX calls that  *)
(* can each fail, is one step per FileX call, because a reset can fall     *)
(* between two of them.  FileX itself is not in the repository: the Fx     *)
(* operators say what the adapter's code and comments take from it.  A     *)
(* path is the sequence of its components below the volume, letters of one *)
(* case (FileX folds them); the contents of a file are its length.         *)
(***************************************************************************)
EXTENDS Integers, Sequences, FiniteSets, SequencesExt

CONSTANTS
    Fds,        \* the slots of the descriptor table, 1 .. n
    Paths,      \* the paths that fit MAXIMUM_PATH
    Backups,    \* the names FXRnnnnn.TMP that rename may reserve
    Flags,      \* the combinations of open flags the callers use
    Targets,    \* the arguments chdir is called with
    Formatted,  \* the entries a volume may hold when the program starts
    Files,      \* identities of files, 1 .. m: a created file takes a free one
    MaxLen,     \* bound: the length of a file
    MaxCalls,   \* bound: calls of the file interface
    MaxFaults,  \* bound: FileX calls that fail with an I/O error
    MaxResets   \* bound: resets of the target

VARIABLES
    filesystem_state,   \* not_attempted, ready or unavailable
    entries,            \* the directory entries as FileX caches them
    media,              \* the entries as they are on the medium
    descriptors,
    current_directory,
    rename,             \* the rename in progress
    size,               \* history: the length the completed writes gave a file
    settled,            \* history: files unchanged since a call promised them durable
    calls, faults, resets

vars == <<filesystem_state, entries, media, descriptors, current_directory,
          rename, size, settled, calls, faults, resets>>
data == <<entries, media, size, settled>>
ghosts == <<size, settled>>

Nobody == 0
Absent == [kind |-> "none", file |-> Nobody, len |-> 0]
Directory == [Absent EXCEPT !.kind = "dir"]
Regular(o, n) == [kind |-> "file", file |-> o, len |-> n]
FreeSlot == [allocated |-> FALSE, path |-> <<>>, mode |-> "closed", file |-> Nobody,
             len |-> 0, readable |-> FALSE, writable |-> FALSE,
             flush_on_close |-> FALSE, opened |-> Nobody]
Idle == [pc |-> "idle", old |-> <<>>, new |-> <<>>, backup |-> <<>>, file |-> Nobody,
         replaces |-> FALSE, failed |-> FALSE]

Top == {p \in Paths : Len(p) = 1}
Parent(p) == Front(p)
Below(p, q) == IsPrefix(q, p)
IsDir(p) == p = <<>> \/ (p \in Paths /\ entries[p].kind = "dir")
Migrated(p, old, new) == IF Below(p, old) THEN new \o SubSeq(p, Len(old) + 1, Len(p)) ELSE p
Allocated == {f \in Fds : descriptors[f].allocated}
Handles == {descriptors[f] : f \in Fds}
\* What is above an entry is a directory, and each file has one name.
Tree(e) == \A p, q \in Paths : e[p].kind # "none" /\ Below(p, q) /\ p # q => e[q].kind = "dir"
OneName(e) == \A p, q \in Paths : p # q /\ e[p].file # Nobody => e[p].file # e[q].file
Held(e) == {e[p].file : p \in Paths} \ {Nobody}
FilesBelow(e, p) == {e[q].file : q \in {r \in Paths : Below(r, p)}} \ {Nobody}

Components == UNION {{p[i] : i \in 1 .. Len(p)} : p \in Paths}
Entry == {Absent, Directory} \cup {Regular(o, n) : o \in Files, n \in 0 .. MaxLen}

\* Files that exist at the start have their lengths counted from there.
ASSUME ConstantsAssumption ==
    /\ MaxLen \in Nat /\ MaxCalls \in Nat /\ MaxFaults \in Nat /\ MaxResets \in Nat
    /\ Fds \subseteq Nat
    /\ Files \subseteq Nat \ {Nobody}
    /\ Paths \subseteq Seq(Components)
    /\ \A p \in Paths : p # <<>> /\ \A n \in 1 .. Len(p) : SubSeq(p, 1, n) \in Paths
    /\ Backups \subseteq Top
    /\ Flags \subseteq [read : BOOLEAN, write : BOOLEAN, create : BOOLEAN, truncate : BOOLEAN]
    /\ \A e \in Formatted : /\ e \in [Paths -> Entry] /\ Tree(e) /\ OneName(e)
                            /\ \A p \in Paths : e[p].len = 0

\* filesystem.cpp:186 on components: ".." at the root is refused.
Normalized(arg) ==
    FoldLeft(LAMBDA done, c : CASE done = "EACCES" -> "EACCES"
                                [] c = "." -> done
                                [] c = ".." -> IF Len(done) = 0 THEN "EACCES" ELSE Front(done)
                                [] OTHER -> Append(done, c),
             IF arg.absolute THEN <<>> ELSE current_directory, arg.path)

-----------------------------------------------------------------------------
(* FileX.  The entry of a file that is open for writing lags its handle    *)
(* until the handle is closed or the media flushed; both only reach the    *)
(* cache and the medium respectively.                                      *)

FxPublished(e, handles) ==
    [p \in Paths |->
        IF \E h \in handles : h.mode = "write" /\ h.file = e[p].file
        THEN [e[p] EXCEPT !.len = (CHOOSE h \in handles : h.mode = "write" /\ h.file = e[p].file).len]
        ELSE e[p]]
FxMayOpen(e, handles, p, mode) ==
    /\ e[p].kind = "file"
    /\ mode = "write" => ~\E h \in handles : h.mode = "write" /\ h.file = e[p].file
FxRenamed(e, old, new) ==
    [p \in Paths |-> IF Below(p, new) /\ Migrated(p, new, old) \in Paths
                     THEN e[Migrated(p, new, old)]
                     ELSE IF Below(p, old) THEN Absent ELSE e[p]]
\* The copied entry reaches the open handles of the file: what they have not published is lost.
FxRenamedHandles(e, old) ==
    [f \in Fds |-> LET h == descriptors[f] IN
        IF h.mode = "write" /\ h.file \in FilesBelow(e, old)
        THEN [h EXCEPT !.len = e[CHOOSE p \in Paths : e[p].file = h.file].len] ELSE h]
\* FileX gives the new length of a file to every open handle of it
\* (fx_user.h does not define FX_DONT_UPDATE_OPEN_FILES).
FxResized(handles, o, n) ==
    [f \in Fds |-> IF handles[f].mode # "closed" /\ handles[f].file = o
                   THEN [handles[f] EXCEPT !.len = n] ELSE handles[f]]

Works == UNCHANGED faults
Fails == faults < MaxFaults /\ faults' = faults + 1
Ready == filesystem_state = "ready" /\ rename.pc = "idle"
Called == calls < MaxCalls /\ calls' = calls + 1
Rest == Called /\ UNCHANGED <<filesystem_state, current_directory, rename, resets>>

Flushed(e, handles) == /\ entries' = FxPublished(e, handles)
                       /\ media' = entries'
NotFlushed(e) == entries' = e /\ UNCHANGED media

-----------------------------------------------------------------------------
(* switch_mode: the ways it can end for descriptor f.  The old handle is   *)
(* closed first and counts as closed even when that fails.                 *)

StaleEntry_Ignored(others, h, mode) == FALSE
StaleEntry(others, h, mode) ==
    mode = "read" /\ \E w \in others : w.mode = "write" /\ w.path = h.path

Switched(f, h, e, mode) ==
    LET others == {descriptors[g] : g \in Fds \ {f}}
        shut == [h EXCEPT !.mode = "closed"]
        closed == FxPublished(e, {h})
        stale == StaleEntry(others, h, mode)
        fresh == IF stale THEN FxPublished(closed, others) ELSE closed
        outcome(ok, en, md, hd, n) == [ok |-> ok, entries |-> en, media |-> md, handle |-> hd, faults |-> n]
        flushed == IF stale THEN fresh ELSE media
    IN  IF h.mode = mode
        THEN {outcome(TRUE, e, media, h, 0)}
        ELSE (IF FxMayOpen(fresh, others, h.path, mode)
              THEN {outcome(TRUE, fresh, flushed,
                            [shut EXCEPT !.mode = mode, !.file = fresh[h.path].file,
                                         !.len = fresh[h.path].len], 0)}
              ELSE {outcome(FALSE, fresh, flushed, shut, 0)})
             \cup {outcome(FALSE, closed, media, shut, 1)}
             \cup (IF h.mode = "closed" THEN {} ELSE {outcome(FALSE, e, media, shut, 1)})

\* A close that failed loses what the handle had not published, and says so.
SizeAfter(f, r) ==
    LET h == descriptors[f] IN
    IF ~r.ok /\ h.mode = "write" /\ r.entries[h.path].file = h.file
    THEN [size EXCEPT ![h.file] = r.entries[h.path].len] ELSE size

SwitchThen(f, mode, Then(_)) ==
    \E r \in Switched(f, descriptors[f], entries, mode) :
        /\ faults + r.faults <= MaxFaults
        /\ entries' = r.entries
        /\ media' = r.media
        /\ IF r.ok THEN Then(r.handle)
           ELSE /\ descriptors' = [descriptors EXCEPT ![f] = r.handle]
                /\ size' = SizeAfter(f, r)
                /\ settled' = IF size' = size THEN settled ELSE settled \ {descriptors[f].file}
                /\ faults' = faults + r.faults

-----------------------------------------------------------------------------
Init ==
    /\ filesystem_state = "not_attempted"
    /\ entries \in Formatted
    /\ media = entries
    /\ descriptors = [f \in Fds |-> FreeSlot]
    /\ current_directory = <<>>
    /\ rename = Idle
    /\ size = [o \in Files |-> 0]
    /\ settled = Held(entries)
    /\ calls = 0 /\ faults = 0 /\ resets = 0

\* runtime_filex_initialize: without a volume the adapter refuses every call from then on.
Initialize ==
    /\ filesystem_state = "not_attempted"
    /\ \/ filesystem_state' = "ready" /\ Works
       \/ filesystem_state' = "unavailable" /\ Fails
    /\ UNCHANGED <<data, descriptors, current_directory, rename, calls, resets>>

\* A reset: of each entry of the root directory the medium keeps the flushed
\* version or the one FileX had already written back from its cache.
Reset ==
    /\ resets < MaxResets
    /\ resets' = resets + 1
    /\ \E written \in SUBSET Top :
        LET left == [p \in Paths |-> IF <<p[1]>> \in written THEN entries[p] ELSE media[p]] IN
        /\ Tree(left) /\ OneName(left)
        /\ entries' = left
        /\ media' = left
        /\ size' = [o \in Files |-> IF o \in settled \/ o \notin Held(left) THEN size[o]
                                    ELSE left[CHOOSE p \in Paths : left[p].file = o].len]
    /\ filesystem_state' = "not_attempted"
    /\ descriptors' = [f \in Fds |-> FreeSlot]
    /\ current_directory' = <<>>
    /\ rename' = Idle
    /\ UNCHANGED <<settled, calls, faults>>

Unused == Files \ (Held(entries) \cup Held(media) \cup settled
                   \cup {h.opened : h \in Handles} \cup {h.file : h \in Handles})
Creates(p, o) == [entries EXCEPT ![p] = Regular(o, 0)]

\* _open.  A file it creates stays when the rest of the call fails.
Open(p, flags) ==
    /\ Ready
    /\ Allocated # Fds
    /\ IsDir(Parent(p)) /\ entries[p].kind # "dir"
    /\ LET new == entries[p].kind = "none"
           f == CHOOSE g \in Fds \ Allocated : \A k \in Fds \ Allocated : g <= k
       IN
       /\ new => flags.create /\ Unused # {}
       /\ LET o == IF new THEN CHOOSE u \in Unused : \A w \in Unused : u <= w ELSE entries[p].file
              e == IF new THEN Creates(p, o) ELSE entries
              slot == [FreeSlot EXCEPT !.allocated = TRUE, !.path = p, !.opened = o,
                                       !.readable = flags.read, !.writable = flags.write,
                                       !.flush_on_close = new \/ flags.write]
              truncates == flags.write /\ flags.truncate
          IN \E r \in Switched(f, slot, e, IF flags.write THEN "write" ELSE "read") :
             /\ entries' = r.entries
             /\ media' = r.media
             /\ \/ /\ r.ok
                   /\ faults' = faults
                   /\ LET opened == [descriptors EXCEPT ![f] = r.handle] IN
                      descriptors' = IF truncates THEN FxResized(opened, o, 0) ELSE opened
                   /\ size' = IF new \/ truncates THEN [size EXCEPT ![o] = 0] ELSE size
                   /\ settled' = IF new \/ truncates THEN settled \ {o} ELSE settled
                \/ /\ ~r.ok \/ (truncates /\ faults < MaxFaults)
                   /\ faults' = faults + IF r.ok THEN 1 ELSE r.faults
                   /\ faults' <= MaxFaults
                   /\ UNCHANGED descriptors
                   /\ size' = IF new THEN [size EXCEPT ![o] = 0] ELSE size
                   /\ settled' = IF new THEN settled \ {o} ELSE settled
    /\ Rest

FlushesOnClose_IfWriting(h) == h.mode = "write"
FlushesOnClose(h) == h.flush_on_close

Released_Marked(f) == [descriptors EXCEPT ![f].allocated = FALSE]
Released(f) == [descriptors EXCEPT ![f] = FreeSlot]

\* _close.  The slot is released whatever fails.
Close(f) ==
    /\ Ready /\ f \in Allocated
    /\ LET h == descriptors[f]
           left == Released(f)
           others == {left[g] : g \in Fds}
           closed == FxPublished(entries, {h})
       IN
       /\ descriptors' = left
       /\ \/ /\ IF FlushesOnClose(h) THEN Flushed(closed, others) ELSE NotFlushed(closed)
             /\ settled' = IF h.flush_on_close THEN settled \cup ({h.opened} \ {Nobody}) ELSE settled
             /\ UNCHANGED size /\ Works
          \/ FlushesOnClose(h) /\ NotFlushed(closed) /\ UNCHANGED ghosts /\ Fails
          \/ /\ h.mode # "closed"
             /\ NotFlushed(entries)
             /\ size' = IF h.mode = "write" THEN [size EXCEPT ![h.file] = entries[h.path].len] ELSE size
             /\ settled' = IF size' = size THEN settled ELSE settled \ {h.file}
             /\ Fails
    /\ Rest

\* _read and, for a descriptor whose handle a failure left closed, _lseek.
Read(f) ==
    /\ Ready /\ f \in Allocated /\ descriptors[f].readable
    /\ SwitchThen(f, "read", LAMBDA h : /\ descriptors' = [descriptors EXCEPT ![f] = h]
                                        /\ UNCHANGED ghosts /\ Works)
    /\ Rest

Lseek(f) ==
    /\ Ready /\ f \in Allocated /\ descriptors[f].mode = "closed"
    /\ SwitchThen(f, IF descriptors[f].readable THEN "read" ELSE "write",
                  LAMBDA h : /\ descriptors' = [descriptors EXCEPT ![f] = h]
                             /\ UNCHANGED ghosts /\ Works)
    /\ Rest

Resized(f, h, n) == /\ descriptors' = FxResized([descriptors EXCEPT ![f] = h], h.file, n)
                    /\ size' = [size EXCEPT ![h.file] = n]
                    /\ settled' = settled \ {h.file}
NotResized(f, h) == descriptors' = [descriptors EXCEPT ![f] = h] /\ UNCHANGED ghosts

\* _write extends the file or overwrites; extend_with_zeroes is part of the
\* extension.  A call that fails on the way may have extended the file already.
Write(f) ==
    /\ Ready /\ f \in Allocated /\ descriptors[f].writable
    /\ SwitchThen(f, "write", LAMBDA h :
          \/ \E n \in {h.len, h.len + 1} \cap 1 .. MaxLen : Resized(f, h, n) /\ (Works \/ Fails)
          \/ NotResized(f, h) /\ Fails)
    /\ Rest

\* _ftruncate.  Zeroes are written piece by piece, the file is cut in one call, and
\* either is done when the seek that follows fails.
Ftruncate(f, n) ==
    /\ Ready /\ f \in Allocated /\ descriptors[f].writable
    /\ SwitchThen(f, "write", LAMBDA h :
          \/ Resized(f, h, n) /\ Works
          \/ \E m \in {n} \cup h.len .. n : Resized(f, h, m) /\ Fails
          \/ NotResized(f, h) /\ Fails)
    /\ Rest

\* _fsync, and _utime but for the dates: the media is flushed.
Fsync(f) ==
    /\ Ready /\ f \in Allocated
    /\ Flushed(entries, Handles)
    /\ settled' = settled \cup ({descriptors[f].opened} \ {Nobody})
    /\ UNCHANGED <<descriptors, size>> /\ Works /\ Rest

Utime(p) ==
    /\ Ready /\ entries[p].kind # "none"
    /\ Flushed(entries, Handles)
    /\ UNCHANGED <<descriptors, size, settled>> /\ (Works \/ Fails) /\ Rest

\* What _stat answers for the length of the file at p: the writer is authoritative.
StatSize_AnyHandle(p) ==
    Max({entries[p].len} \cup {h.len : h \in {g \in Handles : g.mode # "closed" /\ g.path = p}})
StatSize(p) ==
    LET on == {f \in Fds : descriptors[f].mode # "closed" /\ descriptors[f].path = p}
        writers == {f \in on : descriptors[f].mode = "write"}
    IN  IF writers # {} THEN descriptors[CHOOSE f \in writers : TRUE].len
        ELSE Max({entries[p].len} \cup {descriptors[f].len : f \in on})

-----------------------------------------------------------------------------
\* The last step of a call that changed an entry: the change, and the flush that may fail.
Entered(e, out) ==
    /\ \/ Flushed(e, Handles) /\ settled' = settled \ out /\ Works
       \/ NotFlushed(e) /\ settled' = settled \ out /\ Fails
    /\ UNCHANGED size

\* _unlink.  FileX refuses a file with an open handle; a descriptor whose handle a
\* failure left closed is not known to it and keeps a name that is gone.
Unlink(p) ==
    /\ Ready /\ entries[p].kind = "file"
    /\ ~\E h \in Handles : h.mode # "closed" /\ h.file = entries[p].file
    /\ Entered([entries EXCEPT ![p] = Absent], {entries[p].file})
    /\ descriptors' = [f \in Fds |-> IF descriptors[f].allocated /\ descriptors[f].path = p
                                     THEN [descriptors[f] EXCEPT !.opened = Nobody, !.file = Nobody]
                                     ELSE descriptors[f]]
    /\ Rest

Mkdir(p) ==
    /\ Ready /\ IsDir(Parent(p)) /\ entries[p].kind = "none" /\ p \notin Backups
    /\ Entered([entries EXCEPT ![p] = Directory], {})
    /\ UNCHANGED descriptors /\ Rest

Empty(p) == \A q \in Paths : Below(q, p) /\ q # p => entries[q].kind = "none"

Rmdir(p) ==
    /\ Ready /\ entries[p].kind = "dir"
    /\ ~Below(current_directory, p)
    /\ Empty(p)
    /\ Entered([entries EXCEPT ![p] = Absent], {})
    /\ UNCHANGED descriptors /\ Rest

Chdir(arg) ==
    /\ Ready
    /\ Normalized(arg) # "EACCES"
    /\ IsDir(Normalized(arg))
    /\ current_directory' = Normalized(arg)
    /\ Called
    /\ UNCHANGED <<filesystem_state, data, descriptors, rename, faults, resets>>

-----------------------------------------------------------------------------
(* _rename.  old = new stands for a change of spelling only.               *)

Replaces(old, new) == old # new /\ entries[new].kind # "none"

Affected(old, p, q) == IF entries[old].kind = "dir" THEN Below(p, q) ELSE p = q

InUse_ByHandle(old, new) ==
    \E f \in Allocated : descriptors[f].mode = "write" /\ Affected(old, descriptors[f].path, new)
InUse(old, new) == \E f \in Allocated : Affected(old, descriptors[f].path, new)

MayRename(old, new) ==
    LET dir == entries[old].kind = "dir" IN
    /\ entries[old].kind # "none" /\ IsDir(Parent(new))
    /\ ~(dir /\ old # new /\ Below(new, old))
    /\ \A f \in Allocated : Affected(old, descriptors[f].path, old) =>
           Migrated(descriptors[f].path, old, new) \in Paths
    /\ dir /\ Below(current_directory, old) => Migrated(current_directory, old, new) \in Paths
    /\ Replaces(old, new) =>
          /\ entries[new].kind = entries[old].kind
          /\ dir => ~Below(current_directory, new) /\ Empty(new)
          /\ ~InUse(old, new)
    /\ \A p \in Paths : Below(p, old) /\ entries[p].kind # "none" => Migrated(p, old, new) \in Paths

FreeBackups == {b \in Backups : entries[b].kind = "none"}

SourceIsOpen_Ignored(old) == FALSE
SourceIsOpen(old) ==
    \E f \in Allocated : descriptors[f].mode # "closed" /\ Affected(old, descriptors[f].path, old)

\* The checks, then the flush when the source has an open handle.
RenameStarts(old, new) ==
    /\ Ready
    /\ MayRename(old, new)
    /\ rename' = [Idle EXCEPT !.pc = IF Replaces(old, new) THEN "backup" ELSE "source",
                              !.old = old, !.new = new, !.file = entries[old].file,
                              !.replaces = Replaces(old, new)]
    /\ IF SourceIsOpen(old)
       THEN Flushed(entries, Handles) ELSE UNCHANGED <<entries, media>>
    /\ settled' = settled \ FilesBelow(entries, old)
    /\ UNCHANGED <<filesystem_state, descriptors, current_directory, size, faults, resets>>
    /\ Called

RenameEnds == rename' = Idle

Backup ==
    /\ rename.pc = "backup"
    /\ settled' = settled \ {entries[rename.new].file}
    /\ \/ /\ FreeBackups # {}
          /\ LET b == CHOOSE x \in FreeBackups : TRUE IN
             /\ entries' = FxRenamed(entries, rename.new, b)
             /\ rename' = [rename EXCEPT !.pc = "source", !.backup = b]
          /\ Works
       \/ FreeBackups = {} /\ RenameEnds /\ UNCHANGED entries /\ Works
       \/ RenameEnds /\ UNCHANGED entries /\ Fails
    /\ UNCHANGED <<filesystem_state, media, descriptors, current_directory, size, calls, resets>>

AfterFailedMove_Gone == Idle
AfterFailedMove == IF rename.replaces THEN [rename EXCEPT !.pc = "restore"] ELSE Idle

MoveSource ==
    /\ rename.pc = "source"
    /\ \/ /\ entries' = FxRenamed(entries, rename.old, rename.new)
          /\ descriptors' = FxRenamedHandles(entries, rename.old)
          /\ rename' = [rename EXCEPT !.pc = IF rename.replaces THEN "delete" ELSE "migrate"]
          /\ Works
       \/ /\ rename' = AfterFailedMove
          /\ UNCHANGED <<entries, descriptors>>
          /\ Fails
    /\ UNCHANGED <<filesystem_state, media, current_directory, ghosts, calls, resets>>

Restore ==
    /\ rename.pc = "restore"
    /\ RenameEnds
    /\ \/ entries' = FxRenamed(entries, rename.backup, rename.new) /\ Works
       \/ UNCHANGED entries /\ Fails
    /\ UNCHANGED <<filesystem_state, media, descriptors, current_directory, ghosts, calls, resets>>

DeleteBackup ==
    /\ rename.pc = "delete"
    /\ \/ entries' = [entries EXCEPT ![rename.backup] = Absent]
          /\ rename' = [rename EXCEPT !.pc = "migrate"] /\ Works
       \/ UNCHANGED entries /\ rename' = [rename EXCEPT !.pc = "migrate", !.failed = TRUE] /\ Fails
    /\ UNCHANGED <<filesystem_state, media, descriptors, current_directory, ghosts, calls, resets>>

NewDirectory_Kept == current_directory
NewDirectory == IF entries[rename.new].kind = "dir"
                THEN Migrated(current_directory, rename.old, rename.new) ELSE current_directory

Migrate ==
    LET dir == entries[rename.new].kind = "dir"
        moved(p) == IF dir \/ p = rename.old THEN Migrated(p, rename.old, rename.new) ELSE p IN
    /\ rename.pc = "migrate"
    /\ descriptors' = [f \in Fds |-> IF descriptors[f].allocated
                                     THEN [descriptors[f] EXCEPT !.path = moved(@)] ELSE descriptors[f]]
    /\ current_directory' = NewDirectory
    /\ IF rename.failed THEN RenameEnds ELSE rename' = [rename EXCEPT !.pc = "sync"]
    /\ UNCHANGED <<filesystem_state, data, calls, faults, resets>>

Sync ==
    /\ rename.pc = "sync"
    /\ \/ /\ Flushed(entries, Handles)
          /\ settled' = settled \cup FilesBelow(entries, rename.new)
          /\ RenameEnds /\ Works
       \/ NotFlushed(entries) /\ UNCHANGED settled /\ RenameEnds /\ Fails
    /\ UNCHANGED <<filesystem_state, descriptors, current_directory, size, calls, resets>>

-----------------------------------------------------------------------------
Next ==
    \/ Initialize \/ Reset
    \/ \E p \in Paths \ Backups : (\E flags \in Flags : Open(p, flags)) \/ Utime(p) \/ Mkdir(p)
    \/ \E p \in Paths : Unlink(p) \/ Rmdir(p)
    \/ \E f \in Fds : Close(f) \/ Read(f) \/ Lseek(f) \/ Write(f) \/ Fsync(f)
                      \/ \E n \in 0 .. MaxLen : Ftruncate(f, n)
    \/ \E arg \in Targets : Chdir(arg)
    \/ \E old, new \in Paths \ Backups : RenameStarts(old, new)
    \/ Backup \/ MoveSource \/ Restore \/ DeleteBackup \/ Migrate \/ Sync

Spec == Init /\ [][Next]_vars

-----------------------------------------------------------------------------
TypeOK ==
    /\ filesystem_state \in {"not_attempted", "ready", "unavailable"}
    /\ \A e \in {entries, media} : \A p \in Paths : e[p] \in Entry
    /\ \A h \in Handles : h.mode \in {"closed", "read", "write"} /\ (h.allocated \/ h = FreeSlot)
    /\ current_directory \in Paths \cup {<<>>}
    /\ size \in [Files -> 0 .. MaxLen] /\ settled \subseteq Files
    /\ calls \in 0 .. MaxCalls /\ faults \in 0 .. MaxFaults /\ resets \in 0 .. MaxResets

(* What close, fsync and rename promised survives a reset: the medium holds *)
(* the file under its name with every byte written before the call, whatever *)
(* other descriptors, failures and resets do until the file is changed.     *)
PromisesSurvive ==
    \A o \in settled : \E p \in Paths : media[p] = Regular(o, size[o]) /\ entries[p].file = o

(* A completed write is in the handle that made it or in the entry: the     *)
(* flush before a rename, which copies the entry over the open handle, and  *)
(* the order of close and reopen in switch_mode, keep it.                   *)
WritesAreKept ==
    \A p \in Paths : entries[p].kind = "file" =>
        FxPublished(entries, Handles)[p].len = size[entries[p].file]

(* A handle that a call opens sees the length of every write completed     *)
(* before, also those another descriptor has not flushed: stale end of file *)
(* is what switch_mode flushes for.                                        *)
OpensAreCurrent ==
    [][\A f \in Fds : descriptors[f].mode # descriptors'[f].mode /\ descriptors'[f].mode # "closed"
          => descriptors'[f].len = size'[descriptors'[f].file]]_vars

(* A descriptor stays on the file it was opened on: rename of that file, of *)
(* a directory above it or over it, and reopening by path, never make its   *)
(* path the name of another file.                                          *)
NeverRetargeted ==
    rename.pc = "idle" => \A h \in Handles : h.opened # Nobody =>
        /\ entries[h.path].file = h.opened
        /\ h.mode # "closed" => h.file = h.opened

(* A file goes away by unlink, by a reset, or as the replaced destination of *)
(* a rename whose source has taken its name: whatever FileX call of a rename *)
(* fails, both files keep their data under some name, and the destination    *)
(* keeps a file unless restoring it failed as well.                         *)
RenameLosesNothing ==
    [][rename.pc # "idle" /\ filesystem_state' = "ready" =>
         /\ \A o \in Held(entries) \ Held(entries') :
               rename.pc = "delete" /\ entries[rename.new].file = rename.file
         /\ rename'.pc = "idle" /\ rename.replaces /\ rename.pc # "restore" =>
               entries'[rename.new].kind # "none"]_vars

(* The current directory names an existing directory: rmdir and rename refuse *)
(* to take it away and a rename above it moves it along.                     *)
WorkingDirectoryExists ==
    filesystem_state = "ready" /\ rename.pc = "idle" => IsDir(current_directory)

(* The paths that the adapter keeps in memory go on naming what they named  *)
(* through every call, fault and reset: descriptors and handles their file, *)
(* the current directory a directory.                                      *)
Consistent == TypeOK /\ WorkingDirectoryExists /\ NeverRetargeted

(* What _stat answers is never less than the completed writes made of the   *)
(* file, and without an I/O error exactly that, after growth and after      *)
(* shrink: neither the entry, which lags the writer, nor a reader that was   *)
(* opened before the last change shows through.                             *)
StatIsCurrent ==
    filesystem_state = "ready" /\ rename.pc = "idle" =>
        \A p \in Paths : entries[p].kind = "file" =>
            /\ StatSize(p) >= size[entries[p].file]
            /\ faults = 0 => StatSize(p) = size[entries[p].file]
=============================================================================
