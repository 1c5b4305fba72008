--------------------------- MODULE DirectoryStreams -------------------------
(***************************************************************************)
(* opendir to seekdir in filesystem.cpp: a stream is a slot of a fixed     *)
(* table with a copy of the directory, made entry by entry under the       *)
(* registry's mutex, while other threads, or its reader, go on to create   *)
(* and to remove entries in between.                                       *)
(***************************************************************************)
EXTENDS Integers, Sequences, FiniteSets, SequencesExt

CONSTANTS
    Slots,          \* 1 .. MAXIMUM_OPEN_DIRECTORIES
    Names,
    Places,         \* 1 .. entries of the directory on the medium
    MaxSeek,        \* bound: positions that seekdir is given
    MaxChanges, MaxFaults

VARIABLES
    directory,      \* per place on the medium, a name or none
    directories,    \* the table
    cursor,         \* opendir's place in the directory, or 0
    held,           \* the streams the application has got and not closed
    changes, faults,
    kept,           \* ghost: per stream, the names that have been there since opendir
    reported        \* ghost: per stream, the names that readdir has given, by position

vars == <<directory, directories, cursor, held, changes, faults, kept, reported>>

None == "none"
Unused == [allocated |-> FALSE, position |-> 0, entries |-> <<>>]
Listing == {directory[i] : i \in Places} \ {None}

Init ==
    /\ directory \in {d \in [Places -> Names \cup {None}] : \A i, j \in Places : d[i] = d[j] /\ i # j => d[i] = None}
    /\ directories = [s \in Slots |-> Unused]
    /\ cursor = 0
    /\ held = {}
    /\ changes = 0 /\ faults = 0
    /\ kept = [s \in Slots |-> {}]
    /\ reported = [s \in Slots |-> <<>>]

\* The slot that opendir is filling, if it is.
Opening == {s \in Slots : directories[s].allocated} \ held
FreeSlots == {s \in Slots : ~directories[s].allocated}

\* The registry's mutex is free.
Locks == cursor = 0

\* opendir: the first free slot, if there is one (EMFILE).
opendir ==
    /\ Locks
    /\ \E s \in FreeSlots :
          /\ \A u \in FreeSlots : s <= u
          /\ directories' = [directories EXCEPT ![s] = [Unused EXCEPT !.allocated = TRUE]]
          /\ kept' = [kept EXCEPT ![s] = Listing]
          /\ reported' = [reported EXCEPT ![s] = <<>>]
    /\ cursor' = 1
    /\ UNCHANGED <<directory, held, changes, faults>>
\* fx_directory_first_full_entry_find and the next ones.
FindEntry ==
    /\ cursor \in Places
    /\ \E s \in Opening :
          directories' = IF directory[cursor] = None THEN directories
                         ELSE [directories EXCEPT ![s].entries = Append(@, directory[cursor])]
    /\ cursor' = cursor + 1
    /\ UNCHANGED <<directory, held, changes, faults, kept, reported>>
OpendirReturns ==
    /\ cursor > Cardinality(Places)
    /\ held' = held \cup Opening
    /\ cursor' = 0
    /\ UNCHANGED <<directory, directories, changes, faults, kept, reported>>
\* The device fails, or there is no memory for the next entry.
Discarded_Kept(s) == directories' = directories
Discarded(s) == directories' = [directories EXCEPT ![s] = Unused]
OpendirFails ==
    /\ cursor # 0 /\ faults < MaxFaults
    /\ faults' = faults + 1
    /\ \E s \in Opening : Discarded(s)
    /\ cursor' = 0
    /\ UNCHANGED <<directory, held, changes, kept, reported>>

\* The entry at the stream's position.
Entries_Live(s) == SelectSeq([i \in 1 .. Cardinality(Places) |-> directory[i]], LAMBDA n : n # None)
Entries(s) == directories[s].entries
readdir(s) ==
    /\ Locks /\ s \in held
    /\ directories[s].position < Len(Entries(s))
    /\ reported' = [reported EXCEPT ![s] =
          LET next == directories[s].position + 1 IN
          [i \in 1 .. (IF next > Len(@) THEN next ELSE Len(@)) |->
              IF i = next THEN Entries(s)[next] ELSE IF i <= Len(@) THEN @[i] ELSE None]]
    /\ directories' = [directories EXCEPT ![s].position = @ + 1]
    /\ UNCHANGED <<directory, cursor, held, changes, faults, kept>>
\* rewinddir, and seekdir, which takes any position.
seekdir(s, position) ==
    /\ Locks /\ s \in held
    /\ directories' = [directories EXCEPT ![s].position = position]
    /\ UNCHANGED <<directory, cursor, held, changes, faults, kept, reported>>
closedir(s) ==
    /\ Locks /\ s \in held
    /\ directories' = [directories EXCEPT ![s] = Unused]
    /\ held' = held \ {s}
    /\ UNCHANGED <<directory, cursor, changes, faults, kept, reported>>

\* Other calls on the directory: creation takes the first free place.
Change ==
    /\ Locks /\ changes < MaxChanges
    /\ changes' = changes + 1
    /\ UNCHANGED <<directories, cursor, held, faults, reported>>
Create(n) ==
    /\ n \notin Listing
    /\ \E i \in Places : /\ directory[i] = None /\ \A j \in 1 .. i - 1 : directory[j] # None
                         /\ directory' = [directory EXCEPT ![i] = n]
    /\ UNCHANGED kept
    /\ Change
Unlink(n) ==
    /\ \E i \in Places : directory[i] = n /\ directory' = [directory EXCEPT ![i] = None]
    /\ kept' = [s \in Slots |-> kept[s] \ {n}]
    /\ Change

Next ==
    \/ opendir \/ FindEntry \/ OpendirReturns \/ OpendirFails
    \/ \E s \in Slots : readdir(s) \/ closedir(s) \/ \E p \in 0 .. MaxSeek : seekdir(s, p)
    \/ \E n \in Names : Create(n) \/ Unlink(n)

-----------------------------------------------------------------------------
(* A stream read from its beginning to its end gives every entry that has   *)
(* been there all the time, none twice, and a position stands for the same  *)
(* entry for good. Only streams that somebody can close are allocated.      *)
StreamsAreComplete ==
    /\ Locks => Opening = {}
    /\ \A s \in held :
          LET read == reported[s] IN
          /\ \A i, j \in DOMAIN read : read[i] = read[j] /\ i # j => read[i] = None
          /\ Locks /\ Len(read) = Len(Entries(s)) /\ None \notin Range(read) => kept[s] \subseteq Range(read)
\* Reading a position again gives what it gave before.
PositionsAreStable ==
    [][\A s \in held \cap held' : \A i \in DOMAIN reported[s] :
          reported[s][i] # None => reported'[s][i] = reported[s][i]]_vars
=============================================================================
