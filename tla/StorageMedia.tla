---------------------------- MODULE StorageMedia ----------------------------
(***************************************************************************)
(* The drivers under the two volumes in storage_media.cpp: FileX asks for  *)
(* sectors of a partition of the card, LevelX for words of the flash, which *)
(* is programmed page by page and wraps within a page. Device accesses may *)
(* fail half way.                                                          *)
(***************************************************************************)
EXTENDS Integers

CONSTANTS
    Wrap,       \* ULONG has this many values
    Blocks,     \* sectors of either volume
    FlashSize, Page, EraseBlock

VARIABLES
    request,    \* the request a driver serves, or its last
    sectors,    \* of the volume asked: the request's data or what was there
    nor         \* per byte of the flash: "erased", "old" or the request's data

vars == <<request, sectors, nor>>

Values == 0 .. Wrap - 1
Untouched == [s \in 0 .. Blocks - 1 |-> "old"]
Pristine == [b \in 0 .. FlashSize - 1 |-> IF b < EraseBlock THEN "erased" ELSE "old"]
NoRequest == [does |-> "nothing", from |-> 0, hidden |-> 0, count |-> 0, done |-> 0, status |-> "none"]

Init == request = NoRequest /\ sectors = Untouched /\ nor = Pristine

valid_sector_range_Added(sector, hidden, count, capacity) ==
    (sector + hidden + count) % Wrap <= capacity
valid_sector_range(sector, hidden, count, capacity) ==
    hidden <= capacity /\ sector <= capacity - hidden /\ count <= capacity - hidden - sector

\* A driver takes a request and refuses it when it leaves the device.
Served(r, valid) == [r EXCEPT !.status = IF valid THEN "busy" ELSE "error"]
Fresh == request.status # "busy" /\ sectors' = Untouched /\ nor' = Pristine

\* direct_media_driver; the partition begins after the hidden sectors.
DirectRequest(does, sector, hidden, count) ==
    /\ Fresh
    /\ request' = Served([does |-> does, from |-> sector, hidden |-> hidden, count |-> count,
                          done |-> 0, status |-> "none"],
                         valid_sector_range(sector, hidden, count, Blocks))
\* levelx_media_driver: no partition, and sectors that FileX gives back.
LevelxRequest(does, sector, count) ==
    /\ Fresh
    /\ request' = Served([NoRequest EXCEPT !.does = does, !.from = sector, !.count = count],
                         valid_sector_range(sector, 0, count, Blocks))
\* qspi_write and qspi_erase, as nor_driver_write and nor_driver_erase call them.
Program(offset, bytes) ==
    /\ Fresh
    /\ request' = Served([NoRequest EXCEPT !.does = "program", !.from = offset, !.count = bytes],
                         offset <= FlashSize /\ bytes <= FlashSize - offset)
Erase(block) ==
    /\ Fresh
    /\ LET r == [NoRequest EXCEPT !.does = "erase", !.from = block * EraseBlock, !.count = EraseBlock]
       IN  request' = Served(r, r.from < FlashSize)

Finished == request.status = "busy" /\ request.done = request.count
Finish == /\ Finished
          /\ request' = [request EXCEPT !.status = "success"]
          /\ UNCHANGED <<sectors, nor>>
Fails == /\ request.status = "busy" /\ ~Finished
         /\ request' = [request EXCEPT !.status = "error"]
         /\ UNCHANGED <<sectors, nor>>

\* sd_read and sd_write, or LevelX: sector after sector.
Address == (request.from + request.hidden + request.done) % Wrap
TransferSector ==
    /\ request.status = "busy" /\ request.does \in {"read", "write", "release"} /\ ~Finished
    /\ sectors' = IF request.does # "read" /\ Address \in DOMAIN sectors
                  THEN [sectors EXCEPT ![Address] = request.does] ELSE sectors
    /\ request' = [request EXCEPT !.done = @ + 1]
    /\ UNCHANGED nor

\* One page program: the device wraps around within the page, and clears bits only.
PageBytes == LET left == request.count - request.done
                 room == Page - ((request.from + request.done) % Page)
             IN  IF left < room THEN left ELSE room
ProgramPage ==
    /\ request.status = "busy" /\ request.does = "program" /\ ~Finished
    /\ LET first == request.from + request.done
           base == first - (first % Page)
           written == {base + ((first + i) % Page) : i \in 0 .. PageBytes - 1}
       IN  nor' = [b \in DOMAIN nor |-> IF b \notin written THEN nor[b]
                                        ELSE IF nor[b] = "erased" THEN "data" ELSE "mixed"]
    /\ request' = [request EXCEPT !.done = @ + PageBytes]
    /\ UNCHANGED sectors
EraseSector ==
    /\ request.status = "busy" /\ request.does = "erase" /\ ~Finished
    /\ nor' = [b \in DOMAIN nor |->
                  IF b \div EraseBlock = request.from \div EraseBlock THEN "erased" ELSE nor[b]]
    /\ request' = [request EXCEPT !.done = request.count]
    /\ UNCHANGED sectors

Next ==
    \/ \E sector, hidden, count \in Values :
        \E does \in {"read", "write"} : DirectRequest(does, sector, hidden, count)
    \/ \E sector, count \in Values :
        \E does \in {"read", "write", "release"} : LevelxRequest(does, sector, count)
    \/ \E offset, bytes \in 0 .. FlashSize + Page : Program(offset, bytes)
    \/ \E block \in 0 .. FlashSize \div EraseBlock : Erase(block)
    \/ Finish \/ Fails \/ TransferSector \/ ProgramPage \/ EraseSector

-----------------------------------------------------------------------------
Asked == request.from + request.hidden .. request.from + request.hidden + request.count - 1
Changed == {s \in DOMAIN sectors : sectors[s] # "old"}
Programmed == {b \in DOMAIN nor : nor[b] # Pristine[b]}

(* No request changes anything outside the sectors or bytes it names, even   *)
(* when it fails; one that succeeds has changed them all, and lay within the *)
(* device, without help from the wrap-around of sums.                        *)
TransfersStayInside ==
    /\ Changed \cup Programmed \subseteq Asked
    /\ request.status = "success" =>
        /\ request.does \in {"read", "write", "release"} => Asked \subseteq DOMAIN sectors
        /\ request.does \in {"write", "release"} => Changed = Asked
        /\ request.does = "program" => \A b \in Asked : nor[b] \in {"data", "mixed"}
        /\ request.does = "erase" => \A b \in Asked : nor[b] = "erased"
=============================================================================
