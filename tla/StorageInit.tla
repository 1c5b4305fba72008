----------------------------- MODULE StorageInit ----------------------------
(***************************************************************************)
(* How the two volumes come up: initialize in storage_media.cpp, over many *)
(* boots. The QSPI flash is formatted when it is blank, the SD card never; *)
(* devices fail, and power may go between any two steps.                   *)
(***************************************************************************)
EXTENDS Integers

CONSTANTS
    MaxFaults,  \* bound: device errors, over all boots
    MaxBoots

VARIABLES
    at,             \* the step of this boot's initialize
    flash,          \* what the flash holds: nothing, an unfinished format, a volume, or other data
    card,           \* the card in the slot
    nor_open,
    initialization_attempted, flash_mounted, sd_mounted,
    width,          \* bus width the card was initialised with
    faults,         \* this boot's errors
    spent, boots

vars == <<at, flash, card, nor_open, initialization_attempted, flash_mounted, sd_mounted, width,
          faults, spent, boots>>
media == <<flash, card>>
mounts == <<initialization_attempted, flash_mounted, sd_mounted>>
counts == <<faults, spent, boots>>

Init ==
    /\ flash \in {"blank", "filex", "other"} /\ card \in {"none", "filex", "other"}
    /\ at = "start" /\ nor_open = FALSE /\ width = 0
    /\ initialization_attempted = FALSE /\ flash_mounted = FALSE /\ sd_mounted = FALSE
    /\ faults = {} /\ spent = 0 /\ boots = 1

Goes(where) == at' = where
Fault(what) == /\ spent < MaxFaults /\ spent' = spent + 1
               /\ faults' = faults \cup {what}
               /\ UNCHANGED boots

\* Power goes; the card may be changed while it is off.
Boot ==
    /\ boots < MaxBoots /\ boots' = boots + 1
    /\ at' = "start" /\ nor_open' = FALSE /\ width' = 0
    /\ initialization_attempted' = FALSE /\ flash_mounted' = FALSE /\ sd_mounted' = FALSE
    /\ faults' = {}
    /\ card' \in {card, "none", "filex", "other"}
    /\ UNCHANGED <<flash, spent>>

initialize ==
    /\ at \in {"start", "done"}
    /\ Goes(IF initialization_attempted THEN at ELSE "qspi")
    /\ UNCHANGED <<media, nor_open, mounts, width, counts>>

\* initialize_flash_media: any failure goes on to the card.
initialize_qspi ==
    /\ at = "qspi"
    /\ \/ Goes("levelx") /\ UNCHANGED counts
       \/ Fault("flash") /\ Goes("sd 4 bit")
    /\ UNCHANGED <<media, nor_open, mounts, width>>
open_levelx ==
    /\ at = "levelx"
    /\ \/ nor_open' = TRUE /\ Goes("probe") /\ UNCHANGED counts
       \/ nor_open' = FALSE /\ Fault("flash") /\ Goes("sd 4 bit")
    /\ UNCHANGED <<media, mounts, width>>
Empty_OrUnreadable == flash # "filex"
Empty == flash = "blank"
Probe ==
    /\ at = "probe"
    /\ nor_open' = FALSE
    /\ \/ Goes(IF Empty THEN "format" ELSE "open flash") /\ UNCHANGED counts
       \/ Fault("flash") /\ Goes("sd 4 bit")
    /\ UNCHANGED <<media, mounts, width>>
FormatBegins ==
    /\ at = "format"
    /\ \/ nor_open' = TRUE /\ flash' = "unfinished" /\ Goes("formats") /\ UNCHANGED counts
       \/ Fault("flash") /\ Goes("sd 4 bit") /\ UNCHANGED <<flash, nor_open>>
    /\ UNCHANGED <<card, mounts, width>>
FormatEnds ==
    /\ at = "formats"
    /\ \/ flash' = "filex" /\ nor_open' = FALSE /\ Goes("open flash") /\ UNCHANGED counts
       \/ Fault("flash") /\ Goes("sd 4 bit") /\ UNCHANGED <<flash, nor_open>>
    /\ UNCHANGED <<card, mounts, width>>
OpenFlash ==
    /\ at = "open flash"
    /\ \/ flash = "filex" /\ flash_mounted' = TRUE /\ nor_open' = TRUE /\ UNCHANGED counts
       \/ flash # "filex" /\ flash_mounted' = FALSE /\ nor_open' \in BOOLEAN /\ UNCHANGED counts
       \/ flash_mounted' = FALSE /\ nor_open' \in BOOLEAN /\ Fault("flash")
    /\ Goes("sd 4 bit")
    /\ UNCHANGED <<media, initialization_attempted, sd_mounted, width>>

\* initialize_sd_media: four bits, one bit, and one bit again when the first
\* sector came with a bad checksum.
InitCard(bits, otherwise) ==
    /\ at = IF bits = 4 THEN "sd 4 bit" ELSE "sd 1 bit"
    /\ \/ card # "none" /\ width' = bits /\ Goes("open sd") /\ UNCHANGED counts
       \/ card = "none" /\ width' = 0 /\ Goes(otherwise) /\ UNCHANGED counts
       \/ width' = 0 /\ Goes(otherwise) /\ Fault(IF bits = 4 THEN "4 bit" ELSE "card")
    /\ UNCHANGED <<media, nor_open, mounts>>
Retried == width = 4
OpenSd ==
    /\ at = "open sd"
    /\ \/ sd_mounted' = (card = "filex") /\ Goes("return") /\ UNCHANGED <<width, counts>>
       \/ /\ sd_mounted' = FALSE /\ Fault(IF width = 4 THEN "4 bit" ELSE "card")
          /\ IF Retried THEN Goes("sd 1 bit") /\ width' = 0 ELSE Goes("return") /\ UNCHANGED width
       \/ sd_mounted' = FALSE /\ Fault("card") /\ Goes("return") /\ UNCHANGED width
    /\ UNCHANGED <<media, nor_open, initialization_attempted, flash_mounted>>

Return ==
    /\ at = "return"
    /\ Goes("done") /\ initialization_attempted' = TRUE
    /\ UNCHANGED <<media, nor_open, flash_mounted, sd_mounted, width, counts>>

Next ==
    \/ Boot \/ initialize
    \/ initialize_qspi \/ open_levelx \/ Probe \/ FormatBegins \/ FormatEnds \/ OpenFlash
    \/ InitCard(4, "sd 1 bit") \/ InitCard(1, "return") \/ OpenSd \/ Return

-----------------------------------------------------------------------------
(* What a volume that is mounted reads from is a volume, still open and     *)
(* initialised; no boot touches a flash that was not blank; and a readable  *)
(* card comes up whatever the flash does, also when four bits do not start  *)
(* it or its first sector comes with a bad checksum over them.              *)
VolumesAreKept ==
    /\ [](/\ flash_mounted => flash = "filex" /\ nor_open
          /\ sd_mounted => card = "filex" /\ width # 0
          /\ at = "done" /\ card = "filex" /\ "card" \notin faults => sd_mounted
          /\ at = "done" /\ flash \in {"blank", "filex"} /\ "flash" \notin faults => flash_mounted)
    /\ [][flash' # flash => flash = "blank" \/ at = "formats"]_vars
=============================================================================
