----------------------------- MODULE ConsoleInput ---------------------------
(***************************************************************************)
(* The serial console of the board: stm32/hal.cpp. The receive interrupt   *)
(* fills a ring and raises a semaphore with ceiling one; the threads that  *)
(* read take turns under a mutex, and those that write under another. The  *)
(* objects are created by the first who comes.                             *)
(***************************************************************************)
EXTENDS Integers, Sequences, FiniteSets

CONSTANTS
    Threads,
    Size,       \* CONSOLE_INPUT_BUFFER_SIZE; one place stays free
    MaxInput,   \* bound: characters accepted
    MaxFailures \* bound: objects that cannot be created

VARIABLES
    at,         \* where each thread is
    ready,      \* console_input_ready
    failures,
    reader, writer,     \* owners of console_input_mutex and console_output_mutex
    buffer, console_input_read, console_input_write,
    available,  \* the count of console_input_available
    discard_line_feed,
    accepted, returned  \* ghosts: the characters the ring took, and those the readers got

vars == <<at, ready, failures, reader, writer, buffer, console_input_read, console_input_write,
          available, discard_line_feed, accepted, returned>>
ring == <<buffer, console_input_read, console_input_write>>
input == <<ring, available, discard_line_feed, accepted, returned>>

Nobody == "nobody"
Init ==
    /\ at = [t \in Threads |-> "idle"]
    /\ ready = FALSE /\ failures = 0
    /\ reader = Nobody /\ writer = Nobody
    /\ buffer = [i \in 0 .. Size - 1 |-> "empty"]
    /\ console_input_read = 0 /\ console_input_write = 0
    /\ available = 0 /\ discard_line_feed = FALSE
    /\ accepted = <<>> /\ returned = <<>>

Goes(t, where) == at' = [at EXCEPT ![t] = where]
After(i) == (i + 1) % Size

\* __io_getchar and __io_putchar begin with initialize_console, which nobody
\* interrupts and which deletes what it created when it cannot create it all.
Enter(t, call) ==
    /\ at[t] = "idle"
    /\ \/ ready' = TRUE /\ Goes(t, call) /\ UNCHANGED failures
       \/ /\ ~ready /\ failures < MaxFailures
          /\ failures' = failures + 1
          /\ UNCHANGED <<ready, at>>
    /\ UNCHANGED <<reader, writer, input>>

LockInput(t) == /\ at[t] = "getchar" /\ reader = Nobody
                /\ reader' = t /\ Goes(t, "looks")
                /\ UNCHANGED <<ready, failures, writer, input>>

\* receive_console_character: look into the ring, else wait for the semaphore.
Look(t) ==
    /\ at[t] = "looks"
    /\ Goes(t, IF console_input_read = console_input_write THEN "waits" ELSE "pops")
    /\ UNCHANGED <<ready, failures, reader, writer, input>>
Wait(t) ==
    /\ at[t] = "waits" /\ available > 0
    /\ available' = available - 1
    /\ Goes(t, "looks")
    /\ UNCHANGED <<ready, failures, reader, writer, ring, discard_line_feed, accepted, returned>>

\* read_console_character: CR ends a line, and an LF that follows it is dropped.
Pop(t) ==
    /\ at[t] = "pops"
    /\ console_input_read' = After(console_input_read)
    /\ LET character == buffer[console_input_read]
       IN  IF discard_line_feed /\ character = "LF"
           THEN /\ discard_line_feed' = FALSE /\ Goes(t, "looks")
                /\ UNCHANGED <<reader, returned>>
           ELSE /\ discard_line_feed' = (character = "CR")
                /\ returned' = Append(returned, IF character = "CR" THEN "LF" ELSE character)
                /\ reader' = Nobody /\ Goes(t, "idle")
    /\ UNCHANGED <<ready, failures, writer, buffer, console_input_write, available, accepted>>

\* __io_putchar: HAL_UART_Transmit polls, and refuses a second transmission.
LockOutput(t) == /\ at[t] = "putchar" /\ writer = Nobody
                 /\ writer' = t /\ Goes(t, "transmits")
                 /\ UNCHANGED <<ready, failures, reader, input>>
Transmitted(t) == /\ at[t] = "transmits"
                  /\ writer' = Nobody /\ Goes(t, "idle")
                  /\ UNCHANGED <<ready, failures, reader, input>>

\* USART3_IRQHandler: the characters that have come, the newest lost when the
\* ring is full, and one put for all; an idle line alone also puts.
Full_NoGap == FALSE
Full == After(console_input_write) = console_input_read
USART3_IRQHandler(character) ==
    /\ ready
    /\ IF Full THEN UNCHANGED <<buffer, console_input_write, accepted>>
       ELSE /\ Len(accepted) < MaxInput
            /\ buffer' = [buffer EXCEPT ![console_input_write] = character]
            /\ console_input_write' = After(console_input_write)
            /\ accepted' = Append(accepted, character)
    /\ available' = 1
    /\ UNCHANGED <<at, ready, failures, reader, writer, console_input_read, discard_line_feed, returned>>
Idle_ == /\ ready /\ available' = 1
         /\ UNCHANGED <<at, ready, failures, reader, writer, ring, discard_line_feed, accepted, returned>>

Next ==
    \/ \E t \in Threads :
        \/ \E call \in {"getchar", "putchar"} : Enter(t, call)
        \/ LockInput(t) \/ Look(t) \/ Wait(t) \/ Pop(t) \/ LockOutput(t) \/ Transmitted(t)
    \/ \E character \in {"x", "CR", "LF"} : USART3_IRQHandler(character)
    \/ Idle_

-----------------------------------------------------------------------------
Waiting == (console_input_write - console_input_read) % Size
Taken == Len(accepted) - Waiting
\* Of the first n characters those that are not the LF of a CR LF.
Kept(n) == {m \in 1 .. n : ~(accepted[m] = "LF" /\ m > 1 /\ accepted[m - 1] = "CR")}
Ended(character) == IF character = "CR" THEN "LF" ELSE character

(* The readers together get what the ring took, in order, with each line     *)
(* ending once; and a reader that waits for the semaphore while characters   *)
(* are there will get it: no wake-up is lost between its look and its wait.  *)
ReadersGetLines ==
    /\ Len(returned) = Cardinality(Kept(Taken))
    /\ \A n \in Kept(Taken) : returned[Cardinality(Kept(n))] = Ended(accepted[n])
    /\ \A t \in Threads : at[t] = "waits" /\ Waiting > 0 => available > 0
    /\ Cardinality({t \in Threads : at[t] \in {"looks", "waits", "pops"}}) <= 1
    /\ Cardinality({t \in Threads : at[t] = "transmits"}) <= 1
=============================================================================
