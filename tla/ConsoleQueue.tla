----------------------------- MODULE ConsoleQueue ---------------------------
(***************************************************************************)
(* The console of the Linux build: linux/console.cpp. Output goes straight *)
(* through until the terminal interface starts, then into a ring that the  *)
(* interface drains and that drops its oldest chunk when it is full. Every *)
(* operation holds the mutex throughout: one step.                         *)
(***************************************************************************)
EXTENDS Integers, Sequences

CONSTANTS
    Capacity,   \* QUEUE_CAPACITY
    MaxChunks   \* bound: chunks published

VARIABLES
    mode,
    queue, head, count, dropped,
    published,  \* ghost: chunks are numbered in the order they are published
    shown       \* ghost: chunks that were written, drained or reported as dropped

vars == <<mode, queue, head, count, dropped, published, shown>>

Init ==
    /\ mode = "pass_through"
    /\ queue = [slot \in 0 .. Capacity - 1 |-> 0]
    /\ head = 0 /\ count = 0 /\ dropped = 0
    /\ published = 0 /\ shown = 0

begin_buffering ==
    /\ mode = "pass_through" /\ mode' = "buffering"
    /\ UNCHANGED <<queue, head, count, dropped, published, shown>>
activate_interactive ==
    /\ mode # "plain" /\ mode' = "interactive"
    /\ UNCHANGED <<queue, head, count, dropped, published, shown>>

\* flush_queue: the drop message, then everything that is queued.
Flush_NotDone == UNCHANGED <<head, count, dropped, shown>>
Flush == /\ head' = (head + count) % Capacity /\ count' = 0
         /\ dropped' = 0 /\ shown' = shown + dropped + count
activate_plain == mode' = "plain" /\ Flush /\ UNCHANGED <<queue, published>>

\* enqueue of the chunks of one text; each may push out the oldest.
Overflowing(chunks) == IF count + chunks > Capacity THEN count + chunks - Capacity ELSE 0
enqueue(chunks) ==
    /\ queue' = [slot \in DOMAIN queue |->
                    LET after == (slot - head - count) % Capacity
                    IN  IF after < chunks THEN published + after + 1 ELSE queue[slot]]
    /\ head' = (head + Overflowing(chunks)) % Capacity
    /\ count' = count + chunks - Overflowing(chunks)
    /\ dropped' = dropped + Overflowing(chunks)

\* publish: a text of 1 .. Capacity chunks; an empty one is a chunk too.
publish(chunks) ==
    /\ published + chunks <= MaxChunks
    /\ published' = published + chunks
    /\ IF mode \in {"pass_through", "plain"}
       THEN shown' = shown + chunks /\ UNCHANGED <<queue, head, count, dropped>>
       ELSE enqueue(chunks) /\ UNCHANGED shown
    /\ UNCHANGED mode

\* drain into a span of the given size; the drop message takes the first place.
drain(size) ==
    /\ mode = "interactive"
    /\ LET notice == IF dropped # 0 THEN 1 ELSE 0
           taken == IF count < size - notice THEN count ELSE size - notice
       IN  /\ head' = (head + taken) % Capacity
           /\ count' = count - taken
           /\ shown' = shown + dropped + taken
    /\ dropped' = 0
    /\ UNCHANGED <<mode, queue, published>>

Next ==
    \/ begin_buffering \/ activate_interactive \/ activate_plain
    \/ \E chunks \in 1 .. Capacity : publish(chunks)
    \/ \E size \in 1 .. Capacity : drain(size)

-----------------------------------------------------------------------------
(* Nothing vanishes and nothing overtakes: what was shown, what will be     *)
(* reported as dropped and what is queued are together all that was         *)
(* published, in that order, and text that is written directly finds        *)
(* nothing queued or unreported before it.                                  *)
NothingVanishes ==
    /\ published = shown + dropped + count
    /\ \A k \in 1 .. count : queue[(head + k - 1) % Capacity] = shown + dropped + k
    /\ mode \in {"pass_through", "plain"} => count = 0 /\ dropped = 0
=============================================================================
