------------------------------- MODULE Atomics ------------------------------
(***************************************************************************)
(* 64-bit and generic atomics of the target: atomic.cpp. Each operation    *)
(* moves its object byte by byte and relies on an InterruptGuard, which it *)
(* may enter inside another one, and in an interrupt handler.              *)
(***************************************************************************)
EXTENDS Integers

CONSTANTS Threads

VARIABLES
    object,     \* its bytes; a byte has two values here
    primask,    \* interrupts are masked
    running,    \* the context that the processor executes
    outer,      \* per context: it is inside an InterruptGuard of its own
    call,       \* per context: the operation, its guard and its local bytes
    value,      \* ghost: what the object is after the operations so far
    agreed      \* ghost: every result is that of an indivisible operation

vars == <<object, primask, running, outer, call, value, agreed>>

Handler == "interrupt"
Contexts == Threads \cup {Handler}
Bytes == 0 .. 1
Values == 0 .. 3
ReadValue(bytes) == bytes[0] + 2 * bytes[1]
ByteOf(v, i) == (IF i = 0 THEN v ELSE v \div 2) % 2
Idle == [does |-> "nothing", at |-> "out", index |-> 0, operand |-> 0, expected |-> 0,
         local |-> [i \in Bytes |-> 0], previous_primask |-> FALSE]

Init ==
    /\ object = [i \in Bytes |-> 0]
    /\ primask = FALSE
    /\ running \in Threads
    /\ outer = [c \in Contexts |-> FALSE]
    /\ call = [c \in Contexts |-> Idle]
    /\ value = 0
    /\ agreed = TRUE

\* An interrupt, or ThreadX after one; a handler runs to its end.
Preempt(c) ==
    /\ ~primask /\ c # running
    /\ running = Handler => call[Handler] = Idle /\ ~outer[Handler]
    /\ running' = c
    /\ UNCHANGED <<object, primask, outer, call, value, agreed>>

\* InterruptGuard's constructor and destructor.
Mask_Not == UNCHANGED primask
Mask == primask' = TRUE
Restore_Enables(previous) == primask' = FALSE
Restore(previous) == primask' = previous

\* Callers that have a guard already, such as those of the drivers' callbacks.
EnterSection(c) ==
    /\ running = c /\ call[c] = Idle /\ ~outer[c]
    /\ outer' = [outer EXCEPT ![c] = TRUE]
    /\ primask' = TRUE
    /\ UNCHANGED <<object, running, call, value, agreed>>
LeaveSection(c) ==
    /\ running = c /\ call[c] = Idle /\ outer[c]
    /\ outer' = [outer EXCEPT ![c] = FALSE]
    /\ primask' = FALSE
    /\ UNCHANGED <<object, running, call, value, agreed>>

\* Stores only write, and a generic exchange goes over the bytes once.
FirstPart(op) == CASE op = "store" -> "write" [] op = "swap" -> "swap" [] OTHER -> "read"
Call(c, op, operand, expected) ==
    /\ running = c /\ call[c] = Idle
    /\ call' = [call EXCEPT ![c] = [Idle EXCEPT !.does = op, !.at = FirstPart(op), !.operand = operand,
                                               !.expected = expected, !.previous_primask = primask]]
    /\ Mask
    /\ UNCHANGED <<object, running, outer, value, agreed>>

Steps(c, at) == running = c /\ call[c].at = at
\* read_value and write_value, the first byte first.
ReadByte(c) ==
    LET o == call[c] IN
    /\ Steps(c, "read") /\ o.index \in Bytes
    /\ call' = [call EXCEPT ![c].local[o.index] = object[o.index], ![c].index = o.index + 1]
    /\ UNCHANGED <<object, primask, running, outer, value, agreed>>
\* What an operation writes, given what it has read.
Operation(op, operand, previous) ==
    CASE op = "fetch_add" -> (previous + operand) % 4
      [] op = "fetch_nand" -> 3 - ReadValue([i \in Bytes |-> ByteOf(previous, i) * ByteOf(operand, i)])
      [] OTHER -> operand
\* A load has finished, and a compare-exchange that finds another value.
Compared(c) ==
    LET o == call[c]
        previous == ReadValue(o.local) IN
    /\ Steps(c, "read") /\ o.index \notin Bytes
    /\ call' = [call EXCEPT ![c].index = 0, ![c].operand = Operation(o.does, o.operand, previous),
                    ![c].at = IF o.does = "load" \/ (o.does = "compare_exchange" /\ previous # o.expected)
                              THEN "end" ELSE "write"]
    /\ UNCHANGED <<object, primask, running, outer, value, agreed>>
WriteByte(c) ==
    LET o == call[c] IN
    /\ Steps(c, "write")
    /\ object' = [object EXCEPT ![o.index] = ByteOf(o.operand, o.index)]
    /\ call' = [call EXCEPT ![c].index = o.index + 1,
                            ![c].at = IF o.index + 1 \in Bytes THEN "write" ELSE "end"]
    /\ UNCHANGED <<primask, running, outer, value, agreed>>
\* runtime_atomic_exchange
SwapByte(c) ==
    LET o == call[c] IN
    /\ Steps(c, "swap")
    /\ object' = [object EXCEPT ![o.index] = ByteOf(o.operand, o.index)]
    /\ call' = [call EXCEPT ![c].local[o.index] = object[o.index], ![c].index = o.index + 1,
                            ![c].at = IF o.index + 1 \in Bytes THEN "swap" ELSE "end"]
    /\ UNCHANGED <<primask, running, outer, value, agreed>>

\* The result of the operation, had it been indivisible, is `value`.
End(c) ==
    LET o == call[c]
        missed == o.does = "compare_exchange" /\ value # o.expected IN
    /\ Steps(c, "end")
    /\ agreed' = (o.does = "store" \/ ReadValue(o.local) = value)
    /\ value' = IF o.does = "load" \/ missed THEN value ELSE o.operand
    /\ Restore(o.previous_primask)
    /\ call' = [call EXCEPT ![c] = Idle]
    /\ UNCHANGED <<object, running, outer>>

Next == \E c \in Contexts :
    \/ Preempt(c) \/ EnterSection(c) \/ LeaveSection(c)
    \/ \E v \in Values, w \in {1, 2} :
          \/ Call(c, "compare_exchange", w, v)
          \/ v = 0 /\ \E op \in {"store", "exchange", "swap", "fetch_add", "fetch_nand"} : Call(c, op, w, 0)
    \/ Call(c, "load", 0, 0)
    \/ ReadByte(c) \/ Compared(c) \/ WriteByte(c) \/ SwapByte(c) \/ End(c)

-----------------------------------------------------------------------------
(* atomic.cpp: "A short interrupt-masked region provides atomicity on this  *)
(* single-core target". Nobody sees half a value or loses an update, and the *)
(* operations do not end the sections of their callers.                      *)
OperationsAreAtomic ==
    /\ agreed
    /\ (\A c \in Contexts : call[c] = Idle) => ReadValue(object) = value
    /\ \A c \in Contexts : outer[c] => primask /\ running = c
=============================================================================
