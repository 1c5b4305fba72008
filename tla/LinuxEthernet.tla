---------------------------- MODULE LinuxEthernet ---------------------------
(***************************************************************************)
(* The Ethernet driver of the Linux build: linux/Ethernet.cpp, a packet    *)
(* socket whose descriptor several threads use while another may close it. *)
(* The process opens and closes other descriptors meanwhile, and the       *)
(* kernel gives a closed number to the next who asks.                      *)
(***************************************************************************)
EXTENDS Integers, Sequences, FiniteSets

CONSTANTS
    Threads,
    Numbers     \* the descriptor numbers of the process, 1 .. n

VARIABLES
    calls,      \* per thread: the call, where it is, the mutexes it still needs, its copy of the socket
    owner,      \* of each mutex
    m_socket,   \* 0 for -1
    user        \* whose a descriptor number is: "driver", "other" or "closed"

vars == <<calls, owner, m_socket, user>>

None == 0
Mutexes == {"transmit", "receive", "lifecycle"}
Idle == [op |-> "none", at |-> "idle", needs |-> <<>>, socket |-> None]

MutexOrder_StopShort(op) == CASE op = "start" -> <<"lifecycle">>
                    [] op = "stop" -> <<"transmit", "lifecycle">>
                    [] OTHER -> <<op, "lifecycle">>
MutexOrder(op) == CASE op = "start" -> <<"lifecycle">>
                    [] op = "stop" -> <<"transmit", "receive", "lifecycle">>
                    [] OTHER -> <<op, "lifecycle">>

Init == /\ calls = [t \in Threads |-> Idle]
        /\ owner = [m \in Mutexes |-> "nobody"]
        /\ m_socket = None
        /\ user = [n \in Numbers |-> "closed"]

At(t, op, where) == calls[t].op = op /\ calls[t].at = where /\ calls[t].needs = <<>>
Goes(t, where, s) == calls' = [calls EXCEPT ![t].at = where, ![t].socket = s]
Free(t, mutexes) == [m \in Mutexes |-> IF owner[m] = t /\ m \in mutexes THEN "nobody" ELSE owner[m]]
Returns(t) == calls' = [calls EXCEPT ![t] = Idle] /\ owner' = Free(t, Mutexes)
Opened(n, who) == n \in Numbers /\ user[n] = "closed" /\ user' = [user EXCEPT ![n] = who]
Lowest == CHOOSE n \in Numbers : user[n] = "closed" /\ \A k \in 1 .. n - 1 : user[k] # "closed"

Call(t, op) ==
    /\ calls[t] = Idle
    /\ calls' = [calls EXCEPT ![t].op = op, ![t].at = "entered", ![t].needs = MutexOrder(op)]
    /\ UNCHANGED <<owner, m_socket, user>>

Acquire(t) ==
    /\ calls[t].needs # <<>>
    /\ owner[Head(calls[t].needs)] = "nobody"
    /\ owner' = [owner EXCEPT ![Head(calls[t].needs)] = t]
    /\ calls' = [calls EXCEPT ![t].needs = Tail(@)]
    /\ UNCHANGED <<m_socket, user>>

\* start: already running, a refused configuration or no socket end it.
Start(t) ==
    /\ At(t, "start", "entered")
    /\ \/ Returns(t) /\ UNCHANGED user
       \/ /\ m_socket = None
          /\ \E n \in Numbers : user[n] = "closed"
          /\ Opened(Lowest, "driver")
          /\ Goes(t, "configures", Lowest)
          /\ UNCHANGED owner
    /\ UNCHANGED m_socket

\* bind, filter, membership and address: each failure closes the socket.
Configure(t) ==
    /\ At(t, "start", "configures")
    /\ Returns(t)
    /\ \/ m_socket' = calls[t].socket /\ UNCHANGED user
       \/ user' = [user EXCEPT ![calls[t].socket] = "closed"] /\ UNCHANGED m_socket

\* stop: forgets the descriptor, then closes it; a failed close has released it as well.
Stop(t) ==
    /\ At(t, "stop", "entered")
    /\ IF m_socket = None THEN Returns(t) ELSE Goes(t, "closes", m_socket) /\ UNCHANGED owner
    /\ m_socket' = None
    /\ UNCHANGED user
Close(t) ==
    /\ At(t, "stop", "closes")
    /\ user' = [user EXCEPT ![calls[t].socket] = "closed"]
    /\ Returns(t)
    /\ UNCHANGED m_socket

\* transmit and receive copy the descriptor under the lifecycle mutex.
CopySocket(t) ==
    /\ \E op \in {"transmit", "receive"} : At(t, op, "entered")
    /\ IF m_socket = None THEN Returns(t)
       ELSE Goes(t, "polls", m_socket) /\ owner' = Free(t, {"lifecycle"})
    /\ UNCHANGED <<m_socket, user>>

Poll(t) ==
    /\ \E op \in {"transmit", "receive"} : At(t, op, "polls")
    /\ Returns(t) \/ (Goes(t, "transfers", calls[t].socket) /\ UNCHANGED owner)
    /\ UNCHANGED <<m_socket, user>>

\* sendto ends the call; recvfrom also meets frames it polls again after.
Transfer(t) ==
    /\ \E op \in {"transmit", "receive"} : At(t, op, "transfers")
    /\ \/ Returns(t)
       \/ calls[t].op = "receive" /\ Goes(t, "polls", calls[t].socket) /\ UNCHANGED owner
    /\ UNCHANGED <<m_socket, user>>

OtherOpens == /\ \E n \in Numbers : user[n] = "closed"
              /\ Opened(Lowest, "other")
              /\ UNCHANGED <<calls, owner, m_socket>>
OtherCloses(n) == /\ user[n] = "other"
                  /\ user' = [user EXCEPT ![n] = "closed"]
                  /\ UNCHANGED <<calls, owner, m_socket>>

Next ==
    \/ \E t \in Threads :
        \/ \E op \in {"start", "stop", "transmit", "receive"} : Call(t, op)
        \/ Acquire(t) \/ Start(t) \/ Configure(t) \/ Stop(t) \/ Close(t)
        \/ CopySocket(t) \/ Poll(t) \/ Transfer(t)
    \/ OtherOpens \/ \E n \in Numbers : OtherCloses(n)

-----------------------------------------------------------------------------
(* No system call goes to a descriptor that was closed, or that meanwhile   *)
(* belongs to somebody else, and every socket is the driver's current one or *)
(* in the hands of a start or stop that will settle it: none leaks.          *)
SocketIsOurs ==
    /\ \A t \in Threads : calls[t].socket # None => user[calls[t].socket] = "driver"
    /\ \A n \in Numbers : user[n] = "driver" =>
          n = m_socket \/ \E t \in Threads : calls[t].socket = n /\ calls[t].op \in {"start", "stop"}
=============================================================================
