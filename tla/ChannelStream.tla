---------------------------- MODULE ChannelStream ----------------------------
(* Streams over channels (stream/channel.go) between two addresses: the hub   *)
(* with its one symmetrical connection, two unbuffered channels, each behind a*)
(* readers-writer mutex that both ends share, and Send, Recv and Close as     *)
(* goroutines. What one end sends on, the other receives from.                *)
EXTENDS Integers, FiniteSets

CONSTANTS Openers,    \* calls of Open, each with the goroutine that closes
          Senders,    \* calls of Send
          Receivers,  \* calls of Recv
          Clients,    \* the calls made at the client's end
          None

Calls   == Openers \cup Senders \cup Receivers
Mutexes == {"up", "down"}    \* the client's sendMu and recvMu

VARIABLES registered, \* the hub has the connection
          closed,     \* the flag both ends point to; its channels are closed with it
          pc,         \* where each call is
          readers,    \* for each mutex, the calls holding it for reading
          writer      \* for each mutex, the call locking it: new readers wait

vars == <<registered, closed, pc, readers, writer>>

AtClient(g) == g \in Clients
SendMu(g) == IF AtClient(g) THEN "up" ELSE "down"
RecvMu(g) == IF AtClient(g) THEN "down" ELSE "up"

Init ==
    /\ registered = FALSE
    /\ closed = FALSE
    /\ pc = [g \in Calls |-> "idle"]
    /\ readers = [m \in Mutexes |-> {}]
    /\ writer = [m \in Mutexes |-> None]

Goto(g, label) == pc' = [pc EXCEPT ![g] = label]
------------------------------------------------------------------------------
(* RWMutex: a reader enters when no writer waits or holds; a writer announces *)
(* itself, and holds the mutex once the readers are gone.                     *)
RLock(g, m) ==
    /\ writer[m] = None
    /\ readers' = [readers EXCEPT ![m] = @ \cup {g}]
Announce(g, m) ==
    /\ writer[m] = None
    /\ writer' = [writer EXCEPT ![m] = g]

(* Open at one end, through the recycler: no other call at this end has an    *)
(* open stream. The hub makes the connection once and returns it ever after.  *)
Open(g) ==
    /\ pc[g] = "idle"
    /\ \A o \in Openers : pc[o] = "open" => (AtClient(o) # AtClient(g))
    /\ registered' = TRUE
    /\ Goto(g, "open")
    /\ UNCHANGED <<closed, readers, writer>>

(* Mutant of Enter: the flag is not looked at.                                *)
EnterUnchecked(g, m) ==
    /\ pc[g] = "idle" /\ registered
    /\ RLock(g, m)
    /\ Goto(g, "inside")
    /\ UNCHANGED <<registered, closed, writer>>

(* Send and Recv lock for reading, find the stream open, and then wait for    *)
(* the other end with the mutex held.                                         *)
Enter(g, m) ==
    /\ pc[g] = "idle" /\ registered
    /\ RLock(g, m)
    /\ ~closed
    /\ Goto(g, "inside")
    /\ UNCHANGED <<registered, closed, writer>>

(* They return an error when the stream is closed, or the message cannot be   *)
(* marshaled.                                                                 *)
Refuse(g, m) ==
    /\ pc[g] = "idle" /\ registered
    /\ writer[m] = None
    /\ closed \/ g \in Senders
    /\ Goto(g, "done")
    /\ UNCHANGED <<registered, closed, readers, writer>>

Send(s) == Enter(s, SendMu(s)) \/ Refuse(s, SendMu(s))
Recv(r) == Enter(r, RecvMu(r)) \/ Refuse(r, RecvMu(r))

(* The channels are unbuffered: a Send and a Recv of the other end meet.      *)
Transfer(s, r) ==
    /\ pc[s] = "inside" /\ pc[r] = "inside"
    /\ SendMu(s) = RecvMu(r)
    /\ readers' = [readers EXCEPT ![SendMu(s)] = @ \ {s, r}]
    /\ pc' = [pc EXCEPT ![s] = "done", ![r] = "done"]
    /\ UNCHANGED <<registered, closed, writer>>
------------------------------------------------------------------------------
(* The goroutine of Open: the context is done, Close locks sendMu, then       *)
(* recvMu, closes both channels unless they are, and unlocks.                 *)
Cancel(g) ==
    /\ pc[g] = "open"
    /\ Goto(g, "cancelled")
    /\ UNCHANGED <<registered, closed, readers, writer>>

LockSend(g) ==
    /\ pc[g] = "cancelled"
    /\ Announce(g, SendMu(g))
    /\ Goto(g, "send pending")
    /\ UNCHANGED <<registered, closed, readers>>
LockedSend(g) ==
    /\ pc[g] = "send pending"
    /\ readers[SendMu(g)] = {}
    /\ Goto(g, "send locked")
    /\ UNCHANGED <<registered, closed, readers, writer>>

LockRecv(g) ==
    /\ pc[g] = "send locked"
    /\ Announce(g, RecvMu(g))
    /\ Goto(g, "recv pending")
    /\ UNCHANGED <<registered, closed, readers>>

(* Mutant of LockedRecv: Close does not wait for readers of recvMu.           *)
LockedRecvAtOnce(g) ==
    /\ pc[g] = "recv pending"
    /\ Goto(g, "both locked")
    /\ UNCHANGED <<registered, closed, readers, writer>>

LockedRecv(g) ==
    /\ pc[g] = "recv pending"
    /\ readers[RecvMu(g)] = {}
    /\ Goto(g, "both locked")
    /\ UNCHANGED <<registered, closed, readers, writer>>

Close(g) ==
    /\ pc[g] = "both locked"
    /\ closed' = TRUE
    /\ writer' = [m \in Mutexes |-> None]
    /\ Goto(g, "done")
    /\ UNCHANGED <<registered, readers>>

Closing(g) == LockSend(g) \/ LockedSend(g) \/ LockRecv(g) \/ LockedRecv(g) \/ Close(g)

Next ==
    \/ \E g \in Openers : Open(g) \/ Cancel(g) \/ Closing(g)
    \/ \E s \in Senders : Send(s)
    \/ \E r \in Receivers : Recv(r)
    \/ \E s \in Senders, r \in Receivers : Transfer(s, r)

Spec == Init /\ [][Next]_vars
------------------------------------------------------------------------------
(* The channels are open while a call waits on one: Send never sends on a     *)
(* closed channel, which panics, and the "not ok" of Recv is never seen.      *)
OpenInside == \A g \in Calls : pc[g] = "inside" => ~closed
==============================================================================
