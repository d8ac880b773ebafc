---------------------------- MODULE LibraryProofs ---------------------------
(***************************************************************************)
(* Proofs about the libraries of Libraries.tla: for any calls, streams and   *)
(* ends, any number of indices and CPUs, any channels of errors, any bounds   *)
(* on calls and nonces, and any orders, nodes, threshold and field.          *)
(***************************************************************************)
EXTENDS Libraries, Integers, FiniteSetTheorems, SequenceTheorems, TLAPS
-----------------------------------------------------------------------------
(* Recycler. *)

Users == {c \in Callers : rPc[c] = "using"}

\* The inductive invariant: the count is that of the calls with a stream, and the
\* stream in the map is open while there are any.
RecyclerInv ==
  /\ rPc \in [Callers -> {"idle", "got", "locked", "opening", "using", "done"}]
  /\ using \in [Callers -> Callers \cup {None}]
  /\ \A c \in Callers : using[c] # None <=> rPc[c] = "using"
  /\ IsFiniteSet(Users) /\ streamsRc = Cardinality(Users)
  /\ streamsRc > 0 => streams \in open /\ streams \in Callers
  /\ Recycling!OpenWhileUsed

LEMMA RecyclerInit == Recycling!Init => RecyclerInv
<1> SUFFICES ASSUME Recycling!Init PROVE RecyclerInv
  OBVIOUS
<1>1. Users = {}
  BY DEF Recycling!Init, Users
<1> QED BY <1>1, FS_EmptySet DEF Recycling!Init, RecyclerInv, Recycling!OpenWhileUsed

\* A call goes elsewhere without getting or giving up a stream.
LEMMA RecyclerStays ==
  ASSUME RecyclerInv, NEW c \in Callers, NEW place \in {"got", "locked", "opening", "done"},
         rPc[c] # "using", rPc' = [rPc EXCEPT ![c] = place],
         UNCHANGED <<using, streams, streamsRc, open>>
  PROVE  RecyclerInv'
<1>1. Users' = Users
  BY DEF Users, RecyclerInv
<1> QED BY <1>1 DEF RecyclerInv, Recycling!OpenWhileUsed

\* A call gets a stream that is open and in the map.
LEMMA RecyclerGets ==
  ASSUME RecyclerInv, NEW c \in Callers, rPc[c] # "using",
         rPc' = [rPc EXCEPT ![c] = "using"], using' = [using EXCEPT ![c] = streams'],
         streamsRc' = streamsRc + 1, open \subseteq open',
         streams' \in open' /\ streams' \in Callers
  PROVE  RecyclerInv'
<1>1. Users' = Users \cup {c} /\ c \notin Users
  BY DEF Users, RecyclerInv
<1>2. IsFiniteSet(Users') /\ streamsRc' = Cardinality(Users')
  BY <1>1, FS_AddElement DEF RecyclerInv
<1>3. streams' # None
  BY StreamAssumption
<1> QED BY <1>2, <1>3 DEF RecyclerInv, Recycling!OpenWhileUsed

\* Release keeps the stream in the map as long as another call has one.
LEMMA RecyclerReleases ==
  ASSUME RecyclerInv, NEW c \in Callers, Recycling!Release(c)
  PROVE  RecyclerInv'
<1>1. Users' = Users \ {c} /\ c \in Users
  BY DEF Users, RecyclerInv, Recycling!Release
<1>2. IsFiniteSet(Users') /\ streamsRc' = Cardinality(Users') /\ streamsRc' \in Nat
  <2>1. IsFiniteSet(Users) /\ streamsRc = Cardinality(Users) /\ streamsRc' = streamsRc - 1
    BY DEF RecyclerInv, Recycling!Release
  <2>2. IsFiniteSet(Users \ {c}) /\ Cardinality(Users \ {c}) = Cardinality(Users) - 1
    BY <1>1, <2>1, FS_RemoveElement
  <2>3. Cardinality(Users \ {c}) \in Nat
    BY <2>2, FS_CardinalityType
  <2> QED BY <1>1, <2>1, <2>2, <2>3
<1>3. \A d \in Callers : using'[d] # None <=> rPc'[d] = "using"
  BY DEF RecyclerInv, Recycling!Release
<1>4. (streamsRc' > 0 => streams' \in open' /\ streams' \in Callers) /\ Recycling!OpenWhileUsed'
  <2>1. CASE streamsRc' = 0
    <3>1. Users' = {}
      BY <1>2, <2>1, FS_EmptySet
    <3>2. \A d \in Callers : using'[d] = None
      BY <1>3, <3>1 DEF Users
    <3> QED BY <2>1, <3>2 DEF Recycling!OpenWhileUsed
  <2>2. CASE streamsRc' # 0
    <3>1. streamsRc > 0
      BY <1>2, <2>2, FS_CardinalityType DEF RecyclerInv, Recycling!Release
    <3> QED BY <2>2, <3>1 DEF RecyclerInv, Recycling!Release, Recycling!OpenWhileUsed
  <2> QED BY <2>1, <2>2
<1> QED BY <1>2, <1>3, <1>4 DEF RecyclerInv, Recycling!Release

LEMMA RecyclerNext == RecyclerInv /\ [Recycling!Next]_(Recycling!vars) => RecyclerInv'
<1> SUFFICES ASSUME RecyclerInv, [Recycling!Next]_(Recycling!vars) PROVE RecyclerInv'
  OBVIOUS
<1>1. ASSUME NEW c \in Callers, Recycling!GetMutex(c) PROVE RecyclerInv'
  BY <1>1, RecyclerStays DEF Recycling!GetMutex
<1>2. ASSUME NEW c \in Callers, Recycling!Lock(c) PROVE RecyclerInv'
  BY <1>2, RecyclerStays DEF Recycling!Lock
<1>3. ASSUME NEW c \in Callers, Recycling!StartOpen(c) PROVE RecyclerInv'
  BY <1>3, RecyclerStays DEF Recycling!StartOpen
<1>4. ASSUME NEW c \in Callers, Recycling!Opened(c) PROVE RecyclerInv'
  <2>1. /\ rPc[c] # "using" /\ rPc' = [rPc EXCEPT ![c] = "using"]
        /\ using' = [using EXCEPT ![c] = streams'] /\ streamsRc' = streamsRc + 1
        /\ open \subseteq open' /\ streams' \in open' /\ streams' \in Callers
    BY <1>4 DEF Recycling!Opened
  <2> QED BY <2>1, RecyclerGets
<1>5. ASSUME NEW c \in Callers, Recycling!OpenFailed(c) PROVE RecyclerInv'
  BY <1>5, RecyclerStays DEF Recycling!OpenFailed
<1>6. ASSUME NEW c \in Callers, Recycling!Reuse(c) PROVE RecyclerInv'
  <2>1. /\ rPc[c] # "using" /\ rPc' = [rPc EXCEPT ![c] = "using"]
        /\ using' = [using EXCEPT ![c] = streams'] /\ streamsRc' = streamsRc + 1
        /\ open \subseteq open' /\ streams' \in open' /\ streams' \in Callers
    BY <1>6 DEF Recycling!Reuse, RecyclerInv
  <2> QED BY <2>1, RecyclerGets
<1>7. CASE UNCHANGED Recycling!vars
  <2>1. Users' = Users
    BY <1>7 DEF Recycling!vars, Users
  <2> QED BY <1>7, <2>1 DEF Recycling!vars, RecyclerInv, Recycling!OpenWhileUsed
<1> QED BY <1>1, <1>2, <1>3, <1>4, <1>5, <1>6, <1>7, RecyclerReleases DEF Recycling!Next

\* A stream is open as long as a call that returned it has not ended its context,
\* whatever number of calls share it, open one next to it or wait for a mutex that
\* was deleted meanwhile: streamRecycler.Open and its goroutine.
THEOREM SharedStreamsOpen == Recycling!Spec => []Recycling!OpenWhileUsed
<1>1. RecyclerInv => Recycling!OpenWhileUsed
  BY DEF RecyclerInv
<1> QED BY <1>1, RecyclerInit, RecyclerNext, PTL DEF Recycling!Spec
-----------------------------------------------------------------------------
(* ChannelStream. *)

ChannelType ==
  /\ closed \in BOOLEAN
  /\ cPc \in [Channels!Calls -> {"idle", "open", "cancelled", "send pending", "send locked",
                                 "recv pending", "both locked", "inside", "done"}]
  /\ readers \in [Channels!Mutexes -> SUBSET Channels!Calls]
  /\ writer \in [Channels!Mutexes -> Channels!Calls \cup {None}]

\* Who waits on a channel holds its mutex for reading, and finds it open.
InsideReads ==
  /\ \A g \in Channels!Calls : cPc[g] = "inside" => ~closed
  /\ \A g \in Openers : cPc[g] # "inside"
  /\ \A s \in Senders : cPc[s] = "inside" => s \in readers[Channels!SendMu(s)]
  /\ \A r \in Receivers : cPc[r] = "inside" => r \in readers[Channels!RecvMu(r)]

\* Close holds the mutexes it has locked, against readers too.
ClosersWrite ==
  \A g \in Openers :
    /\ cPc[g] \in {"send pending", "send locked", "recv pending", "both locked"} =>
         writer[Channels!SendMu(g)] = g
    /\ cPc[g] \in {"recv pending", "both locked"} => writer[Channels!RecvMu(g)] = g
    /\ cPc[g] \in {"send locked", "recv pending", "both locked"} =>
         readers[Channels!SendMu(g)] = {}
    /\ cPc[g] = "both locked" => readers[Channels!RecvMu(g)] = {}

\* The inductive invariant.
ChannelInv == ChannelType /\ InsideReads /\ ClosersWrite

\* The two mutexes of an end are the two there are.
LEMMA BothMutexes ==
  ASSUME NEW g
  PROVE  /\ Channels!SendMu(g) \in Channels!Mutexes /\ Channels!RecvMu(g) \in Channels!Mutexes
         /\ Channels!SendMu(g) # Channels!RecvMu(g)
         /\ Channels!Mutexes = {Channels!SendMu(g), Channels!RecvMu(g)}
BY DEF Channels!SendMu, Channels!RecvMu, Channels!Mutexes

LEMMA ChannelInit == Channels!Init => ChannelInv
BY DEF Channels!Init, ChannelInv, ChannelType, InsideReads, ClosersWrite, Channels!Calls

\* Send and Recv enter while nobody locks the mutex.
LEMMA Enters ==
  ASSUME ChannelInv, NEW g \in Senders \cup Receivers, NEW m \in Channels!Mutexes,
         g \in Senders => m = Channels!SendMu(g), g \in Receivers => m = Channels!RecvMu(g),
         Channels!Enter(g, m)
  PROVE  ChannelInv'
<1> DEFINE SendMu(c) == Channels!SendMu(c)
           RecvMu(c) == Channels!RecvMu(c)
<1>1. /\ writer[m] = None /\ readers' = [readers EXCEPT ![m] = @ \cup {g}] /\ ~closed
      /\ cPc' = [cPc EXCEPT ![g] = "inside"] /\ UNCHANGED <<closed, writer>>
  BY DEF Channels!Enter, Channels!RLock, Channels!Goto
<1>2. g \in Channels!Calls /\ g \notin Openers /\ Openers \subseteq Channels!Calls
  BY StreamAssumption DEF Channels!Calls
<1>3. ChannelType'
  BY <1>1, <1>2 DEF ChannelInv, ChannelType
<1>4. \A c : SendMu(c) \in Channels!Mutexes /\ RecvMu(c) \in Channels!Mutexes
  BY BothMutexes
<1> HIDE DEF SendMu, RecvMu
<1>5. InsideReads'
  <2>1. /\ \A c \in Channels!Calls : cPc'[c] = "inside" => ~closed'
        /\ \A c \in Openers : cPc'[c] # "inside"
    BY <1>1, <1>2 DEF ChannelInv, ChannelType, InsideReads
  <2>2. ASSUME NEW s \in Senders, cPc'[s] = "inside" PROVE s \in readers'[SendMu(s)]
    BY <1>1, <1>2, <1>4, <2>2, StreamAssumption
    DEF ChannelInv, ChannelType, InsideReads, SendMu, Channels!Calls
  <2>3. ASSUME NEW r \in Receivers, cPc'[r] = "inside" PROVE r \in readers'[RecvMu(r)]
    BY <1>1, <1>2, <1>4, <2>3, StreamAssumption
    DEF ChannelInv, ChannelType, InsideReads, RecvMu, Channels!Calls
  <2> QED BY <2>1, <2>2, <2>3 DEF InsideReads, SendMu, RecvMu
<1>6. ClosersWrite'
  <2> SUFFICES ASSUME NEW c \in Openers PROVE ClosersWrite!(c)'
    BY DEF ClosersWrite
  <2>1. cPc'[c] = cPc[c] /\ c # None
    BY <1>1, <1>2, StreamAssumption DEF ChannelInv, ChannelType
  <2>2. m # SendMu(c) \/ cPc[c] \notin {"send locked", "recv pending", "both locked"}
    BY <1>1, <2>1 DEF ChannelInv, ClosersWrite, SendMu
  <2>3. m # RecvMu(c) \/ cPc[c] # "both locked"
    BY <1>1, <2>1 DEF ChannelInv, ClosersWrite, RecvMu
  <2> QED BY <1>1, <1>4, <2>1, <2>2, <2>3
          DEF ChannelInv, ChannelType, ClosersWrite, SendMu, RecvMu
<1> QED BY <1>3, <1>5, <1>6 DEF ChannelInv

\* A call that is not inside moves on, where no mutex is needed or one is given up.
LEMMA ChannelStays ==
  ASSUME ChannelInv, NEW g \in Channels!Calls, NEW place \in {"open", "cancelled", "done"},
         cPc' = [cPc EXCEPT ![g] = place], UNCHANGED <<closed, readers, writer>>
  PROVE  ChannelInv'
BY DEF ChannelInv, ChannelType, InsideReads, ClosersWrite, Channels!Calls

\* Close locks one of its mutexes, which nobody has locked.
LEMMA ClosersAnnounce ==
  ASSUME ChannelInv, NEW g \in Openers, Channels!LockSend(g) \/ Channels!LockRecv(g)
  PROVE  ChannelInv'
<1>1. PICK m \in Channels!Mutexes, place \in {"send pending", "recv pending"} :
        /\ writer[m] = None /\ writer' = [writer EXCEPT ![m] = g]
        /\ cPc' = [cPc EXCEPT ![g] = place] /\ UNCHANGED <<closed, readers>>
        /\ place = "send pending" => m = Channels!SendMu(g) /\ cPc[g] = "cancelled"
        /\ place = "recv pending" => m = Channels!RecvMu(g) /\ cPc[g] = "send locked"
  BY BothMutexes DEF Channels!LockSend, Channels!LockRecv, Channels!Announce, Channels!Goto
<1>2. g \in Channels!Calls /\ Openers \subseteq Channels!Calls
  BY DEF Channels!Calls
<1>3. ChannelType'
  BY <1>1, <1>2 DEF ChannelInv, ChannelType
<1>4. InsideReads'
  BY <1>1, <1>2, StreamAssumption DEF ChannelInv, ChannelType, InsideReads, Channels!Calls
<1>5. ClosersWrite'
  <2> SUFFICES ASSUME NEW c \in Openers PROVE ClosersWrite!(c)'
    BY DEF ClosersWrite
  <2>1. /\ Channels!SendMu(c) \in Channels!Mutexes /\ Channels!RecvMu(c) \in Channels!Mutexes
        /\ Channels!SendMu(c) # Channels!RecvMu(c) /\ c # None
    BY BothMutexes, StreamAssumption
  <2>2. CASE c = g
    BY <1>1, <1>2, <2>1, <2>2 DEF ChannelInv, ChannelType, ClosersWrite
  <2>3. CASE c # g
    <3>1. cPc'[c] = cPc[c]
      BY <1>1, <1>2, <2>3 DEF ChannelInv, ChannelType
    <3> QED BY <1>1, <2>1, <3>1 DEF ChannelInv, ChannelType, ClosersWrite
  <2> QED BY <2>2, <2>3
<1> QED BY <1>3, <1>4, <1>5 DEF ChannelInv

\* It has waited for the readers of one.
LEMMA ClosersLock ==
  ASSUME ChannelInv, NEW g \in Openers, Channels!LockedSend(g) \/ Channels!LockedRecv(g)
  PROVE  ChannelInv'
<1>1. g \in Channels!Calls /\ Openers \subseteq Channels!Calls
  BY DEF Channels!Calls
<1>2. /\ \/ cPc[g] = "send pending" /\ cPc' = [cPc EXCEPT ![g] = "send locked"]
            /\ readers[Channels!SendMu(g)] = {}
         \/ cPc[g] = "recv pending" /\ cPc' = [cPc EXCEPT ![g] = "both locked"]
            /\ readers[Channels!RecvMu(g)] = {}
      /\ UNCHANGED <<closed, readers, writer>>
  BY DEF Channels!LockedSend, Channels!LockedRecv, Channels!Goto
<1>3. ChannelType'
  BY <1>1, <1>2 DEF ChannelInv, ChannelType
<1>4. InsideReads'
  BY <1>1, <1>2 DEF ChannelInv, ChannelType, InsideReads, Channels!Calls
<1>5. ClosersWrite'
  BY <1>1, <1>2 DEF ChannelInv, ChannelType, ClosersWrite
<1> QED BY <1>3, <1>4, <1>5 DEF ChannelInv

\* Close holds both mutexes: nobody is inside, and nobody else closes.
LEMMA Closes ==
  ASSUME ChannelInv, NEW g \in Openers, Channels!Close(g)
  PROVE  ChannelInv'
<1>1. /\ cPc[g] = "both locked" /\ cPc' = [cPc EXCEPT ![g] = "done"]
      /\ writer' = [m \in Channels!Mutexes |-> None] /\ UNCHANGED readers /\ closed' = TRUE
  BY DEF Channels!Close, Channels!Goto
<1>2. g \in Channels!Calls /\ Openers \subseteq Channels!Calls
  BY DEF Channels!Calls
<1>3. \A m \in Channels!Mutexes : readers[m] = {} /\ writer[m] = g
  <2>1. Channels!Mutexes = {Channels!SendMu(g), Channels!RecvMu(g)}
    BY BothMutexes
  <2> QED BY <1>1, <2>1 DEF ChannelInv, ClosersWrite
<1>4. ChannelType'
  BY <1>1, <1>2 DEF ChannelInv, ChannelType
<1>5. \A c : Channels!SendMu(c) \in Channels!Mutexes /\ Channels!RecvMu(c) \in Channels!Mutexes
  BY BothMutexes
<1>6. InsideReads'
  <2>1. \A c \in Channels!Calls : cPc[c] # "inside"
    BY <1>3, <1>5 DEF ChannelInv, InsideReads, Channels!Calls
  <2> QED BY <1>1, <1>2, <2>1 DEF ChannelInv, ChannelType, InsideReads, Channels!Calls
<1>7. ClosersWrite'
  <2>1. \A c \in Openers : c = g \/ cPc[c] \notin {"send pending", "send locked",
                                                   "recv pending", "both locked"}
    BY <1>3, <1>5 DEF ChannelInv, ClosersWrite
  <2> QED BY <1>1, <1>2, <2>1 DEF ChannelInv, ChannelType, ClosersWrite
<1> QED BY <1>4, <1>6, <1>7 DEF ChannelInv

\* A Send and a Recv have met and give up the mutex.
LEMMA Transfers ==
  ASSUME ChannelInv, NEW s \in Senders, NEW r \in Receivers, Channels!Transfer(s, r)
  PROVE  ChannelInv'
<1>1. PICK m \in Channels!Mutexes :
        /\ m = Channels!SendMu(s) /\ m = Channels!RecvMu(r)
        /\ readers' = [readers EXCEPT ![m] = @ \ {s, r}]
        /\ cPc' = [cPc EXCEPT ![s] = "done", ![r] = "done"] /\ UNCHANGED <<closed, writer>>
  BY BothMutexes DEF Channels!Transfer
<1>2. s \in Channels!Calls /\ r \in Channels!Calls /\ s \notin Openers /\ r \notin Openers
  BY StreamAssumption DEF Channels!Calls
<1>3. \A c : Channels!SendMu(c) \in Channels!Mutexes /\ Channels!RecvMu(c) \in Channels!Mutexes
  BY BothMutexes
<1>4. \A c \in Channels!Calls : cPc'[c] = IF c \in {s, r} THEN "done" ELSE cPc[c]
  BY <1>1, <1>2 DEF ChannelInv, ChannelType
<1>5. \A n \in Channels!Mutexes : readers'[n] = IF n = m THEN readers[n] \ {s, r} ELSE readers[n]
  BY <1>1 DEF ChannelInv, ChannelType
<1>6. ChannelType'
  BY <1>1, <1>2 DEF ChannelInv, ChannelType
<1>7. InsideReads'
  <2>1. ASSUME NEW c \in Channels!Calls, NEW n \in Channels!Mutexes,
               c \in readers[n], cPc'[c] = "inside"
        PROVE  c \in readers'[n]
    BY <1>4, <1>5, <2>1
  <2>2. \A c \in Channels!Calls : cPc'[c] = "inside" => cPc[c] = "inside"
    BY <1>4
  <2> QED BY <1>1, <1>3, <2>1, <2>2 DEF ChannelInv, InsideReads, Channels!Calls
<1>8. ClosersWrite'
  <2>1. \A c \in Openers : cPc'[c] = cPc[c]
    BY <1>2, <1>4 DEF Channels!Calls
  <2>2. \A n \in Channels!Mutexes : readers[n] = {} => readers'[n] = {}
    BY <1>5
  <2> QED BY <1>1, <1>3, <2>1, <2>2 DEF ChannelInv, ClosersWrite
<1> QED BY <1>6, <1>7, <1>8 DEF ChannelInv

LEMMA ChannelNext == ChannelInv /\ [Channels!Next]_(Channels!vars) => ChannelInv'
<1> SUFFICES ASSUME ChannelInv, [Channels!Next]_(Channels!vars) PROVE ChannelInv'
  OBVIOUS
<1>1. ASSUME NEW g \in Openers, Channels!Open(g) \/ Channels!Cancel(g) PROVE ChannelInv'
  <2>1. g \in Channels!Calls
    BY DEF Channels!Calls
  <2> QED BY <1>1, <2>1, ChannelStays DEF Channels!Open, Channels!Cancel, Channels!Goto
<1>2. ASSUME NEW g \in Senders \cup Receivers, NEW m, Channels!Refuse(g, m) PROVE ChannelInv'
  <2>1. g \in Channels!Calls
    BY DEF Channels!Calls
  <2> QED BY <1>2, <2>1, ChannelStays DEF Channels!Refuse, Channels!Goto
<1>3. ASSUME NEW s \in Senders, Channels!Send(s) PROVE ChannelInv'
  <2>1. s \notin Receivers
    BY StreamAssumption
  <2> QED BY <1>2, <1>3, <2>1, Enters, BothMutexes DEF Channels!Send
<1>4. ASSUME NEW r \in Receivers, Channels!Recv(r) PROVE ChannelInv'
  <2>1. r \notin Senders
    BY StreamAssumption
  <2> QED BY <1>2, <1>4, <2>1, Enters, BothMutexes DEF Channels!Recv
<1>5. ASSUME NEW g \in Openers, Channels!Closing(g) PROVE ChannelInv'
  BY <1>5, ClosersAnnounce, ClosersLock, Closes DEF Channels!Closing
<1>6. CASE UNCHANGED Channels!vars
  BY <1>6 DEF Channels!vars, ChannelInv, ChannelType, InsideReads, ClosersWrite
<1> QED BY <1>1, <1>3, <1>4, <1>5, <1>6, Transfers DEF Channels!Next

\* The channels are open while a Send or a Recv waits on one, whichever end closes
\* the stream and when: channelStream.Send, Recv and Close.
THEOREM NobodyInsideClosed == Channels!Spec => []Channels!OpenInside
<1>1. ChannelInv => Channels!OpenInside
  BY DEF ChannelInv, InsideReads, Channels!OpenInside
<1> QED BY <1>1, ChannelInit, ChannelNext, PTL DEF Channels!Spec
-----------------------------------------------------------------------------
(* ForAll. *)

Running == DOMAIN next

\* A goroutine that runs has not called the function with j yet.
Pending(j) == \E s \in Running : next[s] <= j /\ j < s + per

ForAllType ==
  /\ num \in Nat /\ per \in Nat \ {0} /\ counted \in BOOLEAN /\ index \in Nat
  /\ Running \subseteq Nat /\ IsFiniteSet(Running) /\ next \in [Running -> Nat]
  /\ fCalled \in [0 .. num - 1 -> Nat]

\* The goroutines have disjoint ranges of per indices, below that of the caller.
Disjoint ==
  /\ \A s \in Running : s + per <= index /\ s <= next[s]
  /\ \A s, t \in Running : s < t => s + per <= t

\* Called with: the indices of the goroutines so far but those still to come.
Progress ==
  \A j \in 0 .. num - 1 : fCalled[j] = IF j < index /\ ~Pending(j) THEN 1 ELSE 0

\* The WaitGroup counts the goroutines that run, and those to come if they were added
\* before the first.
Waited ==
  /\ counted => per = 1 /\ index <= num
  /\ wg = Cardinality(Running) + (IF counted THEN num - index ELSE 0)
  /\ fPc # "spawning" => index >= num
  /\ fPc = "returned" => Running = {}

\* The inductive invariant.
ForAllInv == ForAllType /\ Disjoint /\ Progress /\ Waited

LEMMA ForAllInit == Iterating!Init => ForAllInv
<1> SUFFICES ASSUME Iterating!Init PROVE ForAllInv
  OBVIOUS
<1>1. /\ num \in Nat /\ per \in Nat \ {0} /\ counted \in BOOLEAN
      /\ counted => per = 1
      /\ wg = IF counted THEN num ELSE 0
  <2>1. \A n \in 0 .. MaxNum, cpus \in CPUs : Iterating!PerGoroutine(n, cpus) \in Nat \ {0}
    BY ForAllAssumption DEF Iterating!PerGoroutine
  <2>2. CASE Iterating!ForAllStart
    <3>1. PICK n \in 0 .. MaxNum, cpus \in CPUs :
            Iterating!Start(n, Iterating!PerGoroutine(n, cpus), FALSE)
      BY <2>2 DEF Iterating!ForAllStart
    <3>2. ~counted /\ counted \in BOOLEAN
      BY <3>1 DEF Iterating!Start
    <3> QED BY <2>1, <3>1, <3>2, ForAllAssumption DEF Iterating!Start
  <2>3. CASE Iterating!CoForAllStart
    BY <2>3, ForAllAssumption DEF Iterating!CoForAllStart, Iterating!Start
  <2>4. CASE Iterating!CoBeginStart
    <3>1. PICK n \in 0 .. MaxNum : Iterating!Start(n, 1, FALSE)
      BY <2>4 DEF Iterating!CoBeginStart
    <3>2. ~counted /\ counted \in BOOLEAN
      BY <3>1 DEF Iterating!Start
    <3> QED BY <3>1, <3>2, ForAllAssumption DEF Iterating!Start
  <2> QED BY <2>2, <2>3, <2>4 DEF Iterating!Init
<1>2. Running = {} /\ index = 0 /\ fPc = "spawning"
  BY DEF Iterating!Init, Running
<1>3. ForAllType /\ Disjoint
  BY <1>1, <1>2, FS_EmptySet DEF Iterating!Init, ForAllType, Disjoint, Running
<1>4. Progress
  BY <1>1, <1>2 DEF Iterating!Init, Progress
<1>5. Waited
  BY <1>1, <1>2, FS_EmptySet DEF Waited
<1> QED BY <1>3, <1>4, <1>5 DEF ForAllInv

\* A goroutine is started.
LEMMA Spawns == ForAllInv /\ Iterating!Spawn => ForAllInv'
<1> SUFFICES ASSUME ForAllInv, Iterating!Spawn PROVE ForAllInv'
  OBVIOUS
<1>1. /\ fPc = "spawning" /\ index < num /\ index' = index + per
      /\ wg' = IF counted THEN wg ELSE wg + 1
      /\ UNCHANGED <<num, per, counted, fPc, fCalled>>
  BY DEF Iterating!Spawn
<1>2. /\ Running' = Running \cup {index} /\ next'[index] = index
      /\ \A s \in Running : s # index /\ next'[s] = next[s]
      /\ index \notin Running
  BY DEF Iterating!Spawn, Running, ForAllInv, ForAllType, Disjoint
<1>3. ForAllType'
  <2>1. IsFiniteSet(Running')
    BY <1>2, FS_AddElement DEF ForAllInv, ForAllType
  <2>2. next' \in [Running' -> Nat]
    BY <1>2 DEF Iterating!Spawn, ForAllInv, ForAllType, Running
  <2> QED BY <1>1, <1>2, <2>1, <2>2 DEF ForAllInv, ForAllType
<1>4. Disjoint'
  BY <1>1, <1>2 DEF ForAllInv, ForAllType, Disjoint
<1>5. Progress'
  <2> SUFFICES ASSUME NEW j \in 0 .. num - 1
               PROVE  fCalled[j] = IF j < index' /\ ~Pending(j)' THEN 1 ELSE 0
    BY <1>1 DEF Progress
  <2>1. Pending(j)' <=> Pending(j) \/ (index <= j /\ j < index')
    BY <1>1, <1>2 DEF Pending
  <2>2. j < index' <=> j < index \/ (index <= j /\ j < index')
    BY <1>1 DEF ForAllInv, ForAllType
  <2>3. fCalled[j] = IF j < index /\ ~Pending(j) THEN 1 ELSE 0
    BY DEF ForAllInv, Progress
  <2> QED BY <2>1, <2>2, <2>3 DEF ForAllInv, ForAllType
<1>6. Waited'
  <2>1. Cardinality(Running') = Cardinality(Running) + 1 /\ Cardinality(Running) \in Nat
    BY <1>2, FS_AddElement, FS_CardinalityType DEF ForAllInv, ForAllType
  <2> QED BY <1>1, <2>1 DEF ForAllInv, ForAllType, Waited
<1> QED BY <1>3, <1>4, <1>5, <1>6 DEF ForAllInv

\* A goroutine calls the function with its next index.
LEMMA Calls ==
  ASSUME ForAllInv, NEW s \in Running, Iterating!Call(s)
  PROVE  ForAllInv'
<1>1. /\ next[s] < s + per /\ next[s] < num
      /\ fCalled' = [fCalled EXCEPT ![next[s]] = @ + 1]
      /\ next' = [next EXCEPT ![s] = @ + 1]
      /\ UNCHANGED <<num, per, counted, fPc, index, wg>>
  BY DEF Iterating!Call, Iterating!Remaining
<1>2. /\ Running' = Running
      /\ \A t \in Running : next'[t] = IF t = s THEN next[s] + 1 ELSE next[t]
  BY <1>1 DEF ForAllInv, ForAllType, Running
<1>3. next[s] \in 0 .. num - 1
  BY <1>1 DEF ForAllInv, ForAllType
<1>4. ForAllType'
  <2>1. next \in [Running -> Nat] /\ fCalled \in [0 .. num - 1 -> Nat]
    BY DEF ForAllInv, ForAllType
  <2>2. next[s] + 1 \in Nat /\ fCalled[next[s]] + 1 \in Nat
    BY <1>3, <2>1
  <2>3. fCalled' \in [0 .. num - 1 -> Nat] /\ next' \in [Running -> Nat]
    <3>1. /\ fCalled' = [fCalled EXCEPT ![next[s]] = fCalled[next[s]] + 1]
          /\ next' = [next EXCEPT ![s] = next[s] + 1]
      BY <1>1
    <3> HIDE <1>1, <1>2
    <3> QED BY <1>3, <2>1, <2>2, <3>1, ZenonT(30)
  <2> QED BY <1>1, <1>2, <2>3 DEF ForAllInv, ForAllType
<1>5. Disjoint'
  BY <1>1, <1>2 DEF ForAllInv, ForAllType, Disjoint
<1>6. Progress'
  <2> SUFFICES ASSUME NEW j \in 0 .. num - 1
               PROVE  fCalled'[j] = IF j < index /\ ~Pending(j)' THEN 1 ELSE 0
    BY <1>1 DEF Progress
  <2>1. fCalled[j] = IF j < index /\ ~Pending(j) THEN 1 ELSE 0
    BY DEF ForAllInv, Progress
  <2>2. CASE j = next[s]
    <3>1. j < index /\ Pending(j)
      BY <1>1, <2>2 DEF ForAllInv, ForAllType, Disjoint, Pending
    <3>2. ~Pending(j)'
      BY <1>1, <1>2, <2>2 DEF ForAllInv, ForAllType, Disjoint, Pending
    <3> QED BY <1>1, <2>1, <2>2, <3>1, <3>2 DEF ForAllInv, ForAllType
  <2>3. CASE j # next[s]
    <3>1. ASSUME NEW t \in Running PROVE next'[t] <= j <=> next[t] <= j
      BY <1>2, <2>3 DEF ForAllInv, ForAllType
    <3>2. Pending(j)' <=> Pending(j)
      BY <1>1, <1>2, <3>1 DEF Pending
    <3> QED BY <1>1, <1>3, <2>1, <2>3, <3>2 DEF ForAllInv, ForAllType
  <2> QED BY <2>2, <2>3
<1>7. Waited'
  BY <1>1, <1>2 DEF ForAllInv, Waited
<1> QED BY <1>4, <1>5, <1>6, <1>7 DEF ForAllInv

\* A goroutine returns when it has nothing left to call.
LEMMA Dones ==
  ASSUME ForAllInv, NEW s \in Running, Iterating!Done(s)
  PROVE  ForAllInv'
<1>1. /\ ~(next[s] < s + per /\ next[s] < num) /\ wg' = wg - 1
      /\ UNCHANGED <<num, per, counted, fPc, index, fCalled>>
  BY DEF Iterating!Done, Iterating!Remaining
<1>2. /\ Running' = Running \ {s}
      /\ \A t \in Running' : next'[t] = next[t]
      /\ next' \in [Running' -> Nat]
  BY DEF Iterating!Done, Running, ForAllInv, ForAllType
<1>3. /\ IsFiniteSet(Running') /\ Cardinality(Running') = Cardinality(Running) - 1
      /\ Cardinality(Running') \in Nat
  <2>1. IsFiniteSet(Running \ {s}) /\ Cardinality(Running \ {s}) = Cardinality(Running) - 1
    BY FS_RemoveElement DEF ForAllInv, ForAllType
  <2> QED BY <1>2, <2>1, FS_CardinalityType
<1>4. ForAllType'
  BY <1>1, <1>2, <1>3 DEF ForAllInv, ForAllType
<1>5. Disjoint'
  BY <1>1, <1>2 DEF ForAllInv, ForAllType, Disjoint
<1>6. Progress'
  <2> SUFFICES ASSUME NEW j \in 0 .. num - 1 PROVE Pending(j)' <=> Pending(j)
    BY <1>1 DEF ForAllInv, Progress
  <2> QED BY <1>1, <1>2 DEF ForAllInv, ForAllType, Pending
<1>7. Waited'
  <2>1. wg = Cardinality(Running) + (IF counted THEN num - index ELSE 0)
    BY DEF ForAllInv, Waited
  <2>2. Cardinality(Running) \in Nat
    BY FS_CardinalityType DEF ForAllInv, ForAllType
  <2>3. wg' = Cardinality(Running') + (IF counted THEN num - index ELSE 0)
    BY <1>1, <1>3, <2>1, <2>2 DEF ForAllInv, ForAllType
  <2> QED BY <1>1, <2>3 DEF ForAllInv, Waited
<1> QED BY <1>4, <1>5, <1>6, <1>7 DEF ForAllInv

LEMMA ForAllNext == ForAllInv /\ [Iterating!Next]_(Iterating!vars) => ForAllInv'
<1> SUFFICES ASSUME ForAllInv, [Iterating!Next]_(Iterating!vars) PROVE ForAllInv'
  OBVIOUS
<1>1. ASSUME UNCHANGED <<num, per, counted, index, wg, next, fCalled>>, Waited'
      PROVE  ForAllInv'
  BY <1>1 DEF ForAllInv, ForAllType, Disjoint, Progress, Pending, Running
<1>2. CASE Iterating!SpawnEnds
  BY <1>1, <1>2 DEF Iterating!SpawnEnds, ForAllInv, Waited, Running
<1>3. CASE Iterating!Wait
  <2>1. index >= num /\ Cardinality(Running) \in Nat /\ (counted => index <= num)
    BY <1>3, FS_CardinalityType DEF Iterating!Wait, ForAllInv, ForAllType, Waited
  <2>2. Cardinality(Running) = 0
    BY <1>3, <2>1 DEF Iterating!Wait, ForAllInv, ForAllType, Waited
  <2>3. Running = {}
    BY <2>2, FS_EmptySet DEF ForAllInv, ForAllType
  <2> QED BY <1>1, <1>3, <2>1, <2>3 DEF Iterating!Wait, ForAllInv, Waited, Running
<1>4. CASE UNCHANGED Iterating!vars
  BY <1>1, <1>4 DEF Iterating!vars, ForAllInv, Waited, Running
<1> QED BY <1>2, <1>3, <1>4, Spawns, Calls, Dones DEF Iterating!Next, Running

\* ForAll, CoForAll and CoBegin return when the function was called exactly once for
\* every index, on whatever number of CPUs: dispatch/co.go.
THEOREM EveryIndexOnce == Iterating!Spec => []Iterating!CalledForAll
<1>1. ForAllInv => Iterating!CalledForAll
  <2> SUFFICES ASSUME ForAllInv PROVE Iterating!CalledForAll
    OBVIOUS
  <2>1. DOMAIN fCalled = 0 .. num - 1
    BY DEF ForAllInv, ForAllType
  <2>2. fPc = "returned" => \A j \in 0 .. num - 1 : j < index /\ ~Pending(j)
    BY DEF ForAllInv, ForAllType, Waited, Pending
  <2>3. wg >= Cardinality(Running)
    BY FS_CardinalityType DEF ForAllInv, ForAllType, Waited
  <2>4. ASSUME NEW j \in 0 .. num - 1
        PROVE  fCalled[j] <= 1 /\ (fPc = "returned" => fCalled[j] = 1)
    BY <2>2 DEF ForAllInv, Progress
  <2>5. Iterating!Cardinality(Running) = Cardinality(Running)
    BY DEF Iterating!Cardinality, Cardinality
  <2> QED BY <2>1, <2>3, <2>4, <2>5 DEF Iterating!CalledForAll, Running
<1> QED BY <1>1, ForAllInit, ForAllNext, PTL DEF Iterating!Spec
-----------------------------------------------------------------------------
(* ErrorChannels: sequences of errors. *)

\* A sequence is its head and its tail.
LEMMA HeadAndTail ==
  ASSUME NEW S, NEW s \in Seq(S), s # <<>>
  PROVE  <<Head(s)>> \o Tail(s) = s /\ Head(s) = s[1] /\ Head(s) \in S /\ Tail(s) \in Seq(S)
<1>1. Len(s) \in Nat /\ Len(s) >= 1 /\ Head(s) = s[1] /\ \A p \in 1 .. Len(s) : s[p] \in S
  BY EmptySeq, LenProperties, ElementOfSeq
<1>2. /\ Head(s) \in S /\ Tail(s) \in Seq(S) /\ Len(Tail(s)) = Len(s) - 1
      /\ \A p \in 1 .. Len(Tail(s)) : Tail(s)[p] = s[p + 1]
  BY HeadTailProperties
<1>3. <<Head(s)>> \in Seq(S) /\ Len(<<Head(s)>>) = 1 /\ <<Head(s)>>[1] = s[1]
  BY <1>1, <1>2
<1> DEFINE t == <<Head(s)>> \o Tail(s)
<1>4. /\ t \in Seq(S) /\ Len(t) = Len(s)
      /\ \A p \in 1 .. Len(s) : t[p] = IF p <= 1 THEN <<Head(s)>>[p] ELSE Tail(s)[p - 1]
  BY <1>1, <1>2, <1>3, ConcatProperties
<1>5. \A p \in 1 .. Len(s) : t[p] = s[p]
  BY <1>1, <1>2, <1>3, <1>4
<1> HIDE DEF t
<1>6. t = s
  BY <1>4, <1>5, SeqEqual
<1> QED BY <1>1, <1>2, <1>6 DEF t

\* Inputs send different errors, each of them once.
LEMMA DifferentErrors ==
  ASSUME NEW i \in DOMAIN Errors, NEW l \in DOMAIN Errors,
         NEW j \in DOMAIN Errors[i], NEW m \in DOMAIN Errors[l], Errors[i][j] = Errors[l][m]
  PROVE  i = l /\ j = m
BY ErrorsAssumption

\* What the inputs send, by index.
LEMMA SentErrors ==
  ASSUME NEW i \in DOMAIN Errors
  PROVE  /\ Errors[i] \in Seq(AllErrors) /\ Len(Errors[i]) \in Nat
         /\ DOMAIN Errors[i] = 1 .. Len(Errors[i])
         /\ \A j \in 1 .. Len(Errors[i]) : Errors[i][j] \in AllErrors
<1>1. Errors[i] \in Seq(AllErrors)
  BY ErrorsAssumption, LenProperties, ElementOfSeq
<1> QED BY <1>1, LenProperties, ElementOfSeq

\* w has, of the first passed[i] errors of every input i, those that pass and maybe
\* others, each once and in their order.
Ordered(w, passed) ==
  /\ \A p \in DOMAIN w : \E i \in DOMAIN Errors : \E j \in 1 .. passed[i] : w[p] = Errors[i][j]
  /\ \A i \in DOMAIN Errors : \A j, l \in DOMAIN Errors[i] : \A p, q \in DOMAIN w :
       p < q /\ w[p] = Errors[i][j] /\ w[q] = Errors[i][l] => j < l
  /\ \A i \in DOMAIN Errors : \A j \in 1 .. passed[i] :
       Errors[i][j] \in Passing => \E p \in DOMAIN w : w[p] = Errors[i][j]

\* How much of every input was passed on.
IsPassed(passed) ==
  /\ DOMAIN passed = DOMAIN Errors
  /\ \A i \in DOMAIN Errors : passed[i] \in 0 .. Len(Errors[i])

\* The next error of an input is passed on.
LEMMA OrderGrows ==
  ASSUME NEW w \in Seq(AllErrors), NEW passed, IsPassed(passed), Ordered(w, passed),
         NEW i \in DOMAIN Errors, NEW then, then \in 1 .. Len(Errors[i]),
         then = passed[i] + 1, NEW after, after = [passed EXCEPT ![i] = then]
  PROVE  Ordered(w \o <<Errors[i][then]>>, after)
<1> DEFINE err == Errors[i][then]
           grown == w \o <<err>>
<1>1. err \in AllErrors /\ <<err>> \in Seq(AllErrors) /\ Len(<<err>>) = 1 /\ <<err>>[1] = err
  BY SentErrors
<1>2. /\ Len(w) \in Nat /\ DOMAIN w = 1 .. Len(w) /\ DOMAIN grown = 1 .. Len(w) + 1
      /\ \A p \in 1 .. Len(w) + 1 : grown[p] = IF p <= Len(w) THEN w[p] ELSE err
  <2>1. /\ grown \in Seq(AllErrors) /\ Len(grown) = Len(w) + 1
        /\ \A p \in 1 .. Len(w) + 1 : grown[p] = IF p <= Len(w) THEN w[p] ELSE <<err>>[p - Len(w)]
    BY <1>1, ConcatProperties
  <2>2. Len(w) \in Nat
    BY LenProperties
  <2>3. \A p \in 1 .. Len(w) + 1 : p <= Len(w) \/ p - Len(w) = 1
    BY <2>2
  <2> QED BY <1>1, <2>1, <2>2, <2>3, LenProperties
<1>3. /\ \A l \in DOMAIN Errors : after[l] = IF l = i THEN then ELSE passed[l]
      /\ \A l \in DOMAIN Errors : passed[l] \in Nat /\ passed[l] <= after[l]
      /\ \A l \in DOMAIN Errors : 1 .. passed[l] \subseteq DOMAIN Errors[l]
  BY SentErrors DEF IsPassed
<1>4. then \in DOMAIN Errors[i]
  BY SentErrors
<1> HIDE DEF err, grown
<1>5. \A p \in 1 .. Len(w) : \E l \in DOMAIN Errors : \E j \in 1 .. passed[l] : w[p] = Errors[l][j]
  BY <1>2 DEF Ordered
<1>6. ASSUME NEW p \in 1 .. Len(w) + 1
      PROVE  \E l \in DOMAIN Errors : \E j \in 1 .. after[l] : grown[p] = Errors[l][j]
  <2>1. CASE p <= Len(w)
    <3>1. PICK l \in DOMAIN Errors : \E j \in 1 .. passed[l] : w[p] = Errors[l][j]
      BY <1>2, <1>5, <2>1
    <3>2. 1 .. passed[l] \subseteq 1 .. after[l]
      BY <1>3
    <3> QED BY <1>2, <2>1, <3>1, <3>2
  <2>2. CASE ~(p <= Len(w))
    BY <1>2, <1>3, <2>2 DEF err
  <2> QED BY <2>1, <2>2
<1>7. ASSUME NEW l \in DOMAIN Errors, NEW j \in DOMAIN Errors[l], NEW m \in DOMAIN Errors[l],
             NEW p \in 1 .. Len(w) + 1, NEW q \in 1 .. Len(w) + 1,
             p < q, grown[p] = Errors[l][j], grown[q] = Errors[l][m]
      PROVE  j < m
  <2>1. p \in 1 .. Len(w) /\ w[p] = Errors[l][j]
    <3>1. p \in 1 .. Len(w)
      BY <1>2, <1>7
    <3> QED BY <1>2, <1>7, <3>1
  <2>2. CASE q <= Len(w)
    BY <1>2, <1>7, <2>1, <2>2 DEF Ordered
  <2>3. CASE ~(q <= Len(w))
    <3>1. l = i /\ m = then
      BY <1>2, <1>4, <1>7, <2>3, DifferentErrors DEF err
    <3>2. PICK n \in DOMAIN Errors : \E k \in 1 .. passed[n] : w[p] = Errors[n][k]
      BY <1>5, <2>1
    <3>3. PICK k \in 1 .. passed[n] : w[p] = Errors[n][k]
      BY <3>2
    <3>4. n = l /\ k = j
      <4>1. k \in DOMAIN Errors[n] /\ Errors[n][k] = Errors[l][j]
        BY <1>3, <2>1, <3>3
      <4> QED BY <4>1, DifferentErrors
    <3> QED BY <1>3, <3>1, <3>3, <3>4
  <2> QED BY <2>2, <2>3
<1>8. ASSUME NEW l \in DOMAIN Errors, NEW j \in 1 .. after[l], Errors[l][j] \in Passing
      PROVE  \E p \in 1 .. Len(w) + 1 : grown[p] = Errors[l][j]
  <2>1. CASE l = i /\ j = then
    <3>1. Len(w) + 1 \in 1 .. Len(w) + 1 /\ grown[Len(w) + 1] = err
      BY <1>2
    <3> QED BY <2>1, <3>1 DEF err
  <2>2. CASE ~(l = i /\ j = then)
    <3>1. j \in 1 .. passed[l]
      BY <1>3, <2>2
    <3>2. PICK p \in 1 .. Len(w) : w[p] = Errors[l][j]
      BY <1>2, <1>8, <3>1 DEF Ordered
    <3> QED BY <1>2, <3>2
  <2> QED BY <2>1, <2>2
<1>9. Ordered(grown, after)
  <2> DEFINE dom == 1 .. Len(w) + 1
  <2>1. DOMAIN grown = dom
    BY <1>2
  <2>2. \A p \in dom : \E l \in DOMAIN Errors : \E j \in 1 .. after[l] : grown[p] = Errors[l][j]
    BY <1>6
  <2>3. \A l \in DOMAIN Errors : \A j, m \in DOMAIN Errors[l] : \A p, q \in dom :
          p < q /\ grown[p] = Errors[l][j] /\ grown[q] = Errors[l][m] => j < m
    BY <1>7
  <2>4. \A l \in DOMAIN Errors : \A j \in 1 .. after[l] :
          Errors[l][j] \in Passing => \E p \in dom : grown[p] = Errors[l][j]
    BY <1>8
  <2> HIDE DEF dom
  <2> QED BY <2>1, <2>2, <2>3, <2>4 DEF Ordered
<1> QED BY <1>9 DEF grown, err

\* An error that does not pass is dropped.
LEMMA OrderDrops ==
  ASSUME NEW a \in Seq(AllErrors), NEW b \in Seq(AllErrors), b # <<>>, Head(b) \notin Passing,
         NEW passed, Ordered(a \o b, passed)
  PROVE  Ordered(a \o Tail(b), passed)
<1> DEFINE w == a \o b
           v == a \o Tail(b)
           From(p) == IF p <= Len(a) THEN p ELSE p + 1
<1>1. /\ Len(a) \in Nat /\ Len(b) \in Nat /\ Len(b) >= 1 /\ Head(b) = b[1]
      /\ Tail(b) \in Seq(AllErrors) /\ Len(Tail(b)) = Len(b) - 1
      /\ \A p \in 1 .. Len(b) - 1 : Tail(b)[p] = b[p + 1]
  BY EmptySeq, LenProperties, HeadTailProperties, HeadAndTail
<1>2. /\ DOMAIN w = 1 .. Len(a) + Len(b)
      /\ \A p \in 1 .. Len(a) + Len(b) : w[p] = IF p <= Len(a) THEN a[p] ELSE b[p - Len(a)]
  BY ConcatProperties, LenProperties
<1>3. /\ DOMAIN v = 1 .. Len(a) + Len(b) - 1
      /\ \A p \in 1 .. Len(a) + Len(b) - 1 :
           v[p] = IF p <= Len(a) THEN a[p] ELSE Tail(b)[p - Len(a)]
  <2>1. /\ v \in Seq(AllErrors) /\ Len(v) = Len(a) + Len(Tail(b))
        /\ \A p \in 1 .. Len(a) + Len(Tail(b)) :
             v[p] = IF p <= Len(a) THEN a[p] ELSE Tail(b)[p - Len(a)]
    BY <1>1, ConcatProperties
  <2>2. Len(a) + Len(Tail(b)) = Len(a) + Len(b) - 1
    BY <1>1
  <2>3. DOMAIN v = 1 .. Len(v)
    BY <2>1, LenProperties
  <2> QED BY <2>1, <2>2, <2>3
<1> HIDE DEF w, v
<1>4. \A p \in DOMAIN v : From(p) \in DOMAIN w /\ v[p] = w[From(p)]
  <2> SUFFICES ASSUME NEW p \in 1 .. Len(a) + Len(b) - 1
               PROVE  From(p) \in 1 .. Len(a) + Len(b) /\ v[p] = w[From(p)]
    BY <1>2, <1>3
  <2>1. From(p) \in 1 .. Len(a) + Len(b)
    BY <1>1
  <2>2. CASE p <= Len(a)
    BY <1>1, <1>2, <1>3, <2>1, <2>2
  <2>3. CASE ~(p <= Len(a))
    <3>1. p - Len(a) \in 1 .. Len(b) - 1 /\ (p + 1) - Len(a) = (p - Len(a)) + 1
      BY <1>1, <2>3
    <3>2. v[p] = b[(p - Len(a)) + 1]
      BY <1>1, <1>3, <2>3, <3>1
    <3>3. w[p + 1] = b[(p + 1) - Len(a)]
      BY <1>1, <1>2, <2>1, <2>3
    <3> QED BY <2>1, <2>3, <3>1, <3>2, <3>3
  <2> QED BY <2>2, <2>3
<1>5. \A p, q \in DOMAIN v : p < q => From(p) < From(q)
  BY <1>1, <1>3
<1>6. \A p \in DOMAIN w : w[p] \in Passing => \E q \in DOMAIN v : From(q) = p
  <2> SUFFICES ASSUME NEW p \in 1 .. Len(a) + Len(b), w[p] \in Passing
               PROVE  \E q \in 1 .. Len(a) + Len(b) - 1 : From(q) = p
    BY <1>2, <1>3
  <2>1. p # Len(a) + 1
    <3>1. w[Len(a) + 1] = b[1]
      <4>1. Len(a) + 1 \in 1 .. Len(a) + Len(b) /\ ~(Len(a) + 1 <= Len(a))
            /\ Len(a) + 1 - Len(a) = 1
        BY <1>1
      <4> QED BY <1>2, <4>1
    <3> QED BY <1>1, <3>1
  <2>2. CASE p <= Len(a)
    <3>1. p \in 1 .. Len(a) + Len(b) - 1
      BY <1>1, <2>2
    <3> QED BY <2>2, <3>1
  <2>3. CASE p > Len(a) + 1
    <3>1. p - 1 \in 1 .. Len(a) + Len(b) - 1 /\ ~(p - 1 <= Len(a)) /\ (p - 1) + 1 = p
      BY <1>1, <2>3
    <3> QED BY <3>1
  <2> QED BY <1>1, <2>1, <2>2, <2>3
<1> HIDE DEF From
<1>7. Ordered(w, passed)
  BY DEF w
<1>8. Ordered(v, passed)
  <2>1. \A p \in DOMAIN v :
          \E i \in DOMAIN Errors : \E j \in 1 .. passed[i] : v[p] = Errors[i][j]
    BY <1>4, <1>7 DEF Ordered
  <2>2. ASSUME NEW i \in DOMAIN Errors, NEW j \in DOMAIN Errors[i], NEW l \in DOMAIN Errors[i],
               NEW p \in DOMAIN v, NEW q \in DOMAIN v,
               p < q, v[p] = Errors[i][j], v[q] = Errors[i][l]
        PROVE  j < l
    BY <1>4, <1>5, <1>7, <2>2 DEF Ordered
  <2>3. ASSUME NEW i \in DOMAIN Errors, NEW j \in 1 .. passed[i], Errors[i][j] \in Passing
        PROVE  \E p \in DOMAIN v : v[p] = Errors[i][j]
    <3>1. PICK p \in DOMAIN w : w[p] = Errors[i][j]
      BY <1>7, <2>3 DEF Ordered
    <3>2. PICK q \in DOMAIN v : From(q) = p
      BY <1>6, <2>3, <3>1
    <3> QED BY <1>4, <3>1, <3>2
  <2> QED BY <2>1, <2>2, <2>3 DEF Ordered
<1> QED BY <1>8 DEF v
-----------------------------------------------------------------------------
(* ErrorChannels: its steps. *)

ErrorType ==
  /\ left \in [DOMAIN Errors -> Seq(AllErrors)]
  /\ merging \in [DOMAIN Errors -> Seq(AllErrors)]
  /\ merged \in [buffer : Seq(AllErrors), closed : BOOLEAN]
  /\ filtering \in Seq(AllErrors)
  /\ filtered \in [buffer : Seq(AllErrors), closed : BOOLEAN]
  /\ handled \in Seq(AllErrors)
  /\ returned \subseteq DOMAIN Errors /\ consumed \in BOOLEAN

\* How much of every input was sent on the merged channel.
Passed ==
  [i \in DOMAIN Errors |->
     Len(Errors[i]) - Len(left[i]) - (IF merging[i] = <<>> THEN 0 ELSE 1)]

\* What is left of input i is its end, and its goroutine has the error before that.
InputOK(i) ==
  /\ Passed[i] >= 0
  /\ \A q \in 1 .. Len(left[i]) : left[i][q] = Errors[i][Len(Errors[i]) - Len(left[i]) + q]
  /\ merging[i] = <<>> \/ merging[i] = <<Errors[i][Passed[i] + 1]>>

\* What has come through the filter passes.
Filters ==
  \A seq \in {filtering, filtered.buffer, handled} : \A p \in DOMAIN seq : seq[p] \in Passing

\* The channels are closed from the first to the last, and when nothing is to come.
Closings ==
  /\ \A i \in returned : left[i] = <<>> /\ merging[i] = <<>>
  /\ merged.closed => returned = DOMAIN Errors
  /\ filtered.closed => merged.closed /\ merged.buffer = <<>> /\ filtering = <<>>
  /\ consumed => filtered.closed /\ filtered.buffer = <<>>

\* The inductive invariant.
ErrorInv ==
  /\ ErrorType /\ \A i \in DOMAIN Errors : InputOK(i)
  /\ Filters /\ Closings /\ Ordered(Reporting!OnItsWay, Passed)

LEMMA PassedIs ==
  ASSUME ErrorType, NEW i \in DOMAIN Errors
  PROVE  /\ Len(left[i]) \in Nat /\ Len(Errors[i]) \in Nat
         /\ merging[i] = <<>> => Passed[i] = Len(Errors[i]) - Len(left[i])
         /\ merging[i] # <<>> => Passed[i] = Len(Errors[i]) - Len(left[i]) - 1
<1>1. Len(left[i]) \in Nat /\ Len(Errors[i]) \in Nat
  BY LenProperties, SentErrors DEF ErrorType
<1>2. Passed[i] = Len(Errors[i]) - Len(left[i]) - (IF merging[i] = <<>> THEN 0 ELSE 1)
  BY DEF Passed
<1>3. CASE merging[i] = <<>>
  BY <1>1, <1>2, <1>3
<1>4. CASE merging[i] # <<>>
  BY <1>1, <1>2, <1>4
<1> QED BY <1>1, <1>3, <1>4

\* The parts of the way, together and grouped in other ways.
LEMMA WaysAreSequences ==
  ASSUME ErrorType
  PROVE  Reporting!OnItsWay \in Seq(AllErrors) /\ handled \o filtered.buffer \in Seq(AllErrors)
         /\ handled \o filtered.buffer \o filtering \in Seq(AllErrors)
BY ConcatProperties DEF ErrorType, Reporting!OnItsWay

LEMMA ErrorInit == Reporting!Init => ErrorInv
<1> SUFFICES ASSUME Reporting!Init PROVE ErrorInv
  OBVIOUS
<1>1. /\ left = Errors /\ merging = [i \in DOMAIN Errors |-> <<>>]
      /\ merged = [buffer |-> <<>>, closed |-> FALSE] /\ filtering = <<>>
      /\ filtered = [buffer |-> <<>>, closed |-> FALSE] /\ handled = <<>>
      /\ returned = {} /\ consumed = FALSE
  BY DEF Reporting!Init, Reporting!Channel, Reporting!Inputs
<1>2. <<>> \in Seq(AllErrors) /\ Len(<<>>) = 0
  BY EmptySeq
<1>3. ErrorType
  <2>1. Errors \in [DOMAIN Errors -> Seq(AllErrors)]
    BY ErrorsAssumption, LenProperties
  <2> QED BY <1>1, <1>2, <2>1 DEF ErrorType
<1>4. ASSUME NEW i \in DOMAIN Errors
      PROVE  InputOK(i) /\ Passed[i] = 0
  <2>1. Len(Errors[i]) \in Nat /\ left[i] = Errors[i] /\ merging[i] = <<>>
    BY <1>1, SentErrors
  <2>2. Passed[i] = 0
    BY <1>3, <2>1, PassedIs
  <2>3. \A q \in 1 .. Len(Errors[i]) : Len(Errors[i]) - Len(Errors[i]) + q = q
    BY <2>1
  <2> QED BY <2>1, <2>2, <2>3 DEF InputOK
<1>5. Reporting!OnItsWay = <<>>
  BY <1>1, <1>2, ConcatEmptySeq DEF Reporting!OnItsWay
<1>6. Ordered(<<>>, Passed)
  BY <1>4 DEF Ordered
<1> QED BY <1>1, <1>3, <1>4, <1>5, <1>6 DEF ErrorInv, Filters, Closings

\* A step after which as much was passed on, and the way has as much.
LEMMA OrderStays ==
  ASSUME ErrorInv, ErrorType', UNCHANGED <<left, merging>>, UNCHANGED Reporting!OnItsWay,
         Filters', Closings'
  PROVE  ErrorInv'
<1>1. Passed' = Passed /\ \A i \in DOMAIN Errors : InputOK(i)' <=> InputOK(i)
  BY DEF Passed, InputOK
<1> QED BY <1>1 DEF ErrorInv

LEMMA MergeReceiveStep ==
  ASSUME ErrorInv, NEW i \in DOMAIN Errors, Reporting!MergeReceives(i)
  PROVE  ErrorInv'
<1>1. /\ merging[i] = <<>> /\ left[i] # <<>>
      /\ merging' = [merging EXCEPT ![i] = <<Head(left[i])>>]
      /\ left' = [left EXCEPT ![i] = Tail(left[i])]
      /\ UNCHANGED <<merged, filtering, filtered, handled, returned, consumed>>
  BY DEF Reporting!MergeReceives
<1>2. /\ left[i] \in Seq(AllErrors) /\ Tail(left[i]) \in Seq(AllErrors)
      /\ Len(Tail(left[i])) = Len(left[i]) - 1 /\ Len(left[i]) \in Nat /\ Len(left[i]) >= 1
      /\ \A q \in 1 .. Len(left[i]) - 1 : Tail(left[i])[q] = left[i][q + 1]
      /\ Head(left[i]) = left[i][1] /\ Head(left[i]) \in AllErrors
  BY <1>1, EmptySeq, LenProperties, HeadTailProperties, HeadAndTail DEF ErrorInv, ErrorType
<1>3. <<Head(left[i])>> \in Seq(AllErrors) /\ Len(<<Head(left[i])>>) = 1 /\ Len(<<>>) = 0
  BY <1>2
<1>4. ErrorType'
  BY <1>1, <1>2, <1>3 DEF ErrorInv, ErrorType
<1>5. \A l \in DOMAIN Errors : l # i => left'[l] = left[l] /\ merging'[l] = merging[l]
  BY <1>1 DEF ErrorInv, ErrorType
<1>6. left'[i] = Tail(left[i]) /\ merging'[i] = <<Head(left[i])>>
  BY <1>1 DEF ErrorInv, ErrorType
<1>7. Passed[i] = Len(Errors[i]) - Len(left[i]) /\ Len(Errors[i]) \in Nat
  BY <1>1, <1>2, PassedIs DEF ErrorInv
<1>8. Passed' = Passed
  <2>1. Passed'[i] = Len(Errors[i]) - (Len(left[i]) - 1) - 1
    BY <1>2, <1>3, <1>6 DEF Passed
  <2>2. Passed'[i] = Passed[i]
    BY <1>2, <1>7, <2>1
  <2>3. \A l \in DOMAIN Errors : l # i => Passed'[l] = Passed[l]
    BY <1>5 DEF Passed
  <2> QED BY <2>2, <2>3 DEF Passed
<1>9. InputOK(i)'
  <2>1. \A q \in 1 .. Len(left[i]) :
          left[i][q] = Errors[i][Len(Errors[i]) - Len(left[i]) + q]
    BY DEF ErrorInv, InputOK
  <2>2. Head(left[i]) = Errors[i][Passed[i] + 1]
    <3>1. 1 \in 1 .. Len(left[i])
      BY <1>2
    <3> QED BY <1>2, <1>7, <2>1, <3>1
  <2>3. ASSUME NEW q \in 1 .. Len(left[i]) - 1
        PROVE  Tail(left[i])[q] = Errors[i][Len(Errors[i]) - (Len(left[i]) - 1) + q]
    <3>1. q + 1 \in 1 .. Len(left[i])
      BY <1>2
    <3>2. Len(Errors[i]) - Len(left[i]) + (q + 1) = Len(Errors[i]) - (Len(left[i]) - 1) + q
      BY <1>2, <1>7
    <3> QED BY <1>2, <2>1, <3>1, <3>2
  <2>4. Passed[i] >= 0
    BY DEF ErrorInv, InputOK
  <2>5. Len(left'[i]) = Len(left[i]) - 1
    BY <1>2, <1>6
  <2> QED BY <1>6, <1>8, <2>2, <2>3, <2>4, <2>5 DEF InputOK
<1>10. \A l \in DOMAIN Errors : InputOK(l)'
  <2>1. ASSUME NEW l \in DOMAIN Errors, l # i PROVE InputOK(l)'
    <3>1. InputOK(l) /\ left'[l] = left[l] /\ merging'[l] = merging[l]
      BY <1>5, <2>1 DEF ErrorInv
    <3> HIDE <1>1, <1>2, <1>3, <1>4, <1>6, <1>7, <1>9
    <3> QED BY <1>8, <3>1 DEF InputOK
  <2> QED BY <1>9, <2>1
<1>11. Filters' /\ Reporting!OnItsWay' = Reporting!OnItsWay
  BY <1>1 DEF ErrorInv, Filters, Reporting!OnItsWay
<1>12. Closings'
  BY <1>1, <1>5 DEF ErrorInv, Closings, ErrorType
<1> QED BY <1>4, <1>8, <1>10, <1>11, <1>12 DEF ErrorInv

LEMMA MergeSendStep ==
  ASSUME ErrorInv, NEW i \in DOMAIN Errors, Reporting!MergeSends(i)
  PROVE  ErrorInv'
<1>1. /\ merging[i] # <<>>
      /\ merged' = [merged EXCEPT !.buffer = merged.buffer \o merging[i]]
      /\ merging' = [merging EXCEPT ![i] = <<>>]
      /\ UNCHANGED <<left, filtering, filtered, handled, returned, consumed>>
  BY DEF Reporting!MergeSends
<1> DEFINE then == Passed[i] + 1
           err == Errors[i][then]
<1>2. merging[i] = <<err>>
  BY <1>1 DEF ErrorInv, InputOK
<1>3. /\ \A l \in DOMAIN Errors : Passed[l] \in 0 .. Len(Errors[l])
      /\ DOMAIN Passed = DOMAIN Errors
      /\ then \in 1 .. Len(Errors[i])
  <2>1. ASSUME NEW l \in DOMAIN Errors
        PROVE  Passed[l] \in 0 .. Len(Errors[l]) /\ (merging[l] # <<>> => Passed[l] < Len(Errors[l]))
    <3>1. /\ Len(left[l]) \in Nat /\ Len(Errors[l]) \in Nat
          /\ merging[l] = <<>> => Passed[l] = Len(Errors[l]) - Len(left[l])
          /\ merging[l] # <<>> => Passed[l] = Len(Errors[l]) - Len(left[l]) - 1
      BY PassedIs DEF ErrorInv
    <3>2. Passed[l] >= 0
      BY DEF ErrorInv, InputOK
    <3> QED BY <3>1, <3>2
  <2>2. Len(Errors[i]) \in Nat
    BY SentErrors
  <2>3. then \in 1 .. Len(Errors[i])
    BY <1>1, <2>1, <2>2
  <2>4. DOMAIN Passed = DOMAIN Errors
    BY DEF Passed
  <2> QED BY <2>1, <2>3, <2>4
<1>4. \A l \in DOMAIN Errors : Len(left[l]) \in Nat /\ Len(Errors[l]) \in Nat
  BY PassedIs DEF ErrorInv
<1>5. ErrorType'
  <2>1. merged.buffer \o merging[i] \in Seq(AllErrors) /\ <<>> \in Seq(AllErrors)
    BY ConcatProperties DEF ErrorInv, ErrorType
  <2> QED BY <1>1, <2>1 DEF ErrorInv, ErrorType
<1>6. \A l \in DOMAIN Errors : l # i => merging'[l] = merging[l]
  BY <1>1 DEF ErrorInv, ErrorType
<1>7. merging'[i] = <<>>
  BY <1>1 DEF ErrorInv, ErrorType
<1>8. Passed' = [Passed EXCEPT ![i] = then]
  <2>1. /\ Passed'[i] = Len(Errors[i]) - Len(left[i]) - 0
        /\ Passed[i] = Len(Errors[i]) - Len(left[i]) - 1
    BY <1>1, <1>7 DEF Passed
  <2>2. Passed'[i] = then
    BY <1>4, <2>1
  <2>3. \A l \in DOMAIN Errors : l # i => Passed'[l] = Passed[l]
    BY <1>1, <1>6 DEF Passed
  <2>4. DOMAIN Passed' = DOMAIN Errors
    BY DEF Passed
  <2> HIDE DEF then
  <2> QED BY <1>3, <2>2, <2>3, <2>4 DEF Passed
<1>9. Reporting!OnItsWay' = Reporting!OnItsWay \o <<err>>
  <2> DEFINE a == handled \o filtered.buffer \o filtering
  <2>1. a \in Seq(AllErrors) /\ merged.buffer \in Seq(AllErrors) /\ merging[i] \in Seq(AllErrors)
    BY WaysAreSequences DEF ErrorInv, ErrorType
  <2>2. merged'.buffer = merged.buffer \o merging[i]
    BY <1>1 DEF ErrorInv, ErrorType
  <2>3. Reporting!OnItsWay' = a \o (merged.buffer \o merging[i])
    BY <1>1, <2>2 DEF Reporting!OnItsWay
  <2>4. Reporting!OnItsWay = a \o merged.buffer
    BY DEF Reporting!OnItsWay
  <2> DEFINE b == merged.buffer
             c == merging[i]
  <2> HIDE DEF a, b, c
  <2>5. (a \o b) \o c = a \o (b \o c)
    <3>1. a \in Seq(AllErrors) /\ b \in Seq(AllErrors) /\ c \in Seq(AllErrors)
      BY <2>1 DEF b, c
    <3> QED BY <3>1, ConcatAssociative, SMTT(30)
  <2> QED BY <1>2, <2>3, <2>4, <2>5 DEF b, c
<1>10. Ordered(Reporting!OnItsWay', Passed')
  <2>1. IsPassed(Passed)
    BY <1>3 DEF IsPassed
  <2>2. Ordered(Reporting!OnItsWay, Passed) /\ Reporting!OnItsWay \in Seq(AllErrors)
    BY WaysAreSequences DEF ErrorInv
  <2> HIDE DEF then
  <2>3. Ordered(Reporting!OnItsWay \o <<Errors[i][then]>>, [Passed EXCEPT ![i] = then])
    BY <1>3, <2>1, <2>2, OrderGrows DEF then
  <2> QED BY <1>8, <1>9, <2>3
<1>11. \A l \in DOMAIN Errors : InputOK(l)'
  <2>1. ASSUME NEW l \in DOMAIN Errors, l # i PROVE InputOK(l)'
    <3>1. Passed'[l] = Passed[l]
      BY <1>3, <1>8, <2>1
    <3> QED BY <1>1, <1>6, <2>1, <3>1 DEF ErrorInv, InputOK
  <2>2. InputOK(i)'
    <3>1. Passed'[i] >= 0
      BY <1>3, <1>8
    <3> QED BY <1>1, <1>7, <3>1 DEF ErrorInv, InputOK
  <2> QED BY <2>1, <2>2
<1>12. Filters'
  BY <1>1 DEF ErrorInv, Filters
<1>13. Closings'
  <2>1. i \notin returned /\ ~merged.closed
    BY <1>1 DEF ErrorInv, Closings
  <2> QED BY <1>1, <1>6, <2>1 DEF ErrorInv, Closings, ErrorType
<1> QED BY <1>5, <1>10, <1>11, <1>12, <1>13 DEF ErrorInv

\* FilterErrors takes an error, or drops it.
LEMMA FilterReceiveStep == ErrorInv /\ Reporting!FilterReceives => ErrorInv'
<1> SUFFICES ASSUME ErrorInv, Reporting!FilterReceives PROVE ErrorInv'
  OBVIOUS
<1> DEFINE a == handled \o filtered.buffer
           b == merged.buffer
<1>1. /\ filtering = <<>> /\ b # <<>>
      /\ filtering' = IF Head(b) \in Passing THEN <<Head(b)>> ELSE <<>>
      /\ merged' = [merged EXCEPT !.buffer = Tail(b)]
      /\ UNCHANGED <<left, merging, filtered, handled, returned, consumed>>
  BY DEF Reporting!FilterReceives
<1>2. a \in Seq(AllErrors) /\ b \in Seq(AllErrors)
  BY WaysAreSequences DEF ErrorInv, ErrorType
<1>3. Reporting!OnItsWay = a \o filtering \o b /\ Reporting!OnItsWay' = a \o filtering' \o Tail(b)
  <2>1. merged'.buffer = Tail(b)
    BY <1>1 DEF ErrorInv, ErrorType
  <2> QED BY <1>1, <2>1 DEF Reporting!OnItsWay
<1>4. merged'.closed = merged.closed
  BY <1>1 DEF ErrorInv, ErrorType
<1>5. ~filtered.closed /\ ~consumed
  BY <1>1 DEF ErrorInv, Closings
<1>6. /\ Passed' = Passed /\ \A i \in DOMAIN Errors : InputOK(i)' <=> InputOK(i)
      /\ Closings'
  BY <1>1, <1>4, <1>5 DEF Passed, InputOK, ErrorInv, Closings
<1>7. ErrorType /\ Filters /\ Ordered(Reporting!OnItsWay, Passed)
  BY DEF ErrorInv
<1> HIDE DEF a
<1>8. <<Head(b)>> \o Tail(b) = b /\ Head(b) \in AllErrors /\ Tail(b) \in Seq(AllErrors)
  BY <1>1, <1>2, HeadAndTail
<1>9. a \o filtering \o b = a \o b
  BY <1>1, <1>2, ConcatEmptySeq
<1>10. filtering' \in Seq(AllErrors) /\ <<Head(b)>> \in Seq(AllErrors) /\ <<>> \in Seq(AllErrors)
  BY <1>1, <1>8
<1>11. ErrorType'
  BY <1>1, <1>7, <1>8, <1>10 DEF ErrorType
<1>12. Filters'
  BY <1>1, <1>7 DEF Filters
<1>13. Ordered(Reporting!OnItsWay', Passed)
  <2>1. CASE Head(b) \in Passing
    <3> DEFINE h == <<Head(b)>>
               t == Tail(b)
    <3>1. h \in Seq(AllErrors) /\ t \in Seq(AllErrors) /\ filtering' = h /\ h \o t = b
      BY <1>1, <1>8, <1>10, <2>1
    <3> HIDE DEF h, t
    <3>2. a \o h \o t = a \o (h \o t)
      <4>1. a \in Seq(AllErrors) /\ h \in Seq(AllErrors) /\ t \in Seq(AllErrors)
        BY <1>2, <3>1
      <4> QED BY <4>1, ConcatAssociative, SMTT(30)
    <3> QED BY <1>3, <1>7, <1>9, <3>1, <3>2 DEF t
  <2>2. CASE Head(b) \notin Passing
    <3>1. Ordered(a \o b, Passed)
      BY <1>3, <1>7, <1>9
    <3>2. Ordered(a \o Tail(b), Passed)
      BY <1>1, <1>2, <2>2, <3>1, OrderDrops
    <3>3. a \o filtering' = a
      BY <1>1, <1>2, <2>2, ConcatEmptySeq
    <3> QED BY <1>3, <3>2, <3>3
  <2> QED BY <2>1, <2>2
<1> QED BY <1>6, <1>7, <1>11, <1>12, <1>13 DEF ErrorInv

LEMMA FilterSendStep == ErrorInv /\ Reporting!FilterSends => ErrorInv'
<1> SUFFICES ASSUME ErrorInv, Reporting!FilterSends PROVE ErrorInv'
  OBVIOUS
<1> DEFINE f == filtered.buffer
           m == merged.buffer
<1>1. /\ filtering # <<>> /\ filtering' = <<>>
      /\ filtered' = [filtered EXCEPT !.buffer = f \o filtering]
      /\ UNCHANGED <<left, merging, merged, handled, returned, consumed>>
  BY DEF Reporting!FilterSends
<1>2. /\ handled \in Seq(AllErrors) /\ f \in Seq(AllErrors) /\ filtering \in Seq(AllErrors)
      /\ m \in Seq(AllErrors) /\ f \o filtering \in Seq(AllErrors) /\ <<>> \in Seq(AllErrors)
      /\ handled \o f \o filtering \in Seq(AllErrors)
  BY ConcatProperties, WaysAreSequences DEF ErrorInv, ErrorType
<1>3. filtered'.buffer = f \o filtering /\ filtered'.closed = filtered.closed
  BY <1>1 DEF ErrorInv, ErrorType
<1>4. ErrorType'
  BY <1>1, <1>2 DEF ErrorInv, ErrorType
<1>5. Reporting!OnItsWay' = Reporting!OnItsWay
  <2>1. /\ Reporting!OnItsWay = handled \o f \o filtering \o m
        /\ Reporting!OnItsWay' = handled \o (f \o filtering) \o <<>> \o m
    BY <1>1, <1>3 DEF Reporting!OnItsWay
  <2> HIDE DEF f, m
  <2>2. handled \o (f \o filtering) = handled \o f \o filtering
    BY <1>2, ConcatAssociative, SMTT(30)
  <2>3. handled \o f \o filtering \o <<>> = handled \o f \o filtering
    BY <1>2, ConcatEmptySeq
  <2> QED BY <2>1, <2>2, <2>3
<1>6. Filters'
  <2>1. \A p \in DOMAIN (f \o filtering) : (f \o filtering)[p] \in Passing
    <3>1. \A p \in 1 .. Len(f) : f[p] \in Passing
      BY <1>2, LenProperties DEF ErrorInv, Filters
    <3>2. \A p \in 1 .. Len(filtering) : filtering[p] \in Passing
      BY <1>2, LenProperties DEF ErrorInv, Filters
    <3>3. /\ Len(f) \in Nat /\ Len(filtering) \in Nat
          /\ DOMAIN (f \o filtering) = 1 .. Len(f) + Len(filtering)
          /\ \A p \in 1 .. Len(f) + Len(filtering) :
               (f \o filtering)[p] = IF p <= Len(f) THEN f[p] ELSE filtering[p - Len(f)]
      BY <1>2, LenProperties, ConcatProperties
    <3> HIDE DEF f
    <3> SUFFICES ASSUME NEW p \in 1 .. Len(f) + Len(filtering)
                 PROVE  (f \o filtering)[p] \in Passing
      BY <3>3
    <3>4. CASE p <= Len(f)
      BY <3>1, <3>3, <3>4
    <3>5. CASE ~(p <= Len(f))
      <4>1. p - Len(f) \in 1 .. Len(filtering)
        BY <3>3, <3>5
      <4> QED BY <3>2, <3>3, <3>5, <4>1
    <3> QED BY <3>4, <3>5
  <2>2. /\ \A p \in DOMAIN handled : handled[p] \in Passing
        /\ \A p \in DOMAIN <<>> : <<>>[p] \in Passing
    BY DEF ErrorInv, Filters
  <2> QED BY <1>1, <1>3, <2>1, <2>2 DEF Filters
<1>7. Closings'
  BY <1>1, <1>3 DEF ErrorInv, Closings
<1> QED BY <1>1, <1>4, <1>5, <1>6, <1>7, OrderStays

LEMMA ConsumeStep == ErrorInv /\ Reporting!Consume => ErrorInv'
<1> SUFFICES ASSUME ErrorInv, Reporting!Consume PROVE ErrorInv'
  OBVIOUS
<1> DEFINE f == filtered.buffer
           m == merged.buffer
           h == <<Head(f)>>
           t == Tail(f)
<1>1. /\ f # <<>> /\ handled' = Append(handled, Head(f))
      /\ filtered' = [filtered EXCEPT !.buffer = t]
      /\ UNCHANGED <<left, merging, merged, filtering, returned, consumed>>
  BY DEF Reporting!Consume
<1>2. handled \in Seq(AllErrors) /\ f \in Seq(AllErrors)
  BY DEF ErrorInv, ErrorType
<1>3. /\ h \o t = f /\ Head(f) = f[1] /\ Head(f) \in AllErrors
      /\ t \in Seq(AllErrors)
  BY <1>1, <1>2, HeadAndTail
<1>4. h \in Seq(AllErrors)
  BY <1>3
<1>5. handled' = handled \o h /\ handled' \in Seq(AllErrors)
  BY <1>1, <1>2, <1>3, AppendIsConcat, AppendProperties
<1>6. filtered'.buffer = t /\ filtered'.closed = filtered.closed
  BY <1>1 DEF ErrorInv, ErrorType
<1>7. ErrorType'
  BY <1>1, <1>3, <1>5 DEF ErrorInv, ErrorType
<1>8. Reporting!OnItsWay' = Reporting!OnItsWay
  <2>1. /\ Reporting!OnItsWay = handled \o f \o filtering \o m
        /\ Reporting!OnItsWay' = handled' \o t \o filtering \o m
    BY <1>1, <1>6 DEF Reporting!OnItsWay
  <2> HIDE DEF f, m, h, t
  <2>2. handled \o h \o t = handled \o (h \o t)
    <3>1. handled \in Seq(AllErrors) /\ h \in Seq(AllErrors) /\ t \in Seq(AllErrors)
      BY <1>2, <1>3, <1>4
    <3> QED BY <3>1, ConcatAssociative, SMTT(30)
  <2> QED BY <1>3, <1>5, <2>1, <2>2
<1>9. Filters'
  <2>1. /\ \A p \in DOMAIN f : f[p] \in Passing
        /\ \A p \in DOMAIN handled : handled[p] \in Passing
    BY DEF ErrorInv, Filters
  <2>2. /\ Len(f) \in Nat /\ Len(f) >= 1 /\ DOMAIN f = 1 .. Len(f) /\ DOMAIN t = 1 .. Len(f) - 1
        /\ \A p \in 1 .. Len(f) - 1 : t[p] = f[p + 1]
    BY <1>1, <1>2, <1>3, EmptySeq, LenProperties, HeadTailProperties
  <2>3. /\ Len(handled) \in Nat /\ DOMAIN handled = 1 .. Len(handled)
        /\ DOMAIN handled' = 1 .. Len(handled) + 1
        /\ \A p \in 1 .. Len(handled) : handled'[p] = handled[p]
        /\ handled'[Len(handled) + 1] = Head(f)
    BY <1>1, <1>2, <1>3, <1>5, LenProperties, AppendProperties
  <2> HIDE DEF f, t
  <2>4. \A p \in DOMAIN t : t[p] \in Passing
    <3>1. \A p \in 1 .. Len(f) - 1 : p + 1 \in DOMAIN f
      BY <2>2
    <3> QED BY <2>1, <2>2, <3>1
  <2>5. \A p \in DOMAIN handled' : handled'[p] \in Passing
    <3>1. Head(f) \in Passing
      BY <1>3, <2>1, <2>2
    <3>2. \A p \in 1 .. Len(handled) + 1 : p \in 1 .. Len(handled) \/ p = Len(handled) + 1
      BY <2>3
    <3> QED BY <2>1, <2>3, <3>1, <3>2
  <2> QED BY <1>1, <1>6, <2>4, <2>5 DEF ErrorInv, Filters
<1>10. Closings'
  BY <1>1, <1>6 DEF ErrorInv, Closings
<1> QED BY <1>1, <1>7, <1>8, <1>9, <1>10, OrderStays

\* Channels are closed, and goroutines return.
LEMMA ErrorEnds ==
  ASSUME ErrorInv, \/ \E i \in DOMAIN Errors : Reporting!MergeDone(i)
                   \/ Reporting!MergeCloses \/ Reporting!FilterCloses \/ Reporting!ConsumeReturns
                   \/ UNCHANGED Reporting!vars
  PROVE  ErrorInv'
<1>1. /\ UNCHANGED <<left, merging, filtering, handled>>
      /\ merged'.buffer = merged.buffer /\ filtered'.buffer = filtered.buffer
      /\ ErrorType'
  BY DEF Reporting!MergeDone, Reporting!MergeCloses, Reporting!FilterCloses,
         Reporting!ConsumeReturns, Reporting!vars, ErrorInv, ErrorType
<1>2. UNCHANGED Reporting!OnItsWay /\ Filters'
  BY <1>1 DEF Reporting!OnItsWay, ErrorInv, Filters
<1>3. Closings'
  <2>1. ASSUME NEW i \in DOMAIN Errors, Reporting!MergeDone(i) PROVE Closings'
    BY <2>1 DEF Reporting!MergeDone, ErrorInv, ErrorType, Closings
  <2>2. CASE Reporting!MergeCloses
    BY <2>2 DEF Reporting!MergeCloses, Reporting!Inputs, ErrorInv, ErrorType, Closings
  <2>3. CASE Reporting!FilterCloses
    BY <2>3 DEF Reporting!FilterCloses, Reporting!Drained, ErrorInv, ErrorType, Closings
  <2>4. CASE Reporting!ConsumeReturns
    BY <2>4 DEF Reporting!ConsumeReturns, Reporting!Drained, ErrorInv, ErrorType, Closings
  <2>5. CASE UNCHANGED Reporting!vars
    BY <2>5 DEF Reporting!vars, ErrorInv, Closings
  <2> QED BY <2>1, <2>2, <2>3, <2>4, <2>5
<1> QED BY <1>1, <1>2, <1>3, OrderStays

LEMMA ErrorNext == ErrorInv /\ [Reporting!Next]_(Reporting!vars) => ErrorInv'
BY MergeReceiveStep, MergeSendStep, FilterReceiveStep, FilterSendStep, ConsumeStep, ErrorEnds
DEF Reporting!Next, Reporting!Inputs

\* What the invariant says of the errors, from the inputs to the handlers.
LEMMA ErrorsAccounted == ErrorInv => Reporting!ErrorsHandled
<1> SUFFICES ASSUME ErrorInv PROVE Reporting!ErrorsHandled
  OBVIOUS
<1> DEFINE way == Reporting!OnItsWay
           Among(err, seq) == Reporting!Among(err, seq)
<1>1. Ordered(way, Passed)
  BY DEF ErrorInv
<1>2. \A i \in DOMAIN Errors : \A j, l \in DOMAIN Errors[i] : \A p, q \in DOMAIN way :
        p < q /\ way[p] = Errors[i][j] /\ way[q] = Errors[i][l] => j < l
  BY <1>1 DEF Ordered
<1>3. ASSUME NEW i \in DOMAIN Errors, NEW j \in DOMAIN Errors[i], Errors[i][j] \in Passing
      PROVE  Among(Errors[i][j], way) \/ Among(Errors[i][j], merging[i])
               \/ Among(Errors[i][j], left[i])
  <2>1. /\ Len(left[i]) \in Nat /\ Len(Errors[i]) \in Nat /\ j \in 1 .. Len(Errors[i])
        /\ DOMAIN left[i] = 1 .. Len(left[i])
        /\ merging[i] = <<>> => Passed[i] = Len(Errors[i]) - Len(left[i])
        /\ merging[i] # <<>> => Passed[i] = Len(Errors[i]) - Len(left[i]) - 1
    BY PassedIs, SentErrors, LenProperties DEF ErrorInv, ErrorType
  <2>2. CASE j \in 1 .. Passed[i]
    BY <1>1, <1>3, <2>2 DEF Ordered, Reporting!Among
  <2>3. CASE merging[i] # <<>> /\ j = Passed[i] + 1
    <3>1. merging[i] = <<Errors[i][j]>>
      BY <2>3 DEF ErrorInv, InputOK
    <3>2. 1 \in DOMAIN merging[i] /\ merging[i][1] = Errors[i][j]
      BY <3>1
    <3> QED BY <3>2 DEF Reporting!Among
  <2>4. CASE j > Len(Errors[i]) - Len(left[i])
    <3> DEFINE q == j - (Len(Errors[i]) - Len(left[i]))
    <3>1. q \in 1 .. Len(left[i]) /\ Len(Errors[i]) - Len(left[i]) + q = j
      BY <2>1, <2>4
    <3>2. \A p \in 1 .. Len(left[i]) :
            left[i][p] = Errors[i][Len(Errors[i]) - Len(left[i]) + p]
      BY DEF ErrorInv, InputOK
    <3>3. left[i][q] = Errors[i][j]
      BY <3>1, <3>2
    <3> HIDE DEF q
    <3> QED BY <2>1, <3>1, <3>3 DEF Reporting!Among
  <2> QED BY <2>1, <2>2, <2>3, <2>4
<1>4. ASSUME consumed
      PROVE  way = handled /\ \A i \in DOMAIN Errors : left[i] = <<>> /\ merging[i] = <<>>
  <2>1. /\ filtered.buffer = <<>> /\ filtering = <<>> /\ merged.buffer = <<>>
        /\ \A i \in DOMAIN Errors : left[i] = <<>> /\ merging[i] = <<>>
    BY <1>4 DEF ErrorInv, Closings
  <2>2. way = handled \o <<>> \o <<>> \o <<>>
    BY <2>1 DEF Reporting!OnItsWay
  <2>3. handled \o <<>> = handled
    BY ConcatEmptySeq DEF ErrorInv, ErrorType
  <2> QED BY <2>1, <2>2, <2>3
<1>5. \A err : ~Among(err, <<>>)
  BY DEF Reporting!Among
<1> HIDE DEF way, Among
<1>6. \A i \in DOMAIN Errors : \A j \in DOMAIN Errors[i] : Errors[i][j] \in Passing =>
        \/ Among(Errors[i][j], handled)
        \/ ~consumed /\ (\/ Among(Errors[i][j], way) \/ Among(Errors[i][j], merging[i])
                         \/ Among(Errors[i][j], left[i]))
  BY <1>3, <1>4, <1>5
<1>7. /\ \A p \in DOMAIN handled : handled[p] \in Passing
      /\ merged.closed => \A i \in DOMAIN Errors : merging[i] = <<>>
      /\ filtered.closed => filtering = <<>>
  BY DEF ErrorInv, Filters, Closings
<1> QED BY <1>2, <1>6, <1>7 DEF Reporting!ErrorsHandled, Reporting!Inputs, way, Among

\* Errors that are merged, filtered and consumed arrive once, in the order of their
\* input, all that pass and no other, however the goroutines of MergeErrors,
\* FilterErrors and ConsumeErrors interleave: dispatch/error.go.
THEOREM EveryErrorHandled == Reporting!Spec => []Reporting!ErrorsHandled
BY ErrorInit, ErrorNext, ErrorsAccounted, PTL DEF Reporting!Spec
-----------------------------------------------------------------------------
(* Transacter. *)

TransactType ==
  /\ DOMAIN pool = Transacting!Nonces
  /\ \A n \in Transacting!Nonces :
       DOMAIN pool[n] = {"by", "opts", "asked"} /\ pool[n].by \in Int
  /\ DOMAIN call = {"pc", "asked", "opts", "restores", "nonce", "aliased", "tries"}
  /\ calls \in Nat

\* What a call restores is what the Transacter was configured with, and between the
\* two the options are those that the call asked for.
OptionsOK ==
  /\ call.opts = Transacting!Configured
  /\ call.pc = "returned" => opts = Transacting!Configured
  /\ call.pc # "returned" => opts = call.asked /\ calls > 0

\* Transactions are of calls so far, and the present one has none until it returns.
PoolOK ==
  /\ \A n \in Transacting!Nonces : pool[n].by <= calls
  /\ call.pc # "returned" => \A n \in Transacting!Nonces : pool[n].by # calls

\* The inductive invariant.
TransactInv == TransactType /\ OptionsOK /\ PoolOK /\ Transacting!TransactedOnce

LEMMA TransactInit == Transacting!Init => TransactInv
BY DEF Transacting!Init, Transacting!Free, TransactInv, TransactType, OptionsOK, PoolOK,
       Transacting!TransactedOnce

\* The call that has the mutex goes on or returns, without a transaction.
LEMMA TransactContinues ==
  ASSUME TransactInv, call.pc # "returned", UNCHANGED <<pool, calls>>,
         DOMAIN call' = DOMAIN call, call'.opts = call.opts, call'.asked = call.asked,
         IF call'.pc = "returned" THEN opts' = call.opts ELSE UNCHANGED opts
  PROVE  TransactInv'
BY DEF TransactInv, TransactType, OptionsOK, PoolOK, Transacting!TransactedOnce

\* Return restores the options.
LEMMA Returns ==
  ASSUME TransactInv, NEW now, Transacting!Return(now)
  PROVE  /\ DOMAIN call' = DOMAIN call /\ call'.opts = call.opts /\ call'.asked = call.asked
         /\ call'.pc = "returned" /\ opts' = call.opts
BY DEF Transacting!Return, TransactInv, TransactType

\* A transaction is taken, and the call returns.
LEMMA Submits ==
  ASSUME TransactInv, call.pc # "returned", UNCHANGED calls, nonce \in Transacting!Nonces,
         pool' = [pool EXCEPT ![nonce] = [by |-> calls, opts |-> opts, asked |-> call.asked]],
         NEW now, Transacting!Return(now)
  PROVE  TransactInv'
<1> DEFINE Nonces == Transacting!Nonces
           mine == [by |-> calls, opts |-> opts, asked |-> call.asked]
<1>1. /\ call'.pc = "returned" /\ DOMAIN call' = DOMAIN call /\ call'.opts = call.opts
      /\ opts' = call.opts
  BY Returns
<1>2. /\ DOMAIN pool' = Nonces
      /\ \A n \in Nonces : pool'[n] = IF n = nonce THEN mine ELSE pool[n]
  BY DEF TransactInv, TransactType
<1>3. mine.by = calls /\ mine.opts = mine.asked /\ DOMAIN mine = {"by", "opts", "asked"}
  BY DEF TransactInv, OptionsOK
<1> HIDE DEF Nonces, mine
<1>4. TransactType'
  BY <1>1, <1>2, <1>3 DEF TransactInv, TransactType, Nonces
<1>5. OptionsOK'
  BY <1>1 DEF TransactInv, OptionsOK
<1>6. /\ \A n \in Nonces : pool[n].by <= calls /\ pool[n].by # calls
      /\ \A m, n \in Nonces : pool[m].by > 0 /\ pool[m].by = pool[n].by => m = n
      /\ \A n \in Nonces : pool[n].opts = pool[n].asked
  BY DEF TransactInv, PoolOK, Transacting!TransactedOnce, Nonces
<1>7. PoolOK'
  BY <1>1, <1>2, <1>3, <1>6 DEF TransactInv, TransactType, PoolOK, Nonces
<1>8. \A m, n \in Nonces : pool'[m].by > 0 /\ pool'[m].by = pool'[n].by => m = n
  BY <1>2, <1>3, <1>6
<1>9. \A n \in Nonces : pool'[n].opts = pool'[n].asked
  BY <1>2, <1>3, <1>6
<1> QED BY <1>4, <1>5, <1>7, <1>8, <1>9 DEF TransactInv, Transacting!TransactedOnce, Nonces

\* A call begins with options made from those configured, as what it asks for is.
LEMMA Begins ==
  ASSUME TransactInv, NEW asked, NEW restores, NEW named,
         Transacting!Begin(asked, asked, restores, named)
  PROVE  TransactInv'
<1>1. /\ call.pc = "returned" /\ calls' = calls + 1 /\ opts' = asked /\ UNCHANGED pool
      /\ call'.pc = "sending" /\ call'.asked = asked /\ call'.opts = opts
      /\ DOMAIN call' = {"pc", "asked", "opts", "restores", "nonce", "aliased", "tries"}
  BY DEF Transacting!Begin
<1> QED BY <1>1 DEF TransactInv, TransactType, OptionsOK, PoolOK, Transacting!TransactedOnce

LEMMA TransactNext == TransactInv /\ [Transacting!Next]_(Transacting!vars) => TransactInv'
<1> SUFFICES ASSUME TransactInv, [Transacting!Next]_(Transacting!vars) PROVE TransactInv'
  OBVIOUS
<1>1. CASE Transacting!OtherSends
  <2>1. /\ UNCHANGED <<opts, call, calls>> /\ DOMAIN pool' = Transacting!Nonces
        /\ \A n \in Transacting!Nonces : pool'[n] = pool[n] \/ pool'[n] = Transacting!Foreign
    BY <1>1 DEF Transacting!OtherSends, TransactInv, TransactType
  <2>2. /\ Transacting!Foreign.by = 0 /\ Transacting!Foreign.opts = Transacting!Foreign.asked
        /\ DOMAIN Transacting!Foreign = {"by", "opts", "asked"}
    BY DEF Transacting!Foreign, Transacting!Free
  <2>3. ASSUME NEW m \in Transacting!Nonces, NEW n \in Transacting!Nonces,
               pool'[m].by > 0, pool'[m].by = pool'[n].by
        PROVE  m = n
    BY <2>1, <2>2, <2>3 DEF TransactInv, Transacting!TransactedOnce
  <2>4. \A n \in Transacting!Nonces : pool'[n].opts = pool'[n].asked
    BY <2>1, <2>2 DEF TransactInv, Transacting!TransactedOnce
  <2>5. TransactType' /\ PoolOK'
    BY <2>1, <2>2 DEF TransactInv, TransactType, OptionsOK, PoolOK
  <2> QED BY <2>1, <2>3, <2>4, <2>5 DEF TransactInv, OptionsOK, Transacting!TransactedOnce
<1>2. CASE Transacting!Transact
  <2>1. opts = Transacting!Configured
    BY <1>2 DEF Transacting!Transact, Transacting!Begin, TransactInv, OptionsOK
  <2> QED BY <1>2, <2>1, Begins DEF Transacting!Transact
<1>3. ASSUME NEW value, Transacting!Transfer(value) PROVE TransactInv'
  <2>1. opts = Transacting!Configured
    BY <1>3 DEF Transacting!Transfer, Transacting!Begin, TransactInv, OptionsOK
  <2> QED BY <1>3, <2>1, Begins DEF Transacting!Transfer
<1>4. ASSUME NEW given, NEW named, Transacting!TransactWithValue(given, named) PROVE TransactInv'
  <2>1. opts = Transacting!Configured
    BY <1>4 DEF Transacting!TransactWithValue, Transacting!Begin, TransactInv, OptionsOK
  <2> QED BY <1>4, <2>1, Begins DEF Transacting!TransactWithValue
<1>5. CASE Transacting!Send \/ Transacting!Resend
  <2>1. /\ call.pc \in {"sending", "resending"} /\ nonce \in Transacting!Nonces /\ UNCHANGED calls
    BY <1>5 DEF Transacting!Send, Transacting!Resend
  <2>2. PICK answer \in Transacting!Answers(nonce) :
          /\ Transacting!Accept(answer)
          /\ \/ \E now : Transacting!Return(now)
             \/ answer \notin {"ok", "lost"} /\ UNCHANGED <<opts, call>>
             \/ answer \notin {"ok", "lost"} /\ UNCHANGED opts
                /\ \/ call' = [call EXCEPT !.pc = "refreshing"]
                   \/ call' = [call EXCEPT !.pc = "refreshing", !.tries = @ + 1]
    <3>1. \A answer \in Transacting!Answers(nonce) :
            answer \in {"ok", "lost", "error", "tooLow", "tooHigh", "nonceError"}
      BY DEF Transacting!Answers
    <3>2. CASE Transacting!Send
      BY <3>1, <3>2 DEF Transacting!Send
    <3>3. CASE Transacting!Resend
      BY <3>1, <3>3 DEF Transacting!Resend
    <3> QED BY <1>5, <3>2, <3>3
  <2>3. CASE answer \in {"ok", "lost"}
    BY <2>1, <2>2, <2>3, Submits DEF Transacting!Accept
  <2>4. CASE answer \notin {"ok", "lost"}
    <3>1. UNCHANGED pool
      BY <2>2, <2>4 DEF Transacting!Accept
    <3>2. CASE \E now : Transacting!Return(now)
      BY <2>1, <3>1, <3>2, Returns, TransactContinues
    <3>3. CASE UNCHANGED <<opts, call>>
      BY <2>1, <3>1, <3>3, TransactContinues
    <3>4. CASE UNCHANGED opts /\ \/ call' = [call EXCEPT !.pc = "refreshing"]
                                 \/ call' = [call EXCEPT !.pc = "refreshing", !.tries = @ + 1]
      <4>1. /\ DOMAIN call' = DOMAIN call /\ call'.opts = call.opts /\ call'.asked = call.asked
            /\ call'.pc = "refreshing"
        BY <3>4 DEF TransactInv, TransactType
      <4> QED BY <2>1, <3>1, <3>4, <4>1, TransactContinues
    <3> QED BY <2>2, <2>4, <3>2, <3>3, <3>4
  <2> QED BY <2>3, <2>4
<1>6. ASSUME UNCHANGED <<pool, calls>>, call.pc # "returned", NEW now, Transacting!Return(now)
      PROVE  TransactInv'
  BY <1>6, Returns, TransactContinues
<1>7. CASE Transacting!Cancel \/ Transacting!GiveUp
  BY <1>6, <1>7 DEF Transacting!Cancel, Transacting!GiveUp
<1>8. CASE Transacting!Refresh
  <2>1. /\ DOMAIN call' = DOMAIN call /\ call'.opts = call.opts /\ call'.asked = call.asked
        /\ call'.pc = "resending"
    BY <1>8 DEF Transacting!Refresh, TransactInv, TransactType
  <2> QED BY <1>8, <2>1, TransactContinues DEF Transacting!Refresh
<1>9. CASE Transacting!RefreshFails
  <2>1. CASE call' = [call EXCEPT !.tries = @ + 1] /\ UNCHANGED opts
    <3>1. /\ DOMAIN call' = DOMAIN call /\ call'.opts = call.opts /\ call'.asked = call.asked
          /\ call'.pc = call.pc
      BY <2>1 DEF TransactInv, TransactType
    <3> QED BY <1>9, <2>1, <3>1, TransactContinues DEF Transacting!RefreshFails
  <2> QED BY <1>6, <1>9, <2>1 DEF Transacting!RefreshFails
<1>10. CASE UNCHANGED Transacting!vars
  BY <1>10 DEF Transacting!vars, TransactInv, TransactType, OptionsOK, PoolOK,
               Transacting!TransactedOnce
<1> QED BY <1>1, <1>2, <1>3, <1>4, <1>5, <1>7, <1>8, <1>9, <1>10 DEF Transacting!Next

\* A call submits one transaction at most, with the value and the gas that it asked
\* for, however often it is sent again: Transacter.transact.
THEOREM SubmittedWithItsOptions == Transacting!Spec => []Transacting!TransactedOnce
<1>1. TransactInv => Transacting!TransactedOnce
  BY DEF TransactInv
<1> QED BY <1>1, TransactInit, TransactNext, PTL DEF Transacting!Spec
-----------------------------------------------------------------------------
(* Fragments: the conversions of a fragment. *)

FragmentFields ==
  {"orderID", "type", "parity", "settlement", "expiry", "id", "epochDepth", "tokens", "price",
   "volume", "minimumVolume", "nonce"}

\* A fragment is the one with index i of an order, for the epoch d ago, but for the
\* fraction of its expiry.
FragmentOf(f, ord, d, i) ==
  /\ DOMAIN f = FragmentFields
  /\ f.orderID = Trading!Hash(ord) /\ f.type = ord.type /\ f.parity = ord.parity
  /\ f.settlement = ord.settlement /\ Trading!Unix(f.expiry) = Trading!Unix(ord.expiry)
  /\ f.epochDepth = d
  /\ f.tokens = Trading!Share(ord, 1, i)
  /\ f.price.co = Trading!Share(ord, 2, i) /\ f.price.exp = Trading!Share(ord, 3, i)
  /\ f.volume.co = Trading!Share(ord, 4, i) /\ f.volume.exp = Trading!Share(ord, 5, i)
  /\ f.minimumVolume.co = Trading!Share(ord, 6, i) /\ f.minimumVolume.exp = Trading!Share(ord, 7, i)
  /\ f.nonce = Trading!Share(ord, 8, i)

\* Order.Split makes such a fragment.
LEMMA SplitFragment ==
  ASSUME NEW ord, NEW i
  PROVE  FragmentOf(Trading!Split(ord, i), ord, depth, i)
BY DEF Trading!Split, Trading!NewFragment, Trading!CoExpShare, FragmentOf, FragmentFields

\* The conversions of a share take it back.
LEMMA ShareRoundTrip ==
  ASSUME NEW ord, NEW s, NEW i, NEW key
  PROVE  LET share == Trading!Share(ord, s, i) IN
         /\ Trading!UnmarshalBinary(Trading!MarshalBinary(share)) = share
         /\ Trading!Decrypt(Trading!Encrypt(share, key)) = share
BY DEF Trading!Share, Trading!UnmarshalBinary, Trading!MarshalBinary, Trading!Decrypt,
       Trading!Encrypt

\* A fragment that was encrypted, sent, received and decrypted is the same fragment.
LEMMA RequestRoundTrip ==
  ASSUME NEW ord, NEW d, NEW i, NEW key, NEW f, FragmentOf(f, ord, d, i)
  PROVE  LET inRequest == Trading!MarshalEncryptedFragment(Trading!EncryptFragment(f, key))
             opened == Trading!DecryptFragment(Trading!UnmarshalEncryptedFragment(inRequest))
         IN  FragmentOf(opened, ord, d, i)
<1> DEFINE e == Trading!EncryptFragment(f, key)
           r == Trading!MarshalEncryptedFragment(e)
           u == Trading!UnmarshalEncryptedFragment(r)
           o == Trading!DecryptFragment(u)
<1>1. /\ e.orderID = f.orderID /\ e.type = f.type /\ e.parity = f.parity
      /\ e.settlement = f.settlement /\ e.expiry = f.expiry /\ e.epochDepth = f.epochDepth
      /\ e.tokens = Trading!Encrypt(f.tokens, key) /\ e.nonce = Trading!Encrypt(f.nonce, key)
      /\ e.price = Trading!EncryptCoExp(f.price, key)
      /\ e.volume = Trading!EncryptCoExp(f.volume, key)
      /\ e.minimumVolume = Trading!EncryptCoExp(f.minimumVolume, key)
  BY DEF Trading!EncryptFragment, FragmentOf, FragmentFields
<1> HIDE DEF e
<1>2. /\ u.orderID = e.orderID /\ u.type = e.type /\ u.parity = e.parity
      /\ u.settlement = e.settlement /\ Trading!Unix(u.expiry) = Trading!Unix(e.expiry)
      /\ u.epochDepth = e.epochDepth
      /\ u.tokens = e.tokens /\ u.price = e.price /\ u.volume = e.volume
      /\ u.minimumVolume = e.minimumVolume /\ u.nonce = e.nonce
      /\ DOMAIN u = FragmentFields
  BY DEF Trading!MarshalEncryptedFragment, Trading!UnmarshalEncryptedFragment, Trading!Unix,
         FragmentFields
<1> HIDE DEF r, u
<1>3. /\ o.orderID = u.orderID /\ o.type = u.type /\ o.parity = u.parity
      /\ o.settlement = u.settlement /\ o.expiry = u.expiry /\ o.epochDepth = u.epochDepth
      /\ o.tokens = Trading!Decrypt(u.tokens) /\ o.nonce = Trading!Decrypt(u.nonce)
      /\ o.price = Trading!DecryptCoExp(u.price) /\ o.volume = Trading!DecryptCoExp(u.volume)
      /\ o.minimumVolume = Trading!DecryptCoExp(u.minimumVolume)
      /\ DOMAIN o = FragmentFields
  BY <1>2 DEF Trading!DecryptFragment, FragmentFields
<1> HIDE DEF o
<1>4. ASSUME NEW val
      PROVE  LET back == Trading!DecryptCoExp(Trading!EncryptCoExp(val, key)) IN
             /\ back.co = Trading!Decrypt(Trading!Encrypt(val.co, key))
             /\ back.exp = Trading!Decrypt(Trading!Encrypt(val.exp, key))
  BY DEF Trading!DecryptCoExp, Trading!EncryptCoExp
<1>5. FragmentOf(o, ord, d, i)
  BY <1>1, <1>2, <1>3, <1>4, ShareRoundTrip DEF FragmentOf
<1> QED BY <1>5 DEF o, u, r, e

\* A fragment that was stored and loaded is the same fragment.
LEMMA JSONRoundTrip ==
  ASSUME NEW ord, NEW d, NEW i, NEW f, FragmentOf(f, ord, d, i)
  PROVE  FragmentOf(Trading!FragmentFromJSON(Trading!FragmentToJSON(f)), ord, d, i)
<1> DEFINE j == Trading!FragmentToJSON(f)
           l == Trading!FragmentFromJSON(j)
<1>1. /\ j.orderID = f.orderID /\ j.type = f.type /\ j.parity = f.parity
      /\ j.settlement = f.settlement /\ j.expiry = f.expiry /\ j.epochDepth = f.epochDepth
      /\ j.tokens = Trading!MarshalBinary(f.tokens) /\ j.nonce = Trading!MarshalBinary(f.nonce)
      /\ j.price = Trading!CoExpToJSON(f.price) /\ j.volume = Trading!CoExpToJSON(f.volume)
      /\ j.minimumVolume = Trading!CoExpToJSON(f.minimumVolume)
      /\ DOMAIN j = FragmentFields
  BY DEF Trading!FragmentToJSON, FragmentOf, FragmentFields
<1> HIDE DEF j
<1>2. /\ l.orderID = j.orderID /\ l.type = j.type /\ l.parity = j.parity
      /\ l.settlement = j.settlement /\ l.expiry = j.expiry /\ l.epochDepth = j.epochDepth
      /\ l.tokens = Trading!UnmarshalBinary(j.tokens) /\ l.nonce = Trading!UnmarshalBinary(j.nonce)
      /\ l.price = Trading!CoExpFromJSON(j.price) /\ l.volume = Trading!CoExpFromJSON(j.volume)
      /\ l.minimumVolume = Trading!CoExpFromJSON(j.minimumVolume)
      /\ DOMAIN l = FragmentFields
  BY <1>1 DEF Trading!FragmentFromJSON, FragmentFields
<1> HIDE DEF l
<1>3. ASSUME NEW val
      PROVE  LET back == Trading!CoExpFromJSON(Trading!CoExpToJSON(val)) IN
             /\ back.co = Trading!UnmarshalBinary(Trading!MarshalBinary(val.co))
             /\ back.exp = Trading!UnmarshalBinary(Trading!MarshalBinary(val.exp))
  BY DEF Trading!CoExpFromJSON, Trading!CoExpToJSON
<1>4. FragmentOf(l, ord, d, i)
  BY <1>1, <1>2, <1>3, ShareRoundTrip DEF FragmentOf
<1> QED BY <1>4 DEF l, j
-----------------------------------------------------------------------------
(* Fragments: computations, Joins and messages. *)

\* Share s of the sixteen that node i has of the two orders.
ShareOf(s, i) ==
  IF s <= 8 THEN Trading!Share(orders["buy"], s, i) ELSE Trading!Share(orders["sell"], s - 8, i)

\* The Join of node i.
ComputationID == <<Trading!Hash(orders["buy"]), Trading!Hash(orders["sell"]), depth>>
JoinOf(i) ==
  [id |-> <<ComputationID, "settlement">>, index |-> i, shares |-> [s \in 1 .. 16 |-> ShareOf(s, i)]]

\* A computation is that of the fragments with index i.
ComputationOf(com, i) ==
  /\ com.id = ComputationID /\ com.epoch = Trading!EpochAt(depth)
  /\ FragmentOf(com.buy, orders["buy"], depth, i)
  /\ FragmentOf(com.sell, orders["sell"], depth, i)

\* It is made from them, and it is the same when it was stored and loaded.
LEMMA ComputationRoundTrip ==
  ASSUME NEW i, NEW buy, NEW sell,
         FragmentOf(buy, orders["buy"], depth, i), FragmentOf(sell, orders["sell"], depth, i)
  PROVE  LET com == Trading!NewComputation(Trading!EpochAt(depth), buy, sell)
             kept == [com EXCEPT !.buy = Trading!FragmentToJSON(@),
                                 !.sell = Trading!FragmentToJSON(@)]
             back == [kept EXCEPT !.buy = Trading!FragmentFromJSON(@),
                                  !.sell = Trading!FragmentFromJSON(@)]
         IN  ComputationOf(back, i)
<1> DEFINE com == Trading!NewComputation(Trading!EpochAt(depth), buy, sell)
           kept == [com EXCEPT !.buy = Trading!FragmentToJSON(@),
                               !.sell = Trading!FragmentToJSON(@)]
           back == [kept EXCEPT !.buy = Trading!FragmentFromJSON(@),
                                !.sell = Trading!FragmentFromJSON(@)]
<1>1. /\ com.buy = buy /\ com.sell = sell /\ com.id = ComputationID
      /\ com.epoch = Trading!EpochAt(depth) /\ DOMAIN com = {"id", "buy", "sell", "epoch"}
  BY DEF Trading!NewComputation, Trading!NewComputationID, ComputationID, FragmentOf
<1> HIDE DEF com
<1>2. /\ kept.buy = Trading!FragmentToJSON(com.buy) /\ kept.sell = Trading!FragmentToJSON(com.sell)
      /\ kept.id = com.id /\ kept.epoch = com.epoch /\ DOMAIN kept = {"id", "buy", "sell", "epoch"}
  BY <1>1
<1> HIDE DEF kept
<1>3. /\ back.buy = Trading!FragmentFromJSON(kept.buy)
      /\ back.sell = Trading!FragmentFromJSON(kept.sell)
      /\ back.id = kept.id /\ back.epoch = kept.epoch
  BY <1>2
<1> HIDE DEF back
<1>4. ComputationOf(back, i)
  BY <1>1, <1>2, <1>3, JSONRoundTrip DEF ComputationOf
<1> QED BY <1>4 DEF back, kept, com

\* The shares of a fragment, in the order in which its order was split.
LEMMA SharesInOrder ==
  ASSUME NEW f, NEW ord, NEW d, NEW i, FragmentOf(f, ord, d, i)
  PROVE  /\ Len(Trading!SharesOf(f)) = 8
         /\ \A s \in 1 .. 8 : Trading!SharesOf(f)[s] = Trading!Share(ord, s, i)
         /\ \A S : (\A s \in 1 .. 8 : Trading!Share(ord, s, i) \in S) => Trading!SharesOf(f) \in Seq(S)
<1>1. Trading!SharesOf(f) =
        <<Trading!Share(ord, 1, i), Trading!Share(ord, 2, i), Trading!Share(ord, 3, i),
          Trading!Share(ord, 4, i), Trading!Share(ord, 5, i), Trading!Share(ord, 6, i),
          Trading!Share(ord, 7, i), Trading!Share(ord, 8, i)>>
  BY DEF Trading!SharesOf, FragmentOf
<1>2. \A s \in 1 .. 8 : s = 1 \/ s = 2 \/ s = 3 \/ s = 4 \/ s = 5 \/ s = 6 \/ s = 7 \/ s = 8
  OBVIOUS
<1>3. \A s \in {1, 2, 3, 4, 5, 6, 7, 8} : s \in 1 .. 8
  OBVIOUS
<1> QED BY <1>1, <1>2, <1>3

\* Every Join is that of its node.
LEMMA JoinOfComputation ==
  ASSUME NEW com, NEW i, ComputationOf(com, i)
  PROVE  Trading!JoinOrderMatch(com) = JoinOf(i)
<1> DEFINE b == Trading!SharesOf(com.buy)
           c == Trading!SharesOf(com.sell)
           S == {ShareOf(s, i) : s \in 1 .. 16}
<1>1. /\ Len(b) = 8 /\ \A s \in 1 .. 8 : b[s] = ShareOf(s, i)
      /\ b \in Seq(S)
  <2>1. FragmentOf(com.buy, orders["buy"], depth, i)
    BY DEF ComputationOf
  <2>2. \A s \in 1 .. 8 : Trading!Share(orders["buy"], s, i) = ShareOf(s, i)
    BY DEF ShareOf
  <2>3. \A s \in 1 .. 8 : ShareOf(s, i) \in S
    OBVIOUS
  <2> HIDE DEF S
  <2> QED BY <2>1, <2>2, <2>3, SharesInOrder
<1>2. /\ Len(c) = 8 /\ \A s \in 1 .. 8 : c[s] = ShareOf(s + 8, i)
      /\ c \in Seq(S)
  <2>1. FragmentOf(com.sell, orders["sell"], depth, i)
    BY DEF ComputationOf
  <2>2. \A s \in 1 .. 8 : Trading!Share(orders["sell"], s, i) = ShareOf(s + 8, i)
    BY DEF ShareOf
  <2>3. \A s \in 1 .. 8 : ShareOf(s + 8, i) \in S
    OBVIOUS
  <2> HIDE DEF S
  <2> QED BY <2>1, <2>2, <2>3, SharesInOrder
<1> HIDE DEF b, c, S
<1>3. b \o c = [s \in 1 .. 16 |-> ShareOf(s, i)]
  <2>1. /\ b \o c \in Seq(S) /\ Len(b \o c) = 16
        /\ \A s \in 1 .. 16 : (b \o c)[s] = IF s <= 8 THEN b[s] ELSE c[s - 8]
    <3>1. b \in Seq(S) /\ c \in Seq(S)
      BY <1>1, <1>2
    <3>2. /\ b \o c \in Seq(S) /\ Len(b \o c) = Len(b) + Len(c)
          /\ \A s \in 1 .. Len(b) + Len(c) :
               (b \o c)[s] = IF s <= Len(b) THEN b[s] ELSE c[s - Len(b)]
      BY <3>1, ConcatProperties
    <3>3. Len(b) = 8 /\ Len(c) = 8 /\ Len(b) + Len(c) = 16
      BY <1>1, <1>2
    <3> QED BY <3>2, <3>3
  <2>2. \A s \in 1 .. 16 : (b \o c)[s] = ShareOf(s, i)
    <3> SUFFICES ASSUME NEW s \in 1 .. 16 PROVE (b \o c)[s] = ShareOf(s, i)
      OBVIOUS
    <3>1. CASE s <= 8
      <4>1. s \in 1 .. 8
        BY <3>1
      <4>2. b[s] = ShareOf(s, i)
        BY <1>1, <4>1
      <4>3. (b \o c)[s] = b[s]
        BY <2>1, <3>1
      <4> QED BY <4>2, <4>3
    <3>2. CASE ~(s <= 8)
      <4>1. s - 8 \in 1 .. 8 /\ (s - 8) + 8 = s
        BY <3>2
      <4>2. c[s - 8] = ShareOf((s - 8) + 8, i)
        BY <1>2, <4>1
      <4>3. (b \o c)[s] = c[s - 8]
        BY <2>1, <3>2
      <4> QED BY <4>1, <4>2, <4>3
    <3> QED BY <3>1, <3>2
  <2>3. b \o c \in [1 .. 16 -> S]
    BY <2>1, LenProperties
  <2> QED BY <2>2, <2>3
<1>4. com.buy.tokens.index = i
  BY DEF ComputationOf, FragmentOf, Trading!Share
<1> QED BY <1>3, <1>4 DEF Trading!JoinOrderMatch, JoinOf, ComputationOf, b, c

\* The words of a Join: of each share one for the index and one for the value.
Words(i) ==
  [w \in 1 .. 32 |-> Trading!MarshalBinary(ShareOf((w + 1) \div 2, i))[2 - (w % 2)]]

LEMMA WordsOfShares ==
  ASSUME NEW i, NEW s \in 1 .. 16
  PROVE  /\ 2 * s - 1 \in 1 .. 32 /\ 2 * s \in 1 .. 32
         /\ Words(i)[2 * s - 1] = ShareOf(s, i).index
         /\ Words(i)[2 * s] = ShareOf(s, i).value
<1>1. 2 * s - 1 \in 1 .. 32 /\ 2 * s \in 1 .. 32
  OBVIOUS
<1>2. ((2 * s - 1) + 1) \div 2 = s /\ 2 - ((2 * s - 1) % 2) = 1
  OBVIOUS
<1>3. (2 * s + 1) \div 2 = s /\ 2 - ((2 * s) % 2) = 2
  OBVIOUS
<1>4. Words(i)[2 * s - 1] = Trading!MarshalBinary(ShareOf(s, i))[1]
  BY <1>1, <1>2 DEF Words
<1>5. Words(i)[2 * s] = Trading!MarshalBinary(ShareOf(s, i))[2]
  BY <1>1, <1>3 DEF Words
<1> QED BY <1>1, <1>4, <1>5 DEF Trading!MarshalBinary

\* A sequence behind its first element.
LEMMA BehindFirst ==
  ASSUME NEW S, NEW first \in S, NEW rest \in Seq(S)
  PROVE  /\ <<first>> \o rest \in Seq(S)
         /\ Head(<<first>> \o rest) = first /\ Tail(<<first>> \o rest) = rest
<1> DEFINE one == <<first>>
           all == one \o rest
<1>1. one \in Seq(S) /\ Len(one) = 1 /\ one[1] = first
  OBVIOUS
<1> HIDE DEF one
<1>2. /\ all \in Seq(S) /\ Len(all) = Len(one) + Len(rest) /\ Len(rest) \in Nat
      /\ \A p \in 1 .. Len(one) + Len(rest) :
           all[p] = IF p <= Len(one) THEN one[p] ELSE rest[p - Len(one)]
  BY <1>1, ConcatProperties, LenProperties
<1> HIDE DEF all
<1>3. /\ Len(all) = Len(rest) + 1 /\ all[1] = first
      /\ \A p \in 1 .. Len(rest) : all[p + 1] = rest[p]
  <2>1. 1 \in 1 .. Len(one) + Len(rest)
    BY <1>1, <1>2
  <2>2. ASSUME NEW p \in 1 .. Len(rest) PROVE all[p + 1] = rest[p]
    <3>1. p + 1 \in 1 .. Len(one) + Len(rest) /\ ~(p + 1 <= Len(one)) /\ p + 1 - Len(one) = p
      BY <1>1, <1>2
    <3>2. all[p + 1] = rest[p + 1 - Len(one)]
      BY <1>2, <3>1
    <3> QED BY <3>1, <3>2
  <2> QED BY <1>1, <1>2, <2>1, <2>2
<1>4. all # <<>>
  BY <1>2, <1>3, EmptySeq
<1>5. /\ Head(all) = all[1] /\ Tail(all) \in Seq(S) /\ Len(Tail(all)) = Len(all) - 1
      /\ \A p \in 1 .. Len(Tail(all)) : Tail(all)[p] = all[p + 1]
  BY <1>2, <1>4, HeadAndTail, HeadTailProperties
<1>6. Len(Tail(all)) = Len(rest) /\ \A p \in 1 .. Len(rest) : Tail(all)[p] = rest[p]
  BY <1>2, <1>3, <1>5
<1>7. Tail(all) = rest
  BY <1>5, <1>6, SeqEqual
<1> QED BY <1>2, <1>3, <1>5, <1>7 DEF all, one

\* A function on 1 .. n is a sequence of length n.
LEMMA FunctionIsSeq ==
  ASSUME NEW S, NEW n \in Nat, NEW f \in [1 .. n -> S]
  PROVE  f \in Seq(S) /\ Len(f) = n
<1>1. f \in Seq(S)
  BY SeqDef
<1>2. Len(f) \in Nat /\ DOMAIN f = 1 .. Len(f) /\ DOMAIN f = 1 .. n
  BY <1>1, LenProperties
<1>3. Len(f) = n
  BY <1>2
<1> QED BY <1>1, <1>3

\* The bytes of the Join of a node.
LEMMA JoinBytes ==
  ASSUME NEW i
  PROVE  LET data == Trading!MarshalJoin(JoinOf(i)) IN
         /\ \E S : data \in Seq(S)
         /\ data[1] = JoinOf(i).id /\ data[2] = i /\ data[3] = 16
         /\ \A s \in 1 .. 16 : /\ data[2 * s + 2] = ShareOf(s, i).index
                              /\ data[2 * s + 3] = ShareOf(s, i).value
         /\ Len(data) = 35
<1> DEFINE id == JoinOf(i).id
           head == <<id, i, 16>>
           words == Words(i)
           S == {id, i, 16} \cup {words[w] : w \in 1 .. 32}
           data == head \o words
<1>1. Trading!MarshalJoin(JoinOf(i)) = data
  <2>1. Len(JoinOf(i).shares) = 16
    <3>1. JoinOf(i).shares \in [1 .. 16 -> {ShareOf(s, i) : s \in 1 .. 16}]
      BY DEF JoinOf
    <3> QED BY <3>1, FunctionIsSeq
  <2>2. \A w \in 1 .. 32 : (w + 1) \div 2 \in 1 .. 16
    OBVIOUS
  <2>3. \A w \in 1 .. 32 : JoinOf(i).shares[(w + 1) \div 2] = ShareOf((w + 1) \div 2, i)
    BY <2>2 DEF JoinOf
  <2>4. JoinOf(i).index = i
    BY DEF JoinOf
  <2>5. [w \in 1 .. 2 * Len(JoinOf(i).shares) |->
           Trading!MarshalBinary(JoinOf(i).shares[(w + 1) \div 2])[2 - (w % 2)]] = words
    BY <2>1, <2>3 DEF Words
  <2> QED BY <2>1, <2>4, <2>5 DEF Trading!MarshalJoin
<1>2. words \in Seq(S) /\ Len(words) = 32
  <2>1. words \in [1 .. 32 -> S]
    BY DEF Words
  <2> HIDE DEF S, words
  <2> QED BY <2>1, FunctionIsSeq, ZenonT(30)
<1>3. head \in Seq(S) /\ Len(head) = 3 /\ head[1] = id /\ head[2] = i /\ head[3] = 16
  OBVIOUS
<1> HIDE DEF S, head, words
<1>4. /\ data \in Seq(S) /\ Len(data) = Len(head) + Len(words)
      /\ \A p \in 1 .. Len(head) + Len(words) :
           data[p] = IF p <= Len(head) THEN head[p] ELSE words[p - Len(head)]
  BY <1>2, <1>3, ConcatProperties, ZenonT(30)
<1> HIDE DEF data
<1>5. Len(data) = 35 /\ \A p \in 1 .. 35 : data[p] = IF p <= 3 THEN head[p] ELSE words[p - 3]
  BY <1>2, <1>3, <1>4
<1>6. data[1] = id /\ data[2] = i /\ data[3] = 16
  BY <1>3, <1>5
<1>7. ASSUME NEW s \in 1 .. 16
      PROVE  data[2 * s + 2] = ShareOf(s, i).index /\ data[2 * s + 3] = ShareOf(s, i).value
  <2>1. /\ 2 * s + 2 \in 1 .. 35 /\ ~(2 * s + 2 <= 3) /\ (2 * s + 2) - 3 = 2 * s - 1
        /\ 2 * s + 3 \in 1 .. 35 /\ ~(2 * s + 3 <= 3) /\ (2 * s + 3) - 3 = 2 * s
    OBVIOUS
  <2>2. data[2 * s + 2] = words[2 * s - 1] /\ data[2 * s + 3] = words[2 * s]
    BY <1>5, <2>1
  <2> QED BY <2>2, WordsOfShares DEF words
<1> QED BY <1>1, <1>4, <1>5, <1>6, <1>7

\* Another node reads the Join that was sent.
LEMMA MessageRoundTrip ==
  ASSUME NEW i, NEW type, NEW net
  PROVE  LET received == Trading!UnmarshalMessage(Trading!MarshalMessage(type, net, JoinOf(i)))
         IN  received.message.join = JoinOf(i)
<1> DEFINE data == Trading!MarshalJoin(JoinOf(i))
           below == <<net>> \o data
           all == <<type>> \o below
<1>1. PICK T : data \in Seq(T)
  BY JoinBytes
<1> DEFINE S == T \cup {type, net}
<1>2. data \in Seq(S) /\ type \in S /\ net \in S /\ T \subseteq S
  BY <1>1, SeqMonotonic
<1>3. /\ Len(data) = 35 /\ data[1] = JoinOf(i).id /\ data[2] = i /\ data[3] = 16
      /\ \A s \in 1 .. 16 : /\ data[2 * s + 2] = ShareOf(s, i).index
                           /\ data[2 * s + 3] = ShareOf(s, i).value
  BY JoinBytes
<1>4. Trading!MarshalMessage(type, net, JoinOf(i)) = all
  BY DEF Trading!MarshalMessage, Trading!MarshalMessageJoin
<1> HIDE DEF data, S
<1>5. below \in Seq(S) /\ Tail(below) = data
  BY <1>2, BehindFirst
<1> HIDE DEF below
<1>6. Tail(all) = below
  BY <1>2, <1>5, BehindFirst
<1>7. ASSUME NEW s \in 1 .. 16
      PROVE  Trading!UnmarshalBinary(SubSeq(data, 2 * s + 2, 2 * s + 3)) = ShareOf(s, i)
  <2> DEFINE m == 2 * s + 2
             n == 2 * s + 3
  <2>1. m \in Int /\ n \in Int /\ n - m + 1 = 2 /\ m .. n \subseteq 1 .. 35 /\ m + 1 = n
    OBVIOUS
  <2>2. \A p \in m .. n : data[p] \in S
    BY <1>2, <1>3, <2>1, ElementOfSeq
  <2>3. data[m] = ShareOf(s, i).index /\ data[n] = ShareOf(s, i).value
    BY <1>3
  <2> HIDE DEF m, n
  <2>4. \A p \in 1 .. n - m + 1 : SubSeq(data, m, n)[p] = data[m + p - 1]
    BY <2>1, <2>2, SubSeqProperties
  <2>5. SubSeq(data, m, n)[1] = data[m] /\ SubSeq(data, m, n)[2] = data[n]
    BY <2>1, <2>4
  <2>6. Trading!UnmarshalBinary(SubSeq(data, m, n)) = ShareOf(s, i)
    BY <2>3, <2>5 DEF Trading!UnmarshalBinary, ShareOf, Trading!Share
  <2> QED BY <2>6 DEF m, n
<1>8. Trading!UnmarshalJoin(data) = JoinOf(i)
  BY <1>3, <1>7 DEF Trading!UnmarshalJoin, JoinOf
<1> HIDE DEF all
<1>9. Trading!UnmarshalMessage(all).message.join = Trading!UnmarshalJoin(Tail(Tail(all)))
  BY DEF Trading!UnmarshalMessage, Trading!UnmarshalMessageJoin
<1> QED BY <1>4, <1>5, <1>6, <1>8, <1>9
-----------------------------------------------------------------------------
(* Fragments: its steps. *)

\* The orders are those of traders, with a nonce in the field.
OrdersType ==
  \A o \in {"buy", "sell"} : IsOrder(orders[o]) /\ orders[o].nonce < Prime

\* Wherever a fragment is, it can be read as that of its order and node.
RequestOK(o, i) ==
  request[<<o, i>>] = <<>> \/ \E key :
    request[<<o, i>>] = Trading!MarshalEncryptedFragment(
                          Trading!EncryptFragment(Trading!Split(orders[o], i), key))
StoredOK(o, i) ==
  \/ stored[<<o, i>>] = <<>>
  \/ FragmentOf(Trading!FragmentFromJSON(stored[<<o, i>>]), orders[o], depth, i)
ComputedOK(i) == computed[i] = <<>> \/ ComputationOf(Trading!Loaded(i), i)

\* And what a node sends is its own Join.
SentOK(i) ==
  /\ sent[i] = <<>> \/ \E type, net : sent[i] = Trading!MarshalMessage(type, net, JoinOf(i))
  /\ sent[i] # <<>> => computed[i] # <<>>

CarriedRight ==
  /\ \A o \in {"buy", "sell"}, i \in Nodes : RequestOK(o, i) /\ StoredOK(o, i)
  /\ \A i \in Nodes : ComputedOK(i) /\ SentOK(i)

TradingType ==
  /\ DOMAIN request = {"buy", "sell"} \X Nodes /\ DOMAIN stored = {"buy", "sell"} \X Nodes
  /\ DOMAIN computed = Nodes /\ DOMAIN sent = Nodes
  /\ joins \in [Nodes -> SUBSET {JoinOf(j) : j \in Nodes}]
  /\ DOMAIN submitted = Nodes

\* The inductive invariant.
TradingInv == OrdersType /\ TradingType /\ CarriedRight /\ Trading!SettlesTheOrder

LEMMA TradingInit == Trading!Init => TradingInv
<1> SUFFICES ASSUME Trading!Init PROVE TradingInv
  OBVIOUS
<1>1. PICK pair \in Traded : orders = [o \in {"buy", "sell"} |-> Trading!NewOrder(pair[o])]
  BY DEF Trading!Init, Trading!Parities
<1>2. OrdersType
  <2> SUFFICES ASSUME NEW o \in {"buy", "sell"} PROVE IsOrder(orders[o]) /\ orders[o].nonce < Prime
    BY DEF OrdersType
  <2>1. orders[o] = [pair[o] EXCEPT !.nonce = @ % Prime] /\ IsOrder(pair[o])
    BY <1>1, TradingAssumption DEF Trading!NewOrder
  <2>2. /\ DOMAIN orders[o] = DOMAIN pair[o] /\ orders[o].tokens = pair[o].tokens
        /\ orders[o].price = pair[o].price /\ orders[o].volume = pair[o].volume
        /\ orders[o].minimumVolume = pair[o].minimumVolume
        /\ orders[o].nonce = pair[o].nonce % Prime
    BY <2>1 DEF IsOrder
  <2>3. pair[o].nonce \in Nat /\ Prime \in Nat \ {0}
    BY <2>1, TradingAssumption DEF IsOrder
  <2>4. pair[o].nonce % Prime \in Nat /\ pair[o].nonce % Prime < Prime
    BY <2>3
  <2> QED BY <2>1, <2>2, <2>4 DEF IsOrder
<1>3. /\ request = [at \in {"buy", "sell"} \X Nodes |-> <<>>]
      /\ stored = [at \in {"buy", "sell"} \X Nodes |-> <<>>]
      /\ computed = [i \in Nodes |-> <<>>] /\ sent = [i \in Nodes |-> <<>>]
      /\ joins = [i \in Nodes |-> {}] /\ submitted = [i \in Nodes |-> <<>>]
  BY DEF Trading!Init, Trading!Nothing, Trading!Parities
<1>4. TradingType /\ CarriedRight
  BY <1>3 DEF TradingType, CarriedRight, RequestOK, StoredOK, ComputedOK, SentOK
<1>5. Trading!SettlesTheOrder
  BY <1>3 DEF Trading!SettlesTheOrder, Trading!Nothing
<1> QED BY <1>2, <1>4, <1>5 DEF TradingInv

\* What only depends on the orders and the epoch stays.
LEMMA OrdersStay ==
  ASSUME UNCHANGED <<orders, depth>>
  PROVE  /\ \A i : JoinOf(i)' = JoinOf(i)
         /\ OrdersType' <=> OrdersType
         /\ \A o, i : (Trading!Split(orders[o], i))' = Trading!Split(orders[o], i)
         /\ \A com, i : ComputationOf(com, i)' <=> ComputationOf(com, i)
BY DEF JoinOf, ShareOf, ComputationID, OrdersType, Trading!Split, ComputationOf, Trading!EpochAt

\* And so does what is said of a place that does not change.
LEMMA PlacesStay ==
  ASSUME UNCHANGED <<orders, depth>>
  PROVE  /\ \A o, i : request'[<<o, i>>] = request[<<o, i>>] => (RequestOK(o, i)' <=> RequestOK(o, i))
         /\ \A o, i : stored'[<<o, i>>] = stored[<<o, i>>] => (StoredOK(o, i)' <=> StoredOK(o, i))
         /\ \A i : computed'[i] = computed[i] => (ComputedOK(i)' <=> ComputedOK(i))
         /\ \A i : sent'[i] = sent[i] /\ computed'[i] = computed[i] => (SentOK(i)' <=> SentOK(i))
BY OrdersStay DEF RequestOK, StoredOK, ComputedOK, SentOK, Trading!Loaded

\* Nothing was submitted.
LEMMA SubmittedStays ==
  ASSUME TradingInv, UNCHANGED <<orders, submitted>>
  PROVE  Trading!SettlesTheOrder'
BY DEF TradingInv, Trading!SettlesTheOrder

LEMMA SendFragmentStep ==
  ASSUME TradingInv, NEW o \in {"buy", "sell"}, NEW i \in Nodes, NEW key,
         Trading!SendFragment(o, i, key)
  PROVE  TradingInv'
<1>1. /\ request' = [request EXCEPT ![<<o, i>>] = Trading!MarshalEncryptedFragment(
                       Trading!EncryptFragment(Trading!Split(orders[o], i), key))]
      /\ UNCHANGED <<orders, depth, stored, computed, sent, joins, submitted>>
  BY DEF Trading!SendFragment
<1>2. RequestOK(o, i)'
  <2>1. <<o, i>> \in DOMAIN request
    BY DEF TradingInv, TradingType
  <2>2. request'[<<o, i>>] = Trading!MarshalEncryptedFragment(
                              Trading!EncryptFragment(Trading!Split(orders[o], i), key))
    BY <1>1, <2>1
  <2> QED BY <1>1, <2>2, OrdersStay DEF RequestOK
<1>3. \A p \in {"buy", "sell"}, l \in Nodes : RequestOK(p, l)'
  <2> SUFFICES ASSUME NEW p \in {"buy", "sell"}, NEW l \in Nodes, <<p, l>> # <<o, i>>
               PROVE  RequestOK(p, l)'
    BY <1>2
  <2>1. request'[<<p, l>>] = request[<<p, l>>]
    BY <1>1 DEF TradingInv, TradingType
  <2> QED BY <1>1, <2>1, PlacesStay DEF TradingInv, CarriedRight
<1>4. TradingType' /\ OrdersType'
  BY <1>1, OrdersStay DEF TradingInv, TradingType
<1>5. CarriedRight'
  BY <1>1, <1>3, PlacesStay DEF TradingInv, CarriedRight
<1> QED BY <1>1, <1>4, <1>5, SubmittedStays DEF TradingInv

LEMMA OpenOrderStep ==
  ASSUME TradingInv, NEW o \in {"buy", "sell"}, NEW i \in Nodes, Trading!OpenOrder(o, i)
  PROVE  TradingInv'
<1> DEFINE f == Trading!UnmarshalEncryptedFragment(request[<<o, i>>])
           kept == Trading!FragmentToJSON(Trading!DecryptFragment(f))
<1>1. /\ request[<<o, i>>] # <<>>
      /\ stored' = [stored EXCEPT ![<<o, i>>] = kept] \/ stored' = stored
      /\ request' = [request EXCEPT ![<<o, i>>] = <<>>]
      /\ UNCHANGED <<orders, depth, computed, sent, joins, submitted>>
  BY DEF Trading!OpenOrder, Trading!Nothing
<1>2. FragmentOf(Trading!FragmentFromJSON(kept), orders[o], depth, i)
  <2>1. PICK key : request[<<o, i>>] = Trading!MarshalEncryptedFragment(
                     Trading!EncryptFragment(Trading!Split(orders[o], i), key))
    BY <1>1 DEF TradingInv, CarriedRight, RequestOK
  <2>2. FragmentOf(Trading!DecryptFragment(f), orders[o], depth, i)
    BY <2>1, SplitFragment, RequestRoundTrip
  <2> QED BY <2>2, JSONRoundTrip
<1> HIDE DEF f, kept
<1>3. <<o, i>> \in DOMAIN request /\ <<o, i>> \in DOMAIN stored
  BY DEF TradingInv, TradingType
<1>4. ASSUME NEW p \in {"buy", "sell"}, NEW l \in Nodes
      PROVE  RequestOK(p, l)' /\ StoredOK(p, l)'
  <2>1. RequestOK(p, l) /\ StoredOK(p, l)
    BY DEF TradingInv, CarriedRight
  <2>2. /\ request'[<<p, l>>] = request[<<p, l>>] \/ request'[<<p, l>>] = <<>>
        /\ \/ stored'[<<p, l>>] = stored[<<p, l>>]
           \/ <<p, l>> = <<o, i>> /\ stored'[<<p, l>>] = kept
    BY <1>1, <1>3 DEF TradingInv, TradingType
  <2>3. RequestOK(p, l)'
    BY <1>1, <2>1, <2>2, PlacesStay DEF RequestOK
  <2>4. CASE stored'[<<p, l>>] = stored[<<p, l>>]
    BY <1>1, <2>1, <2>3, <2>4, PlacesStay
  <2>5. CASE p = o /\ l = i /\ stored'[<<p, l>>] = kept
    BY <1>1, <1>2, <2>3, <2>5 DEF StoredOK
  <2> QED BY <2>2, <2>4, <2>5
<1>5. TradingType' /\ OrdersType'
  BY <1>1, OrdersStay DEF TradingInv, TradingType
<1>6. CarriedRight'
  BY <1>1, <1>4, PlacesStay DEF TradingInv, CarriedRight
<1> QED BY <1>1, <1>5, <1>6, SubmittedStays DEF TradingInv

LEMMA ComputeStep ==
  ASSUME TradingInv, NEW i \in Nodes, Trading!Compute(i)
  PROVE  TradingInv'
<1> DEFINE buy == Trading!FragmentFromJSON(stored[<<"buy", i>>])
           sell == Trading!FragmentFromJSON(stored[<<"sell", i>>])
           com == Trading!NewComputation(Trading!EpochAt(depth), buy, sell)
           kept == [com EXCEPT !.buy = Trading!FragmentToJSON(@),
                               !.sell = Trading!FragmentToJSON(@)]
           back == [kept EXCEPT !.buy = Trading!FragmentFromJSON(@),
                                !.sell = Trading!FragmentFromJSON(@)]
<1>1. /\ computed[i] = <<>> /\ stored[<<"buy", i>>] # <<>> /\ stored[<<"sell", i>>] # <<>>
      /\ computed' = [computed EXCEPT ![i] = kept]
      /\ UNCHANGED <<orders, depth, request, stored, sent, joins, submitted>>
  BY DEF Trading!Compute, Trading!Nothing, Trading!Parities
<1>2. ComputationOf(back, i)
  <2>1. StoredOK("buy", i) /\ StoredOK("sell", i)
    BY DEF TradingInv, CarriedRight
  <2>2. FragmentOf(buy, orders["buy"], depth, i) /\ FragmentOf(sell, orders["sell"], depth, i)
    BY <1>1, <2>1 DEF StoredOK
  <2> HIDE DEF buy, sell
  <2> QED BY <2>2, ComputationRoundTrip
<1> HIDE DEF kept
<1>3. /\ DOMAIN computed' = Nodes /\ computed'[i] = kept
      /\ \A l \in Nodes : l # i => computed'[l] = computed[l]
  BY <1>1 DEF TradingInv, TradingType
<1>4. ComputedOK(i)'
  <2>1. Trading!Loaded(i)' = back
    BY <1>3 DEF Trading!Loaded
  <2> HIDE DEF back
  <2> QED BY <1>1, <1>2, <2>1, OrdersStay DEF ComputedOK
<1> HIDE DEF back
<1>5. ASSUME NEW l \in Nodes PROVE ComputedOK(l)' /\ SentOK(l)'
  <2>1. ComputedOK(l) /\ SentOK(l)
    BY DEF TradingInv, CarriedRight
  <2>2. CASE l # i
    BY <1>1, <1>3, <2>1, <2>2, PlacesStay
  <2>3. CASE l = i
    <3>1. sent[i] = <<>>
      BY <1>1, <2>1, <2>3 DEF SentOK
    <3> QED BY <1>1, <1>4, <2>3, <3>1 DEF SentOK
  <2> QED BY <2>2, <2>3
<1>6. TradingType' /\ OrdersType'
  BY <1>1, <1>3, OrdersStay DEF TradingInv, TradingType
<1>7. CarriedRight'
  BY <1>1, <1>5, PlacesStay DEF TradingInv, CarriedRight
<1> QED BY <1>1, <1>6, <1>7, SubmittedStays DEF TradingInv

LEMMA SettleStep ==
  ASSUME TradingInv, NEW i \in Nodes, NEW type, Trading!Settle(i, type)
  PROVE  TradingInv'
<1> DEFINE com == Trading!Loaded(i)
           message == Trading!MarshalMessage(type, com.epoch, JoinOf(i))
<1>1. /\ computed[i] # <<>>
      /\ joins' = [joins EXCEPT ![i] = @ \cup {Trading!JoinOrderMatch(com)}]
      /\ sent' = [sent EXCEPT ![i] =
                    Trading!MarshalMessage(type, com.epoch, Trading!JoinOrderMatch(com))]
      /\ UNCHANGED <<orders, depth, request, stored, computed, submitted>>
  BY DEF Trading!Settle, Trading!Nothing
<1>2. Trading!JoinOrderMatch(com) = JoinOf(i)
  <2>1. ComputationOf(com, i)
    BY <1>1 DEF TradingInv, CarriedRight, ComputedOK
  <2> QED BY <2>1, JoinOfComputation
<1>3. joins' = [joins EXCEPT ![i] = @ \cup {JoinOf(i)}] /\ sent' = [sent EXCEPT ![i] = message]
  BY <1>1, <1>2
<1>4. \E t, net : message = Trading!MarshalMessage(t, net, JoinOf(i))
  OBVIOUS
<1> HIDE DEF com, message
<1>5. joins' \in [Nodes -> SUBSET {JoinOf(j) : j \in Nodes}]
  BY <1>3 DEF TradingInv, TradingType
<1>6. TradingType' /\ OrdersType'
  <2>1. {JoinOf(j) : j \in Nodes}' = {JoinOf(j) : j \in Nodes}
    BY <1>1, OrdersStay
  <2> QED BY <1>1, <1>3, <1>5, <2>1, OrdersStay DEF TradingInv, TradingType
<1>7. ASSUME NEW l \in Nodes PROVE SentOK(l)'
  <2>1. SentOK(l)
    BY DEF TradingInv, CarriedRight
  <2>2. sent'[l] = IF l = i THEN message ELSE sent[l]
    BY <1>3 DEF TradingInv, TradingType
  <2>3. CASE l # i
    BY <1>1, <2>1, <2>2, <2>3, PlacesStay
  <2>4. CASE l = i
    BY <1>1, <1>4, <2>2, <2>4, OrdersStay DEF SentOK
  <2> QED BY <2>3, <2>4
<1>8. CarriedRight'
  BY <1>1, <1>7, PlacesStay DEF TradingInv, CarriedRight
<1> QED BY <1>1, <1>6, <1>8, SubmittedStays DEF TradingInv

LEMMA ReceiveStep ==
  ASSUME TradingInv, NEW i \in Nodes, NEW j \in Nodes, Trading!Receive(i, j)
  PROVE  TradingInv'
<1> DEFINE received == Trading!UnmarshalMessage(sent[j])
<1>1. /\ sent[j] # <<>> /\ joins' = [joins EXCEPT ![i] = @ \cup {received.message.join}]
      /\ UNCHANGED <<orders, depth, request, stored, computed, sent, submitted>>
  BY DEF Trading!Receive, Trading!Nothing
<1>2. received.message.join = JoinOf(j)
  <2>1. PICK type, net : sent[j] = Trading!MarshalMessage(type, net, JoinOf(j))
    BY <1>1 DEF TradingInv, CarriedRight, SentOK
  <2> QED BY <2>1, MessageRoundTrip
<1> HIDE DEF received
<1>3. joins' \in [Nodes -> SUBSET {JoinOf(l) : l \in Nodes}]
  BY <1>1, <1>2 DEF TradingInv, TradingType
<1>4. TradingType' /\ OrdersType'
  <2>1. {JoinOf(l) : l \in Nodes}' = {JoinOf(l) : l \in Nodes}
    BY <1>1, OrdersStay
  <2> QED BY <1>1, <1>3, <2>1, OrdersStay DEF TradingInv, TradingType
<1>5. CarriedRight'
  BY <1>1, PlacesStay DEF TradingInv, CarriedRight
<1> QED BY <1>1, <1>4, <1>5, SubmittedStays DEF TradingInv

\* There are finitely many Joins of nodes.
LEMMA FiniteJoins ==
  ASSUME NEW taken \in SUBSET {JoinOf(j) : j \in Nodes}
  PROVE  /\ IsFiniteSet(taken)
         /\ Trading!Cardinality(taken) = Cardinality(taken)
<1> DEFINE All == {JoinOf(j) : j \in Nodes}
           f == [j \in Nodes |-> JoinOf(j)]
<1>1. f \in Surjection(Nodes, All)
  BY DEF Surjection
<1>2. IsFiniteSet(All)
  <2> HIDE DEF All, f
  <2> QED BY <1>1, FS_Surjection, TradingAssumption
<1> QED BY <1>2, FS_Subset DEF Trading!Cardinality, Cardinality

\* As many of them as are needed give any of the sixteen secrets away.
SecretOf(s) ==
  IF s <= 8 THEN Trading!SecretsOf(orders["buy"])[s] ELSE Trading!SecretsOf(orders["sell"])[s - 8]

LEMMA SecretsJoined ==
  ASSUME NEW taken \in SUBSET {JoinOf(j) : j \in Nodes}, Trading!Cardinality(taken) = Needed,
         NEW s \in 1 .. 16
  PROVE  Trading!JoinShares({join.shares[s] : join \in taken}) = SecretOf(s)
<1> DEFINE shares == {join.shares[s] : join \in taken}
           values == {share.value : share \in shares}
           indices == {share.index : share \in shares}
           f == [join \in taken |-> join.shares[s].index]
<1>1. IsFiniteSet(taken) /\ Cardinality(taken) = Needed /\ Needed \in Nat \ {0}
  BY FiniteJoins, TradingAssumption
<1>2. PICK some \in taken : TRUE
  BY <1>1, FS_EmptySet
<1> DEFINE v == ShareOf(s, None).value
<1>3. /\ \A i : ShareOf(s, i).value = v /\ ShareOf(s, i).index = i
      /\ v[1] = SecretOf(s)
  <2>1. CASE s <= 8
    <3>1. \A i : ShareOf(s, i) = Trading!Share(orders["buy"], s, i)
      BY <2>1 DEF ShareOf
    <3> QED BY <2>1, <3>1 DEF SecretOf, Trading!Share
  <2>2. CASE ~(s <= 8)
    <3>1. \A i : ShareOf(s, i) = Trading!Share(orders["sell"], s - 8, i)
      BY <2>2 DEF ShareOf
    <3> QED BY <2>2, <3>1 DEF SecretOf, Trading!Share
  <2> QED BY <2>1, <2>2
<1> HIDE DEF v
<1>4. ASSUME NEW join \in taken
      PROVE  /\ join.shares[s].value = v /\ join.shares[s].index = join.index
             /\ join = JoinOf(join.index)
  <2>1. PICK j \in Nodes : join = JoinOf(j)
    OBVIOUS
  <2>2. join.shares[s] = ShareOf(s, j) /\ join.index = j
    BY <2>1 DEF JoinOf
  <2> QED BY <1>3, <2>1, <2>2
<1>5. values = {v}
  BY <1>2, <1>4
<1>6. f \in Surjection(taken, indices) /\ f \in Injection(taken, indices)
  BY <1>4 DEF Surjection, Injection, IsInjective
<1>7. Cardinality(indices) = Needed
  <2> HIDE DEF f, indices
  <2> QED BY <1>1, <1>6, FS_Surjection
<1>8. Trading!Cardinality(values) = 1 /\ Trading!Cardinality(indices) = Needed
  <2>1. Cardinality(values) = 1
    BY <1>5, FS_Singleton
  <2>2. \A S : Trading!Cardinality(S) = Cardinality(S)
    BY DEF Trading!Cardinality, Cardinality
  <2> HIDE DEF values, indices
  <2> QED BY <1>7, <2>1, <2>2
<1>9. \E share \in shares : TRUE
  BY <1>2
<1>10. \A share \in shares : share.value[1] = SecretOf(s)
  BY <1>3, <1>4
<1>11. (CHOOSE share \in shares : TRUE).value[1] = SecretOf(s)
  <2> HIDE DEF shares
  <2> QED BY <1>9, <1>10
<1> QED BY <1>8, <1>11 DEF Trading!JoinShares

\* The order that is made from a fragment and the secrets has the ID of the one that was
\* split, as the numbers that the contract is told are in its range.
LEMMA SettledHash ==
  ASSUME NEW ord, IsOrder(ord), ord.nonce < Prime, Trading!InRange(ord),
         NEW d, NEW i, NEW f, FragmentOf(f, ord, d, i),
         NEW values, \A s \in 1 .. 8 : values[s] = Trading!SecretsOf(ord)[s]
  PROVE  Trading!Hash(Trading!SubmitOrder(Trading!OrderOf(f, values))) = Trading!Hash(ord)
<1> DEFINE made == Trading!OrderOf(f, values)
           told == Trading!SubmitOrder(made)
<1>1. /\ values[1] = ord.tokens /\ values[2] = ord.price.co /\ values[3] = ord.price.exp
      /\ values[4] = ord.volume.co /\ values[5] = ord.volume.exp
      /\ values[6] = ord.minimumVolume.co /\ values[7] = ord.minimumVolume.exp
      /\ values[8] = ord.nonce
  <2>1. \A s \in {1, 2, 3, 4, 5, 6, 7, 8} : s \in 1 .. 8
    OBVIOUS
  <2> QED BY <2>1 DEF Trading!SecretsOf
<1>2. ord.nonce % Prime = ord.nonce
  BY TradingAssumption DEF IsOrder
<1>3. /\ made.type = ord.type /\ made.parity = ord.parity /\ made.settlement = ord.settlement
      /\ made.expiry = f.expiry /\ made.tokens = ord.tokens
      /\ made.price = [co |-> ord.price.co, exp |-> ord.price.exp]
      /\ made.volume = [co |-> ord.volume.co, exp |-> ord.volume.exp]
      /\ made.minimumVolume = [co |-> ord.minimumVolume.co, exp |-> ord.minimumVolume.exp]
      /\ made.nonce = ord.nonce
  BY <1>1, <1>2 DEF Trading!OrderOf, Trading!NewOrder, FragmentOf
<1> HIDE DEF made
<1>4. ASSUME NEW val \in {ord.price, ord.volume, ord.minimumVolume}
      PROVE  /\ val = [co |-> val.co, exp |-> val.exp]
             /\ val.co % Width = val.co /\ val.exp % Width = val.exp
  <2>1. val \in CoExps /\ val.co < Width /\ val.exp < Width
    BY DEF IsOrder, Trading!InRange
  <2>2. val.co \in Nat /\ val.exp \in Nat /\ Width \in Nat \ {0}
    BY <2>1, TradingAssumption DEF CoExps
  <2>3. val = [co |-> val.co, exp |-> val.exp]
    BY <2>1 DEF CoExps
  <2> QED BY <2>1, <2>2, <2>3
<1>5. made.price = ord.price /\ made.volume = ord.volume /\ made.minimumVolume = ord.minimumVolume
  BY <1>3, <1>4
<1>6. /\ told.type = made.type /\ told.parity = made.parity /\ told.settlement = made.settlement
      /\ Trading!Unix(told.expiry) = Trading!Unix(made.expiry) /\ told.tokens = made.tokens
      /\ told.price = [co |-> made.price.co % Width, exp |-> made.price.exp % Width]
      /\ told.volume = [co |-> made.volume.co % Width, exp |-> made.volume.exp % Width]
      /\ told.minimumVolume =
           [co |-> made.minimumVolume.co % Width, exp |-> made.minimumVolume.exp % Width]
      /\ told.nonce = made.nonce
  BY DEF Trading!SubmitOrder, Trading!Unix
<1> HIDE DEF told
<1>7. /\ told.price = ord.price /\ told.volume = ord.volume
      /\ told.minimumVolume = ord.minimumVolume
  BY <1>4, <1>5, <1>6
<1>8. Trading!Unix(told.expiry) = Trading!Unix(ord.expiry)
  BY <1>3, <1>6 DEF FragmentOf
<1>9. Trading!Hash(told) = Trading!Hash(ord)
  BY <1>3, <1>6, <1>7, <1>8 DEF Trading!Hash
<1> QED BY <1>9 DEF told, made

LEMMA ReconstructStep ==
  ASSUME TradingInv, NEW i \in Nodes, NEW taken \in Trading!kSubset(Needed, joins[i]),
         Trading!Reconstruct(i, taken)
  PROVE  TradingInv'
<1> DEFINE com == Trading!Loaded(i)
           values == [s \in 1 .. 16 |-> Trading!JoinShares({join.shares[s] : join \in taken})]
           ofBuy == SubSeq(values, 1, 8)
           ofSell == SubSeq(values, 9, 16)
           told == [buy |-> Trading!SubmitOrder(Trading!OrderOf(com.buy, ofBuy)),
                    sell |-> Trading!SubmitOrder(Trading!OrderOf(com.sell, ofSell))]
<1>1. /\ sent[i] # <<>> /\ submitted' = [submitted EXCEPT ![i] = told]
      /\ UNCHANGED <<orders, depth, request, stored, computed, sent, joins>>
  BY DEF Trading!Reconstruct, Trading!Nothing
<1>2. taken \in SUBSET {JoinOf(j) : j \in Nodes} /\ Trading!Cardinality(taken) = Needed
  BY DEF Trading!kSubset, TradingInv, TradingType
<1>3. \A s \in 1 .. 16 : values[s] = SecretOf(s)
  BY <1>2, SecretsJoined
<1>4. ComputationOf(com, i)
  BY <1>1 DEF TradingInv, CarriedRight, SentOK, ComputedOK
<1>5. /\ FragmentOf(com.buy, orders["buy"], depth, i)
      /\ FragmentOf(com.sell, orders["sell"], depth, i)
  BY <1>4 DEF ComputationOf
<1>6. /\ \A s \in 1 .. 8 : ofBuy[s] = Trading!SecretsOf(orders["buy"])[s]
      /\ \A s \in 1 .. 8 : ofSell[s] = Trading!SecretsOf(orders["sell"])[s]
  <2>1. \A s \in 1 .. 8 : ofBuy[s] = values[s] /\ ofSell[s] = values[s + 8]
    <3>1. /\ 1 \in Int /\ 8 \in Int /\ 9 \in Int /\ 16 \in Int
          /\ 8 - 1 + 1 = 8 /\ 16 - 9 + 1 = 8
      OBVIOUS
    <3> HIDE DEF values
    <3>2. \A s \in 1 .. 8 : ofBuy[s] = values[1 + s - 1] /\ ofSell[s] = values[9 + s - 1]
      BY <3>1
    <3> QED BY <3>2
  <2> HIDE DEF values, ofBuy, ofSell
  <2>2. ASSUME NEW s \in 1 .. 8
        PROVE  /\ s <= 8 /\ s \in 1 .. 16 /\ s + 8 \in 1 .. 16
               /\ ~(s + 8 <= 8) /\ (s + 8) - 8 = s
    OBVIOUS
  <2> QED BY <1>3, <2>1, <2>2 DEF SecretOf
<1> HIDE DEF com, values, ofBuy, ofSell
<1>7. \A o \in {"buy", "sell"} :
        Trading!InRange(orders[o]) => Trading!Hash(told[o]) = Trading!Hash(orders[o])
  <2>1. \A o \in {"buy", "sell"} : IsOrder(orders[o]) /\ orders[o].nonce < Prime
    BY DEF TradingInv, OrdersType
  <2>2. Trading!InRange(orders["buy"]) => Trading!Hash(told.buy) = Trading!Hash(orders["buy"])
    BY <1>5, <1>6, <2>1, SettledHash
  <2>3. Trading!InRange(orders["sell"]) => Trading!Hash(told.sell) = Trading!Hash(orders["sell"])
    BY <1>5, <1>6, <2>1, SettledHash
  <2> QED BY <2>2, <2>3
<1> HIDE DEF told
<1>8. Trading!SettlesTheOrder'
  <2> SUFFICES ASSUME NEW l \in Nodes, submitted'[l] # <<>>, NEW o \in {"buy", "sell"},
                      Trading!InRange(orders[o])
               PROVE  Trading!Hash(submitted'[l][o]) = Trading!Hash(orders[o])
    BY <1>1 DEF Trading!SettlesTheOrder, Trading!Nothing, Trading!Parities
  <2>1. CASE l = i
    BY <1>1, <1>7, <2>1 DEF TradingInv, TradingType
  <2>2. CASE l # i
    <3>1. submitted'[l] = submitted[l]
      BY <1>1, <2>2 DEF TradingInv, TradingType
    <3> QED BY <3>1 DEF TradingInv, Trading!SettlesTheOrder, Trading!Nothing, Trading!Parities
  <2> QED BY <2>1, <2>2
<1>9. OrdersType' /\ TradingType' /\ CarriedRight'
  <2>1. {JoinOf(l) : l \in Nodes}' = {JoinOf(l) : l \in Nodes}
    BY <1>1, OrdersStay
  <2>2. OrdersType' /\ TradingType'
    BY <1>1, <2>1, OrdersStay DEF TradingInv, TradingType
  <2>3. CarriedRight'
    BY <1>1, PlacesStay DEF TradingInv, CarriedRight
  <2> QED BY <2>2, <2>3
<1> QED BY <1>8, <1>9 DEF TradingInv

LEMMA TradingNext == TradingInv /\ [Trading!Next]_(Trading!vars) => TradingInv'
<1> SUFFICES ASSUME TradingInv, [Trading!Next]_(Trading!vars) PROVE TradingInv'
  OBVIOUS
<1>1. ASSUME NEW i \in Nodes, NEW o \in {"buy", "sell"},
             Trading!OpenOrder(o, i) \/ \E key \in {i, Trading!StaleKey} : Trading!SendFragment(o, i, key)
      PROVE  TradingInv'
  BY <1>1, OpenOrderStep, SendFragmentStep
<1>2. ASSUME NEW i \in Nodes, Trading!Compute(i) PROVE TradingInv'
  BY <1>2, ComputeStep
<1>3. ASSUME NEW i \in Nodes, NEW type, Trading!Settle(i, type) PROVE TradingInv'
  BY <1>3, SettleStep
<1>4. ASSUME NEW i \in Nodes, NEW j \in Nodes, Trading!Receive(i, j) PROVE TradingInv'
  BY <1>4, ReceiveStep
<1>5. ASSUME NEW i \in Nodes, NEW taken \in Trading!kSubset(Needed, joins[i]),
             Trading!Reconstruct(i, taken)
      PROVE  TradingInv'
  BY <1>5, ReconstructStep
<1>6. CASE UNCHANGED Trading!vars
  <2>1. UNCHANGED <<orders, depth, request, stored, computed, sent, joins, submitted>>
    BY <1>6 DEF Trading!vars
  <2>2. {JoinOf(l) : l \in Nodes}' = {JoinOf(l) : l \in Nodes}
    BY <2>1, OrdersStay
  <2>3. OrdersType' /\ TradingType'
    BY <2>1, <2>2, OrdersStay DEF TradingInv, TradingType
  <2>4. CarriedRight'
    BY <2>1, PlacesStay DEF TradingInv, CarriedRight
  <2> QED BY <2>1, <2>3, <2>4, SubmittedStays DEF TradingInv
<1> QED BY <1>1, <1>2, <1>3, <1>4, <1>5, <1>6 DEF Trading!Next, Trading!Parities

\* What any node submits to the settlement contract, whichever nodes' shares it was
\* joined from, has the ID of the order that the trader opened, through encryption, JSON,
\* the messages between nodes and the joining of shares.
THEOREM SettledAsOpened == Trading!Spec => []Trading!SettlesTheOrder
<1>1. TradingInv => Trading!SettlesTheOrder
  BY DEF TradingInv
<1> QED BY <1>1, TradingInit, TradingNext, PTL DEF Trading!Spec
-----------------------------------------------------------------------------

\* And all of it together, as the run on the libraries checks it.
THEOREM LibrariesAreSafe == LibrarySpec => []LibrariesSafe
BY SharedStreamsOpen, NobodyInsideClosed, EveryIndexOnce, EveryErrorHandled,
   SubmittedWithItsOptions, SettledAsOpened, PTL DEF LibrarySpec, LibrariesSafe
=============================================================================
