------------------------------- MODULE Swarm --------------------------------
(***************************************************************************)
(* Peers of a node: the buckets of dht/dht.go, and Ping, Query and Bootstrap  *)
(* of swarm/swarm.go, which fill them.                                       *)
(*                                                                         *)
(* One node, Self, is modelled with all that its goroutines do to its DHT.    *)
(* The handlers of pings and the goroutines that ping bootstrap nodes do the  *)
(* same and are the Handlers; the query runs beside them.  What the other     *)
(* peers know is fixed, and they may be up or down.                          *)
(***************************************************************************)
EXTENDS Integers, FiniteSets, SequencesExt

CONSTANTS
  Bits,       \* length of an address, IDLengthInBits
  Self,       \* a number below 2^Bits, as all addresses
  Peers,      \* the other addresses
  Handlers,   \* goroutines that insert a peer that pinged, or was pinged
  MaxLength,  \* maxBucketLength, 64 in darknode.go
  Depths,     \* depths of queries, below zero for an exhaustive search
  MaxPings,   \* bound on the pings of a behaviour
  MaxFlips    \* bound on how often peers go up or down

Searcher == "searcher"
Updaters == Handlers \cup {Searcher}
Addresses == Peers \cup {Self}

VARIABLES
  knows,     \* [Peers -> peers in the DHT of the peer], fixed
  up,        \* peers that answer
  buckets,   \* [0 .. Bits - 1 -> the addresses in the Bucket, the oldest first]
  updating,  \* [Updaters -> where updateDHT is]
  search,    \* the query: [pc, target, depth, boot, white, black, answers]
  start,     \* the peers the query started from
  pings, flips

swarmVars == <<knows, up, buckets, updating, search, start, pings, flips>>
-----------------------------------------------------------------------------
(* Distances: dht/dht.go and identity/address.go. *)

Bit(a, i) == (a \div 2^i) % 2

\* Distance is the exclusive or of the two addresses.
Differ(a, b) == {i \in 0 .. Bits - 1 : Bit(a, i) # Bit(b, i)}

\* Closer: the first bit in which the two distances differ decides.
Closer(left, right, target) ==
  \E i \in Differ(right, target) \ Differ(left, target) :
    \A j \in i + 1 .. Bits - 1 : j \in Differ(left, target) <=> j \in Differ(right, target)

\* findBucket: the addresses with the longest common prefix are in bucket 0.
FindBucket(a) == CHOOSE i \in Differ(a, Self) : \A j \in Differ(a, Self) : j <= i

\* Addresses are strings of bits: the other peers differ from Self in one.
ASSUME SwarmAssumption ==
  /\ Bits \in Nat /\ MaxLength \in Nat /\ IsFiniteSet(Peers)
  /\ \A peer \in Peers : peer # Self /\ Differ(peer, Self) # {}

\* MultiAddresses: the buckets one after the other, of which these are the first n.
FirstBuckets[n \in 0 .. Bits] ==
  IF n = 0 THEN <<>> ELSE FirstBuckets[n - 1] \o buckets[n - 1]
MultiAddresses == FirstBuckets[Bits]

\* What a peer answers to a query: the peers it knows that are closer than itself.
Answer(peer, target) == {a \in knows[peer] : Closer(a, peer, target)}
-----------------------------------------------------------------------------

NoUpdate == [pc |-> "none", addr |-> Self, oldest |-> Self]
NoSearch == [pc |-> "idle", target |-> Self, depth |-> 0, boot |-> FALSE, white |-> <<>>,
             black |-> {}, answers |-> {}]

SwarmInit ==
  /\ knows \in [Peers -> SUBSET Peers]
  /\ \A peer \in Peers : peer \notin knows[peer]
  /\ up = Peers
  /\ buckets = [i \in 0 .. Bits - 1 |-> <<>>]
  /\ updating = [t \in Updaters |-> NoUpdate]
  /\ search = NoSearch
  /\ start = {}
  /\ pings = 0 /\ flips = 0

GoOn(t, pc) == updating' = [updating EXCEPT ![t].pc = pc]
restVars == <<knows, up, search, start, pings, flips>>

Stored(a) == Contains(buckets[FindBucket(a)], a)
IsFull(a) == Len(buckets[FindBucket(a)]) = MaxLength

\* UpdateMultiAddress, below the mutex: an address that is there moves to the
\* end, and another one is appended unless the bucket is full.
UpdateMultiAddress(a) ==
  buckets' = IF ~Stored(a) /\ IsFull(a) THEN buckets
             ELSE [buckets EXCEPT ![FindBucket(a)] = Append(RemoveFirst(@, a), a)]

\* RemoveMultiAddress.
RemoveMultiAddress(a) == buckets' = [buckets EXCEPT ![FindBucket(a)] = RemoveFirst(@, a)]
-----------------------------------------------------------------------------
(* updateDHT *)

\* The address is stored, or the bucket is full.
UpdateDHT(t) ==
  /\ updating[t].pc = "update"
  /\ UpdateMultiAddress(updating[t].addr)
  /\ GoOn(t, IF ~Stored(updating[t].addr) /\ IsFull(updating[t].addr) THEN "prune" ELSE "none")
  /\ UNCHANGED restVars

\* pruneDHT: the oldest address of the bucket is read, if there still is one, and
\* pinged.
PruneDHT(t) ==
  /\ updating[t].pc = "prune"
  /\ LET bucket == buckets[FindBucket(updating[t].addr)] IN
     updating' = [updating EXCEPT ![t] =
       IF bucket = <<>> THEN [@ EXCEPT !.pc = "none"]
       ELSE [@ EXCEPT !.oldest = Head(bucket),
                      !.pc = IF Head(bucket) \in up THEN "answered" ELSE "unanswered"]]
  /\ UNCHANGED <<buckets, restVars>>

\* pruneDHT: an address that does not answer is removed, ...
PruneRemoves(t) ==
  /\ updating[t].pc = "unanswered"
  /\ RemoveMultiAddress(updating[t].oldest)
  /\ GoOn(t, "retry")
  /\ UNCHANGED restVars

\* ... and one that does is moved to the end.
PruneRefreshes(t) ==
  /\ updating[t].pc = "answered"
  /\ UpdateMultiAddress(updating[t].oldest)
  /\ GoOn(t, "none")
  /\ UNCHANGED restVars

\* Mutant of UpdateAgain: the bucket is taken to have the room that pruning made.
UpdateAgainAnyway(t) ==
  /\ updating[t].pc = "retry"
  /\ LET a == updating[t].addr IN
     buckets' = [buckets EXCEPT ![FindBucket(a)] = Append(RemoveFirst(@, a), a)]
  /\ GoOn(t, "none")
  /\ UNCHANGED restVars

\* The address is stored in the place of the other, unless another goroutine has
\* filled the bucket.
UpdateAgain(t) ==
  /\ updating[t].pc = "retry"
  /\ UpdateMultiAddress(updating[t].addr)
  /\ GoOn(t, "none")
  /\ UNCHANGED restVars

\* Ping of the server with a signature that is valid, or a bootstrap node that
\* answers a ping.
Ping(t, peer) ==
  /\ updating[t].pc = "none" /\ pings < MaxPings
  /\ pings' = pings + 1
  /\ updating' = [updating EXCEPT ![t] = [NoUpdate EXCEPT !.pc = "update", !.addr = peer]]
  /\ UNCHANGED <<knows, up, buckets, search, start, flips>>
-----------------------------------------------------------------------------
(* query *)

\* The loop over the addresses of the DHT, which appends those that are closer.
CloserThanSelf(all, target) ==
  LET white[n \in 0 .. Len(all)] ==
        IF n = 0 THEN <<>>
        ELSE IF Closer(all[n], Self, target) THEN Append(white[n - 1], all[n]) ELSE white[n - 1]
  IN white[Len(all)]

\* A query starts from the peers that are closer to the target, and when
\* bootstrapping, which queries for Self, from all.
Query(target, limit) ==
  /\ search.pc = "idle"
  /\ LET boot == target = Self
         white == IF boot THEN MultiAddresses ELSE CloserThanSelf(MultiAddresses, target)
     IN /\ search' = [NoSearch EXCEPT !.pc = IF target \in ToSet(white) THEN "found" ELSE "loop",
                                      !.target = target, !.depth = limit, !.boot = boot,
                                      !.white = white, !.black = {Self}]
        /\ start' = ToSet(white)
  /\ UNCHANGED <<knows, up, buckets, updating, pings, flips>>

Searching == search.pc = "loop" /\ search.depth # 0 /\ search.white # <<>>
Peer == Head(search.white)

\* The next peer is taken off the list.
Visit(pc, black, answers) ==
  search' = [search EXCEPT !.pc = pc, !.white = Tail(@), !.black = black, !.answers = answers,
                           !.depth = IF @ > 0 THEN @ - 1 ELSE @]

\* A peer that was queried before, or that does not answer a ping when bootstrapping.
SkipPeer ==
  /\ Searching
  /\ Peer \in search.black \/ (search.boot /\ Peer \notin up)
  /\ Visit("loop", search.black \cup {Peer}, {})
  /\ UNCHANGED <<knows, up, buckets, updating, start, pings, flips>>

\* Mutant of QueryPeer: the peers in the answer are put on the blacklist.
QueryPeerBlacklists ==
  /\ Searching /\ Peer \notin search.black /\ Peer \in up
  /\ Visit("answers", search.black \cup {Peer} \cup (Answer(Peer, search.target) \ {search.target}),
           Answer(Peer, search.target))
  /\ UNCHANGED <<knows, up, buckets, updating, start, pings, flips>>

\* A peer answers.
QueryPeer ==
  /\ Searching /\ Peer \notin search.black /\ Peer \in up
  /\ Visit("answers", search.black \cup {Peer}, Answer(Peer, search.target))
  /\ UNCHANGED <<knows, up, buckets, updating, start, pings, flips>>

\* A peer does not answer: the whole query ends with an error.
QueryFails ==
  /\ Searching /\ Peer \notin search.black /\ Peer \notin up
  /\ Visit("failed", search.black \cup {Peer}, {})
  /\ UNCHANGED <<knows, up, buckets, updating, start, pings, flips>>

\* The next address of an answer: the target is returned, an address that was not
\* queried yet is inserted with updateDHT and queried later.
TakeAnswer(a) ==
  /\ search.pc = "answers" /\ a \in search.answers /\ updating[Searcher].pc = "none"
  /\ LET rest == [search EXCEPT !.answers = @ \ {a}] IN
     IF a = search.target /\ ~search.boot
       THEN search' = [rest EXCEPT !.pc = "found"] /\ UNCHANGED updating
     ELSE IF a \in search.black
       THEN search' = rest /\ UNCHANGED updating
       ELSE /\ search' = [rest EXCEPT !.white = Append(@, a)]
            /\ updating' = [updating EXCEPT ![Searcher] =
                              [NoUpdate EXCEPT !.pc = "update", !.addr = a]]
  /\ UNCHANGED <<knows, up, buckets, start, pings, flips>>

\* The answer is used up.
AnswerTaken ==
  /\ search.pc = "answers" /\ search.answers = {} /\ updating[Searcher].pc = "none"
  /\ search' = [search EXCEPT !.pc = "loop"]
  /\ UNCHANGED <<knows, up, buckets, updating, start, pings, flips>>

\* There is no peer left, or the depth is reached: ErrMultiAddressNotFound, or the
\* end of Bootstrap.
QueryReturns ==
  /\ search.pc = "loop" /\ ~Searching
  /\ search' = [search EXCEPT !.pc = IF search.white = <<>> THEN "exhausted" ELSE "returned"]
  /\ UNCHANGED <<knows, up, buckets, updating, start, pings, flips>>

\* A peer goes up or down.
Flip(peer) ==
  /\ flips < MaxFlips
  /\ flips' = flips + 1
  /\ up' = IF peer \in up THEN up \ {peer} ELSE up \cup {peer}
  /\ UNCHANGED <<knows, buckets, updating, search, start, pings>>

UpdaterStep(t) ==
  UpdateDHT(t) \/ PruneDHT(t) \/ PruneRemoves(t) \/ PruneRefreshes(t) \/ UpdateAgain(t)

SwarmNext ==
  \/ \E t \in Updaters : UpdaterStep(t)
  \/ \E t \in Handlers, peer \in Peers : Ping(t, peer)
  \/ \E target \in Addresses, limit \in Depths : Query(target, limit)
  \/ SkipPeer \/ QueryPeer \/ QueryFails \/ AnswerTaken \/ QueryReturns
  \/ \E a \in Peers : TakeAnswer(a) \/ Flip(a)

SwarmSpec == SwarmInit /\ [][SwarmNext]_swarmVars
-----------------------------------------------------------------------------

\* The variables have their types.
SwarmTypeOK ==
  /\ up \subseteq Peers /\ start \subseteq Peers
  /\ buckets \in [0 .. Bits - 1 -> Seq(Peers)]
  /\ updating \in [Updaters ->
       [pc : {"none", "update", "prune", "answered", "unanswered", "retry"},
        addr : Addresses, oldest : Addresses]]
  /\ ToSet(search.white) \subseteq Peers /\ search.black \subseteq Addresses

\* Pings, queries and the pruning that waits for a ping between them never overfill
\* a bucket, store an address twice or in the wrong bucket, or store Self.
BucketsSound ==
  \A i \in DOMAIN buckets :
    /\ Len(buckets[i]) <= MaxLength
    /\ Cardinality(ToSet(buckets[i])) = Len(buckets[i])
    /\ \A a \in ToSet(buckets[i]) : a # Self /\ FindBucket(a) = i

\* The peers that can be asked, starting from some: each knows one that is closer
\* to the target than itself.
ReachableIn[n \in 0 .. Cardinality(Peers)] ==
  IF n = 0 THEN start
  ELSE ReachableIn[n - 1] \cup UNION {Answer(peer, search.target) : peer \in ReachableIn[n - 1]}
Reachable == ReachableIn[Cardinality(Peers)]

\* "A depth below zero will perform an exhaustive search" (swarm.go:88-91): a
\* search that ends without an answer has asked all peers it can get to, and none
\* of them knows the target, whatever the DHT came to hold in the meantime.
SearchExhaustive ==
  search.pc = "exhausted" /\ ~search.boot => search.target \notin Reachable
=============================================================================
