-------------------------------- MODULE Smpc --------------------------------
(***************************************************************************)
(* smpc/smpc.go and smpc/network.go: the nodes of one network exchange the  *)
(* Joins of their shares until every node can reconstruct the values.       *)
(*                                                                         *)
(* Every node has an smpcer (the Joiner of the network and selfJoins) and a *)
(* network (the senders to its peers).  A message is sent once, by a        *)
(* goroutine, over a stream that may not be up yet or may break, and the    *)
(* error is ignored; only the JoinResponse repairs that.  Streams are those *)
(* of grpc/stream.go, here a set of links that come up and go down.         *)
(*                                                                         *)
(* The callback runs in the thread that inserted the Join, before that      *)
(* thread sends or responds.  What else may happen while it runs is the     *)
(* business of Joiner.tla; here it is part of the insertion.                *)
(***************************************************************************)
EXTENDS JoinSets

CONSTANTS
  Nodes,         \* the nodes of the network; a node's share index is the node
  JoinIDs,
  NewCallback,   \* the callback that a node passes to Join
  Disconnecting, \* nodes that may leave the network
  MaxBreaks      \* bound: how many times a link may break

ASSUME SmpcAssumption ==
  /\ IsFiniteSet(Nodes) /\ Disconnecting \subseteq Nodes
  /\ NewCallback # NilCallback
  /\ MaxBreaks \in Nat

\* The threshold of Connect: 2/3 of the nodes, rounded up.
Threshold(n) == (2 * (n + 1)) \div 3

ASSUME ThresholdAssumption == k = Threshold(Cardinality(Nodes))

VARIABLES
  phase,      \* [Nodes -> where Connect or Disconnect of the node stands]
  joiners,    \* [Nodes -> [JoinIDs -> JoinSet]], smpcer.joiners[networkID]
  senders,    \* [Nodes -> SUBSET Nodes], network.networkSenders[networkID]
  links,      \* streams that are up, as doubletons of nodes
  breaks,     \* how many links have broken
  selfJoins,  \* [Nodes -> SUBSET JoinIDs], smpcer.selfJoins
  joining,    \* [Nodes -> [JoinIDs -> where the call of Join stands]]
  sending,    \* goroutines of network.Send, one for a message to a peer
  wire,       \* messages sent and not yet received
  responding, \* goroutines that handleMessageJoin started
  called,     \* [Nodes -> [JoinIDs -> how often the callback ran]]
  exchanges   \* <<from, to, id>>: the Join of `from` was put on a link while
              \* `to` could answer it, see Paired

netVars == <<phase, senders, links, breaks>>
vars == <<phase, joiners, senders, links, breaks, selfJoins, joining, sending,
          wire, responding, called, exchanges>>

Phases == {"apart", "joiner", "connected", "leaving", "left"}
HasJoiner(n) == phase[n] \in {"joiner", "connected", "leaving"}
HasNetwork(n) == phase[n] = "connected"
\* Mutant of JoinOf: the index of the share is not copied into the Join.
JoinOfNobody(n, id) == [ID |-> id, Index |-> NilCallback, Len |-> 1]

\* The Join of a node: one share, with the index of the node.
JoinOf(n, id) == [ID |-> id, Index |-> n, Len |-> 1]
JoinValues == UNION {[1 .. len -> SUBSET Nodes] : len \in {-1, 1}}
JoinSetType ==
  [Set       : SUBSET Nodes,
   ValuesOk  : BOOLEAN,
   Values    : JoinValues \cup {<<>>},
   ValuesLen : {-1, 1},
   Callback  : {NilCallback, NewCallback}]
Messages == [type : {"join", "joinResponse"}, from : Nodes, to : Nodes, id : JoinIDs]

Init ==
  /\ phase = [n \in Nodes |-> "apart"]
  /\ joiners = [n \in Nodes |-> [id \in JoinIDs |-> NoJoinSet]]
  /\ senders = [n \in Nodes |-> {}]
  /\ links = {}
  /\ breaks = 0
  /\ selfJoins = [n \in Nodes |-> {}]
  /\ joining = [n \in Nodes |-> [id \in JoinIDs |-> "idle"]]
  /\ sending = {}
  /\ wire = {}
  /\ responding = {}
  /\ called = [n \in Nodes |-> [id \in JoinIDs |-> 0]]
  /\ exchanges = {}
-----------------------------------------------------------------------------
(* Connecting and disconnecting.                                            *)

\* smpcer.Connect, under joinersMu: a new Joiner.
Connect(n) ==
  /\ phase[n] = "apart"
  /\ phase' = [phase EXCEPT ![n] = "joiner"]
  /\ UNCHANGED <<joiners, senders, links, breaks, selfJoins, joining, sending, wire,
                 responding, called, exchanges>>

\* network.Connect, under networkMu: an empty map of senders.
ConnectNetwork(n) ==
  /\ phase[n] = "joiner"
  /\ phase' = [phase EXCEPT ![n] = "connected"]
  /\ UNCHANGED <<joiners, senders, links, breaks, selfJoins, joining, sending, wire,
                 responding, called, exchanges>>

\* The goroutine of network.Connect for one peer stores its sender, whether
\* connectOrListen called Connect or Listen.
StoreSender(n, peer) ==
  /\ HasNetwork(n) /\ peer \notin senders[n] \cup {n}
  /\ senders' = [senders EXCEPT ![n] = @ \cup {peer}]
  /\ UNCHANGED <<phase, joiners, links, breaks, selfJoins, joining, sending, wire,
                 responding, called, exchanges>>

\* The stream between two nodes that both called network.Connect is accepted.
LinkUp(n, peer) ==
  /\ n # peer /\ HasNetwork(n) /\ HasNetwork(peer) /\ {n, peer} \notin links
  /\ links' = links \cup {{n, peer}}
  /\ UNCHANGED <<phase, joiners, senders, breaks, selfJoins, joining, sending, wire,
                 responding, called, exchanges>>

\* A stream breaks and everything on it is lost.
LinkDown(n, peer) ==
  /\ {n, peer} \in links /\ breaks < MaxBreaks
  /\ links' = links \ {{n, peer}}
  /\ breaks' = breaks + 1
  /\ wire' = {m \in wire : {m.from, m.to} # {n, peer}}
  /\ exchanges' = {e \in exchanges : {e[1], e[2]} # {n, peer}}
  /\ UNCHANGED <<phase, joiners, senders, selfJoins, joining, sending, responding, called>>

\* network.Disconnect: cancel every connection and forget the senders.
DisconnectNetwork(n) ==
  /\ n \in Disconnecting /\ phase[n] = "connected"
  /\ phase' = [phase EXCEPT ![n] = "leaving"]
  /\ senders' = [senders EXCEPT ![n] = {}]
  /\ links' = {l \in links : n \notin l}
  /\ wire' = {m \in wire : n \notin {m.from, m.to}}
  /\ exchanges' = {e \in exchanges : n \notin {e[1], e[2]}}
  /\ UNCHANGED <<joiners, breaks, selfJoins, joining, sending, responding, called>>

\* The rest of smpcer.Disconnect: forget the Joiner.
Disconnect(n) ==
  /\ phase[n] = "leaving"
  /\ phase' = [phase EXCEPT ![n] = "left"]
  /\ joiners' = [joiners EXCEPT ![n] = [id \in JoinIDs |-> NoJoinSet]]
  /\ UNCHANGED <<senders, links, breaks, selfJoins, joining, sending, wire, responding,
                 called, exchanges>>
-----------------------------------------------------------------------------
(* Sending.                                                                 *)

\* Sender.Send reaches the peer when its stream is up.
Reaches(n, peer) == peer \in senders[n] /\ {n, peer} \in links

\* insertJoin on the Joiner of n, with the callback that it calls.
Insert(n, join, callback, override) ==
  \E js \in LET inserted == AcceptJoin(LoadJoinSet(joiners[n][join.ID], join),
                                       join, callback, override)
            IN  IF TooFewJoins(inserted) THEN {inserted} ELSE ReconstructJoinSet(inserted) :
    /\ joiners' = [joiners EXCEPT ![n][join.ID] =
                     IF js.ValuesOk THEN ClearCallback(js) ELSE js]
    /\ called' = IF js.ValuesOk /\ js.Callback # NilCallback
                   THEN [called EXCEPT ![n][join.ID] = @ + 1]
                   ELSE called
-----------------------------------------------------------------------------
(* Join.                                                                    *)

\* Join, first part: keep the Join for responses.
Join(n, id) ==
  /\ joining[n][id] = "idle"
  /\ selfJoins' = [selfJoins EXCEPT ![n] = @ \cup {id}]
  /\ joining' = [joining EXCEPT ![n][id] = "kept"]
  /\ UNCHANGED <<netVars, joiners, sending, wire, responding, called, exchanges>>

\* Join, second part: insert it and set the callback, or return
\* ErrJoinOnDisconnectedNetwork.
JoinInsert(n, id) ==
  /\ joining[n][id] = "kept"
  /\ \/ /\ ~HasJoiner(n)
        /\ joining' = [joining EXCEPT ![n][id] = "refused"]
        /\ UNCHANGED <<joiners, called>>
     \/ /\ HasJoiner(n)
        /\ joining' = [joining EXCEPT ![n][id] = "inserted"]
        /\ Insert(n, JoinOf(n, id), NewCallback, TRUE)
  /\ UNCHANGED <<netVars, selfJoins, sending, wire, responding, exchanges>>

\* Join, last part: network.Send starts a goroutine for every peer that there
\* is a sender for, or logs that the network is unknown.
JoinSend(n, id) ==
  /\ joining[n][id] = "inserted"
  /\ joining' = [joining EXCEPT ![n][id] = "sent"]
  /\ sending' = sending \cup {[type |-> "join", from |-> n, to |-> peer, id |-> id] :
                                peer \in senders[n]}
  /\ UNCHANGED <<netVars, joiners, selfJoins, wire, responding, called, exchanges>>

\* Whether the peer that gets this Join is certain to answer it, or to have had
\* its own Join reach the node already.
Paired(m) == Reaches(m.from, m.to) /\ Reaches(m.to, m.from) /\ m.id \in selfJoins[m.to]

\* One of those goroutines calls Sender.Send, whose error is ignored.
SenderSend(m) ==
  /\ m \in sending
  /\ sending' = sending \ {m}
  /\ wire' = IF Reaches(m.from, m.to) THEN wire \cup {m} ELSE wire
  /\ exchanges' = exchanges \cup
       (IF Paired(m) THEN {<<m.from, m.to, m.id>>, <<m.to, m.from, m.id>>} ELSE {})
  /\ UNCHANGED <<netVars, joiners, selfJoins, joining, responding, called>>
-----------------------------------------------------------------------------
(* Receive.                                                                 *)

InsertReceived(m) ==
  IF HasJoiner(m.to)
    THEN Insert(m.to, JoinOf(m.from, m.id), NilCallback, FALSE)
    ELSE UNCHANGED <<joiners, called>>

\* handleMessageJoin: insert the Join and start the goroutine that responds.
\* The stream of a peer hands over one message at a time.
HandleMessageJoin(m) ==
  /\ m \in wire /\ m.type = "join"
  /\ wire' = wire \ {m}
  /\ InsertReceived(m)
  /\ responding' = responding \cup {m}
  /\ UNCHANGED <<netVars, selfJoins, joining, sending, exchanges>>

\* Mutant of Respond: a node without a Join for the ID responds with one.
RespondAlways(m) ==
  /\ m \in responding
  /\ responding' = responding \ {m}
  /\ wire' = IF Reaches(m.to, m.from)
               THEN wire \cup {[type |-> "joinResponse", from |-> m.to,
                                to |-> m.from, id |-> m.id]}
               ELSE wire
  /\ UNCHANGED <<netVars, joiners, selfJoins, joining, sending, called, exchanges>>

\* Mutant of Respond: no response.
RespondNever(m) ==
  /\ m \in responding
  /\ responding' = responding \ {m}
  /\ UNCHANGED <<netVars, joiners, selfJoins, joining, sending, wire, called, exchanges>>

\* The goroutine: respond when this node has a Join for the ID by now.
Respond(m) ==
  /\ m \in responding
  /\ responding' = responding \ {m}
  /\ wire' = IF m.id \in selfJoins[m.to] /\ Reaches(m.to, m.from)
               THEN wire \cup {[type |-> "joinResponse", from |-> m.to,
                                to |-> m.from, id |-> m.id]}
               ELSE wire
  /\ UNCHANGED <<netVars, joiners, selfJoins, joining, sending, called, exchanges>>

\* handleMessageJoinResponse.
HandleMessageJoinResponse(m) ==
  /\ m \in wire /\ m.type = "joinResponse"
  /\ wire' = wire \ {m}
  /\ InsertReceived(m)
  /\ UNCHANGED <<netVars, selfJoins, joining, sending, responding, exchanges>>

-----------------------------------------------------------------------------

Next ==
  \/ \E n \in Nodes : Connect(n) \/ ConnectNetwork(n) \/ DisconnectNetwork(n) \/ Disconnect(n)
  \/ \E n, peer \in Nodes : StoreSender(n, peer) \/ LinkUp(n, peer) \/ LinkDown(n, peer)
  \/ \E n \in Nodes, id \in JoinIDs :
       Join(n, id) \/ JoinInsert(n, id) \/ JoinSend(n, id)
  \/ \E m \in sending : SenderSend(m)
  \/ \E m \in wire : HandleMessageJoin(m) \/ HandleMessageJoinResponse(m)
  \/ \E m \in responding : Respond(m)

Spec == Init /\ [][Next]_vars

\* Calls of Join and goroutines that have started go on, and a stream that is
\* up hands over what was sent on it.  Nothing makes a node connect or call
\* Join.  Fairness of any one of these steps is enough: they run out.
Progress ==
  \/ \E n \in Nodes, id \in JoinIDs : JoinInsert(n, id) \/ JoinSend(n, id)
  \/ \E m \in sending : SenderSend(m)
  \/ \E m \in wire : HandleMessageJoin(m) \/ HandleMessageJoinResponse(m)
  \/ \E m \in responding : Respond(m)

Fairness == WF_vars(Progress)

FairSpec == Spec /\ Fairness
-----------------------------------------------------------------------------

\* The variables have their types.
TypeOK ==
  /\ phase \in [Nodes -> Phases]
  /\ joiners \in [Nodes -> [JoinIDs -> JoinSetType]]
  /\ joining \in [Nodes -> [JoinIDs -> {"idle", "kept", "refused", "inserted", "sent"}]]
  /\ senders \in [Nodes -> SUBSET Nodes]
  /\ links \subseteq {{n, peer} : n, peer \in Nodes}
  /\ breaks \in 0 .. MaxBreaks
  /\ selfJoins \in [Nodes -> SUBSET JoinIDs]
  /\ sending \cup wire \cup responding \subseteq Messages
  /\ called \in [Nodes -> [JoinIDs -> Nat]]
  /\ exchanges \subseteq Nodes \X Nodes \X JoinIDs

\* The nodes whose share of an ID a node has, or had when it reconstructed.
Has(n, id) == joiners[n][id].Set

\* A value is revealed to a node only when at least k nodes, the threshold of
\* Connect, have called Join for it: no message makes up a share for a node
\* that has not (smpc.go:128-133).
RevealedByThreshold ==
  \A n \in Nodes, id \in JoinIDs :
    joiners[n][id].ValuesOk =>
      /\ Cardinality({m \in Nodes : id \in selfJoins[m]}) >= k
      /\ \A i \in DOMAIN joiners[n][id].Values : \A m \in joiners[n][id].Values[i] :
           id \in selfJoins[m]

\* A node whose Join was inserted and that still waits lacks shares: it never
\* sits on k shares without having called back.  The callback runs at most once,
\* also when a node that left has it counted, and never when Join returned an error.
NoSilentQuorum ==
  \A n \in Nodes, id \in JoinIDs :
    /\ (joining[n][id] \in {"inserted", "sent"} /\ HasJoiner(n)) =>
         (called[n][id] = 1 <=> Cardinality(Has(n, id)) >= k)
    /\ called[n][id] <= 1
    /\ called[n][id] = 1 => joining[n][id] \in {"inserted", "sent"}

\* Nothing about the ID is under way between two nodes.
Settled(n, peer, id) ==
  \A m \in sending \cup wire \cup responding : m.id = id => {m.from, m.to} # {n, peer}

\* The pairwise exchange: of two nodes that can reach each other when the later
\* of their Joins is put on the stream, both have the other's share once the
\* messages and goroutines between them have run out, in whatever order these
\* came and however often streams came up late, unless the link broke since or
\* the node had reconstructed without it.
ExchangeCompletes ==
  \A n, peer \in Nodes, id \in JoinIDs :
    <<n, peer, id>> \in exchanges /\ Settled(n, peer, id) =>
      n \in Has(peer, id) \/ joiners[peer][id].ValuesOk

\* A node whose Join was not refused and that can exchange with enough of the
\* others gets its callback called ("On a success, the Callback is called",
\* smpc.go:27-29).
JoinSucceeds ==
  \A n \in Nodes, id \in JoinIDs :
    LET Enough == /\ joining[n][id] # "refused"
                  /\ Cardinality({m \in Nodes : <<m, n, id>> \in exchanges} \ {n}) + 1 >= k
    IN  Enough ~> (called[n][id] = 1 \/ ~Enough)
=============================================================================
