------------------------------ MODULE OmeEpoch ------------------------------
(***************************************************************************)
(* The epochs of a node: the loop of cmd/darknode/darknode.go that polls     *)
(* the contract, and OnChangeEpoch of ome/ome.go, whose goroutine takes the  *)
(* smpcer, the orderbook and the generator to the next epoch.               *)
(*                                                                         *)
(* The goroutines of two changes wait for epochMu and get it in any order.   *)
(* Connect and Disconnect are the ones of Smpc, OnChangeEpoch of the         *)
(* orderbook is the one of Orderbook: here they are what they do to the set  *)
(* of networks and to the two aggregators.                                   *)
(***************************************************************************)
EXTENDS Generator

VARIABLES
  epoch,                \* the epoch the loop of the darknode has seen last
  changes,              \* epochs whose goroutine waits for epochMu
  changing,             \* [epoch, step] of the goroutine that holds epochMu
  epochCurr, epochPrev, \* the epochs of the Ome, or None
  networks,             \* networks the smpcer is connected to
  bookCurr, bookPrev    \* the epochs of the aggregators of the orderbook

epochVars == <<epoch, changes, changing, epochCurr, epochPrev, networks, bookCurr, bookPrev>>
nodeVars == <<genVars, epochVars>>

Unlocked == [epoch |-> None, step |-> "unlocked"]

\* NewOme is called with the previous epoch, and calls OnChangeEpoch.
EpochInit ==
  /\ GenInit
  /\ epoch = 1
  /\ changes = {1} /\ changing = Unlocked
  /\ epochCurr = None /\ epochPrev = None
  /\ networks = {}
  /\ bookCurr = None /\ bookPrev = None

\* The loop of the darknode sees a new epoch (the contract may have passed
\* several) and calls OnChangeEpoch, which compares it with the current one under
\* the read lock and starts a goroutine.
SyncEpoch(e) ==
  /\ e > epoch
  /\ changing = Unlocked
  /\ epoch' = e
  /\ changes' = IF e = epochCurr THEN changes ELSE changes \cup {e}
  /\ UNCHANGED <<genVars, changing, epochCurr, epochPrev, networks, bookCurr, bookPrev>>

\* epochMu.Lock, and the node is in no pod of the epoch: nothing changes.
NoPod(e) ==
  /\ e \in changes /\ changing = Unlocked
  /\ changes' = changes \ {e}
  /\ UNCHANGED <<genVars, epoch, changing, epochCurr, epochPrev, networks, bookCurr, bookPrev>>

\* epochMu.Lock, Connect to the network of the pod, and orderbook.OnChangeEpoch,
\* which moves the aggregators on.
ConnectEpoch(e) ==
  /\ e \in changes /\ changing = Unlocked
  /\ changes' = changes \ {e}
  /\ networks' = networks \cup {e}
  /\ bookPrev' = bookCurr
  /\ bookCurr' = e
  /\ changing' = [epoch |-> e, step |-> "orderbook"]
  /\ UNCHANGED <<genVars, epoch, epochCurr, epochPrev>>

\* gen.OnChangeEpoch, which waits for matMu.
ChangeGenerator ==
  /\ changing.step = "orderbook"
  /\ GenOnChangeEpoch(changing.epoch)
  /\ changing' = [changing EXCEPT !.step = "generator"]
  /\ UNCHANGED <<epoch, changes, epochCurr, epochPrev, networks, bookCurr, bookPrev>>

\* Mutant of ReplaceEpoch: the network of the current epoch is disconnected.
ReplaceEpochDisconnectsCurr ==
  /\ changing.step = "generator"
  /\ networks' = networks \ {epochCurr}
  /\ epochPrev' = epochCurr
  /\ epochCurr' = changing.epoch
  /\ changing' = Unlocked
  /\ UNCHANGED <<genVars, epoch, changes, bookCurr, bookPrev>>

\* Disconnect from the previous epoch, and epochMu.Unlock.
ReplaceEpoch ==
  /\ changing.step = "generator"
  /\ networks' = networks \ {epochPrev}
  /\ epochPrev' = epochCurr
  /\ epochCurr' = changing.epoch
  /\ changing' = Unlocked
  /\ UNCHANGED <<genVars, epoch, changes, bookCurr, bookPrev>>

ChangeStep(e) ==
  \/ NoPod(e) \/ ConnectEpoch(e)
  \/ changing.epoch = e /\ (ChangeGenerator \/ ReplaceEpoch)

EpochNext ==
  \/ GenNext /\ UNCHANGED epochVars
  \/ \E e \in Epochs : SyncEpoch(e) \/ ChangeStep(e)

EpochSpec == EpochInit /\ [][EpochNext]_nodeVars

\* What the goroutines do by themselves: nothing makes notifications arrive, epochs
\* change, the store fail or the node shut down.
NodeStep ==
  \/ (RouterStep \/ \E e \in Epochs : MatrixStep(e)) /\ UNCHANGED epochVars
  \/ \E e \in Epochs : ChangeStep(e)
-----------------------------------------------------------------------------
(* When a goroutine can go on: the guards of NodeStep. *)

RouterCanStep ==
  \/ router.pc = "locking"
  \/ router.pc = "sending" /\ (Routed \/ mat[Head(router.targets)].pc = "select")

MatrixCanStep(e) ==
  \/ mat[e].pc = "inserting" /\ (mat[e].rest = {} \/ e \in closed)
  \/ mat[e].pc = "inserting" /\ e \in merged /\ forward[e] = {} /\ ~done
  \/ mat[e].pc = "select" /\ e \in closed
  \/ mat[e].pc # "none" /\ e \notin merged /\ ~done
  \/ forward[e] # {} /\ ~done

ChangeCanStep ==
  \/ changing = Unlocked /\ changes # {}
  \/ changing.step = "orderbook" /\ MatMuFree
  \/ changing.step = "generator"

NodeCanStep == RouterCanStep \/ ChangeCanStep \/ \E e \in Epochs : MatrixCanStep(e)
-----------------------------------------------------------------------------

\* The variables have their types.
EpochTypeOK ==
  /\ GenTypeOK
  /\ epoch \in Epochs /\ changes \cup networks \subseteq Epochs
  /\ changing \in [epoch : Epochs \cup {None},
                   step : {"unlocked", "orderbook", "generator"}]
  /\ {epochCurr, epochPrev, bookCurr, bookPrev} \subseteq Epochs \cup {None}

\* Between changes the Ome, the orderbook, the generator and the smpcer are in
\* the same two epochs, even if changes overtake each other or a change finds no
\* pod, and during a change an epoch that has a matrix has a network.
EpochsAgree ==
  /\ {curr, prev} \ {None} \subseteq networks
  /\ changing = Unlocked =>
       /\ <<curr, prev>> = <<epochCurr, epochPrev>>
       /\ <<bookCurr, bookPrev>> = <<epochCurr, epochPrev>>
       /\ networks = {epochCurr, epochPrev} \ {None}

\* A change of the epoch that was called is never stuck: gen.OnChangeEpoch waits for
\* the router, the router for a matrix and the matrix for the Ome, which stops
\* receiving when the node shuts down, and still some goroutine can always go on.
ChangesComplete == (changes = {} /\ changing = Unlocked) \/ NodeCanStep
=============================================================================
