------------------------------- MODULE MCNode -------------------------------
(* The parts of a node that no other run is about.  A behaviour runs one of   *)
(* them and the others rest in an initial state, which loses nothing since    *)
(* no two of them share a variable.                                          *)
(*                                                                         *)
(*   epochs   OmeEpoch and Generator: three epochs, a buy and a sell         *)
(*   flow     OmeFlow: channels of length one, one writer                    *)
(*   binder   Binder: two callers, a transaction that is dropped or foreign   *)
(*   crypter  Crypter: two addresses, of which a cache holds one             *)
(*   store    Store: all tables, two records at a time                        *)
(*   swarm    Swarm: three peers in buckets of length one                    *)
EXTENDS OmeEpoch, OmeFlow, Binder, Crypter, Store, Swarm

VARIABLE part

AllDepths == {-1, 1}

allVars == <<part, nodeVars, flowVars, binderVars, crypterVars, storeVars, swarmVars>>

\* One of the initial states of the parts that have several.
Rest ==
  /\ (part = "epochs" /\ own = {}) \/ \A e \in Epochs : stored[e] = {}
  /\ part = "epochs" \/ own = {}
  /\ part = "binder" \/ queues
  /\ part = "crypter" \/ \A addr \in Addrs : keyOf[addr] = Nobody
  /\ part = "swarm" \/ \A peer \in Peers : knows[peer] = {}

NodeInit ==
  /\ part \in {"epochs", "flow", "binder", "crypter", "store", "swarm"}
  /\ EpochInit /\ FlowInit /\ BinderInit /\ CrypterInit /\ StoreInit /\ SwarmInit
  /\ Rest

NodeNext ==
  /\ UNCHANGED part
  /\ \/ /\ part = "epochs" /\ EpochNext
        /\ UNCHANGED <<flowVars, binderVars, crypterVars, storeVars, swarmVars>>
     \/ /\ part = "flow" /\ FlowNext
        /\ UNCHANGED <<nodeVars, binderVars, crypterVars, storeVars, swarmVars>>
     \/ /\ part = "binder" /\ BinderNext
        /\ UNCHANGED <<nodeVars, flowVars, crypterVars, storeVars, swarmVars>>
     \/ /\ part = "crypter" /\ CrypterNext
        /\ UNCHANGED <<nodeVars, flowVars, binderVars, storeVars, swarmVars>>
     \/ /\ part = "store" /\ StoreNext
        /\ UNCHANGED <<nodeVars, flowVars, binderVars, crypterVars, swarmVars>>
     \/ /\ part = "swarm" /\ SwarmNext
        /\ UNCHANGED <<nodeVars, flowVars, binderVars, crypterVars, storeVars>>

NodeSpec == NodeInit /\ [][NodeNext]_allVars

\* The variables of the part that runs have their types; and the parts that may get
\* stuck can take a step where the guards by which this is said hold, and do not meet
\* the bound on nonces.
NodeTypeOK ==
  CASE part = "epochs" -> EpochTypeOK /\ (NodeCanStep => ENABLED NodeStep)
    [] part = "flow" -> FlowTypeOK /\ (OmeCanStep => ENABLED OmeStep)
    [] part = "binder" -> BinderTypeOK /\ NonceLeft /\ (BinderCanStep => ENABLED BinderStep)
    [] part = "crypter" -> CrypterTypeOK
    [] part = "store" -> StoreTypeOK
    [] part = "swarm" -> SwarmTypeOK
=============================================================================
