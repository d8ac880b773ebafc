------------------------------- MODULE MCLive -------------------------------
(* What must eventually happen in the parts of a node.  A behaviour runs one  *)
(* part and the others rest in an initial state, which loses nothing since   *)
(* no two of them share a variable.                                          *)
(*                                                                         *)
(*   smpc       Smpc: two nodes, a link that breaks and a node that leaves    *)
(*   book       Orderbook: three orders, resynchronised one at a time        *)
(*   confirmer  Confirmer: one Computation, and every call may fail          *)
(*   stream     Stream: four streams, one that breaks or a failed call      *)
(*   pods       Pods: up to five darknodes                                   *)
(*   matcher    Matcher: two nodes, and orders with values from all of the     *)
(*              documented range of a coefficient                            *)
EXTENDS Matcher, Stream, Pods

CONSTANT NoOrder

VARIABLES
  part,
  phase, joiners, senders, links, sBreaks, selfJoins, joining, sending, wire, responding,
  called, exchanges,
  bStatus, opened, aged, epoch, aggCurr, aggPrev, pointer, orderStore, fragmentStore,
  resyncPointer, sync, requests, opens, closes, crashes,
  status, matchOf, deep, coms, submit, confirming, confirmed, poll, errs, confirmations,
  settling, cStored, done, hours, outputs

S == INSTANCE Smpc WITH
  Nodes <- {"n1", "n2"}, k <- 2, JoinIDs <- {"id1"}, MaxJoinLength <- 16,
  NilCallback <- "nil", NewCallback <- "callback", Disconnecting <- {"n1"}, MaxBreaks <- 1,
  breaks <- sBreaks

O == INSTANCE Orderbook WITH
  Orders <- {1, 2, 3}, Fragments <- {}, Ageing <- {}, Closings <- {"confirmed"}, Limit <- 1,
  MaxEpoch <- 2, MaxCrashes <- 1, RequestsMayEnd <- FALSE, CallsMayFail <- FALSE,
  status <- bStatus

C == INSTANCE Confirmer WITH
  Buys <- {"b1"}, Sells <- {"s1"}, SubmitMayFail <- TRUE, ContractMayFail <- TRUE,
  StoreMayFail <- TRUE, ConfirmationsCap <- 1, MaxHours <- 0,
  stored <- cStored

smpcVars == <<phase, joiners, senders, links, sBreaks, selfJoins, joining, sending, wire,
              responding, called, exchanges>>
bookVars == <<bStatus, opened, aged, epoch, aggCurr, aggPrev, pointer, orderStore,
              fragmentStore, resyncPointer, sync, requests, opens, closes, crashes>>
confirmerVars == <<status, matchOf, deep, coms, submit, confirming, confirmed, poll, errs,
                   confirmations, settling, cStored, done, hours, outputs>>
allVars == <<part, smpcVars, bookVars, confirmerVars, streamVars, podsVars, vars>>

\* The ends of the range of a coefficient, of which 1999 with the exponent 0 is a greater
\* number than 1 with the exponent 1.
Low == [co |-> 1, exp |-> 0]
High == [co |-> 1999, exp |-> 0]
Ten == [co |-> 1, exp |-> 1]
Ends == {Low, High, Ten}

\* A value that has to be at least as large as another, and the other: their exponents or
\* their coefficients differ in either direction, or neither.
Comparisons == {<<Low, Low>>, <<High, Low>>, <<Low, High>>,
                <<Ten, Low>>, <<Ten, High>>, <<High, Ten>>}

\* A sell against a buy with settlement 1 and tokens 1, by how the prices compare, the
\* volume of the buy and the minimum of the sell, and the volume of the sell and the
\* minimum of the buy.
Against(settlement, tokens, price, buyVolume, sellVolume) ==
  [buy  |-> [settlement |-> 1, tokens |-> 1, price |-> price[1],
             volume |-> buyVolume[1], minimumVolume |-> sellVolume[2]],
   sell |-> [settlement |-> settlement, tokens |-> tokens, price |-> price[2],
             volume |-> sellVolume[1], minimumVolume |-> buyVolume[2]]]

\* Any comparison of the prices with any of one volume, the other being alike or equal; and
\* with equal prices other tokens or another settlement.
Computations ==
  LET Volumes == {<<c, d>> \in Comparisons \X Comparisons : c = d \/ <<Low, Low>> \in {c, d}}
      Terms == {<<1, 1>>, <<1, 2>>, <<2, 1>>}
  IN  {Against(1, 1, price, v[1], v[2]) : price \in Comparisons, v \in Volumes}
        \cup {Against(t[1], t[2], <<Low, Low>>, v[1], v[2]) : t \in Terms, v \in Volumes}

\* A part that rests is in one of its initial states, and there is one Computation for the
\* Confirmer: MCConfirmer has several.
LiveInit ==
  /\ part \in {"smpc", "book", "confirmer", "stream", "pods", "matcher"}
  /\ S!Init /\ O!Init /\ StreamInit
  /\ C!Init /\ deep = {}
  /\ IF part = "confirmer" THEN Cardinality(coms) = 1
     ELSE coms = {} /\ \A c \in DOMAIN cStored : cStored[c] = "none"
  /\ PodsInit /\ (part = "pods" \/ input = [darknodes |-> 1, size |-> 1, epochVal |-> 0])
  /\ com \in (IF part = "matcher" THEN Computations ELSE {CHOOSE c \in Computations : TRUE})
  /\ Init

\* One stream breaks, or one call fails; after that a second fault only makes the client
\* fail to reconnect.
OneFault == breaks' + failures' <= 1 \/ client' \in {"backoff", "panicked", "ended"}

LiveNext ==
  /\ UNCHANGED part
  /\ \/ /\ part = "smpc" /\ S!Next
        /\ UNCHANGED <<bookVars, confirmerVars, streamVars, podsVars, vars>>
     \/ /\ part = "book" /\ O!Next
        /\ UNCHANGED <<smpcVars, confirmerVars, streamVars, podsVars, vars>>
     \/ /\ part = "confirmer" /\ C!Next
        /\ UNCHANGED <<smpcVars, bookVars, streamVars, podsVars, vars>>
     \/ /\ part = "stream" /\ StreamNext /\ OneFault
        /\ UNCHANGED <<smpcVars, bookVars, confirmerVars, podsVars, vars>>
     \/ /\ part = "pods" /\ PodsNext
        /\ UNCHANGED <<smpcVars, bookVars, confirmerVars, streamVars, vars>>
     \/ /\ part = "matcher" /\ Next
        /\ UNCHANGED <<smpcVars, bookVars, confirmerVars, streamVars, podsVars>>

\* The fairness of each part, for the part that runs: a stream and pods go on while
\* they can, and Listen is called in the end; a stage that enough nodes have joined calls
\* back (JoinSucceeds).
LiveFairness ==
  /\ WF_smpcVars(part = "smpc" /\ S!Progress)
  /\ WF_bookVars(part = "book" /\ O!SyncStep)
  /\ \A o \in {"b1", "s1"} : WF_confirmerVars(part = "confirmer" /\ C!Deepen(o))
  /\ WF_confirmerVars(part = "confirmer" /\ C!Submits)
  /\ SF_confirmerVars(part = "confirmer" /\ C!WatchOrders)
  /\ WF_confirmerVars(part = "confirmer" /\ C!Polls)
  /\ SF_confirmerVars(part = "confirmer" /\ C!PollReturns)
  /\ WF_confirmerVars(part = "confirmer" /\ ~done /\ C!ForwardError)
  /\ WF_confirmerVars(part = "confirmer" /\ ~done /\ C!Settle)
  /\ WF_streamVars(part = "stream" /\ StreamStep)
  /\ WF_streamVars(part = "stream" /\ Listen)
  /\ WF_podsVars(part = "pods" /\ PodsStep)
  /\ \A n \in Nodes : WF_vars(part = "matcher" /\ ResolveValues(n))

LiveSpec == LiveInit /\ [][LiveNext]_allVars /\ LiveFairness
-----------------------------------------------------------------------------

\* The variables of the parts that no other run is about have their types.
LiveTypeOK == StreamTypeOK /\ PodsTypeOK /\ TypeOK

\* A node whose Join was not refused and that can exchange with enough of the
\* others gets its callback called (Smpc).
JoinSucceeds == S!JoinSucceeds

\* A stored order that is closed is removed, and notified unless the node crashed
\* (Orderbook).
ClosedIsRemoved == O!ClosedIsRemoved

\* A pair that is watched and confirmed on the contract is output, unless the
\* Confirmer is shut down or reports an error (Confirmer).
WatchedIsOutput == C!WatchedIsOutput

\* Once done is closed both goroutines of the Confirmer return (Confirmer).
ShutdownCompletes == C!ShutdownCompletes

\* However streams break and messages are malformed, the client comes to hold a live
\* stream for good, with a handler that reads it and no other handler left behind; when
\* it disconnects all goroutines on both sides return.  Unless two handlers were between
\* inject and the registration of done at the same time, the server then has the stream
\* and its secret too, so that messages get through in both directions (Stream).
StreamHeals ==
  /\ <>[](part = "stream" => Healed(Attached))
  /\ [](part = "stream" => ~Overtaking) => <>[](part = "stream" => Healed(Reaches))

\* The search for free positions ends and divides the darknodes, unless one of them
\* deregisters while it runs (Pods).
PodsFormed == <>[](part = "pods" => Formed)
=============================================================================
