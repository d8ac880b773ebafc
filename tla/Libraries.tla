----------------------------- MODULE Libraries ------------------------------
(* The libraries that the components of a node are built on, each with        *)
(* variables of its own: streams that are shared (Recycler) and that are       *)
(* channels (ChannelStream), goroutines over an iterator (ForAll), channels of *)
(* errors (ErrorChannels), transactions (Transacter), and the conversions of    *)
(* orders (Fragments).                                                       *)
EXTENDS Naturals, Sequences, FiniteSets

CONSTANTS
  Callers, None,                         \* Recycler
  Openers, Senders, Receivers, Clients,  \* ChannelStream, with None
  MaxNum, CPUs,                          \* ForAll
  Errors, Passing,                       \* ErrorChannels
  Values, GasLimits, GasPrices, MaxTries, MaxCalls, MaxOthers, MaxNonce,  \* Transacter
  Nodes, Needed, Prime, Width, Traded, Depths  \* Fragments

\* Calls are not the nil value, and do one thing each.
ASSUME StreamAssumption ==
  /\ None \notin Callers \cup Openers
  /\ Senders \cap Receivers = {} /\ Openers \cap (Senders \cup Receivers) = {}

ASSUME ForAllAssumption == MaxNum \in Nat /\ CPUs \subseteq Nat \ {0}

\* Errors are told apart by where they come from.
AllErrors == UNION {{Errors[i][j] : j \in DOMAIN Errors[i]} : i \in DOMAIN Errors}
ASSUME ErrorsAssumption ==
  /\ Errors \in Seq(Seq(AllErrors))
  /\ \A i, l \in DOMAIN Errors : \A j \in DOMAIN Errors[i], m \in DOMAIN Errors[l] :
       Errors[i][j] = Errors[l][m] => i = l /\ j = m

\* What traders open: the fields of an order, of which six are numbers.
CoExps == [co : Nat, exp : Nat]
IsOrder(ord) ==
  /\ DOMAIN ord = {"type", "parity", "settlement", "expiry", "tokens", "price", "volume",
                   "minimumVolume", "nonce"}
  /\ ord.tokens \in Nat /\ ord.nonce \in Nat
  /\ {ord.price, ord.volume, ord.minimumVolume} \subseteq CoExps

ASSUME TradingAssumption ==
  /\ IsFiniteSet(Nodes) /\ Needed \in Nat \ {0} /\ Prime \in Nat \ {0} /\ Width \in Nat \ {0}
  /\ \A pair \in Traded : \A o \in {"buy", "sell"} : IsOrder(pair[o])

VARIABLES
  rPc, mu, using, streamsMu, owner, streams, streamsRc, open,
  registered, closed, cPc, readers, writer,
  num, per, counted, fPc, index, wg, next, fCalled,
  left, merging, merged, filtering, filtered, handled, returned, consumed,
  pool, nonce, opts, call, calls, others,
  orders, depth, request, stored, computed, sent, joins, submitted

Recycling == INSTANCE Recycler WITH pc <- rPc
Channels == INSTANCE ChannelStream WITH pc <- cPc
Iterating == INSTANCE ForAll WITH pc <- fPc, i <- index, called <- fCalled
Reporting == INSTANCE ErrorChannels
Transacting == INSTANCE Transacter
Trading == INSTANCE Fragments WITH k <- Needed

recyclerVars == <<rPc, mu, using, streamsMu, owner, streams, streamsRc, open>>
channelVars == <<registered, closed, cPc, readers, writer>>
forallVars == <<num, per, counted, fPc, index, wg, next, fCalled>>
errorVars == <<left, merging, merged, filtering, filtered, handled, returned, consumed>>
transactVars == <<pool, nonce, opts, call, calls, others>>
tradingVars == <<orders, depth, request, stored, computed, sent, joins, submitted>>
libraryVars ==
  <<recyclerVars, channelVars, forallVars, errorVars, transactVars, tradingVars>>

\* No library knows of another one.
LibrarySpec ==
  /\ Recycling!Spec /\ Channels!Spec /\ Iterating!Spec /\ Reporting!Spec
  /\ Transacting!Spec /\ Trading!Spec
-----------------------------------------------------------------------------

\* A stream is not closed under those who use it: not by the recycler before the
\* last reference has gone (Recycler), and not by Close while a Send or a Recv
\* waits on its channel (ChannelStream).  ForAll, CoForAll and CoBegin return when
\* every call has been made and none runs (ForAll), and errors that are merged and
\* filtered arrive once and before the end of the channel (ErrorChannels).  A call
\* of a Transacter submits one transaction, with its own options (Transacter).  And
\* what is settled is what the trader opened, through every conversion (Fragments).
LibrariesSafe ==
  /\ Recycling!OpenWhileUsed /\ Channels!OpenInside
  /\ Iterating!CalledForAll /\ Reporting!ErrorsHandled
  /\ Transacting!TransactedOnce /\ Trading!SettlesTheOrder
=============================================================================
