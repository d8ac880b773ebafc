------------------------------ MODULE Fragments -----------------------------
(***************************************************************************)
(* The way of the values of an order from the trader to the settlement, with  *)
(* every conversion on it: the order is split into fragments (order/), which   *)
(* are encrypted for a node and sent to it (grpc/orderbook.go), decrypted and  *)
(* stored (leveldb/), paired into a computation, joined with the shares of     *)
(* other nodes (smpc/message.go, smpc/joiner.go) and submitted to the          *)
(* settlement contract (ome/settler.go, contract/binder.go).                  *)
(*                                                                         *)
(* Bytes are sequences of words, each for an integer or an array of bytes.    *)
(* Sharing is symbolic: a share has the secret and what it is a secret of, and *)
(* module Shamir is about the numbers.  A hash, that of the nonce included,    *)
(* is what was hashed.                                                      *)
(***************************************************************************)
EXTENDS Integers, Sequences, FiniteSetsExt

CONSTANTS
  Nodes,   \* of the pod: the indices of their shares
  k,       \* shares needed to join
  Prime,   \* the prime of the finite field
  Width,   \* range of a uint16
  Traded,  \* pairs of orders that traders open: functions from Parities
  Depths   \* epoch depths of fragments

Parities == {"buy", "sell"}
EpochAt(d) == 10 - d  \* hash of the block, d epochs ago
Nothing == <<>>
Garbage == -1
StaleKey == 0  \* of no node

VARIABLES
  orders, depth,  \* what the traders open, and for which epoch; fixed
  request,   \* [Parities \X Nodes -> the OpenOrderRequest on its way, or Nothing]
  stored,    \* [Parities \X Nodes -> the fragment as JSON, or Nothing]
  computed,  \* [Nodes -> the computation as JSON, or Nothing]
  sent,      \* [Nodes -> the message with its Join, or Nothing]
  joins,     \* [Nodes -> the Joins it has]
  submitted  \* [Nodes -> what its transactions tell the contract, or Nothing]

vars == <<orders, depth, request, stored, computed, sent, joins, submitted>>
-----------------------------------------------------------------------------
(* Orders and fragments.  An expiry is seconds and a fraction of one. *)

Unix(expiry) == expiry[1]

\* Order.Hash, of Order.Bytes: the ID of the order.
Hash(ord) ==
  <<ord.type, ord.parity, ord.settlement, Unix(ord.expiry), ord.tokens,
    ord.price, ord.volume, ord.minimumVolume, ord.nonce>>

NewOrder(ord) == [ord EXCEPT !.nonce = @ % Prime]

\* The eight secrets of an order, in the order in which Split splits them.
SecretsOf(ord) ==
  <<ord.tokens, ord.price.co, ord.price.exp, ord.volume.co, ord.volume.exp,
    ord.minimumVolume.co, ord.minimumVolume.exp, ord.nonce>>

\* shamir.Split refuses a threshold above n and secrets outside the field.
Splittable(ord) ==
  Cardinality(Nodes) >= k /\ \A s \in DOMAIN SecretsOf(ord) : SecretsOf(ord)[s] < Prime

Share(ord, s, i) == [index |-> i, value |-> <<SecretsOf(ord)[s], ord.parity, s>>]
CoExpShare(ord, s, i) == [co |-> Share(ord, s, i), exp |-> Share(ord, s + 1, i)]

\* Fragment.Hash, of Fragment.Bytes.
FragmentHash(f) ==
  <<f.type, f.orderID, f.parity, f.settlement, Unix(f.expiry), f.tokens,
    f.price, f.volume, f.minimumVolume, f.nonce>>
NewFragment(f) == [f EXCEPT !.id = FragmentHash(f)]

\* Order.Split: the fragment with index i.  The trader sets the epoch depth.
Split(ord, i) ==
  [NewFragment([orderID |-> Hash(ord), type |-> ord.type, parity |-> ord.parity,
                settlement |-> ord.settlement, expiry |-> ord.expiry,
                id |-> Nothing, epochDepth |-> 0, tokens |-> Share(ord, 1, i),
                price |-> CoExpShare(ord, 2, i), volume |-> CoExpShare(ord, 4, i),
                minimumVolume |-> CoExpShare(ord, 6, i), nonce |-> Share(ord, 8, i)])
    EXCEPT !.epochDepth = depth]
-----------------------------------------------------------------------------
(* Encryption and the request.  Cipher text is the plain text and the key. *)

MarshalBinary(share) == <<share.index, share.value>>
UnmarshalBinary(data) == [index |-> data[1], value |-> data[2]]

Encrypt(share, key) == [key |-> key, plainText |-> MarshalBinary(share)]
Decrypt(cipherText) == UnmarshalBinary(cipherText.plainText)

EncryptCoExp(val, key) == [co |-> Encrypt(val.co, key), exp |-> Encrypt(val.exp, key)]
DecryptCoExp(val) == [co |-> Decrypt(val.co), exp |-> Decrypt(val.exp)]

EncryptFragment(f, key) ==
  [f EXCEPT !.tokens = Encrypt(@, key), !.price = EncryptCoExp(@, key),
            !.volume = EncryptCoExp(@, key), !.minimumVolume = EncryptCoExp(@, key),
            !.nonce = Encrypt(@, key)]
DecryptFragment(f) ==
  [f EXCEPT !.tokens = Decrypt(@), !.price = DecryptCoExp(@), !.volume = DecryptCoExp(@),
            !.minimumVolume = DecryptCoExp(@), !.nonce = Decrypt(@)]

\* In a request the expiry is in seconds.
MarshalEncryptedFragment(f) ==
  [OrderId |-> f.orderID, OrderType |-> f.type, OrderParity |-> f.parity,
   OrderSettlement |-> f.settlement, OrderExpiry |-> Unix(f.expiry),
   Id |-> f.id, EpochDepth |-> f.epochDepth, Tokens |-> f.tokens, Price |-> f.price,
   Volume |-> f.volume, MinimumVolume |-> f.minimumVolume, Nonce |-> f.nonce]

\* Mutant of UnmarshalEncryptedFragment: the volumes are swapped.
UnmarshalEncryptedFragmentSwapped(r) ==
  [orderID |-> r.OrderId, type |-> r.OrderType, parity |-> r.OrderParity,
   settlement |-> r.OrderSettlement, expiry |-> <<r.OrderExpiry, 0>>,
   id |-> r.Id, epochDepth |-> r.EpochDepth, tokens |-> r.Tokens, price |-> r.Price,
   volume |-> r.MinimumVolume, minimumVolume |-> r.Volume, nonce |-> r.Nonce]

UnmarshalEncryptedFragment(r) ==
  [orderID |-> r.OrderId, type |-> r.OrderType, parity |-> r.OrderParity,
   settlement |-> r.OrderSettlement, expiry |-> <<r.OrderExpiry, 0>>,
   id |-> r.Id, epochDepth |-> r.EpochDepth, tokens |-> r.Tokens, price |-> r.Price,
   volume |-> r.Volume, minimumVolume |-> r.MinimumVolume, nonce |-> r.Nonce]
-----------------------------------------------------------------------------
(* JSON, in which fragments and computations are stored. *)

CoExpToJSON(val) == <<MarshalBinary(val.co), MarshalBinary(val.exp)>>
CoExpFromJSON(tuple) ==
  [co |-> UnmarshalBinary(tuple[1]), exp |-> UnmarshalBinary(tuple[2])]

FragmentToJSON(f) ==
  [f EXCEPT !.tokens = MarshalBinary(@), !.price = CoExpToJSON(@),
            !.volume = CoExpToJSON(@), !.minimumVolume = CoExpToJSON(@),
            !.nonce = MarshalBinary(@)]
FragmentFromJSON(f) ==
  [f EXCEPT !.tokens = UnmarshalBinary(@), !.price = CoExpFromJSON(@),
            !.volume = CoExpFromJSON(@), !.minimumVolume = CoExpFromJSON(@),
            !.nonce = UnmarshalBinary(@)]
-----------------------------------------------------------------------------
(* Computations, Joins and messages. *)

NewComputationID(buy, sell, epochDepth) == <<buy, sell, epochDepth>>
NewComputation(epoch, buy, sell) ==
  [id |-> NewComputationID(buy.orderID, sell.orderID, buy.epochDepth),
   buy |-> buy, sell |-> sell, epoch |-> epoch]

SharesOf(f) ==
  <<f.tokens, f.price.co, f.price.exp, f.volume.co, f.volume.exp,
    f.minimumVolume.co, f.minimumVolume.exp, f.nonce>>

\* joinOrderMatch: the Join has the stage behind the ID of the computation.
JoinOrderMatch(com) ==
  [id |-> <<com.id, "settlement">>, index |-> com.buy.tokens.index,
   shares |-> SharesOf(com.buy) \o SharesOf(com.sell)]

MarshalJoin(join) ==
  <<join.id, join.index, Len(join.shares)>>
    \o [w \in 1 .. 2 * Len(join.shares) |->
          MarshalBinary(join.shares[(w + 1) \div 2])[2 - (w % 2)]]

UnmarshalJoin(data) ==
  [id |-> data[1], index |-> data[2],
   shares |-> [s \in 1 .. data[3] |-> UnmarshalBinary(SubSeq(data, 2 * s + 2, 2 * s + 3))]]

MessageTypes == {"join", "joinResponse"}
\* A MessageJoin and a MessageJoinResponse have the same form.
MarshalMessageJoin(networkID, join) == <<networkID>> \o MarshalJoin(join)
UnmarshalMessageJoin(data) == [networkID |-> Head(data), join |-> UnmarshalJoin(Tail(data))]
MarshalMessage(type, networkID, join) == <<type>> \o MarshalMessageJoin(networkID, join)
UnmarshalMessage(data) == [type |-> Head(data), message |-> UnmarshalMessageJoin(Tail(data))]

\* shamir.Join: k shares of one secret give it away, others give some number.
JoinShares(shares) ==
  IF /\ Cardinality({s.value : s \in shares}) = 1
     /\ Cardinality({s.index : s \in shares}) = k
  THEN (CHOOSE s \in shares : TRUE).value[1] ELSE Garbage

\* The callback of joinOrderMatch: an order from eight values and the fragment.
OrderOf(f, values) ==
  NewOrder([type |-> f.type, parity |-> f.parity, settlement |-> f.settlement,
            expiry |-> f.expiry, tokens |-> values[1],
            price |-> [co |-> values[2], exp |-> values[3]],
            volume |-> [co |-> values[4], exp |-> values[5]],
            minimumVolume |-> [co |-> values[6], exp |-> values[7]],
            nonce |-> values[8]])

\* submitOrder: coefficients and exponents are passed on as uint16.
SubmitOrder(ord) ==
  LET Narrow(val) == [co |-> val.co % Width, exp |-> val.exp % Width]
  IN [type |-> ord.type, parity |-> ord.parity, settlement |-> ord.settlement,
      expiry |-> <<Unix(ord.expiry), 0>>, tokens |-> ord.tokens,
      price |-> Narrow(ord.price), volume |-> Narrow(ord.volume),
      minimumVolume |-> Narrow(ord.minimumVolume), nonce |-> ord.nonce]
-----------------------------------------------------------------------------

Init ==
  /\ \E pair \in Traded : orders = [o \in Parities |-> NewOrder(pair[o])]
  /\ depth \in Depths
  /\ request = [at \in Parities \X Nodes |-> Nothing]
  /\ stored = [at \in Parities \X Nodes |-> Nothing]
  /\ computed = [i \in Nodes |-> Nothing] /\ sent = [i \in Nodes |-> Nothing]
  /\ joins = [i \in Nodes |-> {}] /\ submitted = [i \in Nodes |-> Nothing]

\* The trader sends a fragment, also again; the key may be one the node no longer has.
SendFragment(o, i, key) ==
  /\ Splittable(orders[o]) /\ request[<<o, i>>] = Nothing /\ stored[<<o, i>>] = Nothing
  /\ request' = [request EXCEPT ![<<o, i>>] =
       MarshalEncryptedFragment(EncryptFragment(Split(orders[o], i), key))]
  /\ UNCHANGED <<orders, depth, stored, computed, sent, joins, submitted>>

\* OpenOrder of the service: the fragment is decrypted and stored, or, with another
\* key, refused.
OpenOrder(o, i) ==
  /\ request[<<o, i>>] # Nothing
  /\ LET f == UnmarshalEncryptedFragment(request[<<o, i>>]) IN
     stored' = IF f.tokens.key = i
               THEN [stored EXCEPT ![<<o, i>>] = FragmentToJSON(DecryptFragment(f))]
               ELSE stored
  /\ request' = [request EXCEPT ![<<o, i>>] = Nothing]
  /\ UNCHANGED <<orders, depth, computed, sent, joins, submitted>>

\* Both fragments are loaded, and the computation is stored.
Compute(i) ==
  /\ computed[i] = Nothing /\ \A o \in Parities : stored[<<o, i>>] # Nothing
  /\ LET com == NewComputation(EpochAt(depth), FragmentFromJSON(stored[<<"buy", i>>]),
                               FragmentFromJSON(stored[<<"sell", i>>])) IN
     computed' = [computed EXCEPT ![i] =
       [com EXCEPT !.buy = FragmentToJSON(@), !.sell = FragmentToJSON(@)]]
  /\ UNCHANGED <<orders, depth, request, stored, sent, joins, submitted>>

Loaded(i) ==
  [computed[i] EXCEPT !.buy = FragmentFromJSON(@), !.sell = FragmentFromJSON(@)]

\* Settle: the Join is inserted and sent to the others, as a Join or as a response.
Settle(i, type) ==
  /\ computed[i] # Nothing /\ sent[i] = Nothing
  /\ LET com == Loaded(i)
         join == JoinOrderMatch(com) IN
     /\ joins' = [joins EXCEPT ![i] = @ \cup {join}]
     /\ sent' = [sent EXCEPT ![i] = MarshalMessage(type, com.epoch, join)]
  /\ UNCHANGED <<orders, depth, request, stored, computed, submitted>>

\* Node i receives the message of node j.
Receive(i, j) ==
  /\ i # j /\ sent[j] # Nothing
  /\ LET received == UnmarshalMessage(sent[j]) IN
     /\ received.type \in MessageTypes /\ received.message.networkID = EpochAt(depth)
     /\ joins' = [joins EXCEPT ![i] = @ \cup {received.message.join}]
  /\ UNCHANGED <<orders, depth, request, stored, computed, sent, submitted>>

\* The Joiner has k Joins of the ID, takes any k of them, and calls back.
Reconstruct(i, taken) ==
  /\ sent[i] # Nothing /\ submitted[i] = Nothing
  /\ LET com == Loaded(i)
         values == [s \in 1 .. 16 |-> JoinShares({join.shares[s] : join \in taken})]
     IN /\ \A join \in taken : join.id = JoinOrderMatch(com).id
        /\ submitted' = [submitted EXCEPT ![i] =
             [buy |-> SubmitOrder(OrderOf(com.buy, SubSeq(values, 1, 8))),
              sell |-> SubmitOrder(OrderOf(com.sell, SubSeq(values, 9, 16)))]]
  /\ UNCHANGED <<orders, depth, request, stored, computed, sent, joins>>

Next ==
  \E i \in Nodes :
    \/ \E o \in Parities :
         OpenOrder(o, i) \/ \E key \in {i, StaleKey} : SendFragment(o, i, key)
    \/ Compute(i)
    \/ \E type \in MessageTypes : Settle(i, type)
    \/ \E j \in Nodes : Receive(i, j)
    \/ \E taken \in kSubset(k, joins[i]) : Reconstruct(i, taken)

Spec == Init /\ [][Next]_vars
-----------------------------------------------------------------------------

\* "restricted to the range" of value.go, of which the contract has 16 bits.
InRange(ord) ==
  \A val \in {ord.price, ord.volume, ord.minimumVolume} : val.co < Width /\ val.exp < Width

\* Whichever nodes' shares are joined, what a node submits to the settlement contract
\* hashes to the ID under which the trader opened the order, which is how the contract
\* knows it: no conversion on the way loses, swaps or misplaces a value.
SettlesTheOrder ==
  \A i \in Nodes : submitted[i] # Nothing =>
    \A o \in Parities :
      InRange(orders[o]) => Hash(submitted[i][o]) = Hash(orders[o])
=============================================================================
