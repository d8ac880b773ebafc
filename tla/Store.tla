------------------------------- MODULE Store --------------------------------
(***************************************************************************)
(* The tables of leveldb/: one LevelDB instance whose keys are a prefix for   *)
(* the table followed by an epoch and an order, or by an identifier and       *)
(* padding, and the goroutine of cmd/darknode/darknode.go that prunes the     *)
(* tables every hour while the node goes on writing to them.                 *)
(*                                                                         *)
(* A record is its age: what is stored with it does not matter here.  32      *)
(* bytes of a key are one digit, of which FF is the highest.                 *)
(***************************************************************************)
EXTENDS Naturals, Sequences, FiniteSets

CONSTANTS
  IDs,     \* order and computation identifiers: digits below FF
  Hashes,  \* hashes of epochs: digits below FF
  FF,      \* the digit that stands for 32 bytes of 0xFF
  Expiry,  \* expiry of the Store, in ticks
  MaxRecords  \* bound on the records that were put and not deleted

ASSUME StoreAssumption ==
  /\ IDs \subseteq Nat /\ Hashes \subseteq Nat /\ Hashes # {}
  /\ FF \in Nat /\ \A digit \in IDs \cup Hashes : digit < FF
  /\ Expiry \in Nat

\* Prune goes through the tables in this order.
TableOrder == <<"orders", "orderFragments", "computations", "buys", "sells">>
Prefix(table) ==
  CASE table = "orders" -> 1 [] table = "orderFragments" -> 2
    [] table = "pointer" -> 3
    [] table = "computations" -> 16 [] table = "buys" -> 17 [] table = "sells" -> 18
ByEpoch == {"orderFragments", "buys", "sells"}

\* key, buyKey, sellKey: the prefix has two bytes, and padding is zero.
Key(table, epoch, id) ==
  IF table \in ByEpoch THEN <<Prefix(table), 0, epoch, id>> ELSE <<Prefix(table), 0, id, 0>>
PointerKey == Key("pointer", 0, 0)

\* NewSomerComputationTable takes no expiry, and all others the one of the Store.
ExpiryOf(table) == IF table = "computations" THEN 0 ELSE Expiry

\* The order of LevelDB (external).
Less(k, l) == \E i \in DOMAIN k : k[i] < l[i] /\ \A j \in 1 .. i - 1 : k[j] = l[j]

VARIABLES
  db,      \* [keys -> age of the record]
  kept,    \* the same, as it would be without pruning
  pruner,  \* [table, expired]: the index of the table, or 0, and the keys that the
           \* iterator is still to come to and delete
  raced    \* keys that were written while Prune was to delete them

storeVars == <<db, kept, pruner, raced>>

NoPrune == [table |-> 0, expired |-> {}]

StoreInit ==
  /\ db = [k \in {} |-> 0] /\ kept = [k \in {} |-> 0]
  /\ pruner = NoPrune
  /\ raced = {}

Putting(map, k) == [l \in DOMAIN map \cup {k} |-> IF l = k THEN 0 ELSE map[l]]
Dropping(map, k) == [l \in DOMAIN map \ {k} |-> map[l]]
-----------------------------------------------------------------------------

\* The record is written with the time of now, whether there was one or not.
Put(k) ==
  /\ k \in DOMAIN kept \/ Cardinality(DOMAIN kept) < MaxRecords
  /\ db' = Putting(db, k)
  /\ kept' = Putting(kept, k)
  /\ raced' = IF k \in pruner.expired THEN raced \cup {k} ELSE raced \ {k}
  /\ UNCHANGED pruner

\* Deleting a record that is not there changes nothing.
Delete(k) ==
  /\ k \in DOMAIN kept
  /\ db' = Dropping(db, k)
  /\ kept' = Dropping(kept, k)
  /\ raced' = raced \ {k}
  /\ UNCHANGED pruner

(* The tables of leveldb/orderbook.go. *)
PutOrder(id) == Put(Key("orders", 0, id))
DeleteOrder(id) == Delete(Key("orders", 0, id))
PutOrderFragment(epoch, id) == Put(Key("orderFragments", epoch, id))
DeleteOrderFragment(epoch, id) == Delete(Key("orderFragments", epoch, id))
PutPointer == Put(PointerKey)

(* The tables of leveldb/somer.go. *)
PutComputation(id) == Put(Key("computations", 0, id))
DeleteComputation(id) == Delete(Key("computations", 0, id))
PutBuyOrderFragment(epoch, id) == Put(Key("buys", epoch, id))
DeleteBuyOrderFragment(epoch, id) == Delete(Key("buys", epoch, id))
PutSellOrderFragment(epoch, id) == Put(Key("sells", epoch, id))
DeleteSellOrderFragment(epoch, id) == Delete(Key("sells", epoch, id))
-----------------------------------------------------------------------------

\* Mutant of IterRange: the range of the table ends where the next one begins.
IterRangeOver(table, begin, end) ==
  {k \in DOMAIN db : ~Less(k, Key(table, begin, 0)) /\ Less(k, <<Prefix(table) + 1, FF, FF, FF>>)}

\* The keys an iterator finds: over all of a table, or over one epoch.
IterRange(table, begin, end) ==
  {k \in DOMAIN db : ~Less(k, Key(table, begin, 0)) /\ Less(k, Key(table, end, FF))}

\* Cursor takes the ID of an order out of its key, behind the prefix and in front of
\* the padding; fragments and computations carry theirs in the record.
Cursor(k) == k[3]

\* What Collect returns of the iterators.
OrderIDs == {Cursor(k) : k \in IterRange("orders", 0, FF)}
OrderFragments(epoch) == IterRange("orderFragments", epoch, epoch)
Computations == IterRange("computations", 0, FF)
BuyOrderFragments(epoch) == IterRange("buys", epoch, epoch)
SellOrderFragments(epoch) == IterRange("sells", epoch, epoch)

\* Prune of a table: the iterator is a snapshot, and so is the time of now.
PruneTable ==
  /\ pruner.expired = {} /\ pruner.table < Len(TableOrder)
  /\ LET table == TableOrder[pruner.table + 1] IN
     pruner' = [table |-> pruner.table + 1,
                expired |-> {k \in IterRange(table, 0, FF) : db[k] > ExpiryOf(table)}]
  /\ UNCHANGED <<db, kept, raced>>

\* Prune deletes the key of an expired record, whatever the record is by now.
PruneDeletes(k) ==
  /\ k \in pruner.expired
  /\ db' = Dropping(db, k)
  /\ pruner' = [pruner EXCEPT !.expired = @ \ {k}]
  /\ UNCHANGED <<kept, raced>>

\* A record cannot be read or deleted: Prune goes on.
PruneSkips(k) ==
  /\ k \in pruner.expired
  /\ pruner' = [pruner EXCEPT !.expired = @ \ {k}]
  /\ UNCHANGED <<db, kept, raced>>

\* Prune returns, or the node restarts.
PruneEnds ==
  /\ pruner.table > 0
  /\ pruner' = NoPrune
  /\ UNCHANGED <<db, kept, raced>>

\* Time passes; ages beyond the expiry are not told apart.
Older(map) == [k \in DOMAIN map |-> IF map[k] > Expiry THEN map[k] ELSE map[k] + 1]
RecordsAge ==
  /\ db' = Older(db) /\ kept' = Older(kept)
  /\ UNCHANGED <<pruner, raced>>

KeysOf(table) == {Key(table, epoch, id) : epoch \in Hashes, id \in IDs}
Keys == {PointerKey} \cup UNION {KeysOf(TableOrder[i]) : i \in DOMAIN TableOrder}

StoreNext ==
  \/ \E id \in IDs :
       \/ PutOrder(id) \/ DeleteOrder(id) \/ PutComputation(id) \/ DeleteComputation(id)
       \/ \E epoch \in Hashes :
            \/ PutOrderFragment(epoch, id) \/ DeleteOrderFragment(epoch, id)
            \/ PutBuyOrderFragment(epoch, id) \/ DeleteBuyOrderFragment(epoch, id)
            \/ PutSellOrderFragment(epoch, id) \/ DeleteSellOrderFragment(epoch, id)
  \/ PutPointer
  \/ PruneTable \/ PruneEnds \/ RecordsAge
  \/ \E k \in pruner.expired : PruneDeletes(k) \/ PruneSkips(k)

StoreSpec == StoreInit /\ [][StoreNext]_storeVars
-----------------------------------------------------------------------------

\* The variables have their types.
StoreTypeOK ==
  /\ db \in [DOMAIN db -> 0 .. Expiry + 1] /\ DOMAIN db \subseteq Keys
  /\ kept \in [DOMAIN kept -> 0 .. Expiry + 1] /\ DOMAIN kept \subseteq Keys
  /\ pruner \in [table : 0 .. Len(TableOrder), expired : SUBSET Keys]
  /\ raced \subseteq Keys

\* A record lives until it is deleted or expires, and longer only until the next
\* pass: pruning never takes one from another table, one that has not expired, or
\* the pointer.  There are two exceptions: a record that was written again while
\* Prune was on its way to it, and computations, which the next pass deletes at any
\* age.
PruneSparesFresh ==
  /\ DOMAIN db \subseteq DOMAIN kept
  /\ \A k \in DOMAIN kept \ KeysOf("computations") :
       (kept[k] <= Expiry \/ k = PointerKey) /\ k \notin raced => k \in DOMAIN db

\* An iterator over a table or over an epoch of it finds its records and no other,
\* and Collect gives the orders the IDs they were put with.  (An identifier of 32
\* bytes 0xFF would be left out.)
IteratesTable ==
  /\ OrderIDs = {id \in IDs : Key("orders", 0, id) \in DOMAIN db}
  /\ Computations = KeysOf("computations") \cap DOMAIN db
  /\ \A epoch \in Hashes :
       LET Records(table) == {Key(table, epoch, id) : id \in IDs} \cap DOMAIN db IN
       /\ OrderFragments(epoch) = Records("orderFragments")
       /\ BuyOrderFragments(epoch) = Records("buys")
       /\ SellOrderFragments(epoch) = Records("sells")

\* Pruning spares what is fresh, and iterators find what is there.
RecordsKept == PruneSparesFresh /\ IteratesTable
=============================================================================
