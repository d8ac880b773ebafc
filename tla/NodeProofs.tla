----------------------------- MODULE NodeProofs -----------------------------
(***************************************************************************)
(* Proofs about Store.tla, Swarm.tla, Crypter.tla, Binder.tla and Pods.tla,    *)
(* the parts of a node that share no variable with another: for any           *)
(* identifiers, epochs and expiry, any addresses and length of a bucket, any   *)
(* limit and period of a cache, any number of goroutines and calls of the      *)
(* contract, any bound on retries, whatever the chain and the other users of   *)
(* the account do, and any number of darknodes and size of a pod.              *)
(***************************************************************************)
EXTENDS Store, Swarm, Crypter, Binder, Pods, SequenceTheorems, FiniteSetTheorems,
        WellFoundedInduction, TLAPS
-----------------------------------------------------------------------------
(* Store: keys and their order. *)

\* The order of LevelDB on keys, of which the second digit is always zero.
LEMMA LessKeys ==
  ASSUME NEW q \in Nat, NEW x \in Nat, NEW y \in Nat, NEW p \in Nat, NEW l \in Nat, NEW m \in Nat
  PROVE  Less(<<q, 0, x, y>>, <<p, 0, l, m>>)
           <=> q < p \/ (q = p /\ (x < l \/ (x = l /\ y < m)))
<1> DEFINE left == <<q, 0, x, y>>
           right == <<p, 0, l, m>>
           At(i) == left[i] < right[i] /\ \A j \in 1 .. i - 1 : left[j] = right[j]
<1>1. Less(left, right) <=> \E i \in 1 .. 4 : At(i)
  BY DEF Less
<1>2. (At(1) <=> q < p) /\ ~At(2)
  OBVIOUS
<1>3. At(3) <=> q = p /\ x < l
  <2>1. \A j \in 1 .. 2 : j = 1 \/ j = 2
    OBVIOUS
  <2> QED BY <2>1
<1>4. At(4) <=> q = p /\ x = l /\ y < m
  <2>1. \A j \in 1 .. 3 : j = 1 \/ j = 2 \/ j = 3
    OBVIOUS
  <2> QED BY <2>1
<1> HIDE DEF At
<1>5. (\E i \in 1 .. 4 : At(i)) <=> At(1) \/ At(2) \/ At(3) \/ At(4)
  <2>1. \A i \in 1 .. 4 : i = 1 \/ i = 2 \/ i = 3 \/ i = 4
    OBVIOUS
  <2> QED BY <2>1
<1> QED BY <1>1, <1>2, <1>3, <1>4, <1>5

\* The keys of the tables, digit by digit.
LEMMA KeyDigits ==
  ASSUME NEW epoch, NEW id
  PROVE  /\ Key("orders", epoch, id) = <<1, 0, id, 0>>
         /\ Key("orderFragments", epoch, id) = <<2, 0, epoch, id>>
         /\ Key("computations", epoch, id) = <<16, 0, id, 0>>
         /\ Key("buys", epoch, id) = <<17, 0, epoch, id>>
         /\ Key("sells", epoch, id) = <<18, 0, epoch, id>>
         /\ PointerKey = <<3, 0, 0, 0>>
BY DEF Key, PointerKey, Prefix, ByEpoch

\* Which keys the tables have.
LEMMA KeysOfTables ==
  /\ KeysOf("orders") = {<<1, 0, id, 0>> : id \in IDs}
  /\ KeysOf("orderFragments") = {<<2, 0, epoch, id>> : epoch \in Hashes, id \in IDs}
  /\ KeysOf("computations") = {<<16, 0, id, 0>> : id \in IDs}
  /\ KeysOf("buys") = {<<17, 0, epoch, id>> : epoch \in Hashes, id \in IDs}
  /\ KeysOf("sells") = {<<18, 0, epoch, id>> : epoch \in Hashes, id \in IDs}
<1>1. PICK hash \in Hashes : TRUE
  BY StoreAssumption
<1>2. KeysOf("orders") = {<<1, 0, id, 0>> : id \in IDs}
  BY <1>1, KeyDigits DEF KeysOf
<1>3. KeysOf("orderFragments") = {<<2, 0, epoch, id>> : epoch \in Hashes, id \in IDs}
  BY KeyDigits DEF KeysOf
<1>4. KeysOf("computations") = {<<16, 0, id, 0>> : id \in IDs}
  BY <1>1, KeyDigits DEF KeysOf
<1>5. KeysOf("buys") = {<<17, 0, epoch, id>> : epoch \in Hashes, id \in IDs}
  BY KeyDigits DEF KeysOf
<1>6. KeysOf("sells") = {<<18, 0, epoch, id>> : epoch \in Hashes, id \in IDs}
  BY KeyDigits DEF KeysOf
<1> QED BY <1>2, <1>3, <1>4, <1>5, <1>6

Tables == {"orders", "orderFragments", "computations", "buys", "sells"}

\* The tables that Prune goes through.
LEMMA TablesInOrder ==
  /\ Len(TableOrder) = 5
  /\ \A i \in 1 .. 5 : TableOrder[i] \in Tables
  /\ \A table \in Tables : \E i \in 1 .. 5 : TableOrder[i] = table
<1>1. Len(TableOrder) = 5
  BY DEF TableOrder
<1>2. \A i \in 1 .. 5 : TableOrder[i] \in Tables
  <2>1. \A i \in 1 .. 5 : i = 1 \/ i = 2 \/ i = 3 \/ i = 4 \/ i = 5
    OBVIOUS
  <2> QED BY <2>1 DEF TableOrder, Tables
<1>3. \A table \in Tables : \E i \in 1 .. 5 : TableOrder[i] = table
  <2>1. /\ TableOrder[1] = "orders" /\ TableOrder[2] = "orderFragments"
        /\ TableOrder[3] = "computations" /\ TableOrder[4] = "buys" /\ TableOrder[5] = "sells"
    BY DEF TableOrder
  <2> QED BY <2>1 DEF Tables
<1> QED BY <1>1, <1>2, <1>3

\* A key of the database is one of a table, or the pointer.
LEMMA KeysSplit ==
  Keys = KeysOf("orders") \cup KeysOf("orderFragments") \cup KeysOf("computations")
           \cup KeysOf("buys") \cup KeysOf("sells") \cup {PointerKey}
<1>1. DOMAIN TableOrder = 1 .. 5
  BY DEF TableOrder
<1>2. \A k : k \in Keys <=> k = PointerKey \/ \E table \in Tables : k \in KeysOf(table)
  <2>1. \A k : k \in Keys <=> k = PointerKey \/ \E i \in 1 .. 5 : k \in KeysOf(TableOrder[i])
    <3> DEFINE All == UNION {KeysOf(TableOrder[i]) : i \in DOMAIN TableOrder}
    <3>1. Keys = All \cup {PointerKey}
      BY DEF Keys
    <3>2. \A k : k \in All <=> \E i \in DOMAIN TableOrder : k \in KeysOf(TableOrder[i])
      BY Zenon
    <3> HIDE DEF All
    <3> QED BY <1>1, <3>1, <3>2
  <2> QED BY <2>1, TablesInOrder
<1> QED BY <1>2 DEF Tables

\* The digits of the keys are naturals, below FF where they name an epoch or an order.
LEMMA Digits ==
  /\ \A id \in IDs : id \in Nat /\ id < FF
  /\ \A epoch \in Hashes : epoch \in Nat /\ epoch < FF
  /\ FF \in Nat
BY StoreAssumption

\* A range of keys that starts with the prefix of a table, at a digit and to a digit
\* with nothing behind them: orders and computations.
LEMMA FlatRange ==
  ASSUME NEW p \in {1, 16}, NEW k \in Keys
  PROVE  ~Less(k, <<p, 0, 0, 0>>) /\ Less(k, <<p, 0, FF, 0>>) <=> \E id \in IDs : k = <<p, 0, id, 0>>
<1>1. ASSUME NEW q \in Nat, NEW x \in Nat, NEW y \in Nat, k = <<q, 0, x, y>>
      PROVE  ~Less(k, <<p, 0, 0, 0>>) /\ Less(k, <<p, 0, FF, 0>>) <=> q = p /\ x < FF
  <2>1. p \in Nat /\ FF \in Nat
    BY Digits
  <2>2. /\ Less(k, <<p, 0, 0, 0>>) <=> q < p \/ (q = p /\ (x < 0 \/ (x = 0 /\ y < 0)))
        /\ Less(k, <<p, 0, FF, 0>>) <=> q < p \/ (q = p /\ (x < FF \/ (x = FF /\ y < 0)))
    BY <1>1, <2>1, LessKeys
  <2> QED BY <1>1, <2>1, <2>2
<1>2. CASE k \in KeysOf("orders")
  BY <1>1, <1>2, KeysOfTables, Digits
<1>3. CASE k \in KeysOf("orderFragments")
  BY <1>1, <1>3, KeysOfTables, Digits
<1>4. CASE k \in KeysOf("computations")
  BY <1>1, <1>4, KeysOfTables, Digits
<1>5. CASE k \in KeysOf("buys")
  BY <1>1, <1>5, KeysOfTables, Digits
<1>6. CASE k \in KeysOf("sells")
  BY <1>1, <1>6, KeysOfTables, Digits
<1>7. CASE k = PointerKey
  BY <1>1, <1>7, KeyDigits, Digits
<1> QED BY <1>2, <1>3, <1>4, <1>5, <1>6, <1>7, KeysSplit

\* The prefixes of the tables that are ordered by epoch.
EpochPrefixes == {2, 17, 18}

\* The key is in the range from begin to end of the table with the prefix.
Between(k, p, begin, end) == ~Less(k, <<p, 0, begin, 0>>) /\ Less(k, <<p, 0, end, FF>>)

\* A range over epochs of a table.
LEMMA EpochRange ==
  ASSUME NEW p \in EpochPrefixes, NEW begin \in Nat, NEW end \in Nat, NEW k \in Keys
  PROVE  Between(k, p, begin, end) <=>
           \E epoch \in Hashes, id \in IDs :
             k = <<p, 0, epoch, id>> /\ begin <= epoch /\ epoch <= end
<1> USE DEF EpochPrefixes, Between
<1>1. ASSUME NEW q \in Nat, NEW x \in Nat, NEW y \in Nat, y < FF, k = <<q, 0, x, y>>
      PROVE  ~Less(k, <<p, 0, begin, 0>>) /\ Less(k, <<p, 0, end, FF>>)
               <=> q = p /\ begin <= x /\ x <= end
  <2>1. p \in Nat /\ FF \in Nat
    BY Digits
  <2>2. /\ Less(k, <<p, 0, begin, 0>>) <=> q < p \/ (q = p /\ (x < begin \/ (x = begin /\ y < 0)))
        /\ Less(k, <<p, 0, end, FF>>) <=> q < p \/ (q = p /\ (x < end \/ (x = end /\ y < FF)))
    BY <1>1, <2>1, LessKeys
  <2> QED BY <1>1, <2>1, <2>2
<1>2. CASE k \in KeysOf("orders")
  BY <1>1, <1>2, KeysOfTables, Digits
<1>3. CASE k \in KeysOf("orderFragments")
  BY <1>1, <1>3, KeysOfTables, Digits
<1>4. CASE k \in KeysOf("computations")
  BY <1>1, <1>4, KeysOfTables, Digits
<1>5. CASE k \in KeysOf("buys")
  BY <1>1, <1>5, KeysOfTables, Digits
<1>6. CASE k \in KeysOf("sells")
  BY <1>1, <1>6, KeysOfTables, Digits
<1>7. CASE k = PointerKey
  <2>1. PICK hash \in Hashes : hash \in Nat /\ hash < FF
    BY StoreAssumption
  <2>2. FF > 0
    BY <2>1, Digits
  <2> QED BY <1>1, <1>7, <2>2, KeyDigits, Digits
<1> QED BY <1>2, <1>3, <1>4, <1>5, <1>6, <1>7, KeysSplit

\* An iterator over a whole table finds the keys of the table, ...
LEMMA TableIterated ==
  ASSUME DOMAIN db \subseteq Keys, NEW table \in Tables
  PROVE  IterRange(table, 0, FF) = KeysOf(table) \cap DOMAIN db
<1>1. 0 \in Nat /\ FF \in Nat
  BY Digits
<1>2. CASE table = "orders"
  BY <1>2, FlatRange, KeyDigits, KeysOfTables DEF IterRange
<1>3. CASE table = "computations"
  BY <1>3, FlatRange, KeyDigits, KeysOfTables DEF IterRange
<1>4. ASSUME NEW p \in EpochPrefixes, NEW k \in Keys
      PROVE  Between(k, p, 0, FF)
               <=> \E epoch \in Hashes, id \in IDs : k = <<p, 0, epoch, id>>
  <2>1. Between(k, p, 0, FF) <=>
           \E epoch \in Hashes, id \in IDs : k = <<p, 0, epoch, id>> /\ 0 <= epoch /\ epoch <= FF
    BY <1>1, EpochRange
  <2> QED BY <2>1, Digits
<1>5. CASE table = "orderFragments"
  BY <1>4, <1>5, KeyDigits, KeysOfTables DEF IterRange, EpochPrefixes, Between
<1>6. CASE table = "buys"
  BY <1>4, <1>6, KeyDigits, KeysOfTables DEF IterRange, EpochPrefixes, Between
<1>7. CASE table = "sells"
  BY <1>4, <1>7, KeyDigits, KeysOfTables DEF IterRange, EpochPrefixes, Between
<1> QED BY <1>2, <1>3, <1>5, <1>6, <1>7 DEF Tables

\* ... and one over an epoch those of the epoch.
LEMMA EpochIterated ==
  ASSUME DOMAIN db \subseteq Keys, NEW table \in ByEpoch, NEW epoch \in Hashes
  PROVE  IterRange(table, epoch, epoch) = {Key(table, epoch, id) : id \in IDs} \cap DOMAIN db
<1>1. epoch \in Nat /\ epoch < FF
  BY Digits
<1>2. ASSUME NEW p \in EpochPrefixes, NEW k \in Keys
      PROVE  Between(k, p, epoch, epoch)
               <=> \E id \in IDs : k = <<p, 0, epoch, id>>
  <2>1. Between(k, p, epoch, epoch) <=>
           \E e \in Hashes, id \in IDs : k = <<p, 0, e, id>> /\ epoch <= e /\ e <= epoch
    <3>1. epoch \in Nat
      BY <1>1
    <3>2. \A begin, end \in Nat : Between(k, p, begin, end) <=>
            \E e \in Hashes, id \in IDs : k = <<p, 0, e, id>> /\ begin <= e /\ e <= end
      BY EpochRange
    <3> QED BY <3>1, <3>2, Zenon
  <2>2. ASSUME NEW e \in Hashes PROVE epoch <= e /\ e <= epoch <=> e = epoch
    <3>1. e \in Nat
      BY Digits
    <3> QED BY <1>1, <3>1
  <2> QED BY <2>1, <2>2
<1>3. ASSUME NEW p \in EpochPrefixes,
             \A id : Key(table, epoch, id) = <<p, 0, epoch, id>>
      PROVE  IterRange(table, epoch, epoch) = {Key(table, epoch, id) : id \in IDs} \cap DOMAIN db
  <2>1. IterRange(table, epoch, epoch)
          = {k \in DOMAIN db : Between(k, p, epoch, epoch)}
    BY <1>3, Zenon DEF IterRange, Between
  <2>2. {Key(table, epoch, id) : id \in IDs} = {<<p, 0, epoch, id>> : id \in IDs}
    BY <1>3
  <2> QED BY <1>2, <2>1, <2>2
<1>4. \E p \in EpochPrefixes : \A id : Key(table, epoch, id) = <<p, 0, epoch, id>>
  BY KeyDigits DEF ByEpoch, EpochPrefixes
<1> QED BY <1>3, <1>4

\* So every iterator finds what it should.
LEMMA IteratorsSound == StoreTypeOK => IteratesTable
<1> SUFFICES ASSUME StoreTypeOK PROVE IteratesTable
  OBVIOUS
<1>1. DOMAIN db \subseteq Keys
  BY DEF StoreTypeOK
<1>2. OrderIDs = {id \in IDs : Key("orders", 0, id) \in DOMAIN db}
  <2>1. IterRange("orders", 0, FF) = {<<1, 0, id, 0>> : id \in IDs} \cap DOMAIN db
    BY <1>1, TableIterated, KeysOfTables DEF Tables
  <2>2. \A id : Cursor(<<1, 0, id, 0>>) = id
    BY DEF Cursor
  <2> QED BY <2>1, <2>2, KeyDigits DEF OrderIDs
<1>3. Computations = KeysOf("computations") \cap DOMAIN db
  BY <1>1, TableIterated DEF Tables, Computations
<1>4. ASSUME NEW epoch \in Hashes
      PROVE  /\ OrderFragments(epoch) = {Key("orderFragments", epoch, id) : id \in IDs} \cap DOMAIN db
             /\ BuyOrderFragments(epoch) = {Key("buys", epoch, id) : id \in IDs} \cap DOMAIN db
             /\ SellOrderFragments(epoch) = {Key("sells", epoch, id) : id \in IDs} \cap DOMAIN db
  BY <1>1, EpochIterated DEF ByEpoch, OrderFragments, BuyOrderFragments, SellOrderFragments
<1> QED BY <1>2, <1>3, <1>4 DEF IteratesTable
-----------------------------------------------------------------------------
(* Store: pruning. *)

\* What Prune is about to delete has expired, unless it was written again or deleted
\* on the way, or is a computation; the pointer is never among it.
ExpiredInv ==
  \A k \in pruner.expired :
    /\ k # PointerKey
    /\ k \in DOMAIN kept /\ k \notin raced /\ k \notin KeysOf("computations") => kept[k] > Expiry

\* The database is a part of what it would be without pruning.
AgesAgree == \A k \in DOMAIN db : k \in DOMAIN kept /\ db[k] = kept[k]

\* The inductive invariant of the Store.
StoreIInv == StoreTypeOK /\ AgesAgree /\ ExpiredInv /\ PruneSparesFresh

\* A record is written.
LEMMA PutKeeps ==
  ASSUME StoreIInv, NEW k \in Keys, Put(k)
  PROVE  StoreIInv'
<1>1. /\ db' = Putting(db, k) /\ kept' = Putting(kept, k) /\ UNCHANGED pruner
      /\ raced' = IF k \in pruner.expired THEN raced \cup {k} ELSE raced \ {k}
  BY DEF Put
<1>2. /\ DOMAIN db' = DOMAIN db \cup {k} /\ DOMAIN kept' = DOMAIN kept \cup {k}
      /\ \A l \in DOMAIN db' : db'[l] = IF l = k THEN 0 ELSE db[l]
      /\ \A l \in DOMAIN kept' : kept'[l] = IF l = k THEN 0 ELSE kept[l]
  BY <1>1 DEF Putting
<1>3. StoreTypeOK'
  <2>1. 0 \in 0 .. Expiry + 1
    BY StoreAssumption
  <2>2. db' \in [DOMAIN db' -> 0 .. Expiry + 1] /\ kept' \in [DOMAIN kept' -> 0 .. Expiry + 1]
    BY <1>1, <2>1 DEF Putting, StoreIInv, StoreTypeOK
  <2> QED BY <1>1, <1>2, <2>2 DEF StoreIInv, StoreTypeOK
<1>4. AgesAgree'
  BY <1>2 DEF StoreIInv, AgesAgree
<1>5. ExpiredInv'
  BY <1>1, <1>2 DEF StoreIInv, ExpiredInv
<1>6. PruneSparesFresh'
  BY <1>1, <1>2 DEF StoreIInv, PruneSparesFresh
<1> QED BY <1>3, <1>4, <1>5, <1>6 DEF StoreIInv

\* A record is deleted.
LEMMA DeleteKeeps ==
  ASSUME StoreIInv, NEW k, Delete(k)
  PROVE  StoreIInv'
<1>1. /\ db' = Dropping(db, k) /\ kept' = Dropping(kept, k) /\ UNCHANGED pruner
      /\ raced' = raced \ {k}
  BY DEF Delete
<1>2. /\ DOMAIN db' = DOMAIN db \ {k} /\ DOMAIN kept' = DOMAIN kept \ {k}
      /\ \A l \in DOMAIN db' : db'[l] = db[l]
      /\ \A l \in DOMAIN kept' : kept'[l] = kept[l]
  BY <1>1 DEF Dropping
<1>3. StoreTypeOK'
  <2>1. db' \in [DOMAIN db' -> 0 .. Expiry + 1] /\ kept' \in [DOMAIN kept' -> 0 .. Expiry + 1]
    BY <1>1 DEF Dropping, StoreIInv, StoreTypeOK
  <2> QED BY <1>1, <1>2, <2>1 DEF StoreIInv, StoreTypeOK
<1>4. AgesAgree'
  BY <1>2 DEF StoreIInv, AgesAgree
<1>5. ExpiredInv'
  BY <1>1, <1>2 DEF StoreIInv, ExpiredInv
<1>6. PruneSparesFresh'
  BY <1>1, <1>2 DEF StoreIInv, PruneSparesFresh
<1> QED BY <1>3, <1>4, <1>5, <1>6 DEF StoreIInv

\* Prune comes to the next table: what it takes has expired, and is of the table.
LEMMA PruneTableKeeps ==
  ASSUME StoreIInv, PruneTable
  PROVE  StoreIInv'
<1>1. PICK table : table = TableOrder[pruner.table + 1]
  OBVIOUS
<1>2. /\ pruner.table < Len(TableOrder) /\ UNCHANGED <<db, kept, raced>>
      /\ pruner' = [table |-> pruner.table + 1,
                    expired |-> {k \in IterRange(table, 0, FF) : db[k] > ExpiryOf(table)}]
  BY <1>1 DEF PruneTable
<1>3. pruner.table \in 0 .. 5 /\ DOMAIN db \subseteq Keys
  BY TablesInOrder DEF StoreIInv, StoreTypeOK
<1>4. table \in Tables /\ pruner.table + 1 \in 0 .. 5
  BY <1>1, <1>2, <1>3, TablesInOrder
<1>5. IterRange(table, 0, FF) = KeysOf(table) \cap DOMAIN db
  BY <1>3, <1>4, TableIterated
<1>6. StoreTypeOK'
  <2>1. pruner' \in [table : 0 .. Len(TableOrder), expired : SUBSET Keys]
    BY <1>2, <1>3, <1>4, <1>5, TablesInOrder
  <2> QED BY <1>2, <2>1 DEF StoreIInv, StoreTypeOK
<1>7. PointerKey \notin KeysOf(table)
  BY <1>4, KeysOfTables, KeyDigits DEF Tables
<1>8. ExpiredInv'
  <2>1. \A k \in pruner'.expired : k \in KeysOf(table) /\ k \in DOMAIN db /\ db[k] > ExpiryOf(table)
    BY <1>2, <1>5
  <2>2. CASE table = "computations"
    BY <1>2, <1>7, <2>1, <2>2 DEF ExpiredInv
  <2>3. CASE table # "computations"
    BY <1>2, <1>7, <2>1, <2>3 DEF ExpiredInv, ExpiryOf, StoreIInv, AgesAgree
  <2> QED BY <2>2, <2>3
<1>9. AgesAgree' /\ PruneSparesFresh'
  BY <1>2 DEF StoreIInv, AgesAgree, PruneSparesFresh
<1> QED BY <1>6, <1>8, <1>9 DEF StoreIInv

\* Prune deletes a record that has expired, was written again, or is a computation.
LEMMA PruneDeletesKeeps ==
  ASSUME StoreIInv, NEW k \in pruner.expired, PruneDeletes(k)
  PROVE  StoreIInv'
<1>1. /\ db' = Dropping(db, k) /\ pruner' = [pruner EXCEPT !.expired = @ \ {k}]
      /\ UNCHANGED <<kept, raced>>
  BY DEF PruneDeletes
<1>2. DOMAIN db' = DOMAIN db \ {k} /\ \A l \in DOMAIN db' : db'[l] = db[l]
  BY <1>1 DEF Dropping
<1>3. pruner' \in [table : 0 .. Len(TableOrder), expired : SUBSET Keys]
      /\ pruner'.expired = pruner.expired \ {k}
  BY <1>1 DEF StoreIInv, StoreTypeOK
<1>4. StoreTypeOK'
  <2>1. db' \in [DOMAIN db' -> 0 .. Expiry + 1]
    BY <1>1 DEF Dropping, StoreIInv, StoreTypeOK
  <2> QED BY <1>1, <1>2, <1>3, <2>1 DEF StoreIInv, StoreTypeOK
<1>5. AgesAgree'
  BY <1>1, <1>2 DEF StoreIInv, AgesAgree
<1>6. ExpiredInv'
  BY <1>1, <1>3 DEF StoreIInv, ExpiredInv
<1>7. PruneSparesFresh'
  <2>1. k \in DOMAIN kept /\ k \notin KeysOf("computations") /\ k \notin raced
        => ~(kept[k] <= Expiry \/ k = PointerKey)
    <3>1. k \in DOMAIN kept => kept[k] \in Nat
      BY StoreAssumption DEF StoreIInv, StoreTypeOK
    <3> QED BY <3>1, StoreAssumption DEF StoreIInv, ExpiredInv
  <2> QED BY <1>1, <1>2, <2>1 DEF StoreIInv, PruneSparesFresh
<1> QED BY <1>4, <1>5, <1>6, <1>7 DEF StoreIInv

\* Prune skips a record, or ends.
LEMMA PruneGoesOnKeeps ==
  ASSUME StoreIInv, PruneEnds \/ \E k \in pruner.expired : PruneSkips(k)
  PROVE  StoreIInv'
<1>1. UNCHANGED <<db, kept, raced>>
  BY DEF PruneEnds, PruneSkips
<1>2. /\ pruner' \in [table : 0 .. Len(TableOrder), expired : SUBSET Keys]
      /\ pruner'.expired \subseteq pruner.expired
  <2>1. CASE PruneEnds
    BY <2>1, TablesInOrder DEF PruneEnds, NoPrune
  <2>2. ASSUME NEW k \in pruner.expired, PruneSkips(k)
        PROVE  /\ pruner' \in [table : 0 .. Len(TableOrder), expired : SUBSET Keys]
               /\ pruner'.expired \subseteq pruner.expired
    BY <2>2 DEF PruneSkips, StoreIInv, StoreTypeOK
  <2> QED BY <2>1, <2>2
<1>3. StoreTypeOK'
  BY <1>1, <1>2 DEF StoreIInv, StoreTypeOK
<1>4. ExpiredInv'
  BY <1>1, <1>2 DEF StoreIInv, ExpiredInv
<1>5. AgesAgree' /\ PruneSparesFresh'
  BY <1>1 DEF StoreIInv, AgesAgree, PruneSparesFresh
<1> QED BY <1>3, <1>4, <1>5 DEF StoreIInv

\* Time passes: what has expired stays so.
LEMMA RecordsAgeKeeps ==
  ASSUME StoreIInv, RecordsAge
  PROVE  StoreIInv'
<1>1. db' = Older(db) /\ kept' = Older(kept) /\ UNCHANGED <<pruner, raced>>
  BY DEF RecordsAge
<1>2. /\ DOMAIN db' = DOMAIN db /\ DOMAIN kept' = DOMAIN kept
      /\ \A k \in DOMAIN db : db'[k] = IF db[k] > Expiry THEN db[k] ELSE db[k] + 1
      /\ \A k \in DOMAIN kept : kept'[k] = IF kept[k] > Expiry THEN kept[k] ELSE kept[k] + 1
  BY <1>1 DEF Older
<1>3. /\ \A k \in DOMAIN db : db[k] \in 0 .. Expiry + 1
      /\ \A k \in DOMAIN kept : kept[k] \in 0 .. Expiry + 1
  BY DEF StoreIInv, StoreTypeOK
<1>4. StoreTypeOK'
  <2>1. /\ \A k \in DOMAIN db : db'[k] \in 0 .. Expiry + 1
        /\ \A k \in DOMAIN kept : kept'[k] \in 0 .. Expiry + 1
    BY <1>2, <1>3, StoreAssumption
  <2>2. db' \in [DOMAIN db' -> 0 .. Expiry + 1] /\ kept' \in [DOMAIN kept' -> 0 .. Expiry + 1]
    BY <1>1, <1>2, <2>1 DEF Older
  <2> QED BY <1>1, <1>2, <2>2 DEF StoreIInv, StoreTypeOK
<1>5. AgesAgree'
  BY <1>2 DEF StoreIInv, AgesAgree
<1>6. ExpiredInv'
  BY <1>1, <1>2 DEF StoreIInv, ExpiredInv
<1>7. PruneSparesFresh'
  <2>1. \A k \in DOMAIN kept : kept'[k] <= Expiry => kept[k] <= Expiry
    BY <1>2, <1>3, StoreAssumption
  <2> QED BY <1>1, <1>2, <2>1 DEF StoreIInv, PruneSparesFresh
<1> QED BY <1>4, <1>5, <1>6, <1>7 DEF StoreIInv

\* The keys that the tables write are keys of the database.
LEMMA WrittenKeys ==
  /\ \A id \in IDs : Key("orders", 0, id) \in Keys /\ Key("computations", 0, id) \in Keys
  /\ \A epoch \in Hashes, id \in IDs :
       /\ Key("orderFragments", epoch, id) \in Keys
       /\ Key("buys", epoch, id) \in Keys /\ Key("sells", epoch, id) \in Keys
  /\ PointerKey \in Keys
BY KeysSplit, KeysOfTables, KeyDigits

\* The invariant holds at the start.
LEMMA StoreInitIInv == StoreInit => StoreIInv
<1> SUFFICES ASSUME StoreInit PROVE StoreIInv
  OBVIOUS
<1>1. DOMAIN db = {} /\ DOMAIN kept = {} /\ raced = {} /\ pruner = NoPrune
  BY DEF StoreInit
<1>2. StoreTypeOK
  BY <1>1, TablesInOrder DEF StoreInit, StoreTypeOK, NoPrune
<1> QED BY <1>1, <1>2 DEF StoreIInv, AgesAgree, ExpiredInv, PruneSparesFresh, NoPrune

\* Every step keeps it.
LEMMA StoreNextIInv == StoreIInv /\ [StoreNext]_storeVars => StoreIInv'
<1> SUFFICES ASSUME StoreIInv, [StoreNext]_storeVars PROVE StoreIInv'
  OBVIOUS
<1>1. ASSUME NEW id \in IDs,
             PutOrder(id) \/ DeleteOrder(id) \/ PutComputation(id) \/ DeleteComputation(id)
      PROVE  StoreIInv'
  BY <1>1, PutKeeps, DeleteKeeps, WrittenKeys
     DEF PutOrder, DeleteOrder, PutComputation, DeleteComputation
<1>2. ASSUME NEW id \in IDs, NEW epoch \in Hashes,
             \/ PutOrderFragment(epoch, id) \/ DeleteOrderFragment(epoch, id)
             \/ PutBuyOrderFragment(epoch, id) \/ DeleteBuyOrderFragment(epoch, id)
             \/ PutSellOrderFragment(epoch, id) \/ DeleteSellOrderFragment(epoch, id)
      PROVE  StoreIInv'
  BY <1>2, PutKeeps, DeleteKeeps, WrittenKeys
     DEF PutOrderFragment, DeleteOrderFragment, PutBuyOrderFragment, DeleteBuyOrderFragment,
         PutSellOrderFragment, DeleteSellOrderFragment
<1>3. CASE PutPointer
  BY <1>3, PutKeeps, WrittenKeys DEF PutPointer
<1>4. CASE UNCHANGED storeVars
  <2>1. UNCHANGED <<db, kept, pruner, raced>>
    BY <1>4 DEF storeVars
  <2> QED BY <2>1 DEF StoreIInv, StoreTypeOK, AgesAgree, ExpiredInv, PruneSparesFresh
<1> QED BY <1>1, <1>2, <1>3, <1>4, PruneTableKeeps, PruneDeletesKeeps, PruneGoesOnKeeps,
           RecordsAgeKeeps DEF StoreNext

\* The types of the tables, and what Prune is about to delete, are as they should be.
THEOREM StoreInvariant == StoreSpec => []StoreIInv
BY StoreInitIInv, StoreNextIInv, PTL DEF StoreSpec

\* Prune of leveldb/ and the tables' writes interleave in any way, and no
\* record is lost that has not expired, but for those written again under Prune and
\* for computations; the iterators of leveldb/orderbook.go and leveldb/somer.go find
\* the records of their table or epoch, and no others.
THEOREM NoRecordLost == StoreSpec => []RecordsKept
<1>1. StoreIInv => RecordsKept
  BY IteratorsSound DEF StoreIInv, RecordsKept
<1> QED BY <1>1, StoreInvariant, PTL
-----------------------------------------------------------------------------
(* Sequences without one of their elements. *)

\* A set of naturals has a least member.
LEMMA MinExists ==
  ASSUME NEW I \in SUBSET Nat, I # {}
  PROVE  \E x \in I : \A y \in I : x <= y
<1>1. PICK x \in I : \A y \in I : ~(<<y, x>> \in OpToRel(<, Nat))
  BY NatLessThanWellFounded, WFMin
<1>2. ASSUME NEW y \in I PROVE x <= y
  <2>1. y < x => <<y, x>> \in OpToRel(<, Nat)
    BY DEF OpToRel
  <2>2. ~(y < x)
    BY <1>1, <2>1, Zenon
  <2> QED BY <2>2
<1> QED BY <1>2

\* Which Min finds.
LEMMA MinIn ==
  ASSUME NEW I \in SUBSET Nat, I # {}
  PROVE  Min(I) \in I
BY MinExists DEF Min

\* RemoveAt closes the gap.
LEMMA RemoveAtProperties ==
  ASSUME NEW S, NEW s \in Seq(S), NEW i \in 1 .. Len(s)
  PROVE  /\ RemoveAt(s, i) \in Seq(S) /\ Len(RemoveAt(s, i)) = Len(s) - 1
         /\ \A j \in 1 .. Len(s) - 1 : RemoveAt(s, i)[j] = IF j < i THEN s[j] ELSE s[j + 1]
<1> DEFINE left == SubSeq(s, 1, i - 1)
           right == SubSeq(s, i + 1, Len(s))
<1>1. Len(s) \in Nat
  BY LenProperties
<1>2. left \in Seq(S) /\ Len(left) = i - 1 /\ \A j \in 1 .. i - 1 : left[j] = s[j]
  BY <1>1
<1>3. /\ right \in Seq(S) /\ Len(right) = Len(s) - i
      /\ \A j \in 1 .. Len(s) - i : right[j] = s[i + j]
  BY <1>1
<1> HIDE DEF left, right
<1>4. RemoveAt(s, i) = left \o right
  BY DEF RemoveAt, left, right
<1>5. left \o right \in Seq(S) /\ Len(left \o right) = Len(s) - 1
  <2>1. left \o right \in Seq(S) /\ Len(left \o right) = Len(left) + Len(right)
    BY <1>2, <1>3, ConcatProperties
  <2> QED BY <1>1, <1>2, <1>3, <2>1
<1>6. ASSUME NEW j \in 1 .. Len(s) - 1
      PROVE  (left \o right)[j] = IF j < i THEN s[j] ELSE s[j + 1]
  <2>1. (left \o right)[j] = IF j <= Len(left) THEN left[j] ELSE right[j - Len(left)]
    BY <1>1, <1>2, <1>3, ConcatProperties
  <2>2. CASE j < i
    BY <1>1, <1>2, <2>1, <2>2
  <2>3. CASE j >= i
    <3>1. j - (i - 1) \in 1 .. Len(s) - i /\ i + (j - (i - 1)) = j + 1
      BY <1>1, <2>3
    <3>2. right[j - (i - 1)] = s[j + 1]
      BY <1>3, <3>1
    <3>3. ~(j <= Len(left)) /\ j - Len(left) = j - (i - 1)
      BY <1>1, <1>2, <2>3
    <3> QED BY <2>1, <2>3, <3>2, <3>3
  <2>4. j < i \/ j >= i
    BY <1>1
  <2> QED BY <2>2, <2>3, <2>4
<1> QED BY <1>4, <1>5, <1>6

\* An element is taken out of a sequence that holds each once.
LEMMA RemoveFirstProperties ==
  ASSUME NEW S, NEW s \in Seq(S), NEW e, IsInjective(s)
  PROVE  /\ RemoveFirst(s, e) \in Seq(S) /\ IsInjective(RemoveFirst(s, e))
         /\ Len(RemoveFirst(s, e)) = IF Contains(s, e) THEN Len(s) - 1 ELSE Len(s)
         /\ \A j \in 1 .. Len(RemoveFirst(s, e)) :
              RemoveFirst(s, e)[j] # e /\ \E i \in 1 .. Len(s) : RemoveFirst(s, e)[j] = s[i]
<1>1. Len(s) \in Nat /\ DOMAIN s = 1 .. Len(s)
  BY LenProperties
<1>2. CASE ~Contains(s, e)
  <2>1. RemoveFirst(s, e) = s
    BY <1>2 DEF RemoveFirst, Contains
  <2> QED BY <1>1, <1>2, <2>1 DEF Contains
<1>3. CASE Contains(s, e)
  <2>1. PICK i \in 1 .. Len(s) : RemoveFirst(s, e) = RemoveAt(s, i) /\ s[i] = e
    <3> DEFINE I == {i \in 1 .. Len(s) : s[i] = e}
    <3>1. I # {} /\ I \in SUBSET Nat
      BY <1>1, <1>3 DEF Contains
    <3>2. RemoveFirst(s, e) = RemoveAt(s, Min(I))
      BY <1>3, <3>1 DEF RemoveFirst, SelectInSeq, Contains
    <3>3. Min(I) \in I
      BY <3>1, MinIn
    <3> QED BY <3>2, <3>3
  <2> DEFINE t == RemoveAt(s, i)
  <2>2. /\ t \in Seq(S) /\ Len(t) = Len(s) - 1
        /\ \A j \in 1 .. Len(s) - 1 : t[j] = IF j < i THEN s[j] ELSE s[j + 1]
    BY RemoveAtProperties
  <2> HIDE DEF t
  <2>3. \A j, k \in 1 .. Len(s) : s[j] = s[k] => j = k
    BY <1>1 DEF IsInjective
  <2>4. DOMAIN t = 1 .. Len(s) - 1
    BY <2>2, LenProperties
  <2>5. IsInjective(t)
    BY <1>1, <2>2, <2>3, <2>4 DEF IsInjective
  <2>6. \A j \in 1 .. Len(s) - 1 : t[j] # e /\ \E l \in 1 .. Len(s) : t[j] = s[l]
    BY <1>1, <2>1, <2>2, <2>3
  <2> QED BY <1>3, <2>1, <2>2, <2>5, <2>6 DEF t
<1> QED BY <1>2, <1>3
-----------------------------------------------------------------------------
(* Swarm: the buckets of the DHT. *)

UpdateType ==
  [pc : {"none", "update", "prune", "answered", "unanswered", "retry"},
   addr : Addresses, oldest : Addresses]

\* Every bucket holds peers, each once and those that belong to it, and no more than it may.
BucketsOK ==
  /\ buckets \in [0 .. Bits - 1 -> Seq(Peers)]
  /\ \A i \in 0 .. Bits - 1 :
       /\ Len(buckets[i]) <= MaxLength /\ IsInjective(buckets[i])
       /\ \A j \in 1 .. Len(buckets[i]) : FindBucket(buckets[i][j]) = i

\* What updateDHT is about to store, or has pinged, is a peer: it may have left its
\* bucket since then.
UpdatesOK ==
  /\ updating \in [Updaters -> UpdateType]
  /\ \A t \in Updaters :
       /\ updating[t].pc # "none" => updating[t].addr \in Peers
       /\ updating[t].pc \in {"answered", "unanswered"} => updating[t].oldest \in Peers

\* The inductive invariant of the DHT.
SwarmIInv == BucketsOK /\ UpdatesOK

\* Every peer has a bucket.
LEMMA FindBucketIn ==
  ASSUME NEW a \in Peers
  PROVE  FindBucket(a) \in 0 .. Bits - 1
<1> DEFINE D == Differ(a, Self)
           Below == {Bits - i : i \in D}
<1>1. D # {} /\ D \subseteq 0 .. Bits - 1 /\ Bits \in Nat
  BY SwarmAssumption DEF Differ
<1> HIDE DEF D
<1>2. Below # {} /\ Below \in SUBSET Nat
  <2>1. \A i \in D : Bits - i \in Nat
    BY <1>1
  <2>2. PICK i \in D : TRUE
    BY <1>1
  <2>3. Bits - i \in Below
    OBVIOUS
  <2> QED BY <2>1, <2>3
<1>3. PICK x \in Below : \A y \in Below : x <= y
  BY <1>2, MinExists
<1>4. PICK i \in D : x = Bits - i
  BY <1>3
<1>5. \A j \in D : j <= i
  BY <1>1, <1>3, <1>4
<1>6. FindBucket(a) \in D
  BY <1>4, <1>5 DEF FindBucket, D
<1> QED BY <1>1, <1>6

\* UpdateMultiAddress looks at the length of the bucket again before it appends.
LEMMA UpdateMultiAddressKeeps ==
  ASSUME BucketsOK, NEW a \in Peers, UpdateMultiAddress(a)
  PROVE  BucketsOK'
<1>1. CASE buckets' = buckets
  BY <1>1 DEF BucketsOK
<1>2. CASE buckets' # buckets
  <2>1. PICK f \in 0 .. Bits - 1 : f = FindBucket(a)
    BY FindBucketIn
  <2>2. PICK old \in Seq(Peers) : old = buckets[f]
    BY DEF BucketsOK
  <2>3. PICK rest : rest = RemoveFirst(old, a)
    OBVIOUS
  <2>4. /\ buckets' = [buckets EXCEPT ![f] = Append(rest, a)]
        /\ Contains(old, a) \/ Len(old) # MaxLength
    BY <1>2, <2>1, <2>2, <2>3 DEF UpdateMultiAddress, Stored, IsFull
  <2>5. /\ Len(old) \in Nat /\ Len(old) <= MaxLength /\ IsInjective(old)
        /\ \A j \in 1 .. Len(old) : FindBucket(old[j]) = f
    BY <2>2, LenProperties DEF BucketsOK
  <2>6. /\ rest \in Seq(Peers) /\ IsInjective(rest)
        /\ Len(rest) = IF Contains(old, a) THEN Len(old) - 1 ELSE Len(old)
        /\ \A j \in 1 .. Len(rest) : rest[j] # a /\ \E i \in 1 .. Len(old) : rest[j] = old[i]
    BY <2>3, <2>5, RemoveFirstProperties
  <2>7. PICK new \in Seq(Peers) : new = Append(rest, a)
    BY <2>6, AppendProperties
  <2>8. /\ Len(rest) \in Nat /\ Len(new) = Len(rest) + 1
        /\ \A j \in 1 .. Len(rest) : new[j] = rest[j]
        /\ new[Len(rest) + 1] = a
    BY <2>6, <2>7, AppendProperties, LenProperties
  <2>9. Len(new) <= MaxLength
    BY <2>4, <2>5, <2>6, <2>8, SwarmAssumption
  <2>10. IsInjective(new)
    <3>1. DOMAIN new = 1 .. Len(rest) + 1 /\ DOMAIN rest = 1 .. Len(rest)
      BY <2>6, <2>8, LenProperties
    <3>2. ASSUME NEW j \in 1 .. Len(rest) + 1, NEW l \in 1 .. Len(rest) + 1, new[j] = new[l]
          PROVE  j = l
      <4>1. j = Len(rest) + 1 \/ j \in 1 .. Len(rest)
        BY <2>8
      <4>2. l = Len(rest) + 1 \/ l \in 1 .. Len(rest)
        BY <2>8
      <4>3. CASE j \in 1 .. Len(rest) /\ l \in 1 .. Len(rest)
        <5>1. rest[j] = rest[l]
          BY <2>8, <3>2, <4>3
        <5> QED BY <2>6, <3>1, <4>3, <5>1 DEF IsInjective
      <4>4. CASE j = Len(rest) + 1 /\ l \in 1 .. Len(rest)
        BY <2>6, <2>8, <3>2, <4>4
      <4>5. CASE l = Len(rest) + 1 /\ j \in 1 .. Len(rest)
        BY <2>6, <2>8, <3>2, <4>5
      <4> QED BY <4>1, <4>2, <4>3, <4>4, <4>5
    <3> QED BY <3>1, <3>2 DEF IsInjective
  <2>11. \A j \in 1 .. Len(new) : FindBucket(new[j]) = f
    <3> SUFFICES ASSUME NEW j \in 1 .. Len(new) PROVE FindBucket(new[j]) = f
      OBVIOUS
    <3>1. j = Len(rest) + 1 \/ j \in 1 .. Len(rest)
      BY <2>8
    <3> QED BY <2>1, <2>5, <2>6, <2>8, <3>1
  <2>12. buckets' = [buckets EXCEPT ![f] = new]
    BY <2>4, <2>7
  <2>13. /\ buckets' \in [0 .. Bits - 1 -> Seq(Peers)]
         /\ \A i \in 0 .. Bits - 1 : buckets'[i] = IF i = f THEN new ELSE buckets[i]
    BY <2>12 DEF BucketsOK
  <2> QED BY <2>9, <2>10, <2>11, <2>13 DEF BucketsOK
<1> QED BY <1>1, <1>2

\* RemoveMultiAddress.
LEMMA RemoveMultiAddressKeeps ==
  ASSUME BucketsOK, NEW a \in Peers, RemoveMultiAddress(a)
  PROVE  BucketsOK'
<1>1. PICK f \in 0 .. Bits - 1 : f = FindBucket(a)
  BY FindBucketIn
<1>2. PICK old \in Seq(Peers) : old = buckets[f]
  BY DEF BucketsOK
<1>3. PICK rest : rest = RemoveFirst(old, a)
  OBVIOUS
<1>4. buckets' = [buckets EXCEPT ![f] = rest]
  BY <1>1, <1>2, <1>3 DEF RemoveMultiAddress
<1>5. /\ Len(old) \in Nat /\ Len(old) <= MaxLength /\ IsInjective(old)
      /\ \A j \in 1 .. Len(old) : FindBucket(old[j]) = f
  BY <1>2, LenProperties DEF BucketsOK
<1>6. /\ rest \in Seq(Peers) /\ IsInjective(rest)
      /\ Len(rest) = IF Contains(old, a) THEN Len(old) - 1 ELSE Len(old)
      /\ \A j \in 1 .. Len(rest) : rest[j] # a /\ \E i \in 1 .. Len(old) : rest[j] = old[i]
  BY <1>3, <1>5, RemoveFirstProperties
<1>7. Len(rest) <= MaxLength /\ \A j \in 1 .. Len(rest) : FindBucket(rest[j]) = f
  BY <1>5, <1>6, SwarmAssumption
<1>8. /\ buckets' \in [0 .. Bits - 1 -> Seq(Peers)]
      /\ \A i \in 0 .. Bits - 1 : buckets'[i] = IF i = f THEN rest ELSE buckets[i]
  BY <1>4, <1>6 DEF BucketsOK
<1> QED BY <1>6, <1>7, <1>8 DEF BucketsOK

\* A step of one updateDHT.
LEMMA UpdateStepKeeps ==
  ASSUME UpdatesOK, NEW t \in Updaters, NEW update \in UpdateType,
         updating' = [updating EXCEPT ![t] = update],
         update.pc # "none" => update.addr \in Peers,
         update.pc \in {"answered", "unanswered"} => update.oldest \in Peers
  PROVE  UpdatesOK'
<1>1. /\ updating' \in [Updaters -> UpdateType]
      /\ \A u \in Updaters : updating'[u] = IF u = t THEN update ELSE updating[u]
  BY DEF UpdatesOK
<1> QED BY <1>1 DEF UpdatesOK

\* Where updateDHT goes on without another address.
LEMMA GoOnKeeps ==
  ASSUME UpdatesOK, NEW t \in Updaters, NEW next \in {"none", "prune", "retry"},
         GoOn(t, next), updating[t].pc # "none"
  PROVE  UpdatesOK'
<1> DEFINE update == [updating[t] EXCEPT !.pc = next]
<1>1. updating' = [updating EXCEPT ![t] = update]
  BY DEF GoOn
<1>2. updating[t] \in UpdateType /\ updating[t].addr \in Peers
  BY DEF UpdatesOK
<1>3. update \in UpdateType /\ update.pc = next /\ update.addr \in Peers
  BY <1>2 DEF UpdateType
<1> HIDE DEF update
<1> QED BY <1>1, <1>3, UpdateStepKeeps

\* A peer is handed to updateDHT.
LEMMA NewUpdateKeeps ==
  ASSUME UpdatesOK, NEW t \in Updaters, NEW a \in Peers,
         updating' = [updating EXCEPT ![t] = [NoUpdate EXCEPT !.pc = "update", !.addr = a]]
  PROVE  UpdatesOK'
<1> DEFINE update == [NoUpdate EXCEPT !.pc = "update", !.addr = a]
<1>1. update \in UpdateType /\ update.pc = "update" /\ update.addr = a
  BY DEF NoUpdate, UpdateType, Addresses
<1> HIDE DEF update
<1> QED BY <1>1, UpdateStepKeeps DEF update

\* The steps of updateDHT and pruneDHT.
LEMMA UpdaterStepKeeps ==
  ASSUME SwarmIInv, NEW t \in Updaters, UpdaterStep(t)
  PROVE  SwarmIInv'
<1>1. PICK old \in UpdateType : old = updating[t]
  BY DEF SwarmIInv, UpdatesOK
<1>2. /\ old.pc # "none" => old.addr \in Peers
      /\ old.pc \in {"answered", "unanswered"} => old.oldest \in Peers
  BY <1>1 DEF SwarmIInv, UpdatesOK
<1>3. CASE UpdateDHT(t)
  <2>1. old.pc = "update" /\ UpdateMultiAddress(old.addr)
    BY <1>1, <1>3 DEF UpdateDHT
  <2>2. BucketsOK'
    BY <1>2, <2>1, UpdateMultiAddressKeeps DEF SwarmIInv
  <2>3. GoOn(t, "prune") \/ GoOn(t, "none")
    BY <1>3 DEF UpdateDHT
  <2>4. UpdatesOK'
    BY <1>1, <2>1, <2>3, GoOnKeeps DEF SwarmIInv
  <2> QED BY <2>2, <2>4 DEF SwarmIInv
<1>4. CASE PruneDHT(t)
  <2>1. old.pc = "prune" /\ UNCHANGED buckets
    BY <1>1, <1>4 DEF PruneDHT
  <2>2. BucketsOK'
    BY <2>1 DEF SwarmIInv, BucketsOK
  <2>3. PICK bucket \in Seq(Peers) : bucket = buckets[FindBucket(old.addr)]
    BY <1>2, <2>1, FindBucketIn DEF SwarmIInv, BucketsOK
  <2>4. CASE bucket = <<>>
    <3>1. GoOn(t, "none")
      BY <1>1, <1>4, <2>3, <2>4 DEF PruneDHT, GoOn
    <3> QED BY <1>1, <2>1, <2>2, <3>1, GoOnKeeps DEF SwarmIInv
  <2>5. CASE bucket # <<>>
    <3>1. PICK next \in {"answered", "unanswered"} :
            updating' = [updating EXCEPT ![t] = [old EXCEPT !.oldest = Head(bucket), !.pc = next]]
      BY <1>1, <1>4, <2>3, <2>5 DEF PruneDHT
    <3>2. PICK head \in Peers : head = Head(bucket)
      BY <2>3, <2>5
    <3> DEFINE update == [old EXCEPT !.oldest = head, !.pc = next]
    <3>3. updating' = [updating EXCEPT ![t] = update]
      BY <3>1, <3>2
    <3>4. /\ update \in UpdateType /\ update.pc = next
          /\ update.addr = old.addr /\ update.oldest = head
      BY <3>2 DEF UpdateType, Addresses
    <3> HIDE DEF update
    <3> QED BY <1>2, <2>1, <2>2, <3>2, <3>3, <3>4, UpdateStepKeeps DEF SwarmIInv
  <2> QED BY <2>4, <2>5
<1>5. CASE PruneRemoves(t)
  <2>1. old.pc = "unanswered" /\ RemoveMultiAddress(old.oldest) /\ GoOn(t, "retry")
    BY <1>1, <1>5 DEF PruneRemoves
  <2> QED BY <1>1, <1>2, <2>1, RemoveMultiAddressKeeps, GoOnKeeps DEF SwarmIInv
<1>6. CASE PruneRefreshes(t)
  <2>1. old.pc = "answered" /\ UpdateMultiAddress(old.oldest) /\ GoOn(t, "none")
    BY <1>1, <1>6 DEF PruneRefreshes
  <2> QED BY <1>1, <1>2, <2>1, UpdateMultiAddressKeeps, GoOnKeeps DEF SwarmIInv
<1>7. CASE UpdateAgain(t)
  <2>1. old.pc = "retry" /\ UpdateMultiAddress(old.addr) /\ GoOn(t, "none")
    BY <1>1, <1>7 DEF UpdateAgain
  <2> QED BY <1>1, <1>2, <2>1, UpdateMultiAddressKeeps, GoOnKeeps DEF SwarmIInv
<1> QED BY <1>3, <1>4, <1>5, <1>6, <1>7 DEF UpdaterStep

\* A step that touches neither the buckets nor an updateDHT.
LEMMA BucketsStay == SwarmIInv /\ UNCHANGED <<buckets, updating>> => SwarmIInv'
BY DEF SwarmIInv, BucketsOK, UpdatesOK

\* The invariant holds at the start.
LEMMA SwarmInitIInv == SwarmInit => SwarmIInv
<1> SUFFICES ASSUME SwarmInit PROVE SwarmIInv
  OBVIOUS
<1>1. buckets = [i \in 0 .. Bits - 1 |-> <<>>] /\ updating = [t \in Updaters |-> NoUpdate]
  BY DEF SwarmInit
<1>2. <<>> \in Seq(Peers) /\ Len(<<>>) = 0 /\ DOMAIN <<>> = {}
  OBVIOUS
<1>3. IsInjective(<<>>)
  BY <1>2 DEF IsInjective
<1>4. BucketsOK
  BY <1>1, <1>2, <1>3, SwarmAssumption DEF BucketsOK
<1>5. NoUpdate \in UpdateType /\ NoUpdate.pc = "none"
  BY DEF NoUpdate, UpdateType, Addresses
<1>6. UpdatesOK
  BY <1>1, <1>5 DEF UpdatesOK
<1> QED BY <1>4, <1>6 DEF SwarmIInv

\* Every step keeps it.
LEMMA SwarmNextIInv == SwarmIInv /\ [SwarmNext]_swarmVars => SwarmIInv'
<1> SUFFICES ASSUME SwarmIInv, [SwarmNext]_swarmVars PROVE SwarmIInv'
  OBVIOUS
<1>1. ASSUME NEW t \in Updaters, UpdaterStep(t) PROVE SwarmIInv'
  BY <1>1, UpdaterStepKeeps
<1>2. ASSUME NEW t \in Handlers, NEW peer \in Peers, Ping(t, peer) PROVE SwarmIInv'
  <2>1. t \in Updaters /\ UNCHANGED buckets
    BY <1>2 DEF Updaters, Ping
  <2>2. UpdatesOK'
    BY <1>2, <2>1, NewUpdateKeeps DEF Ping, SwarmIInv
  <2> QED BY <2>1, <2>2 DEF SwarmIInv, BucketsOK
<1>3. ASSUME NEW a \in Peers, TakeAnswer(a) PROVE SwarmIInv'
  <2>1. Searcher \in Updaters /\ UNCHANGED buckets
    BY <1>3 DEF Updaters, TakeAnswer
  <2>2. \/ UNCHANGED updating
        \/ updating' = [updating EXCEPT ![Searcher] = [NoUpdate EXCEPT !.pc = "update", !.addr = a]]
    BY <1>3 DEF TakeAnswer
  <2>3. UpdatesOK'
    BY <2>1, <2>2, BucketsStay, NewUpdateKeeps DEF SwarmIInv, UpdatesOK
  <2> QED BY <2>1, <2>3 DEF SwarmIInv, BucketsOK
<1>4. ASSUME \/ \E target \in Addresses, limit \in Depths : Query(target, limit)
             \/ SkipPeer \/ QueryPeer \/ QueryFails \/ AnswerTaken \/ QueryReturns
             \/ \E a \in Peers : Flip(a)
             \/ UNCHANGED swarmVars
      PROVE  SwarmIInv'
  <2>1. UNCHANGED <<buckets, updating>>
    BY <1>4 DEF Query, SkipPeer, QueryPeer, QueryFails, AnswerTaken, QueryReturns, Flip, swarmVars
  <2> QED BY <2>1, BucketsStay
<1> QED BY <1>1, <1>2, <1>3, <1>4 DEF SwarmNext

\* A sequence without repetition has as many members as places.
LEMMA DistinctCount ==
  ASSUME NEW S, NEW s \in Seq(S), IsInjective(s)
  PROVE  Cardinality(ToSet(s)) = Len(s)
<1>1. Len(s) \in Nat /\ DOMAIN s = 1 .. Len(s) /\ s \in [1 .. Len(s) -> S]
  BY LenProperties
<1>2. s \in Bijection(1 .. Len(s), ToSet(s))
  BY <1>1 DEF Bijection, Injection, Surjection, IsInjective, ToSet
<1>3. IsFiniteSet(1 .. Len(s)) /\ Cardinality(1 .. Len(s)) = Len(s)
  BY <1>1, FS_Interval
<1> QED BY <1>2, <1>3, FS_Bijection DEF ExistsBijection

\* The types of the buckets and of what updateDHT carries over its ping hold throughout.
THEOREM SwarmInvariant == SwarmSpec => []SwarmIInv
BY SwarmInitIInv, SwarmNextIInv, PTL DEF SwarmSpec

\* Any number of goroutines run updateDHT of swarm/swarm.go, each of which gives up the
\* mutex of dht/dht.go between its look at a bucket, its ping and its update: no bucket
\* ever holds more than its length, an address twice, one of another bucket, or Self.
THEOREM BucketsStaySound == SwarmSpec => []BucketsSound
<1>1. SwarmIInv => BucketsSound
  <2> SUFFICES ASSUME SwarmIInv, NEW i \in DOMAIN buckets
               PROVE  /\ Len(buckets[i]) <= MaxLength
                      /\ Cardinality(ToSet(buckets[i])) = Len(buckets[i])
                      /\ \A a \in ToSet(buckets[i]) : a # Self /\ FindBucket(a) = i
    BY DEF BucketsSound
  <2>1. i \in 0 .. Bits - 1 /\ buckets[i] \in Seq(Peers)
    BY DEF SwarmIInv, BucketsOK
  <2>2. Len(buckets[i]) <= MaxLength /\ Cardinality(ToSet(buckets[i])) = Len(buckets[i])
    BY <2>1, DistinctCount DEF SwarmIInv, BucketsOK
  <2>3. \A j \in 1 .. Len(buckets[i]) : buckets[i][j] \in Peers
    BY <2>1
  <2>4. \A a \in ToSet(buckets[i]) : a # Self /\ FindBucket(a) = i
    <3> SUFFICES ASSUME NEW a \in ToSet(buckets[i]) PROVE a # Self /\ FindBucket(a) = i
      OBVIOUS
    <3>1. PICK j \in 1 .. Len(buckets[i]) : a = buckets[i][j]
      BY <2>1, LenProperties DEF ToSet
    <3>2. a \in Peers /\ FindBucket(a) = i
      BY <2>1, <2>3, <3>1 DEF SwarmIInv, BucketsOK
    <3> QED BY <3>2, SwarmAssumption
  <2> QED BY <2>2, <2>4
<1> QED BY <1>1, SwarmInvariant, PTL
-----------------------------------------------------------------------------
(* Swarm: queries.  Recursive functions exist and are what they say, which     *)
(* needs induction over their domain.                                        *)

LEMMA Induction ==
  ASSUME NEW N \in Nat, NEW T, 0 \in T, \A n \in 1 .. N : n - 1 \in T => n \in T
  PROVE  \A n \in 0 .. N : n \in T
<1> DEFINE Missing == {n \in 0 .. N : n \notin T}
<1> SUFFICES ASSUME Missing # {} PROVE FALSE
  OBVIOUS
<1>1. Missing \in SUBSET Nat
  OBVIOUS
<1>2. PICK x \in Missing : \A y \in Missing : x <= y
  <2> HIDE DEF Missing
  <2> QED BY <1>1, MinExists
<1>3. x \in 1 .. N /\ x - 1 \in 0 .. N /\ x - 1 \notin Missing
  BY <1>2
<1> QED BY <1>3

\* A function is given by its first value and how every other one is made of the last.
Recurses(g, N, S, base, F) ==
  /\ g \in [0 .. N -> S]
  /\ g[0] = base /\ \A n \in 1 .. N : g[n] = F[<<n, g[n - 1]>>]

LEMMA Recursion ==
  ASSUME NEW N \in Nat, NEW S, NEW base \in S, NEW F \in [(1 .. N) \X S -> S]
  PROVE  \E g : Recurses(g, N, S, base, F)
<1> DEFINE Upto(g, m) == g[0] = base /\ \A n \in 1 .. m : g[n] = F[<<n, g[n - 1]>>]
           T == {m \in Nat : \E g \in [0 .. m -> S] : Upto(g, m)}
<1>1. 0 \in T
  <2> DEFINE g == [n \in 0 .. 0 |-> base]
  <2>1. g \in [0 .. 0 -> S] /\ Upto(g, 0)
    OBVIOUS
  <2> HIDE DEF g, Upto
  <2> QED BY <2>1
<1>2. ASSUME NEW n \in 1 .. N, n - 1 \in T PROVE n \in T
  <2>1. PICK f \in [0 .. n - 1 -> S] : Upto(f, n - 1)
    BY <1>2
  <2>2. f[n - 1] \in S /\ F[<<n, f[n - 1]>>] \in S
    OBVIOUS
  <2> DEFINE g == [m \in 0 .. n |-> IF m = n THEN F[<<n, f[n - 1]>>] ELSE f[m]]
  <2>3. g \in [0 .. n -> S]
    BY <2>2
  <2>4. g[0] = base
    BY <2>1
  <2>5. ASSUME NEW m \in 1 .. n PROVE g[m] = F[<<m, g[m - 1]>>]
    <3>1. m - 1 \in 0 .. n /\ m - 1 # n /\ m \in 0 .. n
      OBVIOUS
    <3>2. g[m - 1] = f[m - 1]
      BY <3>1
    <3>3. CASE m = n
      BY <3>1, <3>2, <3>3
    <3>4. CASE m # n
      <4>1. m \in 1 .. n - 1
        BY <3>4
      <4> QED BY <2>1, <3>1, <3>2, <3>4, <4>1
    <3> QED BY <3>3, <3>4
  <2>6. Upto(g, n)
    BY <2>4, <2>5
  <2> HIDE DEF g, Upto
  <2> QED BY <2>3, <2>6
<1>3. N \in T
  <2> HIDE DEF T
  <2> QED BY <1>1, <1>2, Induction
<1> QED BY <1>3 DEF Recurses

\* The addresses of a DHT are peers.
LEMMA AddressesArePeers ==
  ASSUME BucketsOK
  PROVE  MultiAddresses \in Seq(Peers)
<1> DEFINE S == Seq(Peers)
           F == [x \in (1 .. Bits) \X S |-> x[2] \o buckets[x[1] - 1]]
           Eq(g) == g = [n \in 0 .. Bits |-> IF n = 0 THEN <<>> ELSE g[n - 1] \o buckets[n - 1]]
<1>1. Bits \in Nat /\ <<>> \in S
  BY SwarmAssumption
<1>2. \A n \in 1 .. Bits : buckets[n - 1] \in S
  <2>1. \A n \in 1 .. Bits : n - 1 \in 0 .. Bits - 1
    BY <1>1
  <2> QED BY <2>1 DEF BucketsOK
<1>3. ASSUME NEW n \in 1 .. Bits, NEW s \in S PROVE s \o buckets[n - 1] \in S
  BY <1>2, ConcatProperties
<1>4. F \in [(1 .. Bits) \X S -> S]
  BY <1>3
<1>5. \A n \in 1 .. Bits, s \in S : F[<<n, s>>] = s \o buckets[n - 1]
  OBVIOUS
<1> HIDE DEF F, S
<1>6. PICK g : Recurses(g, Bits, S, <<>>, F)
  <2>1. Bits \in Nat /\ <<>> \in S /\ F \in [(1 .. Bits) \X S -> S]
    BY <1>1, <1>4
  <2> HIDE <1>1, <1>2, <1>3, <1>4, <1>5
  <2> QED BY <2>1, Recursion, Zenon
<1>7. Eq(g)
  <2>1. ASSUME NEW n \in 1 .. Bits PROVE g[n] = g[n - 1] \o buckets[n - 1]
    <3>1. g[n - 1] \in S
      BY <1>1, <1>6 DEF Recurses
    <3> QED BY <1>5, <1>6, <3>1 DEF Recurses
  <2>2. \A n \in 0 .. Bits : n = 0 \/ n \in 1 .. Bits
    BY <1>1
  <2>3. \A n \in 0 .. Bits : g[n] = IF n = 0 THEN <<>> ELSE g[n - 1] \o buckets[n - 1]
    BY <1>6, <2>1, <2>2 DEF Recurses
  <2>4. g \in [0 .. Bits -> S]
    BY <1>6 DEF Recurses
  <2> QED BY <2>3, <2>4, Zenon
<1>8. Eq(FirstBuckets)
  BY <1>7, Zenon DEF FirstBuckets
<1>9. /\ FirstBuckets[0] = <<>>
      /\ \A n \in 1 .. Bits : FirstBuckets[n] = FirstBuckets[n - 1] \o buckets[n - 1]
  <2>1. 0 \in 0 .. Bits /\ \A n \in 1 .. Bits : n \in 0 .. Bits /\ n # 0
    BY <1>1
  <2>2. \A n \in 0 .. Bits :
          FirstBuckets[n] = IF n = 0 THEN <<>> ELSE FirstBuckets[n - 1] \o buckets[n - 1]
    BY <1>8, Zenon
  <2> HIDE <1>8
  <2> QED BY <2>1, <2>2, Zenon
<1> DEFINE T == {n \in Nat : FirstBuckets[n] \in S}
<1>10. ASSUME NEW n \in 1 .. Bits, n - 1 \in T PROVE n \in T
  <2>1. FirstBuckets[n - 1] \in S
    BY <1>10
  <2>2. FirstBuckets[n] \in S
    BY <1>3, <1>9, <2>1
  <2> QED BY <2>2
<1>11. 0 \in T
  BY <1>1, <1>9
<1>12. Bits \in T
  <2> HIDE DEF T
  <2>1. \A n \in 0 .. Bits : n \in T
    BY <1>1, <1>10, <1>11, Induction
  <2> QED BY <1>1, <2>1
<1> QED BY <1>12 DEF MultiAddresses, S

\* So are those of them that are closer to a target.
LEMMA CloserArePeers ==
  ASSUME NEW all \in Seq(Peers), NEW target
  PROVE  CloserThanSelf(all, target) \in Seq(Peers)
<1> DEFINE S == Seq(Peers)
           N == Len(all)
           Appended(n, s) == IF Closer(all[n], Self, target) THEN Append(s, all[n]) ELSE s
           F == [x \in (1 .. N) \X S |-> Appended(x[1], x[2])]
           Eq(g) == g = [n \in 0 .. N |-> IF n = 0 THEN <<>> ELSE Appended(n, g[n - 1])]
           white == CHOOSE g : Eq(g)
<1>1. N \in Nat /\ <<>> \in S
  OBVIOUS
<1>2. \A n \in 1 .. N : all[n] \in Peers
  BY <1>1
<1>3. ASSUME NEW n \in 1 .. N, NEW s \in S PROVE Appended(n, s) \in S
  BY <1>2
<1>4. CloserThanSelf(all, target) = white[N]
  BY DEF CloserThanSelf
<1> HIDE DEF Appended
<1>5. F \in [(1 .. N) \X S -> S]
  BY <1>3
<1>6. \A n \in 1 .. N, s \in S : F[<<n, s>>] = Appended(n, s)
  OBVIOUS
<1> HIDE DEF F, S, N
<1>7. PICK g : Recurses(g, N, S, <<>>, F)
  <2>1. N \in Nat /\ <<>> \in S /\ F \in [(1 .. N) \X S -> S]
    BY <1>1, <1>5
  <2> HIDE <1>1, <1>2, <1>3, <1>4, <1>5, <1>6
  <2> QED BY <2>1, Recursion, Zenon
<1>8. Eq(g)
  <2>1. ASSUME NEW n \in 1 .. N PROVE g[n] = Appended(n, g[n - 1])
    <3>1. g[n - 1] \in S
      BY <1>1, <1>7 DEF Recurses
    <3> QED BY <1>6, <1>7, <3>1 DEF Recurses
  <2> QED BY <1>1, <1>7, <2>1 DEF Recurses
<1>9. Eq(white)
  <2> HIDE DEF Eq
  <2> QED BY <1>8
<1> HIDE DEF white
<1>10. /\ white[0] = <<>>
       /\ \A n \in 1 .. N : white[n] = Appended(n, white[n - 1])
  BY <1>1, <1>9
<1> DEFINE T == {n \in Nat : white[n] \in S}
<1>11. \A n \in 1 .. N : n - 1 \in T => n \in T
  BY <1>3, <1>10
<1>12. 0 \in T
  BY <1>1, <1>10
<1>13. N \in T
  <2> HIDE DEF T
  <2>1. \A n \in 0 .. N : n \in T
    BY <1>1, <1>11, <1>12, Induction
  <2> QED BY <1>1, <2>1
<1> QED BY <1>4, <1>13 DEF S

\* The search, as far as its properties read it.
SearchType ==
  /\ knows \in [Peers -> SUBSET Peers] /\ start \in SUBSET Peers
  /\ search.white \in Seq(Peers) /\ search.answers \in SUBSET Peers
  /\ search.black \in SUBSET Addresses
  /\ DOMAIN search = DOMAIN NoSearch

\* Whom the search has asked or is still to ask.
ListedPeers == search.black \cup ToSet(search.white)

\* Of a search that goes on or ended without an answer: everybody it started from, and
\* everybody in an answer that was taken, is listed, and the target is not.
Explores ==
  ~search.boot /\ search.pc \in {"loop", "answers", "exhausted"} =>
    /\ start \subseteq ListedPeers /\ search.target \notin ListedPeers
    /\ \A p \in search.black \cap Peers :
         Answer(p, search.target) \subseteq ListedPeers \cup search.answers

\* No answer is left over, and nobody to be asked when it has ended.
AnswersUsed ==
  /\ search.pc \in {"loop", "exhausted"} => search.answers = {}
  /\ search.pc = "exhausted" => search.white = <<>>

SearchOK == SearchType /\ Explores /\ AnswersUsed

\* The places of a sequence behind its head and before a new element.
LEMMA SetOfTail ==
  ASSUME NEW s \in Seq(Peers), s # <<>>
  PROVE  /\ Head(s) \in Peers /\ Tail(s) \in Seq(Peers)
         /\ ToSet(s) = {Head(s)} \cup ToSet(Tail(s))
<1>1. /\ Len(s) \in Nat /\ Len(s) >= 1 /\ DOMAIN s = 1 .. Len(s)
      /\ \A j \in 1 .. Len(s) : s[j] \in Peers
  BY EmptySeq, LenProperties
<1>2. /\ Head(s) = s[1] /\ Tail(s) \in Seq(Peers) /\ Len(Tail(s)) = Len(s) - 1
      /\ DOMAIN Tail(s) = 1 .. Len(s) - 1
      /\ \A j \in 1 .. Len(s) - 1 : Tail(s)[j] = s[j + 1]
  BY <1>1, HeadTailProperties
<1>3. ToSet(s) = {s[j] : j \in 1 .. Len(s)}
  BY <1>1 DEF ToSet
<1>4. ToSet(Tail(s)) = {s[j + 1] : j \in 1 .. Len(s) - 1}
  BY <1>2 DEF ToSet
<1>5. \A j \in 1 .. Len(s) : j = 1 \/ (j - 1 \in 1 .. Len(s) - 1 /\ (j - 1) + 1 = j)
  BY <1>1
<1>6. 1 \in 1 .. Len(s) /\ \A j \in 1 .. Len(s) - 1 : j + 1 \in 1 .. Len(s)
  BY <1>1
<1>7. ASSUME NEW x \in ToSet(s) PROVE x \in {Head(s)} \cup ToSet(Tail(s))
  <2>1. PICK j \in 1 .. Len(s) : x = s[j]
    BY <1>3
  <2>2. CASE j = 1
    BY <1>2, <2>1, <2>2
  <2>3. CASE j - 1 \in 1 .. Len(s) - 1 /\ (j - 1) + 1 = j
    BY <1>4, <2>1, <2>3
  <2> QED BY <1>5, <2>2, <2>3
<1>8. ASSUME NEW x \in {Head(s)} \cup ToSet(Tail(s)) PROVE x \in ToSet(s)
  BY <1>2, <1>3, <1>4, <1>6
<1>9. ToSet(s) = {Head(s)} \cup ToSet(Tail(s))
  BY <1>7, <1>8
<1> QED BY <1>1, <1>2, <1>6, <1>9

LEMMA SetOfAppend ==
  ASSUME NEW s \in Seq(Peers), NEW a \in Peers
  PROVE  Append(s, a) \in Seq(Peers) /\ ToSet(Append(s, a)) = ToSet(s) \cup {a}
<1>1. Len(s) \in Nat /\ DOMAIN s = 1 .. Len(s)
  BY LenProperties
<1>2. /\ Append(s, a) \in Seq(Peers) /\ DOMAIN Append(s, a) = 1 .. Len(s) + 1
      /\ \A j \in 1 .. Len(s) + 1 : Append(s, a)[j] = IF j = Len(s) + 1 THEN a ELSE s[j]
  BY <1>1, AppendProperties
<1>3. ToSet(Append(s, a)) = {Append(s, a)[j] : j \in 1 .. Len(s) + 1}
  BY <1>2 DEF ToSet
<1>4. ToSet(s) = {s[j] : j \in 1 .. Len(s)}
  BY <1>1 DEF ToSet
<1>5. \A j \in 1 .. Len(s) + 1 : j = Len(s) + 1 \/ j \in 1 .. Len(s)
  BY <1>1
<1>6. /\ Len(s) + 1 \in 1 .. Len(s) + 1
      /\ \A j \in 1 .. Len(s) : j \in 1 .. Len(s) + 1 /\ j # Len(s) + 1
  BY <1>1
<1> QED BY <1>2, <1>3, <1>4, <1>5, <1>6

\* Self is none of the peers.
LEMMA SelfApart == Self \notin Peers
BY SwarmAssumption

\* What a peer answers.
LEMMA AnswersArePeers ==
  ASSUME SearchType, NEW p \in Peers, NEW target
  PROVE  Answer(p, target) \in SUBSET Peers
BY DEF SearchType, Answer

\* A step that the search does not notice.
LEMMA SearchStays ==
  ASSUME SearchOK, UNCHANGED <<knows, search, start>>
  PROVE  SearchOK'
BY DEF SearchOK, SearchType, Explores, AnswersUsed, ListedPeers, Answer

\* A query begins.
LEMMA QueryKeeps ==
  ASSUME BucketsOK, SearchOK, NEW target \in Addresses, NEW limit \in Depths, Query(target, limit)
  PROVE  SearchOK'
<1> DEFINE boot == target = Self
           all == MultiAddresses
           white == IF boot THEN all ELSE CloserThanSelf(all, target)
           next == IF target \in ToSet(white) THEN "found" ELSE "loop"
<1>1. /\ search' = [NoSearch EXCEPT !.pc = next, !.target = target, !.depth = limit, !.boot = boot,
                                    !.white = white, !.black = {Self}]
      /\ start' = ToSet(white) /\ UNCHANGED knows
  BY DEF Query
<1>2. white \in Seq(Peers)
  <2>1. all \in Seq(Peers)
    BY AddressesArePeers
  <2> HIDE DEF all
  <2> QED BY <2>1, CloserArePeers
<1>3. ToSet(white) \in SUBSET Peers
  <2> HIDE DEF white
  <2> QED BY <1>2, LenProperties DEF ToSet
<1> HIDE DEF all, white
<1>4. /\ search'.pc = next /\ search'.target = target /\ search'.boot = boot
      /\ search'.white = white /\ search'.black = {Self} /\ search'.answers = {}
      /\ DOMAIN search' = DOMAIN NoSearch
  BY <1>1 DEF NoSearch
<1>5. SearchType' /\ AnswersUsed'
  <2>1. {Self} \in SUBSET Addresses
    BY DEF Addresses
  <2> QED BY <1>1, <1>2, <1>3, <1>4, <2>1 DEF SearchOK, SearchType, AnswersUsed
<1>6. Explores'
  <2>1. search'.black \cap Peers = {}
    BY <1>4, SelfApart
  <2>2. start' \subseteq ListedPeers' /\ ListedPeers' = {Self} \cup ToSet(white)
    BY <1>1, <1>4 DEF ListedPeers
  <2>3. search'.pc = "loop" => target \notin ToSet(white)
    BY <1>4
  <2>4. next \in {"found", "loop"}
    OBVIOUS
  <2> HIDE DEF next
  <2>5. ~search'.boot => target # Self
    BY <1>4
  <2> QED BY <1>4, <2>1, <2>2, <2>3, <2>4, <2>5 DEF Explores
<1> QED BY <1>5, <1>6 DEF SearchOK

\* The peer at the head of the list is taken off it, and is asked unless it was before.
LEMMA VisitKeeps ==
  ASSUME SearchOK, Searching, UNCHANGED <<knows, start>>,
         NEW next \in {"loop", "answers", "failed"}, NEW answers,
         Visit(next, search.black \cup {Peer}, answers),
         \/ next = "loop" /\ answers = {} /\ (Peer \in search.black \/ search.boot)
         \/ next = "answers" /\ answers = Answer(Peer, search.target)
         \/ next = "failed" /\ answers = {}
  PROVE  SearchOK'
<1>1. /\ search.pc = "loop" /\ search.white # <<>> /\ search.white \in Seq(Peers)
      /\ search.answers = {}
  BY DEF Searching, SearchOK, SearchType, AnswersUsed
<1>2. /\ Peer \in Peers /\ Tail(search.white) \in Seq(Peers)
      /\ ToSet(search.white) = {Peer} \cup ToSet(Tail(search.white))
  BY <1>1, SetOfTail DEF Peer
<1>3. DOMAIN search = DOMAIN NoSearch
  BY DEF SearchOK, SearchType
<1>4. /\ search'.pc = next /\ search'.target = search.target /\ search'.boot = search.boot
      /\ search'.white = Tail(search.white) /\ search'.black = search.black \cup {Peer}
      /\ search'.answers = answers /\ DOMAIN search' = DOMAIN search
  BY <1>3 DEF Visit, NoSearch
<1>5. answers \in SUBSET Peers
  BY <1>2, AnswersArePeers DEF SearchOK
<1>6. SearchType' /\ AnswersUsed'
  <2>1. search'.black \in SUBSET Addresses
    BY <1>2, <1>4 DEF SearchOK, SearchType, Addresses
  <2> QED BY <1>2, <1>3, <1>4, <1>5, <2>1 DEF SearchOK, SearchType, AnswersUsed
<1>7. ListedPeers' = ListedPeers
  BY <1>2, <1>4 DEF ListedPeers
<1>8. Explores'
  <2> SUFFICES ASSUME ~search.boot, next \in {"loop", "answers"}
               PROVE  /\ start \subseteq ListedPeers /\ search.target \notin ListedPeers
                      /\ \A p \in search'.black \cap Peers :
                           Answer(p, search.target) \subseteq ListedPeers \cup answers
    BY <1>4, <1>7 DEF Explores, Answer
  <2>1. /\ start \subseteq ListedPeers /\ search.target \notin ListedPeers
        /\ \A p \in search.black \cap Peers : Answer(p, search.target) \subseteq ListedPeers
    BY <1>1 DEF SearchOK, Explores
  <2>2. \A p \in search'.black \cap Peers :
          Answer(p, search.target) \subseteq ListedPeers \cup answers
    BY <1>4, <2>1
  <2> QED BY <2>1, <2>2
<1> QED BY <1>6, <1>8 DEF SearchOK

\* An address of an answer is taken.
LEMMA TakeAnswerKeeps ==
  ASSUME SearchOK, NEW a \in Peers, TakeAnswer(a)
  PROVE  SearchOK'
<1> DEFINE rest == [search EXCEPT !.answers = @ \ {a}]
<1>1. search.pc = "answers" /\ a \in search.answers /\ UNCHANGED <<knows, start>>
  BY DEF TakeAnswer
<1>2. DOMAIN search = DOMAIN NoSearch /\ search.white \in Seq(Peers)
  BY DEF SearchOK, SearchType
<1>3. CASE a = search.target /\ ~search.boot
  <2>1. search' = [rest EXCEPT !.pc = "found"]
    BY <1>3 DEF TakeAnswer
  <2>2. /\ search'.pc = "found" /\ search'.white = search.white /\ search'.black = search.black
        /\ search'.answers = search.answers \ {a} /\ DOMAIN search' = DOMAIN search
    BY <1>2, <2>1 DEF NoSearch
  <2> QED BY <1>1, <2>2 DEF SearchOK, SearchType, Explores, AnswersUsed
<1>4. CASE ~(a = search.target /\ ~search.boot) /\ a \in search.black
  <2>1. search' = rest
    BY <1>4 DEF TakeAnswer
  <2>2. /\ search'.pc = search.pc /\ search'.target = search.target /\ search'.boot = search.boot
        /\ search'.white = search.white /\ search'.black = search.black
        /\ search'.answers = search.answers \ {a} /\ DOMAIN search' = DOMAIN search
    BY <1>2, <2>1 DEF NoSearch
  <2>3. ListedPeers' = ListedPeers /\ a \in ListedPeers
    BY <1>4, <2>2 DEF ListedPeers
  <2>4. SearchType' /\ AnswersUsed'
    BY <1>1, <2>2 DEF SearchOK, SearchType, AnswersUsed
  <2>5. Explores'
    BY <1>1, <2>2, <2>3 DEF SearchOK, Explores, Answer
  <2> QED BY <2>4, <2>5 DEF SearchOK
<1>5. CASE ~(a = search.target /\ ~search.boot) /\ a \notin search.black
  <2>1. search' = [rest EXCEPT !.white = Append(@, a)]
    BY <1>5 DEF TakeAnswer
  <2>2. /\ search'.pc = search.pc /\ search'.target = search.target /\ search'.boot = search.boot
        /\ search'.white = Append(search.white, a) /\ search'.black = search.black
        /\ search'.answers = search.answers \ {a} /\ DOMAIN search' = DOMAIN search
    BY <1>2, <2>1 DEF NoSearch
  <2>3. ListedPeers' = ListedPeers \cup {a} /\ search'.white \in Seq(Peers)
    BY <1>2, <2>2, SetOfAppend DEF ListedPeers
  <2>4. SearchType' /\ AnswersUsed'
    BY <1>1, <2>2, <2>3 DEF SearchOK, SearchType, AnswersUsed
  <2>5. Explores'
    BY <1>1, <1>5, <2>2, <2>3 DEF SearchOK, Explores, Answer
  <2> QED BY <2>4, <2>5 DEF SearchOK
<1> QED BY <1>3, <1>4, <1>5

\* Before the first query.
LEMMA SearchInit == SwarmInit => SearchOK
<1> SUFFICES ASSUME SwarmInit PROVE SearchOK
  OBVIOUS
<1>1. knows \in [Peers -> SUBSET Peers] /\ search = NoSearch /\ start = {}
  BY DEF SwarmInit
<1>2. <<>> \in Seq(Peers)
  OBVIOUS
<1> QED BY <1>1, <1>2 DEF SearchOK, SearchType, Explores, AnswersUsed, NoSearch

\* Every step keeps what is known of the search.
LEMMA SearchNext == SwarmIInv /\ SearchOK /\ [SwarmNext]_swarmVars => SearchOK'
<1> SUFFICES ASSUME SwarmIInv, SearchOK, [SwarmNext]_swarmVars PROVE SearchOK'
  OBVIOUS
<1>1. ASSUME \/ \E t \in Updaters : UpdaterStep(t)
             \/ \E t \in Handlers, peer \in Peers : Ping(t, peer)
             \/ \E a \in Peers : Flip(a)
             \/ UNCHANGED swarmVars
      PROVE  SearchOK'
  <2>1. ASSUME NEW t \in Updaters, UpdaterStep(t) PROVE UNCHANGED <<knows, search, start>>
    BY <2>1 DEF UpdaterStep, UpdateDHT, PruneDHT, PruneRemoves, PruneRefreshes, UpdateAgain, restVars
  <2>2. ASSUME NEW t \in Handlers, NEW peer \in Peers, Ping(t, peer)
        PROVE  UNCHANGED <<knows, search, start>>
    BY <2>2 DEF Ping
  <2>3. UNCHANGED swarmVars => UNCHANGED <<knows, search, start>>
    BY DEF swarmVars
  <2>4. ASSUME NEW peer \in Peers, Flip(peer) PROVE UNCHANGED <<knows, search, start>>
    BY <2>4 DEF Flip
  <2>5. UNCHANGED <<knows, search, start>>
    BY <1>1, <2>1, <2>2, <2>3, <2>4
  <2> QED BY <2>5, SearchStays
<1>2. ASSUME NEW target \in Addresses, NEW limit \in Depths, Query(target, limit)
      PROVE  SearchOK'
  BY <1>2, QueryKeeps DEF SwarmIInv
<1>3. CASE SkipPeer
  BY <1>3, VisitKeeps DEF SkipPeer
<1>4. CASE QueryPeer
  BY <1>4, VisitKeeps DEF QueryPeer
<1>5. CASE QueryFails
  BY <1>5, VisitKeeps DEF QueryFails
<1>6. CASE AnswerTaken
  <2>1. /\ search.pc = "answers" /\ search.answers = {} /\ search' = [search EXCEPT !.pc = "loop"]
        /\ UNCHANGED <<knows, start>>
    BY <1>6 DEF AnswerTaken
  <2>2. /\ search'.pc = "loop" /\ search'.target = search.target /\ search'.boot = search.boot
        /\ search'.white = search.white /\ search'.black = search.black
        /\ search'.answers = search.answers /\ DOMAIN search' = DOMAIN search
    BY <2>1 DEF SearchOK, SearchType, NoSearch
  <2> QED BY <2>1, <2>2 DEF SearchOK, SearchType, Explores, AnswersUsed, ListedPeers, Answer
<1>7. CASE QueryReturns
  <2>1. PICK next \in {"exhausted", "returned"} :
          /\ search.pc = "loop" /\ search' = [search EXCEPT !.pc = next]
          /\ next = "exhausted" => search.white = <<>>
          /\ UNCHANGED <<knows, start>>
    BY <1>7 DEF QueryReturns
  <2>2. /\ search'.pc = next /\ search'.target = search.target /\ search'.boot = search.boot
        /\ search'.white = search.white /\ search'.black = search.black
        /\ search'.answers = search.answers /\ DOMAIN search' = DOMAIN search
    BY <2>1 DEF SearchOK, SearchType, NoSearch
  <2> QED BY <2>1, <2>2 DEF SearchOK, SearchType, Explores, AnswersUsed, ListedPeers, Answer
<1>8. ASSUME NEW a \in Peers, TakeAnswer(a) PROVE SearchOK'
  BY <1>8, TakeAnswerKeeps
<1> QED BY <1>1, <1>2, <1>3, <1>4, <1>5, <1>6, <1>7, <1>8 DEF SwarmNext

\* What can be reached from a set of peers that holds all of its peers' answers is in it.
LEMMA ReachableWithin ==
  ASSUME SearchType, NEW All \in SUBSET Peers, start \subseteq All,
         \A p \in All : Answer(p, search.target) \subseteq All
  PROVE  Reachable \subseteq All
<1> DEFINE N == Cardinality(Peers)
           S == SUBSET Peers
           Further(known) == known \cup UNION {Answer(peer, search.target) : peer \in known}
           F == [x \in (1 .. N) \X S |-> Further(x[2])]
           Eq(g) == g = [n \in 0 .. N |-> IF n = 0 THEN start ELSE Further(g[n - 1])]
<1>1. N \in Nat /\ start \in S
  BY SwarmAssumption, FS_CardinalityType DEF SearchType
<1>2. ASSUME NEW known \in S PROVE Further(known) \in S
  BY AnswersArePeers
<1>3. ASSUME NEW known \in SUBSET All PROVE Further(known) \in SUBSET All
  OBVIOUS
<1>4. Eq(ReachableIn) <=>
        ReachableIn = [n \in 0 .. N |-> IF n = 0 THEN start
          ELSE ReachableIn[n - 1] \cup UNION {Answer(peer, search.target) : peer \in ReachableIn[n - 1]}]
  OBVIOUS
<1>5. (\E g : Eq(g)) => Eq(ReachableIn)
  BY Zenon DEF ReachableIn
<1> HIDE DEF Further
<1>6. F \in [(1 .. N) \X S -> S] /\ \A n \in 1 .. N, known \in S : F[<<n, known>>] = Further(known)
  BY <1>2
<1> HIDE DEF F, S, N
<1>7. PICK g : Recurses(g, N, S, start, F)
  <2>1. N \in Nat /\ start \in S /\ F \in [(1 .. N) \X S -> S]
    BY <1>1, <1>6
  <2> HIDE <1>1, <1>2, <1>3, <1>4, <1>5, <1>6
  <2> QED BY <2>1, Recursion, Zenon
<1>8. Eq(g)
  <2>1. ASSUME NEW n \in 1 .. N PROVE g[n] = Further(g[n - 1])
    <3>1. g[n - 1] \in S
      BY <1>1, <1>7 DEF Recurses
    <3> QED BY <1>6, <1>7, <3>1 DEF Recurses
  <2>2. \A n \in 0 .. N : n = 0 \/ n \in 1 .. N
    BY <1>1
  <2>3. \A n \in 0 .. N : g[n] = IF n = 0 THEN start ELSE Further(g[n - 1])
    BY <1>7, <2>1, <2>2 DEF Recurses
  <2>4. g \in [0 .. N -> S]
    BY <1>7 DEF Recurses
  <2> QED BY <2>3, <2>4, Zenon
<1>9. Eq(ReachableIn)
  <2> HIDE DEF Eq
  <2> QED BY <1>5, <1>8
<1>10. /\ ReachableIn[0] = start
       /\ \A n \in 1 .. N : ReachableIn[n] = Further(ReachableIn[n - 1])
  <2>1. 0 \in 0 .. N /\ \A n \in 1 .. N : n \in 0 .. N /\ n # 0
    BY <1>1
  <2>2. \A n \in 0 .. N : ReachableIn[n] = IF n = 0 THEN start ELSE Further(ReachableIn[n - 1])
    BY <1>9, Zenon
  <2> HIDE <1>9
  <2> QED BY <2>1, <2>2, Zenon
<1> HIDE DEF Eq
<1> DEFINE T == {n \in Nat : ReachableIn[n] \in SUBSET All}
<1>11. ASSUME NEW n \in 1 .. N, n - 1 \in T PROVE n \in T
  <2>1. ReachableIn[n - 1] \in SUBSET All
    BY <1>11
  <2>2. ReachableIn[n] \in SUBSET All
    BY <1>3, <1>10, <2>1
  <2> QED BY <2>2
<1>12. 0 \in T
  BY <1>10
<1>13. N \in T
  <2> HIDE DEF T
  <2>1. \A n \in 0 .. N : n \in T
    BY <1>1, <1>11, <1>12, Induction
  <2> QED BY <1>1, <2>1
<1> QED BY <1>13 DEF Reachable, N

\* A search without a limit that ends without an answer has reached everybody it could,
\* following any answers of any peers, and none of them was the target: what query of
\* swarm/swarm.go promises for a depth below zero, while peers come and go and other
\* goroutines change the DHT.
THEOREM SearchesEverybody == SwarmSpec => []SearchExhaustive
<1>1. SwarmIInv /\ SearchOK => SearchExhaustive
  <2> SUFFICES ASSUME SearchOK, search.pc = "exhausted", ~search.boot
               PROVE  search.target \notin Reachable
    BY DEF SearchExhaustive
  <2> DEFINE All == search.black \cap Peers
  <2>1. search.white = <<>> /\ search.answers = {} /\ SearchType
    BY DEF SearchOK, AnswersUsed
  <2>2. ListedPeers = search.black
    BY <2>1 DEF ListedPeers, ToSet
  <2>3. /\ start \subseteq search.black /\ search.target \notin search.black
        /\ \A p \in All : Answer(p, search.target) \subseteq search.black
    BY <2>1, <2>2 DEF SearchOK, Explores
  <2>4. start \subseteq All /\ \A p \in All : Answer(p, search.target) \subseteq All
    BY <2>1, <2>3, AnswersArePeers DEF SearchType
  <2> HIDE DEF All
  <2>5. All \in SUBSET Peers
    BY DEF All
  <2>6. Reachable \subseteq All
    BY <2>1, <2>4, <2>5, ReachableWithin
  <2> QED BY <2>3, <2>6 DEF All
<1> QED BY <1>1, SwarmInvariant, SwarmInitIInv, SearchInit, SearchNext, PTL DEF SwarmSpec

\* The variables of the DHT and of the search have their types.
THEOREM SwarmTypeCorrect == SwarmSpec => []SwarmTypeOK
<1>1. SwarmIInv /\ SearchOK /\ up \subseteq Peers => SwarmTypeOK
  <2> SUFFICES ASSUME SwarmIInv, SearchOK, up \subseteq Peers PROVE SwarmTypeOK
    OBVIOUS
  <2>1. ToSet(search.white) \subseteq Peers
    BY DEF SearchOK, SearchType, ToSet
  <2> QED BY <2>1 DEF SwarmTypeOK, SwarmIInv, BucketsOK, UpdatesOK, UpdateType, SearchOK, SearchType
<1>2. SwarmInit => up \subseteq Peers
  BY DEF SwarmInit
<1>3. up \subseteq Peers /\ [SwarmNext]_swarmVars => (up \subseteq Peers)'
  <2> SUFFICES ASSUME up \subseteq Peers, [SwarmNext]_swarmVars PROVE up' \subseteq Peers
    OBVIOUS
  <2>1. ASSUME NEW peer \in Peers, Flip(peer) PROVE up' \subseteq Peers
    BY <2>1 DEF Flip
  <2>2. ASSUME NEW t \in Updaters, UpdaterStep(t) PROVE up' = up
    BY <2>2 DEF UpdaterStep, UpdateDHT, PruneDHT, PruneRemoves, PruneRefreshes, UpdateAgain, restVars
  <2>3. ASSUME NEW t \in Handlers, NEW peer \in Peers, Ping(t, peer) PROVE up' = up
    BY <2>3 DEF Ping
  <2>4. ASSUME NEW target \in Addresses, NEW limit \in Depths, Query(target, limit) PROVE up' = up
    BY <2>4 DEF Query
  <2>5. ASSUME NEW a \in Peers, TakeAnswer(a) PROVE up' = up
    BY <2>5 DEF TakeAnswer
  <2>6. ASSUME SkipPeer \/ QueryPeer \/ QueryFails \/ AnswerTaken \/ QueryReturns PROVE up' = up
    BY <2>6 DEF SkipPeer, QueryPeer, QueryFails, AnswerTaken, QueryReturns
  <2>7. UNCHANGED swarmVars => up' = up
    BY DEF swarmVars
  <2> QED BY <2>1, <2>2, <2>3, <2>4, <2>5, <2>6, <2>7 DEF SwarmNext
<1> QED BY <1>1, <1>2, <1>3, SearchInit, SearchNext, SwarmInitIInv, SwarmNextIInv, PTL DEF SwarmSpec
-----------------------------------------------------------------------------
(* Crypter: the caches. *)

\* The entry of an address is taken out of a cache.
LEMMA EntryRemoved ==
  ASSUME NEW S, NEW cache \in Seq(S), WellFormed(cache), NEW addr,
         NEW rest, rest = WithoutEntry(cache, addr)
  PROVE  /\ rest \in Seq(S) /\ Len(rest) <= CacheLimit
         /\ \A i \in 1 .. Len(rest) :
              rest[i].addr # addr /\ \E j \in 1 .. Len(cache) : rest[i] = cache[j]
         /\ \A i, j \in 1 .. Len(rest) : rest[i].addr = rest[j].addr => i = j
<1>1. Len(cache) \in Nat /\ DOMAIN cache = 1 .. Len(cache)
  BY LenProperties
<1>2. /\ Len(cache) <= CacheLimit
      /\ \A i, j \in 1 .. Len(cache) : cache[i].addr = cache[j].addr => i = j
  BY <1>1 DEF WellFormed
<1>3. CASE ~\E i \in 1 .. Len(cache) : cache[i].addr = addr
  <2>1. rest = cache
    BY <1>3 DEF WithoutEntry, RemoveFirstMatch
  <2> QED BY <1>2, <1>3, <2>1
<1>4. CASE \E i \in 1 .. Len(cache) : cache[i].addr = addr
  <2>1. PICK i \in 1 .. Len(cache) : rest = RemoveAt(cache, i) /\ cache[i].addr = addr
    <3> DEFINE I == {i \in 1 .. Len(cache) : cache[i].addr = addr}
    <3>1. I # {} /\ I \in SUBSET Nat
      BY <1>1, <1>4
    <3>2. rest = RemoveAt(cache, Min(I))
      BY <1>4, <3>1 DEF WithoutEntry, RemoveFirstMatch, SelectInSeq
    <3>3. Min(I) \in I
      BY <3>1, MinIn
    <3> QED BY <3>2, <3>3
  <2>2. /\ rest \in Seq(S) /\ Len(rest) = Len(cache) - 1
        /\ \A j \in 1 .. Len(cache) - 1 : rest[j] = IF j < i THEN cache[j] ELSE cache[j + 1]
    BY <2>1, RemoveAtProperties
  <2>3. Len(rest) <= CacheLimit
    BY <1>1, <1>2, <2>2, CrypterAssumption
  <2>4. ASSUME NEW j \in 1 .. Len(rest)
        PROVE  \E l \in 1 .. Len(cache) : /\ rest[j] = cache[l]
                                          /\ (l = j /\ j < i) \/ (l = j + 1 /\ j >= i)
    <3>1. CASE j < i
      BY <1>1, <2>2, <3>1
    <3>2. CASE j >= i
      BY <1>1, <2>2, <3>2
    <3> QED BY <1>1, <2>2, <3>1, <3>2
  <2>5. ASSUME NEW j \in 1 .. Len(rest)
        PROVE  rest[j].addr # addr /\ \E l \in 1 .. Len(cache) : rest[j] = cache[l]
    <3>1. PICK l \in 1 .. Len(cache) : rest[j] = cache[l] /\ l # i
      BY <1>1, <2>2, <2>4
    <3> QED BY <1>2, <2>1, <3>1
  <2>6. ASSUME NEW j \in 1 .. Len(rest), NEW l \in 1 .. Len(rest), rest[j].addr = rest[l].addr
        PROVE  j = l
    <3>1. PICK m \in 1 .. Len(cache) : /\ rest[j] = cache[m]
                                       /\ (m = j /\ j < i) \/ (m = j + 1 /\ j >= i)
      BY <2>4
    <3>2. PICK n \in 1 .. Len(cache) : /\ rest[l] = cache[n]
                                       /\ (n = l /\ l < i) \/ (n = l + 1 /\ l >= i)
      BY <2>4
    <3>3. m = n
      BY <1>2, <2>6, <3>1, <3>2
    <3> QED BY <1>1, <2>2, <3>1, <3>2, <3>3
  <2> QED BY <2>2, <2>3, <2>5, <2>6
<1> QED BY <1>3, <1>4

\* The entry of the address is what the contract says if it was outdated, and all others
\* say what they did.
UpdatedFrom(cache, addr, current, new) ==
  \A i \in DOMAIN new :
    \/ new[i].addr = addr /\ Outdated(cache, addr) /\ new[i].value = current
    \/ /\ new[i].addr = addr => ~Outdated(cache, addr)
       /\ \E j \in DOMAIN cache :
            cache[j].addr = new[i].addr /\ cache[j].value = new[i].value

\* What updateRegistryCache and updatePublicKeyCache leave: the entry of the address is
\* what the contract says if it was outdated, and all others are as they were.
LEMMA UpdateProperties ==
  ASSUME NEW values, NEW cache \in Seq(Entries(values)), WellFormed(cache), NEW addr \in Addrs,
         NEW current, Outdated(cache, addr) => current \in values,
         NEW new, new = Update(cache, addr, current)
  PROVE  new \in Seq(Entries(values)) /\ WellFormed(new) /\ UpdatedFrom(cache, addr, current, new)
<1>1. Len(cache) \in Nat /\ DOMAIN cache = 1 .. Len(cache)
  BY LenProperties
<1>2. PICK rest : rest = WithoutEntry(cache, addr)
  OBVIOUS
<1>3. /\ rest \in Seq(Entries(values)) /\ Len(rest) <= CacheLimit
      /\ \A i \in 1 .. Len(rest) :
           rest[i].addr # addr /\ \E j \in 1 .. Len(cache) : rest[i] = cache[j]
      /\ \A i, j \in 1 .. Len(rest) : rest[i].addr = rest[j].addr => i = j
  BY <1>2, EntryRemoved
<1>4. PICK value : value = IF Outdated(cache, addr) THEN current ELSE Value(cache, addr)
  OBVIOUS
<1>5. ~Outdated(cache, addr) => \E j \in 1 .. Len(cache) : cache[j].addr = addr /\ cache[j].value = value
  <2> SUFFICES ASSUME ~Outdated(cache, addr)
               PROVE  \E j \in 1 .. Len(cache) : cache[j].addr = addr /\ cache[j].value = value
    OBVIOUS
  <2>1. \E j \in DOMAIN cache : cache[j].addr = addr
    BY DEF Outdated
  <2>2. PICK j : j = CHOOSE i \in DOMAIN cache : cache[i].addr = addr
    OBVIOUS
  <2>3. j \in DOMAIN cache /\ cache[j].addr = addr
    BY <2>1, <2>2
  <2>4. value = cache[j].value
    BY <1>4, <2>2 DEF Value
  <2> QED BY <1>1, <2>3, <2>4
<1>6. value \in values
  <2>1. CASE Outdated(cache, addr)
    BY <1>4, <2>1
  <2>2. CASE ~Outdated(cache, addr)
    <3>1. PICK j \in 1 .. Len(cache) : cache[j].value = value
      BY <1>5, <2>2
    <3>2. cache[j] \in Entries(values)
      BY <1>1
    <3> QED BY <3>1, <3>2 DEF Entries
  <2> QED BY <2>1, <2>2
<1>7. PICK entry \in Entries(values) : entry = [addr |-> addr, age |-> 0, value |-> value]
  <2>1. 0 \in 0 .. Period + 1
    BY CrypterAssumption
  <2> QED BY <1>6, <2>1 DEF Entries
<1>8. PICK all \in Seq(Entries(values)) : all = Append(rest, entry)
  BY <1>3, AppendProperties
<1>9. /\ Len(rest) \in Nat /\ Len(all) = Len(rest) + 1
      /\ \A i \in 1 .. Len(rest) : all[i] = rest[i]
      /\ all[Len(rest) + 1] = entry
  BY <1>3, <1>8, AppendProperties, LenProperties
<1>10. new = IF Len(all) > CacheLimit THEN Tail(all) ELSE all
  BY <1>2, <1>4, <1>7, <1>8 DEF Update
<1>11. \A i, j \in 1 .. Len(all) : all[i].addr = all[j].addr => i = j
  <2> SUFFICES ASSUME NEW i \in 1 .. Len(all), NEW j \in 1 .. Len(all), all[i].addr = all[j].addr
               PROVE  i = j
    OBVIOUS
  <2>1. i \in 1 .. Len(rest) \/ i = Len(rest) + 1
    BY <1>9
  <2>2. j \in 1 .. Len(rest) \/ j = Len(rest) + 1
    BY <1>9
  <2>3. entry.addr = addr
    BY <1>7
  <2> QED BY <1>3, <1>9, <2>1, <2>2, <2>3
<1>12. \A i \in 1 .. Len(all) :
         \/ all[i].addr = addr /\ Outdated(cache, addr) /\ all[i].value = current
         \/ /\ all[i].addr = addr => ~Outdated(cache, addr)
            /\ \E j \in DOMAIN cache : cache[j].addr = all[i].addr /\ cache[j].value = all[i].value
  <2> SUFFICES ASSUME NEW i \in 1 .. Len(all)
               PROVE  \/ all[i].addr = addr /\ Outdated(cache, addr) /\ all[i].value = current
                      \/ /\ all[i].addr = addr => ~Outdated(cache, addr)
                         /\ \E j \in DOMAIN cache :
                              cache[j].addr = all[i].addr /\ cache[j].value = all[i].value
    OBVIOUS
  <2>1. CASE i \in 1 .. Len(rest)
    <3>1. PICK j \in 1 .. Len(cache) : rest[i] = cache[j]
      BY <1>3, <2>1
    <3>2. all[i] = cache[j] /\ all[i].addr # addr
      BY <1>3, <1>9, <2>1, <3>1
    <3> QED BY <1>1, <3>2
  <2>2. CASE i = Len(rest) + 1
    <3>1. all[i].addr = addr /\ all[i].value = value
      BY <1>7, <1>9, <2>2
    <3> QED BY <1>1, <1>4, <1>5, <3>1
  <2> QED BY <1>9, <2>1, <2>2
<1>13. \/ new = all /\ Len(all) <= CacheLimit
       \/ /\ new \in Seq(Entries(values)) /\ Len(new) = Len(all) - 1
          /\ \A i \in 1 .. Len(new) : new[i] = all[i + 1]
  BY <1>8, <1>9, <1>10, HeadTailProperties, CrypterAssumption
<1>14. new \in Seq(Entries(values)) /\ DOMAIN new = 1 .. Len(new) /\ Len(new) \in Nat
  BY <1>13, LenProperties
<1>15. Len(new) <= CacheLimit
  BY <1>3, <1>9, <1>13, CrypterAssumption
<1>16. \A i \in 1 .. Len(new) : \E j \in 1 .. Len(all) : new[i] = all[j]
  BY <1>9, <1>13, <1>14
<1>17. ASSUME NEW i \in 1 .. Len(new), NEW j \in 1 .. Len(new), new[i].addr = new[j].addr
       PROVE  i = j
  <2>1. CASE new = all
    BY <1>11, <1>17, <2>1
  <2>2. CASE Len(new) = Len(all) - 1 /\ \A m \in 1 .. Len(new) : new[m] = all[m + 1]
    <3>1. i + 1 \in 1 .. Len(all) /\ j + 1 \in 1 .. Len(all)
      BY <1>9, <1>14, <2>2
    <3>2. i + 1 = j + 1
      BY <1>11, <1>17, <2>2, <3>1
    <3> QED BY <1>14, <3>2
  <2> QED BY <1>13, <2>1, <2>2
<1>18. WellFormed(new)
  BY <1>14, <1>15, <1>17 DEF WellFormed
<1>19. UpdatedFrom(cache, addr, current, new)
  <2> SUFFICES ASSUME NEW i \in 1 .. Len(new)
               PROVE  \/ new[i].addr = addr /\ Outdated(cache, addr) /\ new[i].value = current
                      \/ /\ new[i].addr = addr => ~Outdated(cache, addr)
                         /\ \E j \in DOMAIN cache :
                              cache[j].addr = new[i].addr /\ cache[j].value = new[i].value
    BY <1>14 DEF UpdatedFrom
  <2>1. PICK j \in 1 .. Len(all) : new[i] = all[j]
    BY <1>16
  <2> QED BY <1>12, <2>1
<1> QED BY <1>14, <1>18, <1>19

\* Whether the contract has the address registered.
Registered(addr) == keyOf[addr] # Nobody

\* The parts of CachesCurrent.
RegistryOK ==
  /\ registry \in Seq(Entries(BOOLEAN)) /\ WellFormed(registry)
  /\ \A i \in DOMAIN registry :
       \/ registry[i].value = Registered(registry[i].addr)
       \/ <<"registry", registry[i].addr>> \in unseen
PublicKeysOK ==
  /\ publicKeys \in Seq(Entries(PublicKeys)) /\ WellFormed(publicKeys)
  /\ \A i \in DOMAIN publicKeys :
       \/ publicKeys[i].value = keyOf[publicKeys[i].addr]
       \/ <<"publicKeys", publicKeys[i].addr>> \in unseen
ContractOK ==
  /\ keyOf \in [Addrs -> PublicKeys \cup {Nobody}]
  /\ encrypting \in Addrs \cup {Nobody}
  /\ unseen \subseteq {"registry", "publicKeys"} \X Addrs

\* The inductive invariant of the Crypter: here what the runs check is one.
CrypterIInv == CrypterTypeOK /\ CachesCurrent

\* It is the conjunction of its parts, ...
LEMMA CrypterParts == CrypterIInv <=> RegistryOK /\ PublicKeysOK /\ ContractOK
BY Zenon DEF CrypterIInv, CrypterTypeOK, CachesCurrent, RegistryOK, PublicKeysOK, ContractOK, Registered

\* ... in the next state too.
LEMMA CrypterPartsNext == CrypterIInv' <=> RegistryOK' /\ PublicKeysOK' /\ ContractOK'
BY Zenon DEF CrypterIInv, CrypterTypeOK, CachesCurrent, RegistryOK, PublicKeysOK, ContractOK, Registered

\* verifyAddress.
LEMMA RegistryUpdated ==
  ASSUME CrypterIInv, NEW addr \in Addrs,
         registry' = Update(registry, addr, keyOf[addr] # Nobody),
         Seen("registry", registry, addr), UNCHANGED <<keyOf, publicKeys>>,
         encrypting' \in Addrs \cup {Nobody}
  PROVE  CrypterIInv'
<1>1. RegistryOK /\ PublicKeysOK /\ ContractOK
  BY CrypterParts
<1>2. PICK current \in BOOLEAN : current = Registered(addr)
  BY Zenon DEF Registered
<1>3. PICK cache \in Seq(Entries(BOOLEAN)) : cache = registry
  BY <1>1 DEF RegistryOK
<1>4. PICK new : new = Update(cache, addr, current)
  OBVIOUS
<1>5. registry' = new
  BY <1>2, <1>3, <1>4, Zenon DEF Registered
<1>6. PICK marks : marks = unseen
  OBVIOUS
<1>7. unseen' = IF Outdated(cache, addr) THEN marks \ {<<"registry", addr>>} ELSE marks
  BY <1>3, <1>6 DEF Seen, Outdated
<1>8. new \in Seq(Entries(BOOLEAN)) /\ WellFormed(new) /\ UpdatedFrom(cache, addr, current, new)
  <2>1. WellFormed(cache)
    BY <1>1, <1>3 DEF RegistryOK
  <2> QED BY <1>4, <2>1, UpdateProperties, Zenon
<1>9. \A i \in DOMAIN cache :
        cache[i].value = Registered(cache[i].addr) \/ <<"registry", cache[i].addr>> \in marks
  BY <1>1, <1>3, <1>6 DEF RegistryOK
<1>10. ASSUME NEW i \in DOMAIN new
       PROVE  new[i].value = Registered(new[i].addr) \/ <<"registry", new[i].addr>> \in unseen'
  <2>1. CASE new[i].addr = addr /\ Outdated(cache, addr) /\ new[i].value = current
    BY <1>2, <2>1
  <2>2. CASE (new[i].addr = addr => ~Outdated(cache, addr))
             /\ \E j \in DOMAIN cache : cache[j].addr = new[i].addr /\ cache[j].value = new[i].value
    <3>1. new[i].value = Registered(new[i].addr) \/ <<"registry", new[i].addr>> \in marks
      BY <1>9, <2>2
    <3>2. <<"registry", new[i].addr>> \in marks => <<"registry", new[i].addr>> \in unseen'
      BY <1>7, <2>2
    <3> QED BY <3>1, <3>2
  <2> QED BY <1>8, <2>1, <2>2 DEF UpdatedFrom
<1>11. \A a : Registered(a)' = Registered(a)
  BY DEF Registered
<1>12. RegistryOK'
  BY <1>5, <1>8, <1>10, <1>11 DEF RegistryOK
<1>13. /\ unseen' \subseteq unseen
       /\ \A a : <<"publicKeys", a>> \in unseen => <<"publicKeys", a>> \in unseen'
  BY <1>6, <1>7
<1>14. PublicKeysOK'
  BY <1>1, <1>13 DEF PublicKeysOK
<1>15. ContractOK'
  BY <1>1, <1>13 DEF ContractOK
<1> QED BY <1>12, <1>14, <1>15, CrypterPartsNext

\* encryptToAddress: as above, of the other cache.
LEMMA EncryptToAddressKeeps ==
  ASSUME CrypterIInv, EncryptToAddress
  PROVE  CrypterIInv'
<1>1. RegistryOK /\ PublicKeysOK /\ ContractOK
  BY CrypterParts
<1>2. PICK addr \in Addrs : addr = encrypting
  BY <1>1 DEF ContractOK, EncryptToAddress, MutexesFree
<1>3. PICK current : current = keyOf[addr]
  OBVIOUS
<1>4. PICK cache \in Seq(Entries(PublicKeys)) : cache = publicKeys
  BY <1>1 DEF PublicKeysOK
<1>5. PICK new : new = Update(cache, addr, current)
  OBVIOUS
<1>6. PICK marks : marks = unseen
  OBVIOUS
<1>7. /\ ~Outdated(cache, addr) \/ current # Nobody
      /\ publicKeys' = new /\ encrypting' = Nobody /\ UNCHANGED <<keyOf, registry>>
      /\ unseen' = IF Outdated(cache, addr) THEN marks \ {<<"publicKeys", addr>>} ELSE marks
  BY <1>2, <1>3, <1>4, <1>5, <1>6 DEF EncryptToAddress, Seen, Outdated
<1>8. new \in Seq(Entries(PublicKeys)) /\ WellFormed(new) /\ UpdatedFrom(cache, addr, current, new)
  <2>1. WellFormed(cache)
    BY <1>1, <1>4 DEF PublicKeysOK
  <2>2. Outdated(cache, addr) => current \in PublicKeys
    BY <1>1, <1>3, <1>7 DEF ContractOK
  <2> QED BY <1>5, <2>1, <2>2, UpdateProperties
<1>9. \A i \in DOMAIN cache :
        cache[i].value = keyOf[cache[i].addr] \/ <<"publicKeys", cache[i].addr>> \in marks
  BY <1>1, <1>4, <1>6 DEF PublicKeysOK
<1>10. ASSUME NEW i \in DOMAIN new
       PROVE  new[i].value = keyOf[new[i].addr] \/ <<"publicKeys", new[i].addr>> \in unseen'
  <2>1. CASE new[i].addr = addr /\ Outdated(cache, addr) /\ new[i].value = current
    BY <1>3, <2>1
  <2>2. CASE (new[i].addr = addr => ~Outdated(cache, addr))
             /\ \E j \in DOMAIN cache : cache[j].addr = new[i].addr /\ cache[j].value = new[i].value
    <3>1. new[i].value = keyOf[new[i].addr] \/ <<"publicKeys", new[i].addr>> \in marks
      BY <1>9, <2>2
    <3>2. <<"publicKeys", new[i].addr>> \in marks => <<"publicKeys", new[i].addr>> \in unseen'
      BY <1>7, <2>2
    <3> QED BY <3>1, <3>2
  <2> QED BY <1>8, <2>1, <2>2 DEF UpdatedFrom
<1>11. PublicKeysOK'
  BY <1>7, <1>8, <1>10 DEF PublicKeysOK
<1>12. /\ unseen' \subseteq unseen
       /\ \A a : <<"registry", a>> \in unseen => <<"registry", a>> \in unseen'
  BY <1>6, <1>7
<1>13. \A a : Registered(a)' = Registered(a)
  BY <1>7 DEF Registered
<1>14. RegistryOK'
  BY <1>1, <1>7, <1>12, <1>13 DEF RegistryOK
<1>15. ContractOK'
  BY <1>1, <1>7, <1>12 DEF ContractOK
<1> QED BY <1>11, <1>14, <1>15, CrypterPartsNext

\* The contract changes: whatever the caches hold of the address is marked.
LEMMA ReregisterKeeps ==
  ASSUME CrypterIInv, NEW addr \in Addrs, Reregister(addr)
  PROVE  CrypterIInv'
<1>1. RegistryOK /\ PublicKeysOK /\ ContractOK
  BY CrypterParts
<1>2. PICK key \in PublicKeys \cup {Nobody} : keyOf' = [keyOf EXCEPT ![addr] = key]
  BY DEF Reregister
<1>3. /\ unseen' = unseen \cup {<<"registry", addr>>, <<"publicKeys", addr>>}
      /\ UNCHANGED <<registry, publicKeys, encrypting>>
  BY DEF Reregister
<1>4. ContractOK'
  BY <1>1, <1>2, <1>3 DEF ContractOK
<1>5. /\ \A i \in DOMAIN registry : registry[i].addr \in Addrs
      /\ \A i \in DOMAIN publicKeys : publicKeys[i].addr \in Addrs
  <2>1. \A i \in DOMAIN registry : registry[i] \in Entries(BOOLEAN)
    BY <1>1, LenProperties DEF RegistryOK
  <2>2. \A i \in DOMAIN publicKeys : publicKeys[i] \in Entries(PublicKeys)
    BY <1>1, LenProperties DEF PublicKeysOK
  <2> QED BY <2>1, <2>2 DEF Entries
<1>6. \A a \in Addrs : a # addr => keyOf'[a] = keyOf[a] /\ Registered(a)' = Registered(a)
  BY <1>1, <1>2 DEF ContractOK, Registered
<1>7. RegistryOK'
  BY <1>1, <1>3, <1>5, <1>6 DEF RegistryOK
<1>8. PublicKeysOK'
  BY <1>1, <1>3, <1>5, <1>6 DEF PublicKeysOK
<1> QED BY <1>4, <1>7, <1>8, CrypterPartsNext

\* Time makes entries older, and nothing else.
LEMMA OlderProperties ==
  ASSUME NEW values, NEW cache \in Seq(Entries(values)), WellFormed(cache),
         NEW older, older = OlderEntries(cache)
  PROVE  /\ older \in Seq(Entries(values)) /\ WellFormed(older) /\ DOMAIN older = DOMAIN cache
         /\ \A i \in DOMAIN cache : older[i].addr = cache[i].addr /\ older[i].value = cache[i].value
<1>1. Len(cache) \in Nat /\ DOMAIN cache = 1 .. Len(cache)
  BY LenProperties
<1>2. ASSUME NEW i \in 1 .. Len(cache)
      PROVE  /\ older[i] \in Entries(values)
             /\ older[i].addr = cache[i].addr /\ older[i].value = cache[i].value
  <2>1. PICK entry \in Entries(values) : entry = cache[i]
    OBVIOUS
  <2>2. PICK age : age = IF entry.age > Period THEN entry.age ELSE entry.age + 1
    OBVIOUS
  <2>3. age \in 0 .. Period + 1
    BY <2>2, CrypterAssumption DEF Entries
  <2>4. older[i] = [entry EXCEPT !.age = age]
    BY <1>1, <2>1, <2>2 DEF OlderEntries
  <2> QED BY <2>1, <2>3, <2>4 DEF Entries
<1>3. DOMAIN older = 1 .. Len(cache) /\ older = [i \in 1 .. Len(cache) |-> older[i]]
  BY <1>1 DEF OlderEntries
<1>4. older \in Seq(Entries(values)) /\ Len(older) = Len(cache)
  <2>1. older \in [1 .. Len(cache) -> Entries(values)]
    BY <1>2, <1>3
  <2> QED BY <1>1, <1>3, <2>1
<1>5. WellFormed(older)
  BY <1>1, <1>2, <1>3, <1>4 DEF WellFormed
<1> QED BY <1>1, <1>2, <1>3, <1>4, <1>5

\* Time passes.
LEMMA CachesAgeKeeps ==
  ASSUME CrypterIInv, CachesAge
  PROVE  CrypterIInv'
<1>1. RegistryOK /\ PublicKeysOK /\ ContractOK
  BY CrypterParts
<1>2. /\ registry' = OlderEntries(registry) /\ publicKeys' = OlderEntries(publicKeys)
      /\ UNCHANGED <<keyOf, encrypting, unseen>>
  BY DEF CachesAge
<1>3. /\ registry' \in Seq(Entries(BOOLEAN)) /\ WellFormed(registry') /\ DOMAIN registry' = DOMAIN registry
      /\ \A i \in DOMAIN registry :
           registry'[i].addr = registry[i].addr /\ registry'[i].value = registry[i].value
  BY <1>1, <1>2, OlderProperties DEF RegistryOK
<1>4. /\ publicKeys' \in Seq(Entries(PublicKeys)) /\ WellFormed(publicKeys')
      /\ DOMAIN publicKeys' = DOMAIN publicKeys
      /\ \A i \in DOMAIN publicKeys :
           publicKeys'[i].addr = publicKeys[i].addr /\ publicKeys'[i].value = publicKeys[i].value
  BY <1>1, <1>2, OlderProperties DEF PublicKeysOK
<1>5. \A a : Registered(a)' = Registered(a)
  BY <1>2 DEF Registered
<1>6. RegistryOK'
  BY <1>1, <1>2, <1>3, <1>5 DEF RegistryOK
<1>7. PublicKeysOK'
  BY <1>1, <1>2, <1>4 DEF PublicKeysOK
<1>8. ContractOK'
  BY <1>1, <1>2 DEF ContractOK
<1> QED BY <1>6, <1>7, <1>8, CrypterPartsNext

\* The caches are empty at the start.
LEMMA CrypterInitIInv == CrypterInit => CrypterIInv
<1> SUFFICES ASSUME CrypterInit PROVE CrypterIInv
  OBVIOUS
<1>1. registry = <<>> /\ publicKeys = <<>>
  BY DEF CrypterInit
<1>2. WellFormed(<<>>)
  BY CrypterAssumption DEF WellFormed
<1>3. RegistryOK /\ PublicKeysOK
  BY <1>1, <1>2 DEF RegistryOK, PublicKeysOK
<1>4. ContractOK
  BY DEF ContractOK, CrypterInit
<1> QED BY <1>3, <1>4, CrypterParts

\* Every step keeps the invariant.
LEMMA CrypterNextIInv == CrypterIInv /\ [CrypterNext]_crypterVars => CrypterIInv'
<1> SUFFICES ASSUME CrypterIInv, [CrypterNext]_crypterVars PROVE CrypterIInv'
  OBVIOUS
<1>1. ASSUME NEW addr \in Addrs, Verify(addr) PROVE CrypterIInv'
  BY <1>1, RegistryUpdated, CrypterParts DEF Verify, ContractOK
<1>2. ASSUME NEW addr \in Addrs, EncryptVerifies(addr) PROVE CrypterIInv'
  BY <1>2, RegistryUpdated DEF EncryptVerifies
<1>3. ASSUME NEW addr \in Addrs, Reregister(addr) PROVE CrypterIInv'
  BY <1>3, ReregisterKeeps
<1>4. CASE EncryptFails \/ UNCHANGED crypterVars
  <2>1. UNCHANGED <<keyOf, registry, publicKeys, unseen>> /\ encrypting' \in {encrypting, Nobody}
    BY <1>4 DEF EncryptFails, crypterVars
  <2>2. RegistryOK /\ PublicKeysOK /\ ContractOK
    BY CrypterParts
  <2>3. \A a : Registered(a)' = Registered(a)
    BY <2>1 DEF Registered
  <2>4. RegistryOK' /\ PublicKeysOK' /\ ContractOK'
    BY <2>1, <2>2, <2>3 DEF RegistryOK, PublicKeysOK, ContractOK
  <2> QED BY <2>4, CrypterPartsNext
<1> QED BY <1>1, <1>2, <1>3, <1>4, EncryptToAddressKeeps, CachesAgeKeeps DEF CrypterNext

\* However Verify and Encrypt of registry/registry.go, evictions from their caches and
\* changes of the DarknodeRegistry interleave, a cache differs from the contract only in
\* entries that were in use at least once every cacheUpdatePeriod since the change, holds
\* each address once and stays within cacheLimit.
THEOREM CachesStayCurrent == CrypterSpec => []CachesCurrent
<1>1. CrypterIInv => CachesCurrent
  BY DEF CrypterIInv
<1> QED BY <1>1, CrypterInitIInv, CrypterNextIInv, PTL DEF CrypterSpec
-----------------------------------------------------------------------------
(* Binder. *)

BinderPCs == {"idle", "locking", "sending", "refreshing", "resending", "waiting", "deepening",
        "returned"}

BinderCallType ==
  [pc : BinderPCs, op : Ops \cup {"none"}, sends : 0 .. 3, accepted : 0 .. 3, failed : BOOLEAN,
   tries : Nat, tx : 0 .. MaxNonce, before : 0 .. MaxDepth]

\* The call holds mu.
Holds(c) ==
  \/ caller[c].pc \in {"sending", "refreshing", "resending"}
  \/ Settling(c) /\ caller[c].pc = "waiting"

\* No two calls hold mu: the nonce is read, used and changed by one goroutine at a time.
MutualExclusion == \A c, d \in Callers : Holds(c) /\ Holds(d) => c = d

\* The transactions of a call that sendTx has returned for, and what the chain took of them.
CallOK(call) ==
  /\ call.pc # "idle" => call.op \in Ops
  /\ call.accepted <= call.sends
  /\ call.failed = FALSE => call.accepted = call.sends
  /\ call.pc \in {"locking", "sending", "refreshing", "resending"} => call.sends < Sends(call.op)
  /\ call.pc \in {"waiting", "deepening", "returned"} => call.sends = Sends(call.op)
  /\ call.pc = "waiting" => call.tx < MaxNonce
  /\ call.pc # "idle" => call.before + Blocks <= MaxDepth

CallsInv == \A c \in Callers : CallOK(caller[c])

\* The inductive invariant.
BinderIInv == BinderTypeOK /\ MutualExclusion /\ CallsInv
-----------------------------------------------------------------------------
(* The parts of BinderTypeOK. *)

NonceType == nonce \in 0 .. MaxNonce
CallerType == caller \in [Callers -> BinderCallType]
ChainType ==
  /\ queues \in BOOLEAN
  /\ slot \in [Nonces -> [by : Callers \cup {"nobody", "other"}, op : Ops \cup {"none"}]]
  /\ mined \in 0 .. MaxNonce
  /\ status \in {"none", "open", "canceled", "confirmed"} /\ depth \in 0 .. MaxDepth
CountType == calls \in 0 .. MaxCalls /\ faults \in 0 .. MaxFaults

\* BinderTypeOK is the conjunction of its parts.
LEMMA BinderTypeParts == BinderTypeOK <=> NonceType /\ CallerType /\ ChainType /\ CountType
BY DEF BinderTypeOK, NonceType, CallerType, BinderCallType, BinderPCs, ChainType, CountType

\* And so it is in the next state.
LEMMA BinderTypePartsNext == BinderTypeOK' <=> NonceType' /\ CallerType' /\ ChainType' /\ CountType'
BY DEF BinderTypeOK, NonceType, CallerType, BinderCallType, BinderPCs, ChainType, CountType

\* A step that leaves the calls as they are.
LEMMA CallsStay ==
  ASSUME BinderIInv, UNCHANGED caller, NonceType', ChainType', CountType'
  PROVE  BinderIInv'
<1>1. BinderTypeOK'
  BY BinderTypeParts, BinderTypePartsNext DEF BinderIInv, CallerType
<1>2. MutualExclusion'
  BY DEF BinderIInv, MutualExclusion, Holds, Settling
<1>3. CallsInv'
  BY DEF BinderIInv, CallsInv
<1> QED BY <1>1, <1>2, <1>3 DEF BinderIInv

\* A step of one call, that takes mu only if nobody holds it.
LEMMA CallStepKeeps ==
  ASSUME BinderIInv, NEW c \in Callers, NEW call \in BinderCallType,
         caller' = [caller EXCEPT ![c] = call], CallOK(call),
         NonceType', ChainType', CountType',
         \/ Holds(c) \/ MuFree
         \/ /\ call.pc \notin {"sending", "refreshing", "resending"}
            /\ ~(call.op = "settle" /\ call.pc = "waiting")
  PROVE  BinderIInv'
<1>1. caller \in [Callers -> BinderCallType]
  BY BinderTypeParts DEF BinderIInv, CallerType
<1>2. /\ caller' \in [Callers -> BinderCallType]
      /\ \A d \in Callers : caller'[d] = IF d = c THEN call ELSE caller[d]
  BY <1>1
<1>3. BinderTypeOK'
  BY <1>2, BinderTypePartsNext DEF CallerType
<1>4. \A d \in Callers : d # c => Holds(d)' = Holds(d)
  BY <1>2 DEF Holds, Settling
<1>5. MuFree => \A d \in Callers : ~Holds(d)
  BY DEF MuFree, Holds
<1>6. Holds(c)' => Holds(c) \/ MuFree
  BY <1>2 DEF Holds, Settling
<1>7. MutualExclusion'
  <2> SUFFICES ASSUME NEW d \in Callers, NEW e \in Callers, Holds(d)', Holds(e)'
               PROVE  d = e
    BY DEF MutualExclusion
  <2>1. CASE d # c /\ e # c
    BY <1>4, <2>1 DEF BinderIInv, MutualExclusion
  <2>2. CASE d = c \/ e = c
    BY <1>4, <1>5, <1>6, <2>2 DEF BinderIInv, MutualExclusion
  <2> QED BY <2>1, <2>2
<1>8. CallsInv'
  BY <1>2 DEF BinderIInv, CallsInv
<1> QED BY <1>3, <1>7, <1>8 DEF BinderIInv
-----------------------------------------------------------------------------

\* What the chain may answer: a nonce that is too high is not the first.
LEMMA AnswersProperties ==
  ASSUME BinderTypeOK, nonce < MaxNonce, NEW answer \in Answers(nonce)
  PROVE  /\ answer \in {"ok", "lost", "error", "tooLow", "tooHigh", "nonceError"}
         /\ answer = "tooHigh" => nonce > 0
<1>1. nonce \in Nat /\ mined \in Nat /\ MaxNonce \in Nat /\ mined <= MaxNonce
  BY BinderAssumption DEF BinderTypeOK
<1>2. CASE nonce < mined \/ slot[nonce] # Free
  BY <1>2 DEF Answers
<1>3. CASE ~(nonce < mined \/ slot[nonce] # Free) /\ IsPendingNonce(nonce)
  BY <1>3 DEF Answers
<1>4. CASE ~(nonce < mined \/ slot[nonce] # Free) /\ ~IsPendingNonce(nonce)
  <2>1. answer \in {"ok", "lost", "tooHigh", "nonceError"}
    BY <1>4 DEF Answers
  <2>2. PICK m \in mined .. nonce - 1 : slot[m] = Free
    BY <1>1, <1>4 DEF IsPendingNonce
  <2> QED BY <1>1, <2>1, <2>2
<1> QED BY <1>2, <1>3, <1>4

\* A transaction that is taken has the nonce of the Binder.
LEMMA AcceptKeepsType ==
  ASSUME BinderTypeOK, nonce < MaxNonce, NEW c \in Callers, NEW answer, Accept(c, answer),
         UNCHANGED <<queues, mined, status, depth>>
  PROVE  ChainType'
<1>1. nonce \in Nonces /\ caller[c].op \in Ops \cup {"none"}
  BY BinderAssumption DEF BinderTypeOK, Nonces
<1>2. [by |-> c, op |-> caller[c].op] \in [by : Callers \cup {"nobody", "other"}, op : Ops \cup {"none"}]
  BY <1>1
<1>3. slot' \in [Nonces -> [by : Callers \cup {"nobody", "other"}, op : Ops \cup {"none"}]]
  BY <1>1, <1>2 DEF Accept, BinderTypeOK
<1> QED BY <1>3 DEF BinderTypeOK, ChainType

\* sendTx returns for a transaction: one more is sent, and the chain took it or the call failed.
LEMMA SentKeeps ==
  ASSUME BinderIInv, NEW c \in Callers, caller[c].pc \in {"sending", "refreshing", "resending"},
         NEW answer \in {"ok", "lost", "error"}, Sent(c, answer), answer = "ok" => nonce < MaxNonce,
         NonceType', ChainType', CountType'
  PROVE  BinderIInv'
<1>1. PICK old \in BinderCallType : old = caller[c]
  BY BinderTypeParts DEF BinderIInv, CallerType
<1>2. /\ CallOK(old) /\ old.op \in Ops /\ Sends(old.op) \in 1 .. 3 /\ old.sends < Sends(old.op)
      /\ old.sends \in Nat /\ old.accepted \in Nat /\ old.failed \in BOOLEAN
      /\ old.accepted <= old.sends
  BY <1>1 DEF BinderIInv, CallsInv, CallOK, Sends, BinderCallType
<1>3. PICK next : next = IF ~(old.sends + 1 = Sends(old.op)) THEN "sending"
                         ELSE IF answer = "ok" THEN "waiting" ELSE "returned"
  OBVIOUS
<1>4. PICK accepted : accepted = IF answer = "error" THEN old.accepted ELSE old.accepted + 1
  OBVIOUS
<1>5. PICK failed \in BOOLEAN : failed = (old.failed \/ answer # "ok")
  BY Zenon
<1> DEFINE call == [old EXCEPT !.pc = next, !.sends = @ + 1, !.tries = 0, !.tx = nonce,
                               !.accepted = accepted, !.failed = failed]
<1>6. caller' = [caller EXCEPT ![c] = call]
  <2>1. caller' = [caller EXCEPT ![c] =
                    [old EXCEPT !.pc = next, !.sends = @ + 1, !.tries = 0, !.tx = nonce,
                                !.accepted = IF answer = "error" THEN @ ELSE @ + 1,
                                !.failed = @ \/ answer # "ok"]]
    BY <1>1, <1>3 DEF Sent
  <2> QED BY <1>4, <1>5, <2>1
<1>7. next \in {"sending", "waiting", "returned"} /\ (next = "sending" <=> old.sends + 1 # Sends(old.op))
  <2>1. CASE old.sends + 1 # Sends(old.op)
    BY <1>3, <2>1
  <2>2. CASE old.sends + 1 = Sends(old.op) /\ answer = "ok"
    BY <1>3, <2>2
  <2>3. CASE old.sends + 1 = Sends(old.op) /\ answer # "ok"
    BY <1>3, <2>3
  <2> QED BY <2>1, <2>2, <2>3
<1>8. accepted \in 0 .. 3 /\ accepted <= old.sends + 1 /\ (answer # "error" => accepted = old.accepted + 1)
  BY <1>2, <1>4
<1>9. /\ call \in BinderCallType /\ call.pc = next /\ call.op = old.op /\ call.sends = old.sends + 1
      /\ call.accepted = accepted /\ call.failed = failed
      /\ call.tx = nonce /\ call.before = old.before
  <2>1. old.sends + 1 \in 0 .. 3 /\ nonce \in 0 .. MaxNonce /\ 0 \in Nat
    BY <1>2, BinderTypeParts DEF BinderIInv, NonceType
  <2> QED BY <1>5, <1>7, <1>8, <2>1 DEF BinderCallType, BinderPCs
<1>10. failed = FALSE => accepted = old.sends + 1
  <2> SUFFICES ASSUME failed = FALSE PROVE accepted = old.sends + 1
    OBVIOUS
  <2>1. ~old.failed /\ answer = "ok"
    BY <1>5, Zenon
  <2>2. old.failed = FALSE
    BY <1>2, <2>1, Zenon
  <2>3. old.accepted = old.sends
    BY <1>2, <2>2 DEF CallOK
  <2> QED BY <1>8, <2>1, <2>3
<1> HIDE DEF call
<1>11. CallOK(call)
  <2>1. call.pc = "waiting" => call.tx < MaxNonce
    BY <1>3, <1>9
  <2>2. call.before + Blocks <= MaxDepth
    BY <1>1, <1>2, <1>9 DEF CallOK
  <2> QED BY <1>2, <1>7, <1>8, <1>9, <1>10, <2>1, <2>2 DEF CallOK
<1>12. Holds(c)
  BY DEF Holds
<1> QED BY <1>6, <1>9, <1>11, <1>12, CallStepKeeps

\* What a call may be set to without touching its transactions.
LEMMA MoveKeeps ==
  ASSUME BinderIInv, NEW c \in Callers, NEW call \in BinderCallType, caller' = [caller EXCEPT ![c] = call],
         call.op = caller[c].op, call.sends = caller[c].sends,
         call.accepted = caller[c].accepted, call.failed \in {caller[c].failed, TRUE},
         call.before = caller[c].before,
         \/ /\ caller[c].pc \in {"locking", "sending", "refreshing", "resending"}
            /\ call.pc \in {"sending", "refreshing", "resending"}
            /\ caller[c].pc = "locking" => MuFree
         \/ /\ caller[c].pc \in {"waiting", "deepening"}
            /\ call.pc \in {"deepening", "returned"},
         NonceType', ChainType', CountType'
  PROVE  BinderIInv'
<1>1. PICK old \in BinderCallType : old = caller[c]
  BY BinderTypeParts DEF BinderIInv, CallerType
<1>2. CallOK(old)
  BY <1>1 DEF BinderIInv, CallsInv
<1>3. call.failed = FALSE => old.failed = FALSE
  BY <1>1
<1>4. CallOK(call)
  BY <1>1, <1>2, <1>3 DEF CallOK
<1>5. caller[c].pc \in {"sending", "refreshing", "resending"} => Holds(c)
  BY DEF Holds
<1> QED BY <1>4, <1>5, CallStepKeeps

\* A step of the chain keeps the types of the chain.
LEMMA ChainStays == UNCHANGED chainVars /\ BinderIInv => ChainType'
BY BinderTypeParts DEF chainVars, BinderIInv, ChainType

\* An operation is called.
LEMMA CallKeeps ==
  ASSUME BinderIInv, NEW c \in Callers, NEW op \in Ops, Call(c, op)
  PROVE  BinderIInv'
<1> DEFINE call == [NoCall EXCEPT !.pc = "locking", !.op = op,
                                  !.before = IF op = "confirm" THEN depth ELSE 0]
<1>1. /\ calls < MaxCalls /\ calls' = calls + 1 /\ caller' = [caller EXCEPT ![c] = call]
      /\ UNCHANGED <<nonce, chainVars, faults>>
  BY DEF Call
<1>2. NonceType' /\ ChainType' /\ CountType'
  BY <1>1, BinderTypeParts, ChainStays, BinderAssumption DEF BinderIInv, NonceType, CountType
<1>3. /\ call \in BinderCallType /\ call.pc = "locking" /\ call.op = op
      /\ call.sends = 0 /\ call.accepted = 0 /\ call.before + Blocks <= MaxDepth
  <2>1. PICK before \in 0 .. MaxDepth : /\ before = IF op = "confirm" THEN depth ELSE 0
                                        /\ before + Blocks <= MaxDepth
    BY BinderAssumption DEF BinderIInv, BinderTypeOK, Call
  <2>2. NoCall \in BinderCallType /\ NoCall.sends = 0 /\ NoCall.accepted = 0
    BY BinderAssumption DEF NoCall, BinderCallType, BinderPCs
  <2>3. call = [NoCall EXCEPT !.pc = "locking", !.op = op, !.before = before]
    BY <2>1
  <2> HIDE DEF call
  <2>4. /\ call \in BinderCallType /\ call.pc = "locking" /\ call.op = op
        /\ call.sends = 0 /\ call.accepted = 0 /\ call.before = before
    BY <2>2, <2>3 DEF BinderCallType, BinderPCs
  <2> QED BY <2>1, <2>4
<1> HIDE DEF call
<1>4. CallOK(call)
  BY <1>3 DEF CallOK, Sends
<1> QED BY <1>1, <1>2, <1>3, <1>4, CallStepKeeps

\* A call takes mu.
LEMMA LockKeeps ==
  ASSUME BinderIInv, NEW c \in Callers, Lock(c)
  PROVE  BinderIInv'
<1> DEFINE call == [caller[c] EXCEPT !.pc = "sending"]
<1>1. /\ caller[c].pc = "locking" /\ MuFree /\ caller' = [caller EXCEPT ![c] = call]
      /\ UNCHANGED <<nonce, chainVars, calls, faults>>
  BY DEF Lock
<1>2. NonceType' /\ ChainType' /\ CountType'
  BY <1>1, BinderTypeParts, ChainStays DEF BinderIInv, NonceType, CountType
<1>3. /\ call \in BinderCallType /\ call.pc = "sending" /\ call.op = caller[c].op
      /\ call.sends = caller[c].sends /\ call.accepted = caller[c].accepted
      /\ call.failed = caller[c].failed /\ call.before = caller[c].before
  BY BinderTypeParts DEF BinderIInv, CallerType, BinderCallType, BinderPCs
<1> HIDE DEF call
<1> QED BY <1>1, <1>2, <1>3, MoveKeeps

\* sendTx sends the transaction.
LEMMA SendTxKeeps ==
  ASSUME BinderIInv, NEW c \in Callers, SendTx(c)
  PROVE  BinderIInv'
<1>1. /\ caller[c].pc = "sending" /\ nonce < MaxNonce
      /\ UNCHANGED <<queues, mined, status, depth, calls, faults>>
  BY DEF SendTx, NonceLeft
<1>2. PICK answer \in Answers(nonce) :
        /\ Accept(c, answer)
        /\ nonce' = (CASE answer \in {"ok", "tooLow"} -> nonce + 1
                       [] answer = "tooHigh" -> nonce - 1
                       [] OTHER -> nonce)
        /\ CASE answer \in {"ok", "lost", "error"} -> Sent(c, answer)
             [] answer \in {"tooLow", "tooHigh"} -> UNCHANGED caller
             [] answer = "nonceError" -> caller' = [caller EXCEPT ![c].pc = "refreshing"]
  BY DEF SendTx
<1>3. /\ answer \in {"ok", "lost", "error", "tooLow", "tooHigh", "nonceError"}
      /\ answer = "tooHigh" => nonce > 0
  BY <1>1, <1>2, AnswersProperties DEF BinderIInv
<1>4. ChainType'
  BY <1>1, <1>2, AcceptKeepsType DEF BinderIInv
<1>5. NonceType'
  <2>1. nonce \in Nat /\ MaxNonce \in Nat /\ nonce <= MaxNonce
    BY BinderAssumption, BinderTypeParts DEF BinderIInv, NonceType
  <2> QED BY <1>1, <1>2, <1>3, <2>1 DEF NonceType
<1>6. CountType'
  BY <1>1, BinderTypeParts DEF BinderIInv, CountType
<1>7. CASE answer \in {"ok", "lost", "error"}
  BY <1>1, <1>2, <1>4, <1>5, <1>6, <1>7, SentKeeps
<1>8. CASE answer \in {"tooLow", "tooHigh"}
  BY <1>2, <1>4, <1>5, <1>6, <1>8, CallsStay
<1>9. CASE answer = "nonceError"
  <2> DEFINE call == [caller[c] EXCEPT !.pc = "refreshing"]
  <2>1. caller' = [caller EXCEPT ![c] = call]
    BY <1>2, <1>9
  <2>2. /\ call \in BinderCallType /\ call.pc = "refreshing" /\ call.op = caller[c].op
        /\ call.sends = caller[c].sends /\ call.accepted = caller[c].accepted
        /\ call.failed = caller[c].failed /\ call.before = caller[c].before
    BY BinderTypeParts DEF BinderIInv, CallerType, BinderCallType, BinderPCs
  <2> HIDE DEF call
  <2> QED BY <1>1, <1>4, <1>5, <1>6, <2>1, <2>2, MoveKeeps
<1> QED BY <1>3, <1>7, <1>8, <1>9

\* sendTx refreshes the nonce.
LEMMA RefreshNonceKeeps ==
  ASSUME BinderIInv, NEW c \in Callers, RefreshNonce(c)
  PROVE  BinderIInv'
<1> DEFINE call == [caller[c] EXCEPT !.pc = "resending"]
<1>1. /\ caller[c].pc = "refreshing" /\ caller' = [caller EXCEPT ![c] = call]
      /\ \E n \in mined .. MaxNonce : nonce' = n
      /\ UNCHANGED <<chainVars, calls, faults>>
  BY DEF RefreshNonce
<1>2. ChainType' /\ CountType'
  BY <1>1, BinderTypeParts, ChainStays DEF BinderIInv, CountType
<1>3. NonceType'
  BY <1>1, BinderTypeParts, BinderAssumption DEF BinderIInv, NonceType, ChainType
<1>4. /\ call \in BinderCallType /\ call.pc = "resending" /\ call.op = caller[c].op
      /\ call.sends = caller[c].sends /\ call.accepted = caller[c].accepted
      /\ call.failed = caller[c].failed /\ call.before = caller[c].before
  BY BinderTypeParts DEF BinderIInv, CallerType, BinderCallType, BinderPCs
<1> HIDE DEF call
<1> QED BY <1>1, <1>2, <1>3, <1>4, MoveKeeps

\* The nonce cannot be refreshed, and sendTx tries again.
LEMMA RefreshFailsKeeps ==
  ASSUME BinderIInv, NEW c \in Callers, RefreshFails(c)
  PROVE  BinderIInv'
<1> DEFINE call == [caller[c] EXCEPT !.tries = @ + 1]
<1>1. /\ caller[c].pc = "refreshing" /\ caller' = [caller EXCEPT ![c] = call]
      /\ UNCHANGED <<nonce, chainVars, calls, faults>>
  BY DEF RefreshFails
<1>2. NonceType' /\ ChainType' /\ CountType'
  BY <1>1, BinderTypeParts, ChainStays DEF BinderIInv, NonceType, CountType
<1>3. /\ call \in BinderCallType /\ call.pc = caller[c].pc /\ call.op = caller[c].op
      /\ call.sends = caller[c].sends /\ call.accepted = caller[c].accepted
      /\ call.failed = caller[c].failed /\ call.before = caller[c].before
  BY BinderTypeParts DEF BinderIInv, CallerType, BinderCallType
<1> HIDE DEF call
<1> QED BY <1>1, <1>2, <1>3, MoveKeeps

\* sendTx returns the error.
LEMMA RefreshGivesUpKeeps ==
  ASSUME BinderIInv, NEW c \in Callers, RefreshGivesUp(c)
  PROVE  BinderIInv'
<1>1. /\ caller[c].pc = "refreshing" /\ Sent(c, "error")
      /\ UNCHANGED <<nonce, chainVars, calls, faults>>
  BY DEF RefreshGivesUp
<1>2. NonceType' /\ ChainType' /\ CountType'
  BY <1>1, BinderTypeParts, ChainStays DEF BinderIInv, NonceType, CountType
<1> QED BY <1>1, <1>2, SentKeeps

\* sendTx sends the transaction with the refreshed nonce.
LEMMA ResendTxKeeps ==
  ASSUME BinderIInv, NEW c \in Callers, ResendTx(c)
  PROVE  BinderIInv'
<1>1. /\ caller[c].pc = "resending" /\ nonce < MaxNonce
      /\ UNCHANGED <<queues, mined, status, depth, calls, faults>>
  BY DEF ResendTx, NonceLeft
<1>2. PICK answer \in Answers(nonce) :
        /\ Accept(c, answer)
        /\ nonce' = IF answer = "ok" THEN nonce + 1 ELSE nonce
        /\ IF answer \in {"ok", "lost", "error"} THEN Sent(c, answer)
           ELSE caller' = [caller EXCEPT ![c].pc = "refreshing", ![c].tries = @ + 1]
  BY DEF ResendTx
<1>3. ChainType'
  BY <1>1, <1>2, AcceptKeepsType DEF BinderIInv
<1>4. NonceType'
  <2>1. nonce \in Nat /\ MaxNonce \in Nat /\ nonce <= MaxNonce
    BY BinderAssumption, BinderTypeParts DEF BinderIInv, NonceType
  <2> QED BY <1>1, <1>2, <2>1 DEF NonceType
<1>5. CountType'
  BY <1>1, BinderTypeParts DEF BinderIInv, CountType
<1>6. CASE answer \in {"ok", "lost", "error"}
  BY <1>1, <1>2, <1>3, <1>4, <1>5, <1>6, SentKeeps
<1>7. CASE answer \notin {"ok", "lost", "error"}
  <2> DEFINE call == [caller[c] EXCEPT !.pc = "refreshing", !.tries = @ + 1]
  <2>1. caller' = [caller EXCEPT ![c] = call]
    BY <1>2, <1>7, BinderTypeParts DEF BinderIInv, CallerType
  <2>2. /\ call \in BinderCallType /\ call.pc = "refreshing" /\ call.op = caller[c].op
        /\ call.sends = caller[c].sends /\ call.accepted = caller[c].accepted
        /\ call.failed = caller[c].failed /\ call.before = caller[c].before
    <3>1. PICK old \in BinderCallType : old = caller[c]
      BY BinderTypeParts DEF BinderIInv, CallerType
    <3>2. old.tries + 1 \in Nat
      BY DEF BinderCallType
    <3> QED BY <3>1, <3>2 DEF BinderCallType, BinderPCs
  <2> HIDE DEF call
  <2> QED BY <1>1, <1>3, <1>4, <1>5, <2>1, <2>2, MoveKeeps
<1> QED BY <1>6, <1>7

\* The transaction of a call is mined.
LEMMA WaitMinedKeeps ==
  ASSUME BinderIInv, NEW c \in Callers, WaitMined(c)
  PROVE  BinderIInv'
<1>1. PICK next \in {"deepening", "returned"} :
        /\ caller[c].pc = "waiting" /\ caller' = [caller EXCEPT ![c].pc = next]
        /\ UNCHANGED <<nonce, chainVars, calls, faults>>
  BY DEF WaitMined
<1> DEFINE call == [caller[c] EXCEPT !.pc = next]
<1>2. NonceType' /\ ChainType' /\ CountType'
  BY <1>1, BinderTypeParts, ChainStays DEF BinderIInv, NonceType, CountType
<1>3. caller' = [caller EXCEPT ![c] = call]
  BY <1>1
<1>4. /\ call \in BinderCallType /\ call.pc = next /\ call.op = caller[c].op
      /\ call.sends = caller[c].sends /\ call.accepted = caller[c].accepted
      /\ call.failed = caller[c].failed /\ call.before = caller[c].before
  BY BinderTypeParts DEF BinderIInv, CallerType, BinderCallType, BinderPCs
<1> HIDE DEF call
<1> QED BY <1>1, <1>2, <1>3, <1>4, MoveKeeps

\* The order is deep enough.
LEMMA WaitForOrderDepthKeeps ==
  ASSUME BinderIInv, NEW c \in Callers, WaitForOrderDepth(c)
  PROVE  BinderIInv'
<1> DEFINE call == [caller[c] EXCEPT !.pc = "returned"]
<1>1. /\ caller[c].pc = "deepening" /\ caller' = [caller EXCEPT ![c] = call]
      /\ UNCHANGED <<nonce, chainVars, calls, faults>>
  BY DEF WaitForOrderDepth
<1>2. NonceType' /\ ChainType' /\ CountType'
  BY <1>1, BinderTypeParts, ChainStays DEF BinderIInv, NonceType, CountType
<1>3. /\ call \in BinderCallType /\ call.pc = "returned" /\ call.op = caller[c].op
      /\ call.sends = caller[c].sends /\ call.accepted = caller[c].accepted
      /\ call.failed = caller[c].failed /\ call.before = caller[c].before
  BY BinderTypeParts DEF BinderIInv, CallerType, BinderCallType, BinderPCs
<1> HIDE DEF call
<1> QED BY <1>1, <1>2, <1>3, MoveKeeps

\* The depth of the order cannot be read.
LEMMA DepthFailsKeeps ==
  ASSUME BinderIInv, NEW c \in Callers, DepthFails(c)
  PROVE  BinderIInv'
<1> DEFINE call == [caller[c] EXCEPT !.pc = "returned", !.failed = TRUE]
<1>1. caller[c].pc = "deepening" /\ UNCHANGED <<nonce, chainVars, calls, faults>>
  BY DEF DepthFails
<1>2. caller' = [caller EXCEPT ![c] = call]
  BY BinderTypeParts DEF BinderIInv, CallerType, DepthFails
<1>3. NonceType' /\ ChainType' /\ CountType'
  BY <1>1, BinderTypeParts, ChainStays DEF BinderIInv, NonceType, CountType
<1>4. /\ call \in BinderCallType /\ call.pc = "returned" /\ call.op = caller[c].op
      /\ call.sends = caller[c].sends /\ call.accepted = caller[c].accepted
      /\ call.failed = TRUE /\ call.before = caller[c].before
  BY BinderTypeParts DEF BinderIInv, CallerType, BinderCallType, BinderPCs
<1> HIDE DEF call
<1> QED BY <1>1, <1>2, <1>3, <1>4, MoveKeeps
-----------------------------------------------------------------------------

\* The chain and the other users of the account.
LEMMA ChainKeeps ==
  ASSUME BinderIInv, Mine \/ EmptyBlock \/ OtherSends \/ (\E n \in Nonces : Drop(n))
  PROVE  BinderIInv'
<1>1. UNCHANGED <<queues, nonce, caller, calls>>
  BY DEF Mine, EmptyBlock, OtherSends, Drop
<1>2. NonceType'
  BY <1>1, BinderTypeParts DEF BinderIInv, NonceType
<1>3. ChainType /\ CountType
  BY BinderTypeParts DEF BinderIInv
<1>4. CASE Mine
  <2>1. status' \in {"none", "open", "canceled", "confirmed"}
    <3>1. \A op : Effects(op) \subseteq {"open", "canceled", "confirmed"}
      BY DEF Effects
    <3> QED BY <1>3, <1>4, <3>1 DEF Mine, ChainType
  <2>2. depth' \in 0 .. MaxDepth
    BY <1>3, <1>4, BinderAssumption DEF Mine, ChainType
  <2>3. mined' \in 0 .. MaxNonce
    BY <1>3, <1>4, BinderAssumption DEF Mine, ChainType
  <2>4. ChainType' /\ CountType'
    BY <1>1, <1>3, <1>4, <2>1, <2>2, <2>3 DEF Mine, ChainType, CountType
  <2> QED BY <1>1, <1>2, <2>4, CallsStay
<1>5. CASE EmptyBlock
  <2>1. ChainType' /\ CountType'
    BY <1>1, <1>3, <1>5, BinderAssumption DEF EmptyBlock, ChainType, CountType
  <2> QED BY <1>1, <1>2, <2>1, CallsStay
<1>6. CASE OtherSends
  <2>1. ChainType' /\ CountType'
    BY <1>1, <1>3, <1>6, BinderAssumption DEF OtherSends, ChainType, CountType
  <2> QED BY <1>1, <1>2, <2>1, CallsStay
<1>7. CASE \E n \in Nonces : Drop(n)
  <2>1. ChainType' /\ CountType'
    BY <1>1, <1>3, <1>7, BinderAssumption DEF Drop, Free, ChainType, CountType
  <2> QED BY <1>1, <1>2, <2>1, CallsStay
<1> QED BY <1>4, <1>5, <1>6, <1>7

\* The invariant holds at the start.
LEMMA BinderInitIInv == BinderInit => BinderIInv
<1> SUFFICES ASSUME BinderInit PROVE BinderIInv
  OBVIOUS
<1>1. NoCall \in BinderCallType
  BY BinderAssumption DEF NoCall, BinderCallType, BinderPCs
<1>2. Free \in [by : Callers \cup {"nobody", "other"}, op : Ops \cup {"none"}]
  BY DEF Free
<1>3. BinderTypeOK
  BY <1>1, <1>2, BinderAssumption, BinderTypeParts
     DEF BinderInit, NonceType, CallerType, ChainType, CountType
<1>4. \A c \in Callers : caller[c] = NoCall
  BY DEF BinderInit
<1>5. MutualExclusion
  BY <1>4 DEF MutualExclusion, Holds, NoCall
<1>6. CallOK(NoCall)
  BY DEF CallOK, NoCall
<1>7. CallsInv
  BY <1>4, <1>6 DEF CallsInv
<1> QED BY <1>3, <1>5, <1>7 DEF BinderIInv

\* Every step keeps the invariant.
LEMMA BinderNextIInv == BinderIInv /\ [BinderNext]_binderVars => BinderIInv'
<1> SUFFICES ASSUME BinderIInv, [BinderNext]_binderVars PROVE BinderIInv'
  OBVIOUS
<1>1. ASSUME NEW c \in Callers, CallStep(c) PROVE BinderIInv'
  BY <1>1, LockKeeps, SendTxKeeps, RefreshNonceKeeps, RefreshGivesUpKeeps, ResendTxKeeps,
     WaitMinedKeeps, WaitForOrderDepthKeeps DEF CallStep
<1>2. ASSUME NEW c \in Callers, RefreshFails(c) \/ DepthFails(c) \/ \E op \in Ops : Call(c, op)
      PROVE  BinderIInv'
  BY <1>2, RefreshFailsKeeps, DepthFailsKeeps, CallKeeps
<1>3. CASE UNCHANGED binderVars
  <2>1. UNCHANGED <<nonce, caller, chainVars, calls, faults>>
    BY <1>3 DEF binderVars
  <2>2. NonceType' /\ ChainType' /\ CountType'
    BY <2>1, BinderTypeParts, ChainStays DEF BinderIInv, NonceType, CountType
  <2> QED BY <2>1, <2>2, CallsStay
<1> QED BY <1>1, <1>2, <1>3, ChainKeeps DEF BinderNext, BinderStep

\* The types, mu and the counts of the calls' transactions are invariants of binder.go.
THEOREM BinderInvariant == BinderSpec => []BinderIInv
BY BinderInitIInv, BinderNextIInv, PTL DEF BinderSpec

\* The variables of the Binder, its calls and the chain have their types.
THEOREM BinderTypeCorrect == BinderSpec => []BinderTypeOK
<1>1. BinderIInv => BinderTypeOK
  BY DEF BinderIInv
<1> QED BY <1>1, BinderInvariant, PTL

\* At most one call holds mu: sendTx's loop over the nonce, and the three
\* transactions of Settle and its wait, are never interleaved with another call's.
THEOREM NonceExclusive == BinderSpec => []MutualExclusion
<1>1. BinderIInv => MutualExclusion
  BY DEF BinderIInv
<1> QED BY <1>1, BinderInvariant, PTL

\* sendTx, whatever the chain answers and however often the nonce is changed or
\* refreshed, has each transaction of a call taken at most once, and a call that
\* returns no error has had all of them taken.
THEOREM SubmitsOnce == BinderSpec => []SubmittedOnce
<1>1. BinderIInv => SubmittedOnce
  <2> SUFFICES ASSUME BinderIInv, NEW c \in Callers
               PROVE  /\ caller[c].accepted <= caller[c].sends
                      /\ caller[c].pc = "returned" /\ ~caller[c].failed
                         => caller[c].accepted = Sends(caller[c].op)
    BY DEF SubmittedOnce
  <2>1. CallOK(caller[c]) /\ caller[c] \in BinderCallType
    BY BinderTypeParts DEF BinderIInv, CallsInv, CallerType
  <2>2. caller[c].failed \in BOOLEAN
    BY <2>1 DEF BinderCallType
  <2>3. ~caller[c].failed => caller[c].failed = FALSE
    BY <2>2, Zenon
  <2> QED BY <2>1, <2>3 DEF CallOK
<1> QED BY <1>1, BinderInvariant, PTL

\* While not every call has returned, a call or the chain can go on, unless a
\* transaction that is waited for was dropped, the order whose depth is waited for does
\* not exist, or the nonces are used up.
LEMMA CallsGoOn ==
  ASSUME BinderIInv, ~Stranded, ~NeverDeep, NonceLeft, NEW c \in Callers,
         caller[c].pc \notin {"idle", "returned"}
  PROVE  BinderCanStep
<1>1. \A d \in Callers : CallOK(caller[d]) /\ caller[d] \in BinderCallType
  BY BinderTypeParts DEF BinderIInv, CallsInv, CallerType
<1>2. \A d \in Callers : caller[d].pc \in {"sending", "refreshing", "resending"} => BinderCanStep
  BY DEF BinderCanStep, CallCanStep
<1>3. \A d \in Callers : caller[d].pc = "waiting" => BinderCanStep
  <2> SUFFICES ASSUME NEW d \in Callers, caller[d].pc = "waiting" PROVE BinderCanStep
    OBVIOUS
  <2>1. /\ slot[caller[d].tx].by = d
        /\ \A n \in mined .. caller[d].tx : slot[n] # Free
    BY DEF Stranded
  <2>2. caller[d].tx \in 0 .. MaxNonce /\ caller[d].tx < MaxNonce /\ mined \in 0 .. MaxNonce
    BY <1>1, BinderTypeParts DEF BinderIInv, CallOK, BinderCallType, ChainType
  <2>3. CASE caller[d].tx < mined
    BY <2>1, <2>3 DEF BinderCanStep, CallCanStep, Mined
  <2>4. CASE mined <= caller[d].tx
    <3>1. mined < MaxNonce /\ mined \in mined .. caller[d].tx
      BY <2>2, <2>4, BinderAssumption
    <3> QED BY <2>1, <3>1 DEF BinderCanStep, ChainCanStep
  <2> QED BY <2>2, <2>3, <2>4, BinderAssumption
<1>4. \A d \in Callers : caller[d].pc = "deepening" => BinderCanStep
  <2> SUFFICES ASSUME NEW d \in Callers, caller[d].pc = "deepening" PROVE BinderCanStep
    OBVIOUS
  <2>1. status # "none"
    BY DEF NeverDeep
  <2>2. /\ caller[d].before \in 0 .. MaxDepth /\ caller[d].before + Blocks <= MaxDepth
        /\ depth \in 0 .. MaxDepth
    BY <1>1, BinderTypeParts DEF BinderIInv, CallOK, BinderCallType, ChainType
  <2>3. CASE depth < MaxDepth
    BY <2>1, <2>3 DEF BinderCanStep, ChainCanStep
  <2>4. CASE depth = MaxDepth
    <3>1. MaxDepth - caller[d].before \in 0 .. Width - 1 /\ Blocks <= MaxDepth - caller[d].before
      BY <2>2, BinderAssumption
    <3>2. (MaxDepth - caller[d].before) % Width = MaxDepth - caller[d].before
      <4> DEFINE gap == MaxDepth - caller[d].before
      <4>1. gap \in Nat /\ Width \in Nat \ {0} /\ gap < Width
        BY <3>1, BinderAssumption
      <4> HIDE DEF gap
      <4>2. gap % Width = gap
        BY <4>1
      <4> QED BY <4>2 DEF gap
    <3> QED BY <2>4, <3>1, <3>2 DEF BinderCanStep, CallCanStep, IsDeep
  <2> QED BY <2>2, <2>3, <2>4, BinderAssumption
<1>5. CASE caller[c].pc = "locking"
  <2>1. CASE MuFree
    BY <1>5, <2>1 DEF BinderCanStep, CallCanStep
  <2>2. CASE ~MuFree
    BY <1>2, <1>3, <2>2 DEF MuFree
  <2> QED BY <2>1, <2>2
<1>6. caller[c].pc \in BinderPCs
  BY <1>1 DEF BinderCallType
<1> QED BY <1>2, <1>3, <1>4, <1>5, <1>6 DEF BinderPCs

\* No call is stuck, for any number of goroutines and however long they wait: Settle
\* gives mu back, and a goroutine that waits is waiting for blocks that can come.
THEOREM BinderNeverStuck == BinderSpec => []BinderReturns
<1>1. BinderIInv => BinderReturns
  BY CallsGoOn DEF BinderReturns, OutOfNonces
<1> QED BY <1>1, BinderInvariant, PTL
-----------------------------------------------------------------------------
(* Pods. *)

\* A greater factor makes the product greater by the other factor at least.
LEMMA LessProduct ==
  ASSUME NEW a \in Nat, NEW b \in Nat, NEW p \in Nat, a < b
  PROVE  a * p + p <= b * p
<1>1. PICK c \in Nat : b = a + 1 + c
  <2>1. b - a - 1 \in Nat /\ b = a + 1 + (b - a - 1)
    OBVIOUS
  <2> QED BY <2>1
<1>2. b * p = a * p + p + c * p
  BY <1>1
<1>3. c * p \in Nat
  OBVIOUS
<1> QED BY <1>2, <1>3

\* What division by a positive number yields, and that nothing else does.
LEMMA Division ==
  ASSUME NEW n \in Nat, NEW p \in Nat \ {0}
  PROVE  n \div p \in Nat /\ n % p \in 0 .. p - 1 /\ n = (n \div p) * p + (n % p)
OBVIOUS

\* Quotient and remainder are unique.
LEMMA DivisionUnique ==
  ASSUME NEW p \in Nat \ {0}, NEW q \in Nat, NEW r \in 0 .. p - 1,
         NEW q2 \in Nat, NEW r2 \in 0 .. p - 1, q * p + r = q2 * p + r2
  PROVE  q = q2 /\ r = r2
<1>1. q * p \in Nat /\ q2 * p \in Nat
  OBVIOUS
<1>2. ~(q < q2)
  <2> SUFFICES ASSUME q < q2 PROVE FALSE
    OBVIOUS
  <2>1. q * p + p <= q2 * p
    BY LessProduct
  <2> QED BY <1>1, <2>1
<1>3. ~(q2 < q)
  <2> SUFFICES ASSUME q2 < q PROVE FALSE
    OBVIOUS
  <2>1. q2 * p + p <= q * p
    BY LessProduct
  <2> QED BY <1>1, <2>1
<1>4. q = q2
  BY <1>2, <1>3
<1> QED BY <1>1, <1>4

\* A multiple of p does not change the remainder.
LEMMA Remainder ==
  ASSUME NEW p \in Nat \ {0}, NEW q \in Nat, NEW r \in 0 .. p - 1
  PROVE  (q * p + r) % p = r
<1>1. PICK n \in Nat : n = q * p + r
  <2>1. q * p \in Nat
    OBVIOUS
  <2> QED BY <2>1
<1>2. n \div p \in Nat /\ n % p \in 0 .. p - 1 /\ n = (n \div p) * p + (n % p)
  BY Division
<1>3. n % p = r
  BY <1>1, <1>2, DivisionUnique
<1> QED BY <1>1, <1>3

\* The numbers below n are n.
LEMMA FirstNumbers ==
  ASSUME NEW n \in Nat
  PROVE  IsFiniteSet(0 .. n - 1) /\ Cardinality(0 .. n - 1) = n
<1>1. 0 \in Int /\ n - 1 \in Int /\ (IF 0 > n - 1 THEN 0 ELSE n - 1 - 0 + 1) = n
  OBVIOUS
<1> QED BY <1>1, FS_Interval

\* The numbers below n with one remainder are as many as n \div p, or one more.
LEMMA ClassSize ==
  ASSUME NEW n \in Nat, NEW p \in Nat \ {0}, NEW id \in 0 .. p - 1
  PROVE  LET Class == {i \in 0 .. n - 1 : i % p = id} IN
           IsFiniteSet(Class) /\ Cardinality(Class) \in {n \div p, n \div p + 1}
<1> DEFINE Class == {i \in 0 .. n - 1 : i % p = id}
<1>1. PICK q \in Nat, r \in 0 .. p - 1 : q = n \div p /\ n = q * p + r
  BY Division
<1>2. PICK m \in Nat : m = IF id < r THEN q + 1 ELSE q
  OBVIOUS
<1>3. ASSUME NEW k \in Nat PROVE k * p + id \in Nat /\ (k * p + id < n <=> k < m)
  <2>1. k * p \in Nat /\ q * p \in Nat
    OBVIOUS
  <2>2. CASE k < q
    <3>1. k * p + p <= q * p
      BY <2>2, LessProduct
    <3> QED BY <1>1, <1>2, <2>1, <2>2, <3>1
  <2>3. CASE k = q
    BY <1>1, <1>2, <2>1, <2>3
  <2>4. CASE q < k
    <3>1. q * p + p <= k * p
      BY <2>4, LessProduct
    <3> QED BY <1>1, <1>2, <2>1, <2>4, <3>1
  <2> QED BY <2>2, <2>3, <2>4
<1> DEFINE f == [k \in 0 .. m - 1 |-> k * p + id]
<1>4. ASSUME NEW k \in 0 .. m - 1 PROVE f[k] = k * p + id /\ f[k] \in Class
  <2>1. k \in Nat /\ k < m
    BY <1>2
  <2>2. k * p + id \in 0 .. n - 1
    BY <1>3, <2>1
  <2>3. (k * p + id) % p = id
    BY <2>1, Remainder
  <2> QED BY <2>2, <2>3
<1>5. ASSUME NEW k \in 0 .. m - 1, NEW l \in 0 .. m - 1, f[k] = f[l] PROVE k = l
  <2>1. k \in Nat /\ l \in Nat /\ k * p + id = l * p + id
    BY <1>2, <1>4, <1>5
  <2> QED BY <2>1, DivisionUnique
<1>6. ASSUME NEW i \in Class PROVE \E k \in 0 .. m - 1 : f[k] = i
  <2>1. i \in Nat /\ i < n /\ i % p = id
    OBVIOUS
  <2>2. i \div p \in Nat /\ i = (i \div p) * p + id
    BY <2>1, Division
  <2>3. i \div p < m
    BY <1>3, <2>1, <2>2
  <2>4. i \div p \in 0 .. m - 1
    BY <1>2, <2>2, <2>3
  <2> QED BY <1>4, <2>2, <2>4
<1>7. f \in [0 .. m - 1 -> Class]
  BY <1>4
<1> HIDE DEF f, Class
<1>8. f \in Bijection(0 .. m - 1, Class)
  BY <1>5, <1>6, <1>7 DEF Bijection, Injection, Surjection, IsInjective
<1>9. IsFiniteSet(0 .. m - 1) /\ Cardinality(0 .. m - 1) = m
  BY <1>2, FirstNumbers
<1>10. IsFiniteSet(Class) /\ Cardinality(Class) = m
  BY <1>8, <1>9, FS_Bijection DEF ExistsBijection
<1> QED BY <1>1, <1>2, <1>10 DEF Class
-----------------------------------------------------------------------------

\* The numbers are given out one after the other.
PodsIInv ==
  /\ input \in [darknodes : 1 .. MaxDarknodes, size : 1 .. MaxDarknodes,
                epochVal : 0 .. MaxEpochVal]
  /\ registered \subseteq Listed /\ at \in Listed
  /\ Placed \subseteq Listed
  /\ position \in Injection(Placed, 0 .. Cardinality(Placed) - 1)
  /\ pc = "returned" => Cardinality(Placed) = input.darknodes
  /\ pc # "failed" => ~Degraded

\* The list of darknodes is finite.
LEMMA ListedFinite ==
  ASSUME input.darknodes \in Nat
  PROVE  IsFiniteSet(Listed) /\ Cardinality(Listed) = input.darknodes
BY FirstNumbers DEF Listed

\* A number taken modulo the number of darknodes is a place in the list.
LEMMA WrapsAround ==
  ASSUME input.darknodes \in Nat \ {0}, NEW m \in Nat
  PROVE  m % input.darknodes \in Listed
<1>1. PICK n \in Nat \ {0} : n = input.darknodes
  OBVIOUS
<1>2. m % n \in 0 .. n - 1
  BY Division
<1> QED BY <1>1, <1>2 DEF Listed

\* The invariant of Pods holds at the start.
LEMMA PodsInitIInv == PodsInit => PodsIInv
<1> SUFFICES ASSUME PodsInit PROVE PodsIInv
  OBVIOUS
<1>1. input.darknodes \in Nat \ {0} /\ input.epochVal \in Nat
  BY PodsAssumption DEF PodsInit
<1>2. input.epochVal % input.darknodes \in Listed
  BY <1>1, WrapsAround
<1>3. Placed = {} /\ position \in [{} -> {}]
  BY DEF PodsInit, Placed
<1>4. Cardinality(Placed) = 0
  BY <1>3, FS_EmptySet
<1>5. position \in Injection(Placed, 0 .. Cardinality(Placed) - 1)
  BY <1>3, <1>4 DEF Injection, IsInjective
<1> QED BY <1>2, <1>3, <1>5 DEF PodsInit, PodsIInv

\* And every step keeps it.
LEMMA PodsNextIInv == PodsIInv /\ [PodsNext]_podsVars => PodsIInv'
<1> SUFFICES ASSUME PodsIInv, [PodsNext]_podsVars PROVE PodsIInv'
  OBVIOUS
<1> USE DEF PodsIInv
<1>1. input.darknodes \in Nat \ {0} /\ input.epochVal \in Nat /\ at \in Nat
  BY PodsAssumption DEF Listed
<1>2. CASE Skip
  <2>1. at' = (at + 1) % input.darknodes /\ UNCHANGED <<input, registered, position, pc>>
    BY <1>2 DEF Skip
  <2>2. at' \in Listed
    BY <1>1, <2>1, WrapsAround
  <2> QED BY <2>1, <2>2 DEF Listed, Placed, Degraded
<1>3. CASE Place
  <2> DEFINE n == Cardinality(Placed)
             wider == [d \in Placed \cup {at} |-> IF d = at THEN n ELSE position[d]]
  <2>1. /\ pc = "running" /\ at \in Listed \ Placed
        /\ position' = wider
        /\ at' = (at + input.epochVal) % input.darknodes
        /\ UNCHANGED <<input, registered, pc>>
    BY <1>3 DEF Place
  <2>2. at' \in Listed
    BY <1>1, <2>1, WrapsAround
  <2>3. IsFiniteSet(Placed) /\ n \in Nat
    BY <1>1, ListedFinite, FS_Subset, FS_CardinalityType
  <2>4. Placed' = Placed \cup {at}
    BY <2>1 DEF Placed
  <2>5. Cardinality(Placed') = n + 1
    BY <2>1, <2>3, <2>4, FS_AddElement
  <2>6. \A d \in Placed : position[d] \in 0 .. n - 1
    BY DEF Injection, IsInjective
  <2>7. \A d, e \in Placed : position[d] = position[e] => d = e
    BY DEF Injection, IsInjective
  <2>8. /\ wider[at] = n
        /\ \A d \in Placed : wider[d] = position[d] /\ wider[d] # n /\ wider[d] \in 0 .. n
    BY <2>1, <2>3, <2>6
  <2>9. wider \in [Placed \cup {at} -> 0 .. n]
    BY <2>3, <2>8
  <2> HIDE DEF wider, n
  <2>10. wider \in Injection(Placed \cup {at}, 0 .. n)
    BY <2>7, <2>8, <2>9 DEF Injection, IsInjective
  <2>11. 0 .. n = 0 .. (n + 1) - 1
    BY <2>3
  <2>12. (position \in Injection(Placed, 0 .. Cardinality(Placed) - 1))'
    BY <2>1, <2>4, <2>5, <2>10, <2>11
  <2> QED BY <2>1, <2>2, <2>4, <2>12 DEF Listed, Degraded
<1>4. CASE PodsReturn
  BY <1>4 DEF PodsReturn, Listed, Placed, Degraded
<1>5. CASE PodsFail
  BY <1>5 DEF PodsFail, Listed, Placed, Degraded
<1>6. CASE \E d \in 0 .. MaxDarknodes - 1 : Deregister(d)
  BY <1>6 DEF Deregister, Listed, Placed, Degraded
<1>7. CASE UNCHANGED podsVars
  BY <1>7 DEF podsVars, Listed, Placed, Degraded
<1> QED BY <1>2, <1>3, <1>4, <1>5, <1>6, <1>7 DEF PodsNext, PodsStep

\* When everyone has a number, the numbers are those from 0 on.
LEMMA AllNumbered ==
  ASSUME PodsIInv, pc = "returned"
  PROVE  /\ Placed = Listed
         /\ position \in Bijection(Listed, 0 .. input.darknodes - 1)
<1>1. input.darknodes \in Nat /\ Cardinality(Placed) = input.darknodes
  BY PodsAssumption DEF PodsIInv
<1>2. Placed = Listed
  BY <1>1, ListedFinite, FS_Subset DEF PodsIInv
<1>3. position \in Injection(Listed, 0 .. input.darknodes - 1)
  BY <1>1, <1>2 DEF PodsIInv
<1>4. IsFiniteSet(0 .. input.darknodes - 1) /\ Cardinality(0 .. input.darknodes - 1) = input.darknodes
  BY <1>1, FirstNumbers
<1>5. position \in Surjection(Listed, 0 .. input.darknodes - 1)
  BY <1>1, <1>2, <1>3, <1>4, FS_Injection
<1> QED BY <1>2, <1>3, <1>5 DEF Bijection

\* A pod has as many darknodes as there are numbers with its remainder.
LEMMA PodSize ==
  ASSUME PodsIInv, pc = "returned", NumberOfPods \in Nat \ {0}, NEW id \in 0 .. NumberOfPods - 1
  PROVE  Cardinality(PodOf(id)) \in {input.darknodes \div NumberOfPods,
                                     input.darknodes \div NumberOfPods + 1}
<1> DEFINE n == input.darknodes
           Class == {i \in 0 .. n - 1 : i % NumberOfPods = id}
           f == [d \in PodOf(id) |-> position[d]]
<1>1. Placed = Listed /\ position \in Bijection(Listed, 0 .. n - 1)
  BY AllNumbered
<1>2. PodOf(id) = {d \in Listed : position[d] % NumberOfPods = id}
  BY <1>1 DEF PodOf
<1>3. f \in [PodOf(id) -> Class]
  BY <1>1, <1>2 DEF Bijection, Injection, IsInjective
<1>4. \A d, e \in PodOf(id) : f[d] = f[e] => d = e
  BY <1>1, <1>2 DEF Bijection, Injection, IsInjective
<1>5. \A i \in Class : \E d \in PodOf(id) : f[d] = i
  BY <1>1, <1>2 DEF Bijection, Surjection
<1> HIDE DEF f, Class
<1>6. f \in Bijection(PodOf(id), Class)
  BY <1>3, <1>4, <1>5 DEF Bijection, Injection, Surjection, IsInjective
<1>7. IsFiniteSet(PodOf(id))
  <2>1. n \in Nat
    BY PodsAssumption DEF PodsIInv
  <2>2. PodOf(id) \in SUBSET Listed
    BY <1>2
  <2> QED BY <2>1, <2>2, ListedFinite, FS_Subset
<1>8. Cardinality(Class) = Cardinality(PodOf(id))
  BY <1>6, <1>7, FS_Bijection DEF ExistsBijection
<1>9. n \in Nat
  BY PodsAssumption DEF PodsIInv
<1>10. Cardinality(Class) \in {n \div NumberOfPods, n \div NumberOfPods + 1}
  <2> HIDE DEF n
  <2> QED BY <1>9, ClassSize DEF Class
<1> QED BY <1>8, <1>10

\* What pods of contract/binder.go returns, for any number of darknodes, any size of a
\* pod, any hash, and while darknodes deregister: everybody is in one pod, no pod is
\* too small and no two differ by more than one.
THEOREM PodsDivide == PodsSpec => [](pc = "returned" => Divided)
<1>1. PodsIInv /\ pc = "returned" => Divided
  <2> SUFFICES ASSUME PodsIInv, pc = "returned" PROVE Divided
    OBVIOUS
  <2> DEFINE n == input.darknodes
             s == input.size
             p == NumberOfPods
  <2>1. n \in Nat \ {0} /\ s \in Nat \ {0} /\ s <= n
    BY PodsAssumption DEF PodsIInv, Degraded
  <2>2. p \in Nat /\ n % s \in 0 .. s - 1 /\ n = p * s + (n % s)
    BY <2>1, Division DEF NumberOfPods
  <2>3. p # 0
    <3> SUFFICES ASSUME p = 0 PROVE FALSE
      OBVIOUS
    <3>1. p * s = 0
      BY <2>1
    <3> QED BY <2>1, <2>2, <3>1
  <2>4. s <= n \div p
    <3>1. PICK q \in Nat, r \in 0 .. p - 1 : q = n \div p /\ n = q * p + r
      <4> HIDE DEF n, s, p
      <4> QED BY <2>1, <2>2, <2>3, Division
    <3> SUFFICES ASSUME q < s PROVE FALSE
      BY <2>1, <3>1
    <3>2. q * p + p <= s * p
      <4> HIDE DEF n, s, p
      <4> QED BY <2>1, <2>2, LessProduct
    <3>3. s * p = p * s /\ q * p \in Nat /\ p * s \in Nat
      BY <2>1, <2>2
    <3> HIDE DEF n, s, p
    <3> QED BY <2>1, <2>2, <3>1, <3>2, <3>3
  <2>5. \A id \in 0 .. p - 1 : Cardinality(PodOf(id)) \in {n \div p, n \div p + 1}
    BY <2>2, <2>3, PodSize
  <2>6. n \div p \in Nat
    <3> HIDE DEF n, p
    <3> QED BY <2>1, <2>2, <2>3, Division
  <2>7. \A id, other \in 0 .. p - 1 :
          /\ Cardinality(PodOf(id)) >= s
          /\ Cardinality(PodOf(id)) <= Cardinality(PodOf(other)) + 1
    <3> HIDE DEF n, s, p
    <3> QED BY <2>1, <2>4, <2>5, <2>6
  <2>8. ASSUME NEW d \in Listed
        PROVE  \E id \in 0 .. p - 1 :
                 d \in PodOf(id) /\ \A other \in 0 .. p - 1 : d \in PodOf(other) => other = id
    <3>1. d \in Placed /\ position[d] \in Nat
      BY AllNumbered DEF Bijection, Injection, IsInjective
    <3>2. position[d] % p \in 0 .. p - 1
      <4> HIDE DEF p
      <4> QED BY <2>2, <2>3, <3>1, Division
    <3> QED BY <3>1, <3>2 DEF PodOf
  <2> QED BY <2>7, <2>8 DEF Divided
<1> QED BY <1>1, PodsInitIInv, PodsNextIInv, PTL DEF PodsSpec

\* The variables of pods have their types.
THEOREM PodsTypeCorrect == PodsSpec => []PodsTypeOK
<1>1. PodsIInv => PodsTypeOK
  <2> SUFFICES ASSUME PodsIInv PROVE PodsTypeOK
    OBVIOUS
  <2>1. Cardinality(Placed) <= input.darknodes /\ Cardinality(Placed) \in Nat /\ input.darknodes \in Nat
    <3>1. input.darknodes \in Nat
      BY PodsAssumption DEF PodsIInv
    <3> QED BY <3>1, ListedFinite, FS_Subset, FS_CardinalityType DEF PodsIInv
  <2>2. \A d \in Placed : position[d] \in Listed
    BY <2>1 DEF PodsIInv, Injection, Listed
  <2> QED BY <2>2 DEF PodsIInv, PodsTypeOK
<1> QED BY <1>1, PodsInitIInv, PodsNextIInv, PTL DEF PodsSpec
=============================================================================
