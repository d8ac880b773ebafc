# A TLA+ model of the republic-go darknode

republic-go is the reference implementation of a Republic Protocol darknode. Traders
split their orders into Shamir shares and send one share (an *order fragment*) to every
node of a *pod*. The nodes of the pod compare pairs of orders by secure multiparty
computation, without seeing the orders; a pair that matches is confirmed on an Ethereum
contract; a pair that stays confirmed is revealed to the nodes and settled.

This directory holds the models of the parts that carry this logic, the TLC runs that
check them on small instances, and proofs (TLAPS) that the safety properties of nearly
all of them hold for every instance.

## 1. Inventory

| Component | State | Operations | Talks to |
|---|---|---|---|
| `smpc/joiner.go` Joiner | per JoinID a set of Joins, the values, a callback | InsertJoin, InsertJoinAndSetCallback | called by smpcer; calls callbacks |
| `smpc/smpc.go` smpcer | a Joiner per network, its own Joins | Connect, Disconnect, Join, Receive | network, Joiner, other nodes |
| `smpc/network.go` network | senders and cancel functions per network | Connect, Disconnect, Send, SendTo | grpc streams, swarm |
| `ome/matcher.go` | none (the stage is in the JoinID) | Resolve, resolveValues | smpcer, computation store |
| `ome/confirmer.go` | orders being confirmed, orders output | Confirm (two goroutines) | contract, computation store, settler |
| `ome/settler.go` | none | Settle | smpcer, contract, computation store |
| `ome/generator.go` | the computation matrices of two epochs | Generate, OnChangeEpoch | orderbook, matcher |
| `ome/ome.go` | the current and the previous epoch | Run, OnChangeEpoch | all of the above |
| `orderbook/` | pointer, orders, fragments, two aggregators | Sync, OpenOrder, OnChangeEpoch | contract, stores, generator |
| `shamir/` | none | Split, Join, Share.Sub | joiner, matcher |
| `order/` | none | encoding, splitting, values as `co * 10^exp` | everything |
| `leveldb/` | the tables on disk | Put, Get, Delete, iterators, Prune | orderbook, ome |
| `registry/` | epochs, caches of registrations and keys | Sign, Verify, Encrypt, Pods | contract |
| `contract/` | nonce of the sender | transactions and calls | Ethereum |
| `contract/transact/` | options of a transaction, with the nonce | Transfer, Transact, TransactWithValue | Ethereum |
| `grpc/` | streams, rate limits | services, stream reconnection | smpc, orderbook, swarm, status |
| `dht/`, `swarm/` | buckets of addresses | update, remove, query, bootstrap | grpc |
| `dispatch/`, `stream/` | none, recycled streams | helpers for goroutines and streams | everything |
| `stackint/` | the words and the length of a number | arithmetic, comparison, bits | shamir |
| `status/`, `http/`, `logger/`, `crypto/`, `identity/`, `cmd/` | reporting, libraries, wiring | | |

A computation goes through the system like this. The *orderbook* reads orders from the
contract and fragments from traders and notifies the *Ome* when it has both. The
*generator* pairs the fragment with every opposite fragment of its epoch. The *matcher*
resolves a pair in up to seven stages; in each the *smpcer* exchanges one share with every
peer and its *Joiner* calls the matcher back with the difference. A match goes to the
*confirmer*, which submits it to the contract and polls until the confirmation is deep
enough. The *settler* then joins all shares of both orders and submits them.

What is hard about it:

* callbacks: a Joiner may be completed by any thread, and runs the callback of another one
  in that thread, below whatever locks the thread holds;
* messages: every message is sent once, by a goroutine, and the error is ignored; peers
  connect, join and leave at different times;
* the contract is read by several calls at different moments, and other nodes and traders
  write to it in between;
* bounded and unbuffered channels with mutexes held while sending, and a `done` channel
  that has to end everything;
* a crash between two writes to disk; an epoch change between two steps;
* signs and boundaries in a finite field.

What makes each component correct is listed with its module below. `PROJECT.json` lists
every hazard with the line where it bites and the properties that would notice.

## 2. Modules

| Module | Models |
|---|---|
| `JoinSets` | the JoinSet and the critical section of `Joiner.insertJoin`, as operators |
| `Joiner` | one Joiner and the threads that use it |
| `JoinFuture` | what a Joiner promises: a write-once result (abstract specification) |
| `Smpc` | the smpcers and networks of the nodes of one network (uses `JoinSets`) |
| `SmpcLock` | `joinersMu`, its readers and writers |
| `Matcher` | the pipeline of stages on the nodes of a pod |
| `Confirmer` | confirmer, settler, the loop of the Ome between them, the contract |
| `Orderbook` | orderbook, syncer, aggregators, their stores, the contract |
| `Generator` | the computation generator: router, matrices, merged channels |
| `OmeEpoch` | the change of epoch in a node (extends `Generator`) |
| `OmeFlow` | the bounded channels of the Ome and the locks around them (extends `SmpcLock`) |
| `Stream` | one gRPC stream between two nodes: connecting, breaking, reconnecting |
| `Binder` | transactions of the contract binder: nonces, mutex, waiting |
| `Pods` | how the darknodes of an epoch are divided into pods |
| `Crypter` | the caches of registrations and public keys |
| `Store` | the LevelDB tables, their iterators and their pruning |
| `Swarm` | the DHT of a node, pings, queries and bootstrapping |
| `Shamir` | splitting, subtracting and joining secrets |
| `Words`, `Stackint` | numbers as arrays of words, and vectors of words |
| `Recycler` | the stream recycler for one address |
| `ChannelStream` | streams over channels between two addresses, and their hub |
| `ForAll` | CoBegin, CoForAll and ForAll: goroutines over an iterator |
| `ErrorChannels` | merging, filtering and consuming channels of errors |
| `Transacter` | transactions with shared options, of `contract/transact` |
| `Fragments` | the values of an order and their conversions, from the trader to the settlement |
| `Libraries` | the six modules from `Recycler` to `Fragments` side by side, and what is assumed of them |
| `MC*` | the instances that TLC checks |
| `JoinerProofs`, `SmpcProofs`, `MatcherProofs`, `ConfirmerProofs`, `OrderbookProofs` | the theorems about the module of that name |
| `OmeProofs` | the theorems about `OmeEpoch` and `Generator`, and about `OmeFlow` and `SmpcLock` |
| `NodeProofs` | the theorems about `Store`, `Swarm`, `Crypter`, `Binder` and `Pods` |
| `LibraryProofs` | the theorems about the parts of `Libraries` |

Operators commented "Mutant of ..." are plausible mistakes in the code that the operator
after them stands for. Each replaces its original to show that a property notices.

### Joiner

`joinSets` is the map of the code. `insertJoin` holds `joinSetsMu` from loading the JoinSet
to storing it, so this is one step (`InsertJoin`, `InsertJoinAndSetCallback`); the callback
is called after the mutex is released, so it is put in `calling` and `RunCallback` is a step
of its own with other threads in between. `called`, `taken`, `accepted`, `refused` and
`overridden` record history. A Join is its ID, its index and its number of shares; a value
is the set of indices it was reconstructed from, which is all that the properties tell
apart. The loop over the Go map takes the first k entries in any order, for every value
anew: `Reconstructions` lets it choose. `CallsAgree` shows that there is no choice: a JoinSet
has exactly k Joins when it is reconstructed.

Properties: no callback is stranded in a JoinSet that is complete (`NoStrandedCallback`),
called twice or called after a refusal (`CalledAtMostOnce`), or lost (`CallbackAccounted`);
all callbacks of an ID get the same values (`CallsAgree`), which never change
(`ValuesAreFinal`); and the Joiner implements `JoinFuture` (`ImplementsFuture`).

### Smpc

One network, any number of nodes. `phase` says where Connect and Disconnect of a node
stand; between their two halves the node has a Joiner but no senders. A sender is stored by
the goroutine of `network.Connect`; the stream behind it (`links`) comes up when both nodes
have called Connect, may break (at most `MaxBreaks` times), and takes what is on it along.
`Join` is four steps: keep the Join for responses, insert it, start the goroutines of
`network.Send`, and each goroutine's `Sender.Send`. Receiving a Join inserts it and starts
the goroutine that responds. The callback is part of the insertion here: what may happen
while it waits is in `Joiner`.

Properties: a value is revealed only if a threshold of nodes called Join for it
(`RevealedByThreshold`); a node that holds k shares has called back (`NoSilentQuorum`); two nodes
that can reach each other when the later Join is put on the stream both get the other's
share (`ExchangeCompletes`); and a Join that can exchange with enough nodes succeeds
(`JoinSucceeds`). `exchanges` records the pairs that the last two are about. A message lost
before is not resent by anybody: the JoinResponse is the only repair, and the properties say
exactly what it repairs.

### SmpcLock

`handleMessageJoin` and `handleMessageJoinResponse` hold `joinersMu` for reading while they
insert a Join, and the insertion runs the callback. The matcher's callback calls
`smpcer.Join`, which takes the read lock again. A `sync.RWMutex` does not let a reader pass a
writer that waits, so a Connect or Disconnect in between leaves receiver and writer waiting
for each other, and with them every later Join of the node. The run `smpc_lock_nested` shows that
this happens; `StuckOnlyIfJammed` of `OmeFlow`, which has these threads too, shows that together
with the jam described there it is the only way to get stuck.

### Matcher

`com` is the pair of orders, chosen once; `stage`, `joined`, `expired`, `stored` and
`outcomes` are per node. The smpcer is what `Smpc` shows it to be: it reveals the value of a
stage once k nodes have joined it (`Revealed`). Subtraction is in the finite field, whose
upper half stands for the negative numbers. A node may find an order expired by its own
clock, or its network gone, at every stage.

Properties: whatever a node reports or stores is what comparing the orders would give, once
and the same on all nodes (`ResultIsCorrect`); nodes that stay get a result (`PipelineTerminates`, which
says nothing of nodes that expire an order).

What "comparing" means depends on the coefficients. The pipeline compares exponents first
(`AtLeast`). For any coefficients this is what `ResultIsCorrect` shows it to decide, and where the greater
exponent makes the greater number, as with coefficients of one decade, it is also the comparison of
the numbers (`Normalised`). But `order/value.go:18-20` documents a coefficient from 1 to 1999, with
which 1999 * 10^0 is taken for less than 1 * 10^1, and no code normalises or checks it. The run
`matcher_values` takes the ends of this range and refutes `ResultIsNumeric`, that orders match if the
numbers do.

### Confirmer

The first goroutine is `TakeMatch`, `BeginConfirmation`, `WatchOrders`; the second is
`PollBegins` to `PollEnds`, with a step for every call of the contract, because the contract
changes in between (`OtherConfirms`, `CancelOrder`, `Deepen`). The two share `confirmingMu`,
except that `confirmed` is read without it, as in the code. Every send may wait for room or
notice `done`. `deep` abstracts the depth of an order to whether it has reached
`orderbookBlockDepth`; a change of status restarts it. `confirmed` abstracts the time to
"within the hour" and "older". `stored` has an entry for each pair and epoch depth, as
`NewComputationID` has. `ContractMayFail`, `StoreMayFail` and `SubmitMayFail` turn on errors.

Properties: what is output, and so what is settled, is what the contract confirmed
(`OutputIsConfirmed`); it is output once in an hour (`OutputOnce`); a pair that is watched while
it is confirmed is output unless an error is reported (`WatchedIsOutput`); both goroutines
return when `done` is closed even if nobody receives (`ShutdownCompletes`).

Three things the code's comments promise and the code does not do. `OutputIsFinal`, which
the run `confirmer_final` refutes: Depth is read before Status. An order that is registered
again behind its own output (the check of `confirmed` comes before the submission, the
registration after it) stays registered and is output again after an hour; `OutputOnce`
therefore counts the hours. And an order whose submission failed is purged at the next poll
if it is still open and deep, so that a later confirmation by another node goes unnoticed;
`WatchedIsOutput` therefore speaks of orders that are watched while they are confirmed.

### Orderbook

`sync` is the goroutine that ticks; `requests` are the gRPC requests that bring fragments. The
disk is `pointer`, `orderStore` and `fragmentStore`. An aggregator stores and then looks up:
these are two steps, for the order (`PutOrderCurr`, `GetFragmentCurr` and the same for the
previous epoch) and for the fragment (`PutOrderFragment`, `GetOrder`), under `aggMu` held for
reading, so that they interleave with each other and not with `OnChangeEpoch`. `resync` visits
2 * Limit stored orders per tick and goes on where it stopped. `Crash` loses what is in memory.

Properties: order and fragment never miss each other (`NothingMissed`); closed orders leave the
store and are notified, unless the node crashes in between (`ClosedIsRemoved`): the order is deleted
before the notification is sent.

`NothingMissed` excepts a request whose client ends it while the notification waits to be
sent: it is then dropped (`orderbook.go:244`), and nothing repeats it. It also excepts a node that
has crashed: the notification is only in memory, and after a restart nothing looks for orders and
fragments that are both stored. `PointerIsSynced`,
which the run `orderbook_crash` refutes, is what `store.go:86` says of the pointer: it is
stored before the orders are routed, and a crash in between loses them. The same happens to
orders that are synchronised before the first epoch is known (`RouteNowhere`).

### Generator and OmeEpoch

`Generator` has the goroutine that routes notifications (`router`), a computation matrix per
epoch (`mat`) and the goroutines of `dispatch.Merge` (`merged`, `forward`). `matMu` is held
exactly while the router sends, so it has no variable. Sending on an unbuffered channel is one
step of sender and receiver (`SendNotification`, `SendComputation`, `ForwardComputation`).
`stored` is the fragment store, in which a restarted node finds orders of either side. A fragment is
stored before its computations are sent (`generator.go:242-299`), so the node may have stopped in between;
the pairs it finds are therefore `missed` at first, as are those dropped by an error, a closed matrix or a
shutdown, and they are so until one of the two is notified again and looks for the other.
`OmeEpoch` adds the loop of the darknode that sees epochs (`SyncEpoch`), the goroutines that
`Ome.OnChangeEpoch` starts (`changes`), of which one at a time has `epochMu` (`changing`), and
what the change does to smpcer, orderbook and generator. Changes may overtake each other, and a
node may be in no pod.

Properties: every buy and sell of different traders that are stored for an epoch are computed,
unless the pair is `missed` in the sense above (`PairsGenerated`); nothing is sent on a closed
channel (`NeverSendsOnClosed`); Ome, orderbook, generator and smpcer agree on the two epochs
(`EpochsAgree`); and a change of the epoch does not get stuck behind the router, whose matrix waits
for an Ome that has stopped receiving (`ChangesComplete`). The depth of a fragment is resolved when
it is routed: a change in between moves it to the other matrix. The code has no more information than
that, and `PairsGenerated` speaks of the matrix that got it. The goroutine that hands a matrix
to Merge waits on `gen.done`, which is nil and never closed (`generator.go:112`), and stays behind
after a shutdown.

### OmeFlow

The threads of `SmpcLock` are joined by the goroutine that resolves computations and the one
that settles confirmations; the confirmer is its two goroutines and `confirmingMu`, with all that
`Confirmer` details left out. The callback of a last stage waits for room in `matches`.

`StuckOnlyIfJammed`: when no goroutine can go on, everything is settled, or one of two deadlocks
has happened, each of which needs an epoch change. `Nested` is the one of `SmpcLock`. `Jammed` is a
cycle through the whole Ome: the callback below the read lock of Receive waits for room in matches,
the confirmer for `confirmingMu`, the poll for room in confirmations, the settler for the read lock
behind a writer, and the writer for Receive. With channels of 1024 and 64 it needs many matches at
the time of an epoch change; the run has channels of length one, in which it is reached.

### Stream

`client` is where `Connector.Connect` is, `handler` where each `StreamerService.Connect` is. The
listener's sender (`lsender`) and the registered done channel (`dones`) are shared by all handlers.
Streams are numbered; a number that nobody refers to is used again, and four of them are never
all in use. The network may break a stream, encryption, signature or their verification fail, and
a message be malformed: the client then reconnects (`RecvMalformed`), while the handler discards the message
(`HandlerDiscards`). A handler decrypts with the sender of the listener (`stream.go:425`), so it also discards
whatever the client sends while that sender has the secret of another stream (`Decrypts`).

`StreamHeals`: the client comes to hold a live stream that a handler reads, with no other handler left
(`Attached`), and after it disconnects everything returns. It excepts two failures of the code (`Broken`): the
first connection is not tried again, and after a reconnection that failed the next attempt receives from a
nil stream (`stream.go:165`), which panics. That messages then get through (`Reaches`) holds only
when no two handlers have been between inject and the registration of `done` at the same time
(`Overtaking`), which is the premise of the second part. Without it `ServerReaches` is refuted by
`stream_reconnect`: the sender keeps the stream and the secret of the dead stream, so that the server sends
to nobody and discards what it receives, until the next reconnection.

### Binder and Pods

`Binder` has goroutines that send transactions of one account (`caller`), the nonce the Binder keeps,
and a chain with a pool that may queue transactions or reject nonces that are too high, mine, drop,
or take transactions of other processes. An error may come back although the transaction was taken
("lost"). `Sends` is 3 for Settle, which goes on after an error. Differences of depths are taken
modulo `Width`, which stands for 2^64. `MaxNonce` bounds the nonces (`NonceLeft`): a call that would need a greater
one goes no further in the model.

Properties: no transaction of a call is taken twice, and a call that reports no error has sent all of
its transactions (`SubmittedOnce`); a call returns unless the pool drops a transaction or the order
whose depth is waited for was never opened (`BinderReturns`, exceptions `Stranded` and `NeverDeep`:
both waits have no timeout, and Settle waits with the mutex). `ReturnsConfirmed`, what the comment on
`BlocksForConfirmation` says, is refuted by `binder_confirmations`. `BinderReturns` also excepts a
behaviour that has used up `MaxNonce` (`OutOfNonces`); the run checks that none does.

`Pods` is the search of `binder.pods` for a free position, for every number of darknodes, size of a
pod and hash of an epoch in the bounds; `at` is the code's `x`. `PodsFormed`: it ends, everyone is in one pod, no pod is too
small and no two differ by more than one. It excepts a darknode that deregisters during the search,
which then goes round for ever.

### Crypter

A cache is the sequence of its entries by timestamp. `CachesCurrent`: an entry says what the contract
says, unless the contract has changed since the last use that came more than a period after the one
before. Using an entry renews its timestamp (`registry.go:133`), so an address in steady use is never
read again; the property says exactly that much.

### Store

One database with the six tables, and an action for every operation that writes to one of them; a key is the
table's prefix and two digits, each of which stands for 32 bytes. `kept` is
the database as it would be without pruning. `RecordsKept`: an iterator finds the records of its
table or epoch and no other, the identifiers it takes out of the keys are those that were put, and pruning
spares the pointer and what has not expired, except a record that is written
again between the snapshot and the delete (`raced`), and except computations, whose table is built
without an expiry (`somer.go:82`) and is emptied by every pass.

### Swarm

The DHT of one node (`buckets`), goroutines that insert peers, each of which may ping the oldest one
in between (`updating`), and a query or a bootstrap (`search`). What the other peers know is fixed and
arbitrary; they may go down. `BucketsSound`: no bucket is overfull, holds an address twice, or the
wrong one. `SearchExhaustive`: a search without a limit that ends without an answer has been to
every peer it could get to, and none of them knows the target. A peer that does not answer ends the
query with an error instead.

### Shamir

Two secrets are split (`dealt`), and whoever has k differences joins them (`joined`). The prime is a
constant, and arithmetic in the field is that of integers, which `Stackint` is about. `JoinRight`: any k
shares, in the order in which a Go map happens to yield them, join to the difference of the secrets.

`Evaluate` follows the code: the loop of Split ranges over `coefficients[1:]` but indexes `coefficients`
(`shamir.go:157`), so every power is taken with the coefficient before its own. The shares are not values of
the polynomial that was generated ("Evaluate the polyomial at x", `shamir.go:153`): the secret counts
twice and the last coefficient not at all. The polynomial it does evaluate has the same constant term
and no higher degree, which is why joining is right all the same and no test notices.

### Words and Stackint

`Words` has the operations of `stackint/asm` on words of `2 * HalfBits` bits, `Stackint` those of
`Int1024` on arrays of `INT1024WORDS` words. The machine has one number `x`, on which operations are
called in any order, and `value`, which is what integer arithmetic says. `NumbersRight`: the words of `x`
are those of `value` and the length is up to its last word, so carries, borrows, the corrected estimates
of the division and the sums and products beyond the range are right. An inverse that does not exist leaves
the number as it was (the code panics), and nothing divides by zero.

Two calls are left out: a subtraction whose result is negative and a product with one word that leaves the
range. `Dec` and `mulAddWW` then assume the length (`int1024_arithmetic.go:79`, `158`) and it may
be too large: 2^1023 * 2 has only zero words and is not `IsZero`. The repository makes no such call.

### Recycler

Calls of Open for one address. Mutexes and streams are named after the call that makes them; `owner` has
all mutexes, also those that were deleted from the map and are still in use. `OpenWhileUsed`: no stream
is closed while a call that returned it has not ended. The last reference deletes the mutex of the address
although others may wait for it; the next call then makes another, and two calls can open a stream
each. The count covers both, so that neither is closed early, and the one that was overwritten in the map
is never closed at all.

### ChannelStream

The two mutexes, which the ends use in opposite roles, with their readers and with the writer that
holds or awaits them; a Send and a Recv meet with both read locks held. Open is called as the recycler
calls it: at each end one stream at a time. `OpenInside`: nobody waits on a channel that is closed, so no
Send panics. The price is that Close waits for a Send or Recv that waits for its counterpart, which in turn waits
behind Close for the same mutex; and that the two ends lock the mutexes in opposite orders. The hub
keeps closed streams and returns them to the next Open.

### ForAll

The caller (`pc`, its loop variable `i`), the goroutines by their first index (`next`), and the counter of
the WaitGroup. Init chooses among CoBegin, CoForAll and ForAll, which differ in the number of indices of a
goroutine and in when `wg.Add` is called, and among lengths and numbers of CPUs. `CalledForAll`: the function
is called once for every index before the caller goes on, whatever the length is modulo the number of
CPUs, and the counter is never below the number of goroutines that run.

### ErrorChannels

MergeErrors, FilterErrors and ConsumeErrors one after the other, as their signatures invite to. A goroutine
receives an error in one step and sends it in another, when the bounded channel has room. `ErrorsHandled`: every
error that passes is on its way or handled, in the order of its input, none is left behind when
ConsumeErrors returns, and no channel is closed while someone is about to send on it.

### Transacter

One call at a time has the mutex (`call`), the others wait for it; the pool of transactions, another user of the
account and the answers to a submission are external. An answer may be an error after the pool has taken the
transaction. `TransactedOnce`: a call submits at most one transaction, however often the nonce is changed
and the transaction sent again, and every transaction has the value and the gas of its own call.

What it does not say: which nonce is used. `TransactWithValue` saves a pointer to the nonce and puts it back
(`transact.go:165`, `171`). What was added to the nonce in place survives that, and what was assigned by a refresh
(`transact.go:150`) does not, so that the stored nonce may fall back; the next call finds it too low and
counts up again. A nonce that the caller names is changed by the same retries, in the caller's own
`big.Int`. No other package of the repository uses the Transacter; the node uses the Binder.

### Fragments

The way of two orders that match, through every conversion: Split, Encrypt and the request of the
trader; OpenOrder, which decrypts and stores the fragment as JSON; the Computation, also stored; the
Join of sixteen shares, marshalled into a message and back; the two orders made of the sixteen values, and the
arguments of the settlement contract. Bytes are lists of words, cipher text is the plain text with its
key, a hash is what was hashed, and a share names its secret (`Shamir` has the numbers). A fragment
may be encrypted for a key that the node does not have; it is refused then and may be sent again. The traffic
is reduced to what carries values: a message is sent once and received by anyone, as a Join or as a response
(`Smpc` has the exchange). `SettlesTheOrder`: whichever k nodes' shares are joined, what a node submits hashes to
the ID under which the trader opened the order.

It is stated for orders whose coefficients and exponents are in the 16 bits of the contract. `order/value.go:14`
names an error for values outside of the documented range, and no code returns it: an order beyond 16 bits
and below the prime is split, matched and confirmed, and submitted with its low bits.

## 3. Runs

| Run | Instance | Distinct states | Shows |
|---|---|---|---|
| `joiner` | `Joiner`: k = 2, 2 IDs, 3 indices, lengths 1 to 3 (3 is too long), 2 callbacks; or one of `Shamir`, `Stackint` and the parts of `Libraries` | 128 k | the properties of the Joiner, refinement; `ArithmeticRight` (`JoinRight`, `NumbersRight`), `LibrariesSafe` (`OpenWhileUsed`, `OpenInside`, `CalledForAll`, `ErrorsHandled`, `TransactedOnce`, `SettlesTheOrder`) |
| `smpc` | 3 nodes, threshold 2, each may leave, one break; symmetry | 1.1 M | safety of the exchange |
| `smpc_lock_nested` | 2 receivers, 1 writer, 2 stages | violation | the deadlock of nested read locks |
| `matcher_values` | 2 nodes, threshold 2, all orders over the ends of the documented range of a coefficient and 2 exponents | violation | exponents before coefficients |
| `confirmer` | 1 buy, 2 sells, both epochs, at most 2 matches handed over, failing calls of the contract, one hour; symmetry of the sells | 2.6 M | safety |
| `confirmer_final` | 1 buy, 1 sell | violation | Depth before Status |
| `orderbook` | 1 order, fragments for both epochs, epochs 2 to 4, failing calls, one crash | 3.4 M | `NothingMissed` |
| `orderbook_crash` | 1 order, one crash | violation | pointer before orders |
| `node` | one of `OmeEpoch`, `OmeFlow`, `Binder`, `Crypter`, `Store`, `Swarm` | 2.2 M | their safety |
| `live` | one of `Smpc`, `Orderbook`, `Confirmer`, `Stream`, `Pods`, `Matcher` | 169 k | liveness, and what the pipeline decides |
| `stream_reconnect` | 4 numbers of streams, one break | violation | inject before done |
| `binder_confirmations` | 1 caller, an order that is opened and confirmed | violation | the wait that wraps around |

`joiner`, `node` and `live` check several components in one run. Their initial states choose a part, whose
steps are then the only ones, and the others rest in one of their initial states. Since no two parts
share a variable, the behaviours are those of the parts, one after the other, and nothing is checked
across parts that do not interact. The parts that do interact are composed in a module: `OmeEpoch`
with `Generator`, `OmeFlow` with `SmpcLock`.

Why the bounds are enough for the cases that matter. Three indices with k = 2 give Joins
that come too late. Three nodes with threshold two give a quorum that leaves one out. Two
sells give conflicting matches for one buy, the smallest conflict there is, and two matches handed
over are a conflict or the same pair in both epochs. A channel of
confirmations of capacity 1 is full after one output (64 in the code). Three stored orders
and two visits per tick make resync wrap around. Epochs 2 to 4 push an aggregator from
current to previous to gone, and three epochs a matrix to closed. The values of the matcher are the
ends of the documented range of a coefficient, 1 and 1999, with the exponent 0, and 1 with the exponent 1. The
six comparisons between them have exponents and coefficients that differ in either direction or not, with the
extreme differences, and a greater exponent that makes a greater number and one that does not; any two
of the three comparisons of a pair of orders take them all. The prime is a convenient one that is more than twice
the largest difference. In the part `stream` of `live` one stream breaks or one call fails, and a second fault only
makes the client fail to reconnect (`OneFault`): one fault is enough for two handlers at a
time. Depth 7 of the pipeline is bounded by two stages in
`SmpcLock`, since the second stage already nests. In `OmeFlow` seven messages, computations and epoch
changes are the fewest with which everybody waits for everybody. In `Binder` one fault (a dropped or a
foreign transaction) and two callers give every answer of the chain; cancel stands for all
transactions that are only sent and waited for. In `Crypter` a cache for one of two addresses
evicts. In `Swarm` three peers in buckets of length one give a full bucket; with two pings one fills it and the other
takes the place that a search is making in it for another peer (the mutant of `UpdateAgain`, which
relies on that place, needs both); address length 2 gives two buckets. In `Store` there are
two records at a time, in any two of the tables, of two epochs and two identifiers. `Pods` has all sizes up to five darknodes and hashes up to six,
which has common factors with the number of darknodes and not. In `live`, two nodes suffice for
`JoinSucceeds` since the run `smpc` has the third one, and the confirmer has one Computation since
`confirmer` has more.

In `Shamir` a prime of 5 is the smallest with four nodes, and thresholds from one to three have polynomials
with no, one and two random coefficients. In `Stackint` a word of two bits is the smallest that has halves,
four words are the fewest with all cases of the multiplication modulo n, and all 256 numbers are
reached; the moduli have two and four words, the second with the top bit set. The
corrections of the division happen (the mutants show it). Three calls of Open suffice to overlap on
two mutexes; the fourth shares. In `ChannelStream` each end has a call of each kind, and one end has two
Opens. In `ForAll` up to five indices on one, two and four CPUs divide evenly and not, and may need
fewer goroutines than there are CPUs. In `ErrorChannels` three and two errors fill channels of capacity two.
In `Transacter` two calls, of which the second may see what the first has left, and a foreign transaction
give every answer of the pool. In `Fragments` any two of three nodes join. All sixteen values of the pair of
orders differ from their neighbours, an expiry has a fraction of a second, a nonce is above the prime, and
the depth is not the default; the second pair cannot be split.

Deadlock is not checked where the system may stop: when the messages have run out, the
computations are resolved, or the goroutines have returned. `ChangesComplete`, `StuckOnlyIfJammed`
and `BinderReturns` are about being stuck instead: they say in which states it is right that no
goroutine can go on, leaving out the steps that only the environment takes. "Can go on" is spelled out
by the guards (`NodeCanStep`, `OmeCanStep`, `BinderCanStep`), since the provers do not know ENABLED;
`NodeTypeOK` checks that a step is ENABLED wherever they say that one can be taken. The
joiner run checks deadlock for the Joiner; its other parts may stop.

### Fairness

* `Smpc`: goroutines that were started run and a stream that is up delivers. Nothing makes a
  node connect or call Join.
* `SmpcLock` (in `smpc_lock_nested`): goroutines run (weak); whoever can get the lock again and again gets it
  (strong), which `sync.RWMutex` guarantees by letting neither readers nor writers overtake for
  ever. Nothing makes messages arrive or epochs change.
* `Matcher`: the smpcer calls back for a stage that k nodes have joined (`Smpc!JoinSucceeds`). Nothing makes
  a node resolve a Computation.
* `Confirmer`: blocks are mined, the ticker ticks and the goroutines run (weak); the goroutine
  that waits for `confirmingMu` gets it, since a `sync.Mutex` is handed to a waiter that
  starves, and a `select` with a closed `done` takes it at some time (strong). The consumer of
  the channels is fair only until `done` is closed: it returns then.
* `Orderbook`: the ticker ticks and the Ome receives its notifications.
* `Stream`: goroutines on both sides run, and Listen is called in the end: a node that connects does so
  for every peer of its pod. Nothing makes streams break, messages be malformed or nodes disconnect.
* `Pods`: the loop goes on.
* `Joiner`, `Generator`, `OmeEpoch`, `OmeFlow`, `Binder`, `Crypter`, `Store`, `Swarm`, `Shamir`, `Stackint`,
  `Recycler`, `ChannelStream`, `ForAll`, `ErrorChannels`, `Transacter`, `Fragments`: none; their properties are
  invariants.

## 4. Proofs

TLC checks the instances of section 3. The theorems below hold for every value of the constants: any
number of nodes, orders, epochs, goroutines, calls and messages, and any value of the bounds that the
models put on their counters.

| Module | Theorem | Statement |
|---|---|---|
| `JoinerProofs` | `JoinerInvariant`, `TypeCorrect` | `[]IInv`, `[]TypeOK` |
| | `NeverStranded`, `AtMostOnce`, `NoneLost`, `Agreement` | `[]NoStrandedCallback`, `[]CalledAtMostOnce`, `[]CallbackAccounted`, `[]CallsAgree` |
| | `ValuesFinal`, `Refinement` | `ValuesAreFinal` (an action property), `ImplementsFuture` (a refinement) |
| `SmpcProofs` | `SmpcInvariant`, `SmpcTypeCorrect` | `[]IInv`, `[]TypeOK` |
| | `ThresholdRespected`, `CallbackAtQuorum`, `ExchangeIsMutual` | `[]RevealedByThreshold`, `[]NoSilentQuorum`, `[]ExchangeCompletes` |
| | `RevealedOnce` | no step but Disconnect changes a value that was revealed (an action property) |
| `MatcherProofs` | `MatcherInvariant`, `MatcherTypeCorrect` | `[]IInv`, `[]TypeOK` |
| | `PipelineDecidesMatch` | `[]ResultIsCorrect` |
| `ConfirmerProofs` | `ConfirmerInvariant`, `ConfirmerTypeCorrect` | `[]IInv`, `[]TypeOK` |
| | `OnlyConfirmedOutput`, `OutputOncePerHour` | `[]OutputIsConfirmed`, `[]OutputOnce` |
| `OrderbookProofs` | `OrderbookInvariant`, `OrderbookTypeCorrect` | `[]IInv`, `[]TypeOK` |
| | `PairsAreNotified` | `[]NothingMissed` |
| `OmeProofs` | `EpochInvariant`, `EpochTypeCorrect` | `[]EpochIInv`, `[]EpochTypeOK` |
| | `EveryPairGenerated`, `NoSendOnClosed`, `PartsAgree` | `[]PairsGenerated`, `[]NeverSendsOnClosed`, `[]EpochsAgree` |
| | `ChangesNeverStuck` | `[]ChangesComplete` |
| | `FlowInvariant`, `FlowTypeCorrect` | `[]FlowIInv`, `[]FlowTypeOK` |
| | `WriterAlone`, `OnlyNestedOrJammed` | whoever writes has `joinersMu` alone, `[]StuckOnlyIfJammed` |
| `NodeProofs` | `StoreInvariant`, `NoRecordLost` | `[]StoreIInv`, `[]RecordsKept` |
| | `SwarmInvariant`, `SwarmTypeCorrect` | `[]SwarmIInv`, `[]SwarmTypeOK` |
| | `BucketsStaySound`, `SearchesEverybody` | `[]BucketsSound`, `[]SearchExhaustive` |
| | `CachesStayCurrent` | `[]CachesCurrent` |
| | `BinderInvariant`, `BinderTypeCorrect` | `[]BinderIInv`, `[]BinderTypeOK` |
| | `NonceExclusive`, `SubmitsOnce`, `BinderNeverStuck` | `[]MutualExclusion`, `[]SubmittedOnce`, `[]BinderReturns` |
| | `PodsTypeCorrect`, `PodsDivide` | `[]PodsTypeOK`, `[](pc = "returned" => Divided)` |
| `LibraryProofs` | `SharedStreamsOpen`, `NobodyInsideClosed` | `[]OpenWhileUsed` of `Recycler`, `[]OpenInside` of `ChannelStream` |
| | `EveryIndexOnce`, `EveryErrorHandled` | `[]CalledForAll` of `ForAll`, `[]ErrorsHandled` of `ErrorChannels` |
| | `SubmittedWithItsOptions`, `SettledAsOpened` | `[]TransactedOnce` of `Transacter`, `[]SettlesTheOrder` of `Fragments` |
| | `LibrariesAreSafe` | `[]LibrariesSafe`, all six |

The specifications are `Spec` of each module, and `EpochSpec`, `FlowSpec`, `BinderSpec`, `StoreSpec`,
`SwarmSpec`, `CrypterSpec` and `PodsSpec` for the parts of the runs `node` and `live`, whose next-state relations are
choices among the same actions; `LibrarySpec` is the conjunction of the `Spec`s of the libraries. All proofs have one form: `Init => IInv`, `IInv /\ [Next]_vars => IInv'` with a step for
every action, and `IInv => Inv`. Hardly any property is inductive as it stands; what `IInv` adds in
each module says why the property holds.

* **Joiner.** `SetsInv`: fewer than k Joins in a JoinSet that is not reconstructed, exactly k afterwards,
  with values from the whole set and no callback left behind. `CallbacksInv`: a callback is
  in at most one place. `AccountInv`: every accepted one is somewhere. `TakenInv`: what was taken out
  agrees with the JoinSet. The step that carries the proof is `StoreJoinEffect`: an insertion makes at most k of
  less than k, so a reconstruction is of all.
* **Smpc.** `SetsInv` is the Joiner's. `SharesInv`: every share, in a JoinSet or on its way, is of
  a node that has called Join, from which the threshold follows by counting. `CallbackInv` says for every step of
  smpcer.Join where its callback is; it is not yet counted while the Join is only kept. `LinksInv`: a link
  is between nodes that are connected. `ExchangeInv` is the heart of the exchange: for
  every pair that counts, the share is in the peer's set, or the peer has finished, or a message with it is on the
  wire, or the peer's own Join is, and will be answered. The node can answer since it keeps
  its Join before it inserts and sends it (`smpc.go:78-80`).
* **Matcher.** `StageInv`: a node that has reached a stage knows what the stages before it have decided, as
  a comparison of exponents and coefficients (`Passed`). `SubSign` is the lemma about the field: a difference
  of two values of the lower half has the sign that the code reads off. With it each of the seven
  stages is a case, and the last one gives the result, whatever the coefficients are. `ComparesNumbers` carries
  it over to the numbers where the greater exponent makes the greater number.
* **Confirmer.** `ChainInv`: a confirmed order has a match that is confirmed with it, so that matches are
  mutual. `PollInv`: what the poll has read is still true when it is used. This is where the
  contract's own rule is needed, that a confirmed order stays so; of the depth no such thing holds, which is what
  `confirmer_final` shows. `OutputInv` follows a pair through the channel. `OnceInv` relates outputs to
  the hours and to what `confirmed` remembers.
* **Orderbook.** `TrackedInv`: if an order and its fragment are stored and were not notified, one of the two
  goroutines has stored its half and is still to look for the other (`Looking`, `Requesting`). It
  holds because each stores first and looks afterwards. `FragmentInv` is needed at an epoch
  change: no fragment is stored under an epoch that is still to come. `QueueInv` and `RoutingInv` keep an order in the store while
  it is routed.
* **Generator and OmeEpoch.** `OpenInv`: the matrices of the two epochs are open and different;
  `FreshInv`: an epoch comes once, which `curr # prev` needs; `PhaseInv` says, for each point of a change, which part
  of the node is in which epoch. `PairsGenerated` is inductive with the type of what a matrix iterates over
  (`MatInv`): whichever of two orders is stored later looks for the other. It starts from every store that a
  node may find. That a change is never stuck
  needs two facts more (`LiveInv`): a matrix that the router waits for has its goroutine, and one whose
  goroutine has ended was closed, so that the router's select takes the other branch.
* **OmeFlow and SmpcLock.** `LockInv`: what a thread holds of `joinersMu` follows from where it stands
  (`LocksOf`), and a writer that has it has it alone. `OneMatchEach`
  counts: what is in flight, in channels or registered is no more than the work that was given to the Ome. If nobody
  can go on, each thread stands at one of the few places where it can wait (`WhereTheyWait`), and what it waits
  for leads to the next one, until the chain ends at a finished Ome, in `Nested` or in `Jammed`.
* **Binder.** `MutualExclusion` of the mutex, which Settle holds through its waits too; and `CallsInv`, how far
  a call has got. The proof needs that a transaction is tried again only after an answer that says the nonce was
  wrong, which the chain gives only if it has not taken it. For `BinderReturns`, `CallsInv` also says that the
  transaction a call waits for is one of the chain's, and that the depth it waits for can still be reached.
* **Store.** `IterRange` finds the keys of a table and no others: `LessKeys`, `TableIterated` and
  `EpochIterated` prove it of the order of keys of the model. `ExpiredInv`: what a pass of pruning is about
  to delete had expired when the iterator saw it, and `raced` remembers what was written since.
* **Swarm.** `FindBucket` is a bucket that exists for every peer (`MinExists` and its like: finite sets of numbers have
  a least member). A bucket changes in two steps with a ping in between, so `UpdatesOK` must not
  say that the pinged address is still there; `RemoveFirst` and `UpdateMultiAddress` are shown to keep a bucket sound
  whatever happened meanwhile.
* **Swarm, its searches.** `Explores`: what a peer that was visited has answered is listed, visited or still in
  its answers. A search that is exhausted has therefore visited a set that is closed under answers, and
  `ReachableWithin` shows by induction over the number of hops that what is reachable lies within it. The
  induction is over a subset of the numbers (`Induction`: a set of numbers has a least member), as is the
  lemma that a function defined by recursion exists (`Recursion`).
* **Crypter.** `CachesCurrent` is inductive with the types: an entry keeps its
  value while it is renewed, and is read again when it is outdated.
* **Pods.** `PodsIInv`: the darknodes that have a number have the first numbers, each a different one. When
  all have one, they are all of `0 .. darknodes - 1`, and a pod is a class of numbers with the same remainder,
  whose size `ClassSize` finds: the quotient, or one more. Whoever has deregistered makes no difference to what is
  returned, only to whether the loop ends.
* **Recycler.** The references are counted right (`streamsRc` is the number of calls that use the
  streams), so the last one to go is the last.
* **ChannelStream.** `InsideReads`: whoever waits on a channel has the read lock of its own mutex.
  `ClosersWrite`: whoever closes has announced itself on both mutexes, and closes with both of them.
* **ForAll.** `Disjoint`: the goroutines have ranges of their own. `Progress`: an index was called once
  if it is in a range that was given out and its goroutine has passed it, and never otherwise.
* **ErrorChannels.** `Ordered`: what has left an input is, but for what the filter drops, handled or on its
  way, once and in the order of the input. The order of different inputs is open.
* **Transacter.** `PoolOK`: the call that runs has nothing in the pool until it returns. `OptionsOK`: the options in
  use are those of the call that has the mutex, and what it puts back is what was configured.
* **Fragments.** `CarriedRight`: wherever a fragment, a computation or a message is, reading it gives what was
  dealt to that node. There is a lemma for each pair of conversions (`RequestRoundTrip`, `JSONRoundTrip`,
  `ComputationRoundTrip`, `MessageRoundTrip`), and `SecretsJoined` and `SettledHash` for the end of the way.

### Assumptions

Constants are sets or numbers, finite where the code counts them. The assumptions beyond that, each checked by TLC on
the instances:

* `ThresholdAssumption` (`Smpc`): k is what `smpcer.Connect` is given, 2/3 of the nodes rounded up.
* `FieldAssumption` (`Matcher`): values and exponents are below half the prime, and tokens below the
  prime. The prime of the code is `17012364981921935471` (`shamir.go:26`), its values are documented up to 1999 and 52
  (`order/value.go:18-20`), and `Split` refuses secrets beyond the prime (`shamir.go:129`). It also says that a
  power of ten is a positive number, which the provers do not know.
* `GeneratorAssumption`: buys and sells are different, epochs are numbered from 1.
* `FlowAssumption`: channels have room for one message, and resolving and settling are two goroutines.
* `OrderbookAssumption`: fragments are for the current or the previous epoch; the bound of resync is not zero.
* `BinderAssumption`: a depth of `Blocks` can be reached and is less than 2^64, of which `Width` is the model.
* `StoreAssumption`: a digit is below `FF`, since an identifier of 32 bytes 0xFF would be outside of the
  iterated range. These are hashes.
* `SwarmAssumption`: there are finitely many peers, and another peer has another address, so it differs from Self
  in a bit.
* `CrypterAssumption`: `Nobody`, an absent key, is neither an address nor a key.
* `PodsAssumption`: numbers are numbers. `PodsInit` has at least one darknode and a size of at least one.
* `StreamAssumption`: the nil value is no call, and a call either opens, sends or receives.
* `ForAllAssumption`: there is a CPU.
* `ErrorsAssumption`: errors are told apart by the input and the place they come from. It is how the model can
  say that none is handled twice.
* `TradingAssumption`: an order has its fields, with numbers where the code has numbers, and at least one share is needed.

### Only model-checked

* Liveness: `JoinSucceeds`, `PipelineTerminates`, `WatchedIsOutput`, `ShutdownCompletes`, `ClosedIsRemoved`, `StreamHeals`,
  `PodsFormed` (that the search ends; what it returns is proved). Fairness and ENABLED are out of the prover's reach.
  So is the part of `NodeTypeOK` that compares guards with ENABLED.
* `StreamTypeOK`, and with it `LiveTypeOK`: the safety of a stream says nothing that is not its liveness.
* `ArithmeticRight`: `Stackint` is recursive, and interpolation in `Shamir` is a fold over the shares.
* The six properties that a run refutes.

## 5. Not modelled

* Bytes: encryption and hashing are symbolic, signatures are left out. Widths are modelled where a value
  is narrowed (`Fragments`) or may overflow (`Stackint`, `Binder`).
* Data races inside Go maps and slices (`network.go:156`, `confirmer.go:86`, `swarm.go:260-269`), which
  the runtime answers with an abort. What a stale read does to the logic is modelled.
* Errors of the stores in `Orderbook` (the contract's errors are); an error of the table of the
  pointer, which reads as pointer 0 (`leveldb/orderbook.go:340`).
* `dispatch.Forward`, which copies one channel to another.
* Of `stackint`: Exp, decimal strings, JSON and random numbers.
* The process after a panic or a deadlock: nothing restarts it in the models, apart from `Crash` in
  `Orderbook`, and a `Generator` that starts with the store another process has left.
* gRPC services other than the stream and the orderbook, rate limits, status, HTTP, logging, key files, command line
  tools: conversion and I/O around the parts above.
* Generated code: `contract/bindings/bindings.go` (16 721 lines) and `grpc/grpc.pb.go` (1 092), and
  `stackint/int1024_deprecated.go`, which is commented out. These are more than half of the 33 800 lines of
  Go that are neither vendored nor tests. The packages with the node's own logic (`smpc`, `ome`, `orderbook`,
  `swarm`, `dht`, `registry`, `leveldb`, `order`, `shamir`, `dispatch`, the binder and the streams) have
  about 7 900 lines, comments, types and marshalling included: less than a quarter of all. The mapped share
  of all lines is therefore small, although the control of each of these packages is modelled.

## 6. What could follow

All components that keep state and decide something are modelled, and every invariant the runs check is
proved but those listed above. What is left would connect models that are now related by argument: that an insertion of `Smpc` is a
step of `Joiner` on the JoinSet of one node (both use the operators of `JoinSets`), so that `JoinFuture` is
what a node of `Smpc` gets; that `Matcher!Revealed` is what `Smpc` reveals; and that the confirmer of `OmeFlow`
is an abstraction of `Confirmer`. `Shamir` and `Stackint` are written with folds and recursive operators, which the
provers cannot unfold.
