------------------------------ MODULE Crypter -------------------------------
(***************************************************************************)
(* The Crypter of registry/registry.go: whether an address is registered,    *)
(* and its public key, read through two caches.  Every use of an entry       *)
(* renews its timestamp, so that an entry is read again only after a gap of   *)
(* more than cacheUpdatePeriod between two uses.                             *)
(*                                                                         *)
(* A cache is the sequence of its entries in the order of their timestamps,   *)
(* the oldest first, and an entry's age is the time since its timestamp.      *)
(***************************************************************************)
EXTENDS Naturals, Sequences, SequencesExt

CONSTANTS
  Addrs,       \* addresses
  CacheLimit,  \* 256 in darknode.go
  Period,      \* cacheUpdatePeriod, one minute in darknode.go
  PublicKeys         \* rsa public keys

Nobody == "nobody"

ASSUME CrypterAssumption ==
  /\ CacheLimit \in Nat /\ Period \in Nat
  /\ Nobody \notin Addrs /\ Nobody \notin PublicKeys

VARIABLES
  keyOf,        \* contract: [Addrs -> the key of the address, or Nobody]
  registry,     \* registryCache
  publicKeys,   \* publicKeyCache
  encrypting,   \* the address Encrypt has verified, or Nobody; the mutexes are held
  unseen        \* <<cache, addr>>: what the contract says has changed and no use of
                \* the entry since then came after a gap longer than the period

crypterVars == <<keyOf, registry, publicKeys, encrypting, unseen>>

CrypterInit ==
  /\ keyOf \in [Addrs -> PublicKeys \cup {Nobody}]
  /\ registry = <<>> /\ publicKeys = <<>>
  /\ encrypting = Nobody /\ unseen = {}

MutexesFree == encrypting = Nobody

Value(cache, addr) == cache[CHOOSE i \in DOMAIN cache : cache[i].addr = addr].value

\* Mutant of Outdated: an entry is never read again.
OutdatedNever(cache, addr) == \A i \in DOMAIN cache : cache[i].addr # addr

\* updateRegistryCache, updatePublicKeyCache: whether the entry is read again.
Outdated(cache, addr) ==
  \A i \in DOMAIN cache : cache[i].addr = addr => cache[i].age > Period

WithoutEntry(cache, addr) == RemoveFirstMatch(cache, LAMBDA entry : entry.addr = addr)

\* The entry gets a new timestamp, and the oldest goes if there are too many.
Update(cache, addr, current) ==
  LET value == IF Outdated(cache, addr) THEN current ELSE Value(cache, addr)
      rest == WithoutEntry(cache, addr)
      all == Append(rest, [addr |-> addr, age |-> 0, value |-> value])
  IN IF Len(all) > CacheLimit THEN Tail(all) ELSE all

\* A use of the entry of addr after a long gap makes up for all changes.
Seen(name, cache, addr) ==
  unseen' = IF \A i \in DOMAIN cache : cache[i].addr = addr => cache[i].age > Period
            THEN unseen \ {<<name, addr>>} ELSE unseen
-----------------------------------------------------------------------------

\* Verify with the signature of addr: verifyAddress.
Verify(addr) ==
  /\ MutexesFree
  /\ registry' = Update(registry, addr, keyOf[addr] # Nobody)
  /\ Seen("registry", registry, addr)
  /\ UNCHANGED <<keyOf, publicKeys, encrypting>>

\* Encrypt: both mutexes are taken and the address is verified; an error of the
\* contract, which leaves everything as it was, or an address that is not
\* registered ends it.
EncryptVerifies(addr) ==
  /\ MutexesFree
  /\ registry' = Update(registry, addr, keyOf[addr] # Nobody)
  /\ Seen("registry", registry, addr)
  /\ encrypting' = IF Value(registry', addr) THEN addr ELSE Nobody
  /\ UNCHANGED <<keyOf, publicKeys>>

\* Encrypt: encryptToAddress.
EncryptToAddress ==
  /\ ~MutexesFree
  /\ ~Outdated(publicKeys, encrypting) \/ keyOf[encrypting] # Nobody
  /\ publicKeys' = Update(publicKeys, encrypting, keyOf[encrypting])
  /\ Seen("publicKeys", publicKeys, encrypting)
  /\ encrypting' = Nobody
  /\ UNCHANGED <<keyOf, registry>>

\* encryptToAddress: the contract returns an error, or has no key.
EncryptFails ==
  /\ ~MutexesFree /\ Outdated(publicKeys, encrypting)
  /\ encrypting' = Nobody
  /\ UNCHANGED <<keyOf, registry, publicKeys, unseen>>

\* Time passes.  Ages beyond the period are not told apart.
OlderEntries(cache) ==
  [i \in DOMAIN cache |->
     [cache[i] EXCEPT !.age = IF @ > Period THEN @ ELSE @ + 1]]
CachesAge ==
  /\ registry' = OlderEntries(registry)
  /\ publicKeys' = OlderEntries(publicKeys)
  /\ UNCHANGED <<keyOf, encrypting, unseen>>

\* A darknode registers, with a new key perhaps, or deregisters.
Reregister(addr) ==
  /\ keyOf' \in {[keyOf EXCEPT ![addr] = key] : key \in PublicKeys \cup {Nobody}}
  /\ keyOf' # keyOf
  /\ unseen' = unseen \cup {<<"registry", addr>>, <<"publicKeys", addr>>}
  /\ UNCHANGED <<registry, publicKeys, encrypting>>

CrypterNext ==
  \/ \E addr \in Addrs : Verify(addr) \/ EncryptVerifies(addr) \/ Reregister(addr)
  \/ EncryptToAddress \/ EncryptFails \/ CachesAge

CrypterSpec == CrypterInit /\ [][CrypterNext]_crypterVars
-----------------------------------------------------------------------------

Entries(values) == [addr : Addrs, age : 0 .. Period + 1, value : values]

\* The variables have their types.
CrypterTypeOK ==
  /\ keyOf \in [Addrs -> PublicKeys \cup {Nobody}]
  /\ registry \in Seq(Entries(BOOLEAN)) /\ publicKeys \in Seq(Entries(PublicKeys))
  /\ encrypting \in Addrs \cup {Nobody}
  /\ unseen \subseteq {"registry", "publicKeys"} \X Addrs

WellFormed(cache) ==
  /\ Len(cache) <= CacheLimit
  /\ \A i, j \in DOMAIN cache : cache[i].addr = cache[j].addr => i = j

\* A cache answers what the contract says, however calls, evictions and
\* registrations interleave, unless the contract has changed since the last gap of
\* more than the period between two uses of the address; it holds each address
\* once and no more than its limit.
CachesCurrent ==
  /\ \A i \in DOMAIN registry :
       LET entry == registry[i] IN
       entry.value = (keyOf[entry.addr] # Nobody) \/ <<"registry", entry.addr>> \in unseen
  /\ \A i \in DOMAIN publicKeys :
       LET entry == publicKeys[i] IN
       entry.value = keyOf[entry.addr] \/ <<"publicKeys", entry.addr>> \in unseen
  /\ WellFormed(registry) /\ WellFormed(publicKeys)
=============================================================================
