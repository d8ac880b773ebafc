------------------------------ MODULE MCJoiner ------------------------------
(* One Joiner, two secrets with three shares each of which two suffice, and   *)
(* two calls that set a callback.  A Join may carry one or two shares; one    *)
(* with three is refused.                                                    *)
(*                                                                         *)
(* With it the libraries below: a behaviour runs one part and the others     *)
(* rest, which loses nothing since no two of them share a variable.          *)
(*                                                                         *)
(*   joiner    Joiner                                                        *)
(*   shamir    Shamir: one, two and three of up to four shares, prime five   *)
(*   stackint  Stackint: four words of two bits                              *)
(*   recycler  Recycler: four calls of Open                                  *)
(*   channels  ChannelStream: three Opens, Sends and Recvs at two ends       *)
(*   forall    ForAll: up to five indices on one, two or four CPUs           *)
(*   errors    ErrorChannels: three and two errors, of which one is dropped  *)
(*   transact  Transacter: two calls, and a transaction of someone else      *)
(*   trading   Fragments: a buy and a sell order at three nodes; one pair is  *)
(*             in the range of the contract, one has a value beyond the field *)
EXTENDS Joiner, Libraries

VARIABLES
  part,
  n, threshold, dealt, joined,
  x, value

Secrets == INSTANCE Shamir WITH
  Prime <- 5, Pods <- {<<1, 1>>, <<3, 2>>, <<4, 3>>, <<2, 3>>}, k <- threshold

Numbers == INSTANCE Stackint WITH
  HalfBits <- 1, INT1024WORDS <- 4, Moduli <- {7, 251},
  Operands <- {0, 1, 7, 64, 129, 223, 255}

CoExp(co, exp) == [co |-> co, exp |-> exp]
OrderWith(parity, expiry, volume, itsNonce) ==
  [type |-> 1, parity |-> parity, settlement |-> 1, expiry |-> expiry, tokens |-> 3,
   price |-> CoExp(1, 2), volume |-> volume, minimumVolume |-> CoExp(6, 7), nonce |-> itsNonce]
PairWith(buyVolume, sellVolume) ==
  [buy |-> OrderWith("buy", <<5, 1>>, buyVolume, 11),
   sell |-> OrderWith("sell", <<6, 0>>, sellVolume, 15)]

TradedPairs == {PairWith(CoExp(5, 4), CoExp(0, 4)), PairWith(CoExp(9, 4), CoExp(13, 4))}
InputErrors == <<<<"a1", "a2", "a3">>, <<"b1", "b2">>>>

secretsVars == <<n, threshold, dealt, joined>>
numbersVars == <<x, value>>
allVars == <<part, vars, secretsVars, numbersVars, libraryVars>>

Parts == {"joiner", "shamir", "stackint", "recycler", "channels", "forall", "errors", "transact",
          "trading"}

MCInit ==
  /\ part \in Parts
  /\ NewJoiner /\ Secrets!Init /\ Numbers!Init /\ Recycling!Init /\ Channels!Init
  /\ Iterating!Init /\ Reporting!Init /\ Transacting!Init /\ Trading!Init
  /\ part = "trading" \/ orders["sell"].volume.co = 0
  /\ part = "shamir" \/ n = 1
  /\ part = "forall" \/ (num = 0 /\ per = 1 /\ counted)

Rests(other, itsVars) == IF part = other THEN TRUE ELSE UNCHANGED itsVars

\* The libraries may come to an end; a Joiner never does.
MCNext ==
  \/ /\ \/ part = "joiner" /\ Next
        \/ part = "shamir" /\ Secrets!Next
        \/ part = "stackint" /\ Numbers!Next
        \/ part = "recycler" /\ Recycling!Next
        \/ part = "channels" /\ Channels!Next
        \/ part = "forall" /\ Iterating!Next
        \/ part = "errors" /\ Reporting!Next
        \/ part = "transact" /\ Transacting!Next
        \/ part = "trading" /\ Trading!Next
     /\ Rests("joiner", vars)
     /\ Rests("shamir", secretsVars)
     /\ Rests("stackint", numbersVars)
     /\ Rests("recycler", recyclerVars)
     /\ Rests("channels", channelVars)
     /\ Rests("forall", forallVars)
     /\ Rests("errors", errorVars)
     /\ Rests("transact", transactVars)
     /\ Rests("trading", tradingVars)
     /\ UNCHANGED part
  \/ part # "joiner" /\ UNCHANGED allVars

MCSpec == MCInit /\ [][MCNext]_allVars

\* The numbers of stackint are those of integer arithmetic whatever is called on
\* them in whatever order (Stackint), and with them any k shares of a difference
\* join to the difference of the secrets (Shamir): what a Joiner passes on is right.
ArithmeticRight == Numbers!NumbersRight /\ Secrets!JoinRight
=============================================================================
