------------------------------- MODULE Stream -------------------------------
(***************************************************************************)
(* The stream between two nodes of a network (grpc/stream.go, grpc/conn.go): *)
(* Connector.Connect on the node that dials, and Listener.Listen with        *)
(* StreamerService.Connect on the other.                                    *)
(*                                                                         *)
(* Every stream that reaches the server has a handler of its own, and the    *)
(* handlers of an old and of a new stream interleave.  Smpc has a set of      *)
(* links that break; this is how one of them comes back.  Identifiers of      *)
(* streams that nobody refers to are used again.  Secrets go with streams:   *)
(* inject replaces both, and a message is decrypted with the secret that the  *)
(* sender of its reader has at that moment.                                  *)
(***************************************************************************)
EXTENDS Naturals, FiniteSets

CONSTANTS
  Streams,     \* positive numbers that identify streams
  MaxBreaks,   \* bound on the streams that break
  MaxFailures  \* bound on Encrypt, Sign, Verify or Decrypt returning an error, and on
               \* messages that are malformed

Nil == 0

VARIABLES
  client,     \* where Connect is: see ClientPCs
  connected,  \* whether Connect has returned a sender
  stream,     \* the stream that recv reads, or Nil
  csender,    \* the stream in the sender of the client, or Nil
  ccancelled, \* whether the context of the client is done
  up,         \* streams that neither side nor the network has closed
  sent,       \* streams whose authentication message was sent and not received yet
  handler,    \* [Streams -> where StreamerService.Connect is]
  listening,  \* whether Listen was called; nothing undoes it
  lsender,    \* the stream in the sender of the listener, or Nil
  dones,      \* the stream whose done channel is registered, or Nil
  lcancelled, \* whether the context of the listener is done
  discarded,  \* whether the handler that registered last has discarded a message
  breaks, failures

streamVars == <<client, connected, stream, csender, ccancelled, up, sent, handler, listening,
                lsender, dones, lcancelled, discarded, breaks, failures>>

ClientPCs == {"dialing", "opened", "authorised", "receiving", "backoff",
              "failed", "panicked", "ended"}
HandlerPCs == {"none", "auth", "found", "injected", "running", "returned"}

StreamInit ==
  /\ client = "dialing" /\ connected = FALSE /\ stream = Nil /\ csender = Nil
  /\ ccancelled = FALSE
  /\ up = {} /\ sent = {} /\ handler = [s \in Streams |-> "none"]
  /\ listening = FALSE /\ lsender = Nil /\ dones = Nil /\ lcancelled = FALSE
  /\ discarded = FALSE
  /\ breaks = 0 /\ failures = 0

serverVars == <<listening, lsender, dones, lcancelled, discarded>>
faultVars == <<breaks, failures>>
-----------------------------------------------------------------------------
(* Connector.Connect *)

\* No handler runs for s and neither side refers to it.
Unused(s) == handler[s] \in {"none", "returned"} /\ s \notin up \cup {lsender, dones, csender}

\* connect: Dial, and open a stream with BackoffMax; the server starts a handler.
\* Which identifier the stream gets does not matter, so it gets the first.
Dial(s) ==
  /\ client = "dialing" /\ ~ccancelled
  /\ Unused(s) /\ \A t \in Streams : t < s => ~Unused(t)
  /\ client' = "opened"
  /\ stream' = s
  /\ up' = up \cup {s}
  /\ handler' = [handler EXCEPT ![s] = "auth"]
  /\ UNCHANGED <<connected, csender, ccancelled, sent, serverVars, faultVars>>

\* connect: the secret is encrypted, signed and sent.
Authorise ==
  /\ client = "opened" /\ stream \in up
  /\ client' = "authorised"
  /\ sent' = sent \cup {stream}
  /\ UNCHANGED <<connected, stream, csender, ccancelled, up, handler, serverVars, faultVars>>

\* connect returns an error and no stream: Connect gives up the first time, and
\* later the stream variable is nil when the backoff calls again.
ConnectFails ==
  /\ client = "opened"
  /\ \/ stream \notin up /\ UNCHANGED failures
     \/ failures < MaxFailures /\ failures' = failures + 1
  /\ client' = IF connected THEN "backoff" ELSE "failed"
  /\ stream' = Nil
  /\ UNCHANGED <<connected, csender, ccancelled, up, sent, handler, serverVars, breaks>>

\* NewSender the first time, later inject.
Inject ==
  /\ client = "authorised"
  /\ client' = "receiving"
  /\ connected' = TRUE
  /\ csender' = stream
  /\ UNCHANGED <<stream, ccancelled, up, sent, handler, serverVars, faultVars>>

\* recv gets an error from the stream: reconnect.
RecvFails ==
  /\ client = "receiving" /\ stream \notin up /\ ~ccancelled
  /\ client' = "dialing"
  /\ stream' = Nil
  /\ UNCHANGED <<connected, csender, ccancelled, up, sent, handler, serverVars, faultVars>>

\* recv gets a message from the server that it cannot decrypt or unmarshal, which is
\* an error as well.  Right after a reconnection the backoff just calls recv again, and
\* otherwise the client reconnects and leaves the stream that is up to the server.
RecvMalformed ==
  /\ client = "receiving" /\ stream \in up /\ lsender = stream /\ ~ccancelled
  /\ failures < MaxFailures /\ failures' = failures + 1
  /\ \/ UNCHANGED <<client, stream>>
     \/ client' = "dialing" /\ stream' = Nil
  /\ UNCHANGED <<connected, csender, ccancelled, up, sent, handler, serverVars, breaks>>

\* The backoff calls recv with a nil stream.
RecvOnNil ==
  /\ client = "backoff" /\ ~ccancelled
  /\ client' = "panicked"
  /\ UNCHANGED <<connected, stream, csender, ccancelled, up, sent, handler, serverVars, faultVars>>

\* The loop sees that its context is done.
ClientEnds ==
  /\ ccancelled /\ client \in {"dialing", "opened", "receiving", "backoff"}
  /\ client' = "ended"
  /\ UNCHANGED <<connected, stream, csender, ccancelled, up, sent, handler, serverVars, faultVars>>

\* The second function of CoBegin: release.
Release ==
  /\ ccancelled /\ connected /\ csender # Nil /\ csender \notin up
  /\ csender' = Nil
  /\ UNCHANGED <<client, connected, stream, ccancelled, up, sent, handler, serverVars, faultVars>>
-----------------------------------------------------------------------------
(* StreamerService.Connect *)

\* The handler returns, which closes its stream.
Return(s) ==
  /\ handler' = [handler EXCEPT ![s] = "returned"]
  /\ up' = up \ {s} /\ sent' = sent \ {s}
  /\ UNCHANGED <<client, connected, stream, csender, ccancelled, serverVars, breaks>>

\* The authentication message cannot be received or verified, or no Listen has
\* been called.
HandlerRejects(s) ==
  /\ handler[s] = "auth"
  /\ \/ s \notin up /\ UNCHANGED failures
     \/ s \in sent /\ ~listening /\ UNCHANGED failures
     \/ s \in sent /\ failures < MaxFailures /\ failures' = failures + 1
  /\ Return(s)

\* The message is verified and the listener's sender looked up.
HandlerFinds(s) ==
  /\ handler[s] = "auth" /\ s \in sent /\ listening
  /\ handler' = [handler EXCEPT ![s] = "found"]
  /\ sent' = sent \ {s}
  /\ UNCHANGED <<client, connected, stream, csender, ccancelled, up, serverVars, faultVars>>

\* sender.inject.
HandlerInjects(s) ==
  /\ handler[s] = "found"
  /\ handler' = [handler EXCEPT ![s] = "injected"]
  /\ lsender' = s
  /\ UNCHANGED <<client, connected, stream, csender, ccancelled, up, sent, listening, dones,
                 lcancelled, discarded, faultVars>>

\* Under donesMu the done channel of the handler before is closed; this one has not read
\* anything yet.
HandlerRegisters(s) ==
  /\ handler[s] = "injected"
  /\ handler' = [handler EXCEPT ![s] = "running"]
  /\ dones' = s /\ discarded' = FALSE
  /\ UNCHANGED <<client, connected, stream, csender, ccancelled, up, sent, listening, lsender,
                 lcancelled, faultVars>>

\* Mutant of HandlerEnds: the handler does not wait for its done channel.
HandlerEndsLate(s) ==
  /\ handler[s] = "running" /\ (lcancelled \/ s \notin up)
  /\ UNCHANGED failures
  /\ Return(s)

\* Its done channel, the listener's context or the stream's is done.
HandlerEnds(s) ==
  /\ handler[s] = "running" /\ (dones # s \/ lcancelled \/ s \notin up)
  /\ UNCHANGED failures
  /\ Return(s)

\* The secrets go with the streams: what the client encrypts for stream s can be
\* decrypted while the sender of the listener has the secret of s.
Decrypts(s) == lsender = s

\* The loop of the handler receives a message that the client sent with its sender, and it
\* cannot be decrypted or unmarshalled: the backoff calls Recv again.  (One that can goes
\* to the receiver, which changes nothing here.)
HandlerDiscards(s) ==
  /\ handler[s] = "running" /\ s \in up /\ csender = s /\ ~discarded
  /\ \/ ~Decrypts(s) /\ UNCHANGED failures
     \/ failures < MaxFailures /\ failures' = failures + 1
  /\ discarded' = TRUE
  /\ UNCHANGED <<client, connected, stream, csender, ccancelled, up, sent, handler, listening,
                 lsender, dones, lcancelled, breaks>>

\* Listen.
Listen ==
  /\ ~listening
  /\ listening' = TRUE
  /\ UNCHANGED <<client, connected, stream, csender, ccancelled, up, sent, handler, lsender,
                 dones, lcancelled, discarded, faultVars>>
-----------------------------------------------------------------------------

\* Disconnect on the client cancels its context, and with it its streams.
CancelClient ==
  /\ ~ccancelled
  /\ ccancelled' = TRUE
  /\ up' = {}
  /\ UNCHANGED <<client, connected, stream, csender, sent, handler, serverVars, faultVars>>

\* Disconnect on the server cancels the context that Listen was given.
CancelListener ==
  /\ listening /\ ~lcancelled
  /\ lcancelled' = TRUE
  /\ UNCHANGED <<client, connected, stream, csender, ccancelled, up, sent, handler, listening,
                 lsender, dones, discarded, faultVars>>

\* The network breaks a stream.
Break(s) ==
  /\ s \in up /\ breaks < MaxBreaks
  /\ up' = up \ {s}
  /\ breaks' = breaks + 1
  /\ UNCHANGED <<client, connected, stream, csender, ccancelled, sent, handler, serverVars,
                 failures>>

StreamStep ==
  \/ \E s \in Streams : Dial(s)
  \/ Authorise \/ ConnectFails \/ Inject \/ RecvFails \/ RecvOnNil \/ ClientEnds \/ Release
  \/ \E s \in Streams : \/ HandlerRejects(s) \/ HandlerFinds(s) \/ HandlerInjects(s)
                        \/ HandlerRegisters(s) \/ HandlerEnds(s)

StreamNext ==
  \/ StreamStep
  \/ Listen \/ CancelClient \/ CancelListener \/ RecvMalformed
  \/ \E s \in Streams : HandlerDiscards(s) \/ Break(s)
-----------------------------------------------------------------------------

\* The variables have their types.
StreamTypeOK ==
  /\ client \in ClientPCs /\ handler \in [Streams -> HandlerPCs]
  /\ {stream, csender, lsender, dones} \subseteq Streams \cup {Nil}
  /\ up \cup sent \subseteq Streams
  /\ {connected, ccancelled, listening, lcancelled, discarded} \subseteq BOOLEAN
  /\ breaks \in 0 .. MaxBreaks /\ failures \in 0 .. MaxFailures

\* The connection failed outright: the first one is not tried again, and a later
\* one panics.
Broken == client \in {"failed", "panicked"}

\* The client sends on the stream it receives from, and its handler reads it and is the
\* only one left.
Attached ==
  /\ client = "receiving" /\ stream \in up /\ csender = stream
  /\ dones = stream /\ handler[stream] = "running"
  /\ \A s \in Streams \ {stream} : handler[s] \in {"none", "returned"}

\* ... and the sender of the listener has the stream and its secret, so that messages get
\* through in both directions.
Reaches == Attached /\ Decrypts(stream)

\* The client has disconnected and all goroutines on both sides have returned.
Disconnected ==
  ccancelled /\ client = "ended" /\ \A s \in Streams : handler[s] \in {"none", "returned"}

Healed(Connection) ==
  Broken \/ Disconnected \/ (~ccancelled /\ (lcancelled \/ Connection))

\* Two handlers have put their streams into the sender and have not registered yet.
Overtaking ==
  \E s, t \in Streams : s # t /\ handler[s] = "injected" /\ handler[t] = "injected"

\* "when the client disconnects and reconnects", "should receive messages from the
\* server without the server opening a new stream" (stream_test.go:206, 240): the
\* listener comes to send on the stream the client receives from.
ServerReaches ==
  <>[](Broken \/ ccancelled \/ lcancelled \/ Reaches)
=============================================================================
