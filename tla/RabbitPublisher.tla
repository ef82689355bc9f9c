--------------------------- MODULE RabbitPublisher ---------------------------
(***************************************************************************)
(* The connection of one API process to RabbitMQ                           *)
(* (queue/rabbit-publisher.service.ts), shared by the outbox poller and    *)
(* the readiness probes: opened by whoever needs it first, cleared by its  *)
(* close event.                                                            *)
(*                                                                         *)
(* A caller of ensureConnected goes on in the same turn of the event loop  *)
(* in which the connection is found or set up.                             *)
(***************************************************************************)
EXTENDS Naturals, FiniteSets

CONSTANTS Probes,     \* concurrent requests that may ping
          Poller,     \* the outbox publisher
          NULL,
          MaxFaults   \* bound: lost connections, failing set-ups, restarts

Callers == Probes \cup {Poller}
Connections == 1 .. (MaxFaults + 1)

ASSUME PublisherAssumption == Poller \notin Probes /\ MaxFaults \in Nat /\ NULL \notin Nat

VARIABLES
  broker,      \* "up" or "down"
  connection,  \* [connection -> its state]
  channel,     \* the connection this.channel belongs to, or NULL
  connecting,  \* the connection this.connecting sets up, or NULL
  call,        \* [caller -> the state of its publish or ping]
  on,          \* [caller -> the connection it waits for or has sent on]
  faults

service == <<connection, channel, connecting>>
publisherVars == <<broker, service, call, on, faults>>

\* lost, closing: gone while it was set up, or in use, and not yet noticed.
\* leaked: open and referred to by nothing.
States == {"none", "connecting", "setup", "ready", "lost", "closing", "leaked"}
Open == {n \in Connections : connection[n] \in {"setup", "ready", "leaked"}}

PublisherTypeOK ==
  /\ broker \in {"up", "down"} /\ faults \in 0 .. MaxFaults
  /\ connection \in [Connections -> States]
  /\ {channel, connecting} \subseteq Connections \cup {NULL}
  /\ call \in [Callers -> {"idle", "wait", "sent", "ok", "failed", "hung"}]
  /\ on \in [Callers -> Connections \cup {NULL}]
  /\ \A c \in Callers : call[c] \in {"wait", "sent"} <=> on[c] # NULL

PublisherInit ==
  /\ broker \in {"up", "down"} /\ faults = 0
  /\ connection = [n \in Connections |-> "none"]
  /\ channel = NULL /\ connecting = NULL
  /\ call = [c \in Callers |-> "idle"]
  /\ on = [c \in Callers |-> NULL]

\* The callers that wait for or have sent on n.
On(n) == {c \in Callers : on[c] = n}

\* They learn that it failed; a confirm that is awaited may also never come.
FailCalls(n) ==
  /\ \E end \in {"failed", "hung"} :
       call' = [c \in Callers |-> IF c \notin On(n) THEN call[c]
                                  ELSE IF c = Poller /\ call[c] = "sent" THEN end
                                  ELSE "failed"]
  /\ on' = [c \in Callers |-> IF c \in On(n) THEN NULL ELSE on[c]]

Fault == faults < MaxFaults /\ faults' = faults + 1

-----------------------------------------------------------------------------
(* ensureConnected, publish, ping *)

Call(c, state, n) == call' = [call EXCEPT ![c] = state] /\ on' = [on EXCEPT ![c] = n]

\* The channel is taken for the broker: nothing is sent.
ChannelIsEnough(c) == channel # NULL /\ Call(c, "ok", NULL) /\ UNCHANGED service

\* this.channel is set: checkExchange, or publish and waitForConfirms.
SendAtOnce(c) == channel # NULL /\ Call(c, "sent", channel) /\ UNCHANGED service

JoinConnecting(c) ==
  channel = NULL /\ connecting # NULL /\ Call(c, "wait", connecting) /\ UNCHANGED service

Unused(n) == connection[n] = "none" /\ \A m \in 1 .. (n - 1) : connection[m] # "none"

Connect(c) ==
  \E n \in Connections :
    /\ Unused(n)
    /\ connection' = [connection EXCEPT ![n] = "connecting"]
    /\ connecting' = n
    /\ Call(c, "wait", n)
    /\ UNCHANGED channel

\* Every caller that finds no channel connects.
ConnectEach(c) == channel = NULL /\ Connect(c)

StartConnecting(c) == channel = NULL /\ connecting = NULL /\ Connect(c)

EnsureConnected(c) ==
  /\ SendAtOnce(c) \/ JoinConnecting(c) \/ StartConnecting(c)
  /\ UNCHANGED <<broker, faults>>

\* The broker confirms, or finds the exchange.
Reply(c) ==
  /\ call[c] = "sent" /\ connection[on[c]] = "ready"
  /\ Call(c, "ok", NULL)
  /\ UNCHANGED <<broker, service, faults>>

\* The outbox poller publishes an event, and later the next one.
PollerPublishes ==
  /\ call[Poller] \in {"idle", "ok", "failed"}
  /\ EnsureConnected(Poller)

-----------------------------------------------------------------------------
(* connect *)

\* amqp.connect resolves.
Connected(n) ==
  /\ connection[n] = "connecting" /\ broker = "up"
  /\ connection' = [connection EXCEPT ![n] = "setup"]
  /\ UNCHANGED <<broker, channel, connecting, call, on, faults>>

\* amqp.connect or a later step of connect rejects, for the broker is down or
\* the socket or the heartbeat reports its loss; finally clears connecting.
ConnectRejects(n) ==
  /\ connection[n] = "lost" \/ (connection[n] = "connecting" /\ broker = "down")
  /\ connection' = [connection EXCEPT ![n] = "none"]
  /\ connecting' = NULL
  /\ FailCalls(n)
  /\ UNCHANGED <<broker, channel, faults>>

\* The channel is open and the topology asserted.
SetUp(n) ==
  /\ connection[n] = "setup"
  /\ connection' = [connection EXCEPT ![n] = "ready"]
  /\ channel' = n /\ connecting' = NULL
  /\ call' = [c \in Callers |-> IF c \in On(n) THEN "sent" ELSE call[c]]
  /\ UNCHANGED <<broker, on, faults>>

\* The broker refuses the channel or a declaration: connect rejects and
\* leaves its connection open.
SetUpFails(n) ==
  /\ connection[n] = "setup" /\ Fault
  /\ connection' = [connection EXCEPT ![n] = "leaked"]
  /\ connecting' = NULL
  /\ FailCalls(n)
  /\ UNCHANGED <<broker, channel>>

-----------------------------------------------------------------------------
(* The broker, the network and the process *)

\* The peer or the network is gone: of a connection, or of all with the broker.
Gone == [setup |-> "lost", ready |-> "closing", leaked |-> "none"]
Lose(lost) ==
  /\ Fault
  /\ connection' = [n \in Connections |-> IF n \in lost THEN Gone[connection[n]]
                                                       ELSE connection[n]]
  /\ UNCHANGED <<channel, connecting, call, on>>

ConnectionLost == UNCHANGED broker /\ \E n \in Open : Lose({n})
BrokerStops == broker = "up" /\ broker' = "down" /\ Lose(Open)
BrokerStarts == /\ broker = "down" /\ broker' = "up"
                /\ UNCHANGED <<service, call, on, faults>>

\* The close handler logs and keeps the channel.
KeepsChannel(n) ==
  /\ connection[n] = "closing"
  /\ connection' = [connection EXCEPT ![n] = "none"]
  /\ FailCalls(n)
  /\ UNCHANGED <<broker, channel, connecting, faults>>

\* The loss is noticed: the close handler clears this.channel, whichever connection that is of.
Closed(n) ==
  /\ connection[n] = "closing"
  /\ connection' = [connection EXCEPT ![n] = "none"]
  /\ channel' = NULL
  /\ FailCalls(n)
  /\ UNCHANGED <<broker, connecting, faults>>

\* The process is replaced, on a rollout or because connect has no listener
\* for an error of the connection it sets up.
Restart ==
  /\ Fault
  /\ connection' = [n \in Connections |-> "none"]
  /\ channel' = NULL /\ connecting' = NULL
  /\ call' = [c \in Callers |-> "idle"] /\ on' = [c \in Callers |-> NULL]
  /\ UNCHANGED broker

Progress == \/ \E n \in Connections : Connected(n) \/ ConnectRejects(n) \/ SetUp(n) \/ Closed(n)
            \/ \E c \in Callers : Reply(c)

Trouble == \/ \E n \in Connections : SetUpFails(n)
           \/ ConnectionLost \/ BrokerStops \/ BrokerStarts

-----------------------------------------------------------------------------
(* Properties *)

\* However pings, publishes and reconnects overlap, the process holds one
\* connection: the one in use or the one being set up, never both; others are
\* left over by a set-up the broker refused, one for each (ensureConnected's
\* single flight, connect).
ConnectionsAccounted ==
  LET held == {n \in Connections : connection[n] \notin {"none", "leaked"}}
  IN  /\ held = {channel, connecting} \ {NULL} /\ NULL \in {channel, connecting}
      /\ Cardinality({n \in Connections : connection[n] = "leaked"}) <= faults

\* Once the broker stays up the process is connected for good, whichever step
\* of a connection the trouble hit, although a poll may hang for ever.
EventuallyConnected ==
  <>[](broker = "up") => <>[](channel # NULL /\ connection[channel] = "ready")

=============================================================================
