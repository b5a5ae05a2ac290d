--------------------------- MODULE KafkaProducer ---------------------------
(***************************************************************************)
(* internal/kafkasink/producer.go: Produce puts an envelope on a bounded   *)
(* channel and returns; one flusher goroutine hands envelopes to the       *)
(* franz-go client, whose callback reports the broker's answer later.      *)
(* The client and the broker are external.  The broker is up while it      *)
(* answers within RecordDeliveryTimeout and RecordRetries: a record in the *)
(* client is then acknowledged, and otherwise it may fail.  Some records   *)
(* are refused whenever they come: larger than ProducerBatchMaxBytes (the  *)
(* receiver takes larger bodies), or for a topic that does not exist.      *)
(*                                                                         *)
(* An envelope's onAck is "sync" while a drain waits for it and "none"     *)
(* otherwise; a drain that gives up leaves its envelope behind unheard.    *)
(***************************************************************************)
EXTENDS Naturals, Sequences, FiniteSets, SequencesExt

CONSTANTS
  Probe,       \* the monitor's ping, a record nobody asks about afterwards
  Refused,     \* external: messages that the client or the broker refuses for good
  ChanCap,     \* Config.BufferSize
  ClientCap,   \* external: records the client buffers before Produce blocks
  MaxOutages   \* bound: how often the broker goes down

ASSUME ProducerAssumption ==
  /\ ChanCap \in Nat \ {0} /\ ClientCap \in Nat \ {0} /\ MaxOutages \in Nat
  /\ Probe \notin Refused

VARIABLES
  ch,         \* Producer.ch
  prodClosed, \* Producer.closed, and ch closed
  inClient,   \* envelopes in the client, not yet answered
  ack,        \* the callback's answer to the waiting drain: "none", "ok", "err"
  brokerUp,   \* external
  outages,    \* how often the broker went down
  broker,     \* external: messages the broker has acknowledged
  expired     \* history: messages whose record failed with nobody waiting for it

prodVars == <<ch, prodClosed, inClient, ack, brokerUp, outages, broker, expired>>

ProdInit ==
  /\ ch = <<>>
  /\ prodClosed = FALSE
  /\ inClient = <<>>
  /\ ack = "none"
  /\ brokerUp = TRUE
  /\ outages = 0
  /\ broker = {}
  /\ expired = {}

Envelope(m, onAck) == [msg |-> m, onAck |-> onAck]

\* ProduceWithCallback: nil once the envelope is on the channel; an error when the
\* channel stays full for BlockTimeout.
CanProduce == ~prodClosed /\ Len(ch) < ChanCap
ProduceFull == ~prodClosed /\ Len(ch) >= ChanCap
Produce(m, onAck) ==
  /\ CanProduce
  /\ ch' = Append(ch, Envelope(m, onAck))

\* flusherLoop: client.Produce blocks while the client's buffer is full.
Flusher ==
  /\ ch # <<>>
  /\ Len(inClient) < ClientCap
  /\ inClient' = Append(inClient, Head(ch))
  /\ ch' = Tail(ch)
  /\ UNCHANGED <<prodClosed, ack, brokerUp, outages, broker, expired>>

\* The produce callback, with the broker's acknowledgement or the final error.
BrokerAcks ==
  /\ brokerUp
  /\ \E i \in DOMAIN inClient :
       /\ inClient[i].msg \notin Refused
       /\ broker' = broker \cup ({inClient[i].msg} \ {Probe})
       /\ ack' = IF inClient[i].onAck = "sync" THEN "ok" ELSE ack
       /\ inClient' = RemoveAt(inClient, i)
  /\ UNCHANGED <<ch, prodClosed, brokerUp, outages, expired>>

RecordFails ==
  /\ \E i \in DOMAIN inClient :
       /\ ~brokerUp \/ inClient[i].msg \in Refused
       /\ IF inClient[i].onAck = "sync"
          THEN ack' = "err" /\ UNCHANGED expired
          ELSE expired' = expired \cup ({inClient[i].msg} \ {Probe}) /\ UNCHANGED ack
       /\ inClient' = RemoveAt(inClient, i)
  /\ UNCHANGED <<ch, prodClosed, brokerUp, outages, broker>>

BrokerDown ==
  /\ brokerUp
  /\ outages < MaxOutages
  /\ brokerUp' = FALSE
  /\ outages' = outages + 1
  /\ UNCHANGED <<ch, prodClosed, inClient, ack, broker, expired>>

BrokerBack ==
  /\ ~brokerUp
  /\ brokerUp' = TRUE
  /\ UNCHANGED <<ch, prodClosed, inClient, ack, outages, broker, expired>>

\* The drain's context is done: nobody listens to its envelope any more.
Unheard(q) == [i \in DOMAIN q |-> [q[i] EXCEPT !.onAck = "none"]]
Abandon ==
  /\ ch' = Unheard(ch)
  /\ inClient' = Unheard(inClient)
  /\ ack' = "none"

\* Close: no new message; then either the flusher has seen every record answered,
\* or CloseTimeout passes, a plain timer, and the client fails what is left.
CloseProducer == prodClosed' = TRUE

Flushed == prodClosed /\ ch = <<>> /\ inClient = <<>>

Messages(q) == {q[i].msg : i \in DOMAIN q} \ {Probe}
CloseTimeout ==
  /\ prodClosed
  /\ ~Flushed
  /\ expired' = expired \cup Messages(ch) \cup Messages(inClient)
  /\ ch' = <<>>
  /\ inClient' = <<>>
  /\ UNCHANGED <<prodClosed, ack, brokerUp, outages, broker>>

ProdNext == Flusher \/ BrokerAcks \/ RecordFails \/ BrokerDown \/ BrokerBack

ProdTypeOK(M) ==
  LET Envelopes == [msg : M \cup {Probe}, onAck : {"none", "sync"}] IN
  /\ ch \in Seq(Envelopes)
  /\ Len(ch) <= ChanCap
  /\ inClient \in Seq(Envelopes)
  /\ Len(inClient) <= ClientCap
  /\ prodClosed \in BOOLEAN
  /\ ack \in {"none", "ok", "err"}
  /\ brokerUp \in BOOLEAN
  /\ outages \in 0..MaxOutages
  /\ broker \in SUBSET M
  /\ expired \in SUBSET M
=============================================================================
