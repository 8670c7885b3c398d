-------------------------- MODULE MCEventDelivery --------------------------
EXTENDS EventDelivery

CONSTANTS p1, p2, billing, mailer

\* Every event has every consumer.
EveryConsumer == [e \in Events |-> Consumers]

\* A routed event, a recorded fact and an event nobody subscribed to.
MixedConsumers == [e \in Events |-> IF e = 1 THEN Consumers ELSE {}]
=============================================================================
