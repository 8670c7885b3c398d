-------------------------- MODULE DeliveryContract --------------------------
(***************************************************************************)
(* What the outbox and inbox promise the business code that publishes an   *)
(* event and the consumers that handle it: an event is acknowledged only   *)
(* once every consumer registered for its type has carried out its effect  *)
(* (outbox-publisher.ts:20-24, "an acknowledgement means a consumer        *)
(* handled it"), one that nobody handles only when that is by design, and  *)
(* an acknowledged event never returns to the queue.                       *)
(***************************************************************************)
CONSTANTS
  Events,
  Consumers,
  ConsumersOf,   \* event -> the consumers of its type
  RecordOnly     \* events recorded for no consumer, by design

VARIABLES
  stage,    \* event -> "absent", "queued", "acked" or "parked"
  done      \* event -> the consumers whose effect has happened

dvars == <<stage, done>>

DInit ==
  /\ stage = [e \in Events |-> "absent"]
  /\ done = [e \in Events |-> {}]

\* The business transaction records the event.
Record(e) ==
  /\ stage[e] = "absent"
  /\ stage' = [stage EXCEPT ![e] = "queued"]
  /\ UNCHANGED done

\* A consumer carries out its effect, perhaps again, perhaps late.
Effect(e, c) ==
  /\ stage[e] # "absent"
  /\ c \in ConsumersOf[e]
  /\ done' = [done EXCEPT ![e] = @ \cup {c}]
  /\ UNCHANGED stage

Acknowledge(e) ==
  /\ stage[e] \in {"queued", "parked"}
  /\ done[e] = ConsumersOf[e]
  /\ ConsumersOf[e] # {} \/ e \in RecordOnly
  /\ stage' = [stage EXCEPT ![e] = "acked"]
  /\ UNCHANGED done

\* Given up for an operator to look at.
Park(e) ==
  /\ stage[e] = "queued"
  /\ stage' = [stage EXCEPT ![e] = "parked"]
  /\ UNCHANGED done

\* Replayed by an operator, who picks events or takes all that are parked.
Requeue(S) ==
  /\ S # {}
  /\ \A e \in S : stage[e] = "parked"
  /\ stage' = [e \in Events |-> IF e \in S THEN "queued" ELSE stage[e]]
  /\ UNCHANGED done

DNext ==
  \/ \E e \in Events :
       \/ Record(e) \/ Acknowledge(e) \/ Park(e)
       \/ \E c \in Consumers : Effect(e, c)
  \/ \E S \in SUBSET Events : Requeue(S)

DSpec == DInit /\ [][DNext]_dvars
=============================================================================
