----------------------------- MODULE BankSimulator -----------------------------
(***************************************************************************)
(* The RUB/SBP payment simulator, provider-simulators/src/bank.mjs, and    *)
(* its callbacks.  A reference stands for the scenario it is configured    *)
(* for.  An intent is named by the idempotency key that made it: a retry   *)
(* answers the stored response, another request under the key is refused.  *)
(* Amounts, transaction ids and the ledger's "none" are left out.          *)
(***************************************************************************)
EXTENDS Integers, Sequences, FiniteSets

CONSTANTS
  Scenarios, IdempotencyKeys, MaxResources,
  IntentTtl, Delays, LateDelays, ReorderDelay,
  LastCreation,   \* intents are created up to then
  Horizon, Grace, MaxEventIds, MaxSubjects,
  MaxAgeSeconds, MaxFutureSeconds, MaxNonces

VARIABLES now, queue, wire, receiver,
          intents   \* by key: the events the bank will observe, and the expiry

BankScenarios ==
  LET plan(events, delivery) == [events |-> events, delivery |-> delivery]
  IN  [payment_found         |-> plan(<<"payment_received">>, "normal"),
       payment_not_found     |-> plan(<<"expired_no_payment">>, "normal"),
       partial_payment       |-> plan(<<"partial_payment">>, "normal"),
       duplicate_payment     |-> plan(<<"payment_received", "duplicate_payment">>, "normal"),
       reversed_payment      |-> plan(<<"payment_received", "payment_reversed">>, "normal"),
       provider_outage       |-> plan(<< >>, "none"),
       duplicate_callback    |-> plan(<<"payment_received">>, "duplicate"),
       out_of_order_callback |-> plan(<<"payment_received", "payment_reversed">>, "out_of_order"),
       late_callback         |-> plan(<<"payment_received">>, "late")]

BankTransitions ==
  [awaiting_payment   |-> {"payment_received", "partial_payment", "expired_no_payment"},
   payment_received   |-> {"duplicate_payment", "payment_reversed"},
   partial_payment    |-> {"payment_reversed"},
   duplicate_payment  |-> {"payment_reversed"},
   payment_reversed   |-> {},
   expired_no_payment |-> {}]

Channel ==
  INSTANCE CallbackReceiver WITH
    MaxSequence <- 2, InitialStatus <- "awaiting_payment", Transitions <- BankTransitions,
    Valid <- LAMBDA payload : TRUE

vars == <<now, queue, wire, receiver, intents>>

Init == Channel!ChannelInit /\ intents = << >>

(* The bank observes an ordinary payment while the intent is valid.        *)
Clamped(at, expiresAt) == IF at < expiresAt - 1 THEN at ELSE expiresAt - 1

OccurredAt(scenario, index, previousAt, expiresAt, delay, late) ==
  LET plan == BankScenarios[scenario]
  IN  IF plan.events[index] = "expired_no_payment" THEN expiresAt + 1
      ELSE IF plan.delivery = "late" /\ index = 1 THEN expiresAt + late
      ELSE Clamped(previousAt + delay, expiresAt)

(* The events a new intent will observe: delays[i] precedes event i.       *)
Observed(scenario, key, expiresAt, delays, late) ==
  LET statuses == BankScenarios[scenario].events
      at[i \in 0 .. Len(statuses)] ==
        IF i = 0 THEN now
        ELSE OccurredAt(scenario, i, at[i - 1], expiresAt, delays[i], late)
  IN  [i \in DOMAIN statuses |->
         [at |-> at[i],
          payload |-> [subject |-> key, event |-> <<key, i>>, sequence |-> i,
                       status |-> statuses[i]]]]

DeliveryMode(scenario) ==
  LET mode == BankScenarios[scenario].delivery
  IN  IF mode = "late" THEN "normal" ELSE mode

CreatePaymentIntent(key, scenario, delays, late) ==
  LET expiresAt == now + IntentTtl
      events    == Observed(scenario, key, expiresAt, delays, late)
  IN  /\ now <= LastCreation
      /\ scenario # "provider_outage"
      /\ key \notin DOMAIN intents
      /\ Cardinality(DOMAIN intents) < MaxResources
      /\ intents' = [k \in DOMAIN intents \cup {key} |->
           IF k = key THEN [events |-> events, expiresAt |-> expiresAt] ELSE intents[k]]
      /\ queue' = Channel!ScheduleTimeline(queue, events, DeliveryMode(scenario), ReorderDelay)
      /\ UNCHANGED <<now, wire, receiver>>

(* getPaymentStatus: the sequence it shows.                                *)
Visible(key) == Cardinality({i \in DOMAIN intents[key].events : intents[key].events[i].at <= now})

Next ==
  \/ \E key \in IdempotencyKeys, scenario \in Scenarios, late \in LateDelays :
       \E delays \in [1 .. Len(BankScenarios[scenario].events) -> Delays] :
         CreatePaymentIntent(key, scenario, delays, late)
  \/ /\ UNCHANGED intents
     /\ \/ Channel!ChannelNext
        \/ \E key \in DOMAIN intents : Channel!Open(key, intents[key].expiresAt)

Spec == Init /\ [][Next]_vars
-----------------------------------------------------------------------------
(* What the receiver holds of an intent is what the bank observed, step by *)
(* step and never ahead of it, whatever the network does; nothing is held  *)
(* for review; no delivery counts twice; the queue stays in its bound.     *)
InboxTellsTheBank ==
  /\ \A key \in DOMAIN receiver.inbox.subjects :
       LET subject == receiver.inbox.subjects[key]
           told(n) == intents[key].events[n].payload.status
       IN  /\ subject.sequence <= Visible(key)
           /\ \A n \in 1 .. subject.sequence : subject.applied[n] = told(n)
           /\ \A claim \in subject.claims : claim[2] = told(claim[1])
           /\ \A n \in 1 .. subject.sequence + 1 :
                n \in DOMAIN intents[key].events =>
                  told(n) \in BankTransitions[IF n = 1 THEN "awaiting_payment" ELSE told(n - 1)]
  /\ Channel!NeverAcceptedTwice
  /\ Cardinality(queue.pending) <= 16 * MaxResources
=============================================================================
