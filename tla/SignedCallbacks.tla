---------------------------- MODULE SignedCallbacks ----------------------------
(***************************************************************************)
(* Signed provider callbacks: the simulators' delivery queue               *)
(* (provider-simulators/src/simulator-core.mjs) and the receiver's         *)
(* verifier with its nonce store (signing.mjs).                            *)
(*                                                                         *)
(* Signatures, canonical JSON and headers are left out: a delivery that    *)
(* was not signed by the simulator is refused before the nonce store is    *)
(* asked.  A delivery's nonce is its place in the order of signing.        *)
(***************************************************************************)
EXTENDS Integers, FiniteSets, SequencesExt

CONSTANTS MaxAgeSeconds, MaxFutureSeconds, MaxNonces

NothingQueued == [pending |-> {}, order |-> 0]

(* The events of a subject, each [payload, at], as a delivery mode sends   *)
(* them; delay is what it draws for the delivery out of turn.              *)
Timeline(events, mode, delay) ==
  LET n == Len(events)
      again(event) == [event EXCEPT !.at = events[n].at + delay]
  IN  CASE mode = "none" -> << >>
        [] mode = "duplicate" -> Append(events, again(events[n]))
        [] mode = "out_of_order" /\ n >= 2 ->
             SubSeq(events, 1, n - 2) \o <<events[n], again(events[n - 1])>>
        [] OTHER -> events

(* Signing happens here: the time of delivery is the signed timestamp.     *)
Signed(event, order) == [at |-> event.at, nonce |-> order, payload |-> event.payload]

ScheduleTimeline(queue, events, mode, delay) ==
  LET timeline == Timeline(events, mode, delay)
  IN  [pending |-> queue.pending \cup
                     {Signed(timeline[i], queue.order + i - 1) : i \in DOMAIN timeline},
       order   |-> queue.order + Len(timeline)]

Due(queue, now) == {d \in queue.pending : d.at <= now}

Latest(deliveries) ==
  CHOOSE d \in deliveries : \A e \in deliveries :
    e.at < d.at \/ (e.at = d.at /\ e.nonce <= d.nonce)

(* Fold what is due into a state, by time and order of signing; each step  *)
(* has its value before the next begins.                                   *)
ReceiveDue(Receive(_, _), state, queue, now) ==
  MapThenFoldSet(LAMBDA d, left : CHOOSE r \in {Receive(x, d) : x \in {left}} : TRUE,
                 state, LAMBDA d : d, Latest, Due(queue, now))

Drained(queue, now) == [queue EXCEPT !.pending = @ \ Due(queue, now)]
-----------------------------------------------------------------------------
(* Nonces seen, each with the time it is forgotten.                        *)
Kept(nonces, now) == {seen \in nonces : ~(seen.expiresAt < now)}

NonceExpiryAtMaxAge(delivery) == delivery.at + MaxAgeSeconds
NonceExpiry(delivery) == delivery.at + MaxAgeSeconds + MaxFutureSeconds

InWindow(delivery, now) ==
  ~(delivery.at < now - MaxAgeSeconds) /\ ~(delivery.at > now + MaxFutureSeconds)

(* Did the verifier accept, given that the payload is valid?               *)
Fresh(nonces, delivery, now) ==
  /\ InWindow(delivery, now)
  /\ delivery.nonce \notin {seen.nonce : seen \in Kept(nonces, now)}
  /\ Cardinality(Kept(nonces, now)) < MaxNonces

Recorded(nonces, delivery, now) ==
  LET kept == Kept(nonces, now)
      seen == [nonce |-> delivery.nonce, expiresAt |-> NonceExpiry(delivery)]
  IN  IF ~InWindow(delivery, now) THEN nonces
      ELSE IF Fresh(nonces, delivery, now) THEN kept \cup {seen}
      ELSE kept
=============================================================================
