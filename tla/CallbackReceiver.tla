--------------------------- MODULE CallbackReceiver ---------------------------
(***************************************************************************)
(* A provider's callbacks on their way to a receiver as the simulators'    *)
(* tests and the console's evidence feed build one: the simulator is       *)
(* drained, each delivery is verified (SignedCallbacks), and what the      *)
(* verifier accepts goes to the inbox (CallbackInbox).                     *)
(*                                                                         *)
(* Between the two is a network that loses, delays, reorders and repeats:  *)
(* what was drained can be received at any later time, again, or never.    *)
(* The receiver's clock may be read ahead of the provider's, and may step  *)
(* back, by at most what the verifier allows.                              *)
(***************************************************************************)
EXTENDS SignedCallbacks

CONSTANTS
  Horizon,      \* the clock stops here
  Grace,        \* the receiver waits that long after a subject expires
  MaxSequence, MaxEventIds, MaxSubjects,
  InitialStatus, Transitions,
  Valid(_)      \* does a payload match the provider's schema?

VARIABLES
  now,          \* the provider's clock
  queue,        \* the simulator's callbacks not yet drained
  wire,         \* deliveries the network may hand over
  receiver      \* nonces, inbox; accepted: what the verifier let through

Inbox ==
  INSTANCE CallbackInbox WITH
    inbox <- receiver.inbox, Sequences <- 1 .. MaxSequence,
    Subjects <- {}, EventIds <- {}, Instants <- {}, Statuses <- {}

channelVars == <<now, queue, wire, receiver>>

ChannelInit ==
  /\ now = 0 /\ queue = NothingQueued /\ wire = {}
  /\ receiver = [nonces |-> {}, accepted |-> {},
                 inbox |-> [subjects |-> << >>, events |-> << >>]]

Readings == {now + skew : skew \in 0 .. MaxFutureSeconds}

Tick == now < Horizon /\ now' = now + 1 /\ UNCHANGED <<queue, wire, receiver>>

(* drainCallbacks                                                          *)
DrainCallbacks ==
  /\ Due(queue, now) # {}
  /\ queue' = Drained(queue, now) /\ wire' = wire \cup Due(queue, now)
  /\ UNCHANGED <<now, receiver>>

Open(subject, expiresAt) ==
  /\ subject \notin DOMAIN receiver.inbox.subjects
  /\ Cardinality(DOMAIN receiver.inbox.subjects) < MaxSubjects
  /\ receiver' = [receiver EXCEPT !.inbox = Inbox!Opened(@, subject, expiresAt + Grace)]
  /\ UNCHANGED <<now, queue, wire>>

Verified(delivery, reading) ==
  Valid(delivery.payload) /\ Fresh(receiver.nonces, delivery, reading)

Receive(delivery, reading) ==
  LET payload == delivery.payload
      noted   == Recorded(receiver.nonces, delivery, reading)
  IN  /\ receiver' =
           IF ~Valid(payload) THEN receiver
           ELSE IF ~Verified(delivery, reading) THEN [receiver EXCEPT !.nonces = noted]
           ELSE [nonces   |-> noted,
                 accepted |-> receiver.accepted \cup {delivery},
                 inbox    |-> Inbox!Accepted(receiver.inbox, payload.subject, payload.event,
                                payload.sequence, payload.status, reading)]
      /\ UNCHANGED <<now, queue, wire>>

Expire(reading) ==
  /\ receiver' = [receiver EXCEPT !.inbox = Inbox!Expired(@, reading)]
  /\ UNCHANGED <<now, queue, wire>>

ChannelNext ==
  \/ Tick \/ DrainCallbacks
  \/ \E reading \in Readings :
       Expire(reading) \/ \E delivery \in wire : Receive(delivery, reading)
-----------------------------------------------------------------------------
(* What the verifier accepted once it never accepts again, whenever the    *)
(* network repeats it and however the receiver's clock steps.              *)
NeverAcceptedTwice ==
  \A delivery \in receiver.accepted, reading \in Readings : ~Verified(delivery, reading)
=============================================================================
