---------------------------- MODULE ChecksSimulator ----------------------------
(***************************************************************************)
(* The personal-checks simulator, provider-simulators/src/checks.mjs, and  *)
(* its callbacks: one check between a sender and a named recipient.        *)
(*                                                                         *)
(* Expiry and the recipient's clearing are noticed by the next operation   *)
(* of whoever makes it, refused or not.  A retry under its idempotency key *)
(* answers the stored response and changes nothing; a refused call is not  *)
(* stored.  Identifiers, the asset and comments are left out.              *)
(***************************************************************************)
EXTENDS Integers, Sequences, FiniteSets

CONSTANTS
  Deliveries,                \* how scenarios deliver callbacks
  CheckTtl, LateDelay, DuplicateDelay, MaxFailedClaimAttempts,
  LastCreation,              \* a check is created up to then
  Horizon, Grace, MaxEventIds, MaxSubjects,
  MaxAgeSeconds, MaxFutureSeconds, MaxNonces

(* A check lives for a while; delays, ages and limits are naturals.        *)
ChecksConstants ==
  /\ CheckTtl \in Nat \ {0}
  /\ {LateDelay, DuplicateDelay, MaxFailedClaimAttempts, MaxAgeSeconds, MaxFutureSeconds} \subseteq Nat

VARIABLES now, queue, wire, receiver,
          check,             \* the check, or NoCheck; history is kept for the property
          cleared            \* is the recipient KYC verified?

ChecksTransitions ==
  [registered             |-> {"awaiting_confirmation"},
   awaiting_confirmation  |-> {"created", "awaiting_recipient_kyc", "cancelled", "expired"},
   created                |-> {"claimed", "cancelled", "expired"},
   awaiting_recipient_kyc |-> {"created", "cancelled", "expired"},
   claimed |-> {}, cancelled |-> {}, expired |-> {}]

Amount == 1
Outstanding(status) == IF status \in {"created", "awaiting_recipient_kyc"} THEN Amount ELSE 0

ValidChecksCallback(payload) ==
  /\ payload.occurredAt <= payload.expiresAt
  /\ payload.outstanding = Outstanding(payload.status)

Channel ==
  INSTANCE CallbackReceiver WITH
    MaxSequence <- 4, InitialStatus <- "registered", Transitions <- ChecksTransitions,
    Valid <- ValidChecksCallback

vars == <<now, queue, wire, receiver, check, cleared>>

CheckId == "chk"
NoCheck == [status |-> "registered", history |-> << >>]
Exists == check # NoCheck

Init == Channel!ChannelInit /\ check = NoCheck /\ cleared \in BOOLEAN

(* The check moved to a status, and the callback that says so.             *)
Emitted(sim, status, occurredAt) ==
  LET sequence == Len(sim.check.history) + 1
      payload == [subject |-> CheckId, event |-> sequence, sequence |-> sequence,
                  status |-> status, outstanding |-> Outstanding(status),
                  occurredAt |-> occurredAt, expiresAt |-> sim.check.expiresAt]
      mode == sim.check.delivery
      deliverAt == IF mode = "late" THEN occurredAt + CheckTtl + LateDelay ELSE occurredAt
      times == CASE mode = "none" -> << >>
                 [] mode = "duplicate" -> <<deliverAt, deliverAt + DuplicateDelay>>
                 [] OTHER -> <<deliverAt>>
  IN  [check |-> [sim.check EXCEPT !.status = status,
                    !.history = Append(@, [status |-> status, at |-> occurredAt])],
       queue |-> Channel!ScheduleTimeline(sim.queue,
                   [i \in DOMAIN times |-> [payload |-> payload, at |-> times[i]]],
                   "normal", 0)]

Unresolved(status) == status \in {"awaiting_confirmation", "created", "awaiting_recipient_kyc"}

IsDue(c) == Unresolved(c.status) /\ now >= c.expiresAt

ExpiredIfDue(sim) ==
  IF IsDue(sim.check) THEN Emitted(sim, "expired", sim.check.expiresAt) ELSE sim

PromotedIfCleared(sim) ==
  IF sim.check.status = "awaiting_recipient_kyc" /\ cleared
  THEN Emitted(sim, "created", now) ELSE sim

Refreshed == PromotedIfCleared(ExpiredIfDue([check |-> check, queue |-> queue]))

Becomes(sim) ==
  check' = sim.check /\ queue' = sim.queue /\ UNCHANGED <<now, wire, receiver, cleared>>

Members == {"sender", "recipient"}

CreateCheck(delivery) ==
  /\ ~Exists /\ now <= LastCreation
  /\ Becomes(Emitted(
       [check |-> [status |-> "registered", delivery |-> delivery, history |-> << >>,
                   expiresAt |-> now + CheckTtl, failedClaimAttempts |-> 0],
        queue |-> queue], "awaiting_confirmation", now))

IssueCheck(member) ==
  /\ Exists
  /\ Becomes(IF member = "sender" /\ Refreshed.check.status = "awaiting_confirmation"
             THEN Emitted(Refreshed, IF cleared THEN "created" ELSE "awaiting_recipient_kyc", now)
             ELSE Refreshed)

MayClaim(member, c) ==
  /\ member = "recipient" /\ cleared
  /\ c.status = "created" /\ c.failedClaimAttempts < MaxFailedClaimAttempts

ClaimCheck(member, matches) ==
  /\ Exists
  /\ Becomes(IF ~MayClaim(member, Refreshed.check) THEN Refreshed
             ELSE IF matches THEN Emitted(Refreshed, "claimed", now)
             ELSE [Refreshed EXCEPT !.check.failedClaimAttempts = @ + 1])

CancelCheck(member) ==
  /\ Exists
  /\ Becomes(IF member = "sender" /\ Unresolved(Refreshed.check.status)
             THEN Emitted(Refreshed, "cancelled", now) ELSE Refreshed)

GetCheckStatus == Exists /\ Becomes(Refreshed)

SetMemberKyc(verified) ==
  cleared' = verified /\ UNCHANGED <<now, queue, wire, receiver, check>>

Next ==
  \/ \E delivery \in Deliveries : CreateCheck(delivery)
  \/ \E member \in Members :
       \/ IssueCheck(member) \/ CancelCheck(member)
       \/ \E matches \in BOOLEAN : ClaimCheck(member, matches)
  \/ GetCheckStatus
  \/ \E verified \in BOOLEAN : SetMemberKyc(verified)
  \/ /\ UNCHANGED <<check, cleared>>
     /\ Channel!ChannelNext \/ (Exists /\ Channel!Open(CheckId, check.expiresAt))

Spec == Init /\ [][Next]_vars
-----------------------------------------------------------------------------
(* A check goes only where its callbacks' consumers may follow: it expires *)
(* at its expiry and is claimed or cancelled only before, never after too  *)
(* many wrong claims; every callback passes the schema check, whoever's    *)
(* call happened to emit it; the receiver's view is a prefix of what       *)
(* happened, and no delivery counts twice.                                 *)
InboxTellsTheChecks ==
  /\ \A n \in DOMAIN check.history :
       LET event == check.history[n]
           before == IF n = 1 THEN "registered" ELSE check.history[n - 1].status
       IN  /\ event.status \in ChecksTransitions[before]
           /\ n > 1 => check.history[n - 1].at <= event.at
           /\ event.status = "expired" => event.at = check.expiresAt
           /\ event.status # "expired" => event.at < check.expiresAt
           /\ event.status = "claimed" => check.failedClaimAttempts < MaxFailedClaimAttempts
  /\ \A delivery \in queue.pending \cup wire : ValidChecksCallback(delivery.payload)
  /\ \A s \in DOMAIN receiver.inbox.subjects :
       LET subject == receiver.inbox.subjects[s]
       IN  /\ subject.sequence <= Len(check.history)
           /\ \A n \in 1 .. subject.sequence : subject.applied[n] = check.history[n].status
  /\ Channel!NeverAcceptedTwice
  /\ Cardinality(queue.pending) <= 16
=============================================================================
