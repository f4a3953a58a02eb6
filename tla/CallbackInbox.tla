----------------------------- MODULE CallbackInbox -----------------------------
(***************************************************************************)
(* The inbox for provider callbacks, provider-simulators/src/              *)
(* callback-inbox.mjs: every method is synchronous; callbacks come late,   *)
(* repeated, out of order or not at all, and clocks are the callers'.      *)
(*                                                                         *)
(* A payload stands for its digest.  Counters no decision reads are left   *)
(* out.  The claims of a subject are kept for the property: what each      *)
(* accepted payload said of its sequence.                                  *)
(***************************************************************************)
EXTENDS Integers, FiniteSets

CONSTANTS
  Subjects, EventIds, Sequences, Instants,
  Statuses,                   \* those callbacks claim
  InitialStatus, Transitions, \* of the adapter
  MaxSubjects, MaxEventIds

ASSUME InboxAssumption ==
  IsFiniteSet(Sequences) /\ Sequences = 1 .. Cardinality(Sequences)

VARIABLE inbox \* the open subjects, the payload each event id was first seen with

InboxInit == inbox = [subjects |-> << >>, events |-> << >>]

IsOpen(s) == s \in DOMAIN inbox.subjects

(* A map after set(key, value) and after delete(key) of some keys.         *)
Mapped(f, key, value) ==
  [k \in DOMAIN f \cup {key} |-> IF k = key THEN value ELSE f[k]]

Except(f, keys) == [k \in DOMAIN f \ keys |-> f[k]]

Opened(box, s, deadline) ==
  [box EXCEPT !.subjects = Mapped(@, s,
     [status |-> InitialStatus, sequence |-> 0, deadline |-> deadline,
      timedOut |-> FALSE, parked |-> << >>, applied |-> << >>,
      eventIds |-> {}, claims |-> {}])]

Applied(subject, status) ==
  [subject EXCEPT !.status = status, !.sequence = @ + 1,
                  !.applied = Mapped(@, subject.sequence + 1, status)]

InTurnOnce(subject) ==
  {n \in DOMAIN subject.parked \cap {subject.sequence + 1} :
     subject.parked[n] \in Transitions[subject.status]}

(* What is parked right after the sequence reached, each step allowed.     *)
InTurn(subject) ==
  LET parked == subject.parked
      from   == subject.sequence + 1
      before(n) == IF n = from THEN subject.status ELSE parked[n - 1]
  IN  {n \in DOMAIN parked :
         \A k \in from .. n : k \in DOMAIN parked /\ parked[k] \in Transitions[before(k)]}

(* The loop of accept: it takes what is in turn, and drops what it stops at.*)
Folded(subject) ==
  LET turn == InTurn(subject)
      last == subject.sequence + Cardinality(turn)
  IN  [subject EXCEPT !.status = IF turn = {} THEN @ ELSE subject.parked[last],
                      !.sequence = last,
                      !.applied = [n \in DOMAIN @ \cup turn |->
                                     IF n \in turn THEN subject.parked[n] ELSE @[n]],
                      !.parked = Except(@, turn \cup {last + 1})]

(* What a sequence already resolved or parked was said to be.              *)
Prior(subject, sequence) ==
  LET known == IF sequence <= subject.sequence THEN subject.applied ELSE subject.parked
  IN  {known[k] : k \in DOMAIN known \cap {sequence}}

(* An accepted callback in time: stale or held for review, parked, applied.*)
Delivered(subject, sequence, status) ==
  IF sequence <= subject.sequence \/ Prior(subject, sequence) # {} THEN subject
  ELSE IF sequence > subject.sequence + 1
       THEN [subject EXCEPT !.parked = Mapped(@, sequence, status)]
  ELSE IF status \notin Transitions[subject.status] THEN subject
  ELSE Folded(Applied(subject, status))

IsLate(subject, receivedAt) == subject.timedOut \/ receivedAt > subject.deadline

(* Duplicates, conflicts and unknown subjects change nothing here; an      *)
(* event id is consumed before it is judged.                               *)
Takes(box, s, event) ==
  /\ s \in DOMAIN box.subjects /\ event \notin DOMAIN box.events
  /\ Cardinality(box.subjects[s].eventIds) < MaxEventIds

Accepted(box, s, event, sequence, status, receivedAt) ==
  IF ~Takes(box, s, event) THEN box
  ELSE LET noted == [box.subjects[s] EXCEPT !.eventIds = @ \cup {event}]
           left  == IF IsLate(noted, receivedAt) THEN noted
                    ELSE [Delivered(noted, sequence, status)
                            EXCEPT !.claims = @ \cup {<<sequence, status>>}]
       IN  [subjects |-> [box.subjects EXCEPT ![s] = left],
            events |-> Mapped(box.events, event,
                         [subject |-> s, sequence |-> sequence, status |-> status])]

ExpiredInitially(box, now) ==
  [box EXCEPT !.subjects = [s \in DOMAIN @ |->
     IF @[s].status = InitialStatus /\ now > @[s].deadline
     THEN [@[s] EXCEPT !.timedOut = TRUE] ELSE @[s]]]

Expired(box, now) ==
  [box EXCEPT !.subjects = [s \in DOMAIN @ |->
     IF Transitions[@[s].status] # {} /\ now > @[s].deadline
     THEN [@[s] EXCEPT !.timedOut = TRUE] ELSE @[s]]]

Discarded(box, s) ==
  IF s \notin DOMAIN box.subjects THEN box
  ELSE [subjects |-> Except(box.subjects, {s}),
        events |-> Except(box.events, box.subjects[s].eventIds)]

OpenSubject(s, deadline) ==
  /\ ~IsOpen(s) /\ Cardinality(DOMAIN inbox.subjects) < MaxSubjects
  /\ inbox' = Opened(inbox, s, deadline)

Accept(s, event, sequence, status, receivedAt) ==
  /\ Takes(inbox, s, event)
  /\ inbox' = Accepted(inbox, s, event, sequence, status, receivedAt)

Expire(now) == inbox' = Expired(inbox, now) /\ inbox' # inbox

Discard(s) == IsOpen(s) /\ inbox' = Discarded(inbox, s)

InboxNext ==
  \/ \E s \in Subjects :
       \/ \E deadline \in Instants : OpenSubject(s, deadline)
       \/ \E event \in EventIds, sequence \in Sequences,
             status \in Statuses, receivedAt \in Instants :
            Accept(s, event, sequence, status, receivedAt)
       \/ Discard(s)
  \/ \E now \in Instants : Expire(now)

InboxSpec == InboxInit /\ [][InboxNext]_inbox
-----------------------------------------------------------------------------
(* The order of delivery decides nothing: as long as the callbacks of a    *)
(* subject do not contradict each other, its status is what they say in    *)
(* sequence from the first one on, up to a gap or a step that is not       *)
(* allowed; nothing applicable stays parked and no event id outlives its   *)
(* subject.                                                                *)
Claimed(subject, n) == {c[2] : c \in {x \in subject.claims : x[1] = n}}

InOrder(subject) ==
  LET fold[n \in Sequences \cup {0}] ==
        IF n = 0 THEN [sequence |-> 0, status |-> InitialStatus]
        ELSE IF /\ fold[n - 1].sequence = n - 1
                /\ Claimed(subject, n) \cap Transitions[fold[n - 1].status] # {}
             THEN [sequence |-> n, status |-> CHOOSE st \in Claimed(subject, n) : TRUE]
             ELSE fold[n - 1]
  IN  fold[Cardinality(Sequences)]

CallbacksFoldInOrder ==
  /\ \A s \in DOMAIN inbox.subjects :
       LET subject == inbox.subjects[s]
       IN  (\A n \in Sequences : Cardinality(Claimed(subject, n)) <= 1)
             => InOrder(subject) = [sequence |-> subject.sequence, status |-> subject.status]
  /\ DOMAIN inbox.events =
       UNION {inbox.subjects[s].eventIds : s \in DOMAIN inbox.subjects}
=============================================================================
