---------------------------- MODULE AddressScreening ----------------------------
(***************************************************************************)
(* Address pre-screening of the Mini App's BFF                             *)
(* (miniapp/src/server/address-screening.ts) over the KYT simulator        *)
(* (provider-simulators/src/kyt.mjs): bounded maps of subjects, screenings *)
(* and tracked assessments, filled from signed callbacks.                  *)
(*                                                                         *)
(* submit yields once, between the provider's answer and what it does with *)
(* it; by then its subject's record may have been dropped.  A target       *)
(* stands for asset, network and address.  An assessment's random id is    *)
(* here the subject and target of the idempotency key that made it.        *)
(***************************************************************************)
EXTENDS SignedCallbacks

CONSTANTS
  Subjects, Targets, Calls, Scenarios, None,
  ScreeningTimeout, AckDelay, CompleteDelay, LateDelay, ReorderDelay,
  MaxScreeningsPerSubject, MaxScreeningSubjects,
  MaxNewScreeningsPerWindow, ScreeningWindow,
  MaxResources,               \* assessments the simulator keeps
  LastSubmission, Horizon     \* bounds of the model

MaxTrackedAssessments == MaxScreeningSubjects * MaxScreeningsPerSubject

VARIABLES
  now, scenario,
  kyt,      \* the service with its simulator
  calls     \* submits that wait for the provider's answer

vars == <<now, scenario, kyt, calls>>

KytScenarios ==
  LET plan(risk, delivery) == [risk |-> risk, delivery |-> delivery]
  IN  [low                   |-> plan("low", "normal"),
       medium                |-> plan("medium", "normal"),
       high                  |-> plan("high", "normal"),
       severe                |-> plan("severe", "normal"),
       sanctions_hit         |-> plan("severe", "normal"),
       pending_timeout       |-> plan(None, "normal"),
       provider_outage       |-> plan(None, "none"),
       duplicate_callback    |-> plan("medium", "duplicate"),
       out_of_order_callback |-> plan("medium", "out_of_order"),
       late_callback         |-> plan("medium", "late")]

KytTransitions == [requested |-> {"pending"}, pending |-> {"completed"}, completed |-> {}]

Inbox ==
  INSTANCE CallbackInbox WITH
    inbox <- kyt.inbox, InitialStatus <- "requested", Transitions <- KytTransitions,
    Sequences <- {1, 2}, MaxEventIds <- 2, MaxSubjects <- MaxTrackedAssessments,
    Subjects <- {}, EventIds <- {}, Instants <- {}, Statuses <- {}

Init ==
  /\ now = 0 /\ scenario \in Scenarios
  /\ kyt = [queue |-> NothingQueued, assessments |-> << >>, nonces |-> {},
            inbox |-> [subjects |-> << >>, events |-> << >>],
            tracked  |-> << >>,   \* assessment ids, oldest first
            results  |-> << >>,   \* by assessment: candidates and risk
            records  |-> << >>,   \* by the identity of the object
            order    |-> << >>]   \* of records, least recently used first
  /\ calls = [c \in Calls |-> None]
-----------------------------------------------------------------------------
(* The simulator: what it will say of a new assessment.                    *)
Events(id) ==
  LET risk == KytScenarios[scenario].risk
      event(n, status, level, at) ==
        [at |-> at, payload |-> [id |-> id, event |-> <<id, n>>, sequence |-> n,
                                 status |-> status, risk |-> level]]
  IN  <<event(1, "pending", None, now + AckDelay)>> \o
        IF risk = None THEN << >>
        ELSE <<event(2, "completed", risk,
                 now + IF scenario = "late_callback" THEN ScreeningTimeout + LateDelay
                       ELSE CompleteDelay)>>

DeliveryMode ==
  LET mode == KytScenarios[scenario].delivery IN IF mode = "late" THEN "normal" ELSE mode

ScreenTransfer(k, id) ==
  IF id \in DOMAIN k.assessments THEN k
  ELSE [k EXCEPT
          !.assessments = [a \in DOMAIN @ \cup {id} |->
             IF a = id THEN [events |-> Events(id), deadline |-> now + ScreeningTimeout] ELSE @[a]],
          !.queue = ScheduleTimeline(@, Events(id), DeliveryMode, ReorderDelay)]
-----------------------------------------------------------------------------
Released(k, id) ==
  [k EXCEPT !.results = Inbox!Except(@, {id}), !.inbox = Inbox!Discarded(@, id),
            !.tracked = SelectSeq(@, LAMBDA a : a # id)]

(* A new assessment is tracked; past the bound the oldest makes room.      *)
Tracked(k, id) ==
  LET left == [k EXCEPT
                 !.results = [a \in DOMAIN @ \cup {id} |->
                    IF a = id THEN [candidates |-> {}, risk |-> None] ELSE @[a]],
                 !.tracked = Append(@, id)]
  IN  IF id \in DOMAIN k.results THEN k
      ELSE IF Len(left.tracked) > MaxTrackedAssessments
           THEN Released(left, Head(left.tracked))
      ELSE left

IsCandidate(payload, before, after) ==
  /\ payload.status = "completed"
  /\ \/ after.sequence > before.sequence
     \/ DOMAIN after.parked # DOMAIN before.parked

(* A risk is a candidate from when its callback is applied or parked, and  *)
(* the assessment's own once the inbox has reached that sequence.          *)
ReceiveCallback(k, delivery) ==
  LET payload == delivery.payload
      id      == payload.id
      noted   == [k EXCEPT !.nonces = Recorded(@, delivery, now)]
      box     == Inbox!Accepted(k.inbox, id, payload.event, payload.sequence, payload.status, now)
      before  == k.inbox.subjects[id]
      after   == box.subjects[id]
      candidates == k.results[id].candidates \cup
                      {c \in {<<payload.sequence, payload.risk>>} : IsCandidate(payload, before, after)}
      reached == {c[2] : c \in {x \in candidates : x[1] = after.sequence}}
  IN  IF ~Fresh(k.nonces, delivery, now) \/ id \notin DOMAIN k.results THEN noted
      ELSE [noted EXCEPT
              !.inbox = box,
              !.results[id] =
                 IF before.status = "completed" \/ after.status # "completed"
                 THEN [@ EXCEPT !.candidates = candidates]
                 ELSE [candidates |-> {},
                       risk |-> IF reached = {} THEN None ELSE CHOOSE risk \in reached : TRUE]]

Sync(k) ==
  LET received == ReceiveDue(ReceiveCallback, [k EXCEPT !.queue = Drained(@, now)], k.queue, now)
  IN  CHOOSE left \in {[r EXCEPT !.inbox = Inbox!Expired(@, now)] : r \in {received}} : TRUE

StatusOf(k, id) ==
  IF id = None \/ id \notin DOMAIN k.inbox.subjects THEN "unavailable"
  ELSE IF k.inbox.subjects[id].timedOut THEN "timed_out"
  ELSE IF k.inbox.subjects[id].status # "completed" THEN "pending"
  ELSE IF k.results[id].risk = None THEN "unavailable"
  ELSE k.results[id].risk
-----------------------------------------------------------------------------
ReleasedAll(k, screenings) ==
  FoldLeft(LAMBDA left, x : Released(left, x.assessment), k, screenings)

(* A subject's record, made if there is none, becomes the last used; past  *)
(* the bound the least recently used subject goes with its assessments.    *)
Touched(k, s) ==
  LET mine   == {r \in ToSet(k.order) : k.records[r].subject = s}
      record == IF mine # {} THEN CHOOSE r \in mine : TRUE
                ELSE CHOOSE r \in 0 .. Cardinality(DOMAIN k.records) : r \notin DOMAIN k.records
      used   == [k EXCEPT
                   !.order = Append(SelectSeq(@, LAMBDA r : r # record), record),
                   !.records = [r \in DOMAIN @ \cup {record} |->
                      IF r \in DOMAIN @ THEN @[r]
                      ELSE [subject |-> s, screenings |-> << >>, submissions |-> << >>]]]
  IN  IF Len(used.order) <= MaxScreeningSubjects THEN used
      ELSE [ReleasedAll(used, used.records[Head(used.order)].screenings)
              EXCEPT !.order = Tail(@)]

Stored(k, record, screening) ==
  LET kept == Append(SelectSeq(k.records[record].screenings, LAMBDA x : x.target # screening.target),
                     screening)
      over == IF Len(kept) > MaxScreeningsPerSubject THEN 1 ELSE 0
  IN  ReleasedAll([k EXCEPT !.records[record].screenings = SubSeq(kept, 1 + over, Len(kept))],
                  SubSeq(kept, 1, over))

(* A record nothing refers to any more is gone.                            *)
Collected(k, waiting) ==
  [k EXCEPT !.records =
     [r \in DOMAIN @ \cap (ToSet(k.order) \cup
                            {waiting[c].record : c \in {x \in Calls : waiting[x] # None}}) |-> @[r]]]
-----------------------------------------------------------------------------
(* submit, up to the provider's answer.                                    *)
Submit(c, s, t) ==
  /\ calls[c] = None /\ now <= LastSubmission
  /\ \E used \in {Touched(Sync(kyt), s)} :
       LET record == Last(used.order)
           known  == {x \in ToSet(used.records[record].screenings) :
                        x.target = t /\ x.assessment # None}
           recent == SelectSeq(used.records[record].submissions,
                               LAMBDA at : at > now - ScreeningWindow)
           within == [used EXCEPT !.records[record].submissions = recent]
           pushed == [used EXCEPT !.records[record].submissions = Append(recent, now)]
           refused == \/ scenario = "provider_outage"
                      \/ /\ <<s, t>> \notin DOMAIN used.assessments
                         /\ Cardinality(DOMAIN used.assessments) >= MaxResources
           waits(id) == calls' = [calls EXCEPT ![c] =
                          [record |-> record, target |-> t, assessment |-> id]]
       IN  \/ /\ known # {}
              /\ kyt' = Collected(used, calls) /\ UNCHANGED calls
           \/ /\ known = {} /\ Len(recent) >= MaxNewScreeningsPerWindow
              /\ kyt' = Collected(within, calls) /\ UNCHANGED calls
           \/ /\ known = {} /\ Len(recent) < MaxNewScreeningsPerWindow /\ refused
              /\ kyt' = Collected(pushed, calls) /\ waits(None)
           \/ /\ known = {} /\ Len(recent) < MaxNewScreeningsPerWindow /\ ~refused
              /\ kyt' = Collected(ScreenTransfer(pushed, <<s, t>>), calls) /\ waits(<<s, t>>)
  /\ UNCHANGED <<now, scenario>>

(* submit, from the answer on: an outage stores a screening without an     *)
(* assessment.                                                             *)
Opened(k, id) ==
  IF id \in DOMAIN k.inbox.subjects THEN k
  ELSE [k EXCEPT !.inbox = Inbox!Opened(@, id, k.assessments[id].deadline)]

Answered(c) ==
  LET id     == calls[c].assessment
      record == calls[c].record
      store(k) == Stored(k, record, [target |-> calls[c].target, assessment |-> id])
  IN  /\ calls[c] # None
      /\ calls' = [calls EXCEPT ![c] = None]
      /\ \E left \in {IF id = None THEN store(kyt) ELSE Sync(store(Opened(Tracked(kyt, id), id)))} :
           kyt' = Collected(left, [calls EXCEPT ![c] = None])
      /\ UNCHANGED <<now, scenario>>

(* view and list, when there is anything for them to take in.              *)
Behind(k) ==
  \/ Due(k.queue, now) # {}
  \/ \E id \in DOMAIN k.inbox.subjects :
       now > k.inbox.subjects[id].deadline /\ ~k.inbox.subjects[id].timedOut

View == Behind(kyt) /\ kyt' = Sync(kyt) /\ UNCHANGED <<now, scenario, calls>>

(* The clock does not advance while a submit waits for its answer.         *)
Tick ==
  /\ now < Horizon /\ \A c \in Calls : calls[c] = None
  /\ now' = now + 1
  /\ UNCHANGED <<scenario, kyt, calls>>

Next ==
  \/ Tick \/ View
  \/ \E c \in Calls : Answered(c) \/ \E s \in Subjects, t \in Targets : Submit(c, s, t)

Spec == Init /\ [][Next]_vars
-----------------------------------------------------------------------------
(* A risk level is shown only if the provider said it by now and within    *)
(* the deadline of the assessment, and an assessment the inbox has         *)
(* completed has one; whatever evictions, repeats and overlapping submits  *)
(* release and track again, the inbox, the results and the eviction order  *)
(* speak of the same assessments and stay within their bound.              *)
ScreeningsTell ==
  /\ \A id \in DOMAIN kyt.results :
       LET subject == kyt.inbox.subjects[id]
           said    == kyt.assessments[id].events
       IN  subject.status = "completed" =>
             /\ kyt.results[id].risk = said[2].payload.risk
             /\ said[2].at <= now
             /\ StatusOf(kyt, id) # "timed_out" => said[2].at <= kyt.assessments[id].deadline
  /\ DOMAIN kyt.results = DOMAIN kyt.inbox.subjects
  /\ DOMAIN kyt.results = ToSet(kyt.tracked)
  /\ Len(kyt.tracked) <= MaxTrackedAssessments
=============================================================================
