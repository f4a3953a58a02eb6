----------------------------- MODULE KycOnboarding -----------------------------
(***************************************************************************)
(* KYC onboarding of the Mini App's BFF (miniapp/src/server/kyc.ts) over   *)
(* the KYC simulator (provider-simulators/src/kyc.mjs), and the session    *)
(* gate that reads it (currentSession in server.ts).                       *)
(*                                                                         *)
(* submit yields once, between the provider's answer and what it does      *)
(* with it; everything else runs to its end.  Every read first drains the  *)
(* simulator and judges what came at the time of the read.  The            *)
(* simulator's references are random: here the subject and its attempt,    *)
(* the idempotency key they are made under.                                *)
(***************************************************************************)
EXTENDS SignedCallbacks

CONSTANTS
  Applicants, SessionIds, Submits, Scenarios, Absent,
  ReviewTimeout, ReviewDelay, DecisionDelays, LateDelay, ReorderDelay,
  MaxApplications,            \* applications the simulator keeps
  MaxAttempts, LastSubmission, Horizon   \* bounds of the model

(* Delays are times, and Absent is no reference.                           *)
OnboardingConstants ==
  /\ DecisionDelays \subseteq Nat
  /\ {ReviewTimeout, ReviewDelay, LateDelay, ReorderDelay, MaxAttempts} \subseteq Nat
  /\ Absent \notin Applicants \X Nat

VARIABLES
  now, scenario,
  kyc,       \* the service with its simulator
  calls,     \* submits that wait for the provider's answer
  sessions,  \* by id: the subject and its coarse KYC view, or Absent
  promoting  \* sessions whose gate was passed, verifyKyc still to run

onboardingVars == <<now, scenario, kyc, calls, sessions, promoting>>

KycScenarios ==
  LET plan(outcome, delivery) == [outcome |-> outcome, delivery |-> delivery]
  IN  [approve               |-> plan("approved", "normal"),
       reject                |-> plan("rejected", "normal"),
       needs_more_data       |-> plan("needs_more_data", "normal"),
       pending_timeout       |-> plan(Absent, "normal"),
       provider_outage       |-> plan(Absent, "none"),
       duplicate_callback    |-> plan("approved", "duplicate"),
       out_of_order_callback |-> plan("approved", "out_of_order"),
       late_callback         |-> plan("approved", "late")]

KycTransitions ==
  [submitted |-> {"in_review"}, in_review |-> {"approved", "rejected", "needs_more_data"},
   needs_more_data |-> {}, approved |-> {}, rejected |-> {}]

Inbox ==
  INSTANCE CallbackInbox WITH
    inbox <- kyc.inbox, InitialStatus <- "submitted", Transitions <- KycTransitions,
    Sequences <- {1, 2}, MaxEventIds <- 2, MaxSubjects <- MaxApplications,
    Subjects <- {}, EventIds <- {}, Instants <- {}, Statuses <- {}

NoRecord == [attempt |-> 0, unavailable |-> FALSE, application |-> Absent, lastState |-> Absent]

OnboardingInit ==
  /\ now = 0 /\ scenario \in Scenarios
  /\ kyc = [queue |-> NothingQueued, timelines |-> << >>, nonces |-> {},
            inbox |-> [subjects |-> << >>, events |-> << >>],
            index |-> {},          \* the references callbacks may name
            records |-> [s \in Applicants |-> NoRecord]]
  /\ calls = [c \in Submits |-> Absent]
  /\ sessions = [i \in SessionIds |-> Absent] /\ promoting = {}

Application(k, s) == k.records[s].application
-----------------------------------------------------------------------------
(* The simulator.                                                          *)
Events(ref, decisionDelay) ==
  LET outcome  == KycScenarios[scenario].outcome
      reviewAt == now + ReviewDelay
      event(n, status, at) ==
        [at |-> at, payload |-> [ref |-> ref, event |-> <<ref, n>>, sequence |-> n, status |-> status]]
  IN  <<event(1, "in_review", reviewAt)>> \o
        IF outcome = Absent THEN << >>
        ELSE <<event(2, outcome,
                 IF scenario = "late_callback" THEN now + ReviewTimeout + LateDelay
                 ELSE reviewAt + decisionDelay)>>

DeliveryMode ==
  LET mode == KycScenarios[scenario].delivery IN IF mode = "late" THEN "normal" ELSE mode

SubmitApplicant(k, ref, decisionDelay) ==
  IF ref \in DOMAIN k.timelines THEN k
  ELSE LET events == Events(ref, decisionDelay)
       IN  [k EXCEPT
              !.timelines = [r \in DOMAIN @ \cup {ref} |->
                 IF r = ref THEN [events |-> events, deadline |-> now + ReviewTimeout] ELSE @[r]],
              !.queue = ScheduleTimeline(@, events, DeliveryMode, ReorderDelay)]
-----------------------------------------------------------------------------
(* What listeners are told of, for the application a subject has now.      *)
TransitionFor(k, ref, state) ==
  [k EXCEPT !.records =
     [s \in Applicants |-> IF @[s].application = ref THEN [@[s] EXCEPT !.lastState = state] ELSE @[s]]]

ReceiveCallback(k, delivery) ==
  LET ref   == delivery.payload.ref
      noted == [k EXCEPT !.nonces = Recorded(@, delivery, now)]
      box   == Inbox!Accepted(k.inbox, ref, delivery.payload.event,
                 delivery.payload.sequence, delivery.payload.status, now)
  IN  IF ~Fresh(k.nonces, delivery, now) \/ ref \notin k.index THEN noted
      ELSE IF box.subjects[ref].sequence = k.inbox.subjects[ref].sequence
           THEN [noted EXCEPT !.inbox = box]
           ELSE TransitionFor([noted EXCEPT !.inbox = box], ref, box.subjects[ref].status)

TimeOut(k, box) ==
  LET newly == {r \in DOMAIN box.subjects :
                  box.subjects[r].timedOut /\ ~k.inbox.subjects[r].timedOut}
  IN  [k EXCEPT !.inbox = box,
         !.records = [s \in Applicants |->
            IF @[s].application \in newly THEN [@[s] EXCEPT !.lastState = "timed_out"] ELSE @[s]]]

Sync(k) ==
  LET received == ReceiveDue(ReceiveCallback, [k EXCEPT !.queue = Drained(@, now)], k.queue, now)
  IN  CHOOSE left \in {TimeOut(r, Inbox!Expired(r.inbox, now)) : r \in {received}} : TRUE

StateOfUntimed(k, ref) ==
  IF ref \notin DOMAIN k.inbox.subjects THEN "unavailable" ELSE k.inbox.subjects[ref].status
StateOf(k, ref) ==
  IF ref \notin DOMAIN k.inbox.subjects THEN "unavailable"
  ELSE IF k.inbox.subjects[ref].timedOut THEN "timed_out"
  ELSE k.inbox.subjects[ref].status

IsVerified(k, s) == Application(k, s) # Absent /\ StateOf(k, Application(k, s)) = "approved"
-----------------------------------------------------------------------------
(* submit, up to the provider's answer.                                    *)
Submit(c, s, decisionDelay) ==
  LET waits(ref) == calls' = [calls EXCEPT ![c] = [subject |-> s, ref |-> ref]]
  IN  /\ calls[c] = Absent /\ now <= LastSubmission
      /\ \E synced \in {Sync(kyc)} :
           \/ Application(synced, s) # Absent /\ kyc' = synced /\ UNCHANGED calls
           \/ /\ Application(synced, s) = Absent /\ scenario = "provider_outage"
              /\ kyc' = synced /\ waits(Absent)
           \/ /\ Application(synced, s) = Absent /\ scenario # "provider_outage"
              /\ \E ref \in {<<s, synced.records[s].attempt>>} :
                   /\ \/ ref \in DOMAIN synced.timelines
                      \/ Cardinality(DOMAIN synced.timelines) < MaxApplications
                   /\ kyc' = SubmitApplicant(synced, ref, decisionDelay)
                   /\ waits(ref)
      /\ UNCHANGED <<now, scenario, sessions, promoting>>

(* submit, from the answer on: the outage; an application another call     *)
(* has opened by now; a reference that is open already throws.             *)
OpenedFor(k, s, ref) ==
  [k EXCEPT
     !.inbox = Inbox!Opened(@, ref, k.timelines[ref].deadline),
     !.index = @ \cup {ref},
     !.records[s] = [@ EXCEPT !.application = ref, !.unavailable = FALSE, !.lastState = "submitted"]]

Answered(c) ==
  LET s == calls[c].subject
      ref == calls[c].ref
  IN  /\ calls[c] # Absent
      /\ calls' = [calls EXCEPT ![c] = Absent]
      /\ \/ /\ ref = Absent
            /\ kyc' = [kyc EXCEPT !.records[s].unavailable = TRUE,
                                  !.records[s].lastState = "unavailable"]
         \/ ref # Absent /\ ref \in DOMAIN kyc.inbox.subjects /\ UNCHANGED kyc
         \/ ref # Absent /\ ref \notin DOMAIN kyc.inbox.subjects /\ kyc' = OpenedFor(kyc, s, ref)
      /\ UNCHANGED <<now, scenario, sessions, promoting>>

(* view, when there is anything for it to take in.                         *)
Behind(k) ==
  \/ Due(k.queue, now) # {}
  \/ \E ref \in DOMAIN k.inbox.subjects :
       now > k.inbox.subjects[ref].deadline /\ ~k.inbox.subjects[ref].timedOut

View == Behind(kyc) /\ kyc' = Sync(kyc) /\ UNCHANGED <<now, scenario, calls, sessions, promoting>>

(* A development or OIDC login resets the subject's onboarding before it   *)
(* issues a session; a login through Telegram does not.                    *)
Reset(k, s) ==
  LET ref == Application(k, s)
  IN  [k EXCEPT !.index = @ \ {ref}, !.inbox = Inbox!Discarded(@, ref),
                !.records[s] = [NoRecord EXCEPT !.attempt = k.records[s].attempt + 1]]

Login(i, s, resets, view) ==
  /\ sessions[i] = Absent
  /\ \/ /\ resets /\ kyc.records[s].attempt < MaxAttempts
        /\ kyc' = Reset(kyc, s)
     \/ ~resets /\ view = "kyc-gated" /\ UNCHANGED kyc
  /\ sessions' = [sessions EXCEPT ![i] = [subject |-> s, kyc |-> view]]
  /\ UNCHANGED <<now, scenario, calls, promoting>>

Logout(i) ==
  /\ sessions[i] # Absent
  /\ sessions' = [sessions EXCEPT ![i] = Absent] /\ promoting' = promoting \ {i}
  /\ UNCHANGED <<now, scenario, kyc, calls>>

(* currentSession: the gate is judged, then the stored session promoted.   *)
PassGate(i) ==
  /\ sessions[i] # Absent /\ sessions[i].kyc = "kyc-gated"
  /\ \E synced \in {Sync(kyc)} :
       /\ kyc' = synced
       /\ promoting' = promoting \cup {x \in {i} : IsVerified(synced, sessions[x].subject)}
  /\ UNCHANGED <<now, scenario, calls, sessions>>

VerifyKyc(i) ==
  /\ i \in promoting
  /\ sessions' = [sessions EXCEPT ![i].kyc = "promoted"] /\ promoting' = promoting \ {i}
  /\ UNCHANGED <<now, scenario, kyc, calls>>

(* The clock does not advance while a submit waits for its answer: that    *)
(* wait ends before any other event is served.                             *)
Tick ==
  /\ now < Horizon /\ \A c \in Submits : calls[c] = Absent
  /\ now' = now + 1
  /\ UNCHANGED <<scenario, kyc, calls, sessions, promoting>>

OnboardingNext ==
  \/ Tick \/ View
  \/ \E c \in Submits :
       Answered(c) \/ \E s \in Applicants, delay \in DecisionDelays : Submit(c, s, delay)
  \/ \E i \in SessionIds :
       \/ Logout(i) \/ PassGate(i) \/ VerifyKyc(i)
       \/ \E s \in Applicants, resets \in BOOLEAN, view \in {"verified", "kyc-gated"} :
            Login(i, s, resets, view)

(* Time passes, waits end, and the onboarding sheet polls the status.      *)
OnboardingFairness == WF_onboardingVars(Tick) /\ WF_onboardingVars(View) /\ \A c \in Submits : WF_onboardingVars(Answered(c))

OnboardingSpec == OnboardingInit /\ [][OnboardingNext]_onboardingVars /\ OnboardingFairness
-----------------------------------------------------------------------------
(* What the provider had decided by now of one of the subject's attempts,  *)
(* within its deadline.                                                    *)
Decided(ref, status) ==
  /\ ref \in DOMAIN kyc.timelines
  /\ \E n \in DOMAIN kyc.timelines[ref].events :
       LET event == kyc.timelines[ref].events[n]
       IN  /\ event.payload.status = status
           /\ event.at <= now /\ event.at <= kyc.timelines[ref].deadline

(* The state a subject is shown and the state its listeners heard last are *)
(* the same, a decision is shown only if the provider made it in time, and *)
(* a gated session is promoted only for a subject the provider approved in *)
(* time, whatever logins, overlapping submits and late reads do; only live *)
(* references reach the inbox.                                             *)
KycFollowsProvider ==
  /\ \A s \in Applicants :
       LET ref == Application(kyc, s)
       IN  ref # Absent =>
             /\ ref \in kyc.index
             /\ kyc.records[s].lastState = StateOf(kyc, ref)
             /\ StateOf(kyc, ref) \in {"in_review", "approved", "rejected", "needs_more_data"}
                  => Decided(ref, StateOf(kyc, ref))
  /\ \A i \in SessionIds :
       sessions[i] # Absent /\ (sessions[i].kyc = "promoted" \/ i \in promoting)
         => \E attempt \in 0 .. MaxAttempts : Decided(<<sessions[i].subject, attempt>>, "approved")
  /\ kyc.index = DOMAIN kyc.inbox.subjects

(* No application stays undecided: a callback that was lost, stale when it *)
(* was drained or parked behind a lost one ends in a timeout.              *)
ApplicationsEnd ==
  \A s \in Applicants :
    (Application(kyc, s) # Absent /\ kyc.records[s].lastState \in {"submitted", "in_review"})
      ~> (Application(kyc, s) = Absent
            \/ kyc.records[s].lastState \notin {"submitted", "in_review"})
=============================================================================
