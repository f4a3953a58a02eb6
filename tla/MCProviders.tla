------------------------------ MODULE MCProviders ------------------------------
(***************************************************************************)
(* Small instances, for TLC, of the provider simulators and of what        *)
(* receives their callbacks: payments and personal checks over a lossy     *)
(* network, KYC onboarding and address screening in the Mini App's BFF,    *)
(* the quotes, and the inbox under callers of every kind.  A run is about  *)
(* one part, picked in the initial state; the clock is shared, the rest is *)
(* the parts' own.                                                         *)
(***************************************************************************)
EXTENDS QuoteSimulator, CallbackInbox, KycOnboarding

CONSTANTS Holders, Addresses

VARIABLES
  part,
  queue, wire, receiver,                         \* payments and checks
  intents, check, cleared,
  kytScenario, kyt, screenings                   \* address screening

Bank ==
  INSTANCE BankSimulator WITH
    MaxResources <- 2,
    Scenarios <- {"payment_found", "payment_not_found", "duplicate_callback",
                  "out_of_order_callback", "late_callback"},
    IntentTtl <- 3, Delays <- {1, 2}, LateDelays <- {1}, ReorderDelay <- 1,
    LastCreation <- 0, Horizon <- 6, Grace <- 1, MaxEventIds <- 3, MaxSubjects <- 2,
    MaxAgeSeconds <- 1, MaxFutureSeconds <- 1, MaxNonces <- 5

Checks ==
  INSTANCE ChecksSimulator WITH
    Deliveries <- {"normal", "late", "none"}, CheckTtl <- 2, LateDelay <- 1,
    DuplicateDelay <- 1, MaxFailedClaimAttempts <- 1, LastCreation <- 0, Horizon <- 4,
    Grace <- 1, MaxEventIds <- 4, MaxSubjects <- 1,
    MaxAgeSeconds <- 1, MaxFutureSeconds <- 1, MaxNonces <- 4

Screening ==
  INSTANCE AddressScreening WITH
    Subjects <- Holders, Targets <- Addresses, Calls <- Submits,
    scenario <- kytScenario, calls <- screenings,
    Scenarios <- {"low", "out_of_order_callback", "provider_outage", "late_callback"},
    ScreeningTimeout <- 3, AckDelay <- 1, CompleteDelay <- 2, LateDelay <- 1,
    ReorderDelay <- 1, MaxScreeningsPerSubject <- 1, MaxScreeningSubjects <- 1,
    MaxNewScreeningsPerWindow <- 1, ScreeningWindow <- 1, MaxResources <- 2,
    LastSubmission <- 1, Horizon <- 5,
    MaxAgeSeconds <- 2, MaxFutureSeconds <- 1, MaxNonces <- 9

(* The quotes: two units of the base asset to one of price.                *)
ASSUME QuotesWellFormed == QuoteConstants

ASSUME OnboardingWellFormed == OnboardingConstants

ASSUME ChecksWellFormed == Checks!ChecksConstants

(* The transitions of the inbox for payments, bank.mjs.                    *)
MCTransitions ==
  [awaiting_payment |-> {"payment_received", "partial_payment", "expired_no_payment"},
   payment_received |-> {"duplicate_payment", "payment_reversed"},
   partial_payment |-> {"payment_reversed"},
   duplicate_payment |-> {"payment_reversed"},
   payment_reversed |-> {}, expired_no_payment |-> {}]

quoteVars == vars
inboxVars == <<inbox>>
bankVars == <<intents>>
checksVars == <<check, cleared>>
channelVars == <<queue, wire, receiver>>
serviceVars == <<scenario, kyc, calls, sessions, promoting>>
screeningVars == <<kytScenario, kyt, screenings>>
allVars == <<part, now, bankVars, checksVars, channelVars, serviceVars, screeningVars, quoteVars, inboxVars>>

(* What a part does not read has one initial value.                        *)
MCInit ==
  /\ part \in {"bank", "checks", "onboarding", "screening", "quotes", "inbox"}
  /\ Bank!Init /\ Checks!Init /\ OnboardingInit /\ Screening!Init /\ Init /\ InboxInit
  /\ part # "checks" => ~cleared
  /\ part # "onboarding" => scenario = "approve"
  /\ part # "screening" => kytScenario = "low"
  /\ part # "quotes" => options = [spread |-> 0, fee |-> 0]

MCNext ==
  /\ UNCHANGED part
  /\ \/ /\ part = "bank" /\ Bank!Next
        /\ UNCHANGED <<checksVars, serviceVars, screeningVars, quoteVars, inboxVars>>
     \/ /\ part = "checks" /\ Checks!Next
        /\ UNCHANGED <<bankVars, serviceVars, screeningVars, quoteVars, inboxVars>>
     \/ /\ part = "onboarding" /\ OnboardingNext
        /\ UNCHANGED <<bankVars, checksVars, channelVars, screeningVars, quoteVars, inboxVars>>
     \/ /\ part = "screening" /\ Screening!Next
        /\ UNCHANGED <<bankVars, checksVars, channelVars, serviceVars, quoteVars, inboxVars>>
     \/ /\ part = "quotes" /\ Next
        /\ UNCHANGED <<now, bankVars, checksVars, channelVars, serviceVars, screeningVars, inboxVars>>
     \/ /\ part = "inbox" /\ InboxNext
        /\ UNCHANGED <<now, bankVars, checksVars, channelVars, serviceVars, screeningVars, quoteVars>>

MCSpec ==
  /\ MCInit /\ [][MCNext]_allVars
  /\ part = "onboarding" => OnboardingFairness

(* What a receiver holds of a payment, a check or an assessment is what    *)
(* its provider said.                                                      *)
CallbacksTellTheProvider ==
  /\ part = "bank" => Bank!InboxTellsTheBank
  /\ part = "checks" => Checks!InboxTellsTheChecks
  /\ part = "screening" => Screening!ScreeningsTell
=============================================================================
