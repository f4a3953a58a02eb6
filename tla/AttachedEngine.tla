--------------------------- MODULE AttachedEngine ---------------------------
(***************************************************************************)
(* The matching engine with a journal store attached (packages/            *)
(* matching-core, finish of src/engine.mjs over the append of              *)
(* src/postgres-journal-store.mjs).  Of the store only what append lets    *)
(* the engine notice is kept: it throws synchronously before initialize()  *)
(* is through and once a write failure has latched, and takes the batch    *)
(* otherwise.  A rejection that settles later is swallowed.  What happens  *)
(* to a batch it took is the subject of JournalStore.                      *)
(***************************************************************************)
EXTENDS EngineProperties

VARIABLE store  \* "uninitialized", "ready" or "latched"

avars == <<vars, store>>

StoreInitializes ==
  /\ store = "uninitialized"
  /\ store' = "ready"
  /\ UNCHANGED vars

(* A queued write settled with a rejection; the engine does not hear it.   *)
WriteRejected ==
  /\ store = "ready"
  /\ store' = "latched"
  /\ UNCHANGED vars

(* Mutant of Finish: an append that throws leaves the operation open.      *)
FinishOnSuccess ==
  store = "ready" /\ Commit /\ UNCHANGED store

(* finish: the store sees the batch before the journal does.               *)
Finish ==
  /\ IF store = "ready" THEN Commit ELSE AppendThrows
  /\ UNCHANGED store

AttachedNext ==
  \/ (Call \/ MatchTaker) /\ UNCHANGED store
  \/ Finish
  \/ StoreInitializes
  \/ WriteRejected

(* The engine starts serving before its store is initialized, or after.    *)
AttachedSpec ==
  Init /\ store \in {"uninitialized", "ready"} /\ [][AttachedNext]_avars

ServedNext ==
  \/ (Call \/ MatchTaker) /\ UNCHANGED store
  \/ Finish
  \/ WriteRejected

ServedSpec == Init /\ store = "ready" /\ [][ServedNext]_avars

(* A call runs to its end on the one JavaScript thread, so its remaining   *)
(* steps are fair; nobody has to call and nothing has to fail.             *)
FairServedSpec ==
  ServedSpec /\ WF_avars(MatchTaker /\ UNCHANGED store) /\ WF_avars(Finish)

-----------------------------------------------------------------------------
(* An append that throws leaves books and orders ahead of the journal, but *)
(* never the journal ahead of the store: with a store initialized before   *)
(* the engine serves, the journal always replays, and as long as no write  *)
(* failed it replays to the live engine.                                   *)
ThrowsKeepJournalReplayable ==
  op.phase = "idle" =>
    /\ ReplayMatchingEngine(journal) # Refused
    /\ store = "ready" => ReplayMatchingEngine(journal) = EngineState

(* "The journal itself can never contain a half-recorded operation -       *)
(* replay is never poisoned" (matching-snapshot-audit-wave59.md:31), of an *)
(* engine whose append threw too.                                          *)
ReplayIsNeverPoisoned ==
  op.phase = "idle" => ReplayMatchingEngine(journal) # Refused
=============================================================================
