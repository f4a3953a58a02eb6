-------------------------- MODULE MCAttachedEngine --------------------------
(* Small instances, for TLC, of the engine with a store attached, and of   *)
(* the fold reading any stream: a behaviour is about one of the two.       *)
EXTENDS MCMatchingEngine, AttachedEngine

VARIABLES fold, emittable

Streams == INSTANCE StreamFold
  WITH Units <- {1, 2}, Times <- {0}, MaxSafe <- MaxSafe + 1

streamVars == <<fold, emittable>>
mcVars == <<avars, streamVars>>

(* Two offers that one order may sweep, up to the end of the sequence      *)
(* space.                                                                  *)
SweepSubmissions ==
  Valid({o1}, {"sell"}, {alice}, {1}, {1})
  \cup Valid({o2}, {"sell"}, {Null}, {1}, {1})
  \cup Valid({o3}, {"buy"}, {Null, alice}, {1}, {3})
  \cup Market({o3}, {"buy"}, {Null}, {3})

SweepCancellations == [order_id : {o1}, instrument : Instruments]

SweepAmendments ==
  [wellFormed : {TRUE}, order_id : {o3, o1}, price : {2, Null}, quantity : {3}]

(* Order ids are only compared for equality: a stream names them in order. *)
NamesIdsInOrder == DOMAIN fold'.orders \in {{}, {o1}, {o1, o2}, OrderIds}

(* "absent": there is no engine, only a stream.                            *)
MCInit == Init /\ Streams!Init /\ store \in {"ready", "absent"}

MCNext ==
  \/ store # "absent" /\ ServedNext /\ UNCHANGED streamVars
  \/ store = "absent" /\ Streams!Next /\ NamesIdsInOrder /\ UNCHANGED avars

(* The fairness of FairServedSpec.                                         *)
MCSpec ==
  /\ MCInit /\ [][MCNext]_mcVars
  /\ WF_mcVars(MatchTaker /\ UNCHANGED <<store, streamVars>>)
  /\ WF_mcVars(Finish /\ UNCHANGED streamVars)

MCAttachedSpec ==
  /\ Init /\ Streams!Init /\ store \in {"uninitialized", "ready"}
  /\ [][AttachedNext /\ UNCHANGED streamVars]_mcVars

FoldedStreamsHydrate == Streams!FoldedStreamsHydrate
=============================================================================
