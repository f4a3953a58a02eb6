----------------------------- MODULE StreamFold -----------------------------
(***************************************************************************)
(* replayMatchingEngine fed with any stream at all, not only with what an  *)
(* engine emitted: every step offers the fold one more event, and the ones *)
(* it refuses end the stream (there is no engine, so no step).  The fields *)
(* an event must copy from the state (the instrument and side of its       *)
(* order) are offered right; everything a check decides about is free.     *)
(***************************************************************************)
EXTENDS MatchingReplay

CONSTANTS
  Units,  \* quantities an event can carry
  Times   \* timestamps an event can carry

VARIABLES
  fold,      \* the state of the fold
  emittable  \* has the stream held only executions a sweep would make?

vars == <<fold, emittable>>

Init == fold = FoldStart /\ emittable = TRUE

(* matchTaker trades all it can with the head it faces, and rejects a      *)
(* taker that faces its own owner.                                         *)
SweepWouldMake(b) ==
  LET maker == fold.orders[b.maker_order_id]
      taker == fold.orders[b.taker_order_id]
  IN  /\ b.quantity = IF taker.remaining < maker.remaining
                      THEN taker.remaining ELSE maker.remaining
      /\ taker.owner = Null \/ taker.owner # maker.owner

Offer(body) ==
  \E at \in Times :
    LET e == [seq |-> fold.expectedSeq, at |-> at, body |-> body]
    IN  /\ e.seq < MaxSafe
        /\ Admits(fold, e)
        /\ fold' = FoldEvent(fold, e)

OfferAccepted ==
  \E id \in OrderIds, i \in Instruments, side \in Sides,
     order_type \in {"limit", "market"}, owner \in Owners \cup {Null},
     price \in Prices \cup {Null}, quantity \in Units :
    /\ fold.inFlight = Null
    /\ Offer([type |-> "accepted", order_id |-> id, instrument |-> i,
              side |-> side, order_type |-> order_type, owner |-> owner,
              price |-> price, quantity |-> quantity])
    /\ UNCHANGED emittable

Body(id, type, price, quantity) ==
  [type |-> type, order_id |-> id, instrument |-> fold.orders[id].instrument,
   side |-> fold.orders[id].side, price |-> price, quantity |-> quantity]

OfferResting ==
  \E id \in DOMAIN fold.orders, price \in Prices, quantity \in Units :
    /\ Offer(Body(id, "resting", price, quantity))
    /\ UNCHANGED emittable

OfferCancelled ==
  \E id \in DOMAIN fold.orders, price \in Prices, quantity \in Units :
    /\ Offer(Body(id, "cancelled", price, quantity))
    /\ UNCHANGED emittable

OfferAmended ==
  \E id \in DOMAIN fold.orders, price \in Prices, quantity \in Units :
    /\ Offer(Body(id, "amended", price, quantity) @@
             [previous_price    |-> fold.orders[id].price,
              previous_quantity |-> fold.orders[id].quantity])
    /\ UNCHANGED emittable

OfferRejected ==
  \E id \in DOMAIN fold.orders, quantity \in Units \cup {Null},
     reason \in TerminalReasons \cup {"duplicate_order_id", "order_not_resting"} :
    /\ Offer(Body(id, "rejected", Null, quantity) @@ [reason |-> reason])
    /\ UNCHANGED emittable

(* Only the order in flight can take, so no other taker is offered.        *)
OfferFill ==
  \E maker \in DOMAIN fold.orders, fill \in 1 .. fold.lastFill + 1,
     price \in Prices, quantity \in Units, remaining \in Units \cup {0} :
    \E id \in {maker, fold.inFlight} \ {Null} :
      LET b == Body(id, IF remaining = 0 THEN "filled" ELSE "partially_filled",
                    price, quantity) @@
               [maker_order_id |-> maker, taker_order_id |-> fold.inFlight,
                fill_id |-> fill, remaining |-> remaining]
      IN  /\ fold.inFlight # Null
          /\ Offer(b)
          /\ emittable' =
               (emittable /\ (fold.pendingMaker = {} => SweepWouldMake(b)))

Next ==
  \/ OfferAccepted \/ OfferResting \/ OfferFill
  \/ OfferCancelled \/ OfferAmended \/ OfferRejected

Spec == Init /\ [][Next]_vars

-----------------------------------------------------------------------------
(* Whatever stream the fold accepted, the canonical snapshot it ends in    *)
(* parses and hydrates to the very books it folded, queue by queue         *)
(* (replay.mjs: "so replay and restore cannot disagree"): a stream cannot  *)
(* fold into a crossed book, a resting order without remainder, or         *)
(* counters its orders could not have consumed.  In the middle of an       *)
(* execution too, the order in flight is the one order outside every queue *)
(* that still counts as resting.                                           *)
OneOrderInFlight ==
  \A id \in DOMAIN fold.orders : InFlight(fold, id) <=> id = fold.inFlight

FoldedStreamsHydrate ==
  /\ OneOrderInFlight
  /\ OnBoundary(fold) =>
       Rebuilt(fold) =
         [orders |-> fold.orders, tracked |-> fold.tracked, books |-> fold.books,
          nextSeq |-> fold.expectedSeq, nextFill |-> fold.lastFill + 1,
          lastAt |-> fold.lastAt]

(* "A stream is accepted only if it is a prefix the real engine could have *)
(* emitted" (replay.mjs:31): on an operation boundary every execution of   *)
(* the stream is one a sweep would have made.                              *)
AcceptsOnlyEngineStreams == OnBoundary(fold) => emittable
=============================================================================
