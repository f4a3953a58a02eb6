-------------------------- MODULE MCMatchingEngine --------------------------
(* Small instances of the matching engine for TLC. *)
EXTENDS EngineProperties, TLC

Valid(ids, sides, owners, limits, units) ==
  [wellFormed : {TRUE}, order_id : ids, instrument : Instruments,
   side : sides, owner : owners, type : {"limit"}, price : limits,
   quantity : units]

Market(ids, sides, owners, units) ==
  [wellFormed : {TRUE}, order_id : ids, instrument : Instruments,
   side : sides, owner : owners, type : {"market"}, price : {Null},
   quantity : units]

MCPrices == {1, 2}
MCTimes == {0}

(* Three orders with a part each, on either side: o1 and o3 share an owner *)
(* and meet as self-trades, o2 and o3 trade several units, o3 may sweep    *)
(* both others and may be a market order.  o1 is the one cancelled and o2  *)
(* the one amended, up, down and to the other price.                       *)
CONSTANTS o1, o2, o3, alice

MCSubmissions ==
  Valid({o1}, Sides, {alice}, Prices, {1})
  \cup Valid({o2}, Sides, {Null}, Prices, {2})
  \cup Valid({o3}, Sides, {Null, alice}, Prices, {3})
  \cup Market({o3}, Sides, {alice}, {3})

MCCancellations == [order_id : {o1}, instrument : Instruments]

MCAmendments ==
  [wellFormed : {TRUE}, order_id : {o2}, price : {Null}, quantity : {1, 3}]
  \cup [wellFormed : {TRUE}, order_id : {o2}, price : {2}, quantity : {Null}]

(* No call is refused by validation: a refusal changes nothing but the     *)
(* journal, and every refusal is a different history.                      *)
NoRefusals ==
  \A k \in DOMAIN journal :
    journal[k].body.type = "rejected" => journal[k].body.quantity # Null

-----------------------------------------------------------------------------
(* Refused calls: every way a call fails its checks, around two orders of  *)
(* two instruments that rest, trade and are cancelled under the wrong one, *)
(* on a clock that may stand still.                                        *)
CONSTANTS XAU, XAG

TwoTimes == {0, 1}

Buy  == CHOOSE o \in Valid({o1}, {"buy"}, {Null}, {2}, {2}) : o.instrument = XAU
Sell == CHOOSE o \in Valid({o2}, {"sell"}, {alice}, {1}, {1}) : o.instrument = XAU

RefusalSubmissions ==
  {Buy, Sell, [Buy EXCEPT !.instrument = XAG]}
  \cup {[Buy EXCEPT !.wellFormed = FALSE], [Buy EXCEPT !.owner = Malformed],
        [Buy EXCEPT !.type = Malformed], [Buy EXCEPT !.type = "market"],
        [Buy EXCEPT !.price = Null], [Sell EXCEPT !.price = Malformed],
        [Sell EXCEPT !.price = 0], [Sell EXCEPT !.quantity = Malformed],
        [Sell EXCEPT !.quantity = 0], [Buy EXCEPT !.order_id = Null],
        [Buy EXCEPT !.order_id = Malformed], [Sell EXCEPT !.instrument = Null],
        [Buy EXCEPT !.instrument = Malformed], [Sell EXCEPT !.side = Null],
        [Buy EXCEPT !.side = Malformed]}

RefusalCancellations ==
  [order_id : {o1, Malformed}, instrument : {XAU, XAG, Malformed}]
  \cup [order_id : {Null, o2}, instrument : {XAU, Null}]

RefusalAmendments ==
  [wellFormed : {TRUE}, order_id : {o1}, price : {Null, 0, 2, Malformed},
   quantity : {Null, 0, 1, 2, Malformed}]
  \cup [wellFormed : {TRUE}, order_id : {Null, o2, Malformed}, price : {1},
        quantity : {Null}]
  \cup [wellFormed : {FALSE}, order_id : {o1}, price : {1}, quantity : {1}]

(* One refusal, wherever it falls, is followed by every continuation; a    *)
(* second one is checked and not continued.                                *)
OneRefusal ==
  Cardinality({k \in DOMAIN Emitted :
                 /\ Emitted[k].body.type = "rejected"
                 /\ Emitted[k].body.quantity = Null}) <= 1
-----------------------------------------------------------------------------
(* replayMatchingJournalStore: the engine rebuilt from what a journal store *)
(* loads.  Its `instruments` option is checked to be an array and then not *)
(* handed on, so the fold runs against the registry the package ships.     *)
Over(instruments) == INSTANCE MatchingReplay WITH Instruments <- instruments

ReplayMatchingJournalStore(shipped, events) == Over(shipped)!ReplayMatchingEngine(events)

(* INSTRUMENTS of src/instruments.mjs, where the engine was created with a *)
(* registry of its own.                                                    *)
ShippedInstruments == {XAG}

(* "replayMatchingJournalStore(store, { instruments?, clock?, base? }) is  *)
(* the only engine-facing restore path" (README.md of the package, line    *)
(* 229): restored through it, the recorded journal gives the orders of the *)
(* engine back, one created with a registry of its own included.           *)
StoreRestoresEngine ==
  op.phase = "idle" =>
    LET restored == ReplayMatchingJournalStore(ShippedInstruments, journal)
    IN  restored # Refused /\ restored.orders = orders
=============================================================================
