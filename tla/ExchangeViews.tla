--------------------------- MODULE ExchangeViews ---------------------------
(***************************************************************************)
(* The exchange reads of packages/customer-api, src/exchange-orders.mjs:   *)
(* the orders, the detail of one, the trades, the markets and the depth    *)
(* that are projected from one replayed engine, and the checks each view   *)
(* must pass before it is served.                                          *)
(*                                                                         *)
(* Amounts are units; the pair's assets and scales, the key sets and the   *)
(* constant fields of a row are left out.  A trade id is the pair its      *)
(* digest is taken of.                                                     *)
(***************************************************************************)
EXTENDS ExchangeScenario, SequencesExt

CONSTANTS
  QuoteMultiplier, QuoteDivisor, \* quote units of a base unit at price 1
  MaxDepthLevels                 \* MAX_MARKET_DEPTH_LEVELS

(* No amount is dust: a unit of base is worth two units of quote at least. *)
ASSUME ViewConstants ==
  /\ QuoteMultiplier \in Nat /\ QuoteDivisor \in Nat \ {0}
  /\ \A p \in Prices : p * QuoteMultiplier >= 2 * QuoteDivisor
  /\ MaxDepthLevels \in Nat \ {0}

DivideRounded(n, d, mode) ==
  LET twice == 2 * (n % d)
      up    == \/ mode = "up" /\ twice > 0
               \/ /\ mode = "half_even"
                  /\ twice > d \/ (twice = d /\ (n \div d) % 2 = 1)
  IN  n \div d + (IF up THEN 1 ELSE 0)

ComputeAmounts(side, base, price, feeBps) ==
  LET quote == DivideRounded(base * price * QuoteMultiplier, QuoteDivisor,
                             IF side = "buy" THEN "up" ELSE "down")
      fee   == DivideRounded(quote * feeBps, 10000, "up")
  IN  [quoteUnits |-> quote, fee |-> fee,
       total |-> IF side = "buy" THEN quote + fee ELSE quote - fee]

-----------------------------------------------------------------------------
(* The projection of orders.                                               *)

LastAt(events) == IF events = << >> THEN Null ELSE Last(events).at

(* value ?? default                                                        *)
Or(value, default) == IF value = Null THEN default ELSE value

LiquidityOf(e) ==
  IF e.body.order_id = e.body.maker_order_id THEN "maker" ELSE "taker"

(* What the journal says of one order.  The last cancelled or rejected     *)
(* event stamps it, the last of them with a quantity names its remainder.  *)
OrderTrail(id) ==
  LET mine     == SelectSeq(journal, LAMBDA e : e.body.order_id = id)
      terminal == SelectSeq(mine, LAMBDA e : e.body.type \in {"cancelled", "rejected"})
      removed  == SelectSeq(terminal, LAMBDA e : e.body.quantity # Null)
  IN  [acceptedAt |-> LastAt(SelectSeq(mine, LAMBDA e : e.body.type = "accepted")),
       terminalAt |-> LastAt(terminal),
       terminalQuantity |-> IF removed = << >> THEN Null
                            ELSE Last(removed).body.quantity,
       fills |-> SelectSeq(mine, IsFill)]

UnitsOf(fills) == FoldLeft(LAMBDA sum, e : sum + e.body.quantity, 0, fills)

ValueOf(fills) ==
  FoldLeft(LAMBDA sum, e : sum + e.body.quantity * e.body.price, 0, fills)

Vwap(fills) == DivideRounded(ValueOf(fills), UnitsOf(fills), "half_even")

OrderStatus(id) == IF id \in DOMAIN orders THEN orders[id].state ELSE "untracked"

ObservedStatus(i) ==
  CASE OrderStatus(i.order_id) = "resting"   -> "open"
    [] OrderStatus(i.order_id) = "cancelled" -> IF i.expires THEN "expired" ELSE "cancelled"
    [] OrderStatus(i.order_id) = "filled"    -> "filled"
    [] OTHER                                 -> "rejected"

(* Mutant of BaseAmount: an open order shows what was placed.              *)
BaseAmountPlaced(i) ==
  LET id == i.order_id
  IN  CASE OrderStatus(id) \in {"untracked", "filled", "resting"} -> i.quantity
        [] OrderStatus(id) = "cancelled" ->
             Or(OrderTrail(id).terminalQuantity, orders[id].quantity)
        [] OrderStatus(id) = "rejected" ->
             Or(OrderTrail(id).terminalQuantity, orders[id].remaining)

BaseAmount(i) ==
  LET id == i.order_id
  IN  CASE OrderStatus(id) \in {"untracked", "filled"} -> i.quantity
        [] OrderStatus(id) = "resting" -> orders[id].remaining
        [] OrderStatus(id) = "cancelled" ->
             Or(OrderTrail(id).terminalQuantity, orders[id].quantity)
        [] OrderStatus(id) = "rejected" ->
             Or(OrderTrail(id).terminalQuantity, orders[id].remaining)

CreatedAt(i) == Or(OrderTrail(i.order_id).acceptedAt, OrderTrail(i.order_id).terminalAt)

(* Mutant of UpdatedAt: an open order shows when it last traded.           *)
UpdatedAtFill(i) ==
  LET trail == OrderTrail(i.order_id)
  IN  Or(LastAt(trail.fills), Or(trail.terminalAt, CreatedAt(i)))

UpdatedAt(i) ==
  LET trail == OrderTrail(i.order_id)
  IN  CASE OrderStatus(i.order_id) = "resting" -> CreatedAt(i)
        [] OrderStatus(i.order_id) = "filled"  ->
             Or(LastAt(trail.fills), Or(trail.terminalAt, CreatedAt(i)))
        [] OTHER -> Or(trail.terminalAt, CreatedAt(i))

DisplayedPrice(i) ==
  LET fills == OrderTrail(i.order_id).fills
  IN  IF i.order_type = "market" /\ fills # << >> THEN Vwap(fills) ELSE i.price

OrderRow(i) ==
  [order_id |-> i.order_id, pair |-> i.pair, side |-> i.side,
   order_type |-> i.order_type, fee_bps |-> i.fee_bps,
   base_amount |-> BaseAmount(i), price |-> DisplayedPrice(i),
   amounts |-> ComputeAmounts(i.side, BaseAmount(i), DisplayedPrice(i), i.fee_bps),
   status |-> ObservedStatus(i),
   created_at |-> CreatedAt(i), updated_at |-> UpdatedAt(i)]

(* An intent without a record in the journal is no order.                  *)
Recorded(i) == \E k \in DOMAIN journal : journal[k].body.order_id = i.order_id

ProjectExchangeOrders ==
  LET shown == SelectSeq(intents, LAMBDA i : Recorded(i) /\ ObservedStatus(i) # "filled")
  IN  [k \in DOMAIN shown |-> OrderRow(shown[k])]

FillLeg(id, e) ==
  [fill_id |-> <<id, e.body.fill_id>>, liquidity |-> LiquidityOf(e),
   price |-> e.body.price, quantity |-> e.body.quantity, executed_at |-> e.at]

ProjectExchangeOrderDetail(i) ==
  LET fills == OrderTrail(i.order_id).fills
  IN  [row   |-> OrderRow(i),
       fills |-> [k \in DOMAIN fills |-> FillLeg(i.order_id, fills[k])]]

IntentOf(id) == CHOOSE i \in ToSet(intents) : i.order_id = id

TradeRow(e) ==
  LET i == IntentOf(e.body.order_id)
  IN  [trade_id |-> <<i.order_id, e.body.fill_id>>, order_id |-> i.order_id,
       pair |-> i.pair, side |-> i.side, liquidity |-> LiquidityOf(e),
       price |-> e.body.price, quantity |-> e.body.quantity, fee_bps |-> i.fee_bps,
       amounts |-> ComputeAmounts(i.side, e.body.quantity, e.body.price, i.fee_bps),
       executed_at |-> e.at]

ProjectExchangeTrades ==
  LET minted == {i.order_id : i \in ToSet(intents)}
      legs   == SelectSeq(journal, LAMBDA e : IsFill(e) /\ e.body.order_id \in minted)
  IN  [k \in DOMAIN legs |-> TradeRow(legs[k])]

-----------------------------------------------------------------------------
(* The projection of markets.                                              *)

(* One side of bookSnapshot, best price first.                             *)
Ladder(pair, side) ==
  LET book   == books[pair]
      better(p, q) == p # q /\ AsGood(side, p, q)
      prices == SetToSortSeq(Live(book, side), better)
      queue(p) == book.levels[side][p]
  IN  [k \in DOMAIN prices |->
         [price |-> prices[k], order_count |-> Len(queue(prices[k])),
          quantity |-> FoldLeft(LAMBDA sum, id : sum + orders[id].remaining, 0,
                                queue(prices[k]))]]

LastTrade(pair) ==
  LET fills == SelectSeq(journal, LAMBDA e : IsFill(e) /\ e.body.instrument = pair)
  IN  IF fills = << >> THEN Null
      ELSE [price |-> Last(fills).body.price, quantity |-> Last(fills).body.quantity,
            executed_at |-> Last(fills).at]

Best(ladder) == IF ladder = << >> THEN Null ELSE Head(ladder)

SpreadBps(bid, ask) ==
  IF Null \in {bid, ask} THEN Null
  ELSE DivideRounded((ask.price - bid.price) * 20000, ask.price + bid.price, "half_even")

ProjectExchangeMarket(pair) ==
  LET bid == Best(Ladder(pair, "buy"))
      ask == Best(Ladder(pair, "sell"))
  IN  [instrument |-> pair, best_bid |-> bid, best_ask |-> ask,
       last_trade |-> LastTrade(pair), spread_bps |-> SpreadBps(bid, ask),
       as_of |-> clock]

Capped(ladder) == SubSeq(ladder, 1, Min({Len(ladder), MaxDepthLevels}))

ProjectExchangeMarketDepth(pair) ==
  [instrument |-> pair, bids |-> Capped(Ladder(pair, "buy")),
   asks |-> Capped(Ladder(pair, "sell")), last_trade |-> LastTrade(pair),
   depth_levels |-> Max({Len(Ladder(pair, "buy")), Len(Ladder(pair, "sell"))}),
   as_of |-> clock]

-----------------------------------------------------------------------------
(* The checks of the views.                                                *)

ValidAmounts(side, base, price, feeBps, amounts) ==
  /\ amounts = ComputeAmounts(side, base, price, feeBps)
  /\ amounts.quoteUnits > 0
  /\ amounts.total > 0

DistinctBy(rows, key(_)) ==
  \A j, k \in DOMAIN rows : key(rows[j]) = key(rows[k]) => j = k

ValidLifecycle(r, marketStatuses) ==
  /\ r.order_type = "market" => r.status \in marketStatuses
  /\ r.updated_at >= r.created_at
  /\ r.status = "open" => r.updated_at = r.created_at
  /\ ValidAmounts(r.side, r.base_amount, r.price, r.fee_bps, r.amounts)

ValidOrder(r) ==
  /\ r.status \in {"open", "cancelled", "expired", "rejected"}
  /\ ValidLifecycle(r, {"rejected"})

ValidExchangeOrdersView(rows) ==
  /\ \A k \in DOMAIN rows : ValidOrder(rows[k])
  /\ DistinctBy(rows, LAMBDA r : r.order_id)

ValidExchangeOrderDetailView(d) ==
  LET executed == FoldLeft(LAMBDA sum, leg : sum + leg.quantity, 0, d.fills)
      value    == FoldLeft(LAMBDA sum, leg : sum + leg.quantity * leg.price, 0, d.fills)
  IN  /\ ValidLifecycle(d.row, {"rejected", "filled"})
      /\ DistinctBy(d.fills, LAMBDA leg : leg.fill_id)
      /\ \A k \in DOMAIN d.fills :
           /\ d.fills[k].executed_at >= d.row.created_at
           /\ d.row.status # "open" => d.fills[k].executed_at <= d.row.updated_at
           /\ d.fills[k].price > 0 /\ d.fills[k].quantity > 0
      /\ d.row.status = "filled" => d.fills # << >> /\ executed = d.row.base_amount
      /\ d.row.order_type = "market" /\ d.fills # << >> =>
           d.row.price = DivideRounded(value, executed, "half_even")

ValidTradesView(rows) ==
  /\ \A k \in DOMAIN rows :
       LET t == rows[k]
       IN  ValidAmounts(t.side, t.quantity, t.price, t.fee_bps, t.amounts)
  /\ DistinctBy(rows, LAMBDA t : t.trade_id)

ValidMarketLevel(level) ==
  level # Null => level.price > 0 /\ level.quantity > 0 /\ level.order_count >= 1

ValidLastTrade(v) ==
  v.last_trade # Null =>
    /\ v.last_trade.price > 0 /\ v.last_trade.quantity > 0
    /\ v.last_trade.executed_at <= v.as_of

ValidMarket(m) ==
  /\ ValidMarketLevel(m.best_bid) /\ ValidMarketLevel(m.best_ask)
  /\ Null \notin {m.best_bid, m.best_ask} => m.best_bid.price < m.best_ask.price
  /\ m.spread_bps = SpreadBps(m.best_bid, m.best_ask)
  /\ ValidLastTrade(m)

ValidSide(levels, side) ==
  /\ Len(levels) <= MaxDepthLevels
  /\ \A k \in DOMAIN levels : ValidMarketLevel(levels[k])
  /\ \A k \in 2 .. Len(levels) :
       IF side = "buy" THEN levels[k].price < levels[k - 1].price
       ELSE levels[k].price > levels[k - 1].price

ValidMarketDepthView(v) ==
  LET served == Max({Len(v.bids), Len(v.asks)})
  IN  /\ ValidSide(v.bids, "buy") /\ ValidSide(v.asks, "sell")
      /\ v.bids # << >> /\ v.asks # << >> => Head(v.bids).price < Head(v.asks).price
      /\ v.depth_levels >= served
      /\ served < MaxDepthLevels => v.depth_levels = served
      /\ ValidLastTrade(v)

-----------------------------------------------------------------------------
(* What the miniapp parses (src/miniapp, src/server/customer-api-client.ts *)
(* over decimal.ts and exchange-orders.ts): its own arithmetic and its own *)
(* reading of each view.  One row it cannot parse makes the read           *)
(* unavailable.                                                            *)

(* divideRounded of decimal.ts has no half-even.                           *)
DecimalDivide(n, d, rounding) ==
  IF n % d = 0 \/ rounding = "down" THEN n \div d
  ELSE IF rounding = "up" THEN n \div d + 1
  ELSE (n + d \div 2) \div d

ContractExchangeOrderAmounts(side, base, price, feeBps) ==
  LET quote == DecimalDivide(base * price * QuoteMultiplier, QuoteDivisor,
                             IF side = "buy" THEN "up" ELSE "down")
      fee   == DecimalDivide(quote * feeBps, 10000, "up")
  IN  [quoteUnits |-> quote, fee |-> fee,
       total |-> quote + (IF side = "buy" THEN fee ELSE -fee)]

ParsesAmounts(row, base) ==
  /\ ContractExchangeOrderAmounts(row.side, base, row.price, row.fee_bps) = row.amounts
  /\ row.amounts.quoteUnits > 0 /\ row.amounts.total > 0

ParseExchangeOrdersView(rows) ==
  /\ DistinctBy(rows, LAMBDA r : r.order_id)
  /\ \A r \in ToSet(rows) :
       /\ r.status \in {"open", "cancelled", "expired", "rejected"}
       /\ r.order_type = "market" => r.status = "rejected"
       /\ r.updated_at >= r.created_at
       /\ r.status = "open" => r.updated_at = r.created_at
       /\ ParsesAmounts(r, r.base_amount)

ParseTradesView(rows) ==
  /\ DistinctBy(rows, LAMBDA t : t.trade_id)
  /\ \A t \in ToSet(rows) :
       /\ t.liquidity \in {"maker", "taker"}
       /\ ParsesAmounts(t, t.quantity)

ParseMarketLevel(level) ==
  level = Null \/ (level.price > 0 /\ level.quantity > 0 /\ level.order_count >= 1)

(* The fraction of the spread breaks ties to the even quotient by hand.    *)
ParsesSpread(spread, bid, ask) ==
  LET numerator == (ask - bid) * 20000
      quotient  == numerator \div (ask + bid)
      doubled   == 2 * (numerator - quotient * (ask + bid))
      above     == doubled > ask + bid \/ (doubled = ask + bid /\ quotient % 2 # 0)
  IN  bid < ask /\ spread = IF above THEN quotient + 1 ELSE quotient

ParseLastTrade(view) ==
  \/ view.last_trade = Null
  \/ /\ view.last_trade.price > 0 /\ view.last_trade.quantity > 0
     /\ view.last_trade.executed_at <= view.as_of

ParseMarket(m) ==
  /\ ParseMarketLevel(m.best_bid) /\ ParseMarketLevel(m.best_ask)
  /\ IF Null \in {m.best_bid, m.best_ask} THEN m.spread_bps = Null
     ELSE ParsesSpread(m.spread_bps, m.best_bid.price, m.best_ask.price)
  /\ ParseLastTrade(m)

ParseMarketDepthSide(levels, descending) ==
  /\ Len(levels) <= MaxDepthLevels
  /\ \A level \in ToSet(levels) : level # Null /\ ParseMarketLevel(level)
  /\ \A j, k \in DOMAIN levels :
       j < k => IF descending THEN levels[k].price < levels[j].price
                ELSE levels[j].price < levels[k].price

ParseMarketDepthView(v) ==
  LET served == Max({Len(v.bids), Len(v.asks)})
  IN  /\ ParseMarketDepthSide(v.bids, TRUE) /\ ParseMarketDepthSide(v.asks, FALSE)
      /\ v.bids = << >> \/ v.asks = << >> \/ v.bids[1].price < v.asks[1].price
      /\ v.depth_levels = served \/ (v.depth_levels > served /\ served = MaxDepthLevels)
      /\ ParseLastTrade(v)

-----------------------------------------------------------------------------
(* Every view of every scenario passes its own fail-closed check and is    *)
(* parsed by the miniapp, which recomputes it its own way: nothing the     *)
(* engine does to a subject's orders makes a read refuse to answer         *)
(* (validExchangeOrdersView and its siblings in exchange-orders.mjs) or    *)
(* turns an answer into "unavailable" (parseExchangeOrdersView and its     *)
(* siblings in customer-api-client.ts).                                    *)
ViewsPassValidation ==
  Replayed =>
    /\ ValidExchangeOrdersView(ProjectExchangeOrders)
    /\ ParseExchangeOrdersView(ProjectExchangeOrders)
    /\ \A k \in DOMAIN intents :
         ValidExchangeOrderDetailView(ProjectExchangeOrderDetail(intents[k]))
    /\ ValidTradesView(ProjectExchangeTrades)
    /\ ParseTradesView(ProjectExchangeTrades)
    /\ \A pair \in Instruments :
         /\ ValidMarket(ProjectExchangeMarket(pair))
         /\ ParseMarket(ProjectExchangeMarket(pair))
         /\ ValidMarketDepthView(ProjectExchangeMarketDepth(pair))
         /\ ParseMarketDepthView(ProjectExchangeMarketDepth(pair))

(* The views tell one story: what a row still shows and what its legs      *)
(* executed make up what was placed, an order is listed unless it filled,  *)
(* a trade is exactly one leg of one detail, and what the open orders show *)
(* at a price is part of the depth there.                                  *)
ViewsReconcile ==
  LET details == {ProjectExchangeOrderDetail(i) : i \in ToSet(intents)}
      listed  == ToSet(ProjectExchangeOrders)
      legs    == UNION {ToSet(d.fills) : d \in details}
      trades  == ToSet(ProjectExchangeTrades)
      placed(d) == IntentOf(d.row.order_id).quantity
      executed(d) == FoldLeft(LAMBDA sum, leg : sum + leg.quantity, 0, d.fills)
      open(pair, side, p) ==
        {r \in listed : r.status = "open" /\ r.pair = pair /\ r.side = side /\ r.price = p}
  IN  Replayed =>
        /\ \A d \in details :
             IF d.row.status = "filled" THEN executed(d) = placed(d)
             ELSE d.row.base_amount + executed(d) = placed(d)
        /\ listed = {d.row : d \in {e \in details : e.row.status # "filled"}}
        /\ Len(ProjectExchangeTrades) = Cardinality(legs)
        /\ {[fill_id |-> t.trade_id, liquidity |-> t.liquidity, price |-> t.price,
             quantity |-> t.quantity, executed_at |-> t.executed_at] : t \in trades} = legs
        /\ \A pair \in Instruments, side \in Sides, p \in Prices :
             open(pair, side, p) # {} =>
               \E k \in DOMAIN Ladder(pair, side) :
                 LET level == Ladder(pair, side)[k]
                 IN  /\ level.price = p
                     /\ level.quantity >=
                          MapThenSumSet(LAMBDA r : r.base_amount, open(pair, side, p))

(* No reader ever faces an empty view: the opening acts leave a maker and  *)
(* a taker leg whatever the subject, and the tail act a row, although it   *)
(* trades on the book the other acts left ("keeps every subject's view     *)
(* non-empty even when book cross-talk consumed the rest",                 *)
(* exchange-orders.mjs).                                                   *)
EveryViewHasRows ==
  Replayed =>
    /\ ProjectExchangeOrders # << >>
    /\ {t.liquidity : t \in ToSet(ProjectExchangeTrades)} = {"maker", "taker"}
=============================================================================
