-------------------------- MODULE EngineProperties --------------------------
(***************************************************************************)
(* What the matching engine guarantees about its orders, its books and its *)
(* journal, and what the recovery paths of packages/matching-core owe the  *)
(* live engine: replayMatchingEngine over journal(), restoreMatchingEngine *)
(* over snapshot(), and a snapshot continued by the journal's tail.        *)
(***************************************************************************)
EXTENDS MatchingEngine, MatchingReplay, FiniteSets, FiniteSetsExt

(* Every event emitted so far, those of the open operation included.       *)
Emitted == journal \o op.events

(* Type invariant: the maps of the engine only ever name accepted orders,  *)
(* and the counters stay in the safe-integer range.                        *)
TypeOK ==
  /\ DOMAIN orders \subseteq OrderIds
  /\ \A id \in DOMAIN orders : orders[id] \in Order
  /\ tracked \in Seq(DOMAIN orders)
  /\ books \in [Instruments -> Book]
  /\ \A i \in Instruments : books[i].resting \subseteq DOMAIN orders
  /\ nextSeq \in 1 .. MaxSafe
  /\ nextFill \in 1 .. MaxSafe
  /\ lastAt \in Times \cup {-1}
  /\ op.phase \in Phases
  /\ op.phase = "match" => op.taker \in DOMAIN orders

(* The book is never crossed: on no instrument does a resting bid meet a   *)
(* resting ask, whatever the order of submissions, amendments and sweeps   *)
(* (matchTaker rests a remainder only once nothing opposite is matchable;  *)
(* parseEngineSnapshot refuses a crossed book).                            *)
NeverCrossed ==
  \A i \in Instruments : \A bid \in Live(books[i], "buy"), ask \in Live(books[i], "sell") :
    bid < ask

(* The queues of a book hold exactly its resting orders, each once, under  *)
(* its own side and price, with something left to trade; the only tracked  *)
(* order in state resting outside the book is the taker of the open        *)
(* operation.  The resting map of the book names the same orders.          *)
Slots(i, id) ==
  {slot \in Sides \X Prices \X (1 .. Len(tracked)) :
     LET queue == books[i].levels[slot[1]][slot[2]]
     IN  slot[3] \in DOMAIN queue /\ queue[slot[3]] = id}

BookHoldsRestingOrders ==
  op.phase # "wedged" =>
    /\ \A id \in DOMAIN orders :
         LET o == orders[id]
         IN  (o.state = "resting" /\ ~(op.phase = "match" /\ op.taker = id))
               <=> id \in books[o.instrument].resting
    /\ \A i \in Instruments, id \in DOMAIN orders :
         Cardinality(Slots(i, id)) = IF id \in books[i].resting THEN 1 ELSE 0
    /\ \A i \in Instruments : \A id \in books[i].resting :
         LET o == orders[id]
         IN  /\ o.instrument = i /\ o.remaining > 0
             /\ \E k \in DOMAIN books[i].levels[o.side][o.price] :
                  books[i].levels[o.side][o.price][k] = id

(* Quantity is conserved along the journal: what an order executed is its  *)
(* quantity less its remainder (less what a cancel took out), and both     *)
(* orders of an execution moved by the same amount at one price.           *)
FilledUnits(id) ==
  MapThenSumSet(LAMBDA k : Emitted[k].body.quantity,
                {k \in DOMAIN Emitted :
                   IsFill(Emitted[k]) /\ Emitted[k].body.order_id = id})

CancelledUnits(id) ==
  MapThenSumSet(LAMBDA k : Emitted[k].body.quantity,
                {k \in DOMAIN Emitted : /\ Emitted[k].body.type = "cancelled"
                                        /\ Emitted[k].body.order_id = id})

QuantityConserved ==
  op.phase # "wedged" =>
    /\ \A id \in DOMAIN orders :
         FilledUnits(id) + CancelledUnits(id) + orders[id].remaining
           = orders[id].quantity
    /\ \A k \in {k \in DOMAIN Emitted : IsFill(Emitted[k])} :
         LET b == Emitted[k].body
         IN  \E j \in {k - 1, k + 1} \cap DOMAIN Emitted :
               LET c == Emitted[j].body
               IN  /\ IsFill(Emitted[j])
                   /\ c.fill_id = b.fill_id /\ c.side # b.side
                   /\ c.price = b.price /\ c.quantity = b.quantity

(* No execution is worse than the limit in force: the last price an order  *)
(* was accepted or amended at bounds the price of its next fills, even     *)
(* when the amendment re-entered matching.                                 *)
LimitBefore(id, n) ==
  LET set == {k \in 1 .. n - 1 :
                /\ Emitted[k].body.type \in {"accepted", "amended"}
                /\ Emitted[k].body.order_id = id}
  IN  Emitted[Max(set)].body.price

WithinLimits ==
  \A n \in {k \in DOMAIN Emitted : IsFill(Emitted[k])} :
    LET b     == Emitted[n].body
        limit == LimitBefore(b.order_id, n)
    IN  \/ limit = Null
        \/ IF b.side = "buy" THEN b.price <= limit ELSE b.price >= limit

(* Executions add up: units are conserved, each pair of legs is one trade, *)
(* and no leg is worse than its order allowed when it was made.            *)
ExecutionsAddUp == QuantityConserved /\ WithinLimits

(* A filled, cancelled or rejected order never changes again: no later     *)
(* cancel, amendment or sweep touches it.                                  *)
TerminalIsFinal ==
  [][\A id \in DOMAIN orders :
       orders[id].state # "resting" =>
         id \in DOMAIN orders' /\ orders'[id] = orders[id]]_vars

(* The line of open orders the books stand for, in the order of tracked.   *)
(* A maker left at zero by an operation that threw is not open any more.   *)
Open ==
  {id \in DOMAIN orders :
     id \in books[orders[id].instrument].resting /\ orders[id].remaining > 0}

OpenOrders ==
  [id \in Open |->
     [instrument |-> orders[id].instrument, side |-> orders[id].side,
      price |-> orders[id].price, remaining |-> orders[id].remaining]]

InOrder(s, x, y) == \E j, k \in 1 .. Len(s) : j < k /\ s[j] = x /\ s[k] = y

Ahead == {pair \in Open \X Open : InOrder(tracked, pair[1], pair[2])}

FillId == IF op.phase = "idle" THEN nextFill ELSE op.fill

Promise == INSTANCE PriceTimePriority
  WITH open <- OpenOrders, ahead <- Ahead, fills <- FillId

(* The engine keeps price/time priority: every step of every operation is  *)
(* a step of the line of open orders, so an execution always takes the     *)
(* oldest order of the best price, and no amendment moves anyone forward.  *)
KeepsPriceTimePriority == Promise!Spec

(* The fill ids cannot run out before the seq numbers do: an execution      *)
(* takes one of the former and two of the latter, so the limit on fill ids *)
(* in matchTaker is never what stops a sweep.                              *)
FillsTrailEvents ==
  /\ 2 * nextFill <= nextSeq + 1
  /\ op.phase \in {"match", "finish"} => 2 * op.fill <= op.seq

(* Every operation that opens also ends: the sweep terminates, in a commit *)
(* or in the throw that exhausts a counter.                                *)
OperationEnds ==
  op.phase \in {"match", "finish"} ~> op.phase \in {"idle", "wedged"}

-----------------------------------------------------------------------------
(* What an engine rebuilt from its journal or a snapshot has to be.        *)
EngineState ==
  [orders |-> orders, tracked |-> tracked, books |-> books,
   nextSeq |-> nextSeq, nextFill |-> nextFill, lastAt |-> lastAt]

(* snapshot() of the engine, which refuses while an operation is open.     *)
EngineSnapshot ==
  CanonicalEngineSnapshot(orders, tracked, nextSeq, nextFill, lastAt)

(* The fold never refuses what the engine emitted, and rebuilds it to the  *)
(* last queue slot: between operations, replaying the journal gives the    *)
(* live engine (replay.mjs: "identical to the source's for every touched   *)
(* order and instrument").                                                 *)
ReplayRebuildsEngine ==
  op.phase = "idle" => ReplayMatchingEngine(journal) = EngineState

(* A snapshot taken after any earlier operation, continued by the rest of  *)
(* the journal, gives the engine the full replay gives: the parser accepts *)
(* every snapshot the engine writes, and level queues come back in their   *)
(* order although it only lists the resting ids in the order of the        *)
(* tracked map.  At the end of the journal it is the engine's own snapshot *)
(* and nothing follows; an earlier one is the snapshot of the prefix, and  *)
(* the one of the empty journal leaves the full replay.                    *)
TailRebuildsEngine ==
  op.phase = "idle" =>
    \A n \in 0 .. Len(journal) :
      LET prefix == ReplayMatchingEngine(SubSeq(journal, 1, n))
          base   == IF n = Len(journal) THEN EngineSnapshot
                    ELSE CanonicalEngineSnapshot(prefix.orders, prefix.tracked,
                           prefix.nextSeq, prefix.nextFill, prefix.lastAt)
      IN  prefix # Refused =>
            ReplayFromSnapshot(base, SubSeq(journal, n + 1, Len(journal)))
              = EngineState

(* A journal that ends inside an operation is refused: no cut of the batch *)
(* being committed, at whatever event, replays.                            *)
TornBatchRefused ==
  op.phase = "finish" =>
    \A n \in 1 .. Len(op.events) - 1 :
      ReplayMatchingEngine(journal \o SubSeq(op.events, 1, n)) = Refused
=============================================================================
