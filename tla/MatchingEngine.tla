--------------------------- MODULE MatchingEngine ---------------------------
(***************************************************************************)
(* The spot matching engine of packages/matching-core: src/engine.mjs over *)
(* the per-instrument order books of src/book.mjs.                         *)
(*                                                                         *)
(* One call of submitOrder, cancelOrder or amendOrder is an operation.  It *)
(* is opened by one action (validation, the first event, the state change  *)
(* that precedes matching), continues with one action per iteration of the *)
(* sweep loop of matchTaker, and is closed by Commit.  While it is open    *)
(* every other call throws, as beginOperation does.  A counter at the end  *)
(* of the safe-integer space throws in the middle of the operation: the    *)
(* operation then never closes (phase "wedged").                           *)
(***************************************************************************)
EXTENDS MatchingCore

CONSTANTS
  Times,         \* readings of the clock, epoch seconds
  Submissions,   \* the inputs submitOrder is called with
  Cancellations, \* the inputs cancelOrder is called with
  Amendments     \* the inputs amendOrder is called with

SubmitInput ==
  [wellFormed : BOOLEAN, order_id : OrderIds \cup {Null, Malformed},
   instrument : Instruments \cup {Null, Malformed},
   side : Sides \cup {Null, Malformed}, owner : Owners \cup {Null, Malformed},
   type : {"limit", "market", Malformed},
   price : Prices \cup {0, Null, Malformed},
   quantity : Nat \cup {Malformed}]

CancelInput ==
  [order_id : OrderIds \cup {Null, Malformed},
   instrument : Instruments \cup {Null, Malformed}]

AmendInput ==
  [wellFormed : BOOLEAN, order_id : OrderIds \cup {Null, Malformed},
   price : Prices \cup {0, Null, Malformed},
   quantity : Nat \cup {Null, Malformed}]

ASSUME EngineConstants ==
  /\ Times \subseteq Nat
  /\ Submissions \subseteq SubmitInput
  /\ Cancellations \subseteq CancelInput
  /\ Amendments \subseteq AmendInput

VARIABLES
  orders,       \* the entries of the tracked map, by accepted order id
  tracked,      \* the insertion order of that map
  books,        \* the order book of each instrument
  journal,      \* every event of every closed operation
  nextSeq, nextFill, lastAt,
  op            \* the operation in progress

vars == <<orders, tracked, books, journal, nextSeq, nextFill, lastAt, op>>

Phases == {"idle", "match", "finish", "wedged"}

Idle ==
  [phase |-> "idle", taker |-> Null, events |-> << >>, seq |-> 0, fill |-> 0,
   at |-> -1]

Init ==
  /\ orders = << >>
  /\ tracked = << >>
  /\ books = [i \in Instruments |-> EmptyBook]
  /\ journal = << >>
  /\ nextSeq = 1
  /\ nextFill = 1
  /\ lastAt = -1
  /\ op = Idle

-----------------------------------------------------------------------------
(* Validation: the checks of a call in the order the code makes them.  The *)
(* first one that fails names the reason of the rejection.                 *)

FirstFailure(checks, k) ==
  /\ checks[k].fails
  /\ \A j \in 1 .. k - 1 : ~checks[j].fails

Passes(checks) == \A k \in DOMAIN checks : ~checks[k].fails

SubmitChecks(o) ==
  << [fails |-> ~o.wellFormed, reason |-> "invalid_order"],
     [fails |-> o.order_id \in {Null, Malformed}, reason |-> "invalid_order_id"],
     [fails |-> o.instrument = Null, reason |-> "invalid_instrument"],
     [fails |-> o.instrument = Malformed, reason |-> "unknown_instrument"],
     [fails |-> o.side \in {Null, Malformed}, reason |-> "invalid_side"],
     [fails |-> o.owner = Malformed, reason |-> "invalid_owner"],
     [fails |-> o.type = Malformed, reason |-> "invalid_type"],
     [fails |-> (o.type = "market") # (o.price = Null), reason |-> "invalid_order"],
     [fails |-> o.price = Malformed, reason |-> "invalid_price"],
     [fails |-> o.price = 0, reason |-> "non_positive_price"],
     [fails |-> o.quantity = Malformed, reason |-> "invalid_quantity"],
     [fails |-> o.quantity = 0, reason |-> "non_positive_quantity"],
     [fails |-> o.order_id \in DOMAIN orders, reason |-> "duplicate_order_id"] >>

CancelChecks(c) ==
  << [fails |-> c.instrument = Null, reason |-> "invalid_instrument"],
     [fails |-> c.instrument = Malformed, reason |-> "unknown_instrument"],
     [fails |-> c.order_id \in {Null, Malformed}, reason |-> "invalid_order_id"],
     [fails |-> /\ c.instrument \in Instruments
                /\ c.order_id \notin books[c.instrument].resting,
      reason |-> "order_not_resting"] >>

(* Mutant of IsResting: any order ever accepted can be amended.            *)
IsTracked(id) == id \in DOMAIN orders

IsResting(id) ==
  /\ id \in DOMAIN orders
  /\ orders[id].state = "resting"
  /\ id \in books[orders[id].instrument].resting

NewPrice(a) == IF a.price = Null THEN orders[a.order_id].price ELSE a.price

NewTotal(a) ==
  IF a.quantity = Null THEN orders[a.order_id].quantity ELSE a.quantity

Executed(id) == orders[id].quantity - orders[id].remaining

AmendChecks(a) ==
  << [fails |-> ~a.wellFormed \/ (a.price = Null /\ a.quantity = Null),
      reason |-> "invalid_order"],
     [fails |-> a.order_id \in {Null, Malformed}, reason |-> "invalid_order_id"],
     [fails |-> ~IsResting(a.order_id), reason |-> "order_not_resting"],
     [fails |-> a.price = Malformed, reason |-> "invalid_price"],
     [fails |-> a.price = 0, reason |-> "non_positive_price"],
     [fails |-> a.quantity = Malformed, reason |-> "invalid_quantity"],
     [fails |-> a.quantity = 0, reason |-> "non_positive_quantity"],
     [fails |-> /\ IsResting(a.order_id)
                /\ NewPrice(a) = orders[a.order_id].price
                /\ NewTotal(a) = orders[a.order_id].quantity,
      reason |-> "no_change"],
     [fails |-> /\ IsResting(a.order_id)
                /\ a.quantity # Malformed
                /\ NewTotal(a) <= Executed(a.order_id),
      reason |-> "quantity_below_filled"] >>

-----------------------------------------------------------------------------
(* Opening an operation.                                                   *)

(* beginOperation: a call inside an open operation, a clock that went back *)
(* and an exhausted sequence space throw before anything changes.          *)
BeginOperation(now) ==
  /\ op.phase = "idle"
  /\ now >= lastAt
  /\ nextSeq < MaxSafe
  /\ lastAt' = now

OpenWith(now, phase, taker, body) ==
  op' = [phase |-> phase, taker |-> taker,
         events |-> Stamped(<<body>>, nextSeq, now),
         seq |-> nextSeq + 1, fill |-> nextFill, at |-> now]

RejectWith(now, id, instrument, side, reason) ==
  /\ OpenWith(now, "finish", Null, RejectedBody(id, instrument, side, reason))
  /\ UNCHANGED <<orders, tracked, books, journal, nextSeq, nextFill>>

SubmitRejected(o, now) ==
  /\ BeginOperation(now)
  /\ \E k \in DOMAIN SubmitChecks(o) :
       /\ FirstFailure(SubmitChecks(o), k)
       /\ RejectWith(now, o.order_id, o.instrument, o.side,
                     SubmitChecks(o)[k].reason)

SubmitAccepted(o, now) ==
  /\ BeginOperation(now)
  /\ Passes(SubmitChecks(o))
  /\ orders' = Put(orders, o.order_id,
                   [instrument |-> o.instrument, side |-> o.side,
                    order_type |-> o.type, owner |-> o.owner,
                    price |-> o.price, quantity |-> o.quantity,
                    remaining |-> o.quantity, state |-> "resting"])
  /\ tracked' = Append(tracked, o.order_id)
  /\ OpenWith(now, "match", o.order_id, AcceptedBody(o))
  /\ UNCHANGED <<books, journal, nextSeq, nextFill>>

SubmitOrder(o, now) == SubmitRejected(o, now) \/ SubmitAccepted(o, now)

CancelRejected(c, now) ==
  /\ BeginOperation(now)
  /\ \E k \in DOMAIN CancelChecks(c) :
       /\ FirstFailure(CancelChecks(c), k)
       /\ RejectWith(now, c.order_id, c.instrument, Null,
                     CancelChecks(c)[k].reason)

RemoveFromBook(id) ==
  LET o == orders[id]
  IN  books' = [books EXCEPT ![o.instrument] = RemoveResting(@, id, o.side, o.price)]

CancelAccepted(c, now) ==
  LET id == c.order_id
  IN  /\ BeginOperation(now)
      /\ Passes(CancelChecks(c))
      /\ RemoveFromBook(id)
      /\ orders' = [orders EXCEPT ![id].state = "cancelled",
                                  ![id].remaining = 0]
      /\ OpenWith(now, "finish", Null, CancelledBody(id, orders[id]))
      /\ UNCHANGED <<tracked, journal, nextSeq, nextFill>>

CancelOrder(c, now) == CancelRejected(c, now) \/ CancelAccepted(c, now)

(* The echo of a rejected amendment: nothing of a shapeless input, and the *)
(* instrument and side of the order once the id names a tracked one.       *)
AmendRejected(a, now) ==
  /\ BeginOperation(now)
  /\ \E k \in DOMAIN AmendChecks(a) :
       /\ FirstFailure(AmendChecks(a), k)
       /\ LET known == k > 2 /\ a.order_id \in DOMAIN orders
          IN  RejectWith(now,
                IF k = 1 THEN Null ELSE a.order_id,
                IF known THEN orders[a.order_id].instrument ELSE Null,
                IF known THEN orders[a.order_id].side ELSE Null,
                AmendChecks(a)[k].reason)

(* Mutant of KeepsPriority: any new total at the same price keeps the slot. *)
KeepsPriorityAtPrice(a) == NewPrice(a) = orders[a.order_id].price

(* A smaller total at an unchanged price keeps the queue slot.             *)
KeepsPriority(a) ==
  /\ NewPrice(a) = orders[a.order_id].price
  /\ NewTotal(a) < orders[a.order_id].quantity

(* Mutant of Amended: the new price is announced and not recorded.         *)
AmendedAtOldPrice(a) ==
  [orders EXCEPT ![a.order_id].quantity = NewTotal(a),
                 ![a.order_id].remaining = NewTotal(a) - Executed(a.order_id)]

(* The order after its amendment: what it executed stays executed.         *)
Amended(a) ==
  [orders EXCEPT ![a.order_id].price = NewPrice(a),
                 ![a.order_id].quantity = NewTotal(a),
                 ![a.order_id].remaining = NewTotal(a) - Executed(a.order_id)]

AmendInPlace(a, now) ==
  /\ BeginOperation(now)
  /\ Passes(AmendChecks(a))
  /\ KeepsPriority(a)
  /\ orders' = Amended(a)
  /\ OpenWith(now, "finish", Null,
       AmendedBody(a.order_id, orders[a.order_id], NewPrice(a), NewTotal(a)))
  /\ UNCHANGED <<tracked, books, journal, nextSeq, nextFill>>

AmendRequeued(a, now) ==
  /\ BeginOperation(now)
  /\ Passes(AmendChecks(a))
  /\ ~KeepsPriority(a)
  /\ RemoveFromBook(a.order_id)
  /\ tracked' = Append(Without(tracked, a.order_id), a.order_id)
  /\ orders' = Amended(a)
  /\ OpenWith(now, "match", a.order_id,
       AmendedBody(a.order_id, orders[a.order_id], NewPrice(a), NewTotal(a)))
  /\ UNCHANGED <<journal, nextSeq, nextFill>>

AmendOrder(a, now) ==
  AmendRejected(a, now) \/ AmendInPlace(a, now) \/ AmendRequeued(a, now)

-----------------------------------------------------------------------------
(* The sweep of matchTaker.                                                *)

Matchable(o) ==
  {p \in Live(books[o.instrument], Opposite(o.side)) : Crosses(o, p)}

(* The taker faces the head of the best opposite level, at p.              *)
Facing(o, p) ==
  /\ p \in Matchable(o)
  /\ BestLevel(books[o.instrument], Opposite(o.side), p)

MakerAt(o, p) == HeadOf(books[o.instrument], Opposite(o.side), p)

SelfTrade(o, maker) ==
  /\ o.owner # Null
  /\ o.owner = orders[maker].owner

Sweeping == op.phase = "match" /\ orders[op.taker].remaining > 0

(* Emits bodies and moves to `phase`, unless stamp runs out of sequence    *)
(* numbers: it throws, and the operation stays open for good.              *)
Exhausted(bodies) == op.seq + Len(bodies) > MaxSafe

(* Mutant of Continue: every emission takes a fill id.                     *)
ContinueTakesFillId(bodies, phase, fill) ==
  op' = IF Exhausted(bodies)
        THEN [op EXCEPT !.phase = "wedged", !.fill = fill]
        ELSE [op EXCEPT !.phase = phase, !.fill = op.fill + 1,
                        !.events = @ \o Stamped(bodies, op.seq, op.at),
                        !.seq = @ + Len(bodies)]

Continue(bodies, phase, fill) ==
  op' = IF Exhausted(bodies)
        THEN [op EXCEPT !.phase = "wedged", !.fill = fill]
        ELSE [op EXCEPT !.phase = phase, !.fill = fill,
                        !.events = @ \o Stamped(bodies, op.seq, op.at),
                        !.seq = @ + Len(bodies)]

MatchSelfTrade ==
  LET o == orders[op.taker]
  IN  /\ Sweeping
      /\ \E p \in Prices : Facing(o, p) /\ SelfTrade(o, MakerAt(o, p))
      /\ orders' = [orders EXCEPT ![op.taker].state = "rejected"]
      /\ Continue(<<TerminalBody(op.taker, o, "self_trade")>>, "finish", op.fill)
      /\ UNCHANGED <<tracked, books, journal, nextSeq, nextFill, lastAt>>

Lesser(m, n) == IF m < n THEN m ELSE n

(* One execution.  Both remainders move first, then the two events are     *)
(* emitted, then a maker at zero leaves the head of its level.  The fill   *)
(* ids cannot run out first: an execution takes two sequence numbers and   *)
(* one fill id (FillsTrailEvents in EngineProperties).                     *)
MatchFill ==
  LET o == orders[op.taker]
  IN  /\ Sweeping
      /\ \E p \in Prices :
           LET maker  == MakerAt(o, p)
               units  == Lesser(o.remaining, orders[maker].remaining)
               moved  == [orders EXCEPT ![maker].remaining = @ - units,
                                        ![op.taker].remaining = @ - units]
               bodies ==
                 << FillBody(maker, moved[maker], maker, op.taker, op.fill, p, units),
                    FillBody(op.taker, moved[op.taker], maker, op.taker, op.fill,
                             p, units) >>
               gone   == ~Exhausted(bodies) /\ moved[maker].remaining = 0
           IN  /\ Facing(o, p)
               /\ ~SelfTrade(o, maker)
               /\ Continue(bodies, "match", op.fill + 1)
               /\ orders' = IF gone
                            THEN [moved EXCEPT ![maker].state = "filled"]
                            ELSE moved
               /\ books' = IF gone
                           THEN [books EXCEPT ![o.instrument] =
                                   ShiftBest(@, Opposite(o.side), p)]
                           ELSE books
      /\ UNCHANGED <<tracked, journal, nextSeq, nextFill, lastAt>>

MatchRests ==
  LET o == orders[op.taker]
  IN  /\ Sweeping
      /\ Matchable(o) = {}
      /\ o.order_type = "limit"
      /\ books' = [books EXCEPT ![o.instrument] =
                     AddResting(@, op.taker, o.side, o.price)]
      /\ Continue(<<RestingBody(op.taker, o)>>, "finish", op.fill)
      /\ UNCHANGED <<orders, tracked, journal, nextSeq, nextFill, lastAt>>

MatchRunsDry ==
  LET o == orders[op.taker]
  IN  /\ Sweeping
      /\ Matchable(o) = {}
      /\ o.order_type = "market"
      /\ orders' = [orders EXCEPT ![op.taker].state = "rejected"]
      /\ Continue(<<TerminalBody(op.taker, o, "insufficient_liquidity")>>,
                  "finish", op.fill)
      /\ UNCHANGED <<tracked, books, journal, nextSeq, nextFill, lastAt>>

MatchCompletes ==
  /\ op.phase = "match"
  /\ orders[op.taker].remaining = 0
  /\ orders' = [orders EXCEPT ![op.taker].state = "filled"]
  /\ op' = [op EXCEPT !.phase = "finish"]
  /\ UNCHANGED <<tracked, books, journal, nextSeq, nextFill, lastAt>>

MatchTaker ==
  \/ MatchSelfTrade
  \/ MatchFill
  \/ MatchRests
  \/ MatchRunsDry
  \/ MatchCompletes

-----------------------------------------------------------------------------
(* Closing an operation: the whole batch lands on the journal and the      *)
(* counters it consumed are committed.                                     *)
Commit ==
  /\ op.phase = "finish"
  /\ journal' = journal \o op.events
  /\ nextSeq' = op.seq
  /\ nextFill' = op.fill
  /\ op' = Idle
  /\ UNCHANGED <<orders, tracked, books, lastAt>>

(* Mutant of AppendThrows: the batch is journaled before it is appended.   *)
AppendThrowsTooLate ==
  /\ op.phase = "finish"
  /\ journal' = journal \o op.events
  /\ op' = Idle
  /\ UNCHANGED <<orders, tracked, books, nextSeq, nextFill, lastAt>>

(* finish when an attached store's append throws: the operation closes,    *)
(* nothing is journaled and the counters stay where they were.             *)
AppendThrows ==
  /\ op.phase = "finish"
  /\ op' = Idle
  /\ UNCHANGED <<orders, tracked, books, journal, nextSeq, nextFill, lastAt>>

Call ==
  \E now \in Times :
    \/ \E o \in Submissions : SubmitOrder(o, now)
    \/ \E c \in Cancellations : CancelOrder(c, now)
    \/ \E a \in Amendments : AmendOrder(a, now)

Next == Call \/ MatchTaker \/ Commit

Spec == Init /\ [][Next]_vars
=============================================================================
