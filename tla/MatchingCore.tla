---------------------------- MODULE MatchingCore ----------------------------
(***************************************************************************)
(* What the matching core is made of, packages/matching-core: the          *)
(* resting-order book of one instrument (src/book.mjs), tracked orders and *)
(* the events of the journal (src/events.mjs and the emitters of           *)
(* src/engine.mjs).                                                        *)
(*                                                                         *)
(* A book has price levels per side, each a FIFO queue of order ids, and   *)
(* the map of resting orders.  A level exists while its queue is not       *)
(* empty, so the sorted list of level prices is the set Live.              *)
(*                                                                         *)
(* Decimals are integer units; an event is its envelope (seq, at) and a    *)
(* body; the null of the code (an absent owner, an absent price, a value   *)
(* that is not even a string) is Null; a string or a decimal that fails    *)
(* its pattern is Malformed.                                               *)
(***************************************************************************)
EXTENDS Integers, Sequences

CONSTANTS
  OrderIds,      \* well-formed order ids
  Prices,        \* price units an order can carry
  Instruments,   \* the instrument registry
  Owners,        \* well-formed owner ids
  Null,
  Malformed,
  MaxSafe        \* Number.MAX_SAFE_INTEGER: bounds seq and fill numbers

Sides == {"buy", "sell"}

ASSUME EventConstants ==
  /\ MaxSafe \in Nat \ {0}
  /\ Prices \subseteq Nat \ {0}
  /\ Null \notin OrderIds \cup Instruments \cup Owners \cup Sides \cup Nat
  /\ Malformed \notin
       OrderIds \cup Instruments \cup Owners \cup Sides \cup Nat \cup {Null}
  /\ Malformed \notin {"limit", "market"}

Opposite(side) == IF side = "buy" THEN "sell" ELSE "buy"

Book == [levels : [Sides -> [Prices -> Seq(OrderIds)]],
         resting : SUBSET OrderIds]

EmptyBook ==
  [levels |-> [s \in Sides |-> [p \in Prices |-> << >>]], resting |-> {}]

Live(book, side) == {p \in Prices : book.levels[side][p] # << >>}

(* p is at least as good as q for whoever takes liquidity from `side`.     *)
AsGood(side, p, q) == IF side = "buy" THEN p >= q ELSE p <= q

BestLevel(book, side, p) ==
  /\ p \in Live(book, side)
  /\ \A q \in Live(book, side) : AsGood(side, p, q)

HeadOf(book, side, p) == Head(book.levels[side][p])

AddResting(book, id, side, price) ==
  [levels  |-> [book.levels EXCEPT ![side][price] = Append(@, id)],
   resting |-> book.resting \cup {id}]

(* Mutant of ShiftBest: the shifted maker stays in the resting map.        *)
ShiftBestKeepsResting(book, side, p) ==
  [levels  |-> [book.levels EXCEPT ![side][p] = Tail(@)],
   resting |-> book.resting]

(* Drops the head of the best level, which is the level at p.              *)
ShiftBest(book, side, p) ==
  [levels  |-> [book.levels EXCEPT ![side][p] = Tail(@)],
   resting |-> book.resting \ {HeadOf(book, side, p)}]

(* What splice leaves of a sequence once the one entry `id` is cut out.    *)
Without(s, id) ==
  LET at == CHOOSE k \in 1 .. Len(s) : s[k] = id
  IN  SubSeq(s, 1, at - 1) \o SubSeq(s, at + 1, Len(s))

(* Cuts an order out of its level; a book that does not queue it there is  *)
(* left as it is.                                                          *)
RemoveResting(book, id, side, price) ==
  IF \E k \in DOMAIN book.levels[side][price] : book.levels[side][price][k] = id
  THEN [levels  |-> [book.levels EXCEPT ![side][price] = Without(@, id)],
        resting |-> book.resting \ {id}]
  ELSE book

-----------------------------------------------------------------------------
(* Orders and events.                                                      *)

(* A map after set(key, value).                                            *)
Put(f, key, value) ==
  [x \in DOMAIN f \cup {key} |-> IF x = key THEN value ELSE f[x]]

OrderStates == {"resting", "filled", "cancelled", "rejected"}

Order ==
  [instrument : Instruments, side : Sides, order_type : {"limit", "market"},
   owner : Owners \cup {Null}, price : Prices \cup {Null},
   quantity : Nat \ {0}, remaining : Nat, state : OrderStates]

(* Mutant of Crosses: an equal price does not cross.                       *)
CrossesStrictly(o, p) ==
  o.order_type = "limit" => AsGood(Opposite(o.side), p, o.price) /\ p # o.price

(* Would the taker o trade at price p?                                     *)
Crosses(o, p) ==
  o.order_type = "limit" => AsGood(Opposite(o.side), p, o.price)

-----------------------------------------------------------------------------
(* Event bodies.                                                           *)

(* Mutant of RejectedBody: the side of the refused call is not echoed.     *)
RejectedBodyWithoutSide(id, instrument, side, reason) ==
  [type |-> "rejected", order_id |-> id, instrument |-> instrument,
   side |-> Null, reason |-> reason, quantity |-> Null]

RejectedBody(id, instrument, side, reason) ==
  [type |-> "rejected", order_id |-> id, instrument |-> instrument,
   side |-> side, reason |-> reason, quantity |-> Null]

AcceptedBody(o) ==
  [type |-> "accepted", order_id |-> o.order_id, instrument |-> o.instrument,
   side |-> o.side, order_type |-> o.type, owner |-> o.owner,
   price |-> o.price, quantity |-> o.quantity]

RestingBody(id, o) ==
  [type |-> "resting", order_id |-> id, instrument |-> o.instrument,
   side |-> o.side, price |-> o.price, quantity |-> o.remaining]

CancelledBody(id, o) ==
  [type |-> "cancelled", order_id |-> id, instrument |-> o.instrument,
   side |-> o.side, price |-> o.price, quantity |-> o.remaining]

AmendedBody(id, o, price, total) ==
  [type |-> "amended", order_id |-> id, instrument |-> o.instrument,
   side |-> o.side, previous_price |-> o.price,
   previous_quantity |-> o.quantity, price |-> price, quantity |-> total]

FillBody(id, o, maker, taker, fill, price, quantity) ==
  [type |-> IF o.remaining = 0 THEN "filled" ELSE "partially_filled",
   order_id |-> id, instrument |-> o.instrument, side |-> o.side,
   fill_id |-> fill, maker_order_id |-> maker, taker_order_id |-> taker,
   price |-> price, quantity |-> quantity, remaining |-> o.remaining]

(* A terminal rejection of an accepted taker carries what was left of it.  *)
TerminalBody(id, o, reason) ==
  [RejectedBody(id, o.instrument, o.side, reason)
     EXCEPT !.quantity = o.remaining]

Stamped(bodies, seq, at) ==
  [k \in 1 .. Len(bodies) |->
     [seq |-> seq + k - 1, at |-> at, body |-> bodies[k]]]

IsFill(e) == e.body.type \in {"filled", "partially_filled"}
=============================================================================
