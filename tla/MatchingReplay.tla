--------------------------- MODULE MatchingReplay ---------------------------
(***************************************************************************)
(* Journal replay and snapshots (packages/matching-core, src/replay.mjs    *)
(* and src/snapshot.mjs): the fold that rebuilds an engine from recorded   *)
(* events, the checks it makes of every event, the canonical snapshot, the *)
(* checks of its parser and the state hydrated from it.                    *)
(*                                                                         *)
(* The fold's set inBook is the resting ids of its books: the code updates *)
(* the two together.  The maker whose taker event must follow is a set of  *)
(* at most one pair.  A stream or a snapshot that is refused leaves no     *)
(* engine, and its result is Refused.                                      *)
(***************************************************************************)
EXTENDS MatchingCore, SequencesExt

Refused == [refused |-> TRUE]

FoldStart ==
  [orders |-> << >>, tracked |-> << >>,
   books |-> [i \in Instruments |-> EmptyBook],
   expectedSeq |-> 1, lastFill |-> 0, lastAt |-> -1, opAt |-> Null,
   inFlight |-> Null, pendingMaker |-> {}]

-----------------------------------------------------------------------------
(* What an event may look like against the state s folded so far.          *)

InBook(s, id) ==
  id \in DOMAIN s.orders /\ id \in s.books[s.orders[id].instrument].resting

InFlight(s, id) ==
  id \in DOMAIN s.orders /\ s.orders[id].state = "resting" /\ ~InBook(s, id)

(* trackedOrder: the event names an accepted order by its own instrument   *)
(* and side.                                                               *)
NamesOrder(s, b) ==
  /\ b.order_id \in DOMAIN s.orders
  /\ s.orders[b.order_id].instrument = b.instrument
  /\ s.orders[b.order_id].side = b.side

OppositeBests(s, o) ==
  {p \in Prices : BestLevel(s.books[o.instrument], Opposite(o.side), p)}

OppositeHead(s, o, p) == HeadOf(s.books[o.instrument], Opposite(o.side), p)

EnvelopeFits(s, e) ==
  /\ e.seq = s.expectedSeq
  /\ e.at >= s.lastAt
  /\ s.inFlight # Null \/ s.pendingMaker # {} => e.at = s.opAt

TerminalReasons == {"self_trade", "insufficient_liquidity"}

(* While an order is in flight only its own operation continues.           *)
StaysInOperation(s, b) ==
  s.inFlight # Null =>
    \/ b.type \in {"filled", "partially_filled"}
    \/ b.type = "resting" /\ b.order_id = s.inFlight
    \/ /\ b.type = "rejected"
       /\ b.order_id = s.inFlight
       /\ b.reason \in TerminalReasons

AdmitsAccepted(s, b) ==
  /\ b.order_id \in OrderIds \ DOMAIN s.orders
  /\ b.instrument \in Instruments
  /\ b.side \in Sides
  /\ \/ b.order_type = "limit" /\ b.price \in Prices
     \/ b.order_type = "market" /\ b.price = Null
  /\ b.owner \in Owners \cup {Null}
  /\ b.quantity \in Nat \ {0}

(* Mutant of AdmitsResting: an order may rest where it meets the other side. *)
AdmitsCrossedResting(s, b) ==
  /\ NamesOrder(s, b)
  /\ InFlight(s, b.order_id)
  /\ LET o == s.orders[b.order_id]
     IN  o.order_type = "limit" /\ b.price = o.price /\ b.quantity = o.remaining

AdmitsResting(s, b) ==
  /\ NamesOrder(s, b)
  /\ InFlight(s, b.order_id)
  /\ LET o == s.orders[b.order_id]
     IN  /\ o.order_type = "limit"
         /\ b.price = o.price
         /\ b.quantity = o.remaining
         /\ \A p \in OppositeBests(s, o) : ~Crosses(o, p)

(* The maker event of an execution: it heads the best level, at its own    *)
(* price and within the limit of the order in flight.                      *)
OpensPair(s, b) ==
  LET maker == s.orders[b.maker_order_id]
      taker == s.orders[b.taker_order_id]
  IN  /\ s.pendingMaker = {}
      /\ b.order_id = b.maker_order_id
      /\ b.fill_id = s.lastFill + 1
      /\ b.fill_id < MaxSafe
      /\ maker.state = "resting" /\ InBook(s, b.maker_order_id)
      /\ \E p \in Prices :
           /\ BestLevel(s.books[maker.instrument], maker.side, p)
           /\ HeadOf(s.books[maker.instrument], maker.side, p) = b.maker_order_id
      /\ Crosses(taker, maker.price)

Pair(b) ==
  [fill_id |-> b.fill_id, maker_order_id |-> b.maker_order_id,
   taker_order_id |-> b.taker_order_id, quantity |-> b.quantity]

ClosesPair(s, b) ==
  /\ s.pendingMaker = {Pair(b)}
  /\ b.order_id = b.taker_order_id
  /\ InFlight(s, b.taker_order_id)

AdmitsFill(s, b) ==
  /\ NamesOrder(s, b)
  /\ b.maker_order_id # b.taker_order_id
  /\ {b.maker_order_id, b.taker_order_id} \subseteq DOMAIN s.orders
  /\ b.taker_order_id = s.inFlight
  /\ LET maker == s.orders[b.maker_order_id]
         taker == s.orders[b.taker_order_id]
     IN  /\ maker.instrument = b.instrument /\ taker.instrument = b.instrument
         /\ maker.side # taker.side
         /\ b.price = maker.price
  /\ b.quantity > 0
  /\ (b.type = "filled") <=> (b.remaining = 0)
  /\ OpensPair(s, b) \/ ClosesPair(s, b)
  /\ s.orders[b.order_id].remaining - b.quantity = b.remaining

AdmitsCancelled(s, b) ==
  /\ NamesOrder(s, b)
  /\ s.orders[b.order_id].state = "resting" /\ InBook(s, b.order_id)
  /\ b.price = s.orders[b.order_id].price
  /\ b.quantity = s.orders[b.order_id].remaining

AdmitsAmended(s, b) ==
  /\ NamesOrder(s, b)
  /\ s.orders[b.order_id].state = "resting" /\ InBook(s, b.order_id)
  /\ LET o == s.orders[b.order_id]
     IN  /\ b.previous_price = o.price
         /\ b.previous_quantity = o.quantity
         /\ b.price \in Prices
         /\ b.quantity > o.quantity - o.remaining
         /\ b.price # o.price \/ b.quantity # o.quantity

(* A terminal rejection must be earned by the head of the opposite side.   *)
AdmitsTerminal(s, b) ==
  /\ NamesOrder(s, b)
  /\ InFlight(s, b.order_id)
  /\ LET o == s.orders[b.order_id]
     IN  /\ IF b.reason = "self_trade"
            THEN /\ o.owner # Null
                 /\ \E p \in OppositeBests(s, o) :
                      /\ s.orders[OppositeHead(s, o, p)].owner = o.owner
                      /\ Crosses(o, p)
            ELSE o.order_type = "market" /\ OppositeBests(s, o) = {}
         /\ b.quantity = o.remaining

(* A validation rejection must be earnable: each reason pins what the      *)
(* refused call can have echoed.                                           *)
Earned(s, b) ==
  LET known  == b.order_id \in DOMAIN s.orders
      own    == /\ known
                /\ s.orders[b.order_id].instrument = b.instrument
                /\ s.orders[b.order_id].side = b.side
      valid  == b.order_id \in OrderIds /\ b.instrument \in Instruments
  IN  CASE b.reason = "no_change" -> own /\ InBook(s, b.order_id)
        [] b.reason = "quantity_below_filled" ->
             /\ own /\ InBook(s, b.order_id)
             /\ s.orders[b.order_id].remaining # s.orders[b.order_id].quantity
        [] b.reason = "duplicate_order_id" -> known
        [] b.reason = "order_not_resting" ->
             /\ b.order_id \in OrderIds
             /\ ~(/\ known
                  /\ s.orders[b.order_id].state = "resting"
                  /\ s.orders[b.order_id].instrument = b.instrument)
             /\ IF b.side = Null THEN b.instrument \in Instruments \cup {Null}
                                 ELSE own
        [] b.reason = "invalid_instrument" -> b.instrument = Null
        [] b.reason = "unknown_instrument" -> b.instrument = Malformed
        [] b.reason = "invalid_order_id" -> b.order_id \notin OrderIds
        [] b.reason = "invalid_side" -> valid
        [] b.reason = "invalid_order" -> TRUE
        [] OTHER -> valid /\ b.side \in Sides

AdmitsRejected(s, b) ==
  IF b.reason \in TerminalReasons
  THEN AdmitsTerminal(s, b)
  ELSE b.quantity = Null /\ Earned(s, b)

Admits(s, e) ==
  /\ EnvelopeFits(s, e)
  /\ StaysInOperation(s, e.body)
  /\ IF IsFill(e)
     THEN AdmitsFill(s, e.body)
     ELSE /\ s.pendingMaker = {}
          /\ CASE e.body.type = "accepted"  -> AdmitsAccepted(s, e.body)
               [] e.body.type = "resting"   -> AdmitsResting(s, e.body)
               [] e.body.type = "cancelled" -> AdmitsCancelled(s, e.body)
               [] e.body.type = "amended"   -> AdmitsAmended(s, e.body)
               [] e.body.type = "rejected"  -> AdmitsRejected(s, e.body)
               [] OTHER                     -> FALSE

-----------------------------------------------------------------------------
(* What an admitted event does.                                            *)

Dequeue(books, id, o) ==
  [books EXCEPT ![o.instrument] = RemoveResting(@, id, o.side, o.price)]

FoldAccepted(s, b) ==
  [s EXCEPT !.orders = Put(@, b.order_id,
              [instrument |-> b.instrument, side |-> b.side,
               order_type |-> b.order_type, owner |-> b.owner,
               price |-> b.price, quantity |-> b.quantity,
               remaining |-> b.quantity, state |-> "resting"]),
            !.tracked = Append(@, b.order_id),
            !.inFlight = b.order_id]

(* Mutant of FoldResting: the order stays in flight.                       *)
FoldResting(s, b) ==
  [s EXCEPT !.books[b.instrument] =
              AddResting(@, b.order_id, b.side, s.orders[b.order_id].price),
            !.inFlight = Null]

FoldFill(s, b) ==
  LET o    == s.orders[b.order_id]
      done == b.remaining = 0
  IN  [s EXCEPT !.orders[b.order_id] =
                  [o EXCEPT !.remaining = b.remaining,
                            !.state = IF done THEN "filled" ELSE @],
                !.books = IF done /\ InBook(s, b.order_id)
                          THEN Dequeue(@, b.order_id, o) ELSE @,
                !.inFlight = IF done /\ b.order_id = b.taker_order_id
                             THEN Null ELSE @,
                !.lastFill = b.fill_id,
                !.pendingMaker = IF s.pendingMaker = {} THEN {Pair(b)} ELSE {}]

FoldCancelled(s, b) ==
  [s EXCEPT !.books = Dequeue(@, b.order_id, s.orders[b.order_id]),
            !.orders[b.order_id].state = "cancelled",
            !.orders[b.order_id].remaining = 0]

FoldAmended(s, b) ==
  LET o     == s.orders[b.order_id]
      keeps == b.price = o.price /\ b.quantity < o.quantity
  IN  [s EXCEPT !.books = IF keeps THEN @ ELSE Dequeue(@, b.order_id, o),
                !.tracked = IF keeps THEN @
                            ELSE Append(Without(@, b.order_id), b.order_id),
                !.orders[b.order_id] =
                  [o EXCEPT !.price = b.price, !.quantity = b.quantity,
                            !.remaining = b.quantity - (o.quantity - o.remaining)],
                !.inFlight = IF keeps THEN @ ELSE b.order_id]

FoldRejected(s, b) ==
  IF b.reason \in TerminalReasons
  THEN [s EXCEPT !.orders[b.order_id].state = "rejected", !.inFlight = Null]
  ELSE s

Applied(s, b) ==
  CASE b.type = "accepted"  -> FoldAccepted(s, b)
    [] b.type = "resting"   -> FoldResting(s, b)
    [] b.type = "cancelled" -> FoldCancelled(s, b)
    [] b.type = "amended"   -> FoldAmended(s, b)
    [] b.type = "rejected"  -> FoldRejected(s, b)
    [] OTHER                -> FoldFill(s, b)

FoldEvent(s, e) ==
  IF s = Refused THEN Refused
  ELSE IF ~Admits(s, e) THEN Refused
  ELSE [Applied(s, e.body) EXCEPT
          !.expectedSeq = e.seq + 1,
          !.lastAt = e.at,
          !.opAt = IF s.inFlight = Null /\ s.pendingMaker = {} THEN e.at ELSE @]

-----------------------------------------------------------------------------
(* Snapshots.                                                              *)

(* The entries of a sequence that belong to a set, in their order.         *)
Among(s, set) ==
  LET among[n \in 0 .. Len(s)] ==
        IF n = 0 THEN << >>
        ELSE IF s[n] \in set THEN Append(among[n - 1], s[n])
        ELSE among[n - 1]
  IN  among[Len(s)]

RestingIn(trackedIds, os) ==
  Among(trackedIds, {id \in Range(trackedIds) : os[id].state = "resting"})

CanonicalEngineSnapshot(os, trackedIds, seq, fill, at) ==
  [orders |-> os, tracked |-> trackedIds, resting |-> RestingIn(trackedIds, os),
   next_seq |-> seq, next_fill |-> fill, last_at |-> IF at < 0 THEN Null ELSE at]

OrderParses(o) ==
  /\ o.order_type = "market" => /\ o.price = Null
                                /\ o.state \notin {"resting", "cancelled"}
  /\ o.order_type = "limit" => o.price \in Prices
  /\ o.remaining <= o.quantity
  /\ (o.state \in {"filled", "cancelled"}) <=> (o.remaining = 0)

Uncrossed(n) ==
  \A id, other \in Range(n.resting) :
    /\ n.orders[id].instrument = n.orders[other].instrument
    /\ n.orders[id].side = "buy" /\ n.orders[other].side = "sell"
    => n.orders[id].price < n.orders[other].price

(* The fewest events an order in a state can have taken.                   *)
MinEvents(state) == IF state = "cancelled" THEN 3 ELSE 2

CountersFit(n) ==
  LET ids     == Range(n.tracked)
      minimum == MapThenSumSet(LAMBDA id : MinEvents(n.orders[id].state), ids)
      touched == {id \in ids : /\ n.orders[id].state # "cancelled"
                               /\ n.orders[id].remaining < n.orders[id].quantity}
  IN  /\ n.next_seq \in 1 .. MaxSafe
      /\ n.next_fill \in 1 .. MaxSafe
      /\ (n.last_at = Null) <=> (n.next_seq = 1)
      /\ n.next_seq = 1 => n.next_fill = 1
      /\ n.next_seq >= 1 + minimum
      /\ 2 * (n.next_fill - 1) >= Cardinality(touched)

ParseEngineSnapshot(n) ==
  /\ \A j, k \in DOMAIN n.tracked : n.tracked[j] = n.tracked[k] => j = k
  /\ \A id \in Range(n.tracked) : OrderParses(n.orders[id])
  /\ n.resting = RestingIn(n.tracked, n.orders)
  /\ Uncrossed(n)
  /\ CountersFit(n)

(* The books rebuilt from a snapshot: its resting orders queue again in    *)
(* the order it lists them.                                                *)
HydrateBooks(n) ==
  LET hydrated[k \in 0 .. Len(n.resting)] ==
        IF k = 0 THEN [i \in Instruments |-> EmptyBook]
        ELSE LET id == n.resting[k]
                 o  == n.orders[id]
             IN  [hydrated[k - 1] EXCEPT ![o.instrument] =
                    AddResting(@, id, o.side, o.price)]
  IN  hydrated[Len(n.resting)]

HydrateEngineState(n) ==
  [orders |-> n.orders, tracked |-> n.tracked, books |-> HydrateBooks(n),
   nextSeq |-> n.next_seq, nextFill |-> n.next_fill,
   lastAt |-> IF n.last_at = Null THEN -1 ELSE n.last_at]

-----------------------------------------------------------------------------
(* The fold of a whole stream onto a start state, and its result.          *)

Folded(start, events) ==
  LET fold[n \in 0 .. Len(events)] ==
        IF n = 0 THEN start ELSE FoldEvent(fold[n - 1], events[n])
  IN  fold[Len(events)]

OnBoundary(s) == s.inFlight = Null /\ s.pendingMaker = {}

(* The snapshot replay writes of what it folded, its resting list taken    *)
(* from inBook.                                                            *)
FoldSnapshot(s) ==
  [CanonicalEngineSnapshot(s.orders, s.tracked, s.expectedSeq,
                           s.lastFill + 1, s.lastAt)
     EXCEPT !.resting = Among(s.tracked, {id \in Range(s.tracked) : InBook(s, id)})]

(* Mutant of Rebuilt: the checks at the end of the stream are missing.     *)
RebuiltAnywhere(s) ==
  IF s = Refused THEN Refused ELSE HydrateEngineState(FoldSnapshot(s))

Rebuilt(s) ==
  IF s = Refused THEN Refused
  ELSE IF ~OnBoundary(s) \/ ~ParseEngineSnapshot(FoldSnapshot(s)) THEN Refused
  ELSE HydrateEngineState(FoldSnapshot(s))

ReplayMatchingEngine(events) == Rebuilt(Folded(FoldStart, events))

(* Mutant of FoldFrom: the last fill id is taken for the next one.         *)
FoldFromNextFill(n) ==
  LET h == HydrateEngineState(n)
  IN  [FoldStart EXCEPT
         !.orders = h.orders, !.tracked = h.tracked, !.books = h.books,
         !.expectedSeq = n.next_seq, !.lastFill = n.next_fill,
         !.lastAt = h.lastAt]

(* replayMatchingEngine with a base: the snapshot seeds the fold.          *)
FoldFrom(n) ==
  LET h == HydrateEngineState(n)
  IN  [FoldStart EXCEPT
         !.orders = h.orders, !.tracked = h.tracked, !.books = h.books,
         !.expectedSeq = n.next_seq, !.lastFill = n.next_fill - 1,
         !.lastAt = h.lastAt]

ReplayFromSnapshot(n, events) ==
  IF ParseEngineSnapshot(n) THEN Rebuilt(Folded(FoldFrom(n), events))
  ELSE Refused

RestoreMatchingEngine(n) ==
  IF ParseEngineSnapshot(n) THEN HydrateEngineState(n) ELSE Refused
=============================================================================
