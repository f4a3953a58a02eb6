------------------------- MODULE PriceTimePriority --------------------------
(***************************************************************************)
(* What the matching engine promises the owners of resting orders: one     *)
(* line of open orders in time priority, from which an execution takes the *)
(* first order of the best price on its side, and which an order enters at *)
(* the end, never at a price that meets the other side.                    *)
(*                                                                         *)
(* The line is kept as its orders and the pairs that say who is ahead of   *)
(* whom; Enter and Gone keep those pairs a strict total order.             *)
(***************************************************************************)
EXTENDS Integers

VARIABLES
  open,   \* the open orders, by id
  ahead,  \* the pairs of open orders of which the first is ahead in the line
  fills   \* the number the next execution takes

Better(side, p, q) == IF side = "buy" THEN p > q ELSE p < q

SameSide(x, y) == x.instrument = y.instrument /\ x.side = y.side

Meet(x, y) ==
  /\ x.instrument = y.instrument
  /\ x.side # y.side
  /\ IF x.side = "buy" THEN x.price >= y.price ELSE x.price <= y.price

Init == DOMAIN open = {} /\ ahead = {} /\ fills = 1

(* An order enters behind everyone and crosses nobody.                     *)
Enter ==
  /\ \E id \in DOMAIN open' \ DOMAIN open :
       /\ DOMAIN open' = DOMAIN open \cup {id}
       /\ \A x \in DOMAIN open : open'[x] = open[x] /\ ~Meet(open'[id], open[x])
       /\ ahead' = ahead \cup {<<x, id>> : x \in DOMAIN open}
  /\ fills' = fills

(* An order is gone from the line, the others stay as they stand.          *)
Gone(id) ==
  /\ open' = [x \in DOMAIN open \ {id} |-> open[x]]
  /\ ahead' = {pair \in ahead : pair[1] # id /\ pair[2] # id}

(* An order shrinks and keeps its place.                                   *)
Shrinks(id) ==
  /\ \E units \in 1 .. open[id].remaining - 1 :
       open' = [open EXCEPT ![id].remaining = units]
  /\ ahead' = ahead

(* An order leaves: cancelled, or taken out to be queued anew.             *)
Leave ==
  /\ \E id \in DOMAIN open : Gone(id)
  /\ fills' = fills

Shrink ==
  /\ \E id \in DOMAIN open : Shrinks(id)
  /\ fills' = fills

FirstInLine(id) ==
  \A x \in DOMAIN open \ {id} :
    SameSide(open[x], open[id]) =>
      /\ ~Better(open[x].side, open[x].price, open[id].price)
      /\ open[x].price = open[id].price => <<id, x>> \in ahead

(* An execution consumes the order that is first in line on its side.      *)
Trade ==
  /\ \E id \in DOMAIN open : FirstInLine(id) /\ (Gone(id) \/ Shrinks(id))
  /\ fills' = fills + 1

Next == Enter \/ Leave \/ Shrink \/ Trade

Spec == Init /\ [][Next]_<<open, ahead, fills>>
=============================================================================
