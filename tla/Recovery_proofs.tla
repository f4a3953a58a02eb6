------------------------- MODULE Recovery_proofs -------------------------
(***************************************************************************)
(* Replaying the journal gives the live engine, for every set of orders,   *)
(* instruments, prices and inputs.                                         *)
(*                                                                         *)
(* The fold of replay.mjs runs beside the engine: after every step of every *)
(* operation, everything emitted so far folds into a mirror of the engine  *)
(* (MirrorInv), so no event the engine writes is one the fold refuses.     *)
(* Between operations the mirror's snapshot is the engine's own; TallyInv  *)
(* counts the events an engine of that shape must have written, which is   *)
(* what the snapshot's parser asks of it; and hydrating the resting ids in *)
(* the order of the tracked map queues every level as the engine has it.   *)
(*                                                                         *)
(* From the mirror follow the other promises about recovery.  A batch cut  *)
(* short is refused (TornInv).  The snapshot of every boundary inside the  *)
(* journal, continued by its tail, is the engine (HistInv: a cut of the    *)
(* journal is inside an operation or can be resumed).  And an engine whose *)
(* store throws leaves a journal that replays (ServedInv).                 *)
(***************************************************************************)
EXTENDS MatchingEngine_proofs, AttachedEngine

-----------------------------------------------------------------------------
(* The recursions of MatchingReplay, and what they come to on a sequence   *)
(* with one entry more.                                                    *)

IsFold(f, start, E) ==
  f = [n \in 0 .. Len(E) |-> IF n = 0 THEN start ELSE FoldEvent(f[n - 1], E[n])]

LEMMA FoldExists ==
  ASSUME NEW start, NEW E, Len(E) \in Nat
  PROVE  \E f : IsFold(f, start, E)
  <1> DEFINE Rec(f, n) == IF n = 0 THEN start ELSE FoldEvent(f[n - 1], E[n])
             To(N) == \E f : \A n \in 0 .. N : f[n] = Rec(f, n)
             Missed == {N \in Nat : ~To(N)}
  <1>1. To(0)
    <2> DEFINE f == [n \in 0 .. 0 |-> start]
    <2>1. \A n \in 0 .. 0 : f[n] = Rec(f, n)
      OBVIOUS
    <2>2. QED
      BY <2>1
  <1>2. ASSUME NEW N \in Nat, To(N) PROVE To(N + 1)
    <2>1. PICK f : \A n \in 0 .. N : f[n] = Rec(f, n)
      BY <1>2
    <2> DEFINE last == FoldEvent(f[N], E[N + 1])
               g == [n \in 0 .. N + 1 |-> IF n = N + 1 THEN last ELSE f[n]]
    <2> HIDE DEF last
    <2>2. \A n \in 0 .. N : g[n] = f[n]
      OBVIOUS
    <2>3. g[N + 1] = last
      OBVIOUS
    <2> HIDE DEF g
    <2>4. Rec(g, N + 1) = last
      <3>1. N + 1 # 0 /\ (N + 1) - 1 = N /\ g[N] = f[N]
        BY <2>2
      <3>2. QED
        BY <3>1 DEF last
    <2>5. \A n \in 0 .. N : Rec(g, n) = Rec(f, n)
      <3> SUFFICES ASSUME NEW n \in 0 .. N PROVE Rec(g, n) = Rec(f, n)
        OBVIOUS
      <3>1. n # 0 => g[n - 1] = f[n - 1]
        BY <2>2
      <3>2. QED
        BY <3>1
    <2> HIDE DEF Rec
    <2>6. \A n \in 0 .. N + 1 : g[n] = Rec(g, n)
      <3> SUFFICES ASSUME NEW n \in 0 .. N + 1 PROVE g[n] = Rec(g, n)
        OBVIOUS
      <3>1. n = N + 1 \/ n \in 0 .. N
        OBVIOUS
      <3>2. QED
        BY <2>1, <2>2, <2>3, <2>4, <2>5, <3>1
    <2>7. QED
      BY <2>6
  <1> HIDE DEF To
  <1>3. Missed = {}
    <2> SUFFICES ASSUME Missed # {} PROVE FALSE
      OBVIOUS
    <2>1. PICK m \in Missed : \A n \in Missed : ~(n < m)
      BY LeastNatural
    <2>2. m \in Nat /\ m # 0
      BY <1>1
    <2>3. m - 1 \in Nat /\ m - 1 < m /\ (m - 1) + 1 = m
      BY <2>2
    <2>4. To(m - 1)
      BY <2>1, <2>3
    <2>5. To(m)
      BY <1>2, <2>3, <2>4
    <2>6. QED
      BY <2>5
  <1>4. PICK f : \A n \in 0 .. Len(E) : f[n] = Rec(f, n)
    BY <1>3 DEF To
  <1> DEFINE g == [n \in 0 .. Len(E) |-> f[n]]
  <1>5. \A n \in 0 .. Len(E) : f[n] = Rec(g, n)
    <2> SUFFICES ASSUME NEW n \in 0 .. Len(E) PROVE f[n] = Rec(g, n)
      OBVIOUS
    <2>1. n # 0 => g[n - 1] = f[n - 1]
      OBVIOUS
    <2>2. Rec(g, n) = Rec(f, n)
      BY <2>1
    <2>3. QED
      BY <1>4, <2>2
  <1> HIDE DEF g
  <1>6. g = [n \in 0 .. Len(E) |-> Rec(g, n)]
    BY <1>5 DEF g
  <1>7. IsFold(g, start, E)
    BY <1>6 DEF IsFold
  <1>8. QED
    BY <1>7

LEMMA FoldedIs ==
  ASSUME NEW start, NEW E, Len(E) \in Nat
  PROVE  \E f : IsFold(f, start, E) /\ Folded(start, E) = f[Len(E)]
  <1> DEFINE f == CHOOSE g : IsFold(g, start, E)
  <1>1. IsFold(f, start, E)
    BY FoldExists
  <1>2. Folded(start, E) = f[Len(E)]
    BY DEF Folded, IsFold
  <1>3. QED
    BY <1>1, <1>2

LEMMA FoldedNone ==
  ASSUME NEW start
  PROVE  Folded(start, << >>) = start
  <1>1. Len(<< >>) = 0 /\ Len(<< >>) \in Nat
    OBVIOUS
  <1>2. PICK f : IsFold(f, start, << >>) /\ Folded(start, << >>) = f[0]
    BY <1>1, FoldedIs
  <1>3. QED
    BY <1>1, <1>2 DEF IsFold

LEMMA FoldedMore ==
  ASSUME NEW start, NEW E, NEW F, NEW e, OneMore(E, F, e)
  PROVE  Folded(start, F) = FoldEvent(Folded(start, E), e)
  <1> DEFINE n == Len(E)
  <1>1. n \in Nat /\ Len(F) = n + 1 /\ F[n + 1] = e /\ \A k \in 1 .. n : F[k] = E[k]
    BY SeqFacts DEF OneMore, Extends
  <1> HIDE DEF n
  <1>2. PICK f : IsFold(f, start, E) /\ Folded(start, E) = f[n]
    BY <1>1, FoldedIs DEF n
  <1>3. PICK g : IsFold(g, start, F) /\ Folded(start, F) = g[n + 1]
    BY <1>1, FoldedIs
  <1>4. \A k \in 0 .. n : f[k] = IF k = 0 THEN start ELSE FoldEvent(f[k - 1], E[k])
    BY <1>1, <1>2 DEF IsFold, n
  <1>5. \A k \in 0 .. n + 1 : g[k] = IF k = 0 THEN start ELSE FoldEvent(g[k - 1], F[k])
    BY <1>1, <1>3 DEF IsFold
  <1> DEFINE Differ == {k \in Nat : k <= n /\ f[k] # g[k]}
  <1>6. Differ = {}
    <2> SUFFICES ASSUME Differ # {} PROVE FALSE
      OBVIOUS
    <2>1. PICK m \in Differ : \A k \in Differ : ~(k < m)
      BY LeastNatural
    <2>2. m \in 0 .. n /\ m \in 0 .. n + 1 /\ f[m] # g[m]
      BY <1>1
    <2>3. m # 0
      BY <1>4, <1>5, <2>2
    <2>4. m \in 1 .. n /\ m - 1 \in Nat /\ m - 1 <= n /\ m - 1 < m
      BY <1>1, <2>2, <2>3
    <2>5. f[m - 1] = g[m - 1]
      BY <2>1, <2>4
    <2>6. f[m] = FoldEvent(f[m - 1], E[m]) /\ g[m] = FoldEvent(g[m - 1], F[m])
      BY <1>4, <1>5, <2>2, <2>3
    <2>7. QED
      BY <1>1, <2>2, <2>4, <2>5, <2>6
  <1>7. f[n] = g[n]
    BY <1>1, <1>6
  <1>8. g[n + 1] = FoldEvent(g[n], F[n + 1])
    <2>1. n + 1 \in 0 .. n + 1 /\ n + 1 # 0 /\ (n + 1) - 1 = n
      BY <1>1
    <2>2. QED
      BY <1>5, <2>1
  <1>9. QED
    BY <1>1, <1>2, <1>3, <1>7, <1>8

-----------------------------------------------------------------------------
(* What each kind of event makes of a state of the fold.                   *)

State(o, t, b, q, f, l, a, i, p) ==
  [orders |-> o, tracked |-> t, books |-> b, expectedSeq |-> q, lastFill |-> f,
   lastAt |-> l, opAt |-> a, inFlight |-> i, pendingMaker |-> p]

LEMMA StateIs ==
  ASSUME NEW o, NEW t, NEW b, NEW q, NEW f, NEW l, NEW a, NEW i, NEW p,
         NEW s, s = State(o, t, b, q, f, l, a, i, p)
  PROVE  /\ s.orders = o /\ s.tracked = t /\ s.books = b /\ s.expectedSeq = q
         /\ s.lastFill = f /\ s.lastAt = l /\ s.opAt = a /\ s.inFlight = i
         /\ s.pendingMaker = p /\ s # Refused
  BY DEF State, Refused

(* The envelope of an admitted event and what its body does to the state.  *)
LEMMA FoldsTo ==
  ASSUME NEW s, NEW e, s # Refused, Admits(s, e),
         NEW o, NEW t, NEW b, NEW q, NEW f, NEW l, NEW a, NEW i, NEW p,
         Applied(s, e.body) = State(o, t, b, q, f, l, a, i, p)
  PROVE  FoldEvent(s, e) =
           State(o, t, b, e.seq + 1, f, e.at,
                 IF s.inFlight = Null /\ s.pendingMaker = {} THEN e.at ELSE a, i, p)
  <1> DEFINE z == IF s.inFlight = Null /\ s.pendingMaker = {} THEN e.at ELSE a
             r == Applied(s, e.body)
  <1> HIDE DEF r
  <1>1. r = State(o, t, b, q, f, l, a, i, p)
    BY DEF r
  <1>2. FoldEvent(s, e) =
          [r EXCEPT !.expectedSeq = e.seq + 1, !.lastAt = e.at,
                    !.opAt = IF s.inFlight = Null /\ s.pendingMaker = {} THEN e.at ELSE @]
    BY DEF FoldEvent, r
  <1>3. r.opAt = a
    BY <1>1, StateIs
  <1>4. FoldEvent(s, e) = [r EXCEPT !.expectedSeq = e.seq + 1, !.lastAt = e.at, !.opAt = z]
    BY <1>2, <1>3
  <1> HIDE DEF z
  <1>5. QED
    BY <1>1, <1>4 DEF State, z

LEMMA FoldsAccepted ==
  ASSUME NEW o, NEW t, NEW b, NEW q, NEW f, NEW l, NEW a, NEW p, NEW s,
         s = State(o, t, b, q, f, l, a, Null, {}), NEW e, Admits(s, e),
         e.body.type = "accepted"
  PROVE  FoldEvent(s, e) =
           State(Put(o, e.body.order_id,
                   [instrument |-> e.body.instrument, side |-> e.body.side,
                    order_type |-> e.body.order_type, owner |-> e.body.owner,
                    price |-> e.body.price, quantity |-> e.body.quantity,
                    remaining |-> e.body.quantity, state |-> "resting"]),
                 Append(t, e.body.order_id), b, e.seq + 1, f, e.at, e.at,
                 e.body.order_id, {})
  <1> DEFINE new == [instrument |-> e.body.instrument, side |-> e.body.side,
                     order_type |-> e.body.order_type, owner |-> e.body.owner,
                     price |-> e.body.price, quantity |-> e.body.quantity,
                     remaining |-> e.body.quantity, state |-> "resting"]
             os == Put(o, e.body.order_id, new)
             ts == Append(t, e.body.order_id)
  <1>0. s # Refused /\ s.orders = o /\ s.tracked = t /\ s.books = b /\ s.pendingMaker = {}
    BY DEF State, Refused
  <1>1. Applied(s, e.body) = FoldAccepted(s, e.body)
    BY DEF Applied
  <1>2. FoldAccepted(s, e.body) =
          [s EXCEPT !.orders = Put(@, e.body.order_id, new),
                    !.tracked = Append(@, e.body.order_id), !.inFlight = e.body.order_id]
    BY DEF FoldAccepted
  <1> HIDE DEF new
  <1>3. FoldAccepted(s, e.body) =
          [s EXCEPT !.orders = os, !.tracked = ts, !.inFlight = e.body.order_id]
    BY <1>0, <1>2
  <1> HIDE DEF os, ts
  <1>4. FoldAccepted(s, e.body) = State(os, ts, b, q, f, l, a, e.body.order_id, {})
    BY <1>3 DEF State
  <1>5. s # Refused /\ s.inFlight = Null /\ s.pendingMaker = {}
    BY <1>0 DEF State
  <1>6. FoldEvent(s, e) = State(os, ts, b, e.seq + 1, f, e.at, e.at, e.body.order_id, {})
    BY <1>1, <1>4, <1>5, FoldsTo
  <1>7. QED
    BY <1>6 DEF os, ts, new

LEMMA FoldsResting ==
  ASSUME NEW o, NEW t, NEW b, NEW q, NEW f, NEW l, NEW a, NEW i, NEW s,
         s = State(o, t, b, q, f, l, a, i, {}), i # Null, NEW e, Admits(s, e),
         e.body.type = "resting"
  PROVE  FoldEvent(s, e) =
           State(o, t,
                 [b EXCEPT ![e.body.instrument] =
                    AddResting(@, e.body.order_id, e.body.side, o[e.body.order_id].price)],
                 e.seq + 1, f, e.at, a, Null, {})
  <1> DEFINE bs == [b EXCEPT ![e.body.instrument] =
                    AddResting(@, e.body.order_id, e.body.side, o[e.body.order_id].price)]
  <1>0. s # Refused /\ s.orders = o /\ s.tracked = t /\ s.books = b /\ s.pendingMaker = {}
    BY DEF State, Refused
  <1>1. Applied(s, e.body) = FoldResting(s, e.body)
    BY DEF Applied
  <1>2. FoldResting(s, e.body) =
          [s EXCEPT !.books[e.body.instrument] =
                      AddResting(@, e.body.order_id, e.body.side,
                                 s.orders[e.body.order_id].price),
                    !.inFlight = Null]
    BY DEF FoldResting
  <1>3. FoldResting(s, e.body) = [s EXCEPT !.books = bs, !.inFlight = Null]
    <2> DEFINE it == AddResting(b[e.body.instrument], e.body.order_id, e.body.side,
                                o[e.body.order_id].price)
    <2>1. bs = [b EXCEPT ![e.body.instrument] = it]
      OBVIOUS
    <2>2. FoldResting(s, e.body) =
            [s EXCEPT !.books[e.body.instrument] = it, !.inFlight = Null]
      BY <1>0, <1>2
    <2> HIDE DEF it, bs
    <2>3. QED
      BY <2>1, <2>2 DEF State
  <1> HIDE DEF bs
  <1>4. FoldResting(s, e.body) = State(o, t, bs, q, f, l, a, Null, {})
    BY <1>3 DEF State
  <1>5. s # Refused /\ s.inFlight # Null
    BY <1>0 DEF State
  <1>6. FoldEvent(s, e) = State(o, t, bs, e.seq + 1, f, e.at, a, Null, {})
    BY <1>1, <1>4, <1>5, FoldsTo
  <1>7. QED
    BY <1>6 DEF bs

LEMMA FoldsCancelled ==
  ASSUME NEW o, NEW t, NEW b, NEW q, NEW f, NEW l, NEW a, NEW s,
         s = State(o, t, b, q, f, l, a, Null, {}), NEW e, Admits(s, e),
         e.body.type = "cancelled"
  PROVE  FoldEvent(s, e) =
           State([o EXCEPT ![e.body.order_id].state = "cancelled",
                           ![e.body.order_id].remaining = 0], t,
                 Dequeue(b, e.body.order_id, o[e.body.order_id]),
                 e.seq + 1, f, e.at, e.at, Null, {})
  <1> DEFINE id == e.body.order_id
             bs == Dequeue(b, id, o[id])
             os == [o EXCEPT ![id].state = "cancelled", ![id].remaining = 0]
  <1>0. s # Refused /\ s.orders = o /\ s.tracked = t /\ s.books = b /\ s.pendingMaker = {}
    BY DEF State, Refused
  <1>1. Applied(s, e.body) = FoldCancelled(s, e.body)
    BY DEF Applied
  <1>2. FoldCancelled(s, e.body) =
          [s EXCEPT !.books = bs, !.orders[id].state = "cancelled", !.orders[id].remaining = 0]
    BY <1>0 DEF FoldCancelled
  <1> HIDE DEF id
  <1>3. FoldCancelled(s, e.body) = [s EXCEPT !.books = bs, !.orders = os]
    <2> HIDE DEF bs
    <2>1. s = State(o, t, b, q, f, l, a, Null, {})
      OBVIOUS
    <2>2. os = [s.orders EXCEPT ![id].state = "cancelled", ![id].remaining = 0]
      BY <1>0
    <2> HIDE DEF os
    <2>3. DOMAIN s = {"orders", "tracked", "books", "expectedSeq", "lastFill", "lastAt",
                      "opAt", "inFlight", "pendingMaker"}
      BY ONLY <2>1 DEF State
    <2>4. s = [x \in DOMAIN s |-> s[x]]
      BY ONLY <2>1 DEF State
    <2>5. QED
      BY ONLY <1>2, <2>2, <2>3, <2>4
  <1> HIDE DEF bs, os
  <1>4. FoldCancelled(s, e.body) = State(os, t, bs, q, f, l, a, Null, {})
    BY <1>3 DEF State
  <1>5. s # Refused /\ s.inFlight = Null /\ s.pendingMaker = {}
    BY <1>0 DEF State
  <1>6. FoldEvent(s, e) = State(os, t, bs, e.seq + 1, f, e.at, e.at, Null, {})
    BY <1>1, <1>4, <1>5, FoldsTo
  <1>7. QED
    BY <1>6 DEF os, bs, id

(* The entry of an order after its amendment, and after a leg of a fill.   *)
AmendedEntry(o, price, total) ==
  [o EXCEPT !.price = price, !.quantity = total,
            !.remaining = total - (o.quantity - o.remaining)]

FilledEntry(o, remaining) ==
  [o EXCEPT !.remaining = remaining, !.state = IF remaining = 0 THEN "filled" ELSE @]

LEMMA FoldsAmendedInPlace ==
  ASSUME NEW o, NEW t, NEW b, NEW q, NEW f, NEW l, NEW a, NEW s,
         s = State(o, t, b, q, f, l, a, Null, {}), NEW e, Admits(s, e),
         e.body.type = "amended", NEW id, id = e.body.order_id,
         e.body.price = o[id].price, e.body.quantity < o[id].quantity,
         NEW new, new = AmendedEntry(o[id], e.body.price, e.body.quantity)
  PROVE  FoldEvent(s, e) =
           State([o EXCEPT ![id] = new], t, b, e.seq + 1, f, e.at, e.at, Null, {})
  <1> DEFINE os == [o EXCEPT ![id] = new]
  <1>0. s # Refused /\ s.orders = o /\ s.tracked = t /\ s.books = b /\ s.pendingMaker = {}
          /\ s.inFlight = Null
    BY DEF State, Refused
  <1>1. Applied(s, e.body) = FoldAmended(s, e.body)
    BY DEF Applied
  <1>2. FoldAmended(s, e.body) =
          [s EXCEPT !.books = b, !.tracked = t, !.orders[id] = new, !.inFlight = Null]
    BY <1>0 DEF FoldAmended, AmendedEntry
  <1>3. FoldAmended(s, e.body) =
          [s EXCEPT !.books = b, !.tracked = t, !.orders = os, !.inFlight = Null]
    BY <1>0, <1>2 DEF State
  <1> HIDE DEF os
  <1>4. FoldAmended(s, e.body) = State(os, t, b, q, f, l, a, Null, {})
    BY <1>3 DEF State
  <1>6. FoldEvent(s, e) = State(os, t, b, e.seq + 1, f, e.at, e.at, Null, {})
    BY <1>0, <1>1, <1>4, FoldsTo
  <1>7. QED
    BY <1>6 DEF os

LEMMA FoldsRequeued ==
  ASSUME NEW o, NEW t, NEW b, NEW q, NEW f, NEW l, NEW a, NEW s,
         s = State(o, t, b, q, f, l, a, Null, {}), NEW e, Admits(s, e),
         e.body.type = "amended", NEW id, id = e.body.order_id,
         ~(e.body.price = o[id].price /\ e.body.quantity < o[id].quantity),
         NEW new, new = AmendedEntry(o[id], e.body.price, e.body.quantity)
  PROVE  FoldEvent(s, e) =
           State([o EXCEPT ![id] = new],
                 Append(Without(t, id), id), Dequeue(b, id, o[id]),
                 e.seq + 1, f, e.at, e.at, id, {})
  <1> DEFINE os == [o EXCEPT ![id] = new]
             ts == Append(Without(t, id), id)
             bs == Dequeue(b, id, o[id])
  <1>0. s # Refused /\ s.orders = o /\ s.tracked = t /\ s.books = b /\ s.pendingMaker = {}
          /\ s.inFlight = Null
    BY DEF State, Refused
  <1>1. Applied(s, e.body) = FoldAmended(s, e.body)
    BY DEF Applied
  <1>2. FoldAmended(s, e.body) =
          [s EXCEPT !.books = bs, !.tracked = ts, !.orders[id] = new, !.inFlight = id]
    BY <1>0 DEF FoldAmended, AmendedEntry
  <1> HIDE DEF ts, bs
  <1>3. FoldAmended(s, e.body) =
          [s EXCEPT !.books = bs, !.tracked = ts, !.orders = os, !.inFlight = id]
    BY <1>0, <1>2 DEF State
  <1> HIDE DEF os
  <1>4. FoldAmended(s, e.body) = State(os, ts, bs, q, f, l, a, id, {})
    BY <1>3 DEF State
  <1>6. FoldEvent(s, e) = State(os, ts, bs, e.seq + 1, f, e.at, e.at, id, {})
    BY <1>0, <1>1, <1>4, FoldsTo
  <1>7. QED
    BY <1>6 DEF os, ts, bs

LEMMA FoldsRefusal ==
  ASSUME NEW o, NEW t, NEW b, NEW q, NEW f, NEW l, NEW a, NEW s,
         s = State(o, t, b, q, f, l, a, Null, {}), NEW e, Admits(s, e),
         e.body.type = "rejected", e.body.reason \notin TerminalReasons
  PROVE  FoldEvent(s, e) = State(o, t, b, e.seq + 1, f, e.at, e.at, Null, {})
  <1>0. s # Refused /\ s.pendingMaker = {} /\ s.inFlight = Null
    BY DEF State, Refused
  <1>1. Applied(s, e.body) = State(o, t, b, q, f, l, a, Null, {})
    BY DEF Applied, FoldRejected
  <1>2. QED
    BY <1>0, <1>1, FoldsTo

LEMMA FoldsTerminal ==
  ASSUME NEW o, NEW t, NEW b, NEW q, NEW f, NEW l, NEW a, NEW i, NEW s,
         s = State(o, t, b, q, f, l, a, i, {}), i # Null, NEW e, Admits(s, e),
         e.body.type = "rejected", e.body.reason \in TerminalReasons
  PROVE  FoldEvent(s, e) =
           State([o EXCEPT ![e.body.order_id].state = "rejected"], t, b,
                 e.seq + 1, f, e.at, a, Null, {})
  <1> DEFINE os == [o EXCEPT ![e.body.order_id].state = "rejected"]
  <1>0. s # Refused /\ s.orders = o /\ s.inFlight # Null
    BY DEF State, Refused
  <1>1. Applied(s, e.body) = FoldRejected(s, e.body)
    BY DEF Applied
  <1>2. FoldRejected(s, e.body) =
          [s EXCEPT !.orders[e.body.order_id].state = "rejected", !.inFlight = Null]
    BY DEF FoldRejected
  <1>3. FoldRejected(s, e.body) = [s EXCEPT !.orders = os, !.inFlight = Null]
    BY <1>0, <1>2 DEF State
  <1> HIDE DEF os
  <1>4. FoldRejected(s, e.body) = State(os, t, b, q, f, l, a, Null, {})
    BY <1>3 DEF State
  <1>6. FoldEvent(s, e) = State(os, t, b, e.seq + 1, f, e.at, a, Null, {})
    BY <1>0, <1>1, <1>4, FoldsTo
  <1>7. QED
    BY <1>6 DEF os

FillStep(o, t, b, q, f, l, a, i, p, s, e, id, new, os, bs, is, ps) ==
  /\ s = State(o, t, b, q, f, l, a, i, p) /\ i # Null
  /\ Admits(s, e) /\ IsFill(e) /\ id = e.body.order_id
  /\ new = FilledEntry(o[id], e.body.remaining)
  /\ os = [o EXCEPT ![id] = new]
  /\ bs = IF e.body.remaining = 0 /\ InBook(s, id) THEN Dequeue(b, id, o[id]) ELSE b
  /\ is = IF e.body.remaining = 0 /\ id = e.body.taker_order_id THEN Null ELSE i
  /\ ps = IF p = {} THEN {Pair(e.body)} ELSE {}

LEMMA FoldsFill ==
  ASSUME NEW o, NEW t, NEW b, NEW q, NEW f, NEW l, NEW a, NEW i, NEW p, NEW s, NEW e,
         NEW id, NEW new, NEW os, NEW bs, NEW is, NEW ps,
         FillStep(o, t, b, q, f, l, a, i, p, s, e, id, new, os, bs, is, ps)
  PROVE  FoldEvent(s, e) = State(os, t, bs, e.seq + 1, e.body.fill_id, e.at, a, is, ps)
  <1>s. /\ s = State(o, t, b, q, f, l, a, i, p) /\ i # Null
        /\ Admits(s, e) /\ IsFill(e) /\ id = e.body.order_id
        /\ new = FilledEntry(o[id], e.body.remaining)
        /\ os = [o EXCEPT ![id] = new]
        /\ bs = IF e.body.remaining = 0 /\ InBook(s, id) THEN Dequeue(b, id, o[id]) ELSE b
        /\ is = IF e.body.remaining = 0 /\ id = e.body.taker_order_id THEN Null ELSE i
        /\ ps = IF p = {} THEN {Pair(e.body)} ELSE {}
    BY DEF FillStep
  <1>0. s # Refused /\ s.orders = o /\ s.tracked = t /\ s.books = b /\ s.pendingMaker = p
          /\ s.inFlight = i
    BY <1>s DEF State, Refused
  <1>1. Applied(s, e.body) = FoldFill(s, e.body)
    BY <1>s DEF Applied, IsFill
  <1> DEFINE done == (e.body.remaining = 0)
             leaves == (done /\ InBook(s, id))
             last == (done /\ id = e.body.taker_order_id)
  <1>2. FoldFill(s, e.body) =
          [s EXCEPT !.orders[id] = new, !.books = bs, !.inFlight = is,
                    !.lastFill = e.body.fill_id, !.pendingMaker = ps]
    <2>1. FoldFill(s, e.body) =
          [s EXCEPT !.orders[id] = new,
                    !.books = IF leaves THEN Dequeue(@, id, o[id]) ELSE @,
                    !.inFlight = IF last THEN Null ELSE @,
                    !.lastFill = e.body.fill_id,
                    !.pendingMaker = IF s.pendingMaker = {} THEN {Pair(e.body)} ELSE {}]
      BY <1>s, <1>0 DEF FoldFill, FilledEntry
    <2>2. /\ bs = IF leaves THEN Dequeue(b, id, o[id]) ELSE b
          /\ is = IF last THEN Null ELSE i
      BY <1>s
    <2> HIDE DEF leaves, last
    <2>3. (IF leaves THEN Dequeue(s.books, id, o[id]) ELSE s.books) = bs
          /\ (IF last THEN Null ELSE s.inFlight) = is
          /\ (IF s.pendingMaker = {} THEN {Pair(e.body)} ELSE {}) = ps
      BY <1>s, <1>0, <2>2
    <2>4. FoldFill(s, e.body) =
          [s EXCEPT !.orders[id] = new,
                    !.books = IF leaves THEN Dequeue(s.books, id, o[id]) ELSE s.books,
                    !.inFlight = IF last THEN Null ELSE s.inFlight,
                    !.lastFill = e.body.fill_id,
                    !.pendingMaker = IF s.pendingMaker = {} THEN {Pair(e.body)} ELSE {}]
      BY <1>s, <2>1 DEF State
    <2>5. QED
      BY <2>3, <2>4
  <1>3. FoldFill(s, e.body) =
          [s EXCEPT !.orders = os, !.books = bs, !.inFlight = is,
                    !.lastFill = e.body.fill_id, !.pendingMaker = ps]
    <2>1. os = [s.orders EXCEPT ![id] = new]
      BY ONLY <1>s, <1>0
    <2>2. DOMAIN s = {"orders", "tracked", "books", "expectedSeq", "lastFill", "lastAt",
                      "opAt", "inFlight", "pendingMaker"}
      BY ONLY <1>s DEF State
    <2>3. s = [x \in DOMAIN s |-> s[x]]
      BY ONLY <1>s DEF State
    <2>4. QED
      BY ONLY <1>2, <2>1, <2>2, <2>3
  <1>4. FoldFill(s, e.body) = State(os, t, bs, q, e.body.fill_id, l, a, is, ps)
    <2>1. s = State(o, t, b, q, f, l, a, i, p)
      BY ONLY <1>s
    <2>2. QED
      BY ONLY <1>3, <2>1 DEF State
  <1>7. QED
    BY <1>s, <1>0, <1>1, <1>4, FoldsTo

-----------------------------------------------------------------------------
(* The fold of everything emitted mirrors the engine.  An execution that   *)
(* exhausts the taker shows it as filled and no longer in flight, one step *)
(* before the engine marks it.                                             *)

Zeroed == op.phase = "match" /\ orders[op.taker].remaining = 0

Shown ==
  IF Zeroed THEN [orders EXCEPT ![op.taker].state = "filled"] ELSE orders

Taking == IF op.phase = "match" /\ ~Zeroed THEN op.taker ELSE Null

SeqNo == IF op.phase = "idle" THEN nextSeq ELSE op.seq

OpenedAt == IF lastAt = -1 THEN Null ELSE lastAt

Mirror ==
  State(Shown, tracked, books, SeqNo, FillId - 1, lastAt, OpenedAt, Taking, {})

MirrorInv ==
  /\ op.phase \in {"match", "finish"} => op.at = lastAt /\ lastAt # -1
  /\ op.phase # "wedged" => Folded(FoldStart, Emitted) = Mirror

LEMMA MirrorStep ==
  ASSUME MirrorInv, op.phase # "wedged", NEW e, OneMore(Emitted, Emitted', e),
         FoldEvent(Mirror, e) = Mirror',
         op'.phase \in {"match", "finish"} => op'.at = lastAt' /\ lastAt' # -1
  PROVE  MirrorInv'
  <1>1. Folded(FoldStart, Emitted') = FoldEvent(Folded(FoldStart, Emitted), e)
    BY FoldedMore
  <1>2. QED
    BY <1>1 DEF MirrorInv

(* Between operations.                                                     *)
LEMMA IdleMirror ==
  ASSUME op.phase = "idle"
  PROVE  Mirror = State(orders, tracked, books, nextSeq, nextFill - 1, lastAt, OpenedAt,
                        Null, {})
  BY DEF Mirror, Shown, Taking, Zeroed, SeqNo, FillId

LEMMA OpeningMirror ==
  ASSUME EngineInv, EventsInv, NEW now \in Times, BeginOperation(now),
         NEW phase \in {"match", "finish"}, NEW taker, NEW body,
         OpenWith(now, phase, taker, body), journal' = journal,
         phase = "match" => orders'[taker].remaining # 0
  PROVE  /\ op.phase = "idle" /\ op'.phase = phase /\ op'.at = now
         /\ lastAt' = now /\ now # -1
         /\ Mirror' = State(orders', tracked', books', nextSeq + 1, nextFill - 1, now, now,
                            IF phase = "match" THEN taker ELSE Null, {})
         /\ \E e : /\ OneMore(Emitted, Emitted', e)
                   /\ Marked(e, nextSeq, now, body) /\ EnvelopeFits(Mirror, e)
  <1>1. op.phase = "idle" /\ lastAt' = now /\ now >= lastAt
    BY DEF BeginOperation
  <1>2. now # -1
    BY EngineConstants
  <1>3. op'.phase = phase /\ op'.taker = taker /\ op'.seq = nextSeq + 1
          /\ op'.fill = nextFill /\ op'.at = now
    BY DEF OpenWith
  <1>4. ~Zeroed'
    BY <1>3 DEF Zeroed
  <1>5. Mirror' = State(orders', tracked', books', nextSeq + 1, nextFill - 1, now, now,
                        IF phase = "match" THEN taker ELSE Null, {})
    BY <1>1, <1>2, <1>3, <1>4 DEF Mirror, Shown, Taking, SeqNo, FillId, OpenedAt
  <1>6. PICK e : OneMore(Emitted, Emitted', e) /\ Marked(e, nextSeq, now, body)
    BY OpeningEmits
  <1>7. EnvelopeFits(Mirror, e)
    BY <1>1, <1>6, IdleMirror DEF EnvelopeFits, State, Marked
  <1>8. QED
    BY <1>1, <1>2, <1>3, <1>5, <1>6, <1>7

LEMMA RefusedMirror ==
  ASSUME EngineInv, EventsInv, MirrorInv, NEW now \in Times, BeginOperation(now),
         NEW id, NEW instrument, NEW side, NEW reason, reason \notin TerminalReasons,
         RejectWith(now, id, instrument, side, reason),
         Earned(Mirror, RejectedBody(id, instrument, side, reason))
  PROVE  MirrorInv'
  <1> DEFINE body == RejectedBody(id, instrument, side, reason)
  <1>1. /\ OpenWith(now, "finish", Null, body) /\ journal' = journal
        /\ UNCHANGED <<orders, tracked, books>>
    BY DEF RejectWith
  <1>2. body.type = "rejected" /\ body.reason = reason /\ body.quantity = Null
    BY DEF RejectedBody
  <1> HIDE DEF body
  <1>3. /\ op.phase = "idle" /\ op'.phase = "finish" /\ op'.at = now
        /\ lastAt' = now /\ now # -1
        /\ Mirror' = State(orders, tracked, books, nextSeq + 1, nextFill - 1, now, now,
                           Null, {})
        /\ \E e : /\ OneMore(Emitted, Emitted', e)
                  /\ Marked(e, nextSeq, now, body) /\ EnvelopeFits(Mirror, e)
    BY <1>1, OpeningMirror
  <1>4. PICK e : /\ OneMore(Emitted, Emitted', e)
                 /\ Marked(e, nextSeq, now, body) /\ EnvelopeFits(Mirror, e)
    BY <1>3
  <1>5. Mirror.inFlight = Null /\ Mirror.pendingMaker = {}
    BY <1>3, IdleMirror DEF State
  <1>6. Admits(Mirror, e)
    <2>1. ~IsFill(e) /\ e.body.type = "rejected"
      BY <1>2, <1>4 DEF IsFill, Marked
    <2>2. AdmitsRejected(Mirror, e.body)
      BY <1>2, <1>4 DEF AdmitsRejected, Marked, body
    <2>3. StaysInOperation(Mirror, e.body)
      BY <1>5 DEF StaysInOperation
    <2>4. QED
      BY <1>4, <1>5, <2>1, <2>2, <2>3 DEF Admits
  <1>7. FoldEvent(Mirror, e) =
          State(orders, tracked, books, e.seq + 1, nextFill - 1, e.at, e.at, Null, {})
    BY <1>2, <1>3, <1>4, <1>6, IdleMirror, FoldsRefusal DEF Marked
  <1>8. FoldEvent(Mirror, e) = Mirror'
    BY <1>3, <1>4, <1>7 DEF Marked
  <1>9. QED
    BY <1>3, <1>4, <1>8, MirrorStep

LEMMA IdleFinds ==
  ASSUME op.phase = "idle", NEW id
  PROVE  /\ Mirror.orders = orders
         /\ InBook(Mirror, id) <=>
              id \in DOMAIN orders /\ id \in books[orders[id].instrument].resting
  BY IdleMirror DEF State, InBook

LEMMA SubmitEarns ==
  ASSUME op.phase = "idle", EngineInv, NEW o \in Submissions, NEW k \in DOMAIN SubmitChecks(o),
         FirstFailure(SubmitChecks(o), k), NEW reason, reason = SubmitChecks(o)[k].reason
  PROVE  /\ reason \notin TerminalReasons
         /\ Earned(Mirror, RejectedBody(o.order_id, o.instrument, o.side, reason))
  <1> DEFINE b == RejectedBody(o.order_id, o.instrument, o.side, reason)
  <1>1. o \in SubmitInput
    BY EngineConstants
  <1>2. k \in 1 .. 13
    BY DEF SubmitChecks
  <1>3. /\ b.order_id = o.order_id /\ b.instrument = o.instrument /\ b.side = o.side
        /\ b.reason = reason
    BY DEF RejectedBody
  <1> HIDE DEF b
  <1>4. /\ k > 2 => ~SubmitChecks(o)[2].fails
        /\ k > 3 => ~SubmitChecks(o)[3].fails
        /\ k > 4 => ~SubmitChecks(o)[4].fails
        /\ k > 5 => ~SubmitChecks(o)[5].fails
        /\ SubmitChecks(o)[k].fails
    BY <1>2 DEF FirstFailure
  <1>5. /\ k > 2 => o.order_id \in OrderIds
        /\ k > 4 => o.instrument \in Instruments
        /\ k > 5 => o.side \in Sides
    BY <1>1, <1>2, <1>4 DEF SubmitChecks, SubmitInput
  <1>6. CASE k \in {1, 2, 3, 4}
    <2>1. CASE k = 1
      <3>1. reason = "invalid_order"
        BY <2>1 DEF SubmitChecks
      <3>2. QED
        BY <1>3, <3>1 DEF Earned, b, TerminalReasons
    <2>2. CASE k = 2
      <3>1. reason = "invalid_order_id" /\ o.order_id \in {Null, Malformed}
        <4>1. SubmitChecks(o)[2].fails /\ reason = SubmitChecks(o)[2].reason
          BY <1>4, <2>2
        <4>2. QED
          BY <4>1 DEF SubmitChecks
      <3>2. QED
        BY <1>3, <3>1, EventConstants DEF Earned, b, TerminalReasons
    <2>3. CASE k = 3
      <3>1. reason = "invalid_instrument" /\ o.instrument = Null
        <4>1. SubmitChecks(o)[3].fails /\ reason = SubmitChecks(o)[3].reason
          BY <1>4, <2>3
        <4>2. QED
          BY <4>1 DEF SubmitChecks
      <3>2. QED
        BY <1>3, <3>1 DEF Earned, b, TerminalReasons
    <2>4. CASE k = 4
      <3>1. reason = "unknown_instrument" /\ o.instrument = Malformed
        <4>1. SubmitChecks(o)[4].fails /\ reason = SubmitChecks(o)[4].reason
          BY <1>4, <2>4
        <4>2. QED
          BY <4>1 DEF SubmitChecks
      <3>2. QED
        BY <1>3, <3>1 DEF Earned, b, TerminalReasons
    <2>5. QED
      BY <1>6, <2>1, <2>2, <2>3, <2>4
  <1>7. CASE k = 5
    <2>1. reason = "invalid_side"
      BY <1>7 DEF SubmitChecks
    <2>2. QED
      BY <1>3, <1>5, <1>7, <2>1 DEF Earned, b, TerminalReasons
  <1>8. CASE k \in 6 .. 12
    <2>1. reason \in {"invalid_owner", "invalid_type", "invalid_order", "invalid_price",
                      "non_positive_price", "invalid_quantity", "non_positive_quantity"}
      <3>1. k \in {6, 7, 8, 9, 10, 11, 12}
        BY <1>8
      <3>2. QED
        BY <3>1 DEF SubmitChecks
    <2>2. QED
      BY <1>3, <1>5, <1>8, <2>1 DEF Earned, b, TerminalReasons
  <1>9. CASE k = 13
    <2>1. reason = "duplicate_order_id" /\ o.order_id \in DOMAIN orders
      <3>1. SubmitChecks(o)[13].fails /\ reason = SubmitChecks(o)[13].reason
        BY <1>4, <1>9
      <3>2. QED
        BY <3>1 DEF SubmitChecks
    <2>2. QED
      BY <1>3, <2>1, IdleFinds DEF Earned, b, TerminalReasons
  <1>10. QED
    BY <1>2, <1>6, <1>7, <1>8, <1>9

LEMMA CancelEarns ==
  ASSUME op.phase = "idle", EngineInv, QueueInv, NEW c \in Cancellations,
         NEW k \in DOMAIN CancelChecks(c), FirstFailure(CancelChecks(c), k),
         NEW reason, reason = CancelChecks(c)[k].reason
  PROVE  /\ reason \notin TerminalReasons
         /\ Earned(Mirror, RejectedBody(c.order_id, c.instrument, Null, reason))
  <1> DEFINE b == RejectedBody(c.order_id, c.instrument, Null, reason)
  <1>1. c \in CancelInput
    BY EngineConstants
  <1>2. k \in 1 .. 4
    BY DEF CancelChecks
  <1>3. /\ b.order_id = c.order_id /\ b.instrument = c.instrument /\ b.side = Null
        /\ b.reason = reason
    BY DEF RejectedBody
  <1> HIDE DEF b
  <1>4. CASE k = 1
    <2>1. CancelChecks(c)[1].fails /\ reason = CancelChecks(c)[1].reason
      BY <1>4 DEF FirstFailure
    <2>2. reason = "invalid_instrument" /\ c.instrument = Null
      BY <2>1 DEF CancelChecks
    <2>3. QED
      BY <1>3, <2>2 DEF Earned, b, TerminalReasons
  <1>5. CASE k = 2
    <2>1. CancelChecks(c)[2].fails /\ reason = CancelChecks(c)[2].reason
      BY <1>5 DEF FirstFailure
    <2>2. reason = "unknown_instrument" /\ c.instrument = Malformed
      BY <2>1 DEF CancelChecks
    <2>3. QED
      BY <1>3, <2>2 DEF Earned, b, TerminalReasons
  <1>6. CASE k = 3
    <2>1. CancelChecks(c)[3].fails /\ reason = CancelChecks(c)[3].reason
      BY <1>6 DEF FirstFailure
    <2>2. reason = "invalid_order_id" /\ c.order_id \in {Null, Malformed}
      BY <2>1 DEF CancelChecks
    <2>3. QED
      BY <1>3, <2>2, EventConstants DEF Earned, b, TerminalReasons
  <1>7. CASE k = 4
    <2>1. /\ CancelChecks(c)[4].fails /\ ~CancelChecks(c)[3].fails
          /\ reason = CancelChecks(c)[4].reason
      BY <1>7 DEF FirstFailure
    <2>2. /\ reason = "order_not_resting" /\ c.instrument \in Instruments
          /\ c.order_id \notin books[c.instrument].resting
      BY <2>1 DEF CancelChecks
    <2>3. c.order_id \in OrderIds
      BY <1>1, <2>1 DEF CancelChecks, CancelInput
    <2>4. ~(/\ c.order_id \in DOMAIN orders
            /\ orders[c.order_id].state = "resting"
            /\ orders[c.order_id].instrument = c.instrument)
      BY <2>2 DEF QueueInv, QueuesHoldResting, Holds, Waits
    <2>5. QED
      BY <1>3, <2>2, <2>3, <2>4, IdleFinds DEF Earned, b, TerminalReasons
  <1>8. QED
    BY <1>2, <1>4, <1>5, <1>6, <1>7

LEMMA AmendEarns ==
  ASSUME op.phase = "idle", EngineInv, QueueInv, NEW a \in Amendments,
         NEW k \in DOMAIN AmendChecks(a), FirstFailure(AmendChecks(a), k),
         NEW reason, reason = AmendChecks(a)[k].reason,
         NEW known, known = (k > 2 /\ a.order_id \in DOMAIN orders),
         NEW id, id = IF k = 1 THEN Null ELSE a.order_id,
         NEW instrument,
         instrument = IF known THEN orders[a.order_id].instrument ELSE Null,
         NEW side, side = IF known THEN orders[a.order_id].side ELSE Null
  PROVE  /\ reason \notin TerminalReasons
         /\ Earned(Mirror, RejectedBody(id, instrument, side, reason))
  <1> DEFINE b == RejectedBody(id, instrument, side, reason)
  <1>1. a \in AmendInput
    BY EngineConstants
  <1>2. k \in 1 .. 9
    BY DEF AmendChecks
  <1>3. b.order_id = id /\ b.instrument = instrument /\ b.side = side /\ b.reason = reason
    BY DEF RejectedBody
  <1> HIDE DEF b
  <1>4. CASE k = 1
    <2>1. reason = "invalid_order"
      BY <1>4 DEF AmendChecks
    <2>2. QED
      BY <1>3, <2>1 DEF Earned, b, TerminalReasons
  <1>5. CASE k = 2
    <2>1. AmendChecks(a)[2].fails /\ reason = AmendChecks(a)[2].reason
      BY <1>5 DEF FirstFailure
    <2>2. reason = "invalid_order_id" /\ a.order_id \in {Null, Malformed}
      BY <2>1 DEF AmendChecks
    <2>3. QED
      BY <1>3, <1>5, <2>2, EventConstants DEF Earned, b, TerminalReasons
  <1>6. CASE k = 3
    <2>1. /\ ~AmendChecks(a)[2].fails /\ AmendChecks(a)[3].fails
          /\ reason = AmendChecks(a)[3].reason
      BY <1>6 DEF FirstFailure
    <2>2. reason = "order_not_resting" /\ ~IsResting(a.order_id)
      BY <2>1 DEF AmendChecks
    <2>3. a.order_id \in OrderIds
      BY <1>1, <2>1 DEF AmendChecks, AmendInput
    <2>4. id = a.order_id
      BY <1>6
    <2>5. CASE known
      <3>1. /\ id \in DOMAIN orders /\ instrument = orders[id].instrument
            /\ side = orders[id].side
        BY <1>6, <2>4, <2>5
      <3>2. orders[id].instrument \in Instruments /\ orders[id].side \in Sides
        BY <3>1 DEF EngineInv, OrdersInv, Order
      <3>3. side # Null
        BY <3>1, <3>2, EventConstants DEF Sides
      <3>4. orders[id].state = "resting" => id \in books[orders[id].instrument].resting
        BY <3>1, <3>2 DEF QueueInv, QueuesHoldResting, Holds, Waits
      <3>5. orders[id].state # "resting"
        BY <2>2, <2>4, <3>1, <3>4 DEF IsResting
      <3>6. QED
        BY <1>3, <2>2, <2>3, <2>4, <3>1, <3>3, <3>5, IdleFinds DEF Earned, b, TerminalReasons
    <2>6. CASE ~known
      <3>1. id \notin DOMAIN orders /\ instrument = Null /\ side = Null
        <4>1. instrument = Null /\ side = Null
          BY <2>6
        <4>2. k > 2
          BY <1>6
        <4>3. QED
          BY <2>4, <2>6, <4>1, <4>2
      <3>2. QED
        BY <1>3, <2>2, <2>3, <2>4, <3>1, IdleFinds DEF Earned, b, TerminalReasons
    <2>7. QED
      BY <2>5, <2>6
  <1>7. CASE k \in 4 .. 9
    <2>1. ~AmendChecks(a)[3].fails
      BY <1>7 DEF FirstFailure
    <2>2. IsResting(a.order_id)
      BY <2>1 DEF AmendChecks
    <2>3. /\ id = a.order_id /\ id \in DOMAIN orders /\ id \in OrderIds
          /\ instrument = orders[id].instrument /\ side = orders[id].side
          /\ instrument \in Instruments /\ side \in Sides
          /\ id \in books[orders[id].instrument].resting
      <3>1. k > 2 /\ k # 1 /\ id = a.order_id
        BY <1>7
      <3>2. id \in DOMAIN orders /\ id \in books[orders[id].instrument].resting
        BY <2>2, <3>1 DEF IsResting
      <3>3. instrument = orders[id].instrument /\ side = orders[id].side
        BY <3>1, <3>2
      <3>4. QED
        BY <3>1, <3>2, <3>3 DEF EngineInv, OrdersInv, Order
    <2>4. InBook(Mirror, id) /\ Mirror.orders = orders
      BY <2>3, IdleFinds
    <2>5. CASE k \in 4 .. 7
      <3>1. reason \in {"invalid_price", "non_positive_price", "invalid_quantity",
                        "non_positive_quantity"}
        <4>1. k \in {4, 5, 6, 7}
          BY <2>5
        <4>2. QED
          BY <4>1 DEF AmendChecks
      <3>2. QED
        BY <1>3, <2>3, <3>1 DEF Earned, b, TerminalReasons
    <2>6. CASE k = 8
      <3>1. reason = "no_change"
        BY <2>6 DEF AmendChecks
      <3>2. QED
        BY <1>3, <2>3, <2>4, <3>1 DEF Earned, b, TerminalReasons
    <2>7. CASE k = 9
      <3>1. /\ AmendChecks(a)[9].fails /\ ~AmendChecks(a)[7].fails
            /\ reason = AmendChecks(a)[9].reason
        BY <2>7 DEF FirstFailure
      <3>2. /\ reason = "quantity_below_filled" /\ a.quantity # Malformed
            /\ NewTotal(a) <= Executed(id) /\ a.quantity # 0
        BY <2>3, <3>1 DEF AmendChecks
      <3>3. orders[id].remaining \in Nat /\ orders[id].quantity \in Nat \ {0}
        BY <2>3 DEF EngineInv, OrdersInv, Order
      <3>4. orders[id].remaining # orders[id].quantity
        <4> SUFFICES ASSUME orders[id].remaining = orders[id].quantity PROVE FALSE
          OBVIOUS
        <4>1. Executed(id) = 0
          BY <3>3 DEF Executed
        <4>2. NewTotal(a) \in Nat \ {0}
          BY <1>1, <2>3, <3>2, <3>3 DEF NewTotal, AmendInput
        <4>3. QED
          BY <3>2, <4>1, <4>2
      <3>5. QED
        BY <1>3, <2>3, <2>4, <3>2, <3>4 DEF Earned, b, TerminalReasons
    <2>8. QED
      BY <1>7, <2>5, <2>6, <2>7
  <1>8. QED
    BY <1>2, <1>4, <1>5, <1>6, <1>7

LEMMA MirrorInit == Init => MirrorInv
  <1> SUFFICES ASSUME Init PROVE MirrorInv
    OBVIOUS
  <1>1. op.phase = "idle" /\ op.events = << >> /\ journal = << >>
    BY DEF Init, Idle
  <1>2. Emitted = << >>
    BY <1>1 DEF Emitted
  <1>3. Mirror = FoldStart
    BY <1>1, IdleMirror DEF Init, State, FoldStart, OpenedAt
  <1>4. QED
    BY <1>1, <1>2, <1>3, FoldedNone DEF MirrorInv

LEMMA CommitMirror ==
  ASSUME EngineInv, EventsInv, MirrorInv, Commit
  PROVE  MirrorInv'
  <1>1. /\ op.phase = "finish" /\ op' = Idle /\ journal' = journal \o op.events
        /\ nextSeq' = op.seq /\ nextFill' = op.fill
        /\ UNCHANGED <<orders, tracked, books, lastAt>>
    BY DEF Commit
  <1>2. op'.phase = "idle" /\ op'.events = << >>
    BY <1>1 DEF Idle
  <1>3. Emitted' = Emitted
    <2>1. IsSeq(journal) /\ IsSeq(op.events)
      BY DEF EventsInv
    <2>2. IsSeq(journal \o op.events)
      BY <2>1, Joined DEF Extends
    <2>3. (journal \o op.events) \o << >> = journal \o op.events
      BY <2>2 DEF IsSeq
    <2>4. QED
      BY <1>1, <1>2, <2>3 DEF Emitted
  <1>4. Mirror' = Mirror
    BY <1>1, <1>2 DEF Mirror, Shown, Taking, Zeroed, SeqNo, FillId, OpenedAt
  <1>5. QED
    BY <1>1, <1>2, <1>3, <1>4 DEF MirrorInv

LEMMA SubmitMirror ==
  ASSUME EngineInv, EventsInv, MirrorInv, NEW now \in Times, NEW o \in Submissions,
         SubmitAccepted(o, now)
  PROVE  MirrorInv'
  <1> DEFINE body == AcceptedBody(o)
             new == [instrument |-> o.instrument, side |-> o.side,
                     order_type |-> o.type, owner |-> o.owner,
                     price |-> o.price, quantity |-> o.quantity,
                     remaining |-> o.quantity, state |-> "resting"]
  <1>1. /\ BeginOperation(now) /\ Passes(SubmitChecks(o))
        /\ orders' = Put(orders, o.order_id, new)
        /\ tracked' = Append(tracked, o.order_id) /\ books' = books /\ journal' = journal
        /\ OpenWith(now, "match", o.order_id, body)
    BY DEF SubmitAccepted
  <1>2. /\ body.type = "accepted" /\ body.order_id = o.order_id
        /\ body.instrument = o.instrument /\ body.side = o.side
        /\ body.order_type = o.type /\ body.owner = o.owner /\ body.price = o.price
        /\ body.quantity = o.quantity
    BY DEF AcceptedBody
  <1> HIDE DEF body
  <1>3. orders'[o.order_id].remaining # 0
    BY <1>1, SubmitPasses DEF Put
  <1>4. /\ op.phase = "idle" /\ op'.phase = "match" /\ op'.at = now
        /\ lastAt' = now /\ now # -1
        /\ Mirror' = State(orders', tracked', books', nextSeq + 1, nextFill - 1, now, now,
                           o.order_id, {})
        /\ \E e : /\ OneMore(Emitted, Emitted', e)
                  /\ Marked(e, nextSeq, now, body) /\ EnvelopeFits(Mirror, e)
    BY <1>1, <1>3, OpeningMirror
  <1>5. PICK e : /\ OneMore(Emitted, Emitted', e)
                 /\ Marked(e, nextSeq, now, body) /\ EnvelopeFits(Mirror, e)
    BY <1>4
  <1>6. Mirror.inFlight = Null /\ Mirror.pendingMaker = {} /\ Mirror.orders = orders
    BY <1>4, IdleMirror DEF State
  <1>7. Admits(Mirror, e)
    <2>1. ~IsFill(e) /\ e.body = body /\ StaysInOperation(Mirror, e.body)
      BY <1>2, <1>5, <1>6 DEF IsFill, Marked, StaysInOperation
    <2>2. AdmitsAccepted(Mirror, body)
      BY <1>1, <1>2, <1>6, SubmitPasses DEF AdmitsAccepted
    <2>3. QED
      BY <1>2, <1>5, <1>6, <2>1, <2>2 DEF Admits
  <1>8. FoldEvent(Mirror, e) =
          State(Put(orders, e.body.order_id,
                  [instrument |-> e.body.instrument, side |-> e.body.side,
                   order_type |-> e.body.order_type, owner |-> e.body.owner,
                   price |-> e.body.price, quantity |-> e.body.quantity,
                   remaining |-> e.body.quantity, state |-> "resting"]),
                Append(tracked, e.body.order_id), books, e.seq + 1, nextFill - 1,
                e.at, e.at, e.body.order_id, {})
    BY <1>2, <1>4, <1>5, <1>7, IdleMirror, FoldsAccepted DEF Marked
  <1>9. FoldEvent(Mirror, e) = Mirror'
    BY <1>1, <1>2, <1>4, <1>5, <1>8 DEF Marked
  <1>10. QED
    BY <1>4, <1>5, <1>9, MirrorStep

(* An order that waits, as the fold sees it between operations.            *)
LEMMA IdleWaits ==
  ASSUME op.phase = "idle", EngineInv, QueuesHoldResting, NEW id \in DOMAIN orders, Waits(id),
         NEW b, b.order_id = id, b.instrument = orders[id].instrument,
         b.side = orders[id].side
  PROVE  /\ NamesOrder(Mirror, b) /\ Mirror.orders = orders
         /\ Mirror.orders[id].state = "resting" /\ InBook(Mirror, id)
  <1>1. id \in books[orders[id].instrument].resting
    BY WaitingIsQueued
  <1>2. QED
    BY <1>1, IdleFinds DEF NamesOrder, Waits

LEMMA CancelMirror ==
  ASSUME EngineInv, QueueInv, EventsInv, MirrorInv, NEW now \in Times,
         NEW c \in Cancellations, CancelAccepted(c, now)
  PROVE  MirrorInv'
  <1> DEFINE id == c.order_id
             body == CancelledBody(id, orders[id])
  <1>1. /\ BeginOperation(now) /\ RemoveFromBook(id)
        /\ orders' = [orders EXCEPT ![id].state = "cancelled", ![id].remaining = 0]
        /\ tracked' = tracked /\ journal' = journal
        /\ OpenWith(now, "finish", Null, body)
    BY DEF CancelAccepted
  <1>2. id \in DOMAIN orders /\ Waits(id)
    BY CancelQueues
  <1>3. books' = Dequeue(books, id, orders[id])
    BY <1>1 DEF RemoveFromBook, Dequeue
  <1>4. /\ body.type = "cancelled" /\ body.order_id = id
        /\ body.instrument = orders[id].instrument /\ body.side = orders[id].side
        /\ body.price = orders[id].price /\ body.quantity = orders[id].remaining
    BY DEF CancelledBody
  <1> HIDE DEF body, id
  <1>5. /\ op.phase = "idle" /\ op'.phase = "finish" /\ op'.at = now
        /\ lastAt' = now /\ now # -1
        /\ Mirror' = State(orders', tracked', books', nextSeq + 1, nextFill - 1, now, now,
                           Null, {})
        /\ \E e : /\ OneMore(Emitted, Emitted', e)
                  /\ Marked(e, nextSeq, now, body) /\ EnvelopeFits(Mirror, e)
    BY <1>1, OpeningMirror
  <1>6. PICK e : /\ OneMore(Emitted, Emitted', e)
                 /\ Marked(e, nextSeq, now, body) /\ EnvelopeFits(Mirror, e)
    BY <1>5
  <1>7. Mirror.inFlight = Null /\ Mirror.pendingMaker = {}
    BY <1>5, IdleMirror DEF State
  <1>8. Admits(Mirror, e)
    <2>1. ~IsFill(e) /\ e.body = body /\ StaysInOperation(Mirror, e.body)
      BY <1>4, <1>6, <1>7 DEF IsFill, Marked, StaysInOperation
    <2>2. /\ NamesOrder(Mirror, body) /\ Mirror.orders = orders
          /\ Mirror.orders[id].state = "resting" /\ InBook(Mirror, id)
      BY <1>2, <1>4, <1>5, IdleWaits DEF QueueInv
    <2>3. AdmitsCancelled(Mirror, body)
      BY <1>4, <2>2 DEF AdmitsCancelled
    <2>4. QED
      BY <1>4, <1>6, <1>7, <2>1, <2>3 DEF Admits
  <1>9. FoldEvent(Mirror, e) =
          State([orders EXCEPT ![e.body.order_id].state = "cancelled",
                               ![e.body.order_id].remaining = 0], tracked,
                Dequeue(books, e.body.order_id, orders[e.body.order_id]),
                e.seq + 1, nextFill - 1, e.at, e.at, Null, {})
    BY <1>4, <1>5, <1>6, <1>8, IdleMirror, FoldsCancelled DEF Marked
  <1>10. FoldEvent(Mirror, e) = Mirror'
    BY <1>1, <1>3, <1>4, <1>5, <1>6, <1>9 DEF Marked
  <1>11. QED
    BY <1>5, <1>6, <1>10, MirrorStep

AmendOpens(a, now, id, phase) ==
  /\ op.phase = "idle" /\ op'.phase = phase /\ op'.at = now
  /\ lastAt' = now /\ now # -1
  /\ orders' = [orders EXCEPT ![id] =
                 AmendedEntry(orders[id], NewPrice(a), NewTotal(a))]
  /\ Mirror' = State(orders', tracked', books', nextSeq + 1, nextFill - 1, now, now,
                     IF phase = "match" THEN id ELSE Null, {})
  /\ \E e : /\ OneMore(Emitted, Emitted', e) /\ Admits(Mirror, e)
            /\ e.seq = nextSeq /\ e.at = now /\ e.body.type = "amended"
            /\ e.body.order_id = id /\ e.body.price = NewPrice(a)
            /\ e.body.quantity = NewTotal(a)

LEMMA AmendAdmitted ==
  ASSUME EngineInv, QueueInv, EventsInv, NEW now \in Times, NEW a \in Amendments,
         BeginOperation(now), Passes(AmendChecks(a)), orders' = Amended(a),
         NEW phase \in {"match", "finish"}, NEW taker, NEW id, id = a.order_id,
         phase = "match" => taker = id,
         OpenWith(now, phase, taker, AmendedBody(id, orders[id], NewPrice(a), NewTotal(a))),
         journal' = journal
  PROVE  AmendOpens(a, now, id, phase)
  <1> DEFINE body == AmendedBody(id, orders[id], NewPrice(a), NewTotal(a))
  <1>1. op.phase = "idle"
    BY DEF BeginOperation
  <1>2. /\ id \in DOMAIN orders /\ Waits(id) /\ orders'[id].remaining > 0
        /\ IsResting(id) /\ ~(NewTotal(a) <= Executed(id))
        /\ a.price \in Prices \cup {Null} /\ a.quantity \in (Nat \ {0}) \cup {Null}
    BY <1>1, AmendedWaits, AmendPasses DEF QueueInv
  <1>3. /\ body.type = "amended" /\ body.order_id = id
        /\ body.instrument = orders[id].instrument /\ body.side = orders[id].side
        /\ body.previous_price = orders[id].price
        /\ body.previous_quantity = orders[id].quantity
        /\ body.price = NewPrice(a) /\ body.quantity = NewTotal(a)
    BY DEF AmendedBody
  <1> HIDE DEF body
  <1>4. OpenWith(now, phase, taker, body)
    BY DEF body
  <1>5. phase = "match" => orders'[taker].remaining # 0
    <2>1. orders'[id].remaining # 0
      BY <1>2
    <2>2. QED
      BY <2>1
  <1>6. /\ op'.phase = phase /\ op'.at = now /\ lastAt' = now /\ now # -1
        /\ Mirror' = State(orders', tracked', books', nextSeq + 1, nextFill - 1, now, now,
                           IF phase = "match" THEN taker ELSE Null, {})
        /\ \E e : /\ OneMore(Emitted, Emitted', e)
                  /\ Marked(e, nextSeq, now, body) /\ EnvelopeFits(Mirror, e)
    BY <1>4, <1>5, OpeningMirror
  <1>7. PICK e : /\ OneMore(Emitted, Emitted', e)
                 /\ Marked(e, nextSeq, now, body) /\ EnvelopeFits(Mirror, e)
    BY <1>6
  <1>8. Mirror.inFlight = Null /\ Mirror.pendingMaker = {}
    BY <1>1, IdleMirror DEF State
  <1>9. Admits(Mirror, e)
    <2>1. ~IsFill(e) /\ e.body = body /\ StaysInOperation(Mirror, e.body)
      BY <1>3, <1>7, <1>8 DEF IsFill, Marked, StaysInOperation
    <2>2. /\ NamesOrder(Mirror, body) /\ Mirror.orders = orders
          /\ Mirror.orders[id].state = "resting" /\ InBook(Mirror, id)
      BY <1>1, <1>2, <1>3, IdleWaits DEF QueueInv
    <2>3. /\ orders[id].price \in Prices /\ orders[id].quantity \in Nat
          /\ orders[id].remaining \in Nat
      BY <1>1, <1>2, WaitingIsQueued DEF QueueInv, EngineInv, OrdersInv, Order
    <2>4. NewPrice(a) \in Prices /\ NewTotal(a) \in Nat
      BY <1>2, <2>3 DEF NewPrice, NewTotal
    <2>5. NewTotal(a) > orders[id].quantity - orders[id].remaining
      BY <1>2, <2>3, <2>4 DEF Executed
    <2>6. NewPrice(a) # orders[id].price \/ NewTotal(a) # orders[id].quantity
      <3>1. 8 \in DOMAIN AmendChecks(a)
        BY DEF AmendChecks
      <3>2. ~AmendChecks(a)[8].fails
        BY <3>1 DEF Passes
      <3>3. QED
        BY <1>2, <3>2 DEF AmendChecks
    <2>7. AdmitsAmended(Mirror, body)
      BY <1>3, <2>2, <2>4, <2>5, <2>6 DEF AdmitsAmended
    <2>8. QED
      BY <1>3, <1>7, <1>8, <2>1, <2>7 DEF Admits
  <1>10. orders' = [orders EXCEPT ![id] =
                     AmendedEntry(orders[id], NewPrice(a), NewTotal(a))]
    BY <1>2 DEF Amended, Executed, AmendedEntry
  <1>11. Mirror' = State(orders', tracked', books', nextSeq + 1, nextFill - 1, now, now,
                         IF phase = "match" THEN id ELSE Null, {})
    BY <1>6
  <1>12. QED
    BY <1>1, <1>3, <1>6, <1>7, <1>9, <1>10, <1>11 DEF Marked, AmendOpens

LEMMA InPlaceMirror ==
  ASSUME EngineInv, QueueInv, EventsInv, MirrorInv, NEW now \in Times,
         NEW a \in Amendments, AmendInPlace(a, now)
  PROVE  MirrorInv'
  <1> DEFINE id == a.order_id
             new == AmendedEntry(orders[id], NewPrice(a), NewTotal(a))
  <1>1. /\ BeginOperation(now) /\ Passes(AmendChecks(a)) /\ orders' = Amended(a)
        /\ OpenWith(now, "finish", Null,
             AmendedBody(id, orders[id], NewPrice(a), NewTotal(a)))
        /\ journal' = journal /\ tracked' = tracked /\ books' = books
        /\ NewPrice(a) = orders[id].price /\ NewTotal(a) < orders[id].quantity
    BY DEF AmendInPlace, KeepsPriority
  <1>a. id = a.order_id
    OBVIOUS
  <1> HIDE DEF id
  <1>2. /\ op.phase = "idle" /\ op'.phase = "finish" /\ op'.at = now
        /\ lastAt' = now /\ now # -1
        /\ orders' = [orders EXCEPT ![id] = new]
        /\ Mirror' = State(orders', tracked', books', nextSeq + 1, nextFill - 1, now, now,
                           Null, {})
        /\ \E e : /\ OneMore(Emitted, Emitted', e) /\ Admits(Mirror, e)
                  /\ e.seq = nextSeq /\ e.at = now /\ e.body.type = "amended"
                  /\ e.body.order_id = id /\ e.body.price = NewPrice(a)
                  /\ e.body.quantity = NewTotal(a)
    <2>1. AmendOpens(a, now, id, "finish")
      BY <1>1, <1>a, AmendAdmitted
    <2>2. QED
      BY <2>1 DEF AmendOpens
  <1>3. PICK e : /\ OneMore(Emitted, Emitted', e) /\ Admits(Mirror, e)
                 /\ e.seq = nextSeq /\ e.at = now /\ e.body.type = "amended"
                 /\ e.body.order_id = id /\ e.body.price = NewPrice(a)
                 /\ e.body.quantity = NewTotal(a)
    BY <1>2
  <1>4. FoldEvent(Mirror, e) =
          State([orders EXCEPT ![id] = new],
                tracked, books, e.seq + 1, nextFill - 1, e.at, e.at, Null, {})
    <2>1. /\ Mirror = State(orders, tracked, books, nextSeq, nextFill - 1, lastAt, OpenedAt,
                            Null, {})
          /\ Admits(Mirror, e) /\ e.body.type = "amended" /\ id = e.body.order_id
          /\ e.body.price = orders[id].price /\ e.body.quantity < orders[id].quantity
      BY <1>1, <1>2, <1>3, IdleMirror
    <2>2. new = AmendedEntry(orders[id], e.body.price, e.body.quantity)
      BY <1>3
    <2> HIDE DEF new
    <2>3. QED
      BY ONLY <2>1, <2>2, FoldsAmendedInPlace
  <1>5. FoldEvent(Mirror, e) = Mirror'
    BY <1>1, <1>2, <1>3, <1>4
  <1>6. QED
    BY <1>2, <1>3, <1>5, MirrorStep

LEMMA RequeuedMirror ==
  ASSUME EngineInv, QueueInv, EventsInv, MirrorInv, NEW now \in Times,
         NEW a \in Amendments, AmendRequeued(a, now)
  PROVE  MirrorInv'
  <1> DEFINE id == a.order_id
             new == AmendedEntry(orders[id], NewPrice(a), NewTotal(a))
  <1>1. /\ BeginOperation(now) /\ Passes(AmendChecks(a)) /\ orders' = Amended(a)
        /\ OpenWith(now, "match", id,
             AmendedBody(id, orders[id], NewPrice(a), NewTotal(a)))
        /\ journal' = journal /\ tracked' = Append(Without(tracked, id), id)
        /\ books' = Dequeue(books, id, orders[id])
        /\ ~(NewPrice(a) = orders[id].price /\ NewTotal(a) < orders[id].quantity)
    BY DEF AmendRequeued, KeepsPriority, RemoveFromBook, Dequeue
  <1>a. id = a.order_id
    OBVIOUS
  <1> HIDE DEF id
  <1>2. /\ op.phase = "idle" /\ op'.phase = "match" /\ op'.at = now
        /\ lastAt' = now /\ now # -1
        /\ orders' = [orders EXCEPT ![id] = new]
        /\ Mirror' = State(orders', tracked', books', nextSeq + 1, nextFill - 1, now, now,
                           id, {})
        /\ \E e : /\ OneMore(Emitted, Emitted', e) /\ Admits(Mirror, e)
                  /\ e.seq = nextSeq /\ e.at = now /\ e.body.type = "amended"
                  /\ e.body.order_id = id /\ e.body.price = NewPrice(a)
                  /\ e.body.quantity = NewTotal(a)
    <2>1. AmendOpens(a, now, id, "match")
      BY <1>1, <1>a, AmendAdmitted
    <2>2. QED
      BY <2>1 DEF AmendOpens
  <1>3. PICK e : /\ OneMore(Emitted, Emitted', e) /\ Admits(Mirror, e)
                 /\ e.seq = nextSeq /\ e.at = now /\ e.body.type = "amended"
                 /\ e.body.order_id = id /\ e.body.price = NewPrice(a)
                 /\ e.body.quantity = NewTotal(a)
    BY <1>2
  <1>4. FoldEvent(Mirror, e) =
          State([orders EXCEPT ![id] = new],
                Append(Without(tracked, id), id), Dequeue(books, id, orders[id]),
                e.seq + 1, nextFill - 1, e.at, e.at, id, {})
    <2>1. /\ Mirror = State(orders, tracked, books, nextSeq, nextFill - 1, lastAt, OpenedAt,
                            Null, {})
          /\ Admits(Mirror, e) /\ e.body.type = "amended" /\ id = e.body.order_id
          /\ ~(e.body.price = orders[id].price /\ e.body.quantity < orders[id].quantity)
      BY <1>1, <1>2, <1>3, IdleMirror
    <2>2. new = AmendedEntry(orders[id], e.body.price, e.body.quantity)
      BY <1>3
    <2> HIDE DEF new
    <2>3. QED
      BY ONLY <2>1, <2>2, FoldsRequeued
  <1>5. FoldEvent(Mirror, e) = Mirror'
    BY <1>1, <1>2, <1>3, <1>4
  <1>6. QED
    BY <1>2, <1>3, <1>5, MirrorStep

(* While a taker with something left sweeps the book.                      *)
LEMMA SweepMirror ==
  ASSUME EngineInv, QueueInv, MirrorInv, Sweeping
  PROVE  /\ op.phase = "match" /\ op.at = lastAt /\ lastAt # -1 /\ op.taker # Null
         /\ Mirror = State(orders, tracked, books, op.seq, op.fill - 1, lastAt, lastAt,
                           op.taker, {})
         /\ InFlight(Mirror, op.taker) /\ Mirror.orders = orders /\ Mirror.books = books
         /\ Mirror.inFlight = op.taker /\ Mirror.pendingMaker = {}
  <1>1. op.phase = "match" /\ orders[op.taker].remaining # 0 /\ op.at = lastAt /\ lastAt # -1
    <2>1. op.phase = "match" /\ orders[op.taker].remaining > 0
      BY DEF Sweeping
    <2>2. orders[op.taker].remaining # 0
      BY <2>1
    <2>3. QED
      BY <2>1, <2>2 DEF MirrorInv
  <1>2. op.taker \in DOMAIN orders /\ op.taker # Null
    BY <1>1, EventConstants DEF EngineInv, OrdersInv, OperationInv
  <1>3. Mirror = State(orders, tracked, books, op.seq, op.fill - 1, lastAt, lastAt,
                       op.taker, {})
    BY <1>1 DEF Mirror, Shown, Taking, Zeroed, SeqNo, FillId, OpenedAt
  <1>4. /\ Mirror.orders = orders /\ Mirror.books = books
        /\ Mirror.inFlight = op.taker /\ Mirror.pendingMaker = {}
    BY <1>3 DEF State
  <1>5. orders[op.taker].state = "resting" /\ orders[op.taker].instrument \in Instruments
    BY <1>1, TakerFacts DEF QueueInv, QueuesHoldResting, Order
  <1>6. op.taker \notin books[orders[op.taker].instrument].resting
    BY <1>1, <1>5 DEF QueueInv, QueuesHoldResting, Holds, Waits
  <1>7. QED
    BY <1>1, <1>2, <1>3, <1>4, <1>5, <1>6 DEF InFlight, InBook

LEMMA WedgedMirror ==
  ASSUME op'.phase = "wedged"
  PROVE  MirrorInv'
  BY DEF MirrorInv

LEMMA FinishingMirror ==
  ASSUME EngineInv, QueueInv, EventsInv, MirrorInv, Sweeping, NEW body,
         Continue(<<body>>, "finish", op.fill), journal' = journal, lastAt' = lastAt
  PROVE  \/ MirrorInv'
         \/ /\ op'.phase = "finish" /\ op'.at = lastAt'
            /\ Mirror' = State(orders', tracked', books', op.seq + 1, op.fill - 1, lastAt,
                               lastAt, Null, {})
            /\ \E e : /\ OneMore(Emitted, Emitted', e)
                      /\ Marked(e, op.seq, lastAt, body) /\ EnvelopeFits(Mirror, e)
  <1> DEFINE bodies == <<body>>
  <1>1. /\ op.phase = "match" /\ op.at = lastAt /\ lastAt # -1
        /\ Mirror = State(orders, tracked, books, op.seq, op.fill - 1, lastAt, lastAt,
                          op.taker, {})
    BY SweepMirror
  <1>2. CASE Exhausted(bodies)
    <2>1. op'.phase = "wedged"
      BY <1>2 DEF Continue, EngineInv, OperationInv
    <2>2. QED
      BY <2>1, WedgedMirror
  <1>3. CASE ~Exhausted(bodies)
    <2>1. op' = [op EXCEPT !.phase = "finish", !.fill = op.fill,
                           !.events = @ \o Stamped(bodies, op.seq, op.at),
                           !.seq = @ + Len(bodies)]
      BY <1>3 DEF Continue
    <2>2. Len(bodies) = 1
      OBVIOUS
    <2>3. op'.phase = "finish" /\ op'.at = op.at /\ op'.seq = op.seq + 1 /\ op'.fill = op.fill
      BY <2>1, <2>2 DEF EngineInv, OperationInv
    <2>4. Mirror' = State(orders', tracked', books', op.seq + 1, op.fill - 1, lastAt,
                          lastAt, Null, {})
      BY <1>1, <2>3 DEF Mirror, Shown, Taking, Zeroed, SeqNo, FillId, OpenedAt
    <2>5. \E e : OneMore(Emitted, Emitted', e) /\ Marked(e, op.seq, op.at, body)
      BY <1>1, <2>3, OneIsEmitted
    <2>6. PICK e : OneMore(Emitted, Emitted', e) /\ Marked(e, op.seq, lastAt, body)
      BY <1>1, <2>5
    <2>7. lastAt >= lastAt
      BY EngineConstants DEF EngineInv, CountersInv
    <2>8. EnvelopeFits(Mirror, e)
      BY <1>1, <2>6, <2>7 DEF EnvelopeFits, State, Marked
    <2>9. QED
      BY <1>1, <2>3, <2>4, <2>6, <2>8
  <1>4. QED
    BY <1>2, <1>3

(* The best opposite level, as the fold sees it.                           *)
LEMMA BestsOfMirror ==
  ASSUME EngineInv, QueueInv, MirrorInv, Sweeping
  PROVE  LET o == orders[op.taker]
         IN  /\ OppositeBests(Mirror, o) =
                  {p \in Prices : BestLevel(books[o.instrument], Opposite(o.side), p)}
             /\ \A p : OppositeHead(Mirror, o, p) = MakerAt(o, p)
             /\ \A p \in OppositeBests(Mirror, o) :
                  p \in Live(books[o.instrument], Opposite(o.side))
  <1>1. Mirror.books = books
    BY SweepMirror
  <1>2. QED
    BY <1>1 DEF OppositeBests, OppositeHead, MakerAt, BestLevel

LEMMA RestsMirror ==
  ASSUME EngineInv, QueueInv, EventsInv, MirrorInv, MatchRests
  PROVE  MirrorInv'
  <1> DEFINE t == op.taker
             o == orders[t]
             body == RestingBody(t, o)
  <1>1. /\ Sweeping /\ Matchable(o) = {} /\ o.order_type = "limit"
        /\ books' = [books EXCEPT ![o.instrument] = AddResting(@, t, o.side, o.price)]
        /\ Continue(<<body>>, "finish", op.fill)
        /\ orders' = orders /\ tracked' = tracked /\ journal' = journal /\ lastAt' = lastAt
    BY DEF MatchRests
  <1>2. /\ body.type = "resting" /\ body.order_id = t /\ body.instrument = o.instrument
        /\ body.side = o.side /\ body.price = o.price /\ body.quantity = o.remaining
    BY DEF RestingBody
  <1> HIDE DEF body
  <1>3. \/ MirrorInv'
        \/ /\ op'.phase = "finish" /\ op'.at = lastAt'
           /\ Mirror' = State(orders', tracked', books', op.seq + 1, op.fill - 1, lastAt,
                              lastAt, Null, {})
           /\ \E e : /\ OneMore(Emitted, Emitted', e)
                     /\ Marked(e, op.seq, lastAt, body) /\ EnvelopeFits(Mirror, e)
    BY <1>1, FinishingMirror
  <1> SUFFICES ASSUME op'.phase = "finish", op'.at = lastAt',
                      Mirror' = State(orders', tracked', books', op.seq + 1, op.fill - 1,
                                      lastAt, lastAt, Null, {}),
                      NEW e, OneMore(Emitted, Emitted', e),
                      Marked(e, op.seq, lastAt, body), EnvelopeFits(Mirror, e)
               PROVE  MirrorInv'
    BY <1>3
  <1>4. /\ op.phase = "match" /\ lastAt # -1 /\ t # Null
        /\ Mirror = State(orders, tracked, books, op.seq, op.fill - 1, lastAt, lastAt, t, {})
        /\ InFlight(Mirror, t) /\ Mirror.orders = orders
        /\ Mirror.inFlight = t /\ Mirror.pendingMaker = {}
    BY <1>1, SweepMirror
  <1>5. t \in DOMAIN orders
    BY <1>4, TakerFacts
  <1>6. \A p \in OppositeBests(Mirror, o) : ~Crosses(o, p)
    BY <1>1, BestsOfMirror DEF Matchable
  <1>7. AdmitsResting(Mirror, body)
    BY <1>1, <1>2, <1>4, <1>5, <1>6 DEF AdmitsResting, NamesOrder
  <1>8. Admits(Mirror, e)
    <2>1. ~IsFill(e) /\ e.body = body /\ StaysInOperation(Mirror, e.body)
      BY <1>2, <1>4 DEF IsFill, Marked, StaysInOperation
    <2>2. QED
      BY <1>2, <1>4, <1>7, <2>1 DEF Admits
  <1>9. FoldEvent(Mirror, e) =
          State(orders, tracked,
                [books EXCEPT ![e.body.instrument] =
                   AddResting(@, e.body.order_id, e.body.side,
                              orders[e.body.order_id].price)],
                e.seq + 1, op.fill - 1, e.at, lastAt, Null, {})
    BY <1>2, <1>4, <1>8, FoldsResting DEF Marked
  <1>10. FoldEvent(Mirror, e) = Mirror'
    BY <1>1, <1>2, <1>9 DEF Marked
  <1>11. QED
    BY <1>1, <1>4, <1>10, MirrorStep

LEMMA TerminalMirror ==
  ASSUME EngineInv, QueueInv, EventsInv, MirrorInv, Sweeping,
         NEW reason \in TerminalReasons,
         orders' = [orders EXCEPT ![op.taker].state = "rejected"],
         Continue(<<TerminalBody(op.taker, orders[op.taker], reason)>>, "finish", op.fill),
         UNCHANGED <<tracked, books, journal, lastAt>>,
         LET o == orders[op.taker]
         IN  IF reason = "self_trade"
             THEN \E p \in Prices : Facing(o, p) /\ SelfTrade(o, MakerAt(o, p))
             ELSE o.order_type = "market" /\ Matchable(o) = {}
  PROVE  MirrorInv'
  <1> DEFINE t == op.taker
             o == orders[t]
             body == TerminalBody(t, o, reason)
  <1>1. /\ body.type = "rejected" /\ body.order_id = t /\ body.instrument = o.instrument
        /\ body.side = o.side /\ body.reason = reason /\ body.quantity = o.remaining
    BY DEF TerminalBody, RejectedBody
  <1> HIDE DEF body
  <1>2. Continue(<<body>>, "finish", op.fill)
    BY DEF body
  <1>3. \/ MirrorInv'
        \/ /\ op'.phase = "finish" /\ op'.at = lastAt'
           /\ Mirror' = State(orders', tracked', books', op.seq + 1, op.fill - 1, lastAt,
                              lastAt, Null, {})
           /\ \E e : /\ OneMore(Emitted, Emitted', e)
                     /\ Marked(e, op.seq, lastAt, body) /\ EnvelopeFits(Mirror, e)
    BY <1>2, FinishingMirror
  <1> SUFFICES ASSUME op'.phase = "finish", op'.at = lastAt',
                      Mirror' = State(orders', tracked', books', op.seq + 1, op.fill - 1,
                                      lastAt, lastAt, Null, {}),
                      NEW e, OneMore(Emitted, Emitted', e),
                      Marked(e, op.seq, lastAt, body), EnvelopeFits(Mirror, e)
               PROVE  MirrorInv'
    BY <1>3
  <1>4. /\ op.phase = "match" /\ lastAt # -1 /\ t # Null
        /\ Mirror = State(orders, tracked, books, op.seq, op.fill - 1, lastAt, lastAt, t, {})
        /\ InFlight(Mirror, t) /\ Mirror.orders = orders
        /\ Mirror.inFlight = t /\ Mirror.pendingMaker = {}
    BY SweepMirror
  <1>5. t \in DOMAIN orders
    BY <1>4, TakerFacts
  <1>6. IF reason = "self_trade"
        THEN /\ o.owner # Null
             /\ \E p \in OppositeBests(Mirror, o) :
                  /\ orders[OppositeHead(Mirror, o, p)].owner = o.owner
                  /\ Crosses(o, p)
        ELSE o.order_type = "market" /\ OppositeBests(Mirror, o) = {}
    <2>1. CASE reason = "self_trade"
      <3>1. PICK p \in Prices : Facing(o, p) /\ SelfTrade(o, MakerAt(o, p))
        BY <2>1
      <3>2. p \in OppositeBests(Mirror, o) /\ OppositeHead(Mirror, o, p) = MakerAt(o, p)
        BY <3>1, BestsOfMirror DEF Facing
      <3>3. QED
        BY <2>1, <3>1, <3>2 DEF Facing, Matchable, SelfTrade
    <2>2. CASE reason # "self_trade"
      <3>1. o.order_type = "market" /\ Matchable(o) = {}
        BY <2>2
      <3>2. \A p : Crosses(o, p)
        BY <3>1 DEF Crosses
      <3>3. OppositeBests(Mirror, o) = {}
        BY <3>1, <3>2, BestsOfMirror DEF Matchable
      <3>4. QED
        BY <2>2, <3>1, <3>3
    <2>3. QED
      BY <2>1, <2>2
  <1>7. AdmitsTerminal(Mirror, body)
    BY <1>1, <1>4, <1>5, <1>6 DEF AdmitsTerminal, NamesOrder
  <1>8. Admits(Mirror, e)
    <2>1. ~IsFill(e) /\ e.body = body /\ StaysInOperation(Mirror, e.body)
      BY <1>1, <1>4 DEF IsFill, Marked, StaysInOperation
    <2>2. AdmitsRejected(Mirror, body)
      BY <1>1, <1>7 DEF AdmitsRejected
    <2>3. QED
      BY <1>1, <1>4, <2>1, <2>2 DEF Admits
  <1>9. FoldEvent(Mirror, e) =
          State([orders EXCEPT ![e.body.order_id].state = "rejected"], tracked, books,
                e.seq + 1, op.fill - 1, e.at, lastAt, Null, {})
    <2>1. e.body.type = "rejected" /\ e.body.reason \in TerminalReasons
      BY <1>1 DEF Marked
    <2>2. /\ Mirror = State(orders, tracked, books, op.seq, op.fill - 1, lastAt, lastAt, t, {})
          /\ t # Null /\ Admits(Mirror, e)
      BY <1>4, <1>8
    <2>3. QED
      BY ONLY <2>1, <2>2, FoldsTerminal
  <1>10. FoldEvent(Mirror, e) = Mirror'
    BY <1>1, <1>9 DEF Marked
  <1>11. QED
    BY <1>4, <1>10, MirrorStep

LEMMA CompletesMirror ==
  ASSUME EngineInv, QueueInv, EventsInv, MirrorInv, MatchCompletes
  PROVE  MirrorInv'
  <1>1. /\ op.phase = "match" /\ orders[op.taker].remaining = 0
        /\ orders' = [orders EXCEPT ![op.taker].state = "filled"]
        /\ op' = [op EXCEPT !.phase = "finish"]
        /\ UNCHANGED <<tracked, books, journal, lastAt>>
    BY DEF MatchCompletes
  <1>2. /\ op'.phase = "finish" /\ op'.at = op.at /\ op'.events = op.events
        /\ op'.seq = op.seq /\ op'.fill = op.fill
    BY <1>1 DEF EngineInv, OperationInv
  <1>3. Emitted' = Emitted
    BY <1>1, <1>2 DEF Emitted
  <1>4. Mirror' = Mirror
    BY <1>1, <1>2 DEF Mirror, Shown, Taking, Zeroed, SeqNo, FillId, OpenedAt
  <1>5. QED
    BY <1>1, <1>2, <1>3, <1>4 DEF MirrorInv

LEMMA HeadIsCut ==
  ASSUME NEW S, NEW s \in Seq(S), s # << >>, Unrepeated(s)
  PROVE  Without(s, Head(s)) = Tail(s)
  <1>1. Head(s) \in Range(s) /\ Head(s) = s[1] /\ Len(s) \in Nat \ {0}
    BY TailFacts
  <1>2. PICK at \in 1 .. Len(s) :
          LET cut == Without(s, Head(s))
          IN  /\ s[at] = Head(s)
              /\ cut \in Seq(S)
              /\ Len(cut) = Len(s) - 1
              /\ \A k \in 1 .. at - 1 : cut[k] = s[k]
              /\ \A k \in at .. Len(s) - 1 : cut[k] = s[k + 1]
    <2> DEFINE h == Head(s)
    <2>1. h \in Range(s) /\ s \in Seq(S)
      BY <1>1
    <2> HIDE DEF h
    <2>2. \E at \in 1 .. Len(s) :
            LET cut == Without(s, h)
            IN  /\ s[at] = h /\ cut \in Seq(S) /\ Len(cut) = Len(s) - 1
                /\ \A k \in 1 .. at - 1 : cut[k] = s[k]
                /\ \A k \in at .. Len(s) - 1 : cut[k] = s[k + 1]
      BY ONLY <2>1, WithoutCuts, SMTT(30)
    <2>3. QED
      BY <2>2 DEF h
  <1>3. at = 1
    BY <1>1, <1>2 DEF Unrepeated
  <1>4. /\ Without(s, Head(s)) \in Seq(S) /\ Len(Without(s, Head(s))) = Len(s) - 1
        /\ \A k \in 1 .. Len(s) - 1 : Without(s, Head(s))[k] = s[k + 1]
    BY <1>2, <1>3
  <1>5. /\ Tail(s) \in Seq(S) /\ Len(Tail(s)) = Len(s) - 1
        /\ \A k \in 1 .. Len(s) - 1 : Tail(s)[k] = s[k + 1]
    BY <1>1
  <1> DEFINE cut == Without(s, Head(s))
             rest == Tail(s)
             n == Len(s) - 1
             same == [k \in 1 .. n |-> s[k + 1]]
  <1> HIDE DEF cut, rest
  <1>6. cut = same
    <2>1. cut = [k \in 1 .. Len(cut) |-> cut[k]]
      BY <1>4 DEF cut
    <2>2. QED
      BY <1>4, <2>1 DEF cut
  <1>7. rest = same
    <2>1. rest \in Seq(S) /\ Len(rest) = n /\ \A k \in 1 .. n : rest[k] = s[k + 1]
      BY <1>5 DEF rest
    <2>2. rest = [k \in 1 .. Len(rest) |-> rest[k]]
      BY <2>1
    <2>3. QED
      BY <2>1, <2>2
  <1>8. QED
    BY <1>6, <1>7 DEF cut, rest

(* Shifting the best level is removing its head.                           *)
LEMMA ShiftIsRemoval ==
  ASSUME NEW b \in Book, Distinct(b), NEW side \in Sides, NEW p \in Live(b, side)
  PROVE  RemoveResting(b, HeadOf(b, side, p), side, p) = ShiftBest(b, side, p)
  <1> DEFINE line == b.levels[side][p]
  <1>1. line \in Seq(OrderIds) /\ line # << >> /\ Unrepeated(line) /\ p \in Prices
    BY BookFacts DEF Live, Distinct
  <1>2. HeadOf(b, side, p) = Head(line)
    BY DEF HeadOf
  <1>3. Without(line, Head(line)) = Tail(line)
    BY <1>1, HeadIsCut
  <1>4. \E k \in DOMAIN line : line[k] = Head(line)
    BY <1>1
  <1>5. [b.levels EXCEPT ![side][p] = Without(@, Head(line))]
          = [b.levels EXCEPT ![side][p] = Tail(@)]
    BY <1>3
  <1>6. QED
    BY <1>2, <1>4, <1>5 DEF RemoveResting, ShiftBest

(* One execution that is emitted, in the terms of the fold.                *)
FillShows(maker, p, units, first, second) ==
  LET t    == op.taker
      o    == orders[t]
      left == orders[maker].remaining - units
  IN  /\ maker \in DOMAIN orders \ {t} /\ Waits(maker)
      /\ orders[maker].instrument = o.instrument
      /\ orders[maker].side = Opposite(o.side) /\ orders[maker].price = p
      /\ BestLevel(books[o.instrument], Opposite(o.side), p) /\ Crosses(o, p)
      /\ maker = HeadOf(books[o.instrument], Opposite(o.side), p)
      /\ units \in Nat /\ units > 0 /\ left \in Nat /\ o.remaining - units \in Nat
      /\ first.type = (IF left = 0 THEN "filled" ELSE "partially_filled")
      /\ first.order_id = maker /\ first.instrument = o.instrument
      /\ first.side = orders[maker].side /\ first.remaining = left
      /\ second.type = (IF o.remaining - units = 0 THEN "filled" ELSE "partially_filled")
      /\ second.order_id = t /\ second.instrument = o.instrument
      /\ second.side = o.side /\ second.remaining = o.remaining - units
      /\ \A b \in {first, second} :
           /\ b.fill_id = op.fill /\ b.maker_order_id = maker /\ b.taker_order_id = t
           /\ b.price = p /\ b.quantity = units
      /\ DOMAIN orders' = DOMAIN orders /\ orders' = [x \in DOMAIN orders |-> orders'[x]]
      /\ \A x \in DOMAIN orders \ {maker, t} : orders'[x] = orders[x]
      /\ orders'[maker] = FilledEntry(orders[maker], left)
      /\ orders'[t] = [o EXCEPT !.remaining = o.remaining - units]
      /\ books' = IF left = 0 THEN Dequeue(books, maker, orders[maker]) ELSE books

LEMMA FillExecutes ==
  ASSUME EngineInv, QueueInv, EventsInv, MatchFill
  PROVE  \/ op'.phase = "wedged"
         \/ \E p \in Prices : \E maker, units, first, second :
              /\ FillShows(maker, p, units, first, second)
              /\ op'.phase = "match" /\ op'.taker = op.taker /\ op'.fill = op.fill + 1
              /\ op'.seq = op.seq + 2 /\ op'.at = op.at
              /\ \E G, d, e : /\ OneMore(Emitted, G, d) /\ OneMore(G, Emitted', e)
                              /\ Marked(d, op.seq, op.at, first)
                              /\ Marked(e, op.seq + 1, op.at, second)
  <1> SUFFICES ASSUME op'.phase # "wedged"
               PROVE  \E p \in Prices : \E maker, units, first, second :
              /\ FillShows(maker, p, units, first, second)
              /\ op'.phase = "match" /\ op'.taker = op.taker /\ op'.fill = op.fill + 1
              /\ op'.seq = op.seq + 2 /\ op'.at = op.at
              /\ \E G, d, e : /\ OneMore(Emitted, G, d) /\ OneMore(G, Emitted', e)
                              /\ Marked(d, op.seq, op.at, first)
                              /\ Marked(e, op.seq + 1, op.at, second)
    OBVIOUS
  <1> DEFINE taker == op.taker
             o == orders[taker]
             b == books[o.instrument]
             side == Opposite(o.side)
  <1>1. op.phase = "match" /\ QueuesHoldResting /\ o.remaining > 0 /\ journal' = journal
    BY DEF MatchFill, Sweeping, QueueInv
  <1>2. PICK p \in Prices :
          LET maker  == MakerAt(o, p)
              units  == Lesser(o.remaining, orders[maker].remaining)
              moved  == [orders EXCEPT ![maker].remaining = @ - units,
                                       ![taker].remaining = @ - units]
              bodies ==
                << FillBody(maker, moved[maker], maker, taker, op.fill, p, units),
                   FillBody(taker, moved[taker], maker, taker, op.fill, p, units) >>
              gone   == ~Exhausted(bodies) /\ moved[maker].remaining = 0
          IN  /\ Facing(o, p)
              /\ Continue(bodies, "match", op.fill + 1)
              /\ orders' = IF gone THEN [moved EXCEPT ![maker].state = "filled"]
                           ELSE moved
              /\ books' = IF gone
                          THEN [books EXCEPT ![o.instrument] =
                                  ShiftBest(@, Opposite(o.side), p)]
                          ELSE books
    BY DEF MatchFill
  <1> DEFINE maker  == MakerAt(o, p)
             units  == Lesser(o.remaining, orders[maker].remaining)
             moved  == [orders EXCEPT ![maker].remaining = @ - units,
                                      ![taker].remaining = @ - units]
             first  == FillBody(maker, moved[maker], maker, taker, op.fill, p, units)
             second == FillBody(taker, moved[taker], maker, taker, op.fill, p, units)
             bodies == <<first, second>>
             gone   == ~Exhausted(bodies) /\ moved[maker].remaining = 0
             left   == orders[maker].remaining - units
  <1>3. /\ Facing(o, p)
        /\ Continue(bodies, "match", op.fill + 1)
        /\ orders' = IF gone THEN [moved EXCEPT ![maker].state = "filled"] ELSE moved
        /\ books' = IF gone THEN [books EXCEPT ![o.instrument] = ShiftBest(b, side, p)]
                    ELSE books
    BY <1>2
  <1>4. /\ p \in Live(b, side) /\ maker \in DOMAIN orders \ {taker}
        /\ orders[maker] \in Order /\ o \in Order /\ taker \in DOMAIN orders
        /\ b \in Book /\ o.instrument \in Instruments /\ side \in Sides
    <2>1. o \in Order /\ taker \in DOMAIN orders /\ books \in [Instruments -> Book]
      BY <1>1, TakerFacts
    <2>2. o.instrument \in Instruments /\ side \in Sides
      BY <2>1 DEF Order, Opposite, Sides
    <2>3. QED
      BY <1>1, <1>3, <2>1, <2>2, MakerFacts
  <1>5. maker = HeadOf(b, side, p)
    BY DEF MakerAt
  <1>6. Waits(maker) /\ orders[maker].instrument = o.instrument
        /\ orders[maker].side = side /\ orders[maker].price = p
    <2>1. b.levels[side][p] \in Seq(OrderIds) /\ b.levels[side][p] # << >>
      BY <1>4, BookFacts DEF Live
    <2>2. maker \in Queued(b, side, p)
      BY <1>5, <2>1, TailFacts DEF HeadOf, Queued
    <2>3. maker \in {id \in Holds(o.instrument) : orders[id].side = side
                                                  /\ orders[id].price = p}
      BY <1>1, <1>4, <2>2 DEF QueuesHoldResting
    <2>4. QED
      BY <2>3 DEF Holds
  <1>7. /\ units \in Nat /\ units > 0 /\ left \in Nat /\ o.remaining - units \in Nat
        /\ orders[maker].remaining \in Nat /\ o.remaining \in Nat
    <2>1. orders[maker].remaining > 0
      BY <1>1, <1>4, <1>6 DEF QueuesHoldResting
    <2>2. orders[maker].remaining \in Nat /\ o.remaining \in Nat
      BY <1>4 DEF Order
    <2>3. QED
      BY <1>1, <2>1, <2>2 DEF Lesser
  <1> HIDE DEF maker, bodies, gone
  <1>8. /\ DOMAIN moved = DOMAIN orders /\ moved = [x \in DOMAIN orders |-> moved[x]]
        /\ moved[maker] = [orders[maker] EXCEPT !.remaining = left]
        /\ moved[taker] = [o EXCEPT !.remaining = o.remaining - units]
        /\ \A x \in DOMAIN orders \ {maker, taker} : moved[x] = orders[x]
    BY <1>4 DEF EngineInv, OrdersInv
  <1> HIDE DEF units, moved, left
  <1>9. moved[maker].remaining = left /\ moved[taker].remaining = o.remaining - units
    BY <1>4, <1>8 DEF Order
  <1>10. ~Exhausted(bodies)
    <2> SUFFICES ASSUME Exhausted(bodies) PROVE FALSE
      OBVIOUS
    <2>1. op' = [op EXCEPT !.phase = "wedged", !.fill = op.fill + 1]
      BY <1>3 DEF Continue
    <2>2. QED
      BY <2>1 DEF EngineInv, OperationInv
  <1>11. gone = (left = 0)
    BY <1>9, <1>10 DEF gone
  <1>12. /\ DOMAIN orders' = DOMAIN orders /\ orders' = [x \in DOMAIN orders |-> orders'[x]]
         /\ orders'[taker] = moved[taker]
         /\ \A x \in DOMAIN orders \ {maker, taker} : orders'[x] = orders[x]
         /\ orders'[maker] = IF left = 0 THEN [moved[maker] EXCEPT !.state = "filled"]
                             ELSE moved[maker]
    <2>1. CASE left = 0
      <3>1. orders' = [moved EXCEPT ![maker].state = "filled"]
        BY <1>3, <1>11, <2>1
      <3>2. QED
        BY <1>4, <1>8, <2>1, <3>1
    <2>2. CASE left # 0
      <3>1. orders' = moved
        BY <1>3, <1>11, <2>2
      <3>2. QED
        BY <1>8, <2>2, <3>1
    <2>3. QED
      BY <2>1, <2>2
  <1>13. orders'[maker] = FilledEntry(orders[maker], left)
    <2>1. CASE left = 0
      <3>1. orders'[maker] = [[orders[maker] EXCEPT !.remaining = left] EXCEPT !.state = "filled"]
        BY <1>8, <1>12, <2>1
      <3>2. QED
        BY <1>4, <2>1, <3>1 DEF FilledEntry, Order
    <2>2. CASE left # 0
      <3>1. orders'[maker] = [orders[maker] EXCEPT !.remaining = left]
        BY <1>8, <1>12, <2>2
      <3>2. QED
        BY <1>4, <2>2, <3>1 DEF FilledEntry, Order
    <2>3. QED
      BY <2>1, <2>2
  <1>14. books' = IF left = 0 THEN Dequeue(books, maker, orders[maker]) ELSE books
    <2>1. CASE left = 0
      <3>1. books' = [books EXCEPT ![o.instrument] = ShiftBest(b, side, p)]
        BY <1>3, <1>11, <2>1
      <3>2. RemoveResting(b, maker, side, p) = ShiftBest(b, side, p)
        BY <1>1, <1>4, <1>5, ShiftIsRemoval DEF QueuesHoldResting
      <3>3. QED
        BY <1>6, <2>1, <3>1, <3>2 DEF Dequeue
    <2>2. CASE left # 0
      BY <1>3, <1>11, <2>2
    <2>3. QED
      BY <2>1, <2>2
  <1>15. /\ op'.phase = "match" /\ op'.taker = taker /\ op'.fill = op.fill + 1
         /\ op'.seq = op.seq + 2 /\ op'.at = op.at
    <2>1. op' = [op EXCEPT !.phase = "match", !.fill = op.fill + 1,
                           !.events = @ \o Stamped(bodies, op.seq, op.at),
                           !.seq = @ + Len(bodies)]
      BY <1>3, <1>10 DEF Continue
    <2>2. Len(bodies) = 2
      BY DEF bodies
    <2>3. QED
      BY <2>1, <2>2 DEF EngineInv, OperationInv
  <1>16. \E G, d, e : /\ OneMore(Emitted, G, d) /\ OneMore(G, Emitted', e)
                      /\ Marked(d, op.seq, op.at, first)
                      /\ Marked(e, op.seq + 1, op.at, second)
    <2>1. Continue(<<first, second>>, "match", op.fill + 1)
      BY <1>3 DEF bodies
    <2> HIDE DEF first, second
    <2>2. QED
      BY <1>1, <2>1, TwoAreEmitted
  <1>17. BestLevel(b, side, p) /\ Crosses(o, p)
    BY <1>3 DEF Facing, Matchable
  <1>18. /\ moved[maker].instrument = o.instrument /\ moved[maker].side = orders[maker].side
         /\ moved[taker].instrument = o.instrument /\ moved[taker].side = o.side
    BY <1>4, <1>6, <1>8 DEF Order
  <1>19. /\ first.type = (IF left = 0 THEN "filled" ELSE "partially_filled")
         /\ first.order_id = maker /\ first.instrument = o.instrument
         /\ first.side = orders[maker].side /\ first.remaining = left
         /\ second.type = (IF o.remaining - units = 0 THEN "filled" ELSE "partially_filled")
         /\ second.order_id = taker /\ second.instrument = o.instrument
         /\ second.side = o.side /\ second.remaining = o.remaining - units
         /\ \A x \in {first, second} :
              /\ x.fill_id = op.fill /\ x.maker_order_id = maker /\ x.taker_order_id = taker
              /\ x.price = p /\ x.quantity = units
    BY <1>9, <1>18 DEF FillBody
  <1> HIDE DEF first, second
  <1>20. FillShows(maker, p, units, first, second)
    BY <1>4, <1>5, <1>6, <1>7, <1>8, <1>12, <1>13, <1>14, <1>17, <1>19
    DEF FillShows, left
  <1>21. QED
    BY <1>15, <1>16, <1>20

LEMMA MakerLegAdmitted ==
  ASSUME EngineInv, QueueInv, EventsInv, MirrorInv, Sweeping, NEW p \in Prices, NEW maker,
         NEW units, NEW first, NEW second, FillShows(maker, p, units, first, second),
         NEW d, Marked(d, op.seq, lastAt, first)
  PROVE  Admits(Mirror, d) /\ InBook(Mirror, maker)
  <1> DEFINE t == op.taker
             o == orders[t]
             left == orders[maker].remaining - units
  <1>1. /\ op.phase = "match" /\ lastAt # -1 /\ t # Null
        /\ Mirror = State(orders, tracked, books, op.seq, op.fill - 1, lastAt, lastAt, t, {})
        /\ Mirror.orders = orders /\ Mirror.books = books
        /\ Mirror.inFlight = t /\ Mirror.pendingMaker = {}
    BY SweepMirror
  <1>2. /\ Mirror.expectedSeq = op.seq /\ Mirror.lastFill = op.fill - 1
        /\ Mirror.lastAt = lastAt /\ Mirror.opAt = lastAt
    BY <1>1 DEF State
  <1>3. /\ t \in DOMAIN orders /\ o \in Order /\ op.fill \in Nat \ {0} /\ op.seq \in 1 .. MaxSafe
        /\ 2 * op.fill <= op.seq
    BY <1>1, TakerFacts DEF EngineInv, CountersInv
  <1>4. /\ maker \in DOMAIN orders \ {t} /\ Waits(maker)
        /\ orders[maker].instrument = o.instrument
        /\ orders[maker].side = Opposite(o.side) /\ orders[maker].price = p
        /\ BestLevel(books[o.instrument], Opposite(o.side), p) /\ Crosses(o, p)
        /\ maker = HeadOf(books[o.instrument], Opposite(o.side), p)
        /\ units \in Nat /\ units > 0 /\ left \in Nat
        /\ first.type = (IF left = 0 THEN "filled" ELSE "partially_filled")
        /\ first.order_id = maker /\ first.instrument = o.instrument
        /\ first.side = orders[maker].side /\ first.remaining = left
        /\ first.fill_id = op.fill /\ first.maker_order_id = maker
        /\ first.taker_order_id = t /\ first.price = p /\ first.quantity = units
    BY DEF FillShows
  <1>5. /\ d.seq = op.seq /\ d.at = lastAt /\ d.body = first
    BY DEF Marked
  <1>6. orders[maker].state = "resting" /\ InBook(Mirror, maker)
    <2>1. QueuesHoldResting
      BY <1>1 DEF QueueInv
    <2>2. maker \in books[orders[maker].instrument].resting
      BY <1>4, <2>1, WaitingIsQueued
    <2>3. QED
      BY <1>1, <1>4, <2>2 DEF InBook, Waits
  <1>7. o.side \in Sides /\ orders[maker].side # o.side
    BY <1>3, <1>4 DEF Order, Sides, Opposite
  <1>8. OpensPair(Mirror, first)
    <2>1. op.fill = (op.fill - 1) + 1 /\ op.fill < MaxSafe
      BY <1>3, EventConstants
    <2>2. /\ BestLevel(books[orders[maker].instrument], orders[maker].side, p)
          /\ HeadOf(books[orders[maker].instrument], orders[maker].side, p) = maker
          /\ Crosses(o, orders[maker].price)
      BY <1>4
    <2> HIDE DEF o, left, t
    <2>3. QED
      BY <1>1, <1>2, <1>4, <1>6, <2>1, <2>2 DEF OpensPair, o, t
  <1>9. (first.type = "filled") <=> (first.remaining = 0)
    BY <1>4
  <1>10. orders[maker].remaining - first.quantity = first.remaining
    BY <1>4
  <1>11. AdmitsFill(Mirror, first)
    <2>1. NamesOrder(Mirror, first)
      BY <1>1, <1>4 DEF NamesOrder
    <2> HIDE DEF left
    <2>2. QED
      BY <1>1, <1>3, <1>4, <1>7, <1>8, <1>9, <1>10, <2>1 DEF AdmitsFill
  <1>12. IsFill(d) /\ StaysInOperation(Mirror, first)
    BY <1>4, <1>5 DEF IsFill, StaysInOperation
  <1>13. EnvelopeFits(Mirror, d)
    <2>1. lastAt >= lastAt
      BY EngineConstants DEF EngineInv, CountersInv
    <2>2. QED
      BY <1>2, <1>5, <2>1 DEF EnvelopeFits
  <1>14. QED
    BY <1>5, <1>6, <1>11, <1>12, <1>13 DEF Admits

HalfPaired(s, os, maker, first) ==
  /\ os = [orders EXCEPT ![maker] = orders'[maker]]
  /\ s = State(os, tracked, books', op.seq + 1, op.fill, lastAt, lastAt,
               op.taker, {Pair(first)})

LEMMA TakerLegAdmitted ==
  ASSUME EngineInv, QueueInv, EventsInv, MirrorInv, Sweeping, NEW p \in Prices, NEW maker,
         NEW units, NEW first, NEW second, FillShows(maker, p, units, first, second),
         NEW s, NEW os, HalfPaired(s, os, maker, first),
         NEW e, Marked(e, op.seq + 1, lastAt, second)
  PROVE  /\ Admits(s, e) /\ ~InBook(s, op.taker) /\ os[op.taker] = orders[op.taker]
         /\ DOMAIN os = DOMAIN orders
  <1> DEFINE t == op.taker
             o == orders[t]
             left == orders[maker].remaining - units
             rest == o.remaining - units
  <1>0. /\ os = [orders EXCEPT ![maker] = orders'[maker]]
        /\ s = State(os, tracked, books', op.seq + 1, op.fill, lastAt, lastAt,
                     op.taker, {Pair(first)})
    BY DEF HalfPaired
  <1> USE <1>0
  <1>1. /\ s.orders = os /\ s.books = books' /\ s.expectedSeq = op.seq + 1
        /\ s.lastFill = op.fill /\ s.lastAt = lastAt /\ s.opAt = lastAt
        /\ s.inFlight = t /\ s.pendingMaker = {Pair(first)}
    BY DEF State
  <1>2. /\ op.phase = "match" /\ t # Null /\ t \in DOMAIN orders /\ o \in Order
        /\ o.state = "resting" /\ t \notin books[o.instrument].resting
        /\ books \in [Instruments -> Book] /\ o.instrument \in Instruments
    <2>1. op.phase = "match" /\ t # Null /\ InFlight(Mirror, t)
      BY SweepMirror
    <2>2. Mirror.orders = orders /\ Mirror.books = books
      BY SweepMirror
    <2>3. t \in DOMAIN orders /\ o \in Order /\ books \in [Instruments -> Book]
      BY <2>1, TakerFacts
    <2>4. QED
      BY <2>1, <2>2, <2>3 DEF InFlight, InBook, Order
  <1>3. /\ maker \in DOMAIN orders \ {t} /\ Waits(maker)
        /\ orders[maker].instrument = o.instrument
        /\ orders[maker].side = Opposite(o.side) /\ orders[maker].price = p
        /\ units \in Nat /\ units > 0 /\ rest \in Nat
        /\ second.type = (IF rest = 0 THEN "filled" ELSE "partially_filled")
        /\ second.order_id = t /\ second.instrument = o.instrument
        /\ second.side = o.side /\ second.remaining = rest
        /\ second.fill_id = first.fill_id /\ second.maker_order_id = maker
        /\ second.taker_order_id = t /\ second.price = p /\ second.quantity = units
        /\ first.maker_order_id = maker /\ first.taker_order_id = t /\ first.quantity = units
        /\ orders'[maker] = FilledEntry(orders[maker], left)
        /\ books' = IF left = 0 THEN Dequeue(books, maker, orders[maker]) ELSE books
    BY DEF FillShows
  <1>4. e.seq = op.seq + 1 /\ e.at = lastAt /\ e.body = second
    BY DEF Marked
  <1>5. /\ DOMAIN os = DOMAIN orders /\ os[t] = o /\ os[maker] = FilledEntry(orders[maker], left)
    BY <1>2, <1>3
  <1>6. /\ os[maker].instrument = o.instrument /\ os[maker].side = Opposite(o.side)
        /\ os[maker].price = p
    <2>1. orders[maker] \in Order
      BY <1>3 DEF EngineInv, OrdersInv
    <2> HIDE DEF left
    <2>2. /\ FilledEntry(orders[maker], left).instrument = orders[maker].instrument
          /\ FilledEntry(orders[maker], left).side = orders[maker].side
          /\ FilledEntry(orders[maker], left).price = orders[maker].price
      BY <2>1 DEF FilledEntry, Order
    <2>3. QED
      BY <1>3, <1>5, <2>2
  <1>7. t \notin books'[o.instrument].resting
    <2>1. CASE left # 0
      BY <1>2, <1>3, <2>1
    <2>2. CASE left = 0
      <3>1. books' = Dequeue(books, maker, orders[maker])
        BY <1>3, <2>2
      <3>2. books'[o.instrument] = RemoveResting(books[o.instrument], maker,
                                                 orders[maker].side, p)
        BY <1>2, <1>3, <3>1 DEF Dequeue
      <3>3. books[o.instrument] \in Book /\ maker \in OrderIds /\ orders[maker].side \in Sides
        BY <1>2, <1>3 DEF EngineInv, OrdersInv, Order
      <3>4. NoLarger(books[o.instrument], books'[o.instrument])
        BY <3>2, <3>3, RemoveShrinks
      <3>5. QED
        BY <1>2, <3>4 DEF NoLarger
    <2>3. QED
      BY <2>1, <2>2
  <1>8. InFlight(s, t) /\ ~InBook(s, t)
    BY <1>1, <1>2, <1>5, <1>7 DEF InFlight, InBook
  <1>9. ClosesPair(s, second)
    <2>1. Pair(first) = Pair(second)
      BY <1>3 DEF Pair
    <2>2. QED
      BY <1>1, <1>3, <1>8, <2>1 DEF ClosesPair
  <1>10. o.side \in Sides /\ os[maker].side # os[t].side
    BY <1>2, <1>5, <1>6 DEF Order, Sides, Opposite
  <1>11. AdmitsFill(s, second)
    <2>a. /\ second.order_id = t /\ second.instrument = o.instrument /\ second.side = o.side
          /\ second.maker_order_id = maker /\ second.taker_order_id = t /\ second.price = p
          /\ second.quantity = units /\ second.type \in {"filled", "partially_filled"}
          /\ units > 0 /\ maker \in DOMAIN os /\ maker # t /\ t \in DOMAIN os
      BY <1>2, <1>3, <1>5
    <2> HIDE DEF o, t
    <2>1. NamesOrder(s, second)
      BY <1>1, <1>5, <2>a DEF NamesOrder
    <2>2. /\ (second.type = "filled") <=> (second.remaining = 0)
          /\ os[t].remaining - second.quantity = second.remaining
      BY <1>3, <1>5
    <2> HIDE DEF left, rest
    <2>3. QED
      <3>1. {maker, t} \subseteq DOMAIN s.orders /\ second.taker_order_id = s.inFlight
        BY <1>1, <2>a
      <3>2. /\ s.orders[maker].instrument = second.instrument
            /\ s.orders[t].instrument = second.instrument
            /\ s.orders[maker].side # s.orders[t].side /\ second.price = s.orders[maker].price
            /\ s.orders[t].remaining - second.quantity = second.remaining
        BY <1>1, <1>5, <1>6, <1>10, <2>a, <2>2, ZenonT(30)
      <3>3. second.maker_order_id = maker /\ second.taker_order_id = t /\ maker # t
              /\ second.order_id = t /\ second.quantity > 0
        BY <2>a
      <3>4. s.orders[t].remaining - second.quantity = second.remaining
              /\ ((second.type = "filled") <=> (second.remaining = 0))
        BY <2>2, <3>2
      <3>5. QED
        BY ONLY <1>9, <2>1, <3>1, <3>2, <3>3, <3>4 DEF AdmitsFill
  <1>12. IsFill(e) /\ StaysInOperation(s, second)
    BY <1>3, <1>4 DEF IsFill, StaysInOperation
  <1>13. EnvelopeFits(s, e)
    <2>1. lastAt >= lastAt
      BY EngineConstants DEF EngineInv, CountersInv
    <2>2. QED
      BY <1>1, <1>4, <2>1 DEF EnvelopeFits
  <1>14. QED
    BY <1>4, <1>5, <1>8, <1>11, <1>12, <1>13 DEF Admits

LEMMA FillMirror ==
  ASSUME EngineInv, QueueInv, EventsInv, MirrorInv, MatchFill
  PROVE  MirrorInv'
  <1> DEFINE t == op.taker
             o == orders[t]
  <1>1. Sweeping /\ tracked' = tracked /\ lastAt' = lastAt
    BY DEF MatchFill
  <1>2. CASE op'.phase = "wedged"
    BY <1>2, WedgedMirror
  <1>3. ASSUME NEW p \in Prices, NEW maker, NEW units, NEW first, NEW second,
               FillShows(maker, p, units, first, second),
               op'.phase = "match", op'.taker = op.taker, op'.fill = op.fill + 1,
               op'.seq = op.seq + 2, op'.at = op.at,
               NEW G, NEW d, NEW e, OneMore(Emitted, G, d), OneMore(G, Emitted', e),
               Marked(d, op.seq, op.at, first), Marked(e, op.seq + 1, op.at, second)
        PROVE  MirrorInv'
    <2> DEFINE left == orders[maker].remaining - units
               rest == o.remaining - units
               os == [orders EXCEPT ![maker] = orders'[maker]]
               pair == {Pair(first)}
               s == State(os, tracked, books', op.seq + 1, op.fill, lastAt, lastAt, t, pair)
               new == FilledEntry(o, rest)
    <2>1. /\ op.phase = "match" /\ op.at = lastAt /\ lastAt # -1 /\ t # Null
          /\ Mirror = State(orders, tracked, books, op.seq, op.fill - 1, lastAt, lastAt, t, {})
      BY <1>1, SweepMirror
    <2>2. /\ maker \in DOMAIN orders \ {t}
          /\ first.type \in {"filled", "partially_filled"} /\ first.order_id = maker
          /\ first.remaining = left /\ first.fill_id = op.fill /\ first.taker_order_id = t
          /\ second.type \in {"filled", "partially_filled"} /\ second.order_id = t
          /\ second.remaining = rest /\ second.fill_id = op.fill /\ second.taker_order_id = t
          /\ DOMAIN orders' = DOMAIN orders /\ orders' = [x \in DOMAIN orders |-> orders'[x]]
          /\ \A x \in DOMAIN orders \ {maker, t} : orders'[x] = orders[x]
          /\ orders'[maker] = FilledEntry(orders[maker], left)
          /\ orders'[t] = [o EXCEPT !.remaining = rest]
          /\ books' = IF left = 0 THEN Dequeue(books, maker, orders[maker]) ELSE books
      BY <1>3 DEF FillShows
    <2> HIDE DEF left, rest
    <2>3. /\ d.seq = op.seq /\ d.at = lastAt /\ d.body = first
          /\ e.seq = op.seq + 1 /\ e.at = lastAt /\ e.body = second
          /\ Marked(d, op.seq, lastAt, first) /\ Marked(e, op.seq + 1, lastAt, second)
      BY <1>3, <2>1 DEF Marked
    <2>4. Admits(Mirror, d) /\ InBook(Mirror, maker)
      BY <1>1, <1>3, <2>3, MakerLegAdmitted
    <2>5. FoldEvent(Mirror, d) = s
      <3> DEFINE fresh == orders'[maker]
                 z == os
                 pp == pair
      <3>1. /\ IsFill(d) /\ maker = d.body.order_id
            /\ fresh = FilledEntry(orders[maker], d.body.remaining)
            /\ books' = IF d.body.remaining = 0 /\ InBook(Mirror, maker)
                        THEN Dequeue(books, maker, orders[maker]) ELSE books
            /\ t = IF d.body.remaining = 0 /\ maker = d.body.taker_order_id
                   THEN Null ELSE t
            /\ pp = IF {} = {} THEN {Pair(d.body)} ELSE {}
            /\ z = [orders EXCEPT ![maker] = fresh]
        BY <2>2, <2>3, <2>4 DEF IsFill
      <3> HIDE DEF fresh, z, pp
      <3>2. FoldEvent(Mirror, d) =
              State(z, tracked, books', d.seq + 1, d.body.fill_id, d.at, lastAt, t, pp)
        <4>1. FillStep(orders, tracked, books, op.seq, op.fill - 1, lastAt, lastAt, t, {},
                       Mirror, d, maker, fresh, z, books', t, pp)
          BY <2>1, <2>4, <3>1 DEF FillStep
        <4>2. QED
          BY ONLY <4>1, FoldsFill
      <3>3. QED
        BY <2>2, <2>3, <3>2 DEF z, pp
    <2>6. /\ Admits(s, e) /\ ~InBook(s, t) /\ os[t] = o /\ DOMAIN os = DOMAIN orders
      <3> DEFINE z == os
                 ss == s
      <3>1. z = [orders EXCEPT ![maker] = orders'[maker]]
            /\ ss = State(z, tracked, books', op.seq + 1, op.fill, lastAt, lastAt,
                         op.taker, {Pair(first)})
        OBVIOUS
      <3> HIDE DEF z, ss
      <3>2. Admits(ss, e) /\ ~InBook(ss, op.taker) /\ z[op.taker] = orders[op.taker]
            /\ DOMAIN z = DOMAIN orders
        <4>1. EngineInv /\ QueueInv /\ EventsInv /\ MirrorInv /\ Sweeping
          BY <1>1
        <4>2. p \in Prices /\ FillShows(maker, p, units, first, second)
              /\ Marked(e, op.seq + 1, lastAt, second)
          BY <1>3, <2>3
        <4>3. HalfPaired(ss, z, maker, first)
          BY <3>1 DEF HalfPaired
        <4>4. QED
          BY ONLY <4>1, <4>2, <4>3, TakerLegAdmitted
      <3>3. QED
        BY <3>2 DEF z, ss
    <2>7. FoldEvent(s, e) =
            State([os EXCEPT ![t] = new], tracked, books', e.seq + 1, op.fill, lastAt,
                  lastAt, IF rest = 0 THEN Null ELSE t, {})
      <3> DEFINE z == os
                 ss == s
                 pp == pair
                 zz == [os EXCEPT ![t] = new]
                 is == IF rest = 0 THEN Null ELSE t
      <3>1. /\ IsFill(e) /\ t = e.body.order_id
            /\ new = FilledEntry(z[t], e.body.remaining)
            /\ zz = [z EXCEPT ![t] = new]
            /\ books' = IF e.body.remaining = 0 /\ InBook(ss, t)
                        THEN Dequeue(books', t, z[t]) ELSE books'
            /\ is = IF e.body.remaining = 0 /\ t = e.body.taker_order_id
                    THEN Null ELSE t
            /\ {} = IF pp = {} THEN {Pair(e.body)} ELSE {}
            /\ ss = State(z, tracked, books', op.seq + 1, op.fill, lastAt, lastAt, t, pp)
            /\ Admits(ss, e)
        BY <2>2, <2>3, <2>6 DEF IsFill
      <3> HIDE DEF new, z, ss, pp, zz, is
      <3>2. FoldEvent(ss, e) =
              State(zz, tracked, books', e.seq + 1, e.body.fill_id, e.at, lastAt, is, {})
        <4>1. FillStep(z, tracked, books', op.seq + 1, op.fill, lastAt, lastAt, t, pp,
                       ss, e, t, new, zz, books', is, {})
          BY <2>1, <3>1 DEF FillStep
        <4>2. QED
          BY ONLY <4>1, FoldsFill
      <3>3. QED
        BY <2>2, <2>3, <3>2 DEF z, ss, zz, is
    <2>8. /\ orders'[t].remaining = rest
          /\ new = IF rest = 0 THEN [orders'[t] EXCEPT !.state = "filled"] ELSE orders'[t]
      <3>1. o \in Order
        BY <2>1, TakerFacts
      <3> DEFINE r == orders'[t]
      <3>2. r = [o EXCEPT !.remaining = rest]
        BY <2>2
      <3> HIDE DEF o, r
      <3>3. r.remaining = rest /\ [r EXCEPT !.state = "filled"]
                                 = [o EXCEPT !.remaining = rest, !.state = "filled"]
        BY <3>1, <3>2 DEF Order
      <3>4. new = IF rest = 0 THEN [o EXCEPT !.remaining = rest, !.state = "filled"]
                  ELSE [o EXCEPT !.remaining = rest]
        BY <3>1 DEF FilledEntry, Order
      <3>5. new = IF rest = 0 THEN [r EXCEPT !.state = "filled"] ELSE r
        BY <3>2, <3>3, <3>4
      <3>6. QED
        BY <3>3, <3>5 DEF r
    <2>9. [os EXCEPT ![t] = new] = Shown'
      <3>1. Zeroed' <=> rest = 0
        BY <1>3, <2>8 DEF Zeroed
      <3>2. t \in DOMAIN orders
        BY <2>1, TakerFacts
      <3> DEFINE aim == Shown'
                 z == [os EXCEPT ![t] = new]
      <3>3. aim = IF rest = 0 THEN [orders' EXCEPT ![t].state = "filled"] ELSE orders'
        BY <1>3, <3>1 DEF Shown
      <3> HIDE DEF aim, new
      <3>4. /\ aim = [x \in DOMAIN orders |-> aim[x]]
            /\ \A x \in DOMAIN orders \ {t} : aim[x] = orders'[x]
            /\ aim[t] = new
        BY <2>2, <2>8, <3>2, <3>3
      <3>5. /\ DOMAIN os = DOMAIN orders
            /\ \A x \in DOMAIN orders \ {t} : os[x] = orders'[x]
        BY <2>2
      <3>6. orders = [x \in DOMAIN orders |-> orders[x]]
        BY DEF EngineInv, OrdersInv
      <3>7. os = [x \in DOMAIN orders |-> os[x]]
        BY <3>6
      <3> HIDE DEF os
      <3>8. z = [x \in DOMAIN orders |-> z[x]] /\ z[t] = new
            /\ \A x \in DOMAIN orders \ {t} : z[x] = orders'[x]
        BY <3>2, <3>5, <3>7
      <3> HIDE DEF z
      <3>9. \A x \in DOMAIN orders : z[x] = aim[x]
        BY <3>4, <3>8
      <3>10. z = aim
        BY <3>4, <3>8, <3>9
      <3>11. QED
        BY <3>10 DEF z, aim
    <2>10. Mirror' = State(Shown', tracked, books', op.seq + 2, op.fill, lastAt, lastAt,
                           IF rest = 0 THEN Null ELSE t, {})
      <3>1. Zeroed' <=> rest = 0
        BY <1>3, <2>8 DEF Zeroed
      <3>2. Taking' = IF rest = 0 THEN Null ELSE t
        BY <1>3, <3>1 DEF Taking
      <3>3. (op.fill + 1) - 1 = op.fill
        BY <2>1 DEF EngineInv, CountersInv
      <3>4. SeqNo' = op.seq + 2 /\ FillId' - 1 = op.fill
        BY <1>3, <3>3 DEF SeqNo, FillId
      <3>5. OpenedAt' = lastAt
        BY <1>1, <2>1 DEF OpenedAt
      <3>6. QED
        BY <1>1, <3>2, <3>4, <3>5 DEF Mirror
    <2>11. Folded(FoldStart, Emitted') = Mirror'
      <3>1. Folded(FoldStart, Emitted) = Mirror
        BY <2>1 DEF MirrorInv
      <3>2. Folded(FoldStart, G) = FoldEvent(Mirror, d)
        BY <1>3, <3>1, FoldedMore
      <3>3. Folded(FoldStart, Emitted') = FoldEvent(Folded(FoldStart, G), e)
        BY <1>3, FoldedMore
      <3>4. e.seq + 1 = op.seq + 2
        BY <2>1, <2>3 DEF EngineInv, CountersInv
      <3> HIDE DEF s, os, new
      <3>5. QED
        BY <2>5, <2>7, <2>9, <2>10, <3>2, <3>3, <3>4
    <2>12. QED
      BY <1>1, <1>3, <2>1, <2>11 DEF MirrorInv
  <1>4. QED
    BY <1>2, <1>3, FillExecutes

LEMMA MirrorNext ==
  ASSUME EngineInv, QueueInv, TradeInv, MirrorInv, [Next]_vars
  PROVE  MirrorInv'
  <1>1. EventsInv
    BY DEF TradeInv
  <1>2. ASSUME NEW now \in Times, NEW o \in Submissions, SubmitOrder(o, now)
        PROVE  MirrorInv'
    <2>1. CASE SubmitRejected(o, now)
      <3>1. PICK k \in DOMAIN SubmitChecks(o) :
              /\ FirstFailure(SubmitChecks(o), k)
              /\ RejectWith(now, o.order_id, o.instrument, o.side,
                            SubmitChecks(o)[k].reason)
        BY <2>1 DEF SubmitRejected
      <3>2. BeginOperation(now) /\ op.phase = "idle"
        BY <2>1 DEF SubmitRejected, BeginOperation
      <3> DEFINE reason == SubmitChecks(o)[k].reason
      <3> HIDE DEF reason
      <3>3. reason \notin TerminalReasons
            /\ Earned(Mirror, RejectedBody(o.order_id, o.instrument, o.side, reason))
        BY <3>1, <3>2, SubmitEarns DEF reason
      <3>4. QED
        BY <1>1, <3>1, <3>2, <3>3, RefusedMirror DEF reason
    <2>2. QED
      BY <1>1, <1>2, <2>1, SubmitMirror DEF SubmitOrder
  <1>3. ASSUME NEW now \in Times, NEW c \in Cancellations, CancelOrder(c, now)
        PROVE  MirrorInv'
    <2>1. CASE CancelRejected(c, now)
      <3>1. PICK k \in DOMAIN CancelChecks(c) :
              /\ FirstFailure(CancelChecks(c), k)
              /\ RejectWith(now, c.order_id, c.instrument, Null,
                            CancelChecks(c)[k].reason)
        BY <2>1 DEF CancelRejected
      <3>2. BeginOperation(now) /\ op.phase = "idle"
        BY <2>1 DEF CancelRejected, BeginOperation
      <3> DEFINE reason == CancelChecks(c)[k].reason
      <3> HIDE DEF reason
      <3>3. reason \notin TerminalReasons
            /\ Earned(Mirror, RejectedBody(c.order_id, c.instrument, Null, reason))
        BY <3>1, <3>2, CancelEarns DEF reason
      <3>4. QED
        BY <1>1, <3>1, <3>2, <3>3, RefusedMirror DEF reason
    <2>2. QED
      BY <1>1, <1>3, <2>1, CancelMirror DEF CancelOrder
  <1>4. ASSUME NEW now \in Times, NEW a \in Amendments, AmendOrder(a, now)
        PROVE  MirrorInv'
    <2>1. CASE AmendRejected(a, now)
      <3>1. PICK k \in DOMAIN AmendChecks(a) :
              /\ FirstFailure(AmendChecks(a), k)
              /\ LET known == k > 2 /\ a.order_id \in DOMAIN orders
                 IN  RejectWith(now,
                       IF k = 1 THEN Null ELSE a.order_id,
                       IF known THEN orders[a.order_id].instrument ELSE Null,
                       IF known THEN orders[a.order_id].side ELSE Null,
                       AmendChecks(a)[k].reason)
        BY <2>1 DEF AmendRejected
      <3>2. BeginOperation(now) /\ op.phase = "idle"
        BY <2>1 DEF AmendRejected, BeginOperation
      <3> DEFINE reason == AmendChecks(a)[k].reason
                 known == (k > 2 /\ a.order_id \in DOMAIN orders)
                 id == IF k = 1 THEN Null ELSE a.order_id
                 instrument == IF known THEN orders[a.order_id].instrument ELSE Null
                 side == IF known THEN orders[a.order_id].side ELSE Null
      <3>3. /\ RejectWith(now, id, instrument, side, reason)
            /\ reason = AmendChecks(a)[k].reason
            /\ known = (k > 2 /\ a.order_id \in DOMAIN orders)
            /\ id = IF k = 1 THEN Null ELSE a.order_id
            /\ instrument = IF known THEN orders[a.order_id].instrument ELSE Null
            /\ side = IF known THEN orders[a.order_id].side ELSE Null
        BY <3>1
      <3> HIDE DEF reason, known, id, instrument, side
      <3>4. reason \notin TerminalReasons
            /\ Earned(Mirror, RejectedBody(id, instrument, side, reason))
        BY <3>1, <3>2, <3>3, AmendEarns
      <3>5. QED
        BY <1>1, <3>2, <3>3, <3>4, RefusedMirror
    <2>2. QED
      BY <1>1, <1>4, <2>1, InPlaceMirror, RequeuedMirror DEF AmendOrder
  <1>5. CASE MatchTaker
    <2>1. CASE MatchSelfTrade
      <3>1. /\ Sweeping /\ orders' = [orders EXCEPT ![op.taker].state = "rejected"]
            /\ \E p \in Prices : Facing(orders[op.taker], p)
                                 /\ SelfTrade(orders[op.taker], MakerAt(orders[op.taker], p))
            /\ Continue(<<TerminalBody(op.taker, orders[op.taker], "self_trade")>>,
                        "finish", op.fill)
            /\ UNCHANGED <<tracked, books, journal, lastAt>>
        BY <2>1 DEF MatchSelfTrade
      <3>2. "self_trade" \in TerminalReasons
        BY DEF TerminalReasons
      <3>3. QED
        BY <1>1, <3>1, <3>2, TerminalMirror
    <2>2. CASE MatchRunsDry
      <3>1. /\ Sweeping /\ orders' = [orders EXCEPT ![op.taker].state = "rejected"]
            /\ orders[op.taker].order_type = "market" /\ Matchable(orders[op.taker]) = {}
            /\ Continue(<<TerminalBody(op.taker, orders[op.taker], "insufficient_liquidity")>>,
                        "finish", op.fill)
            /\ UNCHANGED <<tracked, books, journal, lastAt>>
        BY <2>2 DEF MatchRunsDry
      <3>2. "insufficient_liquidity" \in TerminalReasons
            /\ "insufficient_liquidity" # "self_trade"
        BY DEF TerminalReasons
      <3>3. QED
        BY <1>1, <3>1, <3>2, TerminalMirror
    <2>3. QED
      BY <1>1, <1>5, <2>1, <2>2, FillMirror, RestsMirror, CompletesMirror DEF MatchTaker
  <1>6. CASE UNCHANGED vars
    <2>1. Emitted' = Emitted /\ Mirror' = Mirror /\ op' = op /\ lastAt' = lastAt
      BY <1>6 DEF vars, Emitted, Mirror, Shown, Taking, Zeroed, SeqNo, FillId, OpenedAt
    <2>2. QED
      BY <2>1 DEF MirrorInv
  <1>7. QED
    BY <1>1, <1>2, <1>3, <1>4, <1>5, <1>6, CommitMirror DEF Next, Call

-----------------------------------------------------------------------------
(* Recursions over the length of a sequence.                               *)

LEMMA UpFromZero ==
  ASSUME NEW Good, 0 \in Good, \A n \in Nat : n \in Good => n + 1 \in Good
  PROVE  Nat \subseteq Good
  <1> DEFINE Missed == {n \in Nat : n \notin Good}
  <1> SUFFICES ASSUME Missed # {} PROVE FALSE
    OBVIOUS
  <1>1. PICK m \in Missed : \A n \in Missed : ~(n < m)
    BY LeastNatural
  <1>2. m - 1 \in Nat /\ m - 1 < m /\ (m - 1) + 1 = m
    OBVIOUS
  <1>3. QED
    BY <1>1, <1>2

IsRun(f, first, N, step) ==
  f = [n \in 0 .. N |-> IF n = 0 THEN first ELSE step[<<f[n - 1], n>>]]

LEMMA RunExists ==
  ASSUME NEW V, NEW first \in V, NEW N \in Nat, NEW step \in [V \X (1 .. N) -> V]
  PROVE  \E f \in [0 .. N -> V] : IsRun(f, first, N, step)
  <1> DEFINE Rec(f, n) == IF n = 0 THEN first ELSE step[<<f[n - 1], n>>]
             To(M) == \E f \in [0 .. N -> V] : \A n \in 0 .. N : n <= M => f[n] = Rec(f, n)
             Good == {M \in Nat : To(M)}
  <1>1. To(0)
    <2> DEFINE f == [n \in 0 .. N |-> first]
    <2>1. f \in [0 .. N -> V] /\ \A n \in 0 .. N : n <= 0 => f[n] = Rec(f, n)
      OBVIOUS
    <2>2. QED
      BY <2>1
  <1>2. ASSUME NEW M \in Nat, To(M) PROVE To(M + 1)
    <2>1. PICK f \in [0 .. N -> V] : \A n \in 0 .. N : n <= M => f[n] = Rec(f, n)
      BY <1>2
    <2>2. CASE M + 1 > N
      <3>1. \A n \in 0 .. N : n <= M
        BY <2>2
      <3>2. \A n \in 0 .. N : n <= M + 1 => f[n] = Rec(f, n)
        BY <2>1, <3>1
      <3>3. QED
        BY <3>2
    <2>3. CASE M + 1 <= N
      <3> DEFINE last == step[<<f[M], M + 1>>]
                 g == [n \in 0 .. N |-> IF n = M + 1 THEN last ELSE f[n]]
      <3>1. last \in V
        <4>1. <<f[M], M + 1>> \in V \X (1 .. N)
          BY <2>3
        <4>2. QED
          BY <4>1
      <3>2. g \in [0 .. N -> V]
        BY <3>1
      <3> HIDE DEF last
      <3>3. /\ g[M + 1] = last
            /\ \A n \in 0 .. N : n # M + 1 => g[n] = f[n]
        BY <2>3
      <3> HIDE DEF g
      <3>4. g[M + 1] = Rec(g, M + 1)
        <4>1. M + 1 # 0 /\ (M + 1) - 1 = M /\ g[M] = f[M]
          BY <2>3, <3>3
        <4>2. QED
          BY <3>3, <4>1 DEF last
      <3>5. ASSUME NEW n \in 0 .. N, n <= M PROVE g[n] = Rec(g, n)
        <4>1. g[n] = f[n] /\ (n # 0 => g[n - 1] = f[n - 1])
          BY <3>3, <3>5
        <4>2. f[n] = Rec(f, n)
          BY <2>1, <3>5
        <4>3. QED
          BY <4>1, <4>2
      <3> HIDE DEF Rec
      <3>6. ASSUME NEW n \in 0 .. N, n <= M + 1 PROVE g[n] = Rec(g, n)
        <4>1. n <= M \/ n = M + 1
          BY <3>6
        <4>2. QED
          BY <3>4, <3>5, <4>1
      <3>7. QED
        BY <3>2, <3>6
    <2>4. QED
      BY <2>2, <2>3, SMTT(30)
  <1> HIDE DEF To
  <1>3. Nat \subseteq Good
    <2>1. 0 \in Good /\ \A n \in Nat : n \in Good => n + 1 \in Good
      BY <1>1, <1>2
    <2> HIDE DEF Good
    <2>2. QED
      BY <2>1, UpFromZero
  <1>4. PICK f \in [0 .. N -> V] : \A n \in 0 .. N : n <= N => f[n] = Rec(f, n)
    BY <1>3 DEF To
  <1>5. \A n \in 0 .. N : f[n] = Rec(f, n)
    BY <1>4
  <1>6. IsRun(f, first, N, step)
    BY <1>4, <1>5 DEF IsRun
  <1>7. QED
    BY <1>4, <1>6

(* The entries of a sequence that belong to a set, in their order.         *)
UpTo(s, n) == {s[k] : k \in 1 .. n}

LinedUpTo(s, n, x, y) == \E j, k \in 1 .. n : j < k /\ s[j] = x /\ s[k] = y

IsPick(a, s, set, n) ==
  /\ Range(a) = UpTo(s, n) \cap set
  /\ Unrepeated(s) => Unrepeated(a)
  /\ \A x, y : InOrder(a, x, y) => LinedUpTo(s, n, x, y)

LEMMA UpToMore ==
  ASSUME NEW S, NEW s \in Seq(S), NEW n \in Nat, n < Len(s)
  PROVE  /\ UpTo(s, n + 1) = UpTo(s, n) \cup {s[n + 1]}
         /\ Unrepeated(s) => s[n + 1] \notin UpTo(s, n)
         /\ \A x, y : LinedUpTo(s, n, x, y) => LinedUpTo(s, n + 1, x, y)
         /\ \A x : x \in UpTo(s, n) => LinedUpTo(s, n + 1, x, s[n + 1])
  <1>1. /\ n + 1 \in 1 .. n + 1
        /\ \A k \in 1 .. n + 1 : k \in 1 .. n \/ k = n + 1
        /\ \A k \in 1 .. n : k \in 1 .. n + 1 /\ k < n + 1 /\ k \in 1 .. Len(s)
        /\ n + 1 \in 1 .. Len(s)
    OBVIOUS
  <1>2. UpTo(s, n + 1) = UpTo(s, n) \cup {s[n + 1]}
    BY <1>1 DEF UpTo
  <1>3. Unrepeated(s) => s[n + 1] \notin UpTo(s, n)
    <2> SUFFICES ASSUME Unrepeated(s), NEW k \in 1 .. n, s[k] = s[n + 1] PROVE FALSE
      BY DEF UpTo
    <2>1. k = n + 1
      BY <1>1 DEF Unrepeated
    <2>2. QED
      BY <2>1
  <1>4. QED
    BY <1>1, <1>2, <1>3 DEF UpTo, LinedUpTo

LEMMA AmongFacts ==
  ASSUME NEW S, NEW s \in Seq(S), NEW set
  PROVE  /\ Among(s, set) \in Seq(S)
         /\ Range(Among(s, set)) = Range(s) \cap set
         /\ Unrepeated(s) => Unrepeated(Among(s, set))
         /\ \A x, y : InOrder(Among(s, set), x, y) => InOrder(s, x, y)
  <1> DEFINE N == Len(s)
             V == Seq(S)
             Is(f) == f = [n \in 0 .. N |->
                             IF n = 0 THEN << >>
                             ELSE IF s[n] \in set THEN Append(f[n - 1], s[n])
                             ELSE f[n - 1]]
             a == CHOOSE f : Is(f)
             step == [x \in V \X (1 .. N) |->
                        IF s[x[2]] \in set THEN Append(x[1], s[x[2]]) ELSE x[1]]
  <1>1. N \in Nat /\ \A n \in 1 .. N : s[n] \in S
    OBVIOUS
  <1>2. step \in [V \X (1 .. N) -> V]
    <2>1. ASSUME NEW x \in V \X (1 .. N)
          PROVE  (IF s[x[2]] \in set THEN Append(x[1], s[x[2]]) ELSE x[1]) \in V
      <3>1. x[1] \in Seq(S) /\ s[x[2]] \in S
        BY <1>1
      <3>2. QED
        BY <3>1
    <2>2. QED
      BY <2>1
  <1>3. << >> \in V
    OBVIOUS
  <1>4. PICK f \in [0 .. N -> V] : IsRun(f, << >>, N, step)
    <2> HIDE DEF N, V, step
    <2>1. QED
      BY <1>1, <1>2, <1>3, RunExists
  <1>5. Is(f)
    <2>1. ASSUME NEW n \in 0 .. N, n # 0
          PROVE  step[<<f[n - 1], n>>] = IF s[n] \in set THEN Append(f[n - 1], s[n])
                                        ELSE f[n - 1]
      <3>1. n - 1 \in 0 .. N /\ n \in 1 .. N
        BY <1>1, <2>1
      <3>2. <<f[n - 1], n>> \in V \X (1 .. N)
        BY <1>4, <3>1
      <3>3. QED
        BY <3>2
    <2> HIDE DEF step, V, N
    <2>2. QED
      BY <1>4, <2>1 DEF IsRun
  <1>6. Is(a)
    BY <1>5
  <1>7. Among(s, set) = a[N]
    BY DEF Among
  <1>8. /\ a[0] = << >>
        /\ \A n \in 1 .. N : a[n] = IF s[n] \in set THEN Append(a[n - 1], s[n])
                                    ELSE a[n - 1]
    <2> HIDE DEF a, step, N
    <2>1. \A n \in 0 .. N : a[n] = IF n = 0 THEN << >>
                                  ELSE IF s[n] \in set THEN Append(a[n - 1], s[n])
                                  ELSE a[n - 1]
      BY <1>6
    <2>2. 0 \in 0 .. N /\ \A n \in 1 .. N : n \in 0 .. N /\ n # 0
      BY <1>1
    <2>3. QED
      BY <2>1, <2>2
  <1> HIDE DEF a, step, Is
  <1> DEFINE Good == {n \in Nat : n <= N => a[n] \in Seq(S) /\ IsPick(a[n], s, set, n)}
  <1>9. 0 \in Good
    <2> DEFINE none == << >>
    <2>1. none \in Seq(S) /\ Range(none) = {} /\ UpTo(s, 0) = {} /\ Unrepeated(none)
          /\ \A x, y : ~InOrder(none, x, y)
      BY DEF Range, UpTo, Unrepeated, InOrder
    <2>2. a[0] = none
      BY <1>8
    <2> HIDE DEF none
    <2>3. IsPick(none, s, set, 0)
      BY ONLY <2>1 DEF IsPick
    <2>4. QED
      BY <2>1, <2>2, <2>3
  <1>10. ASSUME NEW n \in Nat, n \in Good PROVE n + 1 \in Good
    <2> SUFFICES ASSUME n + 1 <= N
                 PROVE  a[n + 1] \in Seq(S) /\ IsPick(a[n + 1], s, set, n + 1)
      OBVIOUS
    <2>1. n < N /\ n + 1 \in 1 .. N /\ (n + 1) - 1 = n
      BY <1>1
    <2>2. a[n] \in Seq(S) /\ IsPick(a[n], s, set, n)
      BY <1>10, <2>1
    <2> DEFINE z == s[n + 1]
               p == a[n]
    <2>3. /\ UpTo(s, n + 1) = UpTo(s, n) \cup {z}
          /\ Unrepeated(s) => z \notin UpTo(s, n)
          /\ \A x, y : LinedUpTo(s, n, x, y) => LinedUpTo(s, n + 1, x, y)
          /\ \A x : x \in UpTo(s, n) => LinedUpTo(s, n + 1, x, z)
      BY <2>1, UpToMore
    <2>4. z \in S
      BY <1>1, <2>1
    <2>5. a[n + 1] = IF z \in set THEN Append(p, z) ELSE p
      BY <1>8, <2>1
    <2> HIDE DEF z, p, N
    <2>6. CASE z \in set
      <3>1. /\ Append(p, z) \in Seq(S) /\ Range(Append(p, z)) = Range(p) \cup {z}
            /\ \A x, y : InOrder(Append(p, z), x, y)
                           <=> InOrder(p, x, y) \/ (x \in Range(p) /\ y = z)
        BY <2>2, <2>4, AppendFacts, AppendInOrder DEF p
      <3>2. Unrepeated(s) => Unrepeated(Append(p, z))
        BY <2>2, <2>3, <2>4, AppendUnrepeated DEF p, IsPick
      <3>3. QED
        BY <2>2, <2>3, <2>5, <2>6, <3>1, <3>2 DEF p, IsPick
    <2>7. CASE z \notin set
      BY <2>2, <2>3, <2>5, <2>7 DEF p, IsPick
    <2>8. QED
      BY <2>6, <2>7
  <1>11. N \in Good
    <2> HIDE DEF Good
    <2>1. Nat \subseteq Good
      BY <1>9, <1>10, UpFromZero
    <2>2. QED
      BY <1>1, <2>1
  <1>12. a[N] \in Seq(S) /\ IsPick(a[N], s, set, N)
    BY <1>1, <1>11
  <1>13. UpTo(s, N) = Range(s) /\ \A x, y : LinedUpTo(s, N, x, y) = InOrder(s, x, y)
    BY RangeFacts DEF UpTo, LinedUpTo, InOrder
  <1>14. QED
    BY <1>7, <1>12, <1>13 DEF IsPick

(* Two lines of the same entries in the order of a third are the same.     *)
LEMMA SameLine ==
  ASSUME NEW S, NEW a \in Seq(S), NEW b \in Seq(S), NEW t \in Seq(S),
         Unrepeated(a), Unrepeated(b), Unrepeated(t), Range(a) = Range(b),
         \A x, y : InOrder(a, x, y) => InOrder(t, x, y),
         \A x, y : InOrder(b, x, y) => InOrder(t, x, y)
  PROVE  a = b
  <1>1. Len(a) = Len(b) /\ Len(a) \in Nat
    <2>1. Len(a) <= Len(b) /\ Len(b) <= Len(a)
      BY QueueIsShort
    <2>2. Len(a) \in Nat /\ Len(b) \in Nat
      OBVIOUS
    <2>3. QED
      BY <2>1, <2>2
  <1> DEFINE Differ == {k \in Nat : k \in 1 .. Len(a) /\ a[k] # b[k]}
  <1>2. Differ = {}
    <2> SUFFICES ASSUME Differ # {} PROVE FALSE
      OBVIOUS
    <2>1. PICK m \in Differ : \A k \in Differ : ~(k < m)
      BY LeastNatural
    <2>2. m \in 1 .. Len(a) /\ m \in 1 .. Len(b) /\ a[m] # b[m]
      BY <1>1
    <2>3. \A k \in 1 .. Len(a) : k < m => a[k] = b[k]
      BY <2>1
    <2>4. PICK j \in 1 .. Len(b) : b[j] = a[m]
      BY <2>2, RangeFacts
    <2>5. PICK i \in 1 .. Len(a) : a[i] = b[m]
      BY <2>2, RangeFacts
    <2>6. m < j
      <3>1. j # m
        BY <2>2, <2>4
      <3>2. ~(j < m)
        <4> SUFFICES ASSUME j < m PROVE FALSE
          OBVIOUS
        <4>1. j \in 1 .. Len(a) /\ a[j] = a[m]
          BY <1>1, <2>3, <2>4
        <4>2. QED
          BY <2>2, <3>1, <4>1 DEF Unrepeated
      <3>3. QED
        BY <1>1, <3>1, <3>2
    <2>7. m < i
      <3>1. i # m
        BY <2>2, <2>5
      <3>2. ~(i < m)
        <4> SUFFICES ASSUME i < m PROVE FALSE
          OBVIOUS
        <4>1. i \in 1 .. Len(b) /\ b[i] = b[m]
          BY <1>1, <2>3, <2>5
        <4>2. QED
          BY <2>2, <3>1, <4>1 DEF Unrepeated
      <3>3. QED
        BY <1>1, <3>1, <3>2
    <2>8. InOrder(b, b[m], a[m]) /\ InOrder(a, a[m], b[m])
      BY <2>2, <2>4, <2>5, <2>6, <2>7 DEF InOrder
    <2>9. InOrder(t, b[m], a[m]) /\ InOrder(t, a[m], b[m])
      BY <2>8
    <2>10. QED
      BY <2>9, OneWay
  <1>3. /\ a = [k \in 1 .. Len(a) |-> a[k]] /\ b = [k \in 1 .. Len(a) |-> b[k]]
        /\ \A k \in 1 .. Len(a) : a[k] = b[k]
    BY <1>1, <1>2
  <1>4. QED
    BY <1>3

-----------------------------------------------------------------------------
(* Books queued again from the list of resting orders are the books.       *)

LEMMA AddLevels ==
  ASSUME NEW b \in Book, NEW id \in OrderIds, NEW side \in Sides, NEW p \in Prices
  PROVE  LET c == AddResting(b, id, side, p)
         IN  /\ c.levels[side][p] = Append(b.levels[side][p], id)
             /\ \A s \in Sides, q \in Prices :
                  <<s, q>> # <<side, p>> => c.levels[s][q] = b.levels[s][q]
  <1> DEFINE levels == [b.levels EXCEPT ![side][p] = Append(@, id)]
  <1>1. b.levels \in [Sides -> [Prices -> Seq(OrderIds)]]
    BY BookFacts
  <1>2. AddResting(b, id, side, p).levels = levels
    BY DEF AddResting
  <1>3. levels[side][p] = Append(b.levels[side][p], id)
    BY <1>1
  <1>4. \A s \in Sides, q \in Prices :
          <<s, q>> # <<side, p>> => levels[s][q] = b.levels[s][q]
    BY <1>1
  <1> HIDE DEF levels
  <1>5. QED
    BY <1>2, <1>3, <1>4

Built(bs, r, k) ==
  \A i \in Instruments :
    /\ bs[i].resting = {id \in UpTo(r, k) : orders[id].instrument = i}
    /\ Distinct(bs[i])
    /\ \A side \in Sides, p \in Prices :
         /\ Queued(bs[i], side, p) =
              {id \in UpTo(r, k) : /\ orders[id].instrument = i
                                   /\ orders[id].side = side /\ orders[id].price = p}
         /\ \A x, y : InOrder(bs[i].levels[side][p], x, y) => LinedUpTo(r, k, x, y)

Requeued(bs, id) ==
  [bs EXCEPT ![orders[id].instrument] =
     AddResting(@, id, orders[id].side, orders[id].price)]

LEMMA BuiltMore ==
  ASSUME NEW r \in Seq(OrderIds), Unrepeated(r), NEW k \in Nat, k < Len(r),
         NEW bs \in [Instruments -> Book], Built(bs, r, k),
         NEW id, id = r[k + 1], NEW i, i = orders[id].instrument, i \in Instruments,
         NEW side, side = orders[id].side, side \in Sides,
         NEW p, p = orders[id].price, p \in Prices
  PROVE  Requeued(bs, id) \in [Instruments -> Book] /\ Built(Requeued(bs, id), r, k + 1)
  <1> DEFINE c == AddResting(bs[i], id, side, p)
             new == Requeued(bs, id)
  <1>1. id \in OrderIds /\ bs[i] \in Book
    OBVIOUS
  <1>2. /\ UpTo(r, k + 1) = UpTo(r, k) \cup {id} /\ id \notin UpTo(r, k)
        /\ \A x, y : LinedUpTo(r, k, x, y) => LinedUpTo(r, k + 1, x, y)
        /\ \A x : x \in UpTo(r, k) => LinedUpTo(r, k + 1, x, id)
    BY UpToMore
  <1>3. /\ c \in Book /\ c.resting = bs[i].resting \cup {id}
        /\ Queued(c, side, p) = Queued(bs[i], side, p) \cup {id}
        /\ \A s \in Sides, q \in Prices :
             <<s, q>> # <<side, p>> => Queued(c, s, q) = Queued(bs[i], s, q)
    BY <1>1, AddGrows
  <1>4. id \notin Queued(bs[i], side, p)
    BY <1>2 DEF Built
  <1>5. Distinct(c)
    BY <1>1, <1>4, AddDistinct DEF Built
  <1>6. /\ c.levels[side][p] = Append(bs[i].levels[side][p], id)
        /\ \A s \in Sides, q \in Prices :
             <<s, q>> # <<side, p>> => c.levels[s][q] = bs[i].levels[s][q]
    <2> DEFINE b == bs[i]
    <2>1. b \in Book /\ id \in OrderIds /\ side \in Sides /\ p \in Prices
      BY <1>1
    <2> HIDE DEF b
    <2>2. /\ AddResting(b, id, side, p).levels[side][p] = Append(b.levels[side][p], id)
          /\ \A s \in Sides, q \in Prices :
               <<s, q>> # <<side, p>> =>
                 AddResting(b, id, side, p).levels[s][q] = b.levels[s][q]
      BY ONLY <2>1, AddLevels
    <2>3. QED
      BY <2>2 DEF b
  <1>7. new = [bs EXCEPT ![i] = c]
    BY DEF Requeued
  <1> HIDE DEF c, new
  <1>8. /\ new \in [Instruments -> Book] /\ new[i] = c
        /\ \A j \in Instruments \ {i} : new[j] = bs[j]
    BY <1>3, <1>7
  <1>9. ASSUME NEW j \in Instruments
        PROVE  /\ new[j].resting = {x \in UpTo(r, k + 1) : orders[x].instrument = j}
               /\ Distinct(new[j])
    <2>1. CASE j = i
      BY <1>2, <1>3, <1>5, <1>8, <2>1 DEF Built
    <2>2. CASE j # i
      BY <1>2, <1>8, <2>2 DEF Built
    <2>3. QED
      BY <2>1, <2>2
  <1>10. ASSUME NEW j \in Instruments, NEW s \in Sides, NEW q \in Prices
         PROVE  /\ Queued(new[j], s, q) =
                     {x \in UpTo(r, k + 1) : /\ orders[x].instrument = j
                                             /\ orders[x].side = s /\ orders[x].price = q}
                /\ \A x, y : InOrder(new[j].levels[s][q], x, y) => LinedUpTo(r, k + 1, x, y)
    <2>a. /\ Queued(bs[j], s, q) =
               {x \in UpTo(r, k) : /\ orders[x].instrument = j
                                   /\ orders[x].side = s /\ orders[x].price = q}
          /\ \A x, y : InOrder(bs[j].levels[s][q], x, y) => LinedUpTo(r, k, x, y)
      BY DEF Built
    <2>1. CASE j = i /\ <<s, q>> = <<side, p>>
      <3>1. s = side /\ q = p
        BY <2>1
      <3>2. Queued(new[j], s, q) =
              {x \in UpTo(r, k + 1) : /\ orders[x].instrument = j
                                      /\ orders[x].side = s /\ orders[x].price = q}
        BY <1>2, <1>3, <1>8, <2>1, <2>a, <3>1
      <3> DEFINE line == bs[i].levels[side][p]
      <3>3. line \in Seq(OrderIds) /\ Range(line) = Queued(bs[i], side, p)
        BY <1>1, BookFacts DEF Queued
      <3>4. ASSUME NEW x, NEW y, InOrder(Append(line, id), x, y)
            PROVE  LinedUpTo(r, k + 1, x, y)
        <4>0. \A u, v : InOrder(line, u, v) => LinedUpTo(r, k, u, v)
          BY <2>1, <2>a, <3>1
        <4> HIDE DEF line
        <4>1. InOrder(line, x, y) \/ (x \in Range(line) /\ y = id)
          BY <1>1, <3>3, <3>4, AppendInOrder
        <4>2. CASE InOrder(line, x, y)
          <5>1. LinedUpTo(r, k, x, y)
            BY <4>0, <4>2
          <5>2. QED
            BY <1>2, <5>1
        <4>3. CASE x \in Range(line) /\ y = id
          <5>1. Range(line) = Queued(bs[j], s, q)
            BY <2>1, <3>1, <3>3
          <5>2. x \in UpTo(r, k)
            BY <2>a, <4>3, <5>1
          <5>3. QED
            BY <1>2, <4>3, <5>2
        <4>4. QED
          BY <4>1, <4>2, <4>3
      <3>5. QED
        BY <1>6, <1>8, <2>1, <3>1, <3>2, <3>4
    <2>2. CASE ~(j = i /\ <<s, q>> = <<side, p>>)
      <3>1. Queued(new[j], s, q) = Queued(bs[j], s, q)
              /\ new[j].levels[s][q] = bs[j].levels[s][q]
        <4>1. CASE j = i
          <5>1. new[j] = c /\ <<s, q>> # <<side, p>>
            BY <1>8, <2>2, <4>1
          <5>2. Queued(c, s, q) = Queued(bs[i], s, q)
            BY <1>3, <5>1
          <5>3. c.levels[s][q] = bs[i].levels[s][q]
            BY <1>6, <5>1
          <5>4. QED
            BY ONLY <4>1, <5>1, <5>2, <5>3
        <4>2. CASE j # i
          BY <1>8, <4>2
        <4>3. QED
          BY <4>1, <4>2
      <3>2. ~(orders[id].instrument = j /\ orders[id].side = s /\ orders[id].price = q)
        BY <2>2
      <3>3. QED
        BY <1>2, <2>a, <3>1, <3>2
    <2>3. QED
      BY <2>1, <2>2
  <1>11. QED
    BY <1>8, <1>9, <1>10 DEF Built, new

LEMMA BuiltBooks ==
  ASSUME EngineInv, QueuesHoldResting, PriorityInv, NEW r \in Seq(OrderIds),
         Unrepeated(r), Range(r) = {id \in DOMAIN orders : Waits(id)},
         \A x, y : InOrder(r, x, y) => InOrder(tracked, x, y),
         NEW bs \in [Instruments -> Book], Built(bs, r, Len(r))
  PROVE  bs = books
  <1>1. UpTo(r, Len(r)) = Range(r) /\ \A x, y : LinedUpTo(r, Len(r), x, y) <=> InOrder(r, x, y)
    BY RangeFacts DEF UpTo, LinedUpTo, InOrder
  <1>2. books \in [Instruments -> Book]
    BY DEF EngineInv, BooksInv
  <1>3. tracked \in Seq(OrderIds) /\ Unrepeated(tracked)
    BY DEF EngineInv, TrackedInv, OrdersInv, PriorityInv
  <1>4. ASSUME NEW i \in Instruments PROVE bs[i] = books[i]
    <2>a. \A x : x \in Holds(i) <=> x \in Range(r) /\ orders[x].instrument = i
      BY DEF Holds
    <2>1. bs[i].resting = books[i].resting
      <3>1. bs[i].resting = {id \in Range(r) : orders[id].instrument = i}
        BY <1>1 DEF Built
      <3>2. books[i].resting = Holds(i)
        BY DEF QueuesHoldResting
      <3>3. QED
        BY ONLY <2>a, <3>1, <3>2
    <2>2. ASSUME NEW side \in Sides, NEW p \in Prices
          PROVE  bs[i].levels[side][p] = books[i].levels[side][p]
      <3> DEFINE a == bs[i].levels[side][p]
                 b == books[i].levels[side][p]
      <3>1. a \in Seq(OrderIds) /\ b \in Seq(OrderIds)
        BY <1>2, BookFacts
      <3>2. Unrepeated(a) /\ Unrepeated(b)
        BY DEF Built, QueuesHoldResting, Distinct
      <3>3. Range(a) = Range(b)
        <4>1. Range(a) = {id \in Range(r) : /\ orders[id].instrument = i
                                            /\ orders[id].side = side /\ orders[id].price = p}
          BY <1>1 DEF Built, Queued
        <4>2. Range(b) = {id \in Holds(i) : orders[id].side = side /\ orders[id].price = p}
          BY DEF QueuesHoldResting, Queued
        <4> HIDE DEF a, b
        <4>3. QED
          BY <2>a, <4>1, <4>2
      <3>4. \A x, y : InOrder(a, x, y) => InOrder(tracked, x, y)
        BY <1>1 DEF Built
      <3>5. \A x, y : InOrder(b, x, y) => InOrder(tracked, x, y)
        <4> SUFFICES ASSUME NEW x, NEW y, InOrder(b, x, y) PROVE InOrder(tracked, x, y)
          OBVIOUS
        <4>1. x \in OrderIds /\ y \in OrderIds
          BY <3>1 DEF InOrder
        <4>2. QED
          BY <4>1 DEF PriorityInv, LinesUp
      <3> HIDE DEF a, b
      <3>6. a = b
        BY <1>3, <3>1, <3>2, <3>3, <3>4, <3>5, SameLine
      <3>7. QED
        BY <3>6 DEF a, b
    <2>3. bs[i].levels = books[i].levels
      <3>1. /\ bs[i].levels \in [Sides -> [Prices -> Seq(OrderIds)]]
            /\ books[i].levels \in [Sides -> [Prices -> Seq(OrderIds)]]
        BY <1>2, BookFacts
      <3>2. \A side \in Sides : bs[i].levels[side] = books[i].levels[side]
        BY <2>2, <3>1
      <3>3. QED
        BY <3>1, <3>2
    <2>4. bs[i] \in Book /\ books[i] \in Book
      BY <1>2
    <2>5. /\ bs[i] = [levels |-> bs[i].levels, resting |-> bs[i].resting]
          /\ books[i] = [levels |-> books[i].levels, resting |-> books[i].resting]
      BY <2>4 DEF Book
    <2>6. QED
      BY <2>1, <2>3, <2>5
  <1>5. QED
    BY <1>2, <1>4

LEMMA HydratedBooks ==
  ASSUME EngineInv, QueuesHoldResting, PriorityInv, NEW n, n.orders = orders,
         n.resting \in Seq(OrderIds), Unrepeated(n.resting),
         Range(n.resting) = {id \in DOMAIN orders : Waits(id)},
         \A x, y : InOrder(n.resting, x, y) => InOrder(tracked, x, y)
  PROVE  HydrateBooks(n) = books
  <1> DEFINE r == n.resting
             N == Len(n.resting)
             V == [Instruments -> Book]
             first == [i \in Instruments |-> EmptyBook]
             Is(f) == f = [k \in 0 .. N |->
                             IF k = 0 THEN first
                             ELSE LET id == n.resting[k]
                                      o  == n.orders[id]
                                  IN  [f[k - 1] EXCEPT ![o.instrument] =
                                         AddResting(@, id, o.side, o.price)]]
             a == CHOOSE f : Is(f)
             step == [x \in V \X (1 .. N) |-> Requeued(x[1], r[x[2]])]
  <1>1. N \in Nat
    OBVIOUS
  <1>2. \A k \in 1 .. N :
          /\ r[k] \in OrderIds /\ orders[r[k]].instrument \in Instruments
          /\ orders[r[k]].side \in Sides /\ orders[r[k]].price \in Prices
    <2> SUFFICES ASSUME NEW k \in 1 .. N
                 PROVE  /\ r[k] \in OrderIds /\ orders[r[k]].instrument \in Instruments
                        /\ orders[r[k]].side \in Sides /\ orders[r[k]].price \in Prices
      OBVIOUS
    <2>1. r[k] \in OrderIds /\ r[k] \in Range(r)
      BY RangeFacts
    <2>2. r[k] \in DOMAIN orders /\ Waits(r[k])
      BY <2>1
    <2> HIDE DEF r
    <2>3. QED
      BY <2>1, <2>2, WaitingIsQueued
  <1>3. step \in [V \X (1 .. N) -> V]
    <2>1. ASSUME NEW x \in V \X (1 .. N) PROVE Requeued(x[1], r[x[2]]) \in V
      <3> DEFINE id == r[x[2]]
      <3>1. /\ x[1] \in V /\ id \in OrderIds /\ orders[id].instrument \in Instruments
            /\ orders[id].side \in Sides /\ orders[id].price \in Prices
        BY <1>2
      <3>2. x[1][orders[id].instrument] \in Book
        BY <3>1
      <3> HIDE DEF id
      <3>3. AddResting(x[1][orders[id].instrument], id, orders[id].side, orders[id].price)
              \in Book
        BY <3>1, <3>2, AddGrows
      <3>4. QED
        BY <3>1, <3>3 DEF Requeued, id
    <2>2. QED
      BY <2>1
  <1>4. first \in V
    BY DEF EmptyBook, Book, Sides
  <1>5. PICK f \in [0 .. N -> V] : IsRun(f, first, N, step)
    <2> HIDE DEF N, V, step, first
    <2>1. QED
      BY <1>1, <1>3, <1>4, RunExists
  <1>6. Is(f)
    <2>1. ASSUME NEW k \in 0 .. N, k # 0
          PROVE  step[<<f[k - 1], k>>] = Requeued(f[k - 1], r[k])
      <3>1. k - 1 \in 0 .. N /\ k \in 1 .. N
        BY <1>1, <2>1
      <3>2. <<f[k - 1], k>> \in V \X (1 .. N)
        BY <1>5, <3>1
      <3>3. QED
        BY <3>2
    <2> HIDE DEF step, V, N, first
    <2>2. QED
      BY <1>5, <2>1 DEF IsRun, Requeued
  <1>7. Is(a)
    BY <1>6
  <1>8. HydrateBooks(n) = a[N]
    BY DEF HydrateBooks
  <1>9. /\ a[0] = first
        /\ \A k \in 1 .. N : a[k] = Requeued(a[k - 1], r[k])
    <2> HIDE DEF a, step, N, first
    <2>1. \A k \in 0 .. N : a[k] = IF k = 0 THEN first ELSE Requeued(a[k - 1], r[k])
      BY <1>7 DEF Requeued
    <2>2. 0 \in 0 .. N /\ \A k \in 1 .. N : k \in 0 .. N /\ k # 0
      BY <1>1
    <2>3. QED
      BY <2>1, <2>2
  <1> HIDE DEF a, step, Is
  <1> DEFINE Good == {k \in Nat : k <= N => a[k] \in V /\ Built(a[k], r, k)}
  <1>10. 0 \in Good
    <2>1. UpTo(r, 0) = {}
      BY DEF UpTo
    <2>2. ASSUME NEW i \in Instruments
          PROVE  /\ first[i].resting = {}
                 /\ \A side \in Sides, p \in Prices : first[i].levels[side][p] = << >>
      BY DEF EmptyBook
    <2>3. Range(<< >>) = {} /\ Unrepeated(<< >>) /\ \A x, y : ~InOrder(<< >>, x, y)
      BY DEF Range, Unrepeated, InOrder
    <2> HIDE DEF first, r
    <2>4. Built(first, r, 0)
      BY <2>1, <2>2, <2>3 DEF Built, Distinct, Queued
    <2>5. QED
      BY <1>4, <1>9, <2>4
  <1>11. ASSUME NEW k \in Nat, k \in Good PROVE k + 1 \in Good
    <2> SUFFICES ASSUME k + 1 <= N
                 PROVE  a[k + 1] \in V /\ Built(a[k + 1], r, k + 1)
      OBVIOUS
    <2>1. k < N /\ k + 1 \in 1 .. N /\ (k + 1) - 1 = k
      BY <1>1
    <2>2. a[k] \in V /\ Built(a[k], r, k)
      BY <1>11, <2>1
    <2>3. a[k + 1] = Requeued(a[k], r[k + 1])
      BY <1>9, <2>1
    <2>4. /\ orders[r[k + 1]].instrument \in Instruments
          /\ orders[r[k + 1]].side \in Sides /\ orders[r[k + 1]].price \in Prices
      BY <1>2, <2>1
    <2>5. r \in Seq(OrderIds) /\ Unrepeated(r) /\ k < Len(r)
      BY <2>1
    <2> HIDE DEF r
    <2>6. QED
      BY <2>2, <2>3, <2>4, <2>5, BuiltMore
  <1>12. N \in Good
    <2> HIDE DEF Good
    <2>1. Nat \subseteq Good
      BY <1>10, <1>11, UpFromZero
    <2>2. QED
      BY <1>1, <2>1
  <1>13. a[N] \in V /\ Built(a[N], r, N)
    BY <1>1, <1>12
  <1>14. a[N] = books
    <2>1. /\ r \in Seq(OrderIds) /\ Unrepeated(r)
          /\ Range(r) = {id \in DOMAIN orders : Waits(id)}
          /\ \A x, y : InOrder(r, x, y) => InOrder(tracked, x, y)
          /\ N = Len(r)
      OBVIOUS
    <2> HIDE DEF r, N
    <2>2. QED
      BY <1>13, <2>1, BuiltBooks
  <1>15. QED
    BY <1>8, <1>14

-----------------------------------------------------------------------------
(* What a snapshot's parser counts on: the shape of every entry, and the   *)
(* fewest events and executions that can have left it.  The operation in   *)
(* progress owes the event that settles its taker.                         *)

Shaped(x) ==
  LET o == orders[x]
  IN  /\ o.remaining <= o.quantity
      /\ o.state \in {"filled", "cancelled"} => o.remaining = 0
      /\ o.remaining = 0 => \/ o.state \in {"filled", "cancelled"}
                            \/ op.phase = "match" /\ op.taker = x
      /\ o.state = "cancelled" => o.order_type = "limit"

CancelledIds == {x \in DOMAIN orders : orders[x].state = "cancelled"}

TouchedIds ==
  {x \in DOMAIN orders : /\ orders[x].state # "cancelled"
                         /\ orders[x].remaining < orders[x].quantity}

Due == IF Taking = Null THEN 0 ELSE 1

Tallied ==
  /\ SeqNo + Due >= 1 + 2 * Cardinality(DOMAIN orders) + Cardinality(CancelledIds)
  /\ 2 * (FillId - 1) >= Cardinality(TouchedIds)
  /\ lastAt = -1 <=> SeqNo = 1

TallyInv ==
  op.phase # "wedged" => Tallied /\ \A x \in DOMAIN orders : Shaped(x)

LEMMA FewerFinite ==
  ASSUME NEW S, IsFiniteSet(S), NEW T, T \subseteq S
  PROVE  IsFiniteSet(T) /\ Cardinality(T) \in Nat /\ Cardinality(S) \in Nat
         /\ Cardinality(T) <= Cardinality(S)
  BY FS_Subset, FS_CardinalityType

LEMMA OneMoreCounts ==
  ASSUME NEW S, IsFiniteSet(S), NEW x, x \notin S
  PROVE  IsFiniteSet(S \cup {x}) /\ Cardinality(S \cup {x}) = Cardinality(S) + 1
         /\ Cardinality(S) \in Nat
  BY FS_AddElement, FS_CardinalityType

LEMMA TwoMoreCount ==
  ASSUME NEW S, IsFiniteSet(S), NEW a, NEW b, NEW T, T \subseteq S \cup {a, b}
  PROVE  Cardinality(T) <= Cardinality(S) + 2 /\ Cardinality(T) \in Nat
  <1> DEFINE A == S \cup {a}
             B == A \cup {b}
  <1>1. IsFiniteSet(A) /\ Cardinality(A) <= Cardinality(S) + 1 /\ Cardinality(S) \in Nat
        /\ Cardinality(A) \in Nat
    <2>1. CASE a \in S
      <3>1. A = S
        BY <2>1
      <3> HIDE DEF A
      <3>2. Cardinality(S) \in Nat
        BY FS_CardinalityType
      <3>3. QED
        BY <3>1, <3>2
    <2>2. CASE a \notin S
      BY <2>2, OneMoreCounts
    <2>3. QED
      BY <2>1, <2>2
  <1>2. IsFiniteSet(B) /\ Cardinality(B) <= Cardinality(A) + 1
    <2> HIDE DEF A
    <2>1. CASE b \in A
      <3>1. B = A
        BY <2>1
      <3> HIDE DEF B
      <3>2. QED
        BY <1>1, <3>1
    <2>2. CASE b \notin A
      <3>1. IsFiniteSet(B) /\ Cardinality(B) = Cardinality(A) + 1
        BY <1>1, <2>2, OneMoreCounts
      <3>2. QED
        BY <1>1, <3>1
    <2>3. QED
      BY <2>1, <2>2
  <1>3. T \subseteq B
    OBVIOUS
  <1> HIDE DEF A, B
  <1>4. Cardinality(T) <= Cardinality(B) /\ Cardinality(T) \in Nat /\ Cardinality(B) \in Nat
    BY <1>2, <1>3, FewerFinite
  <1>5. QED
    BY <1>1, <1>2, <1>4

LEMMA OrdersFinite ==
  EngineInv =>
    /\ IsFiniteSet(DOMAIN orders) /\ Range(tracked) = DOMAIN orders
    /\ IsFiniteSet(CancelledIds) /\ IsFiniteSet(TouchedIds)
    /\ Cardinality(DOMAIN orders) \in Nat /\ Cardinality(CancelledIds) \in Nat
    /\ Cardinality(TouchedIds) \in Nat
  <1> SUFFICES ASSUME EngineInv
               PROVE  /\ IsFiniteSet(DOMAIN orders) /\ Range(tracked) = DOMAIN orders
                      /\ IsFiniteSet(CancelledIds) /\ IsFiniteSet(TouchedIds)
                      /\ Cardinality(DOMAIN orders) \in Nat /\ Cardinality(CancelledIds) \in Nat
                      /\ Cardinality(TouchedIds) \in Nat
    OBVIOUS
  <1>1. tracked \in Seq(DOMAIN orders) /\ Range(tracked) = DOMAIN orders
    BY RangeFacts DEF EngineInv, TrackedInv
  <1>2. IsFiniteSet(DOMAIN orders)
    <2>1. IsSeq(tracked)
      BY <1>1, AnySeq
    <2>2. IsFiniteSet(DOMAIN tracked)
      BY <2>1, SeqFacts
    <2>3. Range(tracked) = {tracked[k] : k \in DOMAIN tracked}
      BY DEF Range
    <2>4. tracked \in Surjection(DOMAIN tracked, Range(tracked))
      BY <1>1, <2>3 DEF Surjection
    <2>5. QED
      BY <1>1, <2>2, <2>4, FS_Surjection
  <1>3. CancelledIds \subseteq DOMAIN orders /\ TouchedIds \subseteq DOMAIN orders
    BY DEF CancelledIds, TouchedIds
  <1>4. QED
    BY <1>1, <1>2, <1>3, FewerFinite

LEMMA OpeningTally ==
  ASSUME EngineInv, NEW now \in Times, BeginOperation(now), NEW phase \in {"match", "finish"},
         NEW taker, NEW body, OpenWith(now, phase, taker, body)
  PROVE  /\ op.phase = "idle" /\ op'.phase = phase /\ op'.taker = taker
         /\ nextSeq \in Nat /\ nextSeq >= 1 /\ FillId \in Nat
         /\ SeqNo = nextSeq /\ SeqNo' = nextSeq + 1 /\ FillId' = FillId
         /\ Due = 0 /\ Due' \in {0, 1}
         /\ lastAt' # -1
         /\ phase = "match" /\ orders'[taker].remaining # 0 /\ taker # Null => Due' = 1
  <1>1. /\ op.phase = "idle" /\ lastAt' = now /\ now # -1
    BY EngineConstants DEF BeginOperation
  <1>2. op'.phase = phase /\ op'.taker = taker /\ op'.seq = nextSeq + 1 /\ op'.fill = nextFill
    BY DEF OpenWith
  <1>3. nextSeq \in Nat /\ nextSeq >= 1 /\ nextFill \in Nat
    BY EventConstants DEF EngineInv, CountersInv
  <1>4. Due = 0
    BY <1>1 DEF Due, Taking
  <1>5. phase = "match" /\ orders'[taker].remaining # 0 /\ taker # Null => Due' = 1
    BY <1>2 DEF Due, Taking, Zeroed
  <1>6. QED
    BY <1>1, <1>2, <1>3, <1>4, <1>5 DEF SeqNo, FillId, Due

LEMMA FinishingTally ==
  ASSUME EngineInv, TallyInv, Sweeping, NEW body, Continue(<<body>>, "finish", op.fill),
         op'.phase # "wedged", lastAt' = lastAt
  PROVE  /\ op.phase = "match" /\ op'.phase = "finish" /\ Tallied
         /\ SeqNo \in Nat /\ SeqNo' = SeqNo + 1 /\ FillId' = FillId /\ FillId \in Nat
         /\ Due = 1 /\ Due' = 0 /\ (lastAt' = -1 <=> SeqNo' = 1)
  <1> DEFINE bodies == <<body>>
  <1>1. /\ op.phase = "match" /\ op.taker # Null /\ ~Zeroed /\ Tallied
        /\ op.seq \in Nat /\ op.fill \in Nat \ {0} /\ 2 * op.fill <= op.seq
    BY TakerFacts, EventConstants DEF Sweeping, Zeroed, TallyInv, EngineInv, OrdersInv
  <1>2. ~Exhausted(bodies)
    BY DEF Continue, EngineInv, OperationInv
  <1>3. op' = [op EXCEPT !.phase = "finish", !.fill = op.fill,
                         !.events = @ \o Stamped(bodies, op.seq, op.at),
                         !.seq = @ + Len(bodies)]
    BY <1>2 DEF Continue
  <1>4. Len(bodies) = 1
    OBVIOUS
  <1>5. op'.phase = "finish" /\ op'.seq = op.seq + 1 /\ op'.fill = op.fill
    BY <1>3, <1>4 DEF EngineInv, OperationInv
  <1>6. SeqNo = op.seq /\ SeqNo' = op.seq + 1 /\ FillId = op.fill /\ FillId' = op.fill
    BY <1>1, <1>5 DEF SeqNo, FillId
  <1>7. Due = 1 /\ Due' = 0
    BY <1>1, <1>5 DEF Due, Taking
  <1>8. SeqNo # 1 /\ SeqNo + 1 # 1
    BY <1>1, <1>6
  <1>9. lastAt # -1
    BY <1>1, <1>8 DEF Tallied
  <1>10. QED
    BY <1>1, <1>5, <1>6, <1>7, <1>8, <1>9

LEMMA TallyInit == Init => TallyInv
  <1> SUFFICES ASSUME Init PROVE TallyInv
    OBVIOUS
  <1>1. op.phase = "idle" /\ nextSeq = 1 /\ nextFill = 1 /\ lastAt = -1 /\ DOMAIN orders = {}
    BY DEF Init, Idle
  <1>2. CancelledIds = {} /\ TouchedIds = {} /\ Cardinality({}) = 0
    BY <1>1, FS_EmptySet DEF CancelledIds, TouchedIds
  <1>3. SeqNo = 1 /\ FillId = 1 /\ Due = 0
    BY <1>1 DEF SeqNo, FillId, Due, Taking
  <1>4. Tallied
    BY <1>1, <1>2, <1>3 DEF Tallied
  <1>5. QED
    BY <1>1, <1>4 DEF TallyInv

(* A refused call, or an operation that ends: no entry changes.            *)
LEMMA QuietTally ==
  ASSUME EngineInv, TallyInv, op.phase # "wedged", orders' = orders, SeqNo \in Nat,
         FillId' = FillId, FillId \in Nat, SeqNo' \in Nat, SeqNo' + Due' >= SeqNo + Due,
         Due \in {0, 1}, Due' \in {0, 1}, lastAt' = -1 <=> SeqNo' = 1,
         op.phase = "match" => orders[op.taker].remaining # 0
  PROVE  TallyInv'
  <1>1. CancelledIds' = CancelledIds /\ TouchedIds' = TouchedIds /\ DOMAIN orders' = DOMAIN orders
    BY DEF CancelledIds, TouchedIds
  <1>2. Tallied'
    <2> DEFINE n == Cardinality(DOMAIN orders)
               c == Cardinality(CancelledIds)
               t == Cardinality(TouchedIds)
    <2>1. n \in Nat /\ c \in Nat /\ t \in Nat
      BY OrdersFinite
    <2>2. SeqNo + Due >= 1 + 2 * n + c /\ 2 * (FillId - 1) >= t
      BY DEF Tallied, TallyInv
    <2> HIDE DEF n, c, t
    <2>a. Due \in Nat /\ Due' \in Nat
      OBVIOUS
    <2>3. SeqNo' + Due' >= 1 + 2 * n + c /\ 2 * (FillId' - 1) >= t
      <3>1. SeqNo + Due \in Int /\ SeqNo' + Due' \in Int /\ 1 + 2 * n + c \in Int
        BY <2>1, <2>a
      <3>2. SeqNo' + Due' >= SeqNo + Due
        OBVIOUS
      <3> HIDE DEF SeqNo, Due
      <3>3. SeqNo' + Due' >= 1 + 2 * n + c
        BY ONLY <2>2, <3>1, <3>2
      <3>4. QED
        BY <2>2, <3>3
    <2>4. QED
      BY <1>1, <2>3 DEF Tallied, n, c, t
  <1>3. ASSUME NEW x \in DOMAIN orders PROVE Shaped(x)'
    <2>1. Shaped(x)
      BY DEF TallyInv
    <2>2. QED
      BY <2>1 DEF Shaped
  <1>4. QED
    BY <1>1, <1>2, <1>3 DEF TallyInv

LEMMA TallyMoves ==
  ASSUME EngineInv, Tallied, NEW n \in Nat, NEW c \in Nat, NEW t \in Nat,
         NEW s \in Nat, NEW f \in Nat,
         Cardinality(DOMAIN orders') = Cardinality(DOMAIN orders) + n,
         Cardinality(CancelledIds') = Cardinality(CancelledIds) + c,
         Cardinality(TouchedIds') <= Cardinality(TouchedIds) + t,
         Cardinality(TouchedIds') \in Nat,
         SeqNo \in Nat, FillId \in Nat, SeqNo' = SeqNo + s, FillId' = FillId + f,
         Due \in {0, 1}, Due' \in {0, 1}, s + Due' >= Due + 2 * n + c, 2 * f >= t,
         lastAt' = -1 <=> SeqNo' = 1
  PROVE  Tallied'
  <1> DEFINE dn == Cardinality(DOMAIN orders)
             dc == Cardinality(CancelledIds)
             dt == Cardinality(TouchedIds)
             q == SeqNo
             g == FillId
             d == Due
             e == Due'
  <1>1. dn \in Nat /\ dc \in Nat /\ dt \in Nat
    BY OrdersFinite
  <1>2. d \in Nat /\ e \in Nat /\ q \in Nat /\ g \in Nat
    OBVIOUS
  <1>3. q + d >= 1 + 2 * dn + dc /\ 2 * (g - 1) >= dt
    BY DEF Tallied
  <1>4. s + e >= d + 2 * n + c
    OBVIOUS
  <1> HIDE DEF dn, dc, dt, q, g, d, e
  <1>5. (q + s) + e >= 1 + 2 * (dn + n) + (dc + c)
    BY <1>1, <1>2, <1>3, <1>4
  <1>6. 2 * ((g + f) - 1) >= dt + t
    BY <1>1, <1>2, <1>3
  <1>7. 2 * ((g + f) - 1) >= Cardinality(TouchedIds')
    BY <1>1, <1>2, <1>6 DEF dt
  <1>8. QED
    BY <1>5, <1>7 DEF Tallied, dn, dc, q, g, e

LEMMA RejectedTally ==
  ASSUME EngineInv, TallyInv, NEW now \in Times, BeginOperation(now),
         NEW id, NEW instrument, NEW side, NEW reason,
         RejectWith(now, id, instrument, side, reason)
  PROVE  TallyInv'
  <1>1. orders' = orders /\ \E body : OpenWith(now, "finish", Null, body)
    BY DEF RejectWith
  <1>2. /\ op.phase = "idle" /\ nextSeq \in Nat /\ nextSeq >= 1 /\ FillId \in Nat
        /\ SeqNo = nextSeq /\ SeqNo' = nextSeq + 1 /\ FillId' = FillId
        /\ Due = 0 /\ Due' \in {0, 1} /\ lastAt' # -1
    BY <1>1, OpeningTally
  <1>3. SeqNo' + Due' >= SeqNo + Due /\ SeqNo' # 1 /\ SeqNo' \in Nat
    <2> DEFINE q == SeqNo'
               d == Due'
    <2>1. /\ d \in Nat /\ q = nextSeq + 1 /\ nextSeq \in Nat /\ nextSeq >= 1
          /\ SeqNo = nextSeq /\ Due = 0
      BY <1>2
    <2> HIDE DEF q, d
    <2>2. q + d >= SeqNo + Due /\ q # 1 /\ q \in Nat
      BY <2>1
    <2>3. QED
      BY <2>2 DEF q, d
  <1>4. QED
    BY <1>1, <1>2, <1>3, QuietTally

LEMMA SubmitTally ==
  ASSUME EngineInv, TallyInv, NEW now \in Times, NEW o \in Submissions,
         SubmitAccepted(o, now)
  PROVE  TallyInv'
  <1> DEFINE id == o.order_id
             new == [instrument |-> o.instrument, side |-> o.side,
                     order_type |-> o.type, owner |-> o.owner,
                     price |-> o.price, quantity |-> o.quantity,
                     remaining |-> o.quantity, state |-> "resting"]
  <1>1. /\ BeginOperation(now) /\ Passes(SubmitChecks(o)) /\ orders' = Put(orders, id, new)
        /\ OpenWith(now, "match", id, AcceptedBody(o))
    BY DEF SubmitAccepted
  <1>2. id \in OrderIds \ DOMAIN orders /\ o.quantity \in Nat \ {0} /\ id # Null
    BY <1>1, SubmitPasses, EventConstants
  <1>3. /\ new.state = "resting" /\ new.remaining = o.quantity /\ new.quantity = o.quantity
    OBVIOUS
  <1> HIDE DEF new, id
  <1>4. /\ DOMAIN orders' = DOMAIN orders \cup {id} /\ orders'[id] = new
        /\ \A x \in DOMAIN orders : orders'[x] = orders[x]
    BY <1>1, <1>2 DEF Put
  <1>5. /\ op.phase = "idle" /\ op'.phase = "match" /\ op'.taker = id
        /\ nextSeq \in Nat /\ nextSeq >= 1 /\ FillId \in Nat
        /\ SeqNo = nextSeq /\ SeqNo' = nextSeq + 1 /\ FillId' = FillId
        /\ Due = 0 /\ lastAt' # -1 /\ Due' = 1
    <2>1. orders'[id].remaining # 0
      BY <1>2, <1>3, <1>4
    <2>2. QED
      BY <1>1, <1>2, <2>1, OpeningTally
  <1>6. Tallied /\ \A x \in DOMAIN orders : Shaped(x)
    BY <1>5 DEF TallyInv
  <1>7. Cardinality(DOMAIN orders') = Cardinality(DOMAIN orders) + 1
    BY <1>2, <1>4, OrdersFinite, OneMoreCounts
  <1>8. CancelledIds' = CancelledIds
    BY <1>2, <1>3, <1>4 DEF CancelledIds
  <1>9. TouchedIds' = TouchedIds
    BY <1>2, <1>3, <1>4 DEF TouchedIds
  <1>10. Tallied'
    <2>1. /\ Cardinality(DOMAIN orders') = Cardinality(DOMAIN orders) + 1
          /\ Cardinality(CancelledIds') = Cardinality(CancelledIds) + 0
          /\ Cardinality(TouchedIds') <= Cardinality(TouchedIds) + 0
          /\ Cardinality(TouchedIds') \in Nat
      BY <1>7, <1>8, <1>9, OrdersFinite
    <2>2. /\ SeqNo \in Nat /\ FillId \in Nat /\ SeqNo' = SeqNo + 1 /\ FillId' = FillId + 0
          /\ Due \in {0, 1} /\ Due' \in {0, 1} /\ 1 + Due' >= Due + 2 * 1 + 0
          /\ 2 * 0 >= 0 /\ (lastAt' = -1 <=> SeqNo' = 1)
      BY <1>5
    <2>3. 0 \in Nat /\ 1 \in Nat
      OBVIOUS
    <2>4. QED
      BY ONLY EngineInv, <1>6, <2>1, <2>2, <2>3, TallyMoves
  <1>11. ASSUME NEW x \in DOMAIN orders' PROVE Shaped(x)'
    <2>1. CASE x = id
      BY <1>2, <1>3, <1>4, <1>5, <2>1 DEF Shaped
    <2>2. CASE x # id
      <3>1. x \in DOMAIN orders /\ Shaped(x)
        BY <1>4, <1>6, <2>2
      <3>2. QED
        BY <1>4, <1>5, <3>1 DEF Shaped
    <2>3. QED
      BY <2>1, <2>2
  <1>12. QED
    BY <1>10, <1>11 DEF TallyInv

LEMMA CancelTally ==
  ASSUME EngineInv, QueueInv, TallyInv, NEW now \in Times, NEW c \in Cancellations,
         CancelAccepted(c, now)
  PROVE  TallyInv'
  <1> DEFINE id == c.order_id
  <1>1. /\ BeginOperation(now) /\ Passes(CancelChecks(c))
        /\ orders' = [orders EXCEPT ![id].state = "cancelled", ![id].remaining = 0]
        /\ \E body : OpenWith(now, "finish", Null, body)
    BY DEF CancelAccepted
  <1>2. id \in DOMAIN orders /\ Waits(id)
    BY CancelQueues
  <1>3. orders[id] \in Order /\ orders[id].order_type = "limit" /\ orders[id].state = "resting"
    <2>1. c.instrument \in Instruments /\ id \in books[c.instrument].resting
      BY <1>1, CancelPasses
    <2>2. QED
      BY <1>2, <2>1 DEF EngineInv, OrdersInv, BooksInv, Waits
  <1> HIDE DEF id
  <1>4. /\ DOMAIN orders' = DOMAIN orders
        /\ \A x \in DOMAIN orders \ {id} : orders'[x] = orders[x]
        /\ orders'[id].state = "cancelled" /\ orders'[id].remaining = 0
        /\ orders'[id].order_type = "limit" /\ orders'[id].quantity = orders[id].quantity
    BY <1>1, <1>2, <1>3 DEF Order
  <1>5. /\ op.phase = "idle" /\ op'.phase = "finish"
        /\ nextSeq \in Nat /\ nextSeq >= 1 /\ FillId \in Nat
        /\ SeqNo = nextSeq /\ SeqNo' = nextSeq + 1 /\ FillId' = FillId
        /\ Due = 0 /\ lastAt' # -1 /\ Due' \in {0, 1}
    BY <1>1, OpeningTally
  <1>6. Tallied /\ \A x \in DOMAIN orders : Shaped(x)
    BY <1>5 DEF TallyInv
  <1>7. CancelledIds' = CancelledIds \cup {id} /\ id \notin CancelledIds
    BY <1>2, <1>3, <1>4 DEF CancelledIds
  <1>8. TouchedIds' \subseteq TouchedIds
    BY <1>2, <1>4 DEF TouchedIds
  <1>9. Tallied'
    <2>1. /\ Cardinality(DOMAIN orders') = Cardinality(DOMAIN orders) + 0
          /\ Cardinality(CancelledIds') = Cardinality(CancelledIds) + 1
          /\ Cardinality(TouchedIds') <= Cardinality(TouchedIds) + 0
          /\ Cardinality(TouchedIds') \in Nat
      BY <1>4, <1>7, <1>8, OrdersFinite, OneMoreCounts, FewerFinite
    <2>2. /\ SeqNo \in Nat /\ FillId \in Nat /\ SeqNo' = SeqNo + 1 /\ FillId' = FillId + 0
          /\ Due \in {0, 1} /\ Due' \in {0, 1} /\ 1 + Due' >= Due + 2 * 0 + 1
          /\ 2 * 0 >= 0 /\ (lastAt' = -1 <=> SeqNo' = 1)
      <3> DEFINE q == SeqNo'
                 d == Due'
      <3>1. d \in Nat /\ q = nextSeq + 1 /\ nextSeq \in Nat /\ nextSeq >= 1 /\ Due = 0
        BY <1>5
      <3> HIDE DEF q, d
      <3>2. 1 + d >= Due + 2 * 0 + 1 /\ q # 1
        BY <3>1
      <3>3. 1 + Due' >= Due + 2 * 0 + 1 /\ SeqNo' # 1
        BY ONLY <3>2 DEF q, d
      <3>4. /\ SeqNo \in Nat /\ FillId \in Nat /\ SeqNo' = SeqNo + 1 /\ FillId' = FillId + 0
            /\ Due \in {0, 1} /\ Due' \in {0, 1} /\ 2 * 0 >= 0
        BY <1>5
      <3>5. QED
        BY <1>5, <3>3, <3>4
    <2>3. 0 \in Nat /\ 1 \in Nat
      OBVIOUS
    <2>4. QED
      BY ONLY EngineInv, <1>6, <2>1, <2>2, <2>3, TallyMoves
  <1>10. ASSUME NEW x \in DOMAIN orders' PROVE Shaped(x)'
    <2>1. CASE x = id
      BY <1>3, <1>4, <2>1 DEF Shaped, Order
    <2>2. CASE x # id
      <3>1. x \in DOMAIN orders /\ Shaped(x) /\ orders'[x] = orders[x]
        BY <1>4, <1>6, <2>2
      <3>2. QED
        BY <1>5, <3>1 DEF Shaped
    <2>3. QED
      BY <2>1, <2>2
  <1>11. QED
    BY <1>9, <1>10 DEF TallyInv

LEMMA AmendTally ==
  ASSUME EngineInv, QueueInv, TallyInv, NEW now \in Times, NEW a \in Amendments,
         BeginOperation(now), Passes(AmendChecks(a)), orders' = Amended(a),
         NEW phase \in {"match", "finish"}, NEW taker, taker \in {Null, a.order_id},
         phase = "match" => taker = a.order_id,
         \E body : OpenWith(now, phase, taker, body)
  PROVE  TallyInv'
  <1> DEFINE id == a.order_id
             o == orders[id]
             total == NewTotal(a)
             left == total - Executed(id)
  <1>1. /\ op.phase = "idle" /\ op'.phase = phase /\ op'.taker = taker
        /\ nextSeq \in Nat /\ nextSeq >= 1 /\ FillId \in Nat
        /\ SeqNo = nextSeq /\ SeqNo' = nextSeq + 1 /\ FillId' = FillId
        /\ Due = 0 /\ lastAt' # -1 /\ Due' \in {0, 1}
    BY OpeningTally
  <1>2. id \in DOMAIN orders /\ o \in Order /\ o.state = "resting"
    BY AmendPasses, AmendedOrder DEF IsResting, EngineInv, OrdersInv
  <1>3. Tallied /\ \A x \in DOMAIN orders : Shaped(x)
    BY <1>1 DEF TallyInv
  <1>4. /\ total \in Nat /\ o.remaining \in Nat /\ o.quantity \in Nat
        /\ o.remaining <= o.quantity /\ left = total - (o.quantity - o.remaining)
        /\ left > 0
    <2>1. total \in Nat
      BY <1>2, AmendPasses DEF NewTotal, Order
    <2>2. o.remaining \in Nat /\ o.quantity \in Nat /\ o.remaining <= o.quantity
      BY <1>2, <1>3 DEF Order, Shaped
    <2>3. ~(total <= Executed(id)) /\ Executed(id) = o.quantity - o.remaining
      BY AmendPasses DEF Executed
    <2>4. QED
      BY <2>1, <2>2, <2>3
  <1>5. /\ DOMAIN orders' = DOMAIN orders
        /\ \A x \in DOMAIN orders \ {id} : orders'[x] = orders[x]
        /\ orders'[id].state = "resting" /\ orders'[id].remaining = left
        /\ orders'[id].quantity = total
    BY <1>2 DEF Amended, Order
  <1> HIDE DEF id, o, total, left
  <1>6. CancelledIds' = CancelledIds
    BY <1>2, <1>5 DEF CancelledIds, o
  <1>7. left < total <=> o.remaining < o.quantity
    BY <1>4
  <1>8. TouchedIds' = TouchedIds
    BY <1>2, <1>5, <1>7 DEF TouchedIds, o
  <1>9. Tallied'
    <2>1. /\ Cardinality(DOMAIN orders') = Cardinality(DOMAIN orders) + 0
          /\ Cardinality(CancelledIds') = Cardinality(CancelledIds) + 0
          /\ Cardinality(TouchedIds') <= Cardinality(TouchedIds) + 0
          /\ Cardinality(TouchedIds') \in Nat
      BY <1>5, <1>6, <1>8, OrdersFinite
    <2>2. /\ SeqNo \in Nat /\ FillId \in Nat /\ SeqNo' = SeqNo + 1 /\ FillId' = FillId + 0
          /\ Due \in {0, 1} /\ Due' \in {0, 1} /\ 1 + Due' >= Due + 2 * 0 + 0
          /\ 2 * 0 >= 0 /\ (lastAt' = -1 <=> SeqNo' = 1)
      BY <1>1
    <2>3. 0 \in Nat /\ 1 \in Nat
      OBVIOUS
    <2>4. QED
      BY ONLY EngineInv, <1>3, <2>1, <2>2, <2>3, TallyMoves
  <1>10. ASSUME NEW x \in DOMAIN orders' PROVE Shaped(x)'
    <2>1. CASE x = id
      BY <1>4, <1>5, <2>1 DEF Shaped
    <2>2. CASE x # id
      <3>1. x \in DOMAIN orders /\ Shaped(x) /\ orders'[x] = orders[x]
        BY <1>3, <1>5, <2>2
      <3>2. QED
        BY <1>1, <3>1 DEF Shaped
    <2>3. QED
      BY <2>1, <2>2
  <1>11. QED
    BY <1>9, <1>10 DEF TallyInv

LEMMA TerminalTally ==
  ASSUME EngineInv, QueueInv, TallyInv, Sweeping,
         orders' = [orders EXCEPT ![op.taker].state = "rejected"],
         NEW body, Continue(<<body>>, "finish", op.fill), lastAt' = lastAt
  PROVE  TallyInv'
  <1> DEFINE t == op.taker
  <1> SUFFICES ASSUME op'.phase # "wedged" PROVE TallyInv'
    BY DEF TallyInv
  <1>1. /\ op.phase = "match" /\ op'.phase = "finish" /\ Tallied
        /\ SeqNo \in Nat /\ SeqNo' = SeqNo + 1 /\ FillId' = FillId /\ FillId \in Nat
        /\ Due = 1 /\ Due' = 0 /\ (lastAt' = -1 <=> SeqNo' = 1)
    BY FinishingTally
  <1>2. t \in DOMAIN orders /\ orders[t] \in Order /\ orders[t].state = "resting"
        /\ orders[t].remaining > 0 /\ \A x \in DOMAIN orders : Shaped(x)
    BY <1>1, TakerFacts DEF QueueInv, QueuesHoldResting, Sweeping, TallyInv
  <1> HIDE DEF t
  <1>3. /\ DOMAIN orders' = DOMAIN orders
        /\ \A x \in DOMAIN orders \ {t} : orders'[x] = orders[x]
        /\ orders'[t].state = "rejected" /\ orders'[t].remaining = orders[t].remaining
        /\ orders'[t].quantity = orders[t].quantity
    BY <1>2 DEF Order, t
  <1>4. CancelledIds' = CancelledIds
    BY <1>2, <1>3 DEF CancelledIds
  <1>5. TouchedIds' = TouchedIds
    BY <1>2, <1>3 DEF TouchedIds
  <1>6. Tallied'
    <2>1. /\ Cardinality(DOMAIN orders') = Cardinality(DOMAIN orders) + 0
          /\ Cardinality(CancelledIds') = Cardinality(CancelledIds) + 0
          /\ Cardinality(TouchedIds') <= Cardinality(TouchedIds) + 0
          /\ Cardinality(TouchedIds') \in Nat
      BY <1>3, <1>4, <1>5, OrdersFinite
    <2>2. /\ SeqNo \in Nat /\ FillId \in Nat /\ SeqNo' = SeqNo + 1 /\ FillId' = FillId + 0
          /\ Due \in {0, 1} /\ Due' \in {0, 1} /\ 1 + Due' >= Due + 2 * 0 + 0
          /\ 2 * 0 >= 0 /\ (lastAt' = -1 <=> SeqNo' = 1)
      BY <1>1
    <2>3. 0 \in Nat /\ 1 \in Nat
      OBVIOUS
    <2>4. QED
      BY ONLY EngineInv, <1>1, <2>1, <2>2, <2>3, TallyMoves
  <1>7. ASSUME NEW x \in DOMAIN orders' PROVE Shaped(x)'
    <2>1. CASE x = t
      BY <1>2, <1>3, <2>1 DEF Shaped
    <2>2. CASE x # t
      <3>1. x \in DOMAIN orders /\ Shaped(x) /\ orders'[x] = orders[x]
        BY <1>2, <1>3, <2>2
      <3>2. QED
        BY <1>1, <2>2, <3>1 DEF Shaped, t
    <2>3. QED
      BY <2>1, <2>2
  <1>8. QED
    BY <1>6, <1>7 DEF TallyInv

LEMMA RestsTally ==
  ASSUME EngineInv, TallyInv, MatchRests
  PROVE  TallyInv'
  <1>1. /\ Sweeping /\ orders' = orders /\ lastAt' = lastAt
        /\ \E body : Continue(<<body>>, "finish", op.fill)
    BY DEF MatchRests
  <1> SUFFICES ASSUME op'.phase # "wedged" PROVE TallyInv'
    BY DEF TallyInv
  <1>2. /\ op.phase = "match" /\ op'.phase = "finish" /\ Tallied
        /\ SeqNo \in Nat /\ SeqNo' = SeqNo + 1 /\ FillId' = FillId /\ FillId \in Nat
        /\ Due = 1 /\ Due' = 0 /\ (lastAt' = -1 <=> SeqNo' = 1)
    BY <1>1, FinishingTally
  <1>3. orders[op.taker].remaining # 0
    BY <1>1 DEF Sweeping
  <1>4. SeqNo' \in Nat /\ SeqNo' + Due' >= SeqNo + Due
    BY <1>2
  <1>5. QED
    BY <1>1, <1>2, <1>3, <1>4, QuietTally

LEMMA CompletesTally ==
  ASSUME EngineInv, QueueInv, TallyInv, MatchCompletes
  PROVE  TallyInv'
  <1> DEFINE t == op.taker
  <1>1. /\ op.phase = "match" /\ orders[t].remaining = 0
        /\ orders' = [orders EXCEPT ![t].state = "filled"]
        /\ op' = [op EXCEPT !.phase = "finish"] /\ lastAt' = lastAt
    BY DEF MatchCompletes
  <1>2. /\ t \in DOMAIN orders /\ orders[t] \in Order /\ orders[t].state = "resting"
        /\ op.seq \in Nat /\ op.fill \in Nat /\ Tallied /\ \A x \in DOMAIN orders : Shaped(x)
    BY <1>1, TakerFacts DEF QueueInv, QueuesHoldResting, TallyInv
  <1>3. op'.phase = "finish" /\ op'.seq = op.seq /\ op'.fill = op.fill
    BY <1>1 DEF EngineInv, OperationInv
  <1>4. /\ SeqNo' = SeqNo /\ FillId' = FillId /\ SeqNo \in Nat /\ FillId \in Nat
        /\ Due = 0 /\ Due' = 0
    BY <1>1, <1>2, <1>3 DEF SeqNo, FillId, Due, Taking, Zeroed
  <1> HIDE DEF t
  <1>5. /\ DOMAIN orders' = DOMAIN orders
        /\ \A x \in DOMAIN orders \ {t} : orders'[x] = orders[x]
        /\ orders'[t].state = "filled" /\ orders'[t].remaining = orders[t].remaining
        /\ orders'[t].quantity = orders[t].quantity
    BY <1>1, <1>2 DEF Order
  <1>6. CancelledIds' = CancelledIds
    BY <1>2, <1>5 DEF CancelledIds
  <1>7. TouchedIds' = TouchedIds
    BY <1>2, <1>5 DEF TouchedIds
  <1>8. Tallied'
    <2>1. /\ Cardinality(DOMAIN orders') = Cardinality(DOMAIN orders) + 0
          /\ Cardinality(CancelledIds') = Cardinality(CancelledIds) + 0
          /\ Cardinality(TouchedIds') <= Cardinality(TouchedIds) + 0
          /\ Cardinality(TouchedIds') \in Nat
      BY <1>5, <1>6, <1>7, OrdersFinite
    <2>2. /\ SeqNo \in Nat /\ FillId \in Nat /\ SeqNo' = SeqNo + 0 /\ FillId' = FillId + 0
          /\ Due \in {0, 1} /\ Due' \in {0, 1} /\ 0 + Due' >= Due + 2 * 0 + 0
          /\ 2 * 0 >= 0 /\ (lastAt' = -1 <=> SeqNo' = 1)
      BY <1>1, <1>2, <1>4 DEF Tallied
    <2>3. 0 \in Nat
      OBVIOUS
    <2>4. QED
      BY ONLY EngineInv, <1>2, <2>1, <2>2, <2>3, TallyMoves
  <1>9. ASSUME NEW x \in DOMAIN orders' PROVE Shaped(x)'
    <2>1. CASE x = t
      BY <1>1, <1>2, <1>5, <2>1 DEF Shaped, Order
    <2>2. CASE x # t
      <3>1. x \in DOMAIN orders /\ Shaped(x) /\ orders'[x] = orders[x]
        BY <1>2, <1>5, <2>2
      <3>2. QED
        BY <1>3, <2>2, <3>1 DEF Shaped, t
    <2>3. QED
      BY <2>1, <2>2
  <1>10. QED
    BY <1>8, <1>9 DEF TallyInv

LEMMA FillTally ==
  ASSUME EngineInv, QueueInv, EventsInv, TallyInv, MatchFill
  PROVE  TallyInv'
  <1> DEFINE t == op.taker
             o == orders[t]
  <1> SUFFICES ASSUME op'.phase # "wedged" PROVE TallyInv'
    BY DEF TallyInv
  <1>1. Sweeping /\ lastAt' = lastAt
    BY DEF MatchFill
  <1>2. PICK p \in Prices : \E maker, units, first, second :
          /\ FillShows(maker, p, units, first, second)
          /\ op'.phase = "match" /\ op'.taker = op.taker /\ op'.fill = op.fill + 1
          /\ op'.seq = op.seq + 2
    BY FillExecutes
  <1>3. PICK maker, units, first, second :
          /\ FillShows(maker, p, units, first, second)
          /\ op'.phase = "match" /\ op'.taker = op.taker /\ op'.fill = op.fill + 1
          /\ op'.seq = op.seq + 2
    BY <1>2
  <1> DEFINE left == orders[maker].remaining - units
             rest == o.remaining - units
  <1>4. /\ op.phase = "match" /\ t \in DOMAIN orders /\ o \in Order /\ o.state = "resting"
        /\ o.remaining > 0 /\ t # Null
        /\ op.seq \in Nat /\ op.fill \in Nat \ {0} /\ 2 * op.fill <= op.seq
        /\ Tallied /\ \A x \in DOMAIN orders : Shaped(x)
    BY <1>1, TakerFacts, EventConstants
       DEF QueueInv, QueuesHoldResting, Sweeping, TallyInv, EngineInv, OrdersInv
  <1>5. /\ maker \in DOMAIN orders /\ maker # t /\ orders[maker] \in Order
        /\ orders[maker].state = "resting"
        /\ units \in Nat /\ units > 0 /\ left \in Nat /\ rest \in Nat
        /\ DOMAIN orders' = DOMAIN orders
        /\ \A x \in DOMAIN orders \ {maker, t} : orders'[x] = orders[x]
        /\ orders'[maker] = FilledEntry(orders[maker], left)
        /\ orders'[t] = [o EXCEPT !.remaining = rest]
    BY <1>3 DEF FillShows, Waits, EngineInv, OrdersInv
  <1>6. /\ orders'[maker].state = (IF left = 0 THEN "filled" ELSE "resting")
        /\ orders'[maker].remaining = left
        /\ orders'[maker].quantity = orders[maker].quantity
        /\ orders'[t].state = "resting" /\ orders'[t].remaining = rest
        /\ orders'[t].quantity = o.quantity
    <2> HIDE DEF o, left, rest
    <2>1. QED
      BY <1>4, <1>5 DEF FilledEntry, Order
  <1>7. /\ SeqNo = op.seq /\ SeqNo' = op.seq + 2 /\ FillId = op.fill /\ FillId' = op.fill + 1
        /\ Due = 1 /\ Due' \in {0, 1}
    <2>1. ~Zeroed
      BY <1>4 DEF Zeroed
    <2>2. Due = 1
      BY <1>4, <2>1 DEF Due, Taking
    <2>3. Due' \in {0, 1}
      BY DEF Due
    <2>4. QED
      BY <1>3, <1>4, <2>2, <2>3 DEF SeqNo, FillId
  <1>8. op.seq # 1 /\ op.seq + 2 # 1 /\ lastAt # -1
    <2>1. op.seq # 1 /\ op.seq + 2 # 1
      BY <1>4
    <2>2. QED
      BY <1>4, <1>7, <2>1 DEF Tallied
  <1> HIDE DEF o, t, left, rest
  <1>9. CancelledIds' = CancelledIds
    BY <1>4, <1>5, <1>6 DEF CancelledIds, o
  <1>10. TouchedIds' \subseteq TouchedIds \cup {maker, t}
    BY <1>5 DEF TouchedIds
  <1>11. Tallied'
    <2>1. /\ Cardinality(DOMAIN orders') = Cardinality(DOMAIN orders) + 0
          /\ Cardinality(CancelledIds') = Cardinality(CancelledIds) + 0
          /\ Cardinality(TouchedIds') <= Cardinality(TouchedIds) + 2
          /\ Cardinality(TouchedIds') \in Nat
      <3>1. IsFiniteSet(TouchedIds) /\ Cardinality(CancelledIds) \in Nat
            /\ Cardinality(DOMAIN orders) \in Nat
        BY OrdersFinite
      <3>2. Cardinality(TouchedIds') <= Cardinality(TouchedIds) + 2
            /\ Cardinality(TouchedIds') \in Nat
        BY ONLY <1>10, <3>1, TwoMoreCount
      <3>3. QED
        BY <1>5, <1>9, <3>1, <3>2
    <2> DEFINE q == SeqNo'
               d == Due'
    <2>2. SeqNo \in Nat /\ FillId \in Nat /\ q = SeqNo + 2 /\ FillId' = FillId + 1
          /\ Due \in {0, 1} /\ d \in {0, 1} /\ (lastAt' = -1 <=> q = 1)
      BY <1>1, <1>4, <1>7, <1>8
    <2>3. 0 \in Nat /\ 1 \in Nat /\ 2 \in Nat /\ 2 * 1 >= 2
      OBVIOUS
    <2>4. d \in Nat /\ Due = 1
      BY <1>7
    <2> HIDE DEF q, d
    <2>5. 2 + d >= Due + 2 * 0 + 0
      BY <2>4
    <2>6. /\ SeqNo \in Nat /\ FillId \in Nat /\ SeqNo' = SeqNo + 2 /\ FillId' = FillId + 1
          /\ Due \in {0, 1} /\ Due' \in {0, 1} /\ (lastAt' = -1 <=> SeqNo' = 1)
          /\ 2 + Due' >= Due + 2 * 0 + 0
      BY ONLY <2>2, <2>5 DEF q, d
    <2>7. QED
      BY ONLY EngineInv, <1>4, <2>1, <2>3, <2>6, TallyMoves
  <1>12. ASSUME NEW x \in DOMAIN orders' PROVE Shaped(x)'
    <2>1. CASE x = maker
      <3> DEFINE m == orders[maker]
                 q == m.quantity
                 r == m.remaining
      <3>1. r <= q /\ q \in Nat /\ r \in Nat
        BY <1>4, <1>5 DEF Shaped, Order
      <3>2. left = r - units
        BY DEF left
      <3> HIDE DEF m, q, r
      <3>3. left <= q
        BY <1>5, <3>1, <3>2
      <3>4. orders'[maker].quantity = q
        BY <1>6 DEF q, m
      <3>5. QED
        BY <1>6, <2>1, <3>3, <3>4 DEF Shaped
    <2>2. CASE x = t
      <3> DEFINE q == o.quantity
                 r == o.remaining
      <3>1. r <= q /\ q \in Nat /\ r \in Nat
        BY <1>4, <1>5 DEF Shaped, Order, o
      <3>2. rest = r - units
        BY DEF rest
      <3>3. orders'[t].quantity = q
        BY <1>6
      <3> HIDE DEF q, r
      <3>4. rest <= q
        BY <1>5, <3>1, <3>2
      <3>5. op'.phase = "match" /\ op'.taker = t
        BY <1>3 DEF t
      <3>6. QED
        BY <1>6, <2>2, <3>3, <3>4, <3>5 DEF Shaped
    <2>3. CASE x # maker /\ x # t
      <3>1. x \in DOMAIN orders /\ Shaped(x) /\ orders'[x] = orders[x]
        BY <1>4, <1>5, <2>3
      <3>2. op'.phase = "match" /\ op'.taker = t /\ op.phase = "match" /\ op.taker = t
        BY <1>3, <1>4 DEF t
      <3>3. QED
        BY <3>1, <3>2 DEF Shaped
    <2>4. QED
      BY <2>1, <2>2, <2>3
  <1>13. QED
    BY <1>11, <1>12 DEF TallyInv

LEMMA TallyNext ==
  ASSUME EngineInv, QueueInv, EventsInv, TallyInv, [Next]_vars
  PROVE  TallyInv'
  <1>1. ASSUME NEW now \in Times, NEW o \in Submissions, SubmitOrder(o, now)
        PROVE  TallyInv'
    <2>1. CASE SubmitRejected(o, now)
      <3>1. BeginOperation(now) /\ \E id, instrument, side, reason :
              RejectWith(now, id, instrument, side, reason)
        BY <2>1 DEF SubmitRejected
      <3>2. QED
        BY <3>1, RejectedTally
    <2>2. QED
      BY <1>1, <2>1, SubmitTally DEF SubmitOrder
  <1>2. ASSUME NEW now \in Times, NEW c \in Cancellations, CancelOrder(c, now)
        PROVE  TallyInv'
    <2>1. CASE CancelRejected(c, now)
      <3>1. BeginOperation(now) /\ \E id, instrument, side, reason :
              RejectWith(now, id, instrument, side, reason)
        BY <2>1 DEF CancelRejected
      <3>2. QED
        BY <3>1, RejectedTally
    <2>2. QED
      BY <1>2, <2>1, CancelTally DEF CancelOrder
  <1>3. ASSUME NEW now \in Times, NEW a \in Amendments, AmendOrder(a, now)
        PROVE  TallyInv'
    <2>1. CASE AmendRejected(a, now)
      <3>1. BeginOperation(now) /\ \E id, instrument, side, reason :
              RejectWith(now, id, instrument, side, reason)
        BY <2>1 DEF AmendRejected
      <3>2. QED
        BY <3>1, RejectedTally
    <2>2. CASE AmendInPlace(a, now)
      <3>1. /\ BeginOperation(now) /\ Passes(AmendChecks(a)) /\ orders' = Amended(a)
            /\ \E body : OpenWith(now, "finish", Null, body)
        BY <2>2 DEF AmendInPlace
      <3>2. QED
        BY <3>1, AmendTally
    <2>3. CASE AmendRequeued(a, now)
      <3>1. /\ BeginOperation(now) /\ Passes(AmendChecks(a)) /\ orders' = Amended(a)
            /\ \E body : OpenWith(now, "match", a.order_id, body)
        BY <2>3 DEF AmendRequeued
      <3>2. QED
        BY <3>1, AmendTally
    <2>4. QED
      BY <1>3, <2>1, <2>2, <2>3 DEF AmendOrder
  <1>4. CASE MatchTaker
    <2>1. CASE MatchSelfTrade
      <3>1. /\ Sweeping /\ orders' = [orders EXCEPT ![op.taker].state = "rejected"]
            /\ lastAt' = lastAt /\ \E body : Continue(<<body>>, "finish", op.fill)
        BY <2>1 DEF MatchSelfTrade
      <3>2. QED
        BY <3>1, TerminalTally
    <2>2. CASE MatchRunsDry
      <3>1. /\ Sweeping /\ orders' = [orders EXCEPT ![op.taker].state = "rejected"]
            /\ lastAt' = lastAt /\ \E body : Continue(<<body>>, "finish", op.fill)
        BY <2>2 DEF MatchRunsDry
      <3>2. QED
        BY <3>1, TerminalTally
    <2>3. QED
      BY <1>4, <2>1, <2>2, FillTally, RestsTally, CompletesTally DEF MatchTaker
  <1>5. CASE Commit
    <2>1. /\ op.phase = "finish" /\ op'.phase = "idle" /\ nextSeq' = op.seq
          /\ nextFill' = op.fill /\ orders' = orders /\ lastAt' = lastAt
      BY <1>5 DEF Commit, Idle
    <2>2. op.seq \in Nat /\ op.fill \in Nat
      BY <2>1, EventConstants DEF EngineInv, CountersInv
    <2>3. /\ SeqNo' = SeqNo /\ FillId' = FillId /\ SeqNo \in Nat /\ FillId \in Nat
          /\ Due = 0 /\ Due' = 0
      BY <2>1, <2>2 DEF SeqNo, FillId, Due, Taking
    <2>4. lastAt' = -1 <=> SeqNo' = 1
      BY <2>1, <2>3 DEF TallyInv, Tallied
    <2>5. SeqNo' \in Nat /\ SeqNo' + Due' >= SeqNo + Due /\ op.phase # "wedged"
      BY <2>1, <2>3
    <2>6. QED
      BY <2>1, <2>3, <2>4, <2>5, QuietTally
  <1>6. CASE UNCHANGED vars
    BY <1>6 DEF vars, TallyInv, Tallied, Shaped, SeqNo, FillId, Due, Taking, Zeroed,
                CancelledIds, TouchedIds
  <1>7. QED
    BY <1>1, <1>2, <1>3, <1>4, <1>5, <1>6 DEF Next, Call

LEMMA TallyAlways == Spec => []TallyInv
  <1>1. EngineInv /\ QueueInv /\ TradeInv /\ TallyInv /\ [Next]_vars => TallyInv'
    BY TallyNext DEF TradeInv
  <1>2. QED
    BY <1>1, TallyInit, EngineInvAlways, QueueAlways, TradeAlways, PTL DEF Spec

LEMMA MirrorAlways == Spec => []MirrorInv
  <1>1. EngineInv /\ QueueInv /\ TradeInv /\ MirrorInv /\ [Next]_vars => MirrorInv'
    BY MirrorNext
  <1>2. QED
    BY <1>1, MirrorInit, EngineInvAlways, QueueAlways, TradeAlways, PTL DEF Spec

-----------------------------------------------------------------------------
(* Between operations the snapshot of the fold is the engine's own: the    *)
(* parser accepts it and it hydrates into the engine.                      *)

Accepted(n) ==
  /\ n.orders = orders /\ n.tracked = tracked
  /\ n.resting = RestingIn(tracked, orders)
  /\ n.next_seq = nextSeq /\ n.next_fill = nextFill
  /\ n.last_at = IF lastAt < 0 THEN Null ELSE lastAt

LEMMA RestingLine ==
  ASSUME EngineInv, QueuesHoldResting, PriorityInv, op.phase = "idle"
  PROVE  LET r == RestingIn(tracked, orders)
         IN  /\ r \in Seq(OrderIds) /\ Unrepeated(r)
             /\ Range(r) = {id \in DOMAIN orders : Waits(id)}
             /\ \A x, y : InOrder(r, x, y) => InOrder(tracked, x, y)
  <1> DEFINE set == {id \in Range(tracked) : orders[id].state = "resting"}
  <1>1. tracked \in Seq(OrderIds) /\ Unrepeated(tracked) /\ Range(tracked) = DOMAIN orders
    BY OrdersFinite DEF EngineInv, TrackedInv, OrdersInv, PriorityInv
  <1>2. set = {id \in DOMAIN orders : Waits(id)}
    BY <1>1 DEF Waits
  <1>3. RestingIn(tracked, orders) = Among(tracked, set)
    BY DEF RestingIn
  <1>4. Range(tracked) \cap set = {id \in DOMAIN orders : Waits(id)}
    BY <1>1, <1>2
  <1> HIDE DEF set
  <1>5. QED
    BY <1>1, <1>3, <1>4, AmongFacts

LEMMA SumsStep ==
  ASSUME NEW T, IsFiniteSet(T), NEW v \in [T -> Int], NEW g, Sums(g, v, T),
         NEW s \in SUBSET T, NEW x \in s
  PROVE  g[s] = v[x] + g[s \ {x}]
  BY SumsAny

LEMMA MinimumIs ==
  ASSUME EngineInv, Tallied, op.phase = "idle", NEW T, IsFiniteSet(T), T \subseteq DOMAIN orders
  PROVE  MapThenSumSet(LAMBDA id : MinEvents(orders[id].state), T)
           = 2 * Cardinality(T) + Cardinality(T \cap CancelledIds)
  <1> DEFINE w == [x \in T |-> MinEvents(orders[x].state)]
             Body(f) == [s \in SUBSET T |->
               IF s = {} THEN 0
               ELSE MinEvents(orders[CHOOSE x \in s : TRUE].state)
                      + f[s \ {CHOOSE x \in s : TRUE}]]
             chosen == CHOOSE f : f = Body(f)
             Good == {s \in SUBSET T :
                        chosen[s] = 2 * Cardinality(s) + Cardinality(s \cap CancelledIds)}
  <1>1. MapThenSumSet(LAMBDA id : MinEvents(orders[id].state), T) = chosen[T]
    BY DEF MapThenSumSet, MapThenFoldSet
  <1>2. w \in [T -> Int] /\ \A x \in T : w[x] = MinEvents(orders[x].state)
    BY DEF MinEvents
  <1>3. ASSUME NEW f
        PROVE  Body(f) = [s \in SUBSET T |-> IF s = {} THEN 0 ELSE w[Some(s)] + f[s \ {Some(s)}]]
    <2>1. \A s \in SUBSET T : s # {} => w[Some(s)] = MinEvents(orders[Some(s)].state)
      BY SomeIn
    <2> HIDE DEF w
    <2>2. QED
      BY <2>1 DEF Some
  <1> HIDE DEF Body, w
  <1>4. \A f : f = Body(f) <=> Sums(f, w, T)
    BY <1>3 DEF Sums
  <1>5. \E f : f = Body(f)
    BY <1>2, <1>4, SumsExist
  <1>6. chosen = Body(chosen)
    BY <1>5
  <1> HIDE DEF chosen
  <1>7. Sums(chosen, w, T)
    BY <1>4, <1>6
  <1>12. ASSUME NEW s \in SUBSET T, NEW x \in s
         PROVE  chosen[s] = w[x] + chosen[s \ {x}]
    <2>1. IsFiniteSet(T)
      OBVIOUS
    <2>2. w \in [T -> Int]
      BY <1>2
    <2>3. s \in SUBSET T /\ x \in s
      BY <1>12
    <2>4. PICK g : g = chosen
      OBVIOUS
    <2>5. Sums(g, w, T)
      BY ONLY <1>7, <2>4
    <2>6. g[s] = w[x] + g[s \ {x}]
      BY ONLY <2>1, <2>2, <2>3, <2>5, SumsStep
    <2>7. QED
      BY ONLY <2>4, <2>6
  <1>8. ASSUME NEW s \in SUBSET T, \A r \in SUBSET s : r # s => r \in Good
        PROVE  s \in Good
    <2>1. CASE s = {}
      <3>1. chosen[s] = 0
        BY <1>7, <2>1, SumsAt
      <3>2. Cardinality(s) = 0 /\ s \cap CancelledIds = {} /\ Cardinality({}) = 0
        BY <2>1, FS_EmptySet
      <3>3. QED
        BY <3>1, <3>2
    <2>2. CASE s # {}
      <3>1. PICK x : x \in s
        BY <2>2
      <3> DEFINE r == s \ {x}
                 C == r \cap CancelledIds
      <3>2. chosen[s] = w[x] + chosen[r]
        BY <1>12, <3>1
      <3>3. r \in Good
        BY <1>8, <3>1
      <3>4. IsFiniteSet(s) /\ IsFiniteSet(r) /\ x \notin r /\ s = r \cup {x}
        BY <3>1, FS_Subset
      <3>5. IsFiniteSet(C) /\ x \notin C
        BY <3>4, FS_Subset
      <3>6. s \cap CancelledIds = IF x \in CancelledIds THEN C \cup {x} ELSE C
        BY <3>4
      <3>7. w[x] = IF x \in CancelledIds THEN 3 ELSE 2
        BY <1>2, <3>1 DEF MinEvents, CancelledIds
      <3>8. chosen[r] = 2 * Cardinality(r) + Cardinality(C)
        BY <3>3
      <3> HIDE DEF r, C
      <3>9. Cardinality(s) = Cardinality(r) + 1 /\ Cardinality(r) \in Nat
        BY <3>4, OneMoreCounts
      <3>10. Cardinality(C \cup {x}) = Cardinality(C) + 1 /\ Cardinality(C) \in Nat
        BY <3>5, OneMoreCounts
      <3>11. chosen[s] = 2 * Cardinality(s) + Cardinality(s \cap CancelledIds)
        <4>1. CASE x \in CancelledIds
          <5>1. Cardinality(s \cap CancelledIds) = Cardinality(C) + 1
            BY <3>6, <3>10, <4>1
          <5>2. w[x] = 3
            BY <3>7, <4>1
          <5> DEFINE all == Cardinality(s)
                     rest == Cardinality(r)
                     gone == Cardinality(C)
                     both == Cardinality(s \cap CancelledIds)
          <5>3. /\ chosen[s] = w[x] + chosen[r] /\ w[x] = 3
                /\ chosen[r] = 2 * rest + gone /\ both = gone + 1 /\ all = rest + 1
                /\ rest \in Nat /\ gone \in Nat
            BY <3>2, <3>8, <3>9, <3>10, <5>1, <5>2
          <5> HIDE DEF all, rest, gone, both
          <5>4. chosen[s] = 2 * all + both
            BY <5>3
          <5>5. QED
            BY <5>4 DEF all, both
        <4>2. CASE x \notin CancelledIds
          BY <3>2, <3>6, <3>7, <3>8, <3>9, <3>10, <4>2
        <4>3. QED
          BY <4>1, <4>2
      <3>12. QED
        BY <3>11
    <2>3. QED
      BY <2>1, <2>2
  <1> HIDE DEF Good
  <1>9. SUBSET T \subseteq Good
    BY <1>8, SubsetInduction
  <1>10. T \in Good
    BY <1>9
  <1>11. QED
    BY <1>1, <1>10 DEF Good

LEMMA EntriesParse ==
  ASSUME EngineInv, QueuesHoldResting, TallyInv, MarketsUnpriced, op.phase = "idle",
         NEW x \in DOMAIN orders
  PROVE  OrderParses(orders[x])
  <1> DEFINE o == orders[x]
  <1>1. /\ o \in Order /\ Shaped(x) /\ (o.order_type = "limit" => o.price \in Prices)
        /\ (o.order_type = "market" => o.price = Null)
    BY DEF EngineInv, OrdersInv, TallyInv, MarketsUnpriced
  <1>2. o.state = "resting" => o.order_type = "limit"
    <2> SUFFICES ASSUME o.state = "resting" PROVE o.order_type = "limit"
      OBVIOUS
    <2>1. Waits(x)
      BY DEF Waits
    <2>2. o.instrument \in Instruments /\ x \in books[o.instrument].resting
      BY <2>1, WaitingIsQueued
    <2>3. QED
      BY <2>2 DEF EngineInv, BooksInv
  <1>3. QED
    BY <1>1, <1>2 DEF Shaped, OrderParses, Order

LEMMA AcceptedUncrossed ==
  ASSUME EngineInv, QueuesHoldResting, PriorityInv, op.phase = "idle", NEW n, Accepted(n)
  PROVE  Uncrossed(n)
  <1> SUFFICES ASSUME NEW id \in Range(n.resting), NEW other \in Range(n.resting),
                      orders[id].instrument = orders[other].instrument,
                      orders[id].side = "buy", orders[other].side = "sell"
               PROVE  orders[id].price < orders[other].price
    BY DEF Uncrossed, Accepted
  <1>1. /\ id \in DOMAIN orders /\ Waits(id) /\ other \in DOMAIN orders /\ Waits(other)
    BY RestingLine DEF Accepted
  <1>2. \A x \in {id, other} :
          /\ orders[x].instrument \in Instruments /\ orders[x].price \in Prices
          /\ books[orders[x].instrument] \in Book
          /\ x \in Queued(books[orders[x].instrument], orders[x].side, orders[x].price)
    BY <1>1, WaitingIsQueued
  <1>3. /\ orders[id].price \in Live(books[orders[id].instrument], "buy")
        /\ orders[other].price \in Live(books[orders[id].instrument], "sell")
    BY <1>2, BookFacts DEF Sides
  <1>4. QED
    BY <1>2, <1>3 DEF EngineInv, NeverCrossed

LEMMA AcceptedFits ==
  ASSUME EngineInv, TallyInv, op.phase = "idle", NEW n, Accepted(n)
  PROVE  CountersFit(n)
  <1>1. Tallied /\ SeqNo = nextSeq /\ FillId = nextFill /\ Due = 0
    BY DEF TallyInv, SeqNo, FillId, Due, Taking
  <1>2. /\ nextSeq \in 1 .. MaxSafe /\ nextFill \in Nat \ {0} /\ 2 * nextFill <= nextSeq + 1
        /\ lastAt \in Times \cup {-1} /\ MaxSafe \in Nat
    BY EventConstants DEF EngineInv, CountersInv
  <1> DEFINE ids == Range(tracked)
             minimum == MapThenSumSet(LAMBDA id : MinEvents(orders[id].state), ids)
             touched == {id \in ids : /\ orders[id].state # "cancelled"
                                      /\ orders[id].remaining < orders[id].quantity}
  <1>3. /\ ids = DOMAIN orders /\ IsFiniteSet(DOMAIN orders)
        /\ Cardinality(DOMAIN orders) \in Nat /\ Cardinality(CancelledIds) \in Nat
    BY OrdersFinite
  <1>4. minimum = 2 * Cardinality(DOMAIN orders) + Cardinality(CancelledIds)
    <2>1. DOMAIN orders \cap CancelledIds = CancelledIds
      BY DEF CancelledIds
    <2>2. minimum = 2 * Cardinality(ids) + Cardinality(ids \cap CancelledIds)
      BY <1>1, <1>3, MinimumIs
    <2>3. QED
      BY <1>3, <2>1, <2>2
  <1>5. touched = TouchedIds
    BY <1>3 DEF TouchedIds
  <1>6. (n.last_at = Null) <=> (nextSeq = 1)
    <2>1. lastAt \in Nat \/ lastAt = -1
      BY <1>2, EngineConstants
    <2>2. lastAt \in Nat => lastAt # Null /\ ~(lastAt < 0)
      BY EventConstants
    <2>3. QED
      BY <1>1, <2>1, <2>2 DEF Accepted, Tallied
  <1>7. nextFill \in 1 .. MaxSafe /\ (nextSeq = 1 => nextFill = 1)
    BY <1>2
  <1> HIDE DEF minimum, touched
  <1>8. nextSeq >= 1 + minimum
    BY <1>1, <1>2, <1>3, <1>4 DEF Tallied
  <1>9. 2 * (nextFill - 1) >= Cardinality(touched)
    BY <1>1, <1>5 DEF Tallied
  <1>10. QED
    BY <1>2, <1>6, <1>7, <1>8, <1>9 DEF CountersFit, Accepted, minimum, touched

LEMMA AcceptedParses ==
  ASSUME EngineInv, QueuesHoldResting, PriorityInv, TallyInv, MarketsUnpriced,
         op.phase = "idle", NEW n, Accepted(n)
  PROVE  ParseEngineSnapshot(n)
  <1>1. \A j, k \in DOMAIN n.tracked : n.tracked[j] = n.tracked[k] => j = k
    <2>1. DOMAIN tracked = 1 .. Len(tracked)
      BY DEF EngineInv, TrackedInv
    <2>2. QED
      BY <2>1 DEF Accepted, PriorityInv, Unrepeated
  <1>2. \A id \in Range(n.tracked) : OrderParses(n.orders[id])
    BY EntriesParse, OrdersFinite DEF Accepted
  <1>3. n.resting = RestingIn(n.tracked, n.orders)
    BY DEF Accepted
  <1>4. QED
    BY <1>1, <1>2, <1>3, AcceptedUncrossed, AcceptedFits DEF ParseEngineSnapshot

LEMMA AcceptedHydrates ==
  ASSUME EngineInv, QueuesHoldResting, PriorityInv, op.phase = "idle", NEW n, Accepted(n)
  PROVE  HydrateEngineState(n) = EngineState
  <1>1. HydrateBooks(n) = books
    <2>1. /\ n.orders = orders /\ n.resting \in Seq(OrderIds) /\ Unrepeated(n.resting)
          /\ Range(n.resting) = {id \in DOMAIN orders : Waits(id)}
          /\ \A x, y : InOrder(n.resting, x, y) => InOrder(tracked, x, y)
      BY RestingLine DEF Accepted
    <2>2. QED
      BY <2>1, HydratedBooks
  <1>2. (IF n.last_at = Null THEN -1 ELSE n.last_at) = lastAt
    <2>1. lastAt \in Nat \/ lastAt = -1
      BY EngineConstants DEF EngineInv, CountersInv
    <2>2. lastAt \in Nat => lastAt # Null /\ ~(lastAt < 0)
      BY EventConstants
    <2>3. QED
      BY <2>1, <2>2 DEF Accepted
  <1>3. QED
    BY <1>1, <1>2 DEF HydrateEngineState, EngineState, Accepted

(* The fold on the boundary behind the last operation, whenever that began. *)
LEMMA FoldedIsAccepted ==
  ASSUME EngineInv, QueuesHoldResting, op.phase = "idle", NEW at, NEW s,
         s = State(orders, tracked, books, nextSeq, nextFill - 1, lastAt, at, Null, {})
  PROVE  Accepted(FoldSnapshot(s)) /\ s # Refused /\ OnBoundary(s)
  <1>1. /\ s.orders = orders /\ s.tracked = tracked /\ s.books = books
        /\ s.expectedSeq = nextSeq /\ s.lastFill = nextFill - 1
        /\ s.lastAt = lastAt /\ s.inFlight = Null /\ s.pendingMaker = {}
        /\ s # Refused
    BY DEF State, Refused
  <1>2. {id \in Range(tracked) : InBook(s, id)}
          = {id \in Range(tracked) : orders[id].state = "resting"}
    <2>1. ASSUME NEW id \in DOMAIN orders
          PROVE  InBook(s, id) <=> orders[id].state = "resting"
      <3>1. InBook(s, id) <=> id \in books[orders[id].instrument].resting
        BY <1>1 DEF InBook
      <3>2. orders[id].instrument \in Instruments
        BY DEF EngineInv, OrdersInv, Order
      <3>3. QED
        BY <3>1, <3>2 DEF QueuesHoldResting, Holds, Waits
    <2>2. Range(tracked) = DOMAIN orders
      BY OrdersFinite
    <2>3. QED
      BY <2>1, <2>2
  <1>3. nextFill - 1 + 1 = nextFill
    BY DEF EngineInv, CountersInv
  <1> DEFINE n == FoldSnapshot(s)
  <1>4. n = [CanonicalEngineSnapshot(orders, tracked, nextSeq, nextFill, lastAt)
               EXCEPT !.resting = RestingIn(tracked, orders)]
    BY <1>1, <1>2, <1>3 DEF FoldSnapshot, RestingIn
  <1> HIDE DEF n
  <1>5. Accepted(n)
    BY <1>4 DEF Accepted, CanonicalEngineSnapshot
  <1>6. QED
    BY <1>1, <1>5 DEF OnBoundary, n

LEMMA BoundaryRebuilds ==
  ASSUME EngineInv, QueueInv, TradeInv, PriorityInv, TallyInv, op.phase = "idle",
         NEW at, NEW s,
         s = State(orders, tracked, books, nextSeq, nextFill - 1, lastAt, at, Null, {})
  PROVE  Rebuilt(s) = EngineState
  <1>1. QueuesHoldResting /\ MarketsUnpriced
    BY DEF QueueInv, TradeInv
  <1>2. Accepted(FoldSnapshot(s)) /\ s # Refused /\ OnBoundary(s)
    BY <1>1, FoldedIsAccepted
  <1>3. ParseEngineSnapshot(FoldSnapshot(s))
    BY <1>1, <1>2, AcceptedParses
  <1>4. HydrateEngineState(FoldSnapshot(s)) = EngineState
    BY <1>1, <1>2, AcceptedHydrates
  <1>5. QED
    BY <1>2, <1>3, <1>4 DEF Rebuilt

LEMMA IdleFolds ==
  ASSUME TradeInv, MirrorInv, op.phase = "idle"
  PROVE  Emitted = journal /\ Folded(FoldStart, journal) = Mirror
  <1>1. journal \in Seq(Range(journal)) /\ op.events = << >>
    BY DEF TradeInv, EventsInv, IsSeq
  <1>2. journal \o << >> = journal
    BY <1>1, ConcatEmptySeq
  <1>3. Emitted = journal
    BY <1>1, <1>2 DEF Emitted
  <1>4. QED
    BY <1>3 DEF MirrorInv

LEMMA IdleReplays ==
  ASSUME EngineInv, QueueInv, TradeInv, PriorityInv, TallyInv, MirrorInv, op.phase = "idle"
  PROVE  ReplayMatchingEngine(journal) = EngineState
  <1>1. Folded(FoldStart, journal) = Mirror
    BY IdleFolds
  <1>2. Rebuilt(Mirror) = EngineState
    BY IdleMirror, BoundaryRebuilds
  <1>3. QED
    BY <1>1, <1>2 DEF ReplayMatchingEngine

(* Replaying the journal between operations gives the live engine, to the  *)
(* order of every price level: the fold refuses no event the engine        *)
(* emitted, the snapshot of what it folded parses, and the queues come     *)
(* back from the order of the tracked map alone.                           *)
THEOREM ReplayGivesTheEngine == Spec => []ReplayRebuildsEngine
  <1>1. EngineInv /\ QueueInv /\ TradeInv /\ PriorityInv /\ TallyInv /\ MirrorInv
          => ReplayRebuildsEngine
    BY IdleReplays DEF ReplayRebuildsEngine
  <1>2. QED
    BY <1>1, EngineInvAlways, QueueAlways, TradeAlways, PriorityAlways, TallyAlways,
       MirrorAlways, PTL
-----------------------------------------------------------------------------
(* A stream that ends inside an operation.                                 *)

(* The first n events of a sequence.                                       *)
Cut(E, n) == [k \in 1 .. n |-> E[k]]

(* The fold of E stops with an order in flight or a maker unanswered.      *)
Halfway(E) == ~OnBoundary(Folded(FoldStart, E))

LEMMA CutFacts ==
  ASSUME NEW E, IsSeq(E), NEW n \in 0 .. Len(E)
  PROVE  /\ SubSeq(E, 1, n) = Cut(E, n) /\ IsSeq(Cut(E, n)) /\ Len(Cut(E, n)) = n
         /\ n = Len(E) => Cut(E, n) = E
  <1>1. E \in Seq(Range(E)) /\ Len(E) \in Nat /\ DOMAIN E = 1 .. Len(E)
    BY SeqFacts DEF IsSeq
  <1>2. \A k \in 1 .. n : E[k] \in Range(E)
    BY <1>1, RangeFacts
  <1>3. Cut(E, n) \in Seq(Range(E)) /\ Len(Cut(E, n)) = n
    BY <1>1, <1>2 DEF Cut
  <1>4. SubSeq(E, 1, n) = Cut(E, n)
    BY <1>1, <1>2 DEF Cut
  <1>5. n = Len(E) => Cut(E, n) = E
    BY <1>1 DEF Cut
  <1>6. QED
    BY <1>3, <1>4, <1>5, AnySeq

LEMMA CutKept ==
  ASSUME NEW E, NEW F, Extends(E, F), NEW n \in 0 .. Len(E)
  PROVE  Cut(F, n) = Cut(E, n)
  <1>1. Len(E) \in Nat
    BY SeqFacts DEF Extends
  <1>2. \A k \in 1 .. n : F[k] = E[k]
    BY <1>1 DEF Extends
  <1>3. QED
    BY <1>2 DEF Cut

LEMMA CutIsPrefix ==
  ASSUME NEW E, NEW F, Extends(E, F)
  PROVE  Cut(F, Len(E)) = E
  <1>1. Len(E) \in Nat /\ IsSeq(E)
    BY SeqFacts DEF Extends
  <1>2. Len(E) \in 0 .. Len(E)
    BY <1>1
  <1>3. QED
    BY <1>1, <1>2, CutFacts, CutKept

(* Between the journal and the end of the open operation's events the fold *)
(* is inside that operation.                                               *)
TornInv ==
  op.phase \in {"match", "finish"} =>
    \A n \in Len(journal) + 1 .. Len(Emitted) - 1 : Halfway(Cut(Emitted, n))

LEMMA SweepIsHalfway ==
  ASSUME EngineInv, QueueInv, MirrorInv, Sweeping
  PROVE  Halfway(Emitted)
  <1>1. op.phase = "match" /\ op.taker # Null /\ Mirror.inFlight = op.taker
    BY SweepMirror
  <1>2. Folded(FoldStart, Emitted) = Mirror
    BY <1>1 DEF MirrorInv
  <1>3. QED
    BY <1>1, <1>2 DEF Halfway, OnBoundary

LEMMA OpeningTorn ==
  ASSUME EngineInv, EventsInv, NEW now, BeginOperation(now),
         NEW phase \in {"match", "finish"}, NEW taker, NEW body,
         OpenWith(now, phase, taker, body), journal' = journal
  PROVE  TornInv'
  <1>1. PICK e : OneMore(Emitted, Emitted', e)
    BY OpeningEmits
  <1>2. IsSeq(journal) /\ op.events = << >>
    BY DEF EventsInv, BeginOperation
  <1>3. Emitted = journal
    BY <1>2 DEF Emitted, IsSeq
  <1>4. Len(Emitted') - 1 = Len(journal) /\ Len(journal) \in Nat
    BY <1>1, <1>2, <1>3, SeqFacts DEF OneMore
  <1> DEFINE before == Len(journal')
             last == Len(Emitted') - 1
  <1>5. before = last /\ last \in Nat
    BY <1>4
  <1> HIDE DEF before, last
  <1>6. before + 1 .. last = {}
    BY <1>5
  <1>7. QED
    BY <1>6 DEF TornInv, before, last

LEMMA CallTorn ==
  ASSUME EngineInv, EventsInv, Call
  PROVE  TornInv'
  <1>1. ASSUME NEW now \in Times, NEW o \in Submissions, SubmitOrder(o, now)
        PROVE  TornInv'
    <2>1. CASE SubmitRejected(o, now)
      <3>1. PICK k \in DOMAIN SubmitChecks(o) :
              RejectWith(now, o.order_id, o.instrument, o.side, SubmitChecks(o)[k].reason)
        BY <2>1 DEF SubmitRejected
      <3>2. QED
        BY <2>1, <3>1, OpeningTorn DEF SubmitRejected, RejectWith
    <2>2. CASE SubmitAccepted(o, now)
      BY <2>2, OpeningTorn DEF SubmitAccepted
    <2>3. QED
      BY <1>1, <2>1, <2>2 DEF SubmitOrder
  <1>2. ASSUME NEW now \in Times, NEW c \in Cancellations, CancelOrder(c, now)
        PROVE  TornInv'
    <2>1. CASE CancelRejected(c, now)
      <3>1. PICK k \in DOMAIN CancelChecks(c) :
              RejectWith(now, c.order_id, c.instrument, Null, CancelChecks(c)[k].reason)
        BY <2>1 DEF CancelRejected
      <3>2. QED
        BY <2>1, <3>1, OpeningTorn DEF CancelRejected, RejectWith
    <2>2. CASE CancelAccepted(c, now)
      BY <2>2, OpeningTorn DEF CancelAccepted
    <2>3. QED
      BY <1>2, <2>1, <2>2 DEF CancelOrder
  <1>3. ASSUME NEW now \in Times, NEW a \in Amendments, AmendOrder(a, now)
        PROVE  TornInv'
    <2>1. CASE AmendRejected(a, now)
      <3>1. \E id, instrument, side, reason : RejectWith(now, id, instrument, side, reason)
        BY <2>1 DEF AmendRejected
      <3>2. PICK id, instrument, side, reason : RejectWith(now, id, instrument, side, reason)
        BY <3>1
      <3>3. QED
        BY <2>1, <3>2, OpeningTorn DEF AmendRejected, RejectWith
    <2>2. CASE AmendInPlace(a, now)
      BY <2>2, OpeningTorn DEF AmendInPlace
    <2>3. CASE AmendRequeued(a, now)
      BY <2>3, OpeningTorn DEF AmendRequeued
    <2>4. QED
      BY <1>3, <2>1, <2>2, <2>3 DEF AmendOrder
  <1>4. QED
    BY <1>1, <1>2, <1>3 DEF Call

(* The sweep's next events follow one behind which the fold was not done.  *)
LEMMA SweepTorn ==
  ASSUME EngineInv, QueueInv, EventsInv, MirrorInv, TornInv, Sweeping, journal' = journal,
         Extends(Emitted, Emitted'),
         \A n \in Len(Emitted) + 1 .. Len(Emitted') - 1 : Halfway(Cut(Emitted', n))
  PROVE  TornInv'
  <1>1. op.phase = "match" /\ Len(Emitted) \in Nat /\ Len(journal) \in Nat
    BY SweepMirror, SeqFacts DEF EventsInv, Extends
  <1> DEFINE F == Emitted'
             last == Len(Emitted') - 1
  <1>2. \A n \in Len(Emitted) + 1 .. last : Halfway(Cut(F, n))
    OBVIOUS
  <1>3. Extends(Emitted, F) /\ last \in Int
    BY SeqFacts DEF Extends
  <1> HIDE DEF F, last
  <1>4. ASSUME NEW n \in Len(journal) + 1 .. last
        PROVE  Halfway(Cut(F, n))
    <2>1. n \in Nat
      BY <1>1, <1>3
    <2>2. CASE n < Len(Emitted)
      <3>1. n \in Len(journal) + 1 .. Len(Emitted) - 1 /\ n \in 0 .. Len(Emitted)
        BY <1>1, <2>1, <2>2
      <3>2. Halfway(Cut(Emitted, n))
        BY <1>1, <3>1 DEF TornInv
      <3>3. QED
        BY <1>3, <3>1, <3>2, CutKept
    <2>3. CASE n = Len(Emitted)
      BY <1>3, <2>3, CutIsPrefix, SweepIsHalfway
    <2>4. CASE n > Len(Emitted)
      BY <1>1, <1>2, <1>3, <2>1, <2>4
    <2>5. QED
      BY <1>1, <2>1, <2>2, <2>3, <2>4
  <1>5. \A n \in Len(journal) + 1 .. last : Halfway(Cut(F, n))
    BY <1>4
  <1>6. QED
    BY <1>5 DEF TornInv, F, last

LEMMA SettlingTorn ==
  ASSUME EngineInv, QueueInv, EventsInv, MirrorInv, TornInv, Sweeping, NEW body,
         Continue(<<body>>, "finish", op.fill), journal' = journal
  PROVE  TornInv'
  <1>1. op.phase = "match"
    BY SweepMirror
  <1>2. \/ op'.phase = "wedged"
        \/ \E e : OneMore(Emitted, Emitted', e)
    BY <1>1, OneIsEmitted
  <1>3. ASSUME NEW e, OneMore(Emitted, Emitted', e)
        PROVE  TornInv'
    <2>1. Len(Emitted') - 1 = Len(Emitted) /\ Len(Emitted) \in Nat
      BY <1>3, SeqFacts DEF OneMore, Extends
    <2>2. \A n \in Len(Emitted) + 1 .. Len(Emitted') - 1 : Halfway(Cut(Emitted', n))
      BY <2>1
    <2>3. QED
      BY <1>3, <2>2, SweepTorn DEF OneMore
  <1>4. QED
    BY <1>2, <1>3 DEF TornInv

(* Behind the maker's leg of an execution its maker waits for the taker's. *)
LEMMA HalfPairPending ==
  ASSUME NEW o, NEW t, NEW b, NEW q, NEW f, NEW l, NEW a, NEW i, NEW s,
         s = State(o, t, b, q, f, l, a, i, {}), i # Null, NEW e, Admits(s, e), IsFill(e)
  PROVE  ~OnBoundary(FoldEvent(s, e))
  <1> DEFINE id == e.body.order_id
             new == FilledEntry(o[id], e.body.remaining)
             os == [o EXCEPT ![id] = new]
             bs == IF e.body.remaining = 0 /\ InBook(s, id) THEN Dequeue(b, id, o[id]) ELSE b
             is == IF e.body.remaining = 0 /\ id = e.body.taker_order_id THEN Null ELSE i
             ps == {Pair(e.body)}
  <1>1. FillStep(o, t, b, q, f, l, a, i, {}, s, e, id, new, os, bs, is, ps)
    BY DEF FillStep
  <1> HIDE DEF id, new, os, bs, is, ps
  <1>2. FoldEvent(s, e) = State(os, t, bs, e.seq + 1, e.body.fill_id, e.at, a, is, ps)
    BY ONLY <1>1, FoldsFill
  <1>3. FoldEvent(s, e).pendingMaker = ps
    BY <1>2, StateIs
  <1>4. QED
    BY <1>3 DEF OnBoundary, ps

LEMMA FillTorn ==
  ASSUME EngineInv, QueueInv, EventsInv, MirrorInv, TornInv, MatchFill
  PROVE  TornInv'
  <1>1. Sweeping /\ journal' = journal
    BY DEF MatchFill
  <1>2. CASE op'.phase = "wedged"
    BY <1>2 DEF TornInv
  <1>3. ASSUME NEW p \in Prices, NEW maker, NEW units, NEW first, NEW second,
               FillShows(maker, p, units, first, second),
               NEW G, NEW d, NEW e, OneMore(Emitted, G, d), OneMore(G, Emitted', e),
               Marked(d, op.seq, op.at, first)
        PROVE  TornInv'
    <2>1. /\ op.at = lastAt /\ op.taker # Null /\ op.phase = "match"
          /\ Mirror = State(orders, tracked, books, op.seq, op.fill - 1, lastAt, lastAt,
                            op.taker, {})
      BY <1>1, SweepMirror
    <2>2. Admits(Mirror, d)
      BY <1>1, <1>3, <2>1, MakerLegAdmitted
    <2>3. IsFill(d)
      BY <1>3 DEF FillShows, Marked, IsFill
    <2>4. ~OnBoundary(FoldEvent(Mirror, d))
      BY <2>1, <2>2, <2>3, HalfPairPending
    <2>5. Halfway(G)
      <3>1. Folded(FoldStart, Emitted) = Mirror
        BY <2>1 DEF MirrorInv
      <3>2. QED
        BY <1>3, <2>4, <3>1, FoldedMore DEF Halfway
    <2> DEFINE F == Emitted'
    <2>6. /\ Extends(Emitted, G) /\ Extends(G, F)
          /\ Len(Emitted) \in Nat /\ Len(G) = Len(Emitted) + 1 /\ Len(F) = Len(Emitted) + 2
      BY <1>3, SeqFacts DEF OneMore, Extends
    <2> HIDE DEF F
    <2>7. Extends(Emitted, F)
      BY <2>6 DEF Extends
    <2>8. Cut(F, Len(G)) = G
      BY <2>6, CutIsPrefix
    <2>9. \A n \in Len(Emitted) + 1 .. Len(F) - 1 : Halfway(Cut(F, n))
      <3>1. \A n \in Len(Emitted) + 1 .. Len(F) - 1 : n = Len(G)
        BY <2>6
      <3>2. QED
        BY <2>5, <2>8, <3>1
    <2>10. QED
      BY <1>1, <2>7, <2>9, SweepTorn DEF F
  <1>4. QED
    BY <1>2, <1>3, FillExecutes

LEMMA TornInit == Init => TornInv
  BY DEF Init, Idle, TornInv

LEMMA TornNext ==
  ASSUME EngineInv, QueueInv, TradeInv, MirrorInv, TornInv, [Next]_vars
  PROVE  TornInv'
  <1>1. EventsInv
    BY DEF TradeInv
  <1>2. CASE MatchTaker
    <2>1. CASE MatchSelfTrade \/ MatchRunsDry \/ MatchRests
      <3>1. Sweeping /\ journal' = journal
        BY <2>1 DEF MatchSelfTrade, MatchRunsDry, MatchRests
      <3>2. \E body : Continue(<<body>>, "finish", op.fill)
        BY <2>1 DEF MatchSelfTrade, MatchRunsDry, MatchRests
      <3>3. QED
        BY <1>1, <3>1, <3>2, SettlingTorn
    <2>2. CASE MatchCompletes
      <3>1. /\ op.phase = "match" /\ op' = [op EXCEPT !.phase = "finish"]
            /\ journal' = journal
        BY <2>2 DEF MatchCompletes
      <3>2. op'.events = op.events
        BY <3>1 DEF EngineInv, OperationInv
      <3>3. Emitted' = Emitted
        BY <3>1, <3>2 DEF Emitted
      <3>4. QED
        BY <3>1, <3>3 DEF TornInv
    <2>3. QED
      BY <1>1, <1>2, <2>1, <2>2, FillTorn DEF MatchTaker
  <1>3. CASE Commit
    BY <1>3 DEF Commit, Idle, TornInv
  <1>4. CASE UNCHANGED vars
    <2>1. Emitted' = Emitted /\ journal' = journal /\ op' = op
      BY <1>4 DEF vars, Emitted
    <2>2. QED
      BY <2>1 DEF TornInv
  <1>5. QED
    BY <1>1, <1>2, <1>3, <1>4, CallTorn DEF Next

LEMMA TornAlways == Spec => []TornInv
  <1>1. EngineInv /\ QueueInv /\ TradeInv /\ MirrorInv /\ TornInv /\ [Next]_vars => TornInv'
    BY TornNext
  <1>2. QED
    BY <1>1, TornInit, EngineInvAlways, QueueAlways, TradeAlways, MirrorAlways, PTL DEF Spec

(* However much of the batch being committed reaches the journal, if not   *)
(* all of it does, replay refuses what is there: an operation is only ever *)
(* read back whole.                                                        *)
THEOREM TornBatchesAreRefused == Spec => []TornBatchRefused
  <1>1. EventsInv /\ TornInv => TornBatchRefused
    <2> SUFFICES ASSUME EventsInv, TornInv, op.phase = "finish",
                        NEW n \in 1 .. Len(op.events) - 1
                 PROVE  ReplayMatchingEngine(journal \o SubSeq(op.events, 1, n)) = Refused
      BY DEF TornBatchRefused
    <2> DEFINE cut == Cut(op.events, n)
               m == Len(journal) + n
    <2>1. /\ IsSeq(journal) /\ IsSeq(op.events)
          /\ Len(journal) \in Nat /\ Len(op.events) \in Nat
      BY SeqFacts DEF EventsInv
    <2>2. SubSeq(op.events, 1, n) = cut /\ IsSeq(cut) /\ Len(cut) = n
      BY <2>1, CutFacts
    <2>3. \A k \in 1 .. n : cut[k] = op.events[k]
      BY DEF Cut
    <2> HIDE DEF cut
    <2>4. /\ IsSeq(journal \o cut) /\ Len(journal \o cut) = m
          /\ \A k \in 1 .. Len(journal) : (journal \o cut)[k] = journal[k]
          /\ \A k \in 1 .. n : (journal \o cut)[Len(journal) + k] = cut[k]
      BY <2>1, <2>2, Joined DEF Extends
    <2>5. /\ IsSeq(Emitted) /\ Len(Emitted) = Len(journal) + Len(op.events)
          /\ \A k \in 1 .. Len(journal) : Emitted[k] = journal[k]
          /\ \A k \in 1 .. Len(op.events) : Emitted[Len(journal) + k] = op.events[k]
      BY <2>1, Joined DEF Extends, Emitted
    <2>6. m \in Len(journal) + 1 .. Len(Emitted) - 1
      BY <2>1, <2>5
    <2> DEFINE E == Emitted
               part == journal \o cut
    <2> HIDE DEF m, E, part
    <2>7. \A k \in 1 .. m : part[k] = E[k]
      <3> SUFFICES ASSUME NEW k \in 1 .. m PROVE part[k] = E[k]
        OBVIOUS
      <3>1. CASE k <= Len(journal)
        BY <2>1, <2>4, <2>5, <3>1 DEF E, part, m
      <3>2. CASE k > Len(journal)
        <4> DEFINE j == k - Len(journal)
        <4>1. j \in 1 .. n /\ j \in 1 .. Len(op.events) /\ k = Len(journal) + j
          BY <2>1, <3>2 DEF m
        <4> HIDE DEF j
        <4>2. part[Len(journal) + j] = E[Len(journal) + j]
          BY <2>3, <2>4, <2>5, <4>1 DEF E, part
        <4>3. QED
          BY <4>1, <4>2
      <3>3. QED
        BY <2>1, <3>1, <3>2 DEF m
    <2>8. part = Cut(E, m)
      <3>1. IsSeq(part) /\ m = Len(part) /\ m \in 0 .. Len(part)
        BY <2>1, <2>4 DEF m, part
      <3>3. part = Cut(part, m)
        BY <3>1, CutFacts
      <3>2. Cut(part, m) = Cut(E, m)
        BY <2>7 DEF Cut
      <3>4. QED
        BY <3>2, <3>3
    <2>9. Halfway(part)
      BY <2>6, <2>8 DEF TornInv, E
    <2>10. QED
      BY <2>2, <2>9 DEF Halfway, ReplayMatchingEngine, Rebuilt, part
  <1>2. TradeInv => EventsInv
    BY DEF TradeInv
  <1>3. QED
    BY <1>1, <1>2, TradeAlways, TornAlways, PTL

-----------------------------------------------------------------------------
(* A snapshot does not say when the last operation began, and a fold that  *)
(* goes on from one does not ask.                                          *)

(* The other fields of a state on a boundary.                              *)
Settled(s, o, t, b, q, f, l, a) ==
  /\ s = State(o, t, b, q, f, l, a, Null, {})
  /\ Null \notin DOMAIN o
  /\ \A id : ~InFlight(s, id)

LEMMA SettledIs ==
  ASSUME NEW o, NEW t, NEW b, NEW q, NEW f, NEW l, NEW a,
         NEW s, Settled(s, o, t, b, q, f, l, a)
  PROVE  /\ s.orders = o /\ s.tracked = t /\ s.books = b /\ s.expectedSeq = q
         /\ s.lastFill = f /\ s.lastAt = l /\ s.inFlight = Null /\ s.pendingMaker = {}
         /\ s # Refused
  BY StateIs DEF Settled

(* Behind a boundary an operation is opened, or a call refused.            *)
LEMMA SettledOpens ==
  ASSUME NEW o, NEW t, NEW b, NEW q, NEW f, NEW l, NEW a,
         NEW s, Settled(s, o, t, b, q, f, l, a), NEW e, Admits(s, e)
  PROVE  /\ s.pendingMaker = {} /\ ~IsFill(e)
         /\ e.body.type \in {"accepted", "cancelled", "amended", "rejected"}
         /\ e.body.type = "rejected" => e.body.reason \notin TerminalReasons
  <1>1. s.orders = o /\ s.inFlight = Null /\ s.pendingMaker = {}
    BY SettledIs
  <1>2. Null \notin DOMAIN o /\ \A id : ~InFlight(s, id)
    BY DEF Settled
  <1>3. ~IsFill(e)
    <2> SUFFICES ASSUME IsFill(e) PROVE FALSE
      OBVIOUS
    <2>1. AdmitsFill(s, e.body)
      BY DEF Admits
    <2>2. e.body.taker_order_id = Null /\ e.body.taker_order_id \in DOMAIN o
      BY <1>1, <2>1 DEF AdmitsFill
    <2>3. QED
      BY <1>2, <2>2
  <1>4. e.body.type # "resting"
    BY <1>2, <1>3 DEF Admits, AdmitsResting
  <1>5. e.body.type \in {"accepted", "cancelled", "amended", "rejected"}
    BY <1>3, <1>4 DEF Admits
  <1>6. e.body.type = "rejected" => e.body.reason \notin TerminalReasons
    BY <1>2, <1>3 DEF Admits, AdmitsRejected, AdmitsTerminal
  <1>7. QED
    BY <1>1, <1>3, <1>5, <1>6

LEMMA SettledAdmits ==
  ASSUME NEW o, NEW t, NEW b, NEW q, NEW f, NEW l, NEW a, NEW c,
         NEW s, Settled(s, o, t, b, q, f, l, a),
         NEW r, Settled(r, o, t, b, q, f, l, c),
         NEW e, Admits(s, e)
  PROVE  Admits(r, e)
  <1>1. /\ s.orders = o /\ s.books = b /\ s.expectedSeq = q /\ s.lastAt = l
        /\ s.inFlight = Null /\ s.pendingMaker = {}
    BY SettledIs
  <1>2. /\ r.orders = o /\ r.books = b /\ r.expectedSeq = q /\ r.lastAt = l
        /\ r.inFlight = Null /\ r.pendingMaker = {}
    BY SettledIs
  <1>3. /\ ~IsFill(e)
        /\ e.body.type \in {"accepted", "cancelled", "amended", "rejected"}
        /\ e.body.type = "rejected" => e.body.reason \notin TerminalReasons
    BY SettledOpens
  <1>4. \A id : InBook(s, id) <=> InBook(r, id)
    BY <1>1, <1>2 DEF InBook
  <1>5. NamesOrder(s, e.body) <=> NamesOrder(r, e.body)
    BY <1>1, <1>2 DEF NamesOrder
  <1>6. EnvelopeFits(r, e) /\ StaysInOperation(r, e.body)
    BY <1>1, <1>2 DEF Admits, EnvelopeFits, StaysInOperation
  <1>7. CASE e.body.type = "accepted"
    <2>1. AdmitsAccepted(s, e.body)
      BY <1>3, <1>7 DEF Admits
    <2>2. AdmitsAccepted(r, e.body)
      BY <1>1, <1>2, <2>1 DEF AdmitsAccepted
    <2>3. QED
      BY <1>2, <1>3, <1>6, <1>7, <2>2 DEF Admits
  <1>8. CASE e.body.type = "cancelled"
    <2>1. AdmitsCancelled(s, e.body)
      BY <1>3, <1>8 DEF Admits
    <2>2. AdmitsCancelled(r, e.body)
      BY <1>1, <1>2, <1>4, <1>5, <2>1 DEF AdmitsCancelled
    <2>3. QED
      BY <1>2, <1>3, <1>6, <1>8, <2>2 DEF Admits
  <1>9. CASE e.body.type = "amended"
    <2>1. AdmitsAmended(s, e.body)
      BY <1>3, <1>9 DEF Admits
    <2>2. AdmitsAmended(r, e.body)
      BY <1>1, <1>2, <1>4, <1>5, <2>1 DEF AdmitsAmended
    <2>3. QED
      BY <1>2, <1>3, <1>6, <1>9, <2>2 DEF Admits
  <1>10. CASE e.body.type = "rejected"
    <2>1. e.body.quantity = Null /\ Earned(s, e.body)
      BY <1>3, <1>10 DEF Admits, AdmitsRejected
    <2>2. Earned(r, e.body)
      BY <1>1, <1>2, <1>4, <2>1 DEF Earned
    <2>3. AdmitsRejected(r, e.body)
      BY <1>3, <1>10, <2>1, <2>2 DEF AdmitsRejected
    <2>4. QED
      BY <1>2, <1>3, <1>6, <1>10, <2>3 DEF Admits
  <1>11. QED
    BY <1>3, <1>7, <1>8, <1>9, <1>10

LEMMA OpAtForgotten ==
  ASSUME NEW o, NEW t, NEW b, NEW q, NEW f, NEW l, NEW a, NEW c,
         NEW s, Settled(s, o, t, b, q, f, l, a),
         NEW r, Settled(r, o, t, b, q, f, l, c), NEW e
  PROVE  FoldEvent(s, e) = FoldEvent(r, e)
  <1>1. /\ s = State(o, t, b, q, f, l, a, Null, {})
        /\ r = State(o, t, b, q, f, l, c, Null, {})
    BY DEF Settled
  <1>2. Admits(s, e) <=> Admits(r, e)
    BY SettledAdmits
  <1>3. CASE Admits(s, e)
    <2>1. /\ e.body.type \in {"accepted", "cancelled", "amended", "rejected"}
          /\ e.body.type = "rejected" => e.body.reason \notin TerminalReasons
      BY <1>3, SettledOpens
    <2>2. CASE e.body.type = "accepted"
      <3> DEFINE os == Put(o, e.body.order_id,
                         [instrument |-> e.body.instrument, side |-> e.body.side,
                          order_type |-> e.body.order_type, owner |-> e.body.owner,
                          price |-> e.body.price, quantity |-> e.body.quantity,
                          remaining |-> e.body.quantity, state |-> "resting"])
                 after == State(os, Append(t, e.body.order_id), b, e.seq + 1, f, e.at, e.at,
                                e.body.order_id, {})
      <3>1. FoldEvent(s, e) = after
        BY ONLY <1>1, <1>3, <2>2, FoldsAccepted
      <3>2. FoldEvent(r, e) = after
        BY ONLY <1>1, <1>2, <1>3, <2>2, FoldsAccepted
      <3>3. QED
        BY <3>1, <3>2
    <2>3. CASE e.body.type = "cancelled"
      <3> DEFINE os == [o EXCEPT ![e.body.order_id].state = "cancelled",
                                 ![e.body.order_id].remaining = 0]
                 after == State(os, t, Dequeue(b, e.body.order_id, o[e.body.order_id]),
                                e.seq + 1, f, e.at, e.at, Null, {})
      <3>1. FoldEvent(s, e) = after
        BY ONLY <1>1, <1>3, <2>3, FoldsCancelled
      <3>2. FoldEvent(r, e) = after
        BY ONLY <1>1, <1>2, <1>3, <2>3, FoldsCancelled
      <3>3. QED
        BY <3>1, <3>2
    <2>4. CASE e.body.type = "amended"
      <3> DEFINE id == e.body.order_id
                 new == AmendedEntry(o[id], e.body.price, e.body.quantity)
      <3>1. id = e.body.order_id /\ new = AmendedEntry(o[id], e.body.price, e.body.quantity)
        OBVIOUS
      <3> HIDE DEF id, new
      <3>2. CASE e.body.price = o[id].price /\ e.body.quantity < o[id].quantity
        <4> DEFINE after == State([o EXCEPT ![id] = new], t, b, e.seq + 1, f, e.at, e.at,
                                  Null, {})
        <4>1. FoldEvent(s, e) = after
          BY ONLY <1>1, <1>3, <2>4, <3>1, <3>2, FoldsAmendedInPlace
        <4>2. FoldEvent(r, e) = after
          BY ONLY <1>1, <1>2, <1>3, <2>4, <3>1, <3>2, FoldsAmendedInPlace
        <4>3. QED
          BY <4>1, <4>2
      <3>3. CASE ~(e.body.price = o[id].price /\ e.body.quantity < o[id].quantity)
        <4> DEFINE after == State([o EXCEPT ![id] = new], Append(Without(t, id), id),
                                  Dequeue(b, id, o[id]), e.seq + 1, f, e.at, e.at, id, {})
        <4>1. FoldEvent(s, e) = after
          BY ONLY <1>1, <1>3, <2>4, <3>1, <3>3, FoldsRequeued
        <4>2. FoldEvent(r, e) = after
          BY ONLY <1>1, <1>2, <1>3, <2>4, <3>1, <3>3, FoldsRequeued
        <4>3. QED
          BY <4>1, <4>2
      <3>4. QED
        BY <3>2, <3>3
    <2>5. CASE e.body.type = "rejected"
      BY <1>1, <1>2, <1>3, <2>1, <2>5, FoldsRefusal
    <2>6. QED
      BY <2>1, <2>2, <2>3, <2>4, <2>5
  <1>4. CASE ~Admits(s, e)
    <2>1. s # Refused /\ r # Refused
      BY SettledIs
    <2>2. QED
      BY <1>2, <1>4, <2>1 DEF FoldEvent
  <1>5. QED
    BY <1>3, <1>4

-----------------------------------------------------------------------------
(* A fold in two halves is the fold of the whole.                          *)

(* The folds f of E and g of D, i events apart, are together at the event  *)
(* first of D and read the same events from there on.                      *)
Together(E, D, f, g, i, first, N) ==
  /\ f[i + first] = g[first]
  /\ \A k \in first + 1 .. N :
       /\ f[i + k] = FoldEvent(f[(i + k) - 1], E[i + k])
       /\ g[k] = FoldEvent(g[k - 1], D[k])
       /\ D[k] = E[i + k]

LEMMA FoldsAgree ==
  ASSUME NEW E, NEW D, NEW f, NEW g, NEW i \in Nat, NEW N \in Nat, NEW first \in 0 .. N,
         Together(E, D, f, g, i, first, N)
  PROVE  f[i + N] = g[N]
  <1> DEFINE Good == {k \in Nat : first + k <= N => f[i + (first + k)] = g[first + k]}
  <1>1. 0 \in Good
    <2>1. first + 0 = first
      OBVIOUS
    <2>2. QED
      BY <2>1 DEF Together
  <1>2. ASSUME NEW n \in Nat, n \in Good
        PROVE  n + 1 \in Good
    <2> SUFFICES ASSUME first + (n + 1) <= N
                 PROVE  f[i + (first + (n + 1))] = g[first + (n + 1)]
      OBVIOUS
    <2> DEFINE k == first + (n + 1)
    <2>1. k \in first + 1 .. N /\ k - 1 = first + n /\ (i + k) - 1 = i + (first + n)
          /\ first + n <= N
      OBVIOUS
    <2> HIDE DEF k
    <2>2. f[i + (first + n)] = g[first + n]
      BY <1>2, <2>1
    <2>3. f[i + k] = FoldEvent(f[i + (first + n)], E[i + k])
      BY <2>1 DEF Together
    <2>4. g[k] = FoldEvent(g[first + n], E[i + k])
      BY <2>1 DEF Together
    <2>5. QED
      BY <2>2, <2>3, <2>4 DEF k
  <1> HIDE DEF Good
  <1>3. Nat \subseteq Good
    BY <1>1, <1>2, UpFromZero
  <1>4. N - first \in Good /\ first + (N - first) = N
    BY <1>3
  <1>5. QED
    BY <1>4 DEF Good

LEMMA FoldSteps ==
  ASSUME NEW start, NEW E, Len(E) \in Nat, NEW f, IsFold(f, start, E)
  PROVE  /\ f[0] = start
         /\ \A k \in 1 .. Len(E) : f[k] = FoldEvent(f[k - 1], E[k])
  BY DEF IsFold

(* What a fold makes of a stream depends on the state after its first event. *)
LEMMA FoldedOn ==
  ASSUME NEW s, NEW r, NEW E, Len(E) \in Nat, Len(E) >= 1,
         FoldEvent(s, E[1]) = FoldEvent(r, E[1])
  PROVE  Folded(s, E) = Folded(r, E)
  <1> DEFINE N == Len(E)
  <1>1. PICK f : IsFold(f, s, E) /\ Folded(s, E) = f[N]
    BY FoldedIs
  <1>2. PICK g : IsFold(g, r, E) /\ Folded(r, E) = g[N]
    BY FoldedIs
  <1>3. /\ f[0] = s /\ \A k \in 1 .. N : f[k] = FoldEvent(f[k - 1], E[k])
        /\ g[0] = r /\ \A k \in 1 .. N : g[k] = FoldEvent(g[k - 1], E[k])
    BY <1>1, <1>2, FoldSteps
  <1>4. N \in Nat /\ 1 \in 1 .. N /\ 1 \in 0 .. N
    OBVIOUS
  <1> HIDE DEF N
  <1>5. f[1] = g[1]
    <2>1. 1 - 1 = 0
      OBVIOUS
    <2>2. f[1] = FoldEvent(s, E[1]) /\ g[1] = FoldEvent(r, E[1])
      BY <1>3, <1>4, <2>1
    <2>3. QED
      BY <2>2
  <1>6. Together(E, E, f, g, 0, 1, N)
    <2>1. 0 + 1 = 1
      OBVIOUS
    <2>2. \A k \in 1 + 1 .. N : k \in 1 .. N /\ 0 + k = k
      OBVIOUS
    <2>3. QED
      BY <1>3, <1>5, <2>1, <2>2 DEF Together
  <1>7. f[0 + N] = g[N]
    BY <1>4, <1>6, FoldsAgree
  <1>8. 0 + N = N
    BY <1>4
  <1>9. QED
    BY <1>1, <1>2, <1>7, <1>8 DEF N

LEMMA FoldedTail ==
  ASSUME NEW start, NEW E, IsSeq(E), NEW n \in 0 .. Len(E)
  PROVE  Folded(Folded(start, Cut(E, n)), SubSeq(E, n + 1, Len(E))) = Folded(start, E)
  <1> DEFINE N == Len(E)
             C == Cut(E, n)
             D == SubSeq(E, n + 1, N)
  <1>1. N \in Nat /\ n \in Nat /\ n \in 0 .. N /\ N - n \in Nat
    BY SeqFacts
  <1>2. Len(C) = n /\ \A k \in 1 .. n : C[k] = E[k]
    BY CutFacts DEF Cut
  <1>3. Len(D) = N - n /\ \A k \in 1 .. N - n : D[k] = E[n + k]
    <2>1. E \in Seq(Range(E))
      BY DEF IsSeq
    <2>2. D \in Seq(Range(E)) /\ Len(D) = N - n
      BY <1>1, <2>1
    <2>3. \A k \in 1 .. N - n : D[k] = E[n + k]
      BY <1>1, <2>1
    <2>4. QED
      BY <2>2, <2>3
  <1> HIDE DEF C, D
  <1>4. PICK f : IsFold(f, start, E) /\ Folded(start, E) = f[N]
    BY <1>1, FoldedIs
  <1>5. PICK h : IsFold(h, start, C) /\ Folded(start, C) = h[n]
    BY <1>1, <1>2, FoldedIs
  <1>6. PICK g : IsFold(g, Folded(start, C), D) /\ Folded(Folded(start, C), D) = g[N - n]
    <2> DEFINE at == Folded(start, C)
    <2>1. Len(D) \in Nat /\ Len(D) = N - n
      BY <1>1, <1>3
    <2> HIDE DEF at, N
    <2>2. \E g : IsFold(g, at, D) /\ Folded(at, D) = g[Len(D)]
      BY ONLY <2>1, FoldedIs
    <2>3. QED
      BY <2>1, <2>2 DEF at
  <1>7. /\ f[0] = start /\ \A k \in 1 .. N : f[k] = FoldEvent(f[k - 1], E[k])
        /\ h[0] = start /\ \A k \in 1 .. n : h[k] = FoldEvent(h[k - 1], C[k])
        /\ g[0] = h[n] /\ \A k \in 1 .. N - n : g[k] = FoldEvent(g[k - 1], D[k])
    <2>1. Len(E) = N /\ N \in Nat
      BY <1>1
    <2> HIDE DEF N
    <2>2. f[0] = start /\ \A k \in 1 .. N : f[k] = FoldEvent(f[k - 1], E[k])
      <3>1. Len(E) \in Nat /\ IsFold(f, start, E)
        BY <1>4, <2>1
      <3>2. f[0] = start /\ \A k \in 1 .. Len(E) : f[k] = FoldEvent(f[k - 1], E[k])
        BY ONLY <3>1, FoldSteps
      <3>3. QED
        BY <2>1, <3>2
    <2>3. h[0] = start /\ \A k \in 1 .. n : h[k] = FoldEvent(h[k - 1], C[k])
      <3>1. Len(C) \in Nat /\ IsFold(h, start, C)
        BY <1>1, <1>2, <1>5
      <3>2. h[0] = start /\ \A k \in 1 .. Len(C) : h[k] = FoldEvent(h[k - 1], C[k])
        BY ONLY <3>1, FoldSteps
      <3>3. Len(C) = n
        BY <1>2
      <3>4. QED
        BY ONLY <3>2, <3>3
    <2>4. /\ g[0] = Folded(start, C)
          /\ \A k \in 1 .. N - n : g[k] = FoldEvent(g[k - 1], D[k])
      <3> DEFINE at == Folded(start, C)
      <3>1. Len(D) \in Nat /\ IsFold(g, at, D)
        BY <1>1, <1>3, <1>6
      <3> HIDE DEF at
      <3>2. g[0] = at /\ \A k \in 1 .. Len(D) : g[k] = FoldEvent(g[k - 1], D[k])
        BY ONLY <3>1, FoldSteps
      <3>3. QED
        BY <1>3, <3>2 DEF at
    <2>5. QED
      BY <1>5, <2>2, <2>3, <2>4
  <1> HIDE DEF N
  <1>8. f[n] = h[n]
    <2>1. Together(E, C, f, h, 0, 0, n)
      <3>1. 0 + 0 = 0
        OBVIOUS
      <3>2. \A k \in 0 + 1 .. n : k \in 1 .. n /\ k \in 1 .. N /\ 0 + k = k
        BY <1>1
      <3>3. QED
        BY <1>2, <1>7, <3>1, <3>2 DEF Together
    <2>2. f[0 + n] = h[n]
      BY <1>1, <2>1, FoldsAgree
    <2>3. 0 + n = n
      BY <1>1
    <2>4. QED
      BY <2>2, <2>3
  <1>9. f[n + (N - n)] = g[N - n]
    <2>1. Together(E, D, f, g, n, 0, N - n)
      <3>1. n + 0 = n
        BY <1>1
      <3>2. \A k \in 0 + 1 .. N - n : k \in 1 .. N - n /\ n + k \in 1 .. N
        BY <1>1
      <3>3. QED
        BY <1>3, <1>7, <1>8, <3>1, <3>2 DEF Together
    <2>2. QED
      BY <1>1, <2>1, FoldsAgree
  <1>10. n + (N - n) = N
    BY <1>1
  <1>11. QED
    BY <1>4, <1>6, <1>9, <1>10 DEF C, D, N

-----------------------------------------------------------------------------
(* Every boundary inside the journal can be resumed from its snapshot.     *)

(* The snapshot of a rebuilt engine.                                       *)
Base(p) ==
  CanonicalEngineSnapshot(p.orders, p.tracked, p.nextSeq, p.nextFill, p.lastAt)

(* The snapshot of a fold on a boundary parses and leads back to it, up to *)
(* the time its last operation began.                                      *)
Resumable(m) ==
  /\ ParseEngineSnapshot(Base(Rebuilt(m)))
  /\ \E o, t, b, q, f, l, a :
       /\ Settled(m, o, t, b, q, f, l, a)
       /\ Settled(FoldFrom(Base(Rebuilt(m))), o, t, b, q, f, l, Null)

IdleResumes == op.phase = "idle" => Resumable(Folded(FoldStart, journal))

HistInv ==
  \A n \in 0 .. Len(journal) :
    \/ Halfway(Cut(journal, n))
    \/ Resumable(Folded(FoldStart, Cut(journal, n)))

LEMMA IdleSettled ==
  ASSUME EngineInv, QueuesHoldResting, op.phase = "idle", NEW a, NEW s,
         s = State(orders, tracked, books, nextSeq, nextFill - 1, lastAt, a, Null, {})
  PROVE  Settled(s, orders, tracked, books, nextSeq, nextFill - 1, lastAt, a)
  <1>1. s.orders = orders /\ s.books = books
    BY StateIs
  <1>2. Null \notin DOMAIN orders
    BY EventConstants DEF EngineInv, OrdersInv
  <1>3. ASSUME NEW id, InFlight(s, id) PROVE FALSE
    <2>1. /\ id \in DOMAIN orders /\ orders[id].state = "resting"
          /\ ~(id \in books[orders[id].instrument].resting)
      BY <1>1, <1>3 DEF InFlight, InBook
    <2>2. Waits(id)
      BY <2>1 DEF Waits
    <2>3. id \in books[orders[id].instrument].resting
      BY <2>1, <2>2, WaitingIsQueued
    <2>4. QED
      BY <2>1, <2>3
  <1>4. QED
    BY <1>2, <1>3 DEF Settled

LEMMA SnapshotSeeds ==
  ASSUME EngineInv, QueuesHoldResting, PriorityInv, op.phase = "idle",
         NEW n, Accepted(n)
  PROVE  FoldFrom(n) = State(orders, tracked, books, nextSeq, nextFill - 1, lastAt, Null,
                             Null, {})
  <1>1. HydrateEngineState(n) = EngineState
    BY AcceptedHydrates
  <1>2. n.next_seq = nextSeq /\ n.next_fill = nextFill
    BY DEF Accepted
  <1>3. FoldFrom(n) = [FoldStart EXCEPT !.orders = orders, !.tracked = tracked,
                         !.books = books, !.expectedSeq = nextSeq,
                         !.lastFill = nextFill - 1, !.lastAt = lastAt]
    BY <1>1, <1>2 DEF FoldFrom, EngineState
  <1>4. QED
    BY <1>3 DEF FoldStart, State

LEMMA IdleResumable ==
  ASSUME EngineInv, QueueInv, TradeInv, PriorityInv, TallyInv, MirrorInv, op.phase = "idle"
  PROVE  Resumable(Folded(FoldStart, journal))
  <1> DEFINE n == EngineSnapshot
             m == Mirror
  <1>1. QueuesHoldResting /\ MarketsUnpriced
    BY DEF QueueInv, TradeInv
  <1>2. m = State(orders, tracked, books, nextSeq, nextFill - 1, lastAt, OpenedAt, Null, {})
    BY IdleMirror
  <1>3. Rebuilt(m) = EngineState
    BY <1>2, BoundaryRebuilds
  <1>4. Base(EngineState) = n
    BY DEF Base, EngineState, EngineSnapshot
  <1>5. Accepted(n)
    BY DEF Accepted, EngineSnapshot, CanonicalEngineSnapshot
  <1>6. Folded(FoldStart, journal) = m
    BY IdleFolds
  <1> HIDE DEF n, m
  <1>7. ParseEngineSnapshot(n)
    BY <1>1, <1>5, AcceptedParses
  <1>8. Settled(m, orders, tracked, books, nextSeq, nextFill - 1, lastAt, OpenedAt)
    BY <1>1, <1>2, IdleSettled
  <1>9. Settled(FoldFrom(n), orders, tracked, books, nextSeq, nextFill - 1, lastAt, Null)
    BY <1>1, <1>5, SnapshotSeeds, IdleSettled
  <1>10. Base(Rebuilt(m)) = n
    BY <1>3, <1>4
  <1>11. QED
    BY <1>6, <1>7, <1>8, <1>9, <1>10 DEF Resumable

LEMMA IdleResumesAlways == Spec => []IdleResumes
  <1>1. EngineInv /\ QueueInv /\ TradeInv /\ PriorityInv /\ TallyInv /\ MirrorInv
          => IdleResumes
    BY IdleResumable DEF IdleResumes
  <1>2. QED
    BY <1>1, EngineInvAlways, QueueAlways, TradeAlways, PriorityAlways, TallyAlways,
       MirrorAlways, PTL

LEMMA HistInit ==
  ASSUME Init, IdleResumes
  PROVE  HistInv
  <1>1. journal = << >> /\ op.phase = "idle"
    BY DEF Init, Idle
  <1>2. IsSeq(journal) /\ Len(journal) = 0
    BY <1>1 DEF IsSeq
  <1>3. Cut(journal, 0) = journal
    BY <1>2, CutFacts
  <1>4. \A n \in 0 .. Len(journal) : n = 0
    BY <1>2
  <1>5. QED
    BY <1>1, <1>3, <1>4 DEF HistInv, IdleResumes

LEMMA HistCommit ==
  ASSUME EventsInv, TornInv, HistInv, Commit, IdleResumes'
  PROVE  HistInv'
  <1> DEFINE J == journal'
  <1>1. J = Emitted /\ op.phase = "finish" /\ op'.phase = "idle"
    BY DEF Commit, Emitted, Idle
  <1>2. Extends(journal, J) /\ IsSeq(J)
    BY <1>1, Joined DEF EventsInv, Emitted, Extends
  <1>3. Len(journal) \in Nat /\ Len(J) \in Nat
    BY <1>2, SeqFacts DEF EventsInv
  <1>4. Resumable(Folded(FoldStart, J))
    BY <1>1 DEF IdleResumes
  <1>5. \A n \in Len(journal) + 1 .. Len(J) - 1 : Halfway(Cut(J, n))
    BY <1>1 DEF TornInv
  <1> HIDE DEF J
  <1>6. ASSUME NEW n \in 0 .. Len(J)
        PROVE  Halfway(Cut(J, n)) \/ Resumable(Folded(FoldStart, Cut(J, n)))
    <2>1. CASE n <= Len(journal)
      <3>1. n \in 0 .. Len(journal)
        BY <1>3, <2>1
      <3>2. Cut(J, n) = Cut(journal, n)
        BY <1>2, <3>1, CutKept
      <3>3. QED
        BY <3>1, <3>2 DEF HistInv
    <2>2. CASE n > Len(journal) /\ n < Len(J)
      BY <1>3, <1>5, <2>2
    <2>3. CASE n = Len(J)
      BY <1>2, <1>4, <2>3, CutFacts
    <2>4. QED
      BY <1>3, <2>1, <2>2, <2>3
  <1>7. QED
    BY <1>6 DEF HistInv, J

(* Only the step that closes an operation writes to the journal.           *)
LEMMA CallKeepsJournal ==
  ASSUME Call
  PROVE  journal' = journal
  <1>1. ASSUME NEW now \in Times, NEW o \in Submissions, SubmitOrder(o, now)
        PROVE  journal' = journal
    BY <1>1 DEF SubmitOrder, SubmitRejected, SubmitAccepted, RejectWith
  <1>2. ASSUME NEW now \in Times, NEW c \in Cancellations, CancelOrder(c, now)
        PROVE  journal' = journal
    BY <1>2 DEF CancelOrder, CancelRejected, CancelAccepted, RejectWith
  <1>3. ASSUME NEW now \in Times, NEW a \in Amendments, AmendOrder(a, now)
        PROVE  journal' = journal
    BY <1>3 DEF AmendOrder, AmendRejected, AmendInPlace, AmendRequeued, RejectWith
  <1>4. QED
    BY <1>1, <1>2, <1>3 DEF Call

LEMMA HistNext ==
  ASSUME EventsInv, TornInv, HistInv, [Next]_vars, IdleResumes'
  PROVE  HistInv'
  <1>1. CASE Commit
    BY <1>1, HistCommit
  <1>2. CASE ~Commit
    <2>1. journal' = journal
      <3>1. CASE Call
        BY <3>1, CallKeepsJournal
      <3>2. CASE MatchTaker
        BY <3>2 DEF MatchTaker, MatchSelfTrade, MatchRunsDry, MatchRests, MatchCompletes,
           MatchFill
      <3>3. CASE UNCHANGED vars
        BY <3>3 DEF vars
      <3>4. QED
        BY <1>2, <3>1, <3>2, <3>3 DEF Next
    <2>2. QED
      BY <2>1 DEF HistInv
  <1>3. QED
    BY <1>1, <1>2

LEMMA HistAlways == Spec => []HistInv
  <1>1. EventsInv /\ TornInv /\ HistInv /\ [Next]_vars /\ IdleResumes' => HistInv'
    BY HistNext
  <1>2. TradeInv => EventsInv
    BY DEF TradeInv
  <1>3. Init /\ IdleResumes => HistInv
    BY HistInit
  <1>4. QED
    BY <1>1, <1>2, <1>3, TradeAlways, TornAlways, IdleResumesAlways, PTL DEF Spec

(* A snapshot taken between any two operations, continued by the rest of   *)
(* the journal, gives the live engine.                                     *)
THEOREM TailsResumeTheEngine == Spec => []TailRebuildsEngine
  <1>1. ASSUME EngineInv, QueueInv, TradeInv, PriorityInv, TallyInv, MirrorInv, HistInv,
               op.phase = "idle", NEW n \in 0 .. Len(journal),
               ReplayMatchingEngine(Cut(journal, n)) # Refused
        PROVE  ReplayFromSnapshot(Base(ReplayMatchingEngine(Cut(journal, n))),
                                  SubSeq(journal, n + 1, Len(journal)))
                 = EngineState
    <2> DEFINE m == Folded(FoldStart, Cut(journal, n))
               b == Base(Rebuilt(m))
               tail == SubSeq(journal, n + 1, Len(journal))
    <2>1. ReplayMatchingEngine(Cut(journal, n)) = Rebuilt(m)
      BY DEF ReplayMatchingEngine
    <2>2. ~Halfway(Cut(journal, n))
      BY <1>1, <2>1 DEF Rebuilt, Halfway
    <2>3. Resumable(m)
      BY <1>1, <2>2 DEF HistInv
    <2>4. journal \in Seq(Range(journal)) /\ IsSeq(journal) /\ Len(journal) \in Nat
      BY <1>1, SeqFacts DEF TradeInv, EventsInv, IsSeq
    <2>5. Folded(m, tail) = Folded(FoldStart, journal)
      BY <1>1, <2>4, FoldedTail
    <2>6. Folded(FoldStart, journal) = Mirror
      BY <1>1, IdleFolds
    <2>7. Rebuilt(Mirror) = EngineState
      BY <1>1, IdleMirror, BoundaryRebuilds
    <2>8. Len(tail) = Len(journal) - n
      BY <1>1, <2>4
    <2> HIDE DEF m, b, tail
    <2>9. PICK o, t, bs, q, f, l, a : /\ Settled(m, o, t, bs, q, f, l, a)
                                     /\ Settled(FoldFrom(b), o, t, bs, q, f, l, Null)
      BY <2>3 DEF Resumable, b
    <2>10. Rebuilt(Folded(FoldFrom(b), tail)) = EngineState
      <3>1. CASE n < Len(journal)
        <4>1. FoldEvent(m, tail[1]) = FoldEvent(FoldFrom(b), tail[1])
          BY <2>9, OpAtForgotten
        <4>2. Len(tail) \in Nat /\ Len(tail) >= 1
          BY <2>4, <2>8, <3>1
        <4>3. Folded(m, tail) = Folded(FoldFrom(b), tail)
          BY <4>1, <4>2, FoldedOn
        <4>4. QED
          BY <2>5, <2>6, <2>7, <4>3
      <3>2. CASE n = Len(journal)
        <4>1. Cut(journal, n) = journal
          BY <2>4, <3>2, CutFacts
        <4>2. b = EngineSnapshot
          BY <2>6, <2>7, <4>1 DEF b, m, Base, EngineState, EngineSnapshot
        <4>3. Accepted(b)
          BY <4>2 DEF Accepted, EngineSnapshot, CanonicalEngineSnapshot
        <4>4. FoldFrom(b) = State(orders, tracked, books, nextSeq, nextFill - 1, lastAt, Null,
                                  Null, {})
          BY <1>1, <4>3, SnapshotSeeds DEF QueueInv
        <4>5. tail = << >>
          BY <2>4, <3>2 DEF tail
        <4>6. Folded(FoldFrom(b), tail) = FoldFrom(b)
          BY <4>5, FoldedNone
        <4>7. Rebuilt(FoldFrom(b)) = EngineState
          BY <1>1, <4>4, BoundaryRebuilds
        <4>8. QED
          BY <4>6, <4>7
      <3>3. QED
        BY <2>4, <3>1, <3>2
    <2>11. ParseEngineSnapshot(b)
      BY <2>3 DEF Resumable, b
    <2>12. ReplayFromSnapshot(b, tail) = EngineState
      BY <2>10, <2>11 DEF ReplayFromSnapshot
    <2>13. QED
      BY <2>1, <2>12 DEF b, tail
  <1>2. EngineInv /\ QueueInv /\ TradeInv /\ PriorityInv /\ TallyInv /\ MirrorInv /\ HistInv
          => TailRebuildsEngine
    <2> SUFFICES ASSUME EngineInv, QueueInv, TradeInv, PriorityInv, TallyInv, MirrorInv,
                        HistInv, op.phase = "idle", NEW n \in 0 .. Len(journal),
                        ReplayMatchingEngine(SubSeq(journal, 1, n)) # Refused
                 PROVE  ReplayFromSnapshot(
                          IF n = Len(journal) THEN EngineSnapshot
                          ELSE Base(ReplayMatchingEngine(SubSeq(journal, 1, n))),
                          SubSeq(journal, n + 1, Len(journal)))
                          = EngineState
      BY DEF TailRebuildsEngine, Base
    <2>1. SubSeq(journal, 1, n) = Cut(journal, n) /\ IsSeq(journal)
      BY CutFacts DEF TradeInv, EventsInv
    <2>2. n = Len(journal) => Base(ReplayMatchingEngine(Cut(journal, n))) = EngineSnapshot
      <3> SUFFICES ASSUME n = Len(journal)
                   PROVE  Base(ReplayMatchingEngine(Cut(journal, n))) = EngineSnapshot
        OBVIOUS
      <3>1. Cut(journal, n) = journal
        BY <2>1, CutFacts
      <3>2. ReplayMatchingEngine(journal) = EngineState
        BY IdleReplays
      <3>3. QED
        BY <3>1, <3>2 DEF Base, EngineState, EngineSnapshot
    <2>3. QED
      BY <1>1, <2>1, <2>2
  <1>3. QED
    BY <1>2, EngineInvAlways, QueueAlways, TradeAlways, PriorityAlways, TallyAlways,
       MirrorAlways, HistAlways, PTL

-----------------------------------------------------------------------------
(* An engine with a store attached.                                        *)

(* An append that throws closes the operation and journals nothing.        *)
LEMMA ThrowKeepsEngine ==
  ASSUME EngineInv, QueueInv, AppendThrows
  PROVE  EngineInv' /\ QueueInv'
  <1>1. /\ op.phase = "finish" /\ op' = Idle
        /\ orders' = orders /\ tracked' = tracked /\ books' = books
        /\ nextSeq' = nextSeq /\ nextFill' = nextFill /\ lastAt' = lastAt
    BY DEF AppendThrows
  <1>2. OrdersInv' /\ TrackedInv' /\ BooksInv' /\ NeverCrossed'
    BY <1>1 DEF EngineInv, OrdersInv, TrackedInv, BooksInv, NeverCrossed
  <1>3. CountersInv' /\ OperationInv'
    BY <1>1 DEF EngineInv, CountersInv, OperationInv, Idle, Phases
  <1>4. QueueInv'
    BY <1>1, QuietQueues DEF Idle, QueueInv
  <1>5. QED
    BY <1>2, <1>3, <1>4 DEF EngineInv

(* Whatever its store does, and whether it was initialized or not, the     *)
(* books of an attached engine stay what they are without one: they never  *)
(* cross, hold the resting orders and nothing else, and its fill ids never *)
(* overtake its sequence.                                                  *)
THEOREM AttachedBooksStaySound ==
  AttachedSpec => [](NeverCrossed /\ BookHoldsRestingOrders /\ FillsTrailEvents)
  <1>1. Init => EngineInv /\ QueueInv
    BY EngineInvInit, QueueInit
  <1>2. EngineInv /\ QueueInv /\ [AttachedNext]_avars => EngineInv' /\ QueueInv'
    <2> SUFFICES ASSUME EngineInv, QueueInv, [AttachedNext]_avars
                 PROVE  EngineInv' /\ QueueInv'
      OBVIOUS
    <2>1. AppendThrows \/ [Next]_vars
      BY DEF AttachedNext, Finish, StoreInitializes, WriteRejected, Next, avars
    <2>2. QED
      BY <2>1, ThrowKeepsEngine, EngineInvNext, QueueNext
  <1>3. EngineInv /\ QueueInv => NeverCrossed /\ BookHoldsRestingOrders /\ FillsTrailEvents
    BY HeldAreBooked DEF EngineInv, CountersInv, FillsTrailEvents
  <1>4. QED
    BY <1>1, <1>2, <1>3, PTL DEF AttachedSpec

(* While no write failed the engine is one without a store.                *)
Sound ==
  EngineInv /\ QueueInv /\ TradeInv /\ PriorityInv /\ TallyInv /\ MirrorInv

SoundReplays == Sound /\ op.phase = "idle" => ReplayMatchingEngine(journal) = EngineState

ServedInv ==
  /\ store \in {"ready", "latched"}
  /\ store = "ready" => Sound
  /\ ReplayMatchingEngine(journal) # Refused

LEMMA ReplaysWhenSound == SoundReplays
  BY IdleReplays DEF SoundReplays, Sound

LEMMA ReplaysWhenSoundNext == SoundReplays'
  BY ReplaysWhenSound, PTL

LEMMA EngineIsNoRefusal == EngineState # Refused
  BY DEF EngineState, Refused

LEMMA EngineIsNoRefusalNext == EngineState' # Refused
  BY DEF EngineState, Refused

LEMMA SoundInit == Init => Sound
  BY EngineInvInit, QueueInit, TradeInit, PriorityInit, TallyInit, MirrorInit DEF Sound

LEMMA SoundNext ==
  ASSUME Sound, [Next]_vars
  PROVE  Sound'
  <1>1. EngineInv /\ QueueInv /\ TradeInv /\ PriorityInv /\ TallyInv /\ MirrorInv
    BY DEF Sound
  <1>2. EventsInv
    BY <1>1 DEF TradeInv
  <1>3. EngineInv' /\ QueueInv'
    BY <1>1, EngineInvNext, QueueNext
  <1>4. TradeInv' /\ TallyInv' /\ MirrorInv'
    BY <1>1, <1>2, TradeNext, TallyNext, MirrorNext
  <1>5. PriorityInv'
    BY <1>1, <1>3, PriorityNext
  <1>6. QED
    BY <1>3, <1>4, <1>5 DEF Sound

LEMMA ServedNextKeeps ==
  ASSUME ServedInv, [ServedNext]_avars
  PROVE  ServedInv'
  <1>1. CASE store = "ready" /\ Commit /\ UNCHANGED store
    <2>1. [Next]_vars /\ op'.phase = "idle"
      BY <1>1 DEF Next, Commit, Idle
    <2>2. Sound'
      BY <1>1, <2>1, SoundNext DEF ServedInv
    <2>3. ReplayMatchingEngine(journal') = EngineState'
      BY <2>1, <2>2, ReplaysWhenSoundNext DEF SoundReplays
    <2>4. QED
      BY <1>1, <2>2, <2>3, EngineIsNoRefusalNext DEF ServedInv
  <1>2. CASE store # "ready" /\ AppendThrows /\ UNCHANGED store
    BY <1>2 DEF ServedInv, AppendThrows
  <1>3. CASE (Call \/ MatchTaker \/ UNCHANGED vars) /\ UNCHANGED store
    <2>1. journal' = journal /\ [Next]_vars
      <3>1. CASE Call
        BY <3>1, CallKeepsJournal DEF Next
      <3>2. CASE MatchTaker
        BY <3>2 DEF MatchTaker, MatchSelfTrade, MatchRunsDry, MatchRests, MatchCompletes,
           MatchFill, Next
      <3>3. CASE UNCHANGED vars
        BY <3>3 DEF vars
      <3>4. QED
        BY <1>3, <3>1, <3>2, <3>3
    <2>2. store = "ready" => Sound'
      BY <2>1, SoundNext DEF ServedInv
    <2>3. QED
      BY <1>3, <2>1, <2>2 DEF ServedInv
  <1>4. CASE WriteRejected
    <2>1. journal' = journal /\ store' = "latched"
      BY <1>4 DEF WriteRejected, vars
    <2>2. QED
      BY <2>1 DEF ServedInv
  <1>5. QED
    BY <1>1, <1>2, <1>3, <1>4 DEF ServedNext, Finish, avars

(* However appends throw, the journal of an engine whose store was ready   *)
(* when it began to serve can be replayed: nothing is journaled once an    *)
(* append has thrown.  As long as no write failed it gives the engine.     *)
THEOREM ThrowsLeaveReplay == ServedSpec => []ThrowsKeepJournalReplayable
  <1>1. Init /\ store = "ready" => ServedInv
    <2> SUFFICES ASSUME Init, store = "ready" PROVE ServedInv
      OBVIOUS
    <2>1. Sound /\ op.phase = "idle"
      BY SoundInit DEF Init, Idle
    <2>2. ReplayMatchingEngine(journal) = EngineState
      BY <2>1, ReplaysWhenSound DEF SoundReplays
    <2>3. QED
      BY <2>1, <2>2, EngineIsNoRefusal DEF ServedInv
  <1>2. ServedInv /\ [ServedNext]_avars => ServedInv'
    BY ServedNextKeeps
  <1>3. ServedInv => ThrowsKeepJournalReplayable
    BY ReplaysWhenSound DEF ServedInv, SoundReplays, ThrowsKeepJournalReplayable
  <1>4. QED
    BY <1>1, <1>2, <1>3, PTL DEF ServedSpec
=============================================================================
