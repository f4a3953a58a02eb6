----------------------- MODULE MatchingEngine_proofs -----------------------
(***************************************************************************)
(* Proofs about the matching engine, for every set of orders, instruments, *)
(* prices and inputs and every bound of the sequence space: its types and  *)
(* an uncrossed book (EngineInv), the queues of the books (QueueInv), what *)
(* the journal says was executed (TradeInv), and price/time priority       *)
(* (PriorityInv).                                                          *)
(***************************************************************************)
EXTENDS EngineProperties, SetSums, SequenceTheorems, FiniteSetTheorems, TLAPS

-----------------------------------------------------------------------------
(* Sequences.                                                              *)

LEMMA RangeFacts ==
  ASSUME NEW S, NEW s \in Seq(S)
  PROVE  /\ \A k \in 1 .. Len(s) : s[k] \in Range(s)
         /\ \A x \in Range(s) : \E k \in 1 .. Len(s) : s[k] = x
         /\ Range(s) \subseteq S
  BY DEF Range

LEMMA AppendFacts ==
  ASSUME NEW S, NEW s \in Seq(S), NEW x \in S
  PROVE  /\ Append(s, x) \in Seq(S)
         /\ Range(Append(s, x)) = Range(s) \cup {x}
  <1> DEFINE t == Append(s, x)
  <1>1. /\ t \in Seq(S) /\ Len(t) = Len(s) + 1 /\ Len(s) \in Nat
        /\ \A k \in 1 .. Len(s) : t[k] = s[k]
        /\ t[Len(s) + 1] = x
    OBVIOUS
  <1> HIDE DEF t
  <1>2. Range(t) \subseteq Range(s) \cup {x}
    <2> SUFFICES ASSUME NEW k \in 1 .. Len(t)
                 PROVE  t[k] \in Range(s) \cup {x}
      BY <1>1, RangeFacts
    <2>1. k \in 1 .. Len(s) \/ k = Len(s) + 1
      BY <1>1
    <2>2. QED
      BY <1>1, <2>1, RangeFacts
  <1>3. Range(s) \cup {x} \subseteq Range(t)
    <2>1. x \in Range(t)
      <3>1. Len(s) + 1 \in 1 .. Len(t)
        BY <1>1
      <3>2. QED
        BY <1>1, <3>1, RangeFacts
    <2>2. ASSUME NEW k \in 1 .. Len(s) PROVE s[k] \in Range(t)
      <3>1. k \in 1 .. Len(t)
        BY <1>1
      <3>2. QED
        BY <1>1, <3>1, RangeFacts
    <2>3. QED
      BY <2>1, <2>2, RangeFacts
  <1>4. QED
    BY <1>1, <1>2, <1>3 DEF t

LEMMA TailFacts ==
  ASSUME NEW S, NEW s \in Seq(S), s # << >>
  PROVE  /\ Tail(s) \in Seq(S)
         /\ Head(s) \in Range(s)
         /\ Range(Tail(s)) \subseteq Range(s)
  BY DEF Range

LEMMA ConcatFacts ==
  ASSUME NEW S, NEW s \in Seq(S), NEW t \in Seq(S)
  PROVE  /\ s \o t \in Seq(S)
         /\ Len(s \o t) = Len(s) + Len(t)
         /\ \A k \in 1 .. Len(s) : (s \o t)[k] = s[k]
         /\ \A k \in 1 .. Len(t) : (s \o t)[Len(s) + k] = t[k]
  OBVIOUS

(* No entry of a queue stands in it twice.                                 *)
Unrepeated(s) == \A j, k \in 1 .. Len(s) : s[j] = s[k] => j = k

(* Where an entry is cut out of a sequence, those behind it move up.       *)
LEMMA WithoutCuts ==
  ASSUME NEW S, NEW s \in Seq(S), NEW id \in Range(s)
  PROVE  \E at \in 1 .. Len(s) :
           LET cut == Without(s, id)
           IN  /\ s[at] = id
               /\ cut \in Seq(S)
               /\ Len(cut) = Len(s) - 1
               /\ \A k \in 1 .. at - 1 : cut[k] = s[k]
               /\ \A k \in at .. Len(s) - 1 : cut[k] = s[k + 1]
  <1> DEFINE at == CHOOSE k \in 1 .. Len(s) : s[k] = id
             low == SubSeq(s, 1, at - 1)
             high == SubSeq(s, at + 1, Len(s))
  <1>1. at \in 1 .. Len(s) /\ s[at] = id
    <2>1. \E k \in 1 .. Len(s) : s[k] = id
      BY DEF Range
    <2>2. QED
      BY <2>1
  <1> HIDE DEF at
  <1>2. /\ low \in Seq(S) /\ Len(low) = at - 1
        /\ \A k \in 1 .. at - 1 : low[k] = s[k]
    BY <1>1
  <1>3. /\ high \in Seq(S) /\ Len(high) = Len(s) - at
        /\ \A k \in 1 .. Len(s) - at : high[k] = s[at + k]
    BY <1>1
  <1>4. Without(s, id) = low \o high
    BY DEF Without, at
  <1> DEFINE cut == low \o high
  <1> HIDE DEF low, high
  <1>5. /\ cut \in Seq(S)
        /\ Len(cut) = Len(s) - 1
        /\ \A k \in 1 .. at - 1 : cut[k] = s[k]
        /\ \A k \in at .. Len(s) - 1 : cut[k] = s[k + 1]
    <2>1. /\ cut \in Seq(S)
          /\ Len(cut) = Len(low) + Len(high)
          /\ \A k \in 1 .. Len(low) : cut[k] = low[k]
          /\ \A k \in 1 .. Len(high) : cut[Len(low) + k] = high[k]
      <3>1. low \in Seq(S) /\ high \in Seq(S)
        BY <1>2, <1>3
      <3>2. QED
        BY ONLY <3>1, ConcatFacts DEF cut
    <2> HIDE DEF cut
    <2>2. \A k \in 1 .. at - 1 : cut[k] = s[k]
      <3> TAKE k \in 1 .. at - 1
      <3>1. k \in 1 .. Len(low)
        BY <1>2
      <3>2. cut[k] = low[k]
        BY <2>1, <3>1
      <3>3. QED
        BY <1>2, <3>2
    <2>3. ASSUME NEW k \in at .. Len(s) - 1
          PROVE  cut[k] = s[k + 1]
      <3>1. /\ k - at + 1 \in 1 .. Len(s) - at
            /\ (at - 1) + (k - at + 1) = k /\ at + (k - at + 1) = k + 1
        BY <1>1
      <3>2. cut[(at - 1) + (k - at + 1)] = high[k - at + 1]
        BY <1>2, <1>3, <2>1, <3>1
      <3>3. high[k - at + 1] = s[at + (k - at + 1)]
        BY <1>3, <3>1
      <3>4. QED
        BY <3>1, <3>2, <3>3
    <2>4. Len(cut) = Len(s) - 1
      BY <1>1, <1>2, <1>3, <2>1
    <2>5. QED
      BY <2>1, <2>2, <2>3, <2>4
  <1> HIDE DEF cut
  <1>6. QED
    BY <1>1, <1>4, <1>5 DEF cut

(* Cutting one entry out of a sequence leaves all the others.              *)
LEMMA WithoutFacts ==
  ASSUME NEW S, NEW s \in Seq(S), NEW id \in Range(s)
  PROVE  /\ Without(s, id) \in Seq(S)
         /\ Range(Without(s, id)) \subseteq Range(s)
         /\ Range(s) \subseteq Range(Without(s, id)) \cup {id}
         /\ Unrepeated(s) =>
              Unrepeated(Without(s, id)) /\ id \notin Range(Without(s, id))
  <1> DEFINE cut == Without(s, id)
  <1>1. PICK at \in 1 .. Len(s) :
          /\ s[at] = id
          /\ cut \in Seq(S)
          /\ Len(cut) = Len(s) - 1
          /\ \A k \in 1 .. at - 1 : cut[k] = s[k]
          /\ \A k \in at .. Len(s) - 1 : cut[k] = s[k + 1]
    BY WithoutCuts
  <1> HIDE DEF cut
  <1>2. \A k \in 1 .. Len(cut) : cut[k] \in Range(s)
    <2> TAKE k \in 1 .. Len(cut)
    <2>1. \/ k \in 1 .. at - 1 /\ k \in 1 .. Len(s)
          \/ k \in at .. Len(s) - 1 /\ k + 1 \in 1 .. Len(s)
      BY <1>1
    <2>2. QED
      BY <1>1, <2>1, RangeFacts
  <1>3. ASSUME NEW k \in 1 .. Len(s), s[k] # id
        PROVE  s[k] \in Range(cut)
    <2>1. \/ k \in 1 .. at - 1 /\ k \in 1 .. Len(cut)
          \/ /\ k - 1 \in at .. Len(s) - 1 /\ k - 1 \in 1 .. Len(cut)
             /\ (k - 1) + 1 = k
      BY <1>1, <1>3
    <2>2. QED
      BY <1>1, <2>1, RangeFacts
  <1>4. Range(cut) \subseteq Range(s)
    BY <1>1, <1>2, RangeFacts
  <1>5. Range(s) \subseteq Range(cut) \cup {id}
    BY <1>3, RangeFacts
  <1>6. ASSUME Unrepeated(s)
         PROVE  Unrepeated(cut) /\ id \notin Range(cut)
    <2> DEFINE from(k) == IF k < at THEN k ELSE k + 1
    <2>1. ASSUME NEW k \in 1 .. Len(cut)
          PROVE  /\ from(k) \in 1 .. Len(s) /\ from(k) # at
                 /\ cut[k] = s[from(k)]
      BY <1>1
    <2>2. \A j, k \in 1 .. Len(cut) : from(j) = from(k) => j = k
      BY <1>1
    <2> HIDE DEF from
    <2>3. Unrepeated(cut)
      BY <1>6, <2>1, <2>2 DEF Unrepeated
    <2>4. \A k \in 1 .. Len(cut) : cut[k] # id
      BY <1>1, <1>6, <2>1 DEF Unrepeated
    <2>5. QED
      BY <1>1, <2>3, <2>4, RangeFacts
  <1>7. QED
    BY <1>1, <1>4, <1>5, <1>6 DEF cut

(* A queue grows at its end and shrinks at its head without repeating.     *)
LEMMA AppendUnrepeated ==
  ASSUME NEW S, NEW s \in Seq(S), NEW x \in S, Unrepeated(s), x \notin Range(s)
  PROVE  Unrepeated(Append(s, x))
  <1> DEFINE t == Append(s, x)
  <1>1. /\ Len(t) = Len(s) + 1 /\ Len(s) \in Nat
        /\ \A k \in 1 .. Len(s) : t[k] = s[k]
        /\ t[Len(s) + 1] = x
    OBVIOUS
  <1> HIDE DEF t
  <1>2. \A k \in 1 .. Len(s) : s[k] # x
    BY RangeFacts
  <1>3. \A k \in 1 .. Len(t) : k \in 1 .. Len(s) \/ k = Len(s) + 1
    BY <1>1
  <1>4. Unrepeated(t)
    BY <1>1, <1>2, <1>3 DEF Unrepeated
  <1>5. QED
    BY <1>4 DEF t

LEMMA TailUnrepeated ==
  ASSUME NEW S, NEW s \in Seq(S), s # << >>, Unrepeated(s)
  PROVE  /\ Unrepeated(Tail(s))
         /\ Range(Tail(s)) = Range(s) \ {Head(s)}
  <1> DEFINE t == Tail(s)
  <1>1. /\ t \in Seq(S) /\ Len(t) = Len(s) - 1 /\ Len(s) \in Nat \ {0}
        /\ \A k \in 1 .. Len(s) - 1 : t[k] = s[k + 1]
        /\ Head(s) = s[1]
    OBVIOUS
  <1> HIDE DEF t
  <1>2. \A k \in 1 .. Len(s) - 1 : k + 1 \in 1 .. Len(s) /\ k + 1 # 1 /\ 1 \in 1 .. Len(s)
    BY <1>1
  <1>3. Unrepeated(t)
    <2> SUFFICES ASSUME NEW j \in 1 .. Len(s) - 1, NEW k \in 1 .. Len(s) - 1,
                        s[j + 1] = s[k + 1]
                 PROVE  j = k
      BY <1>1 DEF Unrepeated
    <2>1. j + 1 = k + 1
      BY <1>2 DEF Unrepeated
    <2>2. QED
      BY <2>1
  <1>4. \A x \in Range(t) : x \in Range(s) /\ x # Head(s)
    <2> TAKE x \in Range(t)
    <2>1. PICK k \in 1 .. Len(t) : x = t[k]
      BY <1>1, RangeFacts
    <2>2. k \in 1 .. Len(s) - 1 /\ x = s[k + 1]
      BY <1>1, <2>1
    <2>3. QED
      BY <1>1, <1>2, <2>2, RangeFacts DEF Unrepeated
  <1>5. \A x \in Range(s) : x # Head(s) => x \in Range(t)
    <2> TAKE x \in Range(s)
    <2>1. PICK k \in 1 .. Len(s) : x = s[k]
      BY RangeFacts
    <2>2. ASSUME x # Head(s)
          PROVE  x \in Range(t)
      <3>1. k - 1 \in 1 .. Len(t) /\ (k - 1) + 1 = k
        BY <1>1, <2>1, <2>2
      <3>2. t[k - 1] = x
        BY <1>1, <2>1, <3>1
      <3>3. QED
        BY <1>1, <3>1, <3>2, RangeFacts
    <2>3. QED
      BY <2>2
  <1>6. QED
    BY <1>3, <1>4, <1>5 DEF t

-----------------------------------------------------------------------------
(* Books.                                                                  *)

Queued(b, side, p) == Range(b.levels[side][p])

(* c holds nothing b did not hold in the same place.                       *)
NoLarger(b, c) ==
  /\ c \in Book
  /\ c.resting \subseteq b.resting
  /\ \A side \in Sides, p \in Prices : Queued(c, side, p) \subseteq Queued(b, side, p)

LEMMA BookFacts ==
  ASSUME NEW b \in Book
  PROVE  /\ \A side \in Sides, p \in Prices :
              /\ b.levels[side][p] \in Seq(OrderIds)
              /\ Queued(b, side, p) \subseteq OrderIds
              /\ p \in Live(b, side) <=> Queued(b, side, p) # {}
         /\ \A side \in Sides : Live(b, side) \subseteq Prices
         /\ b.levels \in [Sides -> [Prices -> Seq(OrderIds)]]
         /\ b.resting \subseteq OrderIds
  <1>1. b.levels \in [Sides -> [Prices -> Seq(OrderIds)]] /\ b.resting \subseteq OrderIds
    BY DEF Book
  <1>2. ASSUME NEW side \in Sides, NEW p \in Prices
        PROVE  /\ b.levels[side][p] \in Seq(OrderIds)
               /\ Queued(b, side, p) \subseteq OrderIds
               /\ p \in Live(b, side) <=> Queued(b, side, p) # {}
    <2>1. b.levels[side][p] \in Seq(OrderIds)
      BY <1>1
    <2>2. ASSUME b.levels[side][p] # << >>
          PROVE  Queued(b, side, p) # {}
      BY <2>1, <2>2, RangeFacts DEF Queued
    <2>3. ASSUME b.levels[side][p] = << >>
          PROVE  Queued(b, side, p) = {}
      BY <2>3 DEF Queued, Range
    <2>4. QED
      BY <2>1, <2>2, <2>3, RangeFacts DEF Queued, Live
  <1>3. QED
    BY <1>1, <1>2 DEF Live

(* A change of one queue.                                                  *)
LEMMA LevelChange ==
  ASSUME NEW b \in Book, NEW side \in Sides, NEW p \in Prices,
         NEW queue \in Seq(OrderIds), NEW resting \in SUBSET OrderIds
  PROVE  LET c == [levels  |-> [b.levels EXCEPT ![side][p] = queue],
                   resting |-> resting]
         IN  /\ c \in Book
             /\ c.resting = resting
             /\ Queued(c, side, p) = Range(queue)
             /\ \A s \in Sides, q \in Prices :
                  <<s, q>> # <<side, p>> => Queued(c, s, q) = Queued(b, s, q)
  <1> DEFINE levels == [b.levels EXCEPT ![side][p] = queue]
             c == [levels |-> levels, resting |-> resting]
  <1>1. b.levels \in [Sides -> [Prices -> Seq(OrderIds)]]
    BY BookFacts
  <1>2. levels \in [Sides -> [Prices -> Seq(OrderIds)]]
    BY <1>1
  <1>3. levels[side][p] = queue
    BY <1>1
  <1>4. \A s \in Sides, q \in Prices :
          <<s, q>> # <<side, p>> => levels[s][q] = b.levels[s][q]
    BY <1>1
  <1> HIDE DEF levels
  <1>5. c \in Book
    BY <1>2 DEF Book
  <1>6. QED
    BY <1>3, <1>4, <1>5 DEF Queued, levels

LEMMA RemoveShrinks ==
  ASSUME NEW b \in Book, NEW id \in OrderIds, NEW side \in Sides, NEW p \in Prices
  PROVE  NoLarger(b, RemoveResting(b, id, side, p))
  <1> DEFINE queue == b.levels[side][p]
  <1>1. queue \in Seq(OrderIds) /\ b.resting \subseteq OrderIds
    BY BookFacts
  <1>2. CASE \E k \in DOMAIN queue : queue[k] = id
    <2>1. id \in Range(queue)
      BY <1>2 DEF Range
    <2>2. Without(queue, id) \in Seq(OrderIds) /\ Range(Without(queue, id)) \subseteq Range(queue)
      BY <1>1, <2>1, WithoutFacts
    <2>3. RemoveResting(b, id, side, p)
            = [levels  |-> [b.levels EXCEPT ![side][p] = Without(queue, id)],
               resting |-> b.resting \ {id}]
      BY <1>2 DEF RemoveResting
    <2>4. QED
      BY <1>1, <2>2, <2>3, LevelChange DEF NoLarger, Queued
  <1>3. CASE ~\E k \in DOMAIN queue : queue[k] = id
    <2>1. RemoveResting(b, id, side, p) = b
      BY <1>3 DEF RemoveResting
    <2>2. QED
      BY <2>1 DEF NoLarger
  <1>4. QED
    BY <1>2, <1>3

LEMMA ShiftShrinks ==
  ASSUME NEW b \in Book, NEW side \in Sides, NEW p \in Live(b, side)
  PROVE  NoLarger(b, ShiftBest(b, side, p))
  <1> DEFINE queue == b.levels[side][p]
  <1>1. p \in Prices /\ queue \in Seq(OrderIds) /\ queue # << >>
    BY BookFacts DEF Live
  <1> DEFINE rest == Tail(queue)
             left == b.resting \ {HeadOf(b, side, p)}
  <1>2. rest \in Seq(OrderIds) /\ Range(rest) \subseteq Range(queue)
    BY <1>1, TailFacts
  <1>3. ShiftBest(b, side, p)
          = [levels |-> [b.levels EXCEPT ![side][p] = rest], resting |-> left]
    BY DEF ShiftBest
  <1>4. left \in SUBSET OrderIds /\ left \subseteq b.resting
    BY BookFacts
  <1> HIDE DEF rest, left
  <1>5. QED
    BY <1>1, <1>2, <1>3, <1>4, LevelChange DEF NoLarger, Queued

LEMMA AddGrows ==
  ASSUME NEW b \in Book, NEW id \in OrderIds, NEW side \in Sides, NEW p \in Prices
  PROVE  LET c == AddResting(b, id, side, p)
         IN  /\ c \in Book
             /\ c.resting = b.resting \cup {id}
             /\ Queued(c, side, p) = Queued(b, side, p) \cup {id}
             /\ \A s \in Sides, q \in Prices :
                  <<s, q>> # <<side, p>> => Queued(c, s, q) = Queued(b, s, q)
  <1> DEFINE queue == b.levels[side][p]
  <1>1. queue \in Seq(OrderIds) /\ b.resting \subseteq OrderIds
    BY BookFacts
  <1> DEFINE grown == Append(queue, id)
             kept == b.resting \cup {id}
  <1>2. grown \in Seq(OrderIds) /\ Range(grown) = Range(queue) \cup {id}
    BY <1>1, AppendFacts
  <1>3. AddResting(b, id, side, p)
          = [levels |-> [b.levels EXCEPT ![side][p] = grown], resting |-> kept]
    BY DEF AddResting
  <1>4. kept \in SUBSET OrderIds /\ kept = b.resting \cup {id}
    BY <1>1
  <1> HIDE DEF grown, kept
  <1>5. QED
    BY <1>1, <1>2, <1>3, <1>4, LevelChange DEF Queued

-----------------------------------------------------------------------------
(* Validation: what the checks of a call leave of its input.               *)

LEMMA SubmitPasses ==
  ASSUME NEW o \in Submissions, Passes(SubmitChecks(o))
  PROVE  /\ o.order_id \in OrderIds \ DOMAIN orders
         /\ o.instrument \in Instruments
         /\ o.side \in Sides
         /\ o.owner \in Owners \cup {Null}
         /\ o.type \in {"limit", "market"}
         /\ o.price \in Prices \cup {Null}
         /\ o.type = "limit" => o.price \in Prices
         /\ o.type = "market" => o.price = Null
         /\ o.quantity \in Nat \ {0}
  <1>1. o \in SubmitInput
    BY EngineConstants
  <1>2. \A k \in 1 .. 13 : ~SubmitChecks(o)[k].fails
    <2>1. DOMAIN SubmitChecks(o) = 1 .. 13
      BY DEF SubmitChecks
    <2>2. QED
      BY <2>1 DEF Passes
  <1>3. /\ ~SubmitChecks(o)[2].fails /\ ~SubmitChecks(o)[3].fails
        /\ ~SubmitChecks(o)[4].fails /\ ~SubmitChecks(o)[5].fails
        /\ ~SubmitChecks(o)[6].fails /\ ~SubmitChecks(o)[7].fails
        /\ ~SubmitChecks(o)[8].fails /\ ~SubmitChecks(o)[9].fails
        /\ ~SubmitChecks(o)[10].fails /\ ~SubmitChecks(o)[11].fails
        /\ ~SubmitChecks(o)[12].fails /\ ~SubmitChecks(o)[13].fails
    BY <1>2
  <1>4. /\ o.order_id \notin {Null, Malformed} /\ o.instrument # Null
        /\ o.instrument # Malformed /\ o.side \notin {Null, Malformed}
        /\ o.owner # Malformed /\ o.type # Malformed
        /\ (o.type = "market") = (o.price = Null) /\ o.price # Malformed
        /\ o.price # 0 /\ o.quantity # Malformed
        /\ o.quantity # 0 /\ o.order_id \notin DOMAIN orders
    BY <1>3 DEF SubmitChecks
  <1>5. QED
    BY <1>1, <1>4 DEF SubmitInput

LEMMA CancelPasses ==
  ASSUME NEW c \in Cancellations, Passes(CancelChecks(c))
  PROVE  /\ c.instrument \in Instruments
         /\ c.order_id \in books[c.instrument].resting
  <1>1. c \in CancelInput
    BY EngineConstants
  <1>2. \A k \in 1 .. 4 : ~CancelChecks(c)[k].fails
    <2>1. DOMAIN CancelChecks(c) = 1 .. 4
      BY DEF CancelChecks
    <2>2. QED
      BY <2>1 DEF Passes
  <1>3. /\ ~CancelChecks(c)[1].fails /\ ~CancelChecks(c)[2].fails
        /\ ~CancelChecks(c)[4].fails
    BY <1>2
  <1>4. QED
    BY <1>1, <1>3 DEF CancelChecks, CancelInput

LEMMA AmendPasses ==
  ASSUME NEW a \in Amendments, Passes(AmendChecks(a))
  PROVE  /\ IsResting(a.order_id)
         /\ a.price \in Prices \cup {Null}
         /\ a.quantity \in (Nat \ {0}) \cup {Null}
         /\ ~(NewTotal(a) <= Executed(a.order_id))
  <1>1. a \in AmendInput
    BY EngineConstants
  <1>2. \A k \in 1 .. 9 : ~AmendChecks(a)[k].fails
    <2>1. DOMAIN AmendChecks(a) = 1 .. 9
      BY DEF AmendChecks
    <2>2. QED
      BY <2>1 DEF Passes
  <1>3. /\ ~AmendChecks(a)[3].fails /\ ~AmendChecks(a)[4].fails
        /\ ~AmendChecks(a)[5].fails /\ ~AmendChecks(a)[6].fails
        /\ ~AmendChecks(a)[7].fails /\ ~AmendChecks(a)[9].fails
    BY <1>2
  <1>4. /\ IsResting(a.order_id) /\ a.price # Malformed /\ a.price # 0
        /\ a.quantity # Malformed /\ a.quantity # 0
        /\ ~(NewTotal(a) <= Executed(a.order_id))
    BY <1>3 DEF AmendChecks
  <1>5. QED
    BY <1>1, <1>4 DEF AmendInput

-----------------------------------------------------------------------------
(* The inductive invariant: the type invariant, and what it takes to keep  *)
(* it.  A queue names accepted orders of its own side (so an order never   *)
(* meets itself), only priced orders are limits, only limits rest, every   *)
(* order has its place in the tracked map, and the fill ids trail the      *)
(* sequence numbers.                                                       *)

OrdersInv ==
  /\ DOMAIN orders \subseteq OrderIds
  /\ \A id \in DOMAIN orders :
       /\ orders[id] \in Order
       /\ orders[id].order_type = "limit" => orders[id].price \in Prices
  /\ orders = [id \in DOMAIN orders |-> orders[id]]

TrackedInv ==
  /\ tracked \in Seq(DOMAIN orders)
  /\ DOMAIN orders \subseteq Range(tracked)

BooksInv ==
  /\ books \in [Instruments -> Book]
  /\ \A i \in Instruments :
       /\ \A id \in books[i].resting :
            id \in DOMAIN orders /\ orders[id].order_type = "limit"
       /\ \A side \in Sides, p \in Prices : \A id \in Queued(books[i], side, p) :
            id \in DOMAIN orders /\ orders[id].side = side

CountersInv ==
  /\ nextSeq \in 1 .. MaxSafe /\ nextFill \in Nat \ {0}
  /\ 2 * nextFill <= nextSeq + 1
  /\ lastAt \in Times \cup {-1}
  /\ op.phase \in {"match", "finish"} =>
       /\ op.seq \in 1 .. MaxSafe /\ op.fill \in Nat \ {0}
       /\ 2 * op.fill <= op.seq

OperationInv ==
  /\ op.phase \in Phases
  /\ op.phase = "match" => op.taker \in DOMAIN orders
  /\ op = [f \in DOMAIN op |-> op[f]]
  /\ DOMAIN op = {"phase", "taker", "events", "seq", "fill", "at"}

EngineInv ==
  OrdersInv /\ TrackedInv /\ BooksInv /\ CountersInv /\ OperationInv /\ NeverCrossed

LEMMA EngineInvInit == Init => EngineInv
  <1> SUFFICES ASSUME Init PROVE EngineInv
    OBVIOUS
  <1>1. OrdersInv /\ TrackedInv
    BY DEF Init, OrdersInv, TrackedInv
  <1>2. EmptyBook \in Book
    BY DEF EmptyBook, Book
  <1>3. \A side \in Sides, p \in Prices : Queued(EmptyBook, side, p) = {}
    BY DEF EmptyBook, Queued, Range
  <1>4. BooksInv
    BY <1>2, <1>3 DEF Init, BooksInv, EmptyBook
  <1>5. NeverCrossed
    BY DEF Init, NeverCrossed, EmptyBook, Live, Sides
  <1>6. CountersInv
    BY EventConstants DEF Init, CountersInv, Idle
  <1>7. OperationInv
    BY DEF Init, OperationInv, Idle, Phases
  <1>8. QED
    BY <1>1, <1>4, <1>5, <1>6, <1>7 DEF EngineInv

(* Orders keep their side and type, and none is forgotten.                 *)
KeepsOrders ==
  \A id \in DOMAIN orders :
    /\ id \in DOMAIN orders'
    /\ orders'[id].side = orders[id].side
    /\ orders'[id].order_type = orders[id].order_type

KeepsBooks ==
  /\ books' \in [Instruments -> Book]
  /\ \A i \in Instruments : NoLarger(books[i], books'[i])

LEMMA UnchangedBooks ==
  ASSUME BooksInv, books' = books
  PROVE  KeepsBooks
  BY DEF BooksInv, KeepsBooks, NoLarger

(* Whatever only takes orders out of the books keeps them sound and        *)
(* uncrossed.                                                              *)
LEMMA BooksFrame ==
  ASSUME BooksInv, NeverCrossed, KeepsOrders, KeepsBooks
  PROVE  BooksInv' /\ NeverCrossed'
  <1>1. BooksInv'
    BY DEF BooksInv, KeepsOrders, KeepsBooks, NoLarger
  <1>2. ASSUME NEW i \in Instruments, NEW side \in Sides
        PROVE  Live(books'[i], side) \subseteq Live(books[i], side)
    <2>1. books[i] \in Book /\ books'[i] \in Book
      BY DEF BooksInv, KeepsBooks
    <2>2. ASSUME NEW p \in Live(books'[i], side)
          PROVE  p \in Live(books[i], side)
      <3>1. p \in Prices /\ Queued(books'[i], side, p) # {}
        BY <2>1, BookFacts
      <3>2. Queued(books[i], side, p) # {}
        BY <3>1 DEF KeepsBooks, NoLarger
      <3>3. QED
        BY <2>1, <3>1, <3>2, BookFacts
    <2>3. QED
      BY <2>2
  <1>3. NeverCrossed'
    BY <1>2 DEF NeverCrossed, Sides
  <1>4. QED
    BY <1>1, <1>3

-----------------------------------------------------------------------------
(* The counters and the operation record.                                  *)

LEMMA Opening ==
  ASSUME CountersInv, NEW now \in Times, BeginOperation(now),
         NEW phase \in {"match", "finish"}, NEW taker, NEW body,
         OpenWith(now, phase, taker, body),
         phase = "match" => taker \in DOMAIN orders',
         nextSeq' = nextSeq, nextFill' = nextFill
  PROVE  CountersInv' /\ OperationInv'
  <1>1. nextSeq \in Nat /\ nextSeq + 1 \in 1 .. MaxSafe /\ lastAt' = now
    BY EventConstants DEF CountersInv, BeginOperation
  <1>2. /\ op'.phase = phase /\ op'.taker = taker
        /\ op'.seq = nextSeq + 1 /\ op'.fill = nextFill
        /\ op' = [f \in DOMAIN op' |-> op'[f]]
        /\ DOMAIN op' = {"phase", "taker", "events", "seq", "fill", "at"}
    BY DEF OpenWith
  <1>3. CountersInv'
    BY <1>1, <1>2 DEF CountersInv
  <1>4. OperationInv'
    BY <1>2 DEF OperationInv, Phases
  <1>5. QED
    BY <1>3, <1>4

LEMMA Continuing ==
  ASSUME CountersInv, OperationInv, op.phase = "match",
         NEW bodies, Len(bodies) \in Nat,
         NEW phase \in {"match", "finish"}, NEW fill \in Nat \ {0},
         Continue(bodies, phase, fill),
         2 * fill <= op.seq + Len(bodies),
         DOMAIN orders' = DOMAIN orders,
         UNCHANGED <<nextSeq, nextFill, lastAt>>
  PROVE  CountersInv' /\ OperationInv'
  <1>1. op.seq \in 1 .. MaxSafe /\ MaxSafe \in Nat
    BY EventConstants DEF CountersInv
  <1>2. CASE Exhausted(bodies)
    <2>1. op' = [op EXCEPT !.phase = "wedged", !.fill = fill]
      BY <1>2 DEF Continue
    <2>2. /\ op'.phase = "wedged"
          /\ op' = [f \in DOMAIN op' |-> op'[f]] /\ DOMAIN op' = DOMAIN op
      BY <2>1 DEF OperationInv
    <2>3. QED
      BY <2>2 DEF CountersInv, OperationInv, Phases
  <1>3. CASE ~Exhausted(bodies)
    <2>1. op' = [op EXCEPT !.phase = phase, !.fill = fill,
                           !.events = @ \o Stamped(bodies, op.seq, op.at),
                           !.seq = @ + Len(bodies)]
      BY <1>3 DEF Continue
    <2>2. /\ op'.phase = phase /\ op'.fill = fill /\ op'.taker = op.taker
          /\ op'.seq = op.seq + Len(bodies)
          /\ op' = [f \in DOMAIN op' |-> op'[f]] /\ DOMAIN op' = DOMAIN op
      BY <2>1 DEF OperationInv
    <2>3. op'.seq \in 1 .. MaxSafe
      BY <1>1, <1>3, <2>2 DEF Exhausted
    <2>4. QED
      BY <2>2, <2>3 DEF CountersInv, OperationInv, Phases
  <1>4. QED
    BY <1>2, <1>3

-----------------------------------------------------------------------------
(* Opening an operation.                                                   *)

LEMMA RejectedKeeps ==
  ASSUME EngineInv, NEW now \in Times, BeginOperation(now),
         NEW id, NEW instrument, NEW side, NEW reason,
         RejectWith(now, id, instrument, side, reason)
  PROVE  EngineInv'
  <1>1. /\ OpenWith(now, "finish", Null, RejectedBody(id, instrument, side, reason))
        /\ UNCHANGED <<orders, tracked, books, journal, nextSeq, nextFill>>
    BY DEF RejectWith
  <1>2. CountersInv' /\ OperationInv'
    BY <1>1, Opening DEF EngineInv
  <1>3. OrdersInv' /\ TrackedInv' /\ BooksInv' /\ NeverCrossed'
    BY <1>1 DEF EngineInv, OrdersInv, TrackedInv, BooksInv, NeverCrossed
  <1>4. QED
    BY <1>2, <1>3 DEF EngineInv

LEMMA SubmitKeeps ==
  ASSUME EngineInv, NEW now \in Times, NEW o \in Submissions,
         SubmitAccepted(o, now)
  PROVE  EngineInv'
  <1> DEFINE id == o.order_id
             new == [instrument |-> o.instrument, side |-> o.side,
                     order_type |-> o.type, owner |-> o.owner,
                     price |-> o.price, quantity |-> o.quantity,
                     remaining |-> o.quantity, state |-> "resting"]
  <1>1. /\ BeginOperation(now) /\ Passes(SubmitChecks(o))
        /\ orders' = Put(orders, id, new) /\ tracked' = Append(tracked, id)
        /\ OpenWith(now, "match", id, AcceptedBody(o))
        /\ UNCHANGED <<books, journal, nextSeq, nextFill>>
    BY DEF SubmitAccepted
  <1>2. id \in OrderIds \ DOMAIN orders
    BY <1>1, SubmitPasses
  <1>3. new \in Order /\ (new.order_type = "limit" => new.price \in Prices)
    BY <1>1, SubmitPasses DEF Order, OrderStates
  <1>4. /\ DOMAIN orders' = DOMAIN orders \cup {id}
        /\ orders'[id] = new
        /\ \A x \in DOMAIN orders : orders'[x] = orders[x]
        /\ orders' = [x \in DOMAIN orders' |-> orders'[x]]
    BY <1>1, <1>2 DEF Put
  <1> HIDE DEF new
  <1>5. OrdersInv'
    BY <1>2, <1>3, <1>4 DEF EngineInv, OrdersInv
  <1>6. TrackedInv'
    <2>1. tracked \in Seq(DOMAIN orders') /\ id \in DOMAIN orders'
      BY <1>4 DEF EngineInv, TrackedInv
    <2>2. /\ tracked' \in Seq(DOMAIN orders')
          /\ Range(tracked') = Range(tracked) \cup {id}
      BY <1>1, <2>1, AppendFacts
    <2>3. QED
      BY <1>4, <2>2 DEF EngineInv, TrackedInv
  <1>7. KeepsOrders
    BY <1>4 DEF KeepsOrders
  <1>8. BooksInv' /\ NeverCrossed'
    BY <1>1, <1>7, UnchangedBooks, BooksFrame DEF EngineInv
  <1>9. CountersInv' /\ OperationInv'
    BY <1>1, <1>4, Opening DEF EngineInv
  <1>10. QED
    BY <1>5, <1>6, <1>8, <1>9 DEF EngineInv

-----------------------------------------------------------------------------
(* Changes of one order, and of its place in a book.                       *)

LEMMA OrderChange ==
  ASSUME OrdersInv, NEW id \in DOMAIN orders, NEW new \in Order,
         new.side = orders[id].side, new.order_type = orders[id].order_type,
         new.order_type = "limit" => new.price \in Prices,
         orders' = [orders EXCEPT ![id] = new]
  PROVE  /\ OrdersInv' /\ KeepsOrders
         /\ DOMAIN orders' = DOMAIN orders
         /\ orders'[id] = new
         /\ \A x \in DOMAIN orders \ {id} : orders'[x] = orders[x]
  <1>1. /\ DOMAIN orders' = DOMAIN orders
        /\ orders'[id] = new
        /\ \A x \in DOMAIN orders \ {id} : orders'[x] = orders[x]
        /\ orders' = [x \in DOMAIN orders' |-> orders'[x]]
    BY DEF OrdersInv
  <1>2. OrdersInv'
    BY <1>1 DEF OrdersInv
  <1>3. KeepsOrders
    BY <1>1 DEF KeepsOrders
  <1>4. QED
    BY <1>1, <1>2, <1>3

LEMMA TrackedFrame ==
  ASSUME TrackedInv, tracked' = tracked, DOMAIN orders' = DOMAIN orders
  PROVE  TrackedInv'
  BY DEF TrackedInv

LEMMA RemovalShrinks ==
  ASSUME EngineInv, NEW id \in DOMAIN orders,
         orders[id].order_type = "limit", RemoveFromBook(id)
  PROVE  KeepsBooks
  <1> DEFINE o == orders[id]
             i == o.instrument
             c == RemoveResting(books[i], id, o.side, o.price)
  <1>1. /\ id \in OrderIds /\ i \in Instruments
        /\ o.side \in Sides /\ o.price \in Prices
    BY DEF EngineInv, OrdersInv, Order
  <1>2. books \in [Instruments -> Book]
    BY DEF EngineInv, BooksInv
  <1>3. NoLarger(books[i], c)
    BY <1>1, <1>2, RemoveShrinks
  <1>4. books' = [books EXCEPT ![i] = c]
    BY DEF RemoveFromBook
  <1> HIDE DEF c
  <1>5. books' \in [Instruments -> Book]
    BY <1>1, <1>2, <1>3, <1>4 DEF NoLarger
  <1>6. \A j \in Instruments : books'[j] = IF j = i THEN c ELSE books[j]
    BY <1>1, <1>2, <1>4
  <1>7. \A j \in Instruments : NoLarger(books[j], books'[j])
    BY <1>2, <1>3, <1>6 DEF NoLarger
  <1>8. QED
    BY <1>5, <1>7 DEF KeepsBooks

LEMMA CancelKeeps ==
  ASSUME EngineInv, NEW now \in Times, NEW c \in Cancellations,
         CancelAccepted(c, now)
  PROVE  EngineInv'
  <1> DEFINE id == c.order_id
             new == [orders[id] EXCEPT !.state = "cancelled", !.remaining = 0]
  <1>1. /\ BeginOperation(now) /\ Passes(CancelChecks(c)) /\ RemoveFromBook(id)
        /\ orders' = [orders EXCEPT ![id].state = "cancelled", ![id].remaining = 0]
        /\ OpenWith(now, "finish", Null, CancelledBody(id, orders[id]))
        /\ UNCHANGED <<tracked, journal, nextSeq, nextFill>>
    BY DEF CancelAccepted
  <1>2. id \in DOMAIN orders /\ orders[id].order_type = "limit"
    BY <1>1, CancelPasses DEF EngineInv, BooksInv
  <1>3. orders[id] \in Order /\ orders[id].price \in Prices
    BY <1>2 DEF EngineInv, OrdersInv
  <1>4. /\ new \in Order /\ new.side = orders[id].side
        /\ new.order_type = orders[id].order_type /\ new.price = orders[id].price
    BY <1>3 DEF Order, OrderStates
  <1>5. orders' = [orders EXCEPT ![id] = new]
    BY <1>1, <1>2 DEF EngineInv, OrdersInv
  <1> HIDE DEF new
  <1>6. OrdersInv' /\ KeepsOrders /\ DOMAIN orders' = DOMAIN orders
    BY <1>2, <1>3, <1>4, <1>5, OrderChange DEF EngineInv
  <1>7. BooksInv' /\ NeverCrossed'
    BY <1>1, <1>2, <1>6, RemovalShrinks, BooksFrame DEF EngineInv
  <1>8. CountersInv' /\ OperationInv'
    BY <1>1, Opening DEF EngineInv
  <1>9. TrackedInv'
    BY <1>1, <1>6, TrackedFrame DEF EngineInv
  <1>10. QED
    BY <1>6, <1>7, <1>8, <1>9 DEF EngineInv

(* What an accepted amendment makes of its order.                          *)
LEMMA AmendedOrder ==
  ASSUME EngineInv, NEW a \in Amendments, Passes(AmendChecks(a)),
         orders' = Amended(a)
  PROVE  /\ a.order_id \in DOMAIN orders
         /\ orders[a.order_id].order_type = "limit"
         /\ OrdersInv' /\ KeepsOrders /\ DOMAIN orders' = DOMAIN orders
  <1> DEFINE id == a.order_id
             o == orders[id]
             price == NewPrice(a)
             total == NewTotal(a)
             left == total - Executed(id)
             new == [o EXCEPT !.price = price, !.quantity = total, !.remaining = left]
  <1>1. /\ id \in DOMAIN orders
        /\ id \in books[o.instrument].resting
    BY AmendPasses DEF IsResting
  <1>2. o \in Order
    BY <1>1 DEF EngineInv, OrdersInv
  <1>3. o.order_type = "limit" /\ o.price \in Prices
    BY <1>1, <1>2 DEF EngineInv, BooksInv, OrdersInv, Order
  <1>4. price \in Prices
    BY <1>3, AmendPasses DEF NewPrice
  <1>5. total \in Nat \ {0}
    BY <1>2, AmendPasses DEF NewTotal, Order
  <1>6. left \in Nat
    <2>1. Executed(id) \in Int
      BY <1>2 DEF Executed, Order
    <2>2. QED
      BY <1>5, <2>1, AmendPasses
  <1>7. orders' = [orders EXCEPT ![id] = new]
    BY <1>1 DEF Amended, EngineInv, OrdersInv
  <1> HIDE DEF price, total, left
  <1>8. /\ new \in Order /\ new.side = o.side /\ new.order_type = o.order_type
        /\ new.price = price
    BY <1>2, <1>4, <1>5, <1>6 DEF Order
  <1> HIDE DEF new
  <1>9. OrdersInv' /\ KeepsOrders /\ DOMAIN orders' = DOMAIN orders
    BY <1>1, <1>4, <1>7, <1>8, OrderChange DEF EngineInv
  <1>10. QED
    BY <1>1, <1>3, <1>9

LEMMA AmendInPlaceKeeps ==
  ASSUME EngineInv, NEW now \in Times, NEW a \in Amendments,
         AmendInPlace(a, now)
  PROVE  EngineInv'
  <1>1. /\ BeginOperation(now) /\ Passes(AmendChecks(a)) /\ orders' = Amended(a)
        /\ \E body : OpenWith(now, "finish", Null, body)
        /\ UNCHANGED <<tracked, books, journal, nextSeq, nextFill>>
    BY DEF AmendInPlace
  <1>2. OrdersInv' /\ KeepsOrders /\ DOMAIN orders' = DOMAIN orders
    BY <1>1, AmendedOrder
  <1>3. BooksInv' /\ NeverCrossed'
    BY <1>1, <1>2, UnchangedBooks, BooksFrame DEF EngineInv
  <1>4. CountersInv' /\ OperationInv'
    BY <1>1, Opening DEF EngineInv
  <1>5. TrackedInv'
    BY <1>1, <1>2, TrackedFrame DEF EngineInv
  <1>6. QED
    BY <1>2, <1>3, <1>4, <1>5 DEF EngineInv

LEMMA AmendRequeuedKeeps ==
  ASSUME EngineInv, NEW now \in Times, NEW a \in Amendments,
         AmendRequeued(a, now)
  PROVE  EngineInv'
  <1> DEFINE id == a.order_id
             kept == Without(tracked, id)
  <1>1. /\ BeginOperation(now) /\ Passes(AmendChecks(a)) /\ orders' = Amended(a)
        /\ RemoveFromBook(id)
        /\ tracked' = Append(kept, id)
        /\ \E body : OpenWith(now, "match", id, body)
        /\ UNCHANGED <<journal, nextSeq, nextFill>>
    BY DEF AmendRequeued
  <1>2. /\ id \in DOMAIN orders /\ orders[id].order_type = "limit"
        /\ OrdersInv' /\ KeepsOrders /\ DOMAIN orders' = DOMAIN orders
    BY <1>1, AmendedOrder
  <1>3. BooksInv' /\ NeverCrossed'
    BY <1>1, <1>2, RemovalShrinks, BooksFrame DEF EngineInv
  <1>4. CountersInv' /\ OperationInv'
    BY <1>1, <1>2, Opening DEF EngineInv
  <1>5. TrackedInv'
    <2>1. tracked \in Seq(DOMAIN orders) /\ id \in Range(tracked)
      BY <1>2 DEF EngineInv, TrackedInv
    <2>2. /\ kept \in Seq(DOMAIN orders)
          /\ Range(tracked) \subseteq Range(kept) \cup {id}
      BY <2>1, WithoutFacts
    <2> HIDE DEF kept
    <2>3. /\ tracked' \in Seq(DOMAIN orders)
          /\ Range(tracked') = Range(kept) \cup {id}
      BY <1>1, <1>2, <2>2, AppendFacts
    <2>4. QED
      BY <1>2, <2>2, <2>3 DEF EngineInv, TrackedInv
  <1>6. QED
    BY <1>2, <1>3, <1>4, <1>5 DEF EngineInv

-----------------------------------------------------------------------------
(* The sweep.                                                              *)

LEMMA TakerFacts ==
  ASSUME EngineInv, op.phase = "match"
  PROVE  /\ op.taker \in DOMAIN orders
         /\ orders[op.taker] \in Order
         /\ orders[op.taker].order_type = "limit" => orders[op.taker].price \in Prices
         /\ op.seq \in Nat /\ op.fill \in Nat \ {0} /\ 2 * op.fill <= op.seq
         /\ books \in [Instruments -> Book]
  BY DEF EngineInv, OperationInv, OrdersInv, CountersInv, BooksInv

LEMMA OneEventContinues ==
  ASSUME EngineInv, op.phase = "match", NEW body,
         NEW phase \in {"match", "finish"}, Continue(<<body>>, phase, op.fill),
         DOMAIN orders' = DOMAIN orders,
         UNCHANGED <<nextSeq, nextFill, lastAt>>
  PROVE  CountersInv' /\ OperationInv'
  <1> DEFINE bodies == <<body>>
  <1>1. Len(bodies) = 1
    OBVIOUS
  <1> HIDE DEF bodies
  <1>2. 2 * op.fill <= op.seq + Len(bodies) /\ op.fill \in Nat \ {0}
    BY <1>1, TakerFacts
  <1>3. Continue(bodies, phase, op.fill)
    BY DEF bodies
  <1>4. QED
    BY <1>1, <1>2, <1>3, Continuing DEF EngineInv

LEMMA TwoEventsContinue ==
  ASSUME EngineInv, op.phase = "match", NEW first, NEW second, NEW fill,
         fill = op.fill + 1, Continue(<<first, second>>, "match", fill),
         DOMAIN orders' = DOMAIN orders,
         UNCHANGED <<nextSeq, nextFill, lastAt>>
  PROVE  CountersInv' /\ OperationInv'
  <1> DEFINE bodies == <<first, second>>
  <1>1. Len(bodies) = 2
    OBVIOUS
  <1> HIDE DEF bodies
  <1>2. 2 * fill <= op.seq + Len(bodies) /\ fill \in Nat \ {0}
    BY <1>1, TakerFacts
  <1>3. Continue(bodies, "match", fill)
    BY DEF bodies
  <1>4. QED
    BY <1>1, <1>2, <1>3, Continuing DEF EngineInv

(* A step that settles the state of the taker and leaves the books alone.  *)
LEMMA TakerSettles ==
  ASSUME EngineInv, op.phase = "match", NEW state \in OrderStates,
         orders' = [orders EXCEPT ![op.taker].state = state],
         UNCHANGED <<tracked, books>>
  PROVE  /\ OrdersInv' /\ TrackedInv' /\ BooksInv' /\ NeverCrossed'
         /\ DOMAIN orders' = DOMAIN orders
  <1> DEFINE o == orders[op.taker]
             new == [o EXCEPT !.state = state]
  <1>1. /\ new \in Order /\ new.side = o.side /\ new.order_type = o.order_type
        /\ new.price = o.price
    BY TakerFacts DEF Order
  <1>2. orders' = [orders EXCEPT ![op.taker] = new]
    BY TakerFacts DEF EngineInv, OrdersInv
  <1> HIDE DEF new
  <1>3. OrdersInv' /\ KeepsOrders /\ DOMAIN orders' = DOMAIN orders
    BY <1>1, <1>2, TakerFacts, OrderChange DEF EngineInv
  <1>4. BooksInv' /\ NeverCrossed'
    BY <1>3, UnchangedBooks, BooksFrame DEF EngineInv
  <1>5. TrackedInv'
    BY <1>3, TrackedFrame DEF EngineInv
  <1>6. QED
    BY <1>3, <1>4, <1>5

LEMMA SelfTradeKeeps ==
  ASSUME EngineInv, MatchSelfTrade
  PROVE  EngineInv'
  <1>1. /\ op.phase = "match"
        /\ orders' = [orders EXCEPT ![op.taker].state = "rejected"]
        /\ \E body : Continue(<<body>>, "finish", op.fill)
        /\ UNCHANGED <<tracked, books, journal, nextSeq, nextFill, lastAt>>
    BY DEF MatchSelfTrade, Sweeping
  <1>2. /\ OrdersInv' /\ TrackedInv' /\ BooksInv' /\ NeverCrossed'
        /\ DOMAIN orders' = DOMAIN orders
    BY <1>1, TakerSettles DEF OrderStates
  <1>3. CountersInv' /\ OperationInv'
    BY <1>1, <1>2, OneEventContinues
  <1>4. QED
    BY <1>2, <1>3 DEF EngineInv

LEMMA RunsDryKeeps ==
  ASSUME EngineInv, MatchRunsDry
  PROVE  EngineInv'
  <1>1. /\ op.phase = "match"
        /\ orders' = [orders EXCEPT ![op.taker].state = "rejected"]
        /\ \E body : Continue(<<body>>, "finish", op.fill)
        /\ UNCHANGED <<tracked, books, journal, nextSeq, nextFill, lastAt>>
    BY DEF MatchRunsDry, Sweeping
  <1>2. /\ OrdersInv' /\ TrackedInv' /\ BooksInv' /\ NeverCrossed'
        /\ DOMAIN orders' = DOMAIN orders
    BY <1>1, TakerSettles DEF OrderStates
  <1>3. CountersInv' /\ OperationInv'
    BY <1>1, <1>2, OneEventContinues
  <1>4. QED
    BY <1>2, <1>3 DEF EngineInv

LEMMA CompletesKeeps ==
  ASSUME EngineInv, MatchCompletes
  PROVE  EngineInv'
  <1>1. /\ op.phase = "match"
        /\ orders' = [orders EXCEPT ![op.taker].state = "filled"]
        /\ op' = [op EXCEPT !.phase = "finish"]
        /\ UNCHANGED <<tracked, books, journal, nextSeq, nextFill, lastAt>>
    BY DEF MatchCompletes
  <1>2. /\ OrdersInv' /\ TrackedInv' /\ BooksInv' /\ NeverCrossed'
        /\ DOMAIN orders' = DOMAIN orders
    BY <1>1, TakerSettles DEF OrderStates
  <1>3. /\ op'.phase = "finish" /\ op'.seq = op.seq /\ op'.fill = op.fill
        /\ op' = [f \in DOMAIN op' |-> op'[f]] /\ DOMAIN op' = DOMAIN op
    BY <1>1 DEF EngineInv, OperationInv
  <1>4. CountersInv' /\ OperationInv'
    BY <1>1, <1>3 DEF EngineInv, CountersInv, OperationInv, Phases
  <1>5. QED
    BY <1>2, <1>4 DEF EngineInv

(* The taker rests only where nothing opposite is matchable any more, so   *)
(* its price meets nobody.                                                 *)
LEMMA RestsKeeps ==
  ASSUME EngineInv, MatchRests
  PROVE  EngineInv'
  <1> DEFINE id == op.taker
             o == orders[id]
             i == o.instrument
             c == AddResting(books[i], id, o.side, o.price)
  <1>1. /\ op.phase = "match" /\ Matchable(o) = {} /\ o.order_type = "limit"
        /\ books' = [books EXCEPT ![i] = c]
        /\ \E body : Continue(<<body>>, "finish", op.fill)
        /\ UNCHANGED <<orders, tracked, journal, nextSeq, nextFill, lastAt>>
    BY DEF MatchRests, Sweeping
  <1>2. /\ id \in DOMAIN orders /\ id \in OrderIds /\ i \in Instruments
        /\ o.side \in Sides /\ o.price \in Prices /\ books[i] \in Book
    BY <1>1, TakerFacts DEF EngineInv, OrdersInv, Order
  <1>3. /\ c \in Book
        /\ c.resting = books[i].resting \cup {id}
        /\ Queued(c, o.side, o.price) = Queued(books[i], o.side, o.price) \cup {id}
        /\ \A s \in Sides, q \in Prices :
             <<s, q>> # <<o.side, o.price>> => Queued(c, s, q) = Queued(books[i], s, q)
    BY <1>2, AddGrows
  <1> HIDE DEF c
  <1>4. /\ books' \in [Instruments -> Book]
        /\ \A j \in Instruments : books'[j] = IF j = i THEN c ELSE books[j]
    BY <1>1, <1>2, <1>3, TakerFacts
  <1>5. BooksInv'
    <2>1. ASSUME NEW j \in Instruments, NEW x \in books'[j].resting
          PROVE  x \in DOMAIN orders /\ orders[x].order_type = "limit"
      BY <1>1, <1>2, <1>3, <1>4 DEF EngineInv, BooksInv
    <2>2. ASSUME NEW j \in Instruments, NEW s \in Sides, NEW q \in Prices,
                 NEW x \in Queued(books'[j], s, q)
          PROVE  x \in DOMAIN orders /\ orders[x].side = s
      BY <1>2, <1>3, <1>4 DEF EngineInv, BooksInv
    <2>3. QED
      BY <1>1, <1>4, <2>1, <2>2 DEF BooksInv
  <1>6. NeverCrossed'
    <2>1. \A s \in Sides : Live(c, s) \subseteq
            Live(books[i], s) \cup (IF s = o.side THEN {o.price} ELSE {})
      BY <1>2, <1>3, BookFacts
    <2>2. \A p \in Live(books[i], Opposite(o.side)) :
            ~AsGood(Opposite(o.side), p, o.price)
      BY <1>1 DEF Matchable, Crosses
    <2>3. ASSUME NEW bid \in Live(c, "buy"), NEW ask \in Live(c, "sell")
          PROVE  bid < ask
      <3>1. bid \in Nat /\ ask \in Nat /\ o.price \in Nat
        BY <1>2, <1>3, BookFacts, EventConstants DEF Sides
      <3>2. CASE o.side = "buy"
        <4>1. ask \in Live(books[i], "sell")
          BY <2>1, <3>2 DEF Sides
        <4>2. bid \in Live(books[i], "buy") \/ bid = o.price
          BY <2>1, <3>2 DEF Sides
        <4>3. o.price < ask
          BY <2>2, <3>1, <3>2, <4>1 DEF Opposite, AsGood
        <4>4. QED
          BY <1>2, <4>1, <4>2, <4>3 DEF EngineInv, NeverCrossed
      <3>3. CASE o.side = "sell"
        <4>1. bid \in Live(books[i], "buy")
          BY <2>1, <3>3 DEF Sides
        <4>2. ask \in Live(books[i], "sell") \/ ask = o.price
          BY <2>1, <3>3 DEF Sides
        <4>3. bid < o.price
          BY <2>2, <3>1, <3>3, <4>1 DEF Opposite, AsGood
        <4>4. QED
          BY <1>2, <4>1, <4>2, <4>3 DEF EngineInv, NeverCrossed
      <3>4. QED
        BY <1>2, <3>2, <3>3 DEF Sides
    <2>4. QED
      BY <1>4, <2>3 DEF EngineInv, NeverCrossed
  <1>7. CountersInv' /\ OperationInv'
    BY <1>1, OneEventContinues
  <1>8. OrdersInv' /\ TrackedInv'
    BY <1>1 DEF EngineInv, OrdersInv, TrackedInv
  <1>9. QED
    BY <1>5, <1>6, <1>7, <1>8 DEF EngineInv

(* The maker the sweep faces: the head of a live level of the other side,  *)
(* and so an accepted order that is not the taker.                         *)
LEMMA MakerFacts ==
  ASSUME EngineInv, op.phase = "match", NEW p \in Prices,
         Facing(orders[op.taker], p)
  PROVE  LET o == orders[op.taker]
             maker == MakerAt(o, p)
         IN  /\ p \in Live(books[o.instrument], Opposite(o.side))
             /\ maker \in DOMAIN orders \ {op.taker}
             /\ orders[maker] \in Order
  <1> DEFINE o == orders[op.taker]
             b == books[o.instrument]
             side == Opposite(o.side)
             queue == b.levels[side][p]
             maker == MakerAt(o, p)
  <1>1. /\ o.instrument \in Instruments /\ o.side \in Sides
        /\ side \in Sides /\ side # o.side /\ b \in Book
    BY TakerFacts DEF Order, Sides, Opposite
  <1>2. p \in Live(b, side)
    BY DEF Facing, Matchable
  <1>3. queue \in Seq(OrderIds) /\ queue # << >>
    BY <1>1, <1>2, BookFacts DEF Live
  <1>4. Head(queue) \in Queued(b, side, p)
    BY <1>3, TailFacts DEF Queued
  <1>5. maker = Head(queue)
    BY DEF MakerAt, HeadOf
  <1> HIDE DEF queue, maker
  <1>6. maker \in DOMAIN orders /\ orders[maker].side = side
    BY <1>1, <1>4, <1>5 DEF EngineInv, BooksInv
  <1>7. QED
    BY <1>1, <1>2, <1>6 DEF EngineInv, OrdersInv, maker

LEMMA FillKeeps ==
  ASSUME EngineInv, MatchFill
  PROVE  EngineInv'
  <1> DEFINE taker == op.taker
             o == orders[taker]
  <1>1. op.phase = "match" /\ o.remaining > 0
    BY DEF MatchFill, Sweeping
  <1>2. PICK p \in Prices :
          LET maker  == MakerAt(o, p)
              units  == Lesser(o.remaining, orders[maker].remaining)
              moved  == [orders EXCEPT ![maker].remaining = @ - units,
                                       ![taker].remaining = @ - units]
              bodies ==
                << FillBody(maker, moved[maker], maker, taker, op.fill, p, units),
                   FillBody(taker, moved[taker], maker, taker, op.fill, p, units) >>
              gone   == ~Exhausted(bodies) /\ moved[maker].remaining = 0
          IN  /\ Facing(o, p)
              /\ Continue(bodies, "match", op.fill + 1)
              /\ orders' = IF gone THEN [moved EXCEPT ![maker].state = "filled"]
                           ELSE moved
              /\ books' = IF gone
                          THEN [books EXCEPT ![o.instrument] =
                                  ShiftBest(@, Opposite(o.side), p)]
                          ELSE books
    BY DEF MatchFill
  <1> DEFINE maker  == MakerAt(o, p)
             units  == Lesser(o.remaining, orders[maker].remaining)
             moved  == [orders EXCEPT ![maker].remaining = @ - units,
                                      ![taker].remaining = @ - units]
             first  == FillBody(maker, moved[maker], maker, taker, op.fill, p, units)
             second == FillBody(taker, moved[taker], maker, taker, op.fill, p, units)
             gone   == ~Exhausted(<<first, second>>) /\ moved[maker].remaining = 0
  <1>3. /\ Facing(o, p)
        /\ Continue(<<first, second>>, "match", op.fill + 1)
        /\ orders' = IF gone THEN [moved EXCEPT ![maker].state = "filled"] ELSE moved
        /\ books' = IF gone
                    THEN [books EXCEPT ![o.instrument] =
                            ShiftBest(books[o.instrument], Opposite(o.side), p)]
                    ELSE books
    BY <1>2
  <1>4. /\ UNCHANGED <<tracked, journal, nextSeq, nextFill, lastAt>>
    BY DEF MatchFill
  <1>5. /\ p \in Live(books[o.instrument], Opposite(o.side))
        /\ maker \in DOMAIN orders /\ maker # taker
        /\ orders[maker] \in Order /\ o \in Order /\ taker \in DOMAIN orders
    BY <1>1, <1>3, MakerFacts, TakerFacts
  <1> HIDE DEF maker, first, second, gone
  <1>6. /\ units \in Nat
        /\ o.remaining - units \in Nat /\ orders[maker].remaining - units \in Nat
    BY <1>5 DEF Lesser, Order
  <1> DEFINE makerLeft == [orders[maker] EXCEPT !.remaining = orders[maker].remaining - units]
             takerLeft == [o EXCEPT !.remaining = o.remaining - units]
  <1>7. /\ makerLeft \in Order /\ takerLeft \in Order
        /\ makerLeft.side = orders[maker].side /\ takerLeft.side = o.side
        /\ makerLeft.order_type = orders[maker].order_type
        /\ takerLeft.order_type = o.order_type
        /\ makerLeft.price = orders[maker].price /\ takerLeft.price = o.price
    BY <1>5, <1>6 DEF Order
  <1>8. /\ DOMAIN moved = DOMAIN orders
        /\ moved[maker] = makerLeft /\ moved[taker] = takerLeft
        /\ \A x \in DOMAIN orders \ {maker, taker} : moved[x] = orders[x]
        /\ moved = [x \in DOMAIN moved |-> moved[x]]
    BY <1>5 DEF EngineInv, OrdersInv
  <1> HIDE DEF units, moved, makerLeft, takerLeft
  <1>9. /\ DOMAIN orders' = DOMAIN orders
        /\ orders'[maker] \in {makerLeft, [makerLeft EXCEPT !.state = "filled"]}
        /\ orders'[taker] = takerLeft
        /\ \A x \in DOMAIN orders \ {maker, taker} : orders'[x] = orders[x]
        /\ orders' = [x \in DOMAIN orders' |-> orders'[x]]
    BY <1>3, <1>5, <1>8
  <1>10. /\ [makerLeft EXCEPT !.state = "filled"] \in Order
         /\ [makerLeft EXCEPT !.state = "filled"].side = makerLeft.side
         /\ [makerLeft EXCEPT !.state = "filled"].order_type = makerLeft.order_type
         /\ [makerLeft EXCEPT !.state = "filled"].price = makerLeft.price
    BY <1>7 DEF Order, OrderStates
  <1>11. \A x \in DOMAIN orders :
           /\ orders'[x] \in Order /\ orders'[x].side = orders[x].side
           /\ orders'[x].order_type = orders[x].order_type
           /\ orders'[x].price = orders[x].price
    BY <1>7, <1>9, <1>10 DEF EngineInv, OrdersInv
  <1>12. OrdersInv' /\ KeepsOrders
    BY <1>9, <1>11 DEF EngineInv, OrdersInv, KeepsOrders
  <1>13. KeepsBooks
    <2> DEFINE i == o.instrument
               c == ShiftBest(books[i], Opposite(o.side), p)
    <2>1. i \in Instruments /\ Opposite(o.side) \in Sides /\ books[i] \in Book
      BY <1>1, <1>5, TakerFacts DEF Order, Opposite, Sides
    <2>2. NoLarger(books[i], c)
      BY <1>5, <2>1, ShiftShrinks
    <2> HIDE DEF c
    <2>3. CASE gone
      <3>1. books' = [books EXCEPT ![i] = c]
        BY <1>3, <2>3 DEF c
      <3>2. /\ books' \in [Instruments -> Book]
            /\ \A j \in Instruments : books'[j] = IF j = i THEN c ELSE books[j]
        BY <1>1, <2>1, <2>2, <3>1, TakerFacts DEF NoLarger
      <3>3. \A j \in Instruments : NoLarger(books[j], books'[j])
        BY <1>1, <2>2, <3>2, TakerFacts DEF NoLarger
      <3>4. QED
        BY <3>2, <3>3 DEF KeepsBooks
    <2>4. CASE ~gone
      BY <1>3, <2>4, UnchangedBooks DEF EngineInv
    <2>5. QED
      BY <2>3, <2>4
  <1>14. BooksInv' /\ NeverCrossed'
    BY <1>12, <1>13, BooksFrame DEF EngineInv
  <1>15. TrackedInv'
    BY <1>4, <1>9, TrackedFrame DEF EngineInv
  <1>16. CountersInv' /\ OperationInv'
    <2> DEFINE fill == op.fill + 1
    <2>1. fill = op.fill + 1 /\ Continue(<<first, second>>, "match", fill)
      BY <1>3
    <2> HIDE DEF fill
    <2>2. DOMAIN orders' = DOMAIN orders /\ UNCHANGED <<nextSeq, nextFill, lastAt>>
      BY <1>4, <1>9
    <2>3. QED
      BY ONLY EngineInv, <1>1, <2>1, <2>2, TwoEventsContinue
  <1>17. QED
    BY <1>12, <1>14, <1>15, <1>16 DEF EngineInv

LEMMA MatchKeeps ==
  ASSUME EngineInv, MatchTaker
  PROVE  EngineInv'
  BY SelfTradeKeeps, FillKeeps, RestsKeeps, RunsDryKeeps, CompletesKeeps
  DEF MatchTaker

-----------------------------------------------------------------------------
(* Closing an operation, and the whole next-state relation.                *)

LEMMA CommitKeeps ==
  ASSUME EngineInv, Commit
  PROVE  EngineInv'
  <1>1. /\ op.phase = "finish" /\ op' = Idle
        /\ nextSeq' = op.seq /\ nextFill' = op.fill
        /\ UNCHANGED <<orders, tracked, books, lastAt>>
    BY DEF Commit
  <1>2. /\ op.seq \in 1 .. MaxSafe /\ op.fill \in Nat \ {0}
        /\ 2 * op.fill <= op.seq /\ lastAt \in Times \cup {-1}
    BY <1>1 DEF EngineInv, CountersInv
  <1>3. CountersInv'
    <2>1. op'.phase = "idle"
      BY <1>1 DEF Idle
    <2>2. 2 * op.fill <= op.seq + 1
      BY <1>2
    <2>3. QED
      BY <1>1, <1>2, <2>1, <2>2 DEF CountersInv
  <1>4. OperationInv'
    BY <1>1 DEF OperationInv, Idle, Phases
  <1>5. OrdersInv' /\ TrackedInv' /\ BooksInv' /\ NeverCrossed'
    BY <1>1 DEF EngineInv, OrdersInv, TrackedInv, BooksInv, NeverCrossed
  <1>6. QED
    BY <1>3, <1>4, <1>5 DEF EngineInv

LEMMA EngineInvNext ==
  ASSUME EngineInv, [Next]_vars
  PROVE  EngineInv'
  <1>1. ASSUME NEW now \in Times, NEW o \in Submissions, SubmitOrder(o, now)
        PROVE  EngineInv'
    <2>1. CASE SubmitRejected(o, now)
      BY <2>1, RejectedKeeps DEF SubmitRejected
    <2>2. CASE SubmitAccepted(o, now)
      BY <2>2, SubmitKeeps
    <2>3. QED
      BY <1>1, <2>1, <2>2 DEF SubmitOrder
  <1>2. ASSUME NEW now \in Times, NEW c \in Cancellations, CancelOrder(c, now)
        PROVE  EngineInv'
    <2>1. CASE CancelRejected(c, now)
      BY <2>1, RejectedKeeps DEF CancelRejected
    <2>2. CASE CancelAccepted(c, now)
      BY <2>2, CancelKeeps
    <2>3. QED
      BY <1>2, <2>1, <2>2 DEF CancelOrder
  <1>3. ASSUME NEW now \in Times, NEW a \in Amendments, AmendOrder(a, now)
        PROVE  EngineInv'
    <2>1. CASE AmendRejected(a, now)
      <3>1. BeginOperation(now)
        BY <2>1 DEF AmendRejected
      <3>2. \E id, instrument, side, reason :
              RejectWith(now, id, instrument, side, reason)
        BY <2>1 DEF AmendRejected
      <3>3. QED
        BY <3>1, <3>2, RejectedKeeps
    <2>2. CASE AmendInPlace(a, now)
      BY <2>2, AmendInPlaceKeeps
    <2>3. CASE AmendRequeued(a, now)
      BY <2>3, AmendRequeuedKeeps
    <2>4. QED
      BY <1>3, <2>1, <2>2, <2>3 DEF AmendOrder
  <1>4. CASE UNCHANGED vars
    BY <1>4 DEF vars, EngineInv, OrdersInv, TrackedInv, BooksInv, CountersInv,
                OperationInv, NeverCrossed
  <1>5. QED
    BY <1>1, <1>2, <1>3, <1>4, MatchKeeps, CommitKeeps DEF Next, Call

LEMMA EngineInvAlways == Spec => []EngineInv
  BY EngineInvInit, EngineInvNext, PTL DEF Spec

-----------------------------------------------------------------------------
(* What follows for every set of orders, prices, instruments and inputs.   *)

LEMMA EngineInvIsTyped == EngineInv => TypeOK
  <1> SUFFICES ASSUME EngineInv PROVE TypeOK
    OBVIOUS
  <1>1. nextSeq \in 1 .. MaxSafe /\ nextFill \in 1 .. MaxSafe
    BY EventConstants DEF EngineInv, CountersInv
  <1>2. \A i \in Instruments : books[i].resting \subseteq DOMAIN orders
    BY DEF EngineInv, BooksInv
  <1>3. QED
    BY <1>1, <1>2
    DEF EngineInv, OrdersInv, TrackedInv, BooksInv, CountersInv, OperationInv, TypeOK

(* The maps of createMatchingEngine only ever name accepted orders, books  *)
(* are well formed, and the two counters never leave the safe-integer      *)
(* range (the limit tests of beginOperation and stamp are enough).         *)
THEOREM EngineTypeCorrect == Spec => []TypeOK
  BY EngineInvAlways, EngineInvIsTyped, PTL

(* The book is never crossed: matchTaker rests a remainder only where no   *)
(* opposite level is matchable, and nothing else adds to a book.           *)
THEOREM BookNeverCrosses == Spec => []NeverCrossed
  <1>1. EngineInv => NeverCrossed
    BY DEF EngineInv
  <1>2. QED
    BY <1>1, EngineInvAlways, PTL

(* The limit test on fill ids in matchTaker never stops a sweep: an        *)
(* execution takes one fill id and two sequence numbers, so the sequence   *)
(* numbers run out first.                                                  *)
THEOREM FillIdsTrailEvents == Spec => []FillsTrailEvents
  <1>1. EngineInv => FillsTrailEvents
    BY DEF EngineInv, CountersInv, FillsTrailEvents
  <1>2. QED
    BY <1>1, EngineInvAlways, PTL

-----------------------------------------------------------------------------
(* The queues hold the resting orders.  The strengthening: as long as no   *)
(* counter ran out in the middle of a sweep, the resting map of a book is  *)
(* the set of its instrument's resting orders but for the taker of the     *)
(* open operation, and the queue of a level is the set of those with its   *)
(* side and price, none of them twice.                                     *)

Distinct(b) == \A side \in Sides, p \in Prices : Unrepeated(b.levels[side][p])

Waits(id) ==
  orders[id].state = "resting" /\ ~(op.phase = "match" /\ op.taker = id)

Holds(i) == {id \in DOMAIN orders : orders[id].instrument = i /\ Waits(id)}

QueuesHoldResting ==
  /\ \A i \in Instruments :
       /\ Distinct(books[i])
       /\ books[i].resting = Holds(i)
       /\ \A side \in Sides, p \in Prices :
            Queued(books[i], side, p) =
              {id \in Holds(i) : orders[id].side = side /\ orders[id].price = p}
  /\ \A id \in DOMAIN orders : Waits(id) => orders[id].remaining > 0
  /\ op.phase = "match" => orders[op.taker].state = "resting"

QueueInv == op.phase # "wedged" => QueuesHoldResting

(* c is b less one order of one of its levels.                             *)
Loses(b, c, id, side, p) ==
  /\ c.resting = b.resting \ {id}
  /\ Queued(c, side, p) = Queued(b, side, p) \ {id}
  /\ \A s \in Sides, q \in Prices :
       <<s, q>> # <<side, p>> => Queued(c, s, q) = Queued(b, s, q)
  /\ Distinct(c)

LEMMA LevelDistinct ==
  ASSUME NEW b \in Book, NEW side \in Sides, NEW p \in Prices,
         NEW queue, NEW resting, Distinct(b), Unrepeated(queue)
  PROVE  Distinct([levels  |-> [b.levels EXCEPT ![side][p] = queue],
                   resting |-> resting])
  <1> DEFINE levels == [b.levels EXCEPT ![side][p] = queue]
             c == [levels |-> levels, resting |-> resting]
  <1>1. b.levels \in [Sides -> [Prices -> Seq(OrderIds)]]
    BY BookFacts
  <1>2. levels[side][p] = queue
    BY <1>1
  <1>3. \A s \in Sides, q \in Prices :
          <<s, q>> # <<side, p>> => levels[s][q] = b.levels[s][q]
    BY <1>1
  <1> HIDE DEF levels
  <1>4. c.levels = levels
    OBVIOUS
  <1> HIDE DEF c
  <1>5. Distinct(c)
    BY <1>2, <1>3, <1>4 DEF Distinct
  <1>6. QED
    BY <1>5 DEF c, levels

LEMMA RemoveLoses ==
  ASSUME NEW b \in Book, Distinct(b), NEW side \in Sides, NEW p \in Prices,
         NEW id \in Queued(b, side, p)
  PROVE  Loses(b, RemoveResting(b, id, side, p), id, side, p)
  <1> DEFINE queue == b.levels[side][p]
             rest == Without(queue, id)
             left == b.resting \ {id}
  <1>1. queue \in Seq(OrderIds) /\ id \in Range(queue) /\ Unrepeated(queue)
    BY BookFacts DEF Queued, Distinct
  <1>2. /\ rest \in Seq(OrderIds) /\ Unrepeated(rest)
        /\ Range(rest) = Range(queue) \ {id}
    <2>1. /\ rest \in Seq(OrderIds)
          /\ Range(rest) \subseteq Range(queue)
          /\ Range(queue) \subseteq Range(rest) \cup {id}
          /\ Unrepeated(rest) /\ id \notin Range(rest)
      BY <1>1, WithoutFacts
    <2>2. QED
      BY <2>1
  <1>3. \E k \in DOMAIN queue : queue[k] = id
    BY <1>1 DEF Range
  <1>4. RemoveResting(b, id, side, p)
          = [levels |-> [b.levels EXCEPT ![side][p] = rest], resting |-> left]
    BY <1>3 DEF RemoveResting
  <1>5. left \in SUBSET OrderIds
    BY BookFacts
  <1> HIDE DEF rest, left
  <1>6. Distinct(RemoveResting(b, id, side, p))
    BY <1>2, <1>4, LevelDistinct
  <1>7. QED
    BY <1>2, <1>4, <1>5, <1>6, LevelChange DEF Loses, Queued, left

LEMMA ShiftLoses ==
  ASSUME NEW b \in Book, Distinct(b), NEW side \in Sides, NEW p \in Live(b, side)
  PROVE  Loses(b, ShiftBest(b, side, p), HeadOf(b, side, p), side, p)
  <1> DEFINE queue == b.levels[side][p]
             rest == Tail(queue)
             id == HeadOf(b, side, p)
             left == b.resting \ {id}
  <1>1. /\ p \in Prices /\ queue \in Seq(OrderIds) /\ queue # << >>
        /\ Unrepeated(queue)
    BY BookFacts DEF Live, Distinct
  <1>2. /\ rest \in Seq(OrderIds) /\ Unrepeated(rest)
        /\ Range(rest) = Range(queue) \ {Head(queue)}
    BY <1>1, TailFacts, TailUnrepeated
  <1>3. id = Head(queue)
    BY DEF HeadOf
  <1>4. ShiftBest(b, side, p)
          = [levels |-> [b.levels EXCEPT ![side][p] = rest], resting |-> left]
    BY DEF ShiftBest
  <1>5. left \in SUBSET OrderIds
    BY BookFacts
  <1> HIDE DEF rest, left, id
  <1>6. Distinct(ShiftBest(b, side, p))
    BY <1>1, <1>2, <1>4, LevelDistinct
  <1>7. Loses(b, ShiftBest(b, side, p), id, side, p)
    BY <1>1, <1>2, <1>3, <1>4, <1>5, <1>6, LevelChange DEF Loses, Queued, left
  <1>8. QED
    BY <1>7 DEF id

LEMMA AddDistinct ==
  ASSUME NEW b \in Book, Distinct(b), NEW id \in OrderIds, NEW side \in Sides,
         NEW p \in Prices, id \notin Queued(b, side, p)
  PROVE  Distinct(AddResting(b, id, side, p))
  <1> DEFINE queue == b.levels[side][p]
             grown == Append(queue, id)
             kept == b.resting \cup {id}
  <1>1. queue \in Seq(OrderIds) /\ Unrepeated(queue) /\ id \notin Range(queue)
    BY BookFacts DEF Queued, Distinct
  <1>2. Unrepeated(grown)
    BY <1>1, AppendUnrepeated
  <1>3. AddResting(b, id, side, p)
          = [levels |-> [b.levels EXCEPT ![side][p] = grown], resting |-> kept]
    BY DEF AddResting
  <1> HIDE DEF grown, kept
  <1>4. QED
    BY <1>2, <1>3, LevelDistinct

(* The order x goes on waiting in its place.                               *)
StillWaits(x) ==
  /\ x \in DOMAIN orders' /\ Waits(x)'
  /\ orders'[x].instrument = orders[x].instrument
  /\ orders'[x].side = orders[x].side /\ orders'[x].price = orders[x].price
  /\ orders'[x].remaining > 0

LEMMA SameQueues ==
  ASSUME QueuesHoldResting, books' = books,
         \A x \in DOMAIN orders : Waits(x) => StillWaits(x),
         \A x \in DOMAIN orders' : Waits(x)' => x \in DOMAIN orders /\ Waits(x),
         op'.phase = "match" => orders'[op'.taker].state = "resting"
  PROVE  QueuesHoldResting'
  <1>1. \A i \in Instruments : Holds(i)' = Holds(i)
    BY DEF Holds, StillWaits
  <1>2. \A i \in Instruments : \A x : x \in Holds(i) =>
          orders'[x].side = orders[x].side /\ orders'[x].price = orders[x].price
    BY DEF Holds, StillWaits
  <1>3. \A x \in DOMAIN orders' : Waits(x)' => orders'[x].remaining > 0
    BY DEF StillWaits
  <1>4. ASSUME NEW i \in Instruments
        PROVE  /\ Distinct(books'[i]) /\ books'[i].resting = Holds(i)'
               /\ \A side \in Sides, p \in Prices :
                    Queued(books'[i], side, p) =
                      {id \in Holds(i)' : orders'[id].side = side /\ orders'[id].price = p}
    <2>1. /\ Distinct(books[i]) /\ books[i].resting = Holds(i)
          /\ \A side \in Sides, p \in Prices :
               Queued(books[i], side, p) =
                 {id \in Holds(i) : orders[id].side = side /\ orders[id].price = p}
      BY DEF QueuesHoldResting
    <2>2. QED
      BY <1>1, <1>2, <2>1
  <1>5. QED
    BY <1>3, <1>4 DEF QueuesHoldResting

LEMMA OneLeavesQueues ==
  ASSUME QueuesHoldResting, books \in [Instruments -> Book],
         NEW id \in DOMAIN orders, Waits(id),
         NEW i \in Instruments, i = orders[id].instrument, NEW c,
         books' = [books EXCEPT ![i] = c],
         Loses(books[i], c, id, orders[id].side, orders[id].price),
         \A x \in DOMAIN orders \ {id} : Waits(x) => StillWaits(x),
         \A x \in DOMAIN orders' : Waits(x)' => x \in DOMAIN orders \ {id} /\ Waits(x),
         op'.phase = "match" => orders'[op'.taker].state = "resting"
  PROVE  QueuesHoldResting'
  <1>1. \A j \in Instruments : Holds(j)' = Holds(j) \ {id}
    BY DEF Holds, StillWaits
  <1>2. \A j \in Instruments : \A x : x \in Holds(j) \ {id} =>
          orders'[x].side = orders[x].side /\ orders'[x].price = orders[x].price
    BY DEF Holds, StillWaits
  <1>3. \A x \in DOMAIN orders' : Waits(x)' => orders'[x].remaining > 0
    BY DEF StillWaits
  <1>4. ASSUME NEW j \in Instruments
        PROVE  /\ Distinct(books'[j]) /\ books'[j].resting = Holds(j)'
               /\ \A side \in Sides, p \in Prices :
                    Queued(books'[j], side, p) =
                      {x \in Holds(j)' : orders'[x].side = side /\ orders'[x].price = p}
    <2>1. /\ Distinct(books[j]) /\ books[j].resting = Holds(j)
          /\ \A side \in Sides, p \in Prices :
               Queued(books[j], side, p) =
                 {x \in Holds(j) : orders[x].side = side /\ orders[x].price = p}
      BY DEF QueuesHoldResting
    <2>2. CASE j = i
      <3>1. books'[j] = c
        BY <2>2
      <3>2. ASSUME NEW side \in Sides, NEW p \in Prices
            PROVE  Queued(c, side, p) =
                     {x \in Holds(j)' : orders'[x].side = side /\ orders'[x].price = p}
        <4>1. Queued(c, side, p) = Queued(books[i], side, p) \ {id}
          <5>1. CASE <<side, p>> = <<orders[id].side, orders[id].price>>
            BY <5>1 DEF Loses
          <5>2. CASE <<side, p>> # <<orders[id].side, orders[id].price>>
            <6>1. Queued(c, side, p) = Queued(books[i], side, p)
              BY <5>2 DEF Loses
            <6>2. id \notin Queued(books[i], side, p)
              BY <2>1, <2>2, <5>2
            <6>3. QED
              BY <6>1, <6>2
          <5>3. QED
            BY <5>1, <5>2
        <4>2. QED
          BY <1>1, <1>2, <2>1, <2>2, <4>1
      <3>3. Distinct(c) /\ c.resting = Holds(j)'
        BY <1>1, <2>1, <2>2 DEF Loses
      <3>4. QED
        BY <3>1, <3>2, <3>3
    <2>3. CASE j # i
      <3>1. books'[j] = books[j]
        BY <2>3
      <3>2. id \notin Holds(j)
        BY <2>3 DEF Holds
      <3>3. Holds(j)' = Holds(j)
        BY <1>1, <3>2
      <3>4. QED
        BY <1>2, <2>1, <3>1, <3>2, <3>3
    <2>4. QED
      BY <2>2, <2>3
  <1>5. QED
    BY <1>3, <1>4 DEF QueuesHoldResting

(* An order that waits stands in the queue of its side and price.          *)
LEMMA WaitingIsQueued ==
  ASSUME EngineInv, QueuesHoldResting, NEW id \in DOMAIN orders, Waits(id)
  PROVE  LET o == orders[id]
         IN  /\ o.instrument \in Instruments /\ o.side \in Sides /\ o.price \in Prices
             /\ id \in books[o.instrument].resting
             /\ id \in Queued(books[o.instrument], o.side, o.price)
             /\ books[o.instrument] \in Book /\ Distinct(books[o.instrument])
             /\ o.remaining > 0
  <1>1. orders[id] \in Order /\ books \in [Instruments -> Book]
    BY DEF EngineInv, OrdersInv, BooksInv
  <1>2. orders[id].instrument \in Instruments /\ orders[id].side \in Sides
    BY <1>1 DEF Order
  <1>3. id \in Holds(orders[id].instrument)
    BY DEF Holds
  <1>4. id \in books[orders[id].instrument].resting
    BY <1>2, <1>3 DEF QueuesHoldResting
  <1>5. orders[id].price \in Prices
    BY <1>2, <1>4 DEF EngineInv, BooksInv, OrdersInv
  <1>6. QED
    BY <1>1, <1>2, <1>3, <1>4, <1>5 DEF QueuesHoldResting

LEMMA RemovalLoses ==
  ASSUME EngineInv, QueuesHoldResting, NEW id \in DOMAIN orders, Waits(id),
         RemoveFromBook(id)
  PROVE  \E c : /\ books' = [books EXCEPT ![orders[id].instrument] = c]
                /\ Loses(books[orders[id].instrument], c, id, orders[id].side,
                         orders[id].price)
  BY WaitingIsQueued, RemoveLoses DEF RemoveFromBook

(* Nothing about the orders or books changes, and no sweep is open after.  *)
LEMMA QuietQueues ==
  ASSUME QueuesHoldResting, orders' = orders, books' = books,
         op.phase # "match", op'.phase # "match"
  PROVE  QueuesHoldResting'
  <1>1. \A x \in DOMAIN orders : Waits(x)' <=> Waits(x)
    BY DEF Waits
  <1>2. \A x \in DOMAIN orders : Waits(x) => StillWaits(x)
    BY <1>1 DEF StillWaits, QueuesHoldResting
  <1>3. QED
    BY <1>1, <1>2, SameQueues

LEMMA RejectedQueues ==
  ASSUME QueueInv, NEW now, BeginOperation(now), NEW id, NEW instrument,
         NEW side, NEW reason, RejectWith(now, id, instrument, side, reason)
  PROVE  QueueInv'
  <1>1. /\ op.phase = "idle" /\ op'.phase = "finish"
        /\ orders' = orders /\ books' = books
    BY DEF BeginOperation, RejectWith, OpenWith
  <1>2. QED
    BY <1>1, QuietQueues DEF QueueInv

LEMMA SubmitQueues ==
  ASSUME EngineInv, QueueInv, NEW now \in Times, NEW o \in Submissions,
         SubmitAccepted(o, now)
  PROVE  QueueInv'
  <1> DEFINE id == o.order_id
             new == [instrument |-> o.instrument, side |-> o.side,
                     order_type |-> o.type, owner |-> o.owner,
                     price |-> o.price, quantity |-> o.quantity,
                     remaining |-> o.quantity, state |-> "resting"]
  <1>1. /\ op.phase = "idle" /\ op'.phase = "match" /\ op'.taker = id
        /\ orders' = Put(orders, id, new) /\ books' = books
        /\ Passes(SubmitChecks(o))
    BY DEF SubmitAccepted, BeginOperation, OpenWith
  <1>2. id \in OrderIds \ DOMAIN orders
    BY <1>1, SubmitPasses
  <1>3. /\ DOMAIN orders' = DOMAIN orders \cup {id}
        /\ orders'[id].state = "resting"
        /\ \A x \in DOMAIN orders : orders'[x] = orders[x]
    BY <1>1, <1>2 DEF Put
  <1> HIDE DEF id
  <1>4. QueuesHoldResting
    BY <1>1 DEF QueueInv
  <1>5. \A x \in DOMAIN orders : Waits(x)' <=> Waits(x)
    BY <1>1, <1>2, <1>3 DEF Waits
  <1>6. ~Waits(id)'
    BY <1>1 DEF Waits
  <1>7. \A x \in DOMAIN orders : Waits(x) => StillWaits(x)
    BY <1>3, <1>4, <1>5 DEF StillWaits, QueuesHoldResting
  <1>8. \A x \in DOMAIN orders' : Waits(x)' => x \in DOMAIN orders /\ Waits(x)
    BY <1>3, <1>5, <1>6
  <1>9. QueuesHoldResting'
    BY <1>1, <1>3, <1>4, <1>7, <1>8, SameQueues
  <1>10. QED
    BY <1>9 DEF QueueInv

LEMMA CancelQueues ==
  ASSUME EngineInv, QueueInv, NEW now \in Times, NEW c \in Cancellations,
         CancelAccepted(c, now)
  PROVE  QueueInv' /\ Waits(c.order_id) /\ c.order_id \in DOMAIN orders
  <1> DEFINE id == c.order_id
  <1>1. /\ op.phase = "idle" /\ op'.phase = "finish"
        /\ RemoveFromBook(id) /\ Passes(CancelChecks(c))
        /\ orders' = [orders EXCEPT ![id].state = "cancelled", ![id].remaining = 0]
    BY DEF CancelAccepted, BeginOperation, OpenWith
  <1>2. QueuesHoldResting
    BY <1>1 DEF QueueInv
  <1>3. /\ id \in DOMAIN orders /\ Waits(id)
        /\ orders[id].instrument \in Instruments /\ orders[id] \in Order
    <2>1. c.instrument \in Instruments /\ id \in books[c.instrument].resting
      BY <1>1, CancelPasses
    <2>2. id \in Holds(c.instrument)
      BY <1>2, <2>1 DEF QueuesHoldResting
    <2>3. QED
      BY <2>1, <2>2 DEF Holds, EngineInv, OrdersInv
  <1>4. /\ DOMAIN orders' = DOMAIN orders /\ orders'[id].state = "cancelled"
        /\ \A x \in DOMAIN orders \ {id} : orders'[x] = orders[x]
    BY <1>1, <1>3 DEF Order
  <1> HIDE DEF id
  <1>5. PICK b : /\ books' = [books EXCEPT ![orders[id].instrument] = b]
                 /\ Loses(books[orders[id].instrument], b, id, orders[id].side,
                          orders[id].price)
    BY <1>1, <1>2, <1>3, RemovalLoses
  <1>6. \A x \in DOMAIN orders \ {id} : Waits(x)' <=> Waits(x)
    BY <1>1, <1>4 DEF Waits
  <1>7. ~Waits(id)'
    BY <1>4 DEF Waits
  <1>8. \A x \in DOMAIN orders \ {id} : Waits(x) => StillWaits(x)
    BY <1>2, <1>4, <1>6 DEF StillWaits, QueuesHoldResting
  <1>9. \A x \in DOMAIN orders' : Waits(x)' => x \in DOMAIN orders \ {id} /\ Waits(x)
    BY <1>4, <1>6, <1>7
  <1>10. books \in [Instruments -> Book]
    BY DEF EngineInv, BooksInv
  <1>11. QueuesHoldResting'
    BY <1>1, <1>2, <1>3, <1>5, <1>8, <1>9, <1>10, OneLeavesQueues
  <1>12. QED
    BY <1>3, <1>11 DEF QueueInv, id

(* What an accepted amendment finds and leaves.                            *)
LEMMA AmendedWaits ==
  ASSUME EngineInv, QueuesHoldResting, op.phase = "idle", NEW a \in Amendments,
         Passes(AmendChecks(a)), orders' = Amended(a)
  PROVE  LET id == a.order_id
         IN  /\ id \in DOMAIN orders /\ Waits(id)
             /\ orders[id].instrument \in Instruments
             /\ DOMAIN orders' = DOMAIN orders
             /\ orders'[id].state = "resting"
             /\ orders'[id].instrument = orders[id].instrument
             /\ orders'[id].side = orders[id].side
             /\ orders'[id].price = NewPrice(a)
             /\ orders'[id].remaining > 0
             /\ \A x \in DOMAIN orders \ {id} : orders'[x] = orders[x]
  <1> DEFINE id == a.order_id
             total == NewTotal(a)
             done == Executed(id)
  <1>1. /\ id \in DOMAIN orders /\ orders[id].state = "resting"
        /\ a.quantity \in (Nat \ {0}) \cup {Null} /\ ~(total <= done)
    BY AmendPasses DEF IsResting
  <1>2. orders[id] \in Order
    BY <1>1 DEF EngineInv, OrdersInv
  <1>3. total \in Int /\ done \in Int
    BY <1>1, <1>2 DEF NewTotal, Executed, Order
  <1>4. orders' = [orders EXCEPT ![id].price = NewPrice(a), ![id].quantity = total,
                                 ![id].remaining = total - done]
    BY DEF Amended
  <1> HIDE DEF total, done
  <1>5. /\ DOMAIN orders' = DOMAIN orders
        /\ orders'[id] = [orders[id] EXCEPT !.price = NewPrice(a), !.quantity = total,
                                            !.remaining = total - done]
        /\ \A x \in DOMAIN orders \ {id} : orders'[x] = orders[x]
    BY <1>1, <1>4
  <1>6. /\ orders'[id].state = "resting" /\ orders'[id].remaining = total - done
        /\ orders'[id].instrument = orders[id].instrument
        /\ orders'[id].side = orders[id].side /\ orders'[id].price = NewPrice(a)
    BY <1>1, <1>2, <1>5 DEF Order
  <1>7. orders'[id].remaining > 0
    BY <1>1, <1>3, <1>6
  <1>8. QED
    BY <1>1, <1>2, <1>5, <1>6, <1>7 DEF Waits, Order

LEMMA AmendInPlaceQueues ==
  ASSUME EngineInv, QueueInv, NEW now \in Times, NEW a \in Amendments,
         AmendInPlace(a, now)
  PROVE  QueueInv'
  <1> DEFINE id == a.order_id
  <1>1. /\ op.phase = "idle" /\ op'.phase = "finish" /\ books' = books
        /\ Passes(AmendChecks(a)) /\ orders' = Amended(a)
        /\ NewPrice(a) = orders[id].price
    BY DEF AmendInPlace, BeginOperation, OpenWith, KeepsPriority
  <1>2. QueuesHoldResting
    BY <1>1 DEF QueueInv
  <1>3. /\ id \in DOMAIN orders /\ Waits(id) /\ DOMAIN orders' = DOMAIN orders
        /\ orders'[id].state = "resting"
        /\ orders'[id].instrument = orders[id].instrument
        /\ orders'[id].side = orders[id].side
        /\ orders'[id].price = orders[id].price
        /\ orders'[id].remaining > 0
        /\ \A x \in DOMAIN orders \ {id} : orders'[x] = orders[x]
    BY <1>1, <1>2, AmendedWaits
  <1> HIDE DEF id
  <1>4. \A x \in DOMAIN orders : Waits(x)' <=> Waits(x)
    BY <1>1, <1>3 DEF Waits
  <1>5. \A x \in DOMAIN orders : Waits(x) => StillWaits(x)
    BY <1>2, <1>3, <1>4 DEF StillWaits, QueuesHoldResting
  <1>6. QueuesHoldResting'
    BY <1>1, <1>2, <1>3, <1>4, <1>5, SameQueues
  <1>7. QED
    BY <1>6 DEF QueueInv

LEMMA AmendRequeuedQueues ==
  ASSUME EngineInv, QueueInv, NEW now \in Times, NEW a \in Amendments,
         AmendRequeued(a, now)
  PROVE  QueueInv'
  <1> DEFINE id == a.order_id
  <1>1. /\ op.phase = "idle" /\ op'.phase = "match" /\ op'.taker = id
        /\ RemoveFromBook(id)
        /\ Passes(AmendChecks(a)) /\ orders' = Amended(a)
    BY DEF AmendRequeued, BeginOperation, OpenWith
  <1>2. QueuesHoldResting
    BY <1>1 DEF QueueInv
  <1>3. /\ id \in DOMAIN orders /\ Waits(id) /\ DOMAIN orders' = DOMAIN orders
        /\ orders[id].instrument \in Instruments
        /\ orders'[id].state = "resting"
        /\ \A x \in DOMAIN orders \ {id} : orders'[x] = orders[x]
    BY <1>1, <1>2, AmendedWaits
  <1> HIDE DEF id
  <1>4. PICK b : /\ books' = [books EXCEPT ![orders[id].instrument] = b]
                 /\ Loses(books[orders[id].instrument], b, id, orders[id].side,
                          orders[id].price)
    BY <1>1, <1>2, <1>3, RemovalLoses
  <1>5. \A x \in DOMAIN orders \ {id} : Waits(x)' <=> Waits(x)
    BY <1>1, <1>3 DEF Waits
  <1>6. ~Waits(id)'
    BY <1>1 DEF Waits
  <1>7. \A x \in DOMAIN orders \ {id} : Waits(x) => StillWaits(x)
    BY <1>2, <1>3, <1>5 DEF StillWaits, QueuesHoldResting
  <1>8. \A x \in DOMAIN orders' : Waits(x)' => x \in DOMAIN orders \ {id} /\ Waits(x)
    BY <1>3, <1>5, <1>6
  <1>9. books \in [Instruments -> Book]
    BY DEF EngineInv, BooksInv
  <1>10. QueuesHoldResting'
    BY <1>1, <1>2, <1>3, <1>4, <1>7, <1>8, <1>9, OneLeavesQueues
  <1>11. QED
    BY <1>10 DEF QueueInv

(* The taker leaves the open orders: self-traded, run dry or completed.    *)
LEMMA TakerSettlesQueues ==
  ASSUME EngineInv, QueueInv, op.phase = "match",
         op'.phase \in {"finish", "wedged"}, books' = books,
         NEW state, state # "resting",
         orders' = [orders EXCEPT ![op.taker].state = state]
  PROVE  QueueInv'
  <1>1. PICK id : id = op.taker
    OBVIOUS
  <1>2. id \in DOMAIN orders /\ orders[id] \in Order
    BY <1>1, TakerFacts
  <1>3. /\ DOMAIN orders' = DOMAIN orders /\ orders'[id].state = state
        /\ \A x \in DOMAIN orders \ {id} : orders'[x] = orders[x]
    BY <1>1, <1>2 DEF Order
  <1>4. QueuesHoldResting
    BY DEF QueueInv
  <1>5. \A x \in DOMAIN orders \ {id} : Waits(x)' <=> Waits(x)
    BY <1>1, <1>3 DEF Waits
  <1>6. ~Waits(id) /\ ~Waits(id)'
    BY <1>1, <1>3 DEF Waits
  <1>7. \A x \in DOMAIN orders : Waits(x) => StillWaits(x)
    BY <1>3, <1>4, <1>5, <1>6 DEF StillWaits, QueuesHoldResting
  <1>8. QueuesHoldResting'
    BY <1>3, <1>4, <1>5, <1>6, <1>7, SameQueues
  <1>9. QED
    BY <1>8 DEF QueueInv

(* The remainder of the taker rests: it waited in no queue before.         *)
LEMMA RestsQueues ==
  ASSUME EngineInv, QueueInv, MatchRests
  PROVE  QueueInv'
  <1>1. PICK id : id = op.taker
    OBVIOUS
  <1> DEFINE o == orders[id]
             i == o.instrument
             c == AddResting(books[i], id, o.side, o.price)
  <1>2. /\ op.phase = "match" /\ o.order_type = "limit" /\ o.remaining > 0
        /\ books' = [books EXCEPT ![i] = c] /\ orders' = orders
        /\ op'.phase \in {"finish", "wedged"}
    <2>1. PICK body : Continue(<<body>>, "finish", op.fill)
      BY DEF MatchRests
    <2>2. op'.phase \in {"finish", "wedged"}
      BY <2>1 DEF Continue, EngineInv, OperationInv
    <2>3. QED
      BY <1>1, <2>2 DEF MatchRests, Sweeping
  <1>3. /\ id \in DOMAIN orders /\ id \in OrderIds /\ i \in Instruments
        /\ o.side \in Sides /\ o.price \in Prices /\ books[i] \in Book
        /\ books \in [Instruments -> Book]
    BY <1>1, <1>2, TakerFacts DEF EngineInv, OrdersInv, Order
  <1>4. QueuesHoldResting
    BY <1>2 DEF QueueInv
  <1>5. o.state = "resting" /\ ~Waits(id)
    BY <1>1, <1>2, <1>4 DEF QueuesHoldResting, Waits
  <1>6. id \notin Queued(books[i], o.side, o.price) /\ Distinct(books[i])
    BY <1>3, <1>4, <1>5 DEF QueuesHoldResting, Holds
  <1>7. /\ c.resting = books[i].resting \cup {id}
        /\ Queued(c, o.side, o.price) = Queued(books[i], o.side, o.price) \cup {id}
        /\ \A s \in Sides, q \in Prices :
             <<s, q>> # <<o.side, o.price>> => Queued(c, s, q) = Queued(books[i], s, q)
        /\ Distinct(c)
    BY <1>3, <1>6, AddGrows, AddDistinct
  <1> HIDE DEF c
  <1>8. SUFFICES ASSUME op'.phase # "wedged"
                 PROVE  QueuesHoldResting'
    BY DEF QueueInv
  <1>9. op'.phase = "finish"
    BY <1>2, <1>8
  <1>10. \A x \in DOMAIN orders : Waits(x)' <=> Waits(x) \/ x = id
    BY <1>1, <1>2, <1>5, <1>9 DEF Waits
  <1>11. \A j \in Instruments : Holds(j)' = Holds(j) \cup (IF j = i THEN {id} ELSE {})
    BY <1>2, <1>3, <1>10 DEF Holds
  <1>12. \A x \in DOMAIN orders' : Waits(x)' => orders'[x].remaining > 0
    BY <1>2, <1>4, <1>10 DEF QueuesHoldResting
  <1>13. ASSUME NEW j \in Instruments
         PROVE  /\ Distinct(books'[j]) /\ books'[j].resting = Holds(j)'
                /\ \A side \in Sides, p \in Prices :
                     Queued(books'[j], side, p) =
                       {x \in Holds(j)' : orders'[x].side = side /\ orders'[x].price = p}
    <2>1. /\ Distinct(books[j]) /\ books[j].resting = Holds(j)
          /\ \A side \in Sides, p \in Prices :
               Queued(books[j], side, p) =
                 {x \in Holds(j) : orders[x].side = side /\ orders[x].price = p}
      BY <1>4 DEF QueuesHoldResting
    <2>2. CASE j = i
      <3>1. books'[j] = c
        BY <1>2, <1>3, <2>2
      <3>2. ASSUME NEW side \in Sides, NEW p \in Prices
            PROVE  Queued(c, side, p) =
                     {x \in Holds(j)' : orders'[x].side = side /\ orders'[x].price = p}
        <4>1. CASE <<side, p>> = <<o.side, o.price>>
          BY <1>2, <1>7, <1>11, <2>1, <2>2, <4>1
        <4>2. CASE <<side, p>> # <<o.side, o.price>>
          BY <1>2, <1>7, <1>11, <2>1, <2>2, <4>2
        <4>3. QED
          BY <4>1, <4>2
      <3>3. QED
        BY <1>7, <1>11, <2>1, <2>2, <3>1, <3>2
    <2>3. CASE j # i
      <3>1. books'[j] = books[j] /\ orders' = orders
        BY <1>2, <1>3, <2>3
      <3>2. Holds(j)' = Holds(j)
        BY <1>11, <2>3
      <3>3. QED
        BY <2>1, <3>1, <3>2
    <2>4. QED
      BY <2>2, <2>3
  <1>14. QED
    BY <1>9, <1>12, <1>13 DEF QueuesHoldResting

(* What one execution does to the orders of its two sides.                 *)
Executes(taker, maker, p) ==
  LET o == orders[taker]
      b == books[o.instrument]
      side == Opposite(o.side)
  IN  /\ op.phase = "match" /\ op'.phase \in {"match", "wedged"}
      /\ op'.phase = "match" => op'.taker = taker
      /\ o.state = "resting" /\ Waits(maker)
      /\ o.instrument \in Instruments /\ side \in Sides
      /\ orders[maker].instrument = o.instrument
      /\ orders[maker].side = side /\ orders[maker].price = p
      /\ BestLevel(b, side, p) /\ maker = HeadOf(b, side, p)
      /\ DOMAIN orders' = DOMAIN orders /\ op'.fill = op.fill + 1
      /\ \A x \in DOMAIN orders \ {maker, taker} : orders'[x] = orders[x]
      /\ orders'[taker].state = "resting"
      /\ orders'[maker].instrument = orders[maker].instrument
      /\ orders'[maker].side = orders[maker].side
      /\ orders'[maker].price = orders[maker].price
      /\ orders'[maker].remaining \in 0 .. orders[maker].remaining - 1
      /\ op'.phase = "wedged" => books' = books
      /\ op'.phase = "match" =>
           \/ /\ orders'[maker].state = "resting" /\ orders'[maker].remaining > 0
              /\ books' = books
           \/ /\ orders'[maker].state = "filled"
              /\ books' = [books EXCEPT ![o.instrument] = ShiftBest(b, side, p)]

LEMMA FillFacts ==
  ASSUME EngineInv, QueueInv, MatchFill
  PROVE  \E p \in Prices, maker \in DOMAIN orders \ {op.taker} : Executes(op.taker, maker, p)
  <1> DEFINE taker == op.taker
             o == orders[taker]
             b == books[o.instrument]
             side == Opposite(o.side)
  <1>1. op.phase = "match" /\ QueuesHoldResting /\ o.remaining > 0
    BY DEF MatchFill, Sweeping, QueueInv
  <1>2. PICK p \in Prices :
          LET maker  == MakerAt(o, p)
              units  == Lesser(o.remaining, orders[maker].remaining)
              moved  == [orders EXCEPT ![maker].remaining = @ - units,
                                       ![taker].remaining = @ - units]
              bodies ==
                << FillBody(maker, moved[maker], maker, taker, op.fill, p, units),
                   FillBody(taker, moved[taker], maker, taker, op.fill, p, units) >>
              gone   == ~Exhausted(bodies) /\ moved[maker].remaining = 0
          IN  /\ Facing(o, p)
              /\ Continue(bodies, "match", op.fill + 1)
              /\ orders' = IF gone THEN [moved EXCEPT ![maker].state = "filled"]
                           ELSE moved
              /\ books' = IF gone
                          THEN [books EXCEPT ![o.instrument] =
                                  ShiftBest(@, Opposite(o.side), p)]
                          ELSE books
    BY DEF MatchFill
  <1> DEFINE maker  == MakerAt(o, p)
             units  == Lesser(o.remaining, orders[maker].remaining)
             moved  == [orders EXCEPT ![maker].remaining = @ - units,
                                      ![taker].remaining = @ - units]
             first  == FillBody(maker, moved[maker], maker, taker, op.fill, p, units)
             second == FillBody(taker, moved[taker], maker, taker, op.fill, p, units)
             spent  == Exhausted(<<first, second>>)
             gone   == ~spent /\ moved[maker].remaining = 0
  <1>3. /\ Facing(o, p)
        /\ Continue(<<first, second>>, "match", op.fill + 1)
        /\ orders' = IF gone THEN [moved EXCEPT ![maker].state = "filled"] ELSE moved
        /\ books' = IF gone THEN [books EXCEPT ![o.instrument] = ShiftBest(b, side, p)]
                    ELSE books
    BY <1>2
  <1>4. /\ p \in Live(b, side) /\ maker \in DOMAIN orders \ {taker}
        /\ orders[maker] \in Order /\ o \in Order /\ taker \in DOMAIN orders
        /\ b \in Book /\ o.instrument \in Instruments /\ side \in Sides
    <2>1. o \in Order /\ taker \in DOMAIN orders /\ books \in [Instruments -> Book]
      BY <1>1, TakerFacts
    <2>2. o.instrument \in Instruments /\ side \in Sides
      BY <2>1 DEF Order, Opposite, Sides
    <2>3. QED
      BY <1>1, <1>3, <2>1, <2>2, MakerFacts
  <1>5. maker = HeadOf(b, side, p)
    BY DEF MakerAt
  <1>6. maker \in Queued(b, side, p)
    <2>1. b.levels[side][p] \in Seq(OrderIds) /\ b.levels[side][p] # << >>
      BY <1>4, BookFacts DEF Live
    <2>2. QED
      BY <1>5, <2>1, TailFacts DEF HeadOf, Queued
  <1> HIDE DEF maker, first, second, spent, gone
  <1>7. /\ Waits(maker) /\ orders[maker].instrument = o.instrument
        /\ orders[maker].side = side /\ orders[maker].price = p
    <2>1. maker \in {id \in Holds(o.instrument) : orders[id].side = side
                                                  /\ orders[id].price = p}
      BY <1>1, <1>4, <1>6 DEF QueuesHoldResting
    <2>2. QED
      BY <2>1 DEF Holds
  <1>8. /\ DOMAIN moved = DOMAIN orders
        /\ moved[maker] = [orders[maker] EXCEPT !.remaining = orders[maker].remaining - units]
        /\ moved[taker] = [o EXCEPT !.remaining = o.remaining - units]
        /\ \A x \in DOMAIN orders \ {maker, taker} : moved[x] = orders[x]
    BY <1>4
  <1>9. orders[maker].remaining - units \in 0 .. orders[maker].remaining - 1
    <2>1. orders[maker].remaining > 0
      BY <1>1, <1>4, <1>7 DEF QueuesHoldResting
    <2>2. QED
      BY <1>1, <1>4, <2>1 DEF Lesser, Order
  <1>10. o.state = "resting" /\ orders[maker].state = "resting"
    BY <1>1, <1>7 DEF QueuesHoldResting, Waits
  <1> HIDE DEF units, moved
  <1>11. /\ moved[taker].state = "resting" /\ moved[maker].state = "resting"
         /\ moved[maker].instrument = orders[maker].instrument
         /\ moved[maker].side = orders[maker].side
         /\ moved[maker].price = orders[maker].price
         /\ moved[maker].remaining \in Nat
         /\ moved[maker].remaining \in 0 .. orders[maker].remaining - 1
    BY <1>4, <1>8, <1>9, <1>10 DEF Order
  <1>12. /\ op'.phase = IF spent THEN "wedged" ELSE "match"
         /\ ~spent => op'.taker = taker
         /\ op'.fill = op.fill + 1
    BY <1>3 DEF Continue, spent, EngineInv, OperationInv
  <1>13. /\ DOMAIN orders' = DOMAIN orders
         /\ orders'[taker] = moved[taker]
         /\ \A x \in DOMAIN orders \ {maker, taker} : orders'[x] = orders[x]
    BY <1>3, <1>4, <1>8
  <1>14. BestLevel(b, side, p)
    BY <1>3 DEF Facing
  <1>15. CASE gone
    <2>1. orders'[maker] = [moved[maker] EXCEPT !.state = "filled"]
      BY <1>3, <1>4, <1>8, <1>15
    <2>2. /\ orders'[maker].state = "filled"
          /\ orders'[maker].instrument = orders[maker].instrument
          /\ orders'[maker].side = orders[maker].side
          /\ orders'[maker].price = orders[maker].price
          /\ orders'[maker].remaining = moved[maker].remaining
      BY <1>4, <1>8, <1>11, <2>1 DEF Order
    <2>3. op'.phase = "match" /\ books' = [books EXCEPT ![o.instrument] = ShiftBest(b, side, p)]
      BY <1>3, <1>12, <1>15 DEF gone
    <2>4. QED
      BY <1>1, <1>4, <1>5, <1>7, <1>10, <1>11, <1>12, <1>13, <1>14, <2>2, <2>3
      DEF Executes
  <1>16. CASE ~gone
    <2>1. orders'[maker] = moved[maker] /\ books' = books
      BY <1>3, <1>16
    <2>2. op'.phase = "match" => moved[maker].remaining > 0
      BY <1>11, <1>12, <1>16 DEF gone
    <2>3. QED
      BY <1>1, <1>4, <1>5, <1>7, <1>10, <1>11, <1>12, <1>13, <1>14, <2>1, <2>2
      DEF Executes
  <1>17. QED
    BY <1>15, <1>16

LEMMA FillQueues ==
  ASSUME EngineInv, QueueInv, MatchFill
  PROVE  QueueInv'
  <1>1. PICK id : id = op.taker
    OBVIOUS
  <1>2. PICK p \in Prices, maker \in DOMAIN orders \ {id} : Executes(id, maker, p)
    BY <1>1, FillFacts
  <1> USE DEF Executes
  <1>3. SUFFICES ASSUME op'.phase = "match"
                 PROVE  QueuesHoldResting'
    BY <1>2 DEF QueueInv
  <1>4. QueuesHoldResting /\ books \in [Instruments -> Book]
    BY <1>2 DEF QueueInv, EngineInv, BooksInv
  <1>5. op.taker = id /\ op'.taker = id /\ op.phase = "match"
    BY <1>1, <1>2, <1>3
  <1>6. \A x \in DOMAIN orders \ {maker} : Waits(x)' <=> Waits(x)
    BY <1>2, <1>3, <1>5 DEF Waits
  <1>7. \A x \in DOMAIN orders \ {maker} : Waits(x) => StillWaits(x)
    <2> SUFFICES ASSUME NEW x \in DOMAIN orders \ {maker}, Waits(x)
                 PROVE  StillWaits(x)
      OBVIOUS
    <2>1. x # id
      BY <1>5 DEF Waits
    <2>2. orders'[x] = orders[x]
      BY <1>2, <2>1
    <2>3. QED
      BY <1>2, <1>4, <1>6, <2>2 DEF StillWaits, QueuesHoldResting
  <1>8. orders'[op'.taker].state = "resting"
    BY <1>2, <1>5
  <1>9. CASE orders'[maker].state = "resting" /\ orders'[maker].remaining > 0 /\ books' = books
    <2>1. Waits(maker)'
      BY <1>2, <1>5, <1>9 DEF Waits
    <2>2. StillWaits(maker)
      BY <1>2, <1>9, <2>1 DEF StillWaits
    <2>3. \A x \in DOMAIN orders : Waits(x) => StillWaits(x)
      BY <1>7, <2>2
    <2>4. \A x \in DOMAIN orders' : Waits(x)' => x \in DOMAIN orders /\ Waits(x)
      BY <1>2, <1>6
    <2>5. QED
      BY <1>4, <1>8, <1>9, <2>3, <2>4, SameQueues
  <1>10. CASE /\ orders'[maker].state = "filled"
              /\ books' = [books EXCEPT ![orders[id].instrument] =
                             ShiftBest(books[orders[id].instrument],
                                       Opposite(orders[id].side), p)]
    <2> DEFINE i == orders[id].instrument
               side == Opposite(orders[id].side)
               c == ShiftBest(books[i], side, p)
    <2>1. ~Waits(maker)'
      BY <1>10 DEF Waits
    <2>2. Distinct(books[i]) /\ books[i] \in Book
      BY <1>2, <1>4 DEF QueuesHoldResting
    <2>3. Loses(books[i], c, maker, side, p)
      BY <1>2, <2>2, ShiftLoses DEF BestLevel
    <2>4. /\ i \in Instruments /\ i = orders[maker].instrument
          /\ side = orders[maker].side /\ p = orders[maker].price
          /\ books' = [books EXCEPT ![i] = c]
      BY <1>2, <1>10
    <2>5. \A x \in DOMAIN orders' : Waits(x)' => x \in DOMAIN orders \ {maker} /\ Waits(x)
      BY <1>2, <1>6, <2>1
    <2> HIDE DEF i, side, c
    <2>6. Loses(books[i], c, maker, orders[maker].side, orders[maker].price)
      BY <2>3, <2>4
    <2>7. maker \in DOMAIN orders /\ Waits(maker)
      BY <1>2
    <2>8. QED
      BY <1>4, <1>7, <1>8, <2>4, <2>5, <2>6, <2>7, OneLeavesQueues
  <1>11. QED
    BY <1>2, <1>3, <1>9, <1>10

LEMMA QueueInit == Init => QueueInv
  <1> SUFFICES ASSUME Init PROVE QueuesHoldResting
    BY DEF QueueInv
  <1>1. DOMAIN orders = {} /\ op.phase = "idle" /\ \A i \in Instruments : books[i] = EmptyBook
    BY DEF Init, Idle
  <1>2. /\ \A side \in Sides, p \in Prices : Queued(EmptyBook, side, p) = {}
        /\ Distinct(EmptyBook) /\ EmptyBook.resting = {}
    BY DEF EmptyBook, Queued, Range, Distinct, Unrepeated
  <1>3. \A i \in Instruments : Holds(i) = {}
    BY <1>1 DEF Holds
  <1>4. QED
    BY <1>1, <1>2, <1>3 DEF QueuesHoldResting

LEMMA QueueNext ==
  ASSUME EngineInv, QueueInv, [Next]_vars
  PROVE  QueueInv'
  <1>1. ASSUME NEW now \in Times, NEW o \in Submissions, SubmitOrder(o, now)
        PROVE  QueueInv'
    BY <1>1, SubmitQueues, RejectedQueues DEF SubmitOrder, SubmitRejected
  <1>2. ASSUME NEW now \in Times, NEW c \in Cancellations, CancelOrder(c, now)
        PROVE  QueueInv'
    BY <1>2, CancelQueues, RejectedQueues DEF CancelOrder, CancelRejected
  <1>3. ASSUME NEW now \in Times, NEW a \in Amendments, AmendOrder(a, now)
        PROVE  QueueInv'
    <2>1. CASE AmendRejected(a, now)
      <3>1. BeginOperation(now)
        BY <2>1 DEF AmendRejected
      <3>2. \E id, instrument, side, reason :
              RejectWith(now, id, instrument, side, reason)
        BY <2>1 DEF AmendRejected
      <3>3. QED
        BY <3>1, <3>2, RejectedQueues
    <2>2. QED
      BY <1>3, <2>1, AmendInPlaceQueues, AmendRequeuedQueues DEF AmendOrder
  <1>4. CASE MatchSelfTrade
    <2>1. PICK body : Continue(<<body>>, "finish", op.fill)
      BY <1>4 DEF MatchSelfTrade
    <2>2. op'.phase \in {"finish", "wedged"}
      BY <2>1 DEF Continue, EngineInv, OperationInv
    <2>3. QED
      BY <1>4, <2>2, TakerSettlesQueues DEF MatchSelfTrade, Sweeping
  <1>5. CASE MatchRunsDry
    <2>1. PICK body : Continue(<<body>>, "finish", op.fill)
      BY <1>5 DEF MatchRunsDry
    <2>2. op'.phase \in {"finish", "wedged"}
      BY <2>1 DEF Continue, EngineInv, OperationInv
    <2>3. QED
      BY <1>5, <2>2, TakerSettlesQueues DEF MatchRunsDry, Sweeping
  <1>6. CASE MatchCompletes
    <2>1. op'.phase = "finish"
      BY <1>6 DEF MatchCompletes, EngineInv, OperationInv
    <2>2. QED
      BY <1>6, <2>1, TakerSettlesQueues DEF MatchCompletes
  <1>7. CASE Commit
    BY <1>7, QuietQueues DEF Commit, Idle, QueueInv
  <1>8. CASE UNCHANGED vars
    <2>1. \A x : Waits(x)' <=> Waits(x)
      BY <1>8 DEF Waits, vars
    <2>2. \A i : Holds(i)' = Holds(i)
      BY <1>8, <2>1 DEF Holds, vars
    <2>3. QED
      BY <1>8, <2>1, <2>2 DEF QueueInv, QueuesHoldResting, vars
  <1>9. QED
    BY <1>1, <1>2, <1>3, <1>4, <1>5, <1>6, <1>7, <1>8, FillQueues, RestsQueues
    DEF Next, Call, MatchTaker

LEMMA QueueAlways == Spec => []QueueInv
  BY QueueInit, QueueNext, EngineInvAlways, PTL DEF Spec

(* A queue without repetitions of tracked orders is no longer than their   *)
(* list.                                                                   *)
LEMMA QueueIsShort ==
  ASSUME NEW S, NEW line \in Seq(S), NEW queue \in Seq(S), Unrepeated(queue),
         Range(queue) \subseteq Range(line)
  PROVE  Len(queue) <= Len(line)
  <1> DEFINE R == Range(line)
             n == Len(line)
             m == Len(queue)
  <1>1. n \in Nat /\ m \in Nat
    OBVIOUS
  <1>2. /\ IsFiniteSet(1 .. n) /\ Cardinality(1 .. n) = n
        /\ IsFiniteSet(1 .. m) /\ Cardinality(1 .. m) = m
    <2>1. \A j \in Nat : /\ IsFiniteSet(1 .. j)
                         /\ Cardinality(1 .. j) = IF 1 > j THEN 0 ELSE j - 1 + 1
      BY FS_Interval
    <2>2. \A j \in Nat : (IF 1 > j THEN 0 ELSE j - 1 + 1) = j
      OBVIOUS
    <2>3. QED
      BY <1>1, <2>1, <2>2
  <1>3. line \in Surjection(1 .. n, R)
    <2>1. line \in [1 .. n -> R]
      BY RangeFacts
    <2>2. \A x \in R : \E k \in 1 .. n : line[k] = x
      BY RangeFacts
    <2>3. QED
      BY <2>1, <2>2 DEF Surjection
  <1>4. queue \in Injection(1 .. m, R)
    <2>1. queue \in [1 .. m -> R]
      BY RangeFacts
    <2>2. IsInjective(queue)
      BY <2>1 DEF IsInjective, Unrepeated
    <2>3. QED
      BY <2>1, <2>2 DEF Injection
  <1> HIDE DEF R, n, m
  <1>5. IsFiniteSet(R) /\ Cardinality(R) <= n
    BY <1>2, <1>3, FS_Surjection
  <1>6. m <= Cardinality(R)
    BY <1>2, <1>4, <1>5, FS_Injection
  <1>7. Cardinality(R) \in Nat
    BY <1>5, FS_CardinalityType
  <1>8. QED
    BY <1>1, <1>5, <1>6, <1>7 DEF n, m

LEMMA OneSlot ==
  ASSUME EngineInv, QueuesHoldResting, NEW i \in Instruments,
         NEW id \in books[i].resting
  PROVE  Cardinality(Slots(i, id)) = 1
  <1> DEFINE o == orders[id]
             queue == books[i].levels[o.side][o.price]
  <1>1. id \in Holds(i) /\ id \in DOMAIN orders /\ Waits(id) /\ o.instrument = i
    BY DEF QueuesHoldResting, Holds
  <1>2. /\ o.side \in Sides /\ o.price \in Prices /\ books[i] \in Book
        /\ id \in Queued(books[i], o.side, o.price) /\ Distinct(books[i])
    BY <1>1, WaitingIsQueued
  <1>3. queue \in Seq(OrderIds) /\ Unrepeated(queue) /\ id \in Range(queue)
    BY <1>2, BookFacts DEF Queued, Distinct
  <1>4. PICK k \in 1 .. Len(queue) : queue[k] = id
    BY <1>3, RangeFacts
  <1>5. tracked \in Seq(OrderIds) /\ Range(queue) \subseteq Range(tracked)
    <2>1. tracked \in Seq(DOMAIN orders) /\ DOMAIN orders \subseteq OrderIds
      BY DEF EngineInv, TrackedInv, OrdersInv
    <2>2. tracked \in Seq(OrderIds)
      BY <2>1
    <2>3. Range(queue) \subseteq DOMAIN orders
      BY <1>2 DEF EngineInv, BooksInv, Queued
    <2>4. QED
      BY <2>2, <2>3 DEF EngineInv, TrackedInv
  <1>6. k \in 1 .. Len(tracked)
    <2>1. Len(queue) <= Len(tracked)
      BY <1>3, <1>5, QueueIsShort
    <2>2. \A q \in Seq(OrderIds) : Len(q) \in Nat
      OBVIOUS
    <2>3. Len(tracked) \in Nat /\ Len(queue) \in Nat
      BY <1>3, <1>5, <2>2
    <2>4. QED
      BY <1>4, <2>1, <2>3
  <1>7. ASSUME NEW side \in Sides, NEW p \in Prices, NEW n \in 1 .. Len(tracked),
               n \in DOMAIN books[i].levels[side][p],
               books[i].levels[side][p][n] = id
        PROVE  side = o.side /\ p = o.price /\ n = k
    <2>1. books[i].levels[side][p] \in Seq(OrderIds)
      BY <1>2, BookFacts
    <2>2. id \in Queued(books[i], side, p)
      BY <1>7, <2>1, RangeFacts DEF Queued
    <2>3. side = o.side /\ p = o.price
      BY <2>2 DEF QueuesHoldResting
    <2>4. n \in 1 .. Len(queue) /\ queue[n] = id
      <3>1. queue = books[i].levels[side][p]
        BY <2>3
      <3>2. n \in 1 .. Len(books[i].levels[side][p])
        BY <1>7, <2>1
      <3>3. QED
        BY <1>7, <3>1, <3>2, ZenonT(30)
    <2>5. QED
      BY <1>3, <1>4, <2>3, <2>4 DEF Unrepeated
  <1>8. k \in DOMAIN queue
    <2>1. \A q \in Seq(OrderIds) : DOMAIN q = 1 .. Len(q)
      OBVIOUS
    <2>2. QED
      BY <1>3, <1>4, <2>1
  <1>9. Slots(i, id) = {<<o.side, o.price, k>>}
    <2>1. \A slot \in Slots(i, id) : slot = <<o.side, o.price, k>>
      <3> TAKE slot \in Slots(i, id)
      <3>1. PICK side \in Sides, p \in Prices, n \in 1 .. Len(tracked) :
              slot = <<side, p, n>>
        BY DEF Slots
      <3>2. n \in DOMAIN books[i].levels[side][p] /\ books[i].levels[side][p][n] = id
        BY <3>1 DEF Slots
      <3>3. QED
        BY <1>7, <3>1, <3>2
    <2>2. <<o.side, o.price, k>> \in Slots(i, id)
      BY <1>2, <1>4, <1>6, <1>8 DEF Slots
    <2>3. QED
      BY <2>1, <2>2
  <1>10. QED
    BY <1>9, FS_Singleton

LEMMA NoSlot ==
  ASSUME EngineInv, QueuesHoldResting, NEW i \in Instruments,
         NEW id \in DOMAIN orders, id \notin books[i].resting
  PROVE  Cardinality(Slots(i, id)) = 0
  <1>1. Slots(i, id) = {}
    <2> SUFFICES ASSUME NEW slot \in Slots(i, id) PROVE FALSE
      OBVIOUS
    <2>1. PICK side \in Sides, p \in Prices, n \in 1 .. Len(tracked) :
            slot = <<side, p, n>>
      BY DEF Slots
    <2>2. n \in DOMAIN books[i].levels[side][p] /\ books[i].levels[side][p][n] = id
      BY <2>1 DEF Slots
    <2>3. books[i] \in Book /\ books[i].levels[side][p] \in Seq(OrderIds)
      BY BookFacts DEF EngineInv, BooksInv
    <2>4. id \in Queued(books[i], side, p)
      BY <2>2, <2>3, RangeFacts DEF Queued
    <2>5. id \in Holds(i)
      BY <2>4 DEF QueuesHoldResting
    <2>6. QED
      BY <2>5 DEF QueuesHoldResting
  <1>2. QED
    BY <1>1, FS_EmptySet

LEMMA HeldAreBooked ==
  ASSUME EngineInv, QueueInv
  PROVE  BookHoldsRestingOrders
  <1>1. SUFFICES ASSUME op.phase # "wedged"
                 PROVE  /\ \A id \in DOMAIN orders :
                             Waits(id) <=> id \in books[orders[id].instrument].resting
                        /\ \A i \in Instruments, id \in DOMAIN orders :
                             Cardinality(Slots(i, id)) =
                               IF id \in books[i].resting THEN 1 ELSE 0
                        /\ \A i \in Instruments : \A id \in books[i].resting :
                             LET o == orders[id]
                             IN  /\ o.instrument = i /\ o.remaining > 0
                                 /\ \E k \in DOMAIN books[i].levels[o.side][o.price] :
                                      books[i].levels[o.side][o.price][k] = id
    BY DEF BookHoldsRestingOrders, Waits
  <1>2. QueuesHoldResting
    BY <1>1 DEF QueueInv
  <1>3. \A id \in DOMAIN orders :
          Waits(id) <=> id \in books[orders[id].instrument].resting
    <2> TAKE id \in DOMAIN orders
    <2>1. orders[id].instrument \in Instruments
      BY DEF EngineInv, OrdersInv, Order
    <2>2. QED
      BY <1>2, <2>1 DEF QueuesHoldResting, Holds
  <1>4. \A i \in Instruments, id \in DOMAIN orders :
          Cardinality(Slots(i, id)) = IF id \in books[i].resting THEN 1 ELSE 0
    BY <1>2, OneSlot, NoSlot
  <1>5. ASSUME NEW i \in Instruments, NEW id \in books[i].resting
        PROVE  LET o == orders[id]
               IN  /\ o.instrument = i /\ o.remaining > 0
                   /\ \E k \in DOMAIN books[i].levels[o.side][o.price] :
                        books[i].levels[o.side][o.price][k] = id
    <2>1. id \in DOMAIN orders /\ Waits(id) /\ orders[id].instrument = i
      BY <1>2 DEF QueuesHoldResting, Holds
    <2>2. id \in Queued(books[i], orders[id].side, orders[id].price)
          /\ orders[id].remaining > 0
      BY <1>2, <2>1, WaitingIsQueued
    <2>3. QED
      BY <2>1, <2>2 DEF Queued, Range
  <1>6. QED
    BY <1>3, <1>4, <1>5

(* The queues of a book hold exactly its resting orders, each once, where  *)
(* it belongs; only the taker of the open operation is resting outside.    *)
THEOREM BooksHoldRestingOrders == Spec => []BookHoldsRestingOrders
  <1>1. EngineInv /\ QueueInv => BookHoldsRestingOrders
    BY HeldAreBooked
  <1>2. QED
    BY <1>1, EngineInvAlways, QueueAlways, PTL

(* A step leaves the closed orders as they are.                            *)
KeepsClosed ==
  \A id \in DOMAIN orders :
    orders[id].state # "resting" => id \in DOMAIN orders' /\ orders'[id] = orders[id]

LEMMA OpeningKeepsClosed ==
  ASSUME EngineInv, QueueInv, Call
  PROVE  KeepsClosed
  <1>1. ASSUME orders' = orders
        PROVE  KeepsClosed
    BY <1>1 DEF KeepsClosed
  <1>2. ASSUME NEW now \in Times, NEW o \in Submissions, SubmitOrder(o, now)
        PROVE  KeepsClosed
    <2>1. CASE SubmitRejected(o, now)
      BY <1>1, <2>1 DEF SubmitRejected, RejectWith
    <2>2. CASE SubmitAccepted(o, now)
      <3>1. o.order_id \notin DOMAIN orders
        BY <2>2, SubmitPasses DEF SubmitAccepted
      <3>2. QED
        BY <2>2, <3>1 DEF SubmitAccepted, Put, KeepsClosed
    <2>3. QED
      BY <1>2, <2>1, <2>2 DEF SubmitOrder
  <1>3. ASSUME NEW now \in Times, NEW c \in Cancellations, CancelOrder(c, now)
        PROVE  KeepsClosed
    <2>1. CASE CancelRejected(c, now)
      BY <1>1, <2>1 DEF CancelRejected, RejectWith
    <2>2. CASE CancelAccepted(c, now)
      <3>1. Waits(c.order_id) /\ c.order_id \in DOMAIN orders
        BY <2>2, CancelQueues
      <3>2. /\ DOMAIN orders' = DOMAIN orders
            /\ \A x \in DOMAIN orders \ {c.order_id} : orders'[x] = orders[x]
        BY <2>2, <3>1 DEF CancelAccepted
      <3>3. QED
        BY <3>1, <3>2 DEF KeepsClosed, Waits
    <2>3. QED
      BY <1>3, <2>1, <2>2 DEF CancelOrder
  <1>4. ASSUME NEW now \in Times, NEW a \in Amendments, AmendOrder(a, now)
        PROVE  KeepsClosed
    <2>1. CASE AmendRejected(a, now)
      BY <1>1, <2>1 DEF AmendRejected, RejectWith
    <2>2. CASE AmendInPlace(a, now) \/ AmendRequeued(a, now)
      <3>1. /\ op.phase = "idle" /\ Passes(AmendChecks(a)) /\ orders' = Amended(a)
        BY <2>2 DEF AmendInPlace, AmendRequeued, BeginOperation
      <3>2. QueuesHoldResting
        BY <3>1 DEF QueueInv
      <3>3. /\ Waits(a.order_id) /\ DOMAIN orders' = DOMAIN orders
            /\ \A x \in DOMAIN orders \ {a.order_id} : orders'[x] = orders[x]
        BY <3>1, <3>2, AmendedWaits
      <3>4. QED
        BY <3>3 DEF KeepsClosed, Waits
    <2>3. QED
      BY <1>4, <2>1, <2>2 DEF AmendOrder
  <1>5. QED
    BY <1>2, <1>3, <1>4 DEF Call

LEMMA MatchingKeepsClosed ==
  ASSUME EngineInv, QueueInv, MatchTaker
  PROVE  KeepsClosed
  <1>1. op.phase = "match"
    BY DEF MatchTaker, MatchSelfTrade, MatchFill, MatchRests, MatchRunsDry,
           MatchCompletes, Sweeping
  <1>2. op.taker \in DOMAIN orders /\ orders[op.taker].state = "resting"
    BY <1>1, TakerFacts DEF QueueInv, QueuesHoldResting
  <1>3. CASE MatchSelfTrade \/ MatchRunsDry \/ MatchCompletes
    <2>1. PICK state : orders' = [orders EXCEPT ![op.taker].state = state]
      BY <1>3 DEF MatchSelfTrade, MatchRunsDry, MatchCompletes
    <2>2. QED
      BY <1>2, <2>1 DEF KeepsClosed
  <1>4. CASE MatchRests
    BY <1>4 DEF MatchRests, KeepsClosed
  <1>5. CASE MatchFill
    <2>1. PICK maker \in DOMAIN orders :
            /\ Waits(maker) /\ DOMAIN orders' = DOMAIN orders
            /\ \A x \in DOMAIN orders \ {maker, op.taker} : orders'[x] = orders[x]
      BY <1>5, FillFacts DEF Executes
    <2>2. QED
      BY <1>2, <2>1 DEF KeepsClosed, Waits
  <1>6. QED
    BY <1>3, <1>4, <1>5 DEF MatchTaker

(* A filled, cancelled or rejected order never changes again, in the sweep *)
(* that throws half-way included.                                          *)
THEOREM ClosedOrdersAreFinal == Spec => TerminalIsFinal
  <1>1. EngineInv /\ QueueInv /\ [Next]_vars =>
          [\A id \in DOMAIN orders :
             orders[id].state # "resting" =>
               id \in DOMAIN orders' /\ orders'[id] = orders[id]]_vars
    <2> SUFFICES ASSUME EngineInv, QueueInv, Next PROVE KeepsClosed
      BY DEF KeepsClosed
    <2>1. CASE Commit
      BY <2>1 DEF Commit, KeepsClosed
    <2>2. QED
      BY <2>1, OpeningKeepsClosed, MatchingKeepsClosed DEF Next
  <1>2. QED
    BY <1>1, EngineInvAlways, QueueAlways, PTL DEF Spec, TerminalIsFinal

-----------------------------------------------------------------------------
(* Executions and limits along a sequence of events.                       *)

Counted(e) == IsFill(e) \/ e.body.type = "cancelled"
SetsLimit(e) == e.body.type \in {"accepted", "amended"}

Units(E, S) == MapThenSumSet(LAMBDA k : E[k].body.quantity, S)

FillsOf(E, id) == {k \in DOMAIN E : IsFill(E[k]) /\ E[k].body.order_id = id}

CancelsOf(E, id) ==
  {k \in DOMAIN E : E[k].body.type = "cancelled" /\ E[k].body.order_id = id}

(* What counts is an amount of a tracked order.                            *)
LegsTyped(E, os) ==
  \A k \in DOMAIN E : Counted(E[k]) =>
    E[k].body.quantity \in Nat /\ E[k].body.order_id \in DOMAIN os

Conserved(E, os) ==
  \A id \in DOMAIN os :
    Units(E, FillsOf(E, id)) + Units(E, CancelsOf(E, id)) + os[id].remaining
      = os[id].quantity

Paired(E) ==
  \A k \in {k \in DOMAIN E : IsFill(E[k])} :
    \E j \in {k - 1, k + 1} \cap DOMAIN E :
      /\ IsFill(E[j])
      /\ E[j].body.fill_id = E[k].body.fill_id /\ E[j].body.side # E[k].body.side
      /\ E[j].body.price = E[k].body.price /\ E[j].body.quantity = E[k].body.quantity

(* The last event that set a limit of the order set the one it has.        *)
LimitsStand(E, os) ==
  \A id \in DOMAIN os : \E k \in DOMAIN E :
    /\ SetsLimit(E[k]) /\ E[k].body.order_id = id
    /\ E[k].body.price = os[id].price
    /\ \A j \in DOMAIN E : (SetsLimit(E[j]) /\ E[j].body.order_id = id) => j <= k

MarketsUnpriced ==
  \A id \in DOMAIN orders : orders[id].order_type = "market" => orders[id].price = Null

IsSeq(s) == s \in Seq(Range(s))

(* F goes on where E ends.                                                 *)
Extends(E, F) ==
  /\ IsSeq(E) /\ IsSeq(F) /\ Len(E) <= Len(F)
  /\ \A k \in 1 .. Len(E) : F[k] = E[k]

OneMore(E, F, e) == Extends(E, F) /\ Len(F) = Len(E) + 1 /\ F[Len(F)] = e

LEMMA SeqFacts ==
  ASSUME NEW s, IsSeq(s)
  PROVE  Len(s) \in Nat /\ DOMAIN s = 1 .. Len(s) /\ IsFiniteSet(DOMAIN s)
  <1>1. Len(s) \in Nat /\ DOMAIN s = 1 .. Len(s)
    BY DEF IsSeq
  <1>2. QED
    BY <1>1, FS_Interval

LEMMA AnySeq ==
  ASSUME NEW S, NEW s \in Seq(S)
  PROVE  IsSeq(s)
  <1>1. \A k \in 1 .. Len(s) : s[k] \in Range(s)
    BY RangeFacts
  <1>2. QED
    BY <1>1 DEF IsSeq

LEMMA Joined ==
  ASSUME NEW s, NEW t, IsSeq(s), IsSeq(t)
  PROVE  /\ Extends(s, s \o t) /\ Len(s \o t) = Len(s) + Len(t)
         /\ \A k \in 1 .. Len(t) : (s \o t)[Len(s) + k] = t[k]
  <1> DEFINE S == Range(s) \cup Range(t)
  <1>1. s \in Seq(S) /\ t \in Seq(S)
    <2>1. /\ \A k \in 1 .. Len(s) : s[k] \in S
          /\ \A k \in 1 .. Len(t) : t[k] \in S
      BY RangeFacts DEF IsSeq
    <2> HIDE DEF S
    <2>2. QED
      BY <2>1 DEF IsSeq
  <1> HIDE DEF S
  <1>2. /\ s \o t \in Seq(S) /\ Len(s \o t) = Len(s) + Len(t)
        /\ \A k \in 1 .. Len(s) : (s \o t)[k] = s[k]
        /\ \A k \in 1 .. Len(t) : (s \o t)[Len(s) + k] = t[k]
    BY <1>1, ConcatFacts
  <1>3. IsSeq(s \o t)
    BY <1>2, AnySeq
  <1>4. Len(s) <= Len(s \o t)
    BY <1>2, SeqFacts
  <1>5. QED
    BY <1>2, <1>3, <1>4 DEF Extends

-----------------------------------------------------------------------------
(* Sums over events.                                                       *)

LEMMA UnitsSum ==
  ASSUME NEW E, NEW S, IsFiniteSet(S), NEW w \in [S -> Int],
         \A k \in S : w[k] = E[k].body.quantity
  PROVE  \E f : Sums(f, w, S) /\ Units(E, S) = f[S]
  <1> DEFINE Body(f) == [s \in SUBSET S |->
               IF s = {} THEN 0
               ELSE E[CHOOSE k \in s : TRUE].body.quantity + f[s \ {CHOOSE k \in s : TRUE}]]
             chosen == CHOOSE f : f = Body(f)
  <1>1. Units(E, S) = chosen[S]
    BY DEF Units, MapThenSumSet, MapThenFoldSet
  <1>2. ASSUME NEW f
        PROVE  Body(f) = [s \in SUBSET S |-> IF s = {} THEN 0 ELSE w[Some(s)] + f[s \ {Some(s)}]]
    <2>1. \A s \in SUBSET S : s # {} => w[Some(s)] = E[Some(s)].body.quantity
      BY SomeIn
    <2>2. QED
      BY <2>1 DEF Some
  <1> HIDE DEF Body
  <1>3. \A f : f = Body(f) <=> Sums(f, w, S)
    BY <1>2 DEF Sums
  <1>4. \E f : f = Body(f)
    BY <1>3, SumsExist
  <1>5. chosen = Body(chosen)
    BY <1>4
  <1> HIDE DEF chosen
  <1>6. QED
    BY <1>1, <1>3, <1>5

LEMMA SumsWhole ==
  ASSUME NEW T, IsFiniteSet(T), NEW v \in [T -> Int], NEW g, Sums(g, v, T), NEW n \in T
  PROVE  g[T] = v[n] + g[T \ {n}]
  BY SumsAny

(* The units of one set of events, read from either of two sequences.      *)
LEMMA UnitsAlike ==
  ASSUME NEW E, NEW F, NEW S, IsFiniteSet(S), \A k \in S : E[k] = F[k],
         \A k \in S : F[k].body.quantity \in Int
  PROVE  Units(E, S) \in Int /\ Units(F, S) = Units(E, S)
  <1> DEFINE w == [k \in S |-> E[k].body.quantity]
  <1>1. /\ w \in [S -> Int] /\ \A k \in S : w[k] = E[k].body.quantity
        /\ \A k \in S : w[k] = F[k].body.quantity
    OBVIOUS
  <1> HIDE DEF w
  <1>2. PICK f : Sums(f, w, S) /\ Units(E, S) = f[S]
    BY <1>1, UnitsSum
  <1>3. PICK g : Sums(g, w, S) /\ Units(F, S) = g[S]
    BY <1>1, UnitsSum
  <1>4. f[S] = g[S]
    BY <1>1, <1>2, <1>3, SumsAgree
  <1>5. f[S] \in Int
    BY <1>1, <1>2, SumsInt
  <1>6. QED
    BY <1>2, <1>3, <1>4, <1>5

LEMMA UnitsAdd ==
  ASSUME NEW E, NEW S, IsFiniteSet(S), NEW n, n \notin S,
         \A k \in S \cup {n} : E[k].body.quantity \in Int
  PROVE  Units(E, S \cup {n}) = Units(E, S) + E[n].body.quantity
  <1> DEFINE T == S \cup {n}
             w == [k \in S |-> E[k].body.quantity]
             v == [k \in T |-> E[k].body.quantity]
  <1>1. IsFiniteSet(T)
    BY FS_AddElement
  <1>2. /\ w \in [S -> Int] /\ \A k \in S : w[k] = E[k].body.quantity
        /\ v \in [T -> Int] /\ \A k \in T : v[k] = E[k].body.quantity
        /\ \A k \in S : w[k] = v[k]
        /\ v[n] = E[n].body.quantity
        /\ S \in SUBSET T /\ n \in T /\ T \ {n} = S
    OBVIOUS
  <1> HIDE DEF T, w, v
  <1>3. PICK f : Sums(f, w, S) /\ Units(E, S) = f[S]
    BY <1>2, UnitsSum
  <1>4. PICK g : Sums(g, v, T) /\ Units(E, T) = g[T]
    BY <1>1, <1>2, UnitsSum
  <1>5. g[T] = v[n] + g[S]
    <2>1. IsFiniteSet(T) /\ v \in [T -> Int] /\ Sums(g, v, T)
      BY <1>1, <1>2, <1>4
    <2>2. n \in T
      BY <1>2
    <2>3. g[T] = v[n] + g[T \ {n}]
      BY ONLY <2>1, <2>2, SumsWhole
    <2>4. QED
      BY <1>2, <2>3
  <1>6. f[S] = g[S]
    <2>1. /\ IsFiniteSet(T) /\ Sums(g, v, T) /\ S \in SUBSET T
          /\ Sums(f, w, S) /\ \A x \in S : w[x] = v[x]
      BY <1>1, <1>2, <1>3, <1>4
    <2>2. \A s \in SUBSET S : f[s] = g[s]
      BY ONLY <2>1, SumsAgree
    <2>3. QED
      BY <2>2
  <1>7. f[S] \in Int
    BY <1>2, <1>3, SumsInt
  <1>8. v[n] \in Int
    BY <1>2
  <1>9. Units(E, T) = Units(E, S) + E[n].body.quantity
    BY <1>2, <1>3, <1>4, <1>5, <1>6, <1>7, <1>8
  <1>10. QED
    BY <1>9 DEF T

LEMMA UnitsNone == \A E : Units(E, {}) = 0
  <1> TAKE E
  <1>1. IsFiniteSet({}) /\ [a \in {} |-> 0] \in [{} -> Int]
    BY FS_EmptySet
  <1>2. PICK f : Sums(f, [a \in {} |-> 0], {}) /\ Units(E, {}) = f[{}]
    BY <1>1, UnitsSum
  <1>3. QED
    BY <1>2, SumsAt

Added(yes, e) == IF yes THEN e.body.quantity ELSE 0

(* What one more event adds to the executed and cancelled units of an      *)
(* order.                                                                  *)
LEMMA UnitsGrow ==
  ASSUME NEW E, NEW F, NEW e, OneMore(E, F, e), NEW os, LegsTyped(E, os),
         Counted(e) => e.body.quantity \in Nat, NEW id
  PROVE  /\ Units(E, FillsOf(E, id)) \in Int /\ Units(E, CancelsOf(E, id)) \in Int
         /\ Units(F, FillsOf(F, id)) = Units(E, FillsOf(E, id))
              + Added(IsFill(e) /\ e.body.order_id = id, e)
         /\ Units(F, CancelsOf(F, id)) = Units(E, CancelsOf(E, id))
              + Added(e.body.type = "cancelled" /\ e.body.order_id = id, e)
  <1> DEFINE n == Len(F)
             A == FillsOf(E, id)
             B == CancelsOf(E, id)
  <1>1. /\ DOMAIN E = 1 .. Len(E) /\ DOMAIN F = 1 .. Len(E) + 1 /\ n = Len(E) + 1
        /\ Len(E) \in Nat /\ IsFiniteSet(DOMAIN E)
        /\ \A k \in 1 .. Len(E) : E[k] = F[k]
        /\ F[n] = e
    BY SeqFacts DEF OneMore, Extends
  <1> HIDE DEF n
  <1>2. /\ n \notin DOMAIN E /\ DOMAIN F = DOMAIN E \cup {n}
        /\ \A k \in DOMAIN E : E[k] = F[k]
    BY <1>1
  <1>3. A \subseteq DOMAIN E /\ B \subseteq DOMAIN E
    BY DEF FillsOf, CancelsOf
  <1>4. IsFiniteSet(A) /\ IsFiniteSet(B)
    BY <1>1, <1>3, FS_Subset
  <1>5. \A k \in A \cup B : F[k].body.quantity \in Int
    BY <1>2 DEF LegsTyped, FillsOf, CancelsOf, Counted
  <1>6. FillsOf(F, id) = IF IsFill(e) /\ e.body.order_id = id THEN A \cup {n} ELSE A
    BY <1>1, <1>2 DEF FillsOf, IsFill
  <1>7. CancelsOf(F, id) =
          IF e.body.type = "cancelled" /\ e.body.order_id = id THEN B \cup {n} ELSE B
    BY <1>1, <1>2 DEF CancelsOf
  <1> HIDE DEF A, B
  <1>8. /\ n \notin A /\ n \notin B
        /\ \A k \in A : E[k] = F[k]
        /\ \A k \in B : E[k] = F[k]
    BY <1>2, <1>3
  <1>10. ASSUME NEW S, IsFiniteSet(S), n \notin S, \A k \in S : E[k] = F[k],
                \A k \in S : F[k].body.quantity \in Int
         PROVE  /\ Units(E, S) \in Int /\ Units(F, S) = Units(E, S)
                /\ Counted(e) => Units(F, S \cup {n}) = Units(E, S) + e.body.quantity
    <2>1. Units(E, S) \in Int /\ Units(F, S) = Units(E, S)
      BY ONLY <1>10, UnitsAlike
    <2>2. Counted(e) => \A k \in S \cup {n} : F[k].body.quantity \in Int
      BY <1>1, <1>10
    <2>3. Counted(e) => Units(F, S \cup {n}) = Units(F, S) + F[n].body.quantity
      BY ONLY <1>10, <2>2, UnitsAdd
    <2>4. QED
      BY <1>1, <2>1, <2>3
  <1>11. /\ Units(E, A) \in Int /\ Units(F, A) = Units(E, A)
         /\ Counted(e) => Units(F, A \cup {n}) = Units(E, A) + e.body.quantity
    BY <1>4, <1>5, <1>8, <1>10
  <1>12. /\ Units(E, B) \in Int /\ Units(F, B) = Units(E, B)
         /\ Counted(e) => Units(F, B \cup {n}) = Units(E, B) + e.body.quantity
    BY <1>4, <1>5, <1>8, <1>10
  <1>13. Units(F, FillsOf(F, id)) = Units(E, A)
              + Added(IsFill(e) /\ e.body.order_id = id, e)
    BY <1>6, <1>11 DEF Added, Counted
  <1>14. Units(F, CancelsOf(F, id)) = Units(E, B)
              + Added(e.body.type = "cancelled" /\ e.body.order_id = id, e)
    BY <1>7, <1>12 DEF Added, Counted
  <1>15. QED
    BY <1>11, <1>12, <1>13, <1>14 DEF A, B

-----------------------------------------------------------------------------
(* What an execution says of the limit in force.                           *)

Bounded(b, limit) ==
  \/ limit = Null
  \/ IF b.side = "buy" THEN b.price <= limit ELSE b.price >= limit

(* The limit of an order before n was last set by event k.                 *)
LastSetAt(E, id, n, k) ==
  /\ SetsLimit(E[k]) /\ E[k].body.order_id = id
  /\ \A j \in 1 .. n - 1 : (SetsLimit(E[j]) /\ E[j].body.order_id = id) => j <= k

HasLimit(E, n) ==
  \E k \in 1 .. n - 1 :
    LastSetAt(E, E[n].body.order_id, n, k) /\ Bounded(E[n].body, E[k].body.price)

Within(E) == \A n \in DOMAIN E : IsFill(E[n]) => HasLimit(E, n)

HasPartner(E, k) ==
  \E j \in {k - 1, k + 1} \cap DOMAIN E :
    /\ IsFill(E[j])
    /\ E[j].body.fill_id = E[k].body.fill_id /\ E[j].body.side # E[k].body.side
    /\ E[j].body.price = E[k].body.price /\ E[j].body.quantity = E[k].body.quantity

StandsAt(E, id, price, k) ==
  /\ SetsLimit(E[k]) /\ E[k].body.order_id = id
  /\ E[k].body.price = price
  /\ \A j \in DOMAIN E : (SetsLimit(E[j]) /\ E[j].body.order_id = id) => j <= k

Traded(E, os) ==
  LegsTyped(E, os) /\ Conserved(E, os) /\ Paired(E) /\ LimitsStand(E, os)

(* The positions F adds.                                                  *)
Beyond(E, F) == Len(E) + 1 .. Len(F)

LEMMA ExtendsFacts ==
  ASSUME NEW E, NEW F, Extends(E, F)
  PROVE  /\ DOMAIN E = 1 .. Len(E) /\ DOMAIN F = 1 .. Len(F)
         /\ Len(E) \in Nat /\ Len(F) \in Nat /\ Len(E) <= Len(F)
         /\ DOMAIN E \subseteq DOMAIN F
         /\ \A k \in DOMAIN E : F[k] = E[k]
         /\ \A k \in DOMAIN F \ DOMAIN E : k \in Beyond(E, F)
  <1>1. /\ DOMAIN E = 1 .. Len(E) /\ DOMAIN F = 1 .. Len(F)
        /\ Len(E) \in Nat /\ Len(F) \in Nat /\ Len(E) <= Len(F)
        /\ \A k \in 1 .. Len(E) : F[k] = E[k]
    BY SeqFacts DEF Extends
  <1>2. QED
    BY <1>1 DEF Beyond

LEMMA OneMoreFacts ==
  ASSUME NEW E, NEW F, NEW e, OneMore(E, F, e)
  PROVE  /\ Extends(E, F) /\ Len(F) = Len(E) + 1 /\ F[Len(F)] = e
         /\ DOMAIN F = DOMAIN E \cup {Len(F)} /\ Len(F) \notin DOMAIN E
         /\ \A k \in Beyond(E, F) : k = Len(F) /\ F[k] = e
  <1>1. Extends(E, F) /\ Len(F) = Len(E) + 1 /\ F[Len(F)] = e
    BY DEF OneMore
  <1>2. \A k \in Beyond(E, F) : k = Len(F)
    BY <1>1, ExtendsFacts DEF Beyond
  <1>3. DOMAIN F = DOMAIN E \cup {Len(F)} /\ Len(F) \notin DOMAIN E
    BY <1>1, ExtendsFacts
  <1>4. QED
    BY <1>1, <1>2, <1>3

LEMMA LegsKept ==
  ASSUME NEW E, NEW F, Extends(E, F), NEW os, NEW ot, LegsTyped(E, os),
         DOMAIN os \subseteq DOMAIN ot,
         \A k \in Beyond(E, F) : Counted(F[k]) =>
           F[k].body.quantity \in Nat /\ F[k].body.order_id \in DOMAIN ot
  PROVE  LegsTyped(F, ot)
  BY ExtendsFacts DEF LegsTyped

LEMMA PairsKept ==
  ASSUME NEW E, NEW F, Extends(E, F), Paired(E),
         \A k \in Beyond(E, F) : IsFill(F[k]) => HasPartner(F, k)
  PROVE  Paired(F)
  <1> SUFFICES ASSUME NEW k \in DOMAIN F, IsFill(F[k]) PROVE HasPartner(F, k)
    BY DEF Paired, HasPartner
  <1>1. CASE k \in DOMAIN E
    <2>1. F[k] = E[k]
      BY <1>1, ExtendsFacts
    <2>2. HasPartner(E, k)
      BY <1>1, <2>1 DEF Paired, HasPartner
    <2>3. PICK j \in {k - 1, k + 1} \cap DOMAIN E :
            /\ IsFill(E[j])
            /\ E[j].body.fill_id = E[k].body.fill_id /\ E[j].body.side # E[k].body.side
            /\ E[j].body.price = E[k].body.price
            /\ E[j].body.quantity = E[k].body.quantity
      BY <2>2 DEF HasPartner
    <2>4. j \in DOMAIN F /\ F[j] = E[j]
      BY ExtendsFacts
    <2>5. QED
      BY <2>1, <2>3, <2>4 DEF HasPartner
  <1>2. QED
    BY <1>1, ExtendsFacts

LEMMA MaxIs ==
  ASSUME NEW S, S \subseteq Nat, NEW m \in S, \A k \in S : k <= m
  PROVE  Max(S) = m
  <1>1. \A y \in S : m >= y
    OBVIOUS
  <1>2. \A x \in S : (\A y \in S : x >= y) => x = m
    OBVIOUS
  <1>3. QED
    BY <1>1, <1>2 DEF Max

LEMMA WithinKept ==
  ASSUME NEW E, NEW F, Extends(E, F), Within(E),
         \A n \in Beyond(E, F) : IsFill(F[n]) => HasLimit(F, n)
  PROVE  Within(F)
  <1> SUFFICES ASSUME NEW n \in DOMAIN F, IsFill(F[n]) PROVE HasLimit(F, n)
    BY DEF Within
  <1>1. CASE n \in DOMAIN E
    <2>1. F[n] = E[n] /\ \A k \in 1 .. n - 1 : F[k] = E[k]
      BY <1>1, ExtendsFacts
    <2>2. PICK k \in 1 .. n - 1 :
            LastSetAt(E, E[n].body.order_id, n, k) /\ Bounded(E[n].body, E[k].body.price)
      BY <1>1, <2>1 DEF Within, HasLimit
    <2>3. LastSetAt(F, F[n].body.order_id, n, k)
      BY <2>1, <2>2 DEF LastSetAt
    <2>4. QED
      BY <2>1, <2>2, <2>3 DEF HasLimit
  <1>2. QED
    BY <1>1, ExtendsFacts

(* An execution behind E has the limit the order has.                      *)
LEMMA StandingLimit ==
  ASSUME NEW E, NEW F, Extends(E, F), NEW os, LimitsStand(E, os),
         NEW n \in Beyond(E, F), F[n].body.order_id \in DOMAIN os,
         \A j \in Len(E) + 1 .. n - 1 : ~SetsLimit(F[j]),
         Bounded(F[n].body, os[F[n].body.order_id].price)
  PROVE  HasLimit(F, n)
  <1> DEFINE id == F[n].body.order_id
  <1>1. PICK k \in DOMAIN E :
          /\ SetsLimit(E[k]) /\ E[k].body.order_id = id
          /\ E[k].body.price = os[id].price
          /\ \A j \in DOMAIN E : (SetsLimit(E[j]) /\ E[j].body.order_id = id) => j <= k
    BY DEF LimitsStand
  <1>2. /\ k \in 1 .. n - 1 /\ F[k] = E[k]
        /\ \A j \in 1 .. n - 1 : (j \in DOMAIN E /\ F[j] = E[j]) \/ j \in Len(E) + 1 .. n - 1
    BY ExtendsFacts DEF Beyond
  <1>3. LastSetAt(F, id, n, k)
    BY <1>1, <1>2 DEF LastSetAt
  <1>4. QED
    BY <1>1, <1>2, <1>3 DEF HasLimit

LEMMA LimitsKept ==
  ASSUME NEW E, NEW F, Extends(E, F), NEW os, NEW ot, LimitsStand(E, os),
         \A k \in Beyond(E, F) : ~SetsLimit(F[k]),
         DOMAIN ot \subseteq DOMAIN os,
         \A id \in DOMAIN ot : ot[id].price = os[id].price
  PROVE  LimitsStand(F, ot)
  <1> SUFFICES ASSUME NEW id \in DOMAIN ot
               PROVE  \E k \in DOMAIN F : StandsAt(F, id, ot[id].price, k)
    BY DEF LimitsStand, StandsAt
  <1>1. PICK k \in DOMAIN E : StandsAt(E, id, os[id].price, k)
    BY DEF LimitsStand, StandsAt
  <1>2. k \in DOMAIN F /\ F[k] = E[k]
    BY ExtendsFacts
  <1>3. \A j \in DOMAIN F : (j \in DOMAIN E /\ F[j] = E[j]) \/ ~SetsLimit(F[j])
    BY ExtendsFacts
  <1>4. StandsAt(F, id, ot[id].price, k)
    BY <1>1, <1>2, <1>3 DEF StandsAt
  <1>5. QED
    BY <1>2, <1>4

-----------------------------------------------------------------------------
(* One event more.                                                         *)

(* Nothing that executes, cancels or limits anything.                      *)
LEMMA QuietEvent ==
  ASSUME NEW E, NEW F, NEW e, OneMore(E, F, e), NEW os, NEW ot,
         Traded(E, os), Within(E), ~Counted(e), ~SetsLimit(e),
         DOMAIN ot = DOMAIN os,
         \A id \in DOMAIN os :
           /\ ot[id].price = os[id].price /\ ot[id].quantity = os[id].quantity
           /\ ot[id].remaining = os[id].remaining /\ os[id].remaining \in Int
  PROVE  Traded(F, ot) /\ Within(F)
  <1>0. OneMore(E, F, e)
    OBVIOUS
  <1>1. Extends(E, F) /\ \A k \in Beyond(E, F) : F[k] = e
    BY ONLY <1>0, OneMoreFacts
  <1>2. LegsTyped(E, os) /\ Conserved(E, os) /\ Paired(E) /\ LimitsStand(E, os)
    BY DEF Traded
  <1>3. ~IsFill(e) /\ e.body.type # "cancelled"
    BY DEF Counted
  <1>4. LegsTyped(F, ot)
    BY <1>1, <1>2, LegsKept
  <1>5. Paired(F) /\ Within(F)
    BY <1>1, <1>2, <1>3, PairsKept, WithinKept
  <1>6. LimitsStand(F, ot)
    BY <1>1, <1>2, LimitsKept
  <1>7. ASSUME NEW id \in DOMAIN ot
        PROVE  Units(F, FillsOf(F, id)) + Units(F, CancelsOf(F, id)) + ot[id].remaining
                 = ot[id].quantity
    <2>1. /\ Units(E, FillsOf(E, id)) \in Int /\ Units(E, CancelsOf(E, id)) \in Int
          /\ Units(F, FillsOf(F, id)) = Units(E, FillsOf(E, id)) + 0
          /\ Units(F, CancelsOf(F, id)) = Units(E, CancelsOf(E, id)) + 0
      BY <1>2, <1>3, UnitsGrow DEF Added
    <2>2. Units(E, FillsOf(E, id)) + Units(E, CancelsOf(E, id)) + os[id].remaining
            = os[id].quantity
      BY <1>2 DEF Conserved
    <2>3. QED
      BY <2>1, <2>2
  <1>8. QED
    BY <1>4, <1>5, <1>6, <1>7 DEF Traded, Conserved

(* A limit is set: of a new order, or of one whose total changes by what   *)
(* is left to trade.                                                       *)
LEMMA LimitEvent ==
  ASSUME NEW E, NEW F, NEW e, OneMore(E, F, e), NEW os, NEW ot,
         Traded(E, os), Within(E), ~Counted(e), SetsLimit(e),
         NEW id, e.body.order_id = id, e.body.price = ot[id].price,
         DOMAIN ot = DOMAIN os \cup {id},
         \A x \in DOMAIN os \ {id} : ot[x] = os[x],
         \A x \in DOMAIN os : os[x].remaining \in Int /\ os[x].quantity \in Int,
         ot[id].remaining \in Int /\ ot[id].quantity \in Int,
         id \in DOMAIN os =>
           ot[id].quantity - ot[id].remaining = os[id].quantity - os[id].remaining,
         id \notin DOMAIN os => ot[id].remaining = ot[id].quantity
  PROVE  Traded(F, ot) /\ Within(F)
  <1>0. OneMore(E, F, e)
    OBVIOUS
  <1>1. Extends(E, F) /\ \A k \in Beyond(E, F) : F[k] = e
    BY ONLY <1>0, OneMoreFacts
  <1>2. LegsTyped(E, os) /\ Conserved(E, os) /\ Paired(E) /\ LimitsStand(E, os)
    BY DEF Traded
  <1>3. ~IsFill(e) /\ e.body.type # "cancelled"
    BY DEF Counted
  <1>4. LegsTyped(F, ot)
    BY <1>1, <1>2, LegsKept
  <1>5. Paired(F) /\ Within(F)
    BY <1>1, <1>2, <1>3, PairsKept, WithinKept
  <1>6. ASSUME NEW x \in DOMAIN ot
        PROVE  \E k \in DOMAIN F : StandsAt(F, x, ot[x].price, k)
    <2>1. CASE x = id
      <3>1. Len(F) \in DOMAIN F /\ F[Len(F)] = e /\ \A j \in DOMAIN F : j <= Len(F)
        <4>1. /\ Extends(E, F) /\ F[Len(F)] = e /\ Len(F) = Len(E) + 1
              /\ DOMAIN F = DOMAIN E \cup {Len(F)}
          BY ONLY <1>0, OneMoreFacts
        <4>2. DOMAIN F = 1 .. Len(F) /\ Len(F) \in Nat
          BY <4>1, ExtendsFacts, Zenon
        <4>3. QED
          BY ONLY <4>1, <4>2
      <3>2. QED
        BY <2>1, <3>1 DEF StandsAt
    <2>2. CASE x # id
      <3>1. x \in DOMAIN os /\ ot[x] = os[x]
        BY <2>2
      <3>2. PICK k \in DOMAIN E : StandsAt(E, x, os[x].price, k)
        BY <1>2, <3>1 DEF LimitsStand, StandsAt
      <3>3. k \in DOMAIN F /\ F[k] = E[k]
        BY <1>1, ExtendsFacts
      <3>4. \A j \in DOMAIN F : (j \in DOMAIN E /\ F[j] = E[j]) \/ F[j].body.order_id = id
        BY <1>1, ExtendsFacts
      <3>5. StandsAt(F, x, ot[x].price, k)
        BY <2>2, <3>1, <3>2, <3>3, <3>4 DEF StandsAt
      <3>6. QED
        BY <3>3, <3>5
    <2>3. QED
      BY <2>1, <2>2
  <1>7. ASSUME NEW x \in DOMAIN ot
        PROVE  Units(F, FillsOf(F, x)) + Units(F, CancelsOf(F, x)) + ot[x].remaining
                 = ot[x].quantity
    <2>1. /\ Units(E, FillsOf(E, x)) \in Int /\ Units(E, CancelsOf(E, x)) \in Int
          /\ Units(F, FillsOf(F, x)) = Units(E, FillsOf(E, x)) + 0
          /\ Units(F, CancelsOf(F, x)) = Units(E, CancelsOf(E, x)) + 0
      BY <1>2, <1>3, UnitsGrow DEF Added
    <2>2. CASE x \in DOMAIN os
      <3>1. Units(E, FillsOf(E, x)) + Units(E, CancelsOf(E, x)) + os[x].remaining
              = os[x].quantity
        BY <1>2, <2>2 DEF Conserved
      <3>2. ot[x].quantity - ot[x].remaining = os[x].quantity - os[x].remaining
        BY <2>2
      <3>3. /\ os[x].remaining \in Int /\ os[x].quantity \in Int
            /\ ot[x].remaining \in Int /\ ot[x].quantity \in Int
        BY <2>2
      <3>4. QED
        BY <2>1, <3>1, <3>2, <3>3
    <2>3. CASE x \notin DOMAIN os
      <3>1. FillsOf(E, x) = {} /\ CancelsOf(E, x) = {}
        BY <1>2, <2>3 DEF LegsTyped, FillsOf, CancelsOf, Counted
      <3>2. Units(E, FillsOf(E, x)) = 0 /\ Units(E, CancelsOf(E, x)) = 0
        BY <3>1, UnitsNone
      <3>3. x = id
        BY <2>3
      <3>4. QED
        BY <2>1, <2>3, <3>2, <3>3
    <2>4. QED
      BY <2>2, <2>3
  <1>8. LimitsStand(F, ot)
    BY <1>6 DEF LimitsStand, StandsAt
  <1>9. QED
    BY <1>4, <1>5, <1>7, <1>8 DEF Traded, Conserved

(* What was left of an order is cancelled.                                 *)
LEMMA CancelEvent ==
  ASSUME NEW E, NEW F, NEW e, OneMore(E, F, e), NEW os, NEW ot,
         Traded(E, os), Within(E), e.body.type = "cancelled",
         NEW id \in DOMAIN os, e.body.order_id = id,
         e.body.quantity = os[id].remaining, os[id].remaining \in Nat,
         DOMAIN ot = DOMAIN os, \A x \in DOMAIN os \ {id} : ot[x] = os[x],
         \A x \in DOMAIN os : os[x].remaining \in Int,
         ot[id].price = os[id].price, ot[id].quantity = os[id].quantity,
         ot[id].remaining = 0
  PROVE  Traded(F, ot) /\ Within(F)
  <1>0. OneMore(E, F, e)
    OBVIOUS
  <1>1. Extends(E, F) /\ \A k \in Beyond(E, F) : F[k] = e
    BY ONLY <1>0, OneMoreFacts
  <1>2. LegsTyped(E, os) /\ Conserved(E, os) /\ Paired(E) /\ LimitsStand(E, os)
    BY DEF Traded
  <1>3. ~IsFill(e) /\ ~SetsLimit(e) /\ Counted(e) /\ e.body.quantity \in Nat
    BY DEF Counted, IsFill, SetsLimit
  <1>4. LegsTyped(F, ot)
    BY <1>1, <1>2, <1>3, LegsKept
  <1>5. Paired(F) /\ Within(F)
    BY <1>1, <1>2, <1>3, PairsKept, WithinKept
  <1>6. LimitsStand(F, ot)
    <2>1. \A x \in DOMAIN ot : ot[x].price = os[x].price
      OBVIOUS
    <2>2. QED
      BY <1>1, <1>2, <1>3, <2>1, LimitsKept
  <1>7. ASSUME NEW x \in DOMAIN ot
        PROVE  Units(F, FillsOf(F, x)) + Units(F, CancelsOf(F, x)) + ot[x].remaining
                 = ot[x].quantity
    <2>1. /\ Units(E, FillsOf(E, x)) \in Int /\ Units(E, CancelsOf(E, x)) \in Int
          /\ Units(F, FillsOf(F, x)) = Units(E, FillsOf(E, x)) + 0
          /\ Units(F, CancelsOf(F, x)) = Units(E, CancelsOf(E, x))
               + (IF id = x THEN os[id].remaining ELSE 0)
      BY <1>2, <1>3, UnitsGrow DEF Added
    <2>2. Units(E, FillsOf(E, x)) + Units(E, CancelsOf(E, x)) + os[x].remaining
            = os[x].quantity
      BY <1>2 DEF Conserved
    <2>3. QED
      BY <2>1, <2>2
  <1>8. QED
    BY <1>4, <1>5, <1>6, <1>7 DEF Traded, Conserved

(* The two legs of one execution, of units of two orders at a price within *)
(* the limits of both.                                                     *)
LEMMA FillEvents ==
  ASSUME NEW E, NEW G, NEW F, NEW d, NEW e, OneMore(E, G, d), OneMore(G, F, e),
         NEW os, NEW ot, Traded(E, os), Within(E), IsFill(d), IsFill(e),
         NEW m \in DOMAIN os, NEW t \in DOMAIN os, m # t,
         d.body.order_id = m, e.body.order_id = t,
         d.body.fill_id = e.body.fill_id, d.body.side # e.body.side,
         d.body.price = e.body.price,
         NEW units \in Nat, d.body.quantity = units, e.body.quantity = units,
         Bounded(d.body, os[m].price), Bounded(e.body, os[t].price),
         DOMAIN ot = DOMAIN os,
         \A x \in DOMAIN os :
           /\ ot[x].price = os[x].price /\ ot[x].quantity = os[x].quantity
           /\ os[x].remaining \in Int
           /\ ot[x].remaining = IF x \in {m, t} THEN os[x].remaining - units
                                ELSE os[x].remaining
  PROVE  Traded(F, ot) /\ Within(F)
  <1>0. OneMore(E, G, d) /\ OneMore(G, F, e)
    OBVIOUS
  <1>1. /\ Extends(E, F) /\ Len(E) \in Nat
        /\ Len(E) + 1 \in DOMAIN F /\ F[Len(E) + 1] = d
        /\ Len(E) + 2 \in DOMAIN F /\ F[Len(E) + 2] = e
        /\ \A k \in Beyond(E, F) : k \in {Len(E) + 1, Len(E) + 2}
    <2>1. /\ Extends(E, G) /\ Len(G) = Len(E) + 1 /\ G[Len(G)] = d
          /\ Extends(G, F) /\ Len(F) = Len(G) + 1 /\ F[Len(F)] = e
      BY ONLY <1>0, OneMoreFacts
    <2>2. /\ Len(E) \in Nat /\ DOMAIN G = 1 .. Len(G) /\ DOMAIN F = 1 .. Len(F)
          /\ \A k \in DOMAIN G : F[k] = G[k]
          /\ DOMAIN E = 1 .. Len(E) /\ DOMAIN E \subseteq DOMAIN G
          /\ \A k \in DOMAIN E : G[k] = E[k]
      BY ONLY <2>1, ExtendsFacts
    <2>3. Extends(E, F)
      <3>1. IsSeq(E) /\ IsSeq(F) /\ Len(E) <= Len(F)
        BY <2>1, <2>2 DEF Extends
      <3>2. \A k \in 1 .. Len(E) : F[k] = E[k]
        BY <2>2
      <3>3. QED
        BY <3>1, <3>2 DEF Extends
    <2>4. Len(F) = Len(E) + 2 /\ F[Len(E) + 2] = e
      BY <2>1, <2>2
    <2>5. Len(E) + 1 \in DOMAIN G
      BY <2>1, <2>2
    <2>6. F[Len(E) + 1] = d
      BY <2>1, <2>2, <2>5
    <2>7. QED
      BY <2>2, <2>3, <2>4, <2>6 DEF Beyond
  <1>2. LegsTyped(E, os) /\ Conserved(E, os) /\ Paired(E) /\ LimitsStand(E, os)
    BY DEF Traded
  <1>3. /\ ~SetsLimit(d) /\ ~SetsLimit(e) /\ Counted(d) /\ Counted(e)
        /\ d.body.type # "cancelled" /\ e.body.type # "cancelled"
    BY DEF Counted, IsFill, SetsLimit
  <1>4. LegsTyped(F, ot)
    <2>1. \A k \in Beyond(E, F) :
            F[k].body.quantity \in Nat /\ F[k].body.order_id \in DOMAIN ot
      BY <1>1
    <2>2. DOMAIN os \subseteq DOMAIN ot
      OBVIOUS
    <2>3. QED
      BY ONLY <1>1, <1>2, <2>1, <2>2, LegsKept
  <1>5. Paired(F)
    <2>1. HasPartner(F, Len(E) + 1)
      <3>1. Len(E) + 2 \in {(Len(E) + 1) - 1, (Len(E) + 1) + 1} \cap DOMAIN F
        BY <1>1
      <3>2. QED
        BY <1>1, <3>1 DEF HasPartner
    <2>2. HasPartner(F, Len(E) + 2)
      <3>1. Len(E) + 1 \in {(Len(E) + 2) - 1, (Len(E) + 2) + 1} \cap DOMAIN F
        BY <1>1
      <3>2. QED
        BY <1>1, <3>1 DEF HasPartner
    <2>3. QED
      BY <1>1, <1>2, <2>1, <2>2, PairsKept
  <1>6. Within(F)
    <2>1. ASSUME NEW n \in Beyond(E, F)
          PROVE  HasLimit(F, n)
      <3>1. n = Len(E) + 1 \/ n = Len(E) + 2
        BY <1>1
      <3>2. \A j \in Len(E) + 1 .. n - 1 : j = Len(E) + 1
        BY <1>1, <3>1
      <3>3. \A j \in Len(E) + 1 .. n - 1 : ~SetsLimit(F[j])
        BY <1>1, <1>3, <3>2
      <3>4. /\ F[n].body.order_id \in DOMAIN os
            /\ Bounded(F[n].body, os[F[n].body.order_id].price)
        BY <1>1, <3>1
      <3>5. QED
        BY <1>1, <1>2, <3>3, <3>4, StandingLimit
    <2>2. QED
      BY <1>1, <2>1, WithinKept
  <1>7. LimitsStand(F, ot)
    <2>1. \A k \in Beyond(E, F) : ~SetsLimit(F[k])
      BY <1>1, <1>3
    <2>2. DOMAIN ot \subseteq DOMAIN os /\ \A id \in DOMAIN ot : ot[id].price = os[id].price
      OBVIOUS
    <2>3. QED
      BY ONLY <1>1, <1>2, <2>1, <2>2, LimitsKept
  <1>8. ASSUME NEW x \in DOMAIN ot
        PROVE  Units(F, FillsOf(F, x)) + Units(F, CancelsOf(F, x)) + ot[x].remaining
                 = ot[x].quantity
    <2>1. LegsTyped(G, os)
      <3>1. Extends(E, G) /\ \A k \in Beyond(E, G) : G[k] = d
        BY ONLY <1>0, OneMoreFacts
      <3>2. QED
        BY <1>2, <3>1, LegsKept
    <2>2. /\ Units(E, FillsOf(E, x)) \in Int /\ Units(E, CancelsOf(E, x)) \in Int
          /\ Units(G, FillsOf(G, x)) = Units(E, FillsOf(E, x))
               + (IF m = x THEN units ELSE 0)
          /\ Units(G, CancelsOf(G, x)) = Units(E, CancelsOf(E, x)) + 0
      BY <1>2, <1>3, UnitsGrow DEF Added
    <2>3. /\ Units(F, FillsOf(F, x)) = Units(G, FillsOf(G, x))
               + (IF t = x THEN units ELSE 0)
          /\ Units(F, CancelsOf(F, x)) = Units(G, CancelsOf(G, x)) + 0
      BY <1>3, <2>1, UnitsGrow DEF Added
    <2>4. /\ Units(E, FillsOf(E, x)) + Units(E, CancelsOf(E, x)) + os[x].remaining
               = os[x].quantity
          /\ os[x].remaining \in Int
          /\ ot[x].quantity = os[x].quantity
          /\ ot[x].remaining = IF x = m \/ x = t THEN os[x].remaining - units
                               ELSE os[x].remaining
      BY <1>2 DEF Conserved
    <2>5. QED
      BY <2>2, <2>3, <2>4
  <1>9. QED
    BY <1>4, <1>5, <1>6, <1>7, <1>8 DEF Traded, Conserved

-----------------------------------------------------------------------------
(* What the steps of the engine emit.                                      *)

EventsInv ==
  /\ IsSeq(journal) /\ IsSeq(op.events)
  /\ op.phase = "idle" => op.events = << >>

(* An event is its envelope and its body.                                  *)
Marked(e, seq, at, body) == e.seq = seq /\ e.at = at /\ e.body = body

LEMMA StampedFacts ==
  ASSUME NEW bodies, Len(bodies) \in Nat, NEW seq, NEW at
  PROVE  /\ IsSeq(Stamped(bodies, seq, at)) /\ Len(Stamped(bodies, seq, at)) = Len(bodies)
         /\ \A k \in 1 .. Len(bodies) :
              Marked(Stamped(bodies, seq, at)[k], seq + k - 1, at, bodies[k])
  <1> DEFINE S == {[seq |-> seq + k - 1, at |-> at, body |-> bodies[k]] : k \in 1 .. Len(bodies)}
  <1>1. Stamped(bodies, seq, at) \in Seq(S)
    BY DEF Stamped
  <1>2. Len(Stamped(bodies, seq, at)) = Len(bodies)
    BY DEF Stamped
  <1>3. QED
    BY <1>1, <1>2, AnySeq DEF Stamped, Marked

LEMMA NoEvents == IsSeq(<< >>) /\ Len(<< >>) = 0
  <1>1. << >> \in Seq({})
    BY EmptySeq
  <1>2. QED
    BY <1>1, AnySeq

(* Appending to the last part of a sequence appends to the sequence.       *)
LEMMA JoinedTwice ==
  ASSUME NEW j, NEW e, NEW s, IsSeq(j), IsSeq(e), IsSeq(s)
  PROVE  /\ IsSeq(e \o s)
         /\ Extends(j \o e, j \o (e \o s)) /\ Len(j \o (e \o s)) = Len(j \o e) + Len(s)
         /\ \A k \in 1 .. Len(s) : (j \o (e \o s))[Len(j \o e) + k] = s[k]
  <1> DEFINE t == e \o s
             a == j \o e
             b == j \o t
  <1>1. /\ IsSeq(t) /\ Len(t) = Len(e) + Len(s)
        /\ \A k \in 1 .. Len(e) : t[k] = e[k]
        /\ \A k \in 1 .. Len(s) : t[Len(e) + k] = s[k]
    BY Joined DEF Extends
  <1>2. /\ IsSeq(a) /\ Len(a) = Len(j) + Len(e)
        /\ \A k \in 1 .. Len(j) : a[k] = j[k]
        /\ \A k \in 1 .. Len(e) : a[Len(j) + k] = e[k]
    BY Joined DEF Extends
  <1> HIDE DEF t
  <1>3. /\ IsSeq(b) /\ Len(b) = Len(j) + Len(t)
        /\ \A k \in 1 .. Len(j) : b[k] = j[k]
        /\ \A k \in 1 .. Len(t) : b[Len(j) + k] = t[k]
    BY <1>1, Joined DEF Extends
  <1>4. Len(j) \in Nat /\ Len(e) \in Nat /\ Len(s) \in Nat
    BY SeqFacts
  <1> HIDE DEF a, b
  <1>5. Len(b) = Len(a) + Len(s) /\ Len(a) <= Len(b)
    BY <1>1, <1>2, <1>3, <1>4
  <1>6. ASSUME NEW k \in 1 .. Len(a)
        PROVE  b[k] = a[k]
    <2>1. CASE k \in 1 .. Len(j)
      BY <1>2, <1>3, <2>1
    <2>2. CASE k \notin 1 .. Len(j)
      <3>1. /\ k - Len(j) \in 1 .. Len(e) /\ k - Len(j) \in 1 .. Len(t)
            /\ Len(j) + (k - Len(j)) = k
        BY <1>1, <1>2, <1>4, <2>2
      <3>2. a[Len(j) + (k - Len(j))] = e[k - Len(j)] /\ b[Len(j) + (k - Len(j))] = t[k - Len(j)]
        BY <1>2, <1>3, <3>1
      <3>3. t[k - Len(j)] = e[k - Len(j)]
        BY <1>1, <3>1
      <3>4. QED
        BY <3>1, <3>2, <3>3
    <2>3. QED
      BY <2>1, <2>2
  <1>7. ASSUME NEW k \in 1 .. Len(s)
        PROVE  b[Len(a) + k] = s[k]
    <2>1. Len(e) + k \in 1 .. Len(t) /\ Len(a) + k = Len(j) + (Len(e) + k)
      BY <1>1, <1>2, <1>4
    <2>2. b[Len(j) + (Len(e) + k)] = t[Len(e) + k]
      BY <1>3, <2>1
    <2>3. QED
      BY <1>1, <2>1, <2>2
  <1>8. Extends(a, b)
    BY <1>2, <1>3, <1>5, <1>6 DEF Extends
  <1>9. QED
    BY <1>1, <1>5, <1>7, <1>8 DEF a, b, t

LEMMA OpeningEmits ==
  ASSUME EngineInv, EventsInv, NEW now, BeginOperation(now),
         NEW phase \in {"match", "finish"}, NEW taker, NEW body, OpenWith(now, phase, taker, body),
         journal' = journal
  PROVE  /\ EventsInv' /\ op'.phase = phase
         /\ \E e : OneMore(Emitted, Emitted', e) /\ Marked(e, nextSeq, now, body)
  <1> DEFINE s == Stamped(<<body>>, nextSeq, now)
  <1>1. /\ IsSeq(s) /\ Len(s) = 1 /\ Marked(s[1], nextSeq, now, body)
    <2> DEFINE one == <<body>>
    <2>1. Len(one) = 1 /\ one[1] = body
      OBVIOUS
    <2> HIDE DEF one
    <2>2. Marked(Stamped(one, nextSeq, now)[1], nextSeq + 1 - 1, now, body)
      BY <2>1, StampedFacts
    <2>3. nextSeq + 1 - 1 = nextSeq
      BY DEF EngineInv, CountersInv
    <2>4. IsSeq(Stamped(one, nextSeq, now)) /\ Len(Stamped(one, nextSeq, now)) = 1
      BY <2>1, StampedFacts
    <2>5. QED
      BY <2>2, <2>3, <2>4 DEF one
  <1>2. op'.events = s /\ op'.phase = phase
    BY DEF OpenWith
  <1> HIDE DEF s
  <1>3. IsSeq(journal) /\ op.events = << >> /\ IsSeq(op.events)
    BY DEF EventsInv, BeginOperation
  <1>4. /\ IsSeq(op.events \o s)
        /\ Extends(Emitted, journal \o (op.events \o s))
        /\ Len(journal \o (op.events \o s)) = Len(Emitted) + 1
        /\ (journal \o (op.events \o s))[Len(Emitted) + 1] = s[1]
    <2>1. IsSeq(journal) /\ IsSeq(op.events) /\ IsSeq(s)
      BY <1>1, <1>3
    <2>2. /\ IsSeq(op.events \o s)
          /\ Extends(Emitted, journal \o (op.events \o s))
          /\ Len(journal \o (op.events \o s)) = Len(Emitted) + Len(s)
          /\ \A k \in 1 .. Len(s) : (journal \o (op.events \o s))[Len(Emitted) + k] = s[k]
      BY ONLY <2>1, JoinedTwice DEF Emitted
    <2>3. 1 \in 1 .. Len(s)
      BY <1>1
    <2>4. (journal \o (op.events \o s))[Len(Emitted) + 1] = s[1]
      BY ONLY <2>2, <2>3
    <2>5. QED
      BY <1>1, <2>2, <2>4
  <1>5. op.events \o s = s
    BY <1>1, <1>3 DEF IsSeq
  <1>6. Emitted' = journal \o (op.events \o s)
    BY <1>2, <1>5 DEF Emitted
  <1>7. OneMore(Emitted, Emitted', s[1])
    BY <1>4, <1>6 DEF OneMore
  <1>8. EventsInv'
    BY <1>1, <1>2, <1>3 DEF EventsInv
  <1>9. QED
    BY <1>1, <1>2, <1>7, <1>8

LEMMA ContinuingEmits ==
  ASSUME EngineInv, EventsInv, op.phase = "match", NEW bodies, Len(bodies) \in Nat,
         NEW phase \in {"match", "finish"}, NEW fill, Continue(bodies, phase, fill),
         journal' = journal
  PROVE  /\ EventsInv'
         /\ \/ op'.phase = "wedged" /\ Emitted' = Emitted
            \/ /\ op'.phase = phase /\ Extends(Emitted, Emitted')
               /\ Len(Emitted') = Len(Emitted) + Len(bodies)
               /\ \A k \in 1 .. Len(bodies) :
                    Marked(Emitted'[Len(Emitted) + k], op.seq + k - 1, op.at, bodies[k])
  <1>1. CASE Exhausted(bodies)
    <2>1. op' = [op EXCEPT !.phase = "wedged", !.fill = fill]
      BY <1>1 DEF Continue
    <2>2. op'.phase = "wedged" /\ op'.events = op.events
      BY <2>1 DEF EngineInv, OperationInv
    <2>3. QED
      BY <2>2 DEF EventsInv, Emitted
  <1>2. CASE ~Exhausted(bodies)
    <2> DEFINE s == Stamped(bodies, op.seq, op.at)
    <2>1. op' = [op EXCEPT !.phase = phase, !.fill = fill, !.events = @ \o s,
                           !.seq = @ + Len(bodies)]
      BY <1>2 DEF Continue
    <2>2. op'.phase = phase /\ op'.events = op.events \o s
      BY <2>1 DEF EngineInv, OperationInv
    <2>3. /\ IsSeq(s) /\ Len(s) = Len(bodies)
          /\ \A k \in 1 .. Len(bodies) : Marked(s[k], op.seq + k - 1, op.at, bodies[k])
      BY StampedFacts
    <2> HIDE DEF s
    <2>4. /\ IsSeq(op.events \o s)
          /\ Extends(Emitted, journal \o (op.events \o s))
          /\ Len(journal \o (op.events \o s)) = Len(Emitted) + Len(s)
          /\ \A k \in 1 .. Len(s) : (journal \o (op.events \o s))[Len(Emitted) + k] = s[k]
      <3>1. IsSeq(journal) /\ IsSeq(op.events) /\ IsSeq(s)
        BY <2>3 DEF EventsInv
      <3>2. QED
        BY ONLY <3>1, JoinedTwice DEF Emitted
    <2>5. Emitted' = journal \o (op.events \o s)
      BY <2>2 DEF Emitted
    <2>6. EventsInv'
      BY <2>2, <2>4 DEF EventsInv
    <2>7. QED
      BY <2>2, <2>3, <2>4, <2>5, <2>6
  <1>3. QED
    BY <1>1, <1>2

LEMMA OneIsEmitted ==
  ASSUME EngineInv, EventsInv, op.phase = "match", NEW body,
         NEW phase \in {"match", "finish"}, NEW fill, Continue(<<body>>, phase, fill),
         journal' = journal
  PROVE  /\ EventsInv'
         /\ \/ op'.phase = "wedged" /\ Emitted' = Emitted
            \/ /\ op'.phase = phase
               /\ \E e : OneMore(Emitted, Emitted', e) /\ Marked(e, op.seq, op.at, body)
  <1> DEFINE bodies == <<body>>
  <1>1. Len(bodies) = 1 /\ bodies[1] = body
    OBVIOUS
  <1> HIDE DEF bodies
  <1>2. Continue(bodies, phase, fill)
    BY DEF bodies
  <1>3. /\ EventsInv'
        /\ \/ op'.phase = "wedged" /\ Emitted' = Emitted
           \/ /\ op'.phase = phase /\ Extends(Emitted, Emitted')
              /\ Len(Emitted') = Len(Emitted) + 1
              /\ Marked(Emitted'[Len(Emitted) + 1], op.seq, op.at, body)
    <2>1. /\ EngineInv /\ EventsInv /\ op.phase = "match" /\ Len(bodies) \in Nat
          /\ phase \in {"match", "finish"} /\ journal' = journal
      BY <1>1
    <2>2. /\ EventsInv'
          /\ \/ op'.phase = "wedged" /\ Emitted' = Emitted
             \/ /\ op'.phase = phase /\ Extends(Emitted, Emitted')
                /\ Len(Emitted') = Len(Emitted) + Len(bodies)
                /\ \A k \in 1 .. Len(bodies) :
                     Marked(Emitted'[Len(Emitted) + k], op.seq + k - 1, op.at, bodies[k])
      BY ONLY <1>2, <2>1, ContinuingEmits
    <2>3. op.seq + 1 - 1 = op.seq /\ op.seq + 2 - 1 = op.seq + 1
      BY DEF EngineInv, CountersInv
    <2>4. QED
      BY <1>1, <2>2, <2>3
  <1>4. Extends(Emitted, Emitted') /\ Len(Emitted') = Len(Emitted) + 1
          => OneMore(Emitted, Emitted', Emitted'[Len(Emitted) + 1])
    BY DEF OneMore
  <1>5. QED
    BY <1>3, <1>4

LEMMA TwoAreEmitted ==
  ASSUME EngineInv, EventsInv, op.phase = "match", NEW first, NEW second,
         NEW fill, Continue(<<first, second>>, "match", fill), journal' = journal
  PROVE  /\ EventsInv'
         /\ \/ op'.phase = "wedged" /\ Emitted' = Emitted
            \/ /\ op'.phase = "match"
               /\ \E G, d, e : /\ OneMore(Emitted, G, d) /\ OneMore(G, Emitted', e)
                               /\ Marked(d, op.seq, op.at, first)
                               /\ Marked(e, op.seq + 1, op.at, second)
  <1> DEFINE bodies == <<first, second>>
             n == Len(Emitted)
             F == Emitted'
             G == [k \in 1 .. n + 1 |-> F[k]]
  <1>1. Len(bodies) = 2 /\ bodies[1] = first /\ bodies[2] = second
    OBVIOUS
  <1> HIDE DEF bodies
  <1>2. Continue(bodies, "match", fill)
    BY DEF bodies
  <1>3. /\ EventsInv'
        /\ \/ op'.phase = "wedged" /\ Emitted' = Emitted
           \/ /\ op'.phase = "match" /\ Extends(Emitted, F)
              /\ Len(F) = n + 2
              /\ Marked(F[n + 1], op.seq, op.at, first)
              /\ Marked(F[n + 2], op.seq + 1, op.at, second)
    <2>1. /\ EngineInv /\ EventsInv /\ op.phase = "match" /\ Len(bodies) \in Nat
          /\ "match" \in {"match", "finish"} /\ journal' = journal
      BY <1>1
    <2>2. /\ EventsInv'
          /\ \/ op'.phase = "wedged" /\ Emitted' = Emitted
             \/ /\ op'.phase = "match" /\ Extends(Emitted, Emitted')
                /\ Len(Emitted') = Len(Emitted) + Len(bodies)
                /\ \A k \in 1 .. Len(bodies) :
                     Marked(Emitted'[Len(Emitted) + k], op.seq + k - 1, op.at, bodies[k])
      BY ONLY <1>2, <2>1, ContinuingEmits
    <2>3. op.seq + 1 - 1 = op.seq /\ op.seq + 2 - 1 = op.seq + 1
      BY DEF EngineInv, CountersInv
    <2>4. QED
      BY <1>1, <2>2, <2>3
  <1> HIDE DEF F
  <1>4. ASSUME Extends(Emitted, F), Len(F) = n + 2
        PROVE  OneMore(Emitted, G, F[n + 1]) /\ OneMore(G, F, F[n + 2])
    <2>1. /\ IsSeq(Emitted) /\ IsSeq(F) /\ n \in Nat
          /\ \A k \in 1 .. n : F[k] = Emitted[k]
      BY <1>4, SeqFacts DEF Extends
    <2>2. /\ G \in Seq(Range(F)) /\ Len(G) = n + 1
          /\ \A k \in 1 .. n + 1 : G[k] = F[k]
      <3>1. \A k \in 1 .. n + 1 : F[k] \in Range(F)
        BY <1>4, <2>1, RangeFacts DEF IsSeq
      <3>2. QED
        BY <2>1, <3>1
    <2> HIDE DEF G
    <2>3. IsSeq(G)
      BY <2>2, AnySeq
    <2>4. Extends(Emitted, G) /\ Extends(G, F)
      BY <1>4, <2>1, <2>2, <2>3 DEF Extends
    <2>5. QED
      BY <1>4, <2>1, <2>2, <2>4 DEF OneMore
  <1> HIDE DEF G, n
  <1>5. QED
    BY <1>3, <1>4 DEF F

-----------------------------------------------------------------------------
(* Executions add up.  The strengthening: what counts names a tracked      *)
(* order, the limit an order has is the last one the journal set, and a    *)
(* market order has none.  An operation that wedged has moved remainders   *)
(* whose events were not emitted.                                          *)

TradeInv ==
  /\ EventsInv
  /\ MarketsUnpriced
  /\ Within(Emitted)
  /\ op.phase # "wedged" => Traded(Emitted, orders)

LEMMA TradeInit == Init => TradeInv
  <1> SUFFICES ASSUME Init PROVE TradeInv
    OBVIOUS
  <1>1. /\ journal = << >> /\ op.events = << >> /\ op.phase = "idle" /\ DOMAIN orders = {}
    BY DEF Init, Idle
  <1>2. EventsInv
    BY <1>1, NoEvents DEF EventsInv
  <1>3. Emitted = << >>
    <2>1. << >> \in Seq({})
      BY EmptySeq
    <2>2. << >> \o << >> = << >>
      BY ONLY <2>1, ConcatEmptySeq
    <2>3. QED
      BY <1>1, <2>2 DEF Emitted
  <1>4. DOMAIN Emitted = {}
    BY <1>3
  <1>5. Within(Emitted) /\ Paired(Emitted)
    BY <1>4 DEF Within, Paired
  <1>6. Traded(Emitted, orders)
    BY <1>1, <1>4, <1>5 DEF Traded, LegsTyped, Conserved, LimitsStand
  <1>7. QED
    BY <1>1, <1>2, <1>5, <1>6 DEF TradeInv, MarketsUnpriced

LEMMA OrderTyped ==
  ASSUME EngineInv, NEW id \in DOMAIN orders
  PROVE  /\ orders[id] \in Order
         /\ orders[id].remaining \in Nat /\ orders[id].quantity \in Nat
         /\ orders[id].price \in Prices \cup {Null}
  BY DEF EngineInv, OrdersInv, Order

(* The orders trade and are limited as before.                             *)
SameTrades ==
  /\ DOMAIN orders' = DOMAIN orders
  /\ \A id \in DOMAIN orders :
       /\ orders'[id].price = orders[id].price
       /\ orders'[id].quantity = orders[id].quantity
       /\ orders'[id].remaining = orders[id].remaining
       /\ orders'[id].order_type = orders[id].order_type

LEMMA QuietTrades ==
  ASSUME EngineInv, TradeInv, op.phase # "wedged", SameTrades, EventsInv',
         NEW e, OneMore(Emitted, Emitted', e), ~Counted(e), ~SetsLimit(e)
  PROVE  TradeInv'
  <1>1. Traded(Emitted, orders) /\ Within(Emitted)
    BY DEF TradeInv
  <1>2. /\ DOMAIN orders' = DOMAIN orders
        /\ \A id \in DOMAIN orders :
             /\ orders'[id].price = orders[id].price
             /\ orders'[id].quantity = orders[id].quantity
             /\ orders'[id].remaining = orders[id].remaining
             /\ orders[id].remaining \in Int
    BY OrderTyped DEF SameTrades
  <1>3. OneMore(Emitted, Emitted', e) /\ ~Counted(e) /\ ~SetsLimit(e)
    OBVIOUS
  <1>4. Traded(Emitted', orders') /\ Within(Emitted')
    BY ONLY <1>1, <1>2, <1>3, QuietEvent
  <1>5. MarketsUnpriced'
    BY DEF TradeInv, MarketsUnpriced, SameTrades
  <1>6. QED
    BY <1>4, <1>5 DEF TradeInv

(* What rests untouched by a step without events.                          *)
LEMMA SilentTrades ==
  ASSUME EngineInv, TradeInv, op.phase # "wedged", SameTrades, EventsInv',
         Emitted' = Emitted
  PROVE  TradeInv'
  <1>1. Traded(Emitted, orders) /\ Within(Emitted)
    BY DEF TradeInv
  <1>2. LegsTyped(Emitted, orders') /\ Conserved(Emitted, orders')
        /\ LimitsStand(Emitted, orders')
    BY <1>1 DEF SameTrades, Traded, LegsTyped, Conserved, LimitsStand
  <1>3. MarketsUnpriced'
    BY DEF TradeInv, MarketsUnpriced, SameTrades
  <1>4. Traded(Emitted', orders')
    BY <1>1, <1>2 DEF Traded
  <1>5. Within(Emitted')
    BY <1>1
  <1>6. QED
    BY <1>3, <1>4, <1>5 DEF TradeInv

(* A sweep that throws emits nothing more.                                 *)
LEMMA WedgedTrades ==
  ASSUME TradeInv, EventsInv', op'.phase = "wedged", Emitted' = Emitted, MarketsUnpriced'
  PROVE  TradeInv'
  <1>1. Within(Emitted')
    BY DEF TradeInv
  <1>2. QED
    BY <1>1 DEF TradeInv

LEMMA RejectedTrades ==
  ASSUME EngineInv, TradeInv, NEW now, BeginOperation(now),
         NEW id, NEW instrument, NEW side, NEW reason,
         RejectWith(now, id, instrument, side, reason)
  PROVE  TradeInv'
  <1> DEFINE body == RejectedBody(id, instrument, side, reason)
  <1>1. /\ OpenWith(now, "finish", Null, body) /\ orders' = orders /\ journal' = journal
    BY DEF RejectWith
  <1>2. body.type = "rejected"
    BY DEF RejectedBody
  <1> HIDE DEF body
  <1>3. PICK e : OneMore(Emitted, Emitted', e) /\ e.body = body
    BY <1>1, OpeningEmits DEF TradeInv, Marked
  <1>4. EventsInv'
    BY <1>1, OpeningEmits DEF TradeInv, Marked
  <1>5. ~Counted(e) /\ ~SetsLimit(e)
    BY <1>2, <1>3 DEF Counted, IsFill, SetsLimit
  <1>6. SameTrades
    BY <1>1 DEF SameTrades
  <1>7. op.phase # "wedged"
    BY DEF BeginOperation
  <1>8. QED
    BY <1>3, <1>4, <1>5, <1>6, <1>7, QuietTrades

LEMMA SubmitTrades ==
  ASSUME EngineInv, TradeInv, NEW now \in Times, NEW o \in Submissions,
         SubmitAccepted(o, now)
  PROVE  TradeInv'
  <1> DEFINE id == o.order_id
             body == AcceptedBody(o)
             new == [instrument |-> o.instrument, side |-> o.side,
                     order_type |-> o.type, owner |-> o.owner,
                     price |-> o.price, quantity |-> o.quantity,
                     remaining |-> o.quantity, state |-> "resting"]
  <1>1. /\ BeginOperation(now) /\ Passes(SubmitChecks(o))
        /\ orders' = Put(orders, id, new)
        /\ OpenWith(now, "match", id, body) /\ journal' = journal
    BY DEF SubmitAccepted
  <1>2. /\ id \notin DOMAIN orders /\ o.quantity \in Nat
        /\ o.type = "market" => o.price = Null
    BY <1>1, SubmitPasses
  <1>3. /\ DOMAIN orders' = DOMAIN orders \cup {id} /\ orders'[id] = new
        /\ \A x \in DOMAIN orders \ {id} : orders'[x] = orders[x]
    BY <1>1 DEF Put
  <1>4. /\ body.type = "accepted" /\ body.order_id = id /\ body.price = new.price
        /\ new.remaining = new.quantity /\ new.remaining \in Int /\ new.quantity \in Int
        /\ new.order_type = "market" => new.price = Null
    BY <1>2 DEF AcceptedBody
  <1> HIDE DEF body, new, id
  <1>5. PICK e : OneMore(Emitted, Emitted', e) /\ e.body = body
    BY <1>1, OpeningEmits DEF TradeInv, Marked
  <1>6. EventsInv'
    BY <1>1, OpeningEmits DEF TradeInv, Marked
  <1>7. Traded(Emitted, orders) /\ Within(Emitted)
    BY <1>1 DEF TradeInv, BeginOperation
  <1>8. /\ ~Counted(e) /\ SetsLimit(e) /\ e.body.order_id = id
        /\ e.body.price = orders'[id].price
    BY <1>3, <1>4, <1>5 DEF Counted, IsFill, SetsLimit
  <1>9. \A x \in DOMAIN orders : orders[x].remaining \in Int /\ orders[x].quantity \in Int
    BY OrderTyped
  <1>10. /\ orders'[id].remaining \in Int /\ orders'[id].quantity \in Int
         /\ id \in DOMAIN orders => orders'[id].quantity - orders'[id].remaining
                                      = orders[id].quantity - orders[id].remaining
         /\ id \notin DOMAIN orders => orders'[id].remaining = orders'[id].quantity
    BY <1>2, <1>3, <1>4 DEF id
  <1>11. Traded(Emitted', orders') /\ Within(Emitted')
    BY ONLY <1>3, <1>5, <1>7, <1>8, <1>9, <1>10, LimitEvent
  <1>12. MarketsUnpriced'
    BY <1>3, <1>4 DEF TradeInv, MarketsUnpriced
  <1>13. QED
    BY <1>6, <1>11, <1>12 DEF TradeInv

LEMMA CancelTrades ==
  ASSUME EngineInv, TradeInv, NEW now \in Times, NEW c \in Cancellations,
         CancelAccepted(c, now)
  PROVE  TradeInv'
  <1> DEFINE id == c.order_id
             body == CancelledBody(id, orders[id])
  <1>1. /\ BeginOperation(now) /\ Passes(CancelChecks(c))
        /\ orders' = [orders EXCEPT ![id].state = "cancelled", ![id].remaining = 0]
        /\ OpenWith(now, "finish", Null, body) /\ journal' = journal
    BY DEF CancelAccepted
  <1>2. id \in DOMAIN orders
    BY <1>1, CancelPasses DEF EngineInv, BooksInv
  <1>3. orders[id] \in Order /\ orders[id].remaining \in Nat
    BY <1>2, OrderTyped
  <1>4. /\ DOMAIN orders' = DOMAIN orders
        /\ \A x \in DOMAIN orders \ {id} : orders'[x] = orders[x]
        /\ orders'[id] = [orders[id] EXCEPT !.state = "cancelled", !.remaining = 0]
    BY <1>1, <1>2
  <1>5. /\ orders'[id].price = orders[id].price /\ orders'[id].remaining = 0
        /\ orders'[id].quantity = orders[id].quantity
        /\ orders'[id].order_type = orders[id].order_type
    BY <1>3, <1>4 DEF Order
  <1>6. /\ body.type = "cancelled" /\ body.order_id = id
        /\ body.quantity = orders[id].remaining
    BY DEF CancelledBody
  <1> HIDE DEF body, id
  <1>7. PICK e : OneMore(Emitted, Emitted', e) /\ e.body = body
    BY <1>1, OpeningEmits DEF TradeInv, Marked
  <1>8. EventsInv'
    BY <1>1, OpeningEmits DEF TradeInv, Marked
  <1>9. Traded(Emitted, orders) /\ Within(Emitted)
    BY <1>1 DEF TradeInv, BeginOperation
  <1>10. /\ e.body.type = "cancelled" /\ e.body.order_id = id
         /\ e.body.quantity = orders[id].remaining
    BY <1>6, <1>7
  <1>11. \A x \in DOMAIN orders : orders[x].remaining \in Int
    BY OrderTyped
  <1>12. Traded(Emitted', orders') /\ Within(Emitted')
    <2>1. /\ OneMore(Emitted, Emitted', e) /\ e.body.type = "cancelled"
          /\ e.body.order_id = id /\ e.body.quantity = orders[id].remaining
          /\ DOMAIN orders' = DOMAIN orders
          /\ \A x \in DOMAIN orders \ {id} : orders'[x] = orders[x]
          /\ orders'[id].price = orders[id].price
          /\ orders'[id].quantity = orders[id].quantity
          /\ orders'[id].remaining = 0 /\ orders[id].remaining \in Nat
      BY <1>3, <1>4, <1>5, <1>7, <1>10
    <2>2. QED
      BY ONLY <1>2, <1>9, <1>11, <2>1, CancelEvent
  <1>13. MarketsUnpriced'
    BY <1>2, <1>4, <1>5, ZenonT(30) DEF TradeInv, MarketsUnpriced
  <1>14. QED
    BY <1>8, <1>12, <1>13 DEF TradeInv

LEMMA AmendTrades ==
  ASSUME EngineInv, TradeInv, NEW now \in Times, NEW a \in Amendments,
         BeginOperation(now), Passes(AmendChecks(a)), orders' = Amended(a),
         NEW phase \in {"match", "finish"}, NEW taker,
         OpenWith(now, phase, taker,
           AmendedBody(a.order_id, orders[a.order_id], NewPrice(a), NewTotal(a))),
         journal' = journal
  PROVE  TradeInv'
  <1> DEFINE id == a.order_id
             o == orders[id]
             price == NewPrice(a)
             total == NewTotal(a)
             body == AmendedBody(id, o, price, total)
  <1>1. id \in DOMAIN orders /\ o.order_type = "limit"
    BY AmendedOrder
  <1>2. o \in Order /\ o.remaining \in Nat /\ o.quantity \in Nat
    BY <1>1, OrderTyped
  <1>3. total \in Int /\ Executed(id) = o.quantity - o.remaining
    BY <1>2, AmendPasses DEF NewTotal, Executed
  <1>4. orders' = [orders EXCEPT ![id].price = price, ![id].quantity = total,
                                 ![id].remaining = total - Executed(id)]
    BY DEF Amended
  <1> HIDE DEF price, total
  <1>5. /\ DOMAIN orders' = DOMAIN orders
        /\ \A x \in DOMAIN orders \ {id} : orders'[x] = orders[x]
        /\ orders'[id] = [o EXCEPT !.price = price, !.quantity = total,
                                   !.remaining = total - Executed(id)]
    BY <1>1, <1>4
  <1>6. /\ orders'[id].price = price /\ orders'[id].quantity = total
        /\ orders'[id].remaining = total - (o.quantity - o.remaining)
        /\ orders'[id].order_type = "limit"
    BY <1>1, <1>2, <1>3, <1>5 DEF Order
  <1>7. body.type = "amended" /\ body.order_id = id /\ body.price = price
    BY DEF AmendedBody
  <1>8. OpenWith(now, phase, taker, body)
    BY DEF price, total
  <1> HIDE DEF body, id
  <1>9. PICK e : OneMore(Emitted, Emitted', e) /\ e.body = body
    BY <1>8, OpeningEmits DEF TradeInv, Marked
  <1>10. EventsInv'
    BY <1>8, OpeningEmits DEF TradeInv, Marked
  <1>11. Traded(Emitted, orders) /\ Within(Emitted)
    BY DEF TradeInv, BeginOperation
  <1>12. /\ ~Counted(e) /\ SetsLimit(e) /\ e.body.order_id = id
         /\ e.body.price = orders'[id].price
    BY <1>6, <1>7, <1>9 DEF Counted, IsFill, SetsLimit
  <1>13. \A x \in DOMAIN orders : orders[x].remaining \in Int /\ orders[x].quantity \in Int
    BY OrderTyped
  <1>14. /\ orders'[id].remaining \in Int /\ orders'[id].quantity \in Int
         /\ id \in DOMAIN orders => orders'[id].quantity - orders'[id].remaining
                                      = orders[id].quantity - orders[id].remaining
         /\ id \notin DOMAIN orders => orders'[id].remaining = orders'[id].quantity
    BY <1>1, <1>2, <1>3, <1>6
  <1>15. DOMAIN orders' = DOMAIN orders \cup {id}
    BY <1>1, <1>5
  <1>16. Traded(Emitted', orders') /\ Within(Emitted')
    <2>1. /\ OneMore(Emitted, Emitted', e)
          /\ \A x \in DOMAIN orders \ {id} : orders'[x] = orders[x]
      BY <1>5, <1>9
    <2>2. QED
      BY ONLY <1>11, <1>12, <1>13, <1>14, <1>15, <2>1, LimitEvent
  <1>17. MarketsUnpriced'
    <2>1. \A x \in DOMAIN orders' : orders'[x].order_type = "market" =>
            x \in DOMAIN orders /\ orders'[x] = orders[x]
      BY <1>5, <1>6
    <2>2. QED
      BY <2>1 DEF TradeInv, MarketsUnpriced
  <1>18. QED
    BY <1>10, <1>16, <1>17 DEF TradeInv

-----------------------------------------------------------------------------
(* The sweep.                                                              *)

(* The taker leaves the sweep, or the operation, by one event that moves   *)
(* no units.                                                               *)
LEMMA TakerSettlesTrades ==
  ASSUME EngineInv, TradeInv, op.phase = "match", SameTrades,
         NEW body, body.type \in {"rejected", "resting"},
         Continue(<<body>>, "finish", op.fill), journal' = journal
  PROVE  TradeInv'
  <1>1. /\ EventsInv'
        /\ \/ op'.phase = "wedged" /\ Emitted' = Emitted
           \/ \E e : OneMore(Emitted, Emitted', e) /\ e.body = body
    BY OneIsEmitted DEF TradeInv, Marked
  <1>2. CASE op'.phase = "wedged" /\ Emitted' = Emitted
    <2>1. MarketsUnpriced'
      BY DEF TradeInv, MarketsUnpriced, SameTrades
    <2>2. QED
      BY <1>1, <1>2, <2>1, WedgedTrades
  <1>3. ASSUME NEW e, OneMore(Emitted, Emitted', e), e.body = body
        PROVE  TradeInv'
    <2>1. ~Counted(e) /\ ~SetsLimit(e)
      BY <1>3 DEF Counted, IsFill, SetsLimit
    <2>2. QED
      BY <1>1, <1>3, <2>1, QuietTrades
  <1>4. QED
    BY <1>1, <1>2, <1>3

LEMMA StateChange ==
  ASSUME EngineInv, NEW id \in DOMAIN orders, NEW state,
         orders' = [orders EXCEPT ![id].state = state]
  PROVE  SameTrades
  <1>1. /\ DOMAIN orders' = DOMAIN orders
        /\ orders'[id] = [orders[id] EXCEPT !.state = state]
        /\ \A x \in DOMAIN orders \ {id} : orders'[x] = orders[x]
    OBVIOUS
  <1>2. /\ orders'[id].price = orders[id].price
        /\ orders'[id].quantity = orders[id].quantity
        /\ orders'[id].remaining = orders[id].remaining
        /\ orders'[id].order_type = orders[id].order_type
    BY <1>1, OrderTyped DEF Order
  <1>3. QED
    BY <1>1, <1>2 DEF SameTrades

LEMMA SelfTradeTrades ==
  ASSUME EngineInv, TradeInv, MatchSelfTrade
  PROVE  TradeInv'
  <1> DEFINE body == TerminalBody(op.taker, orders[op.taker], "self_trade")
  <1>1. /\ op.phase = "match" /\ Continue(<<body>>, "finish", op.fill)
        /\ orders' = [orders EXCEPT ![op.taker].state = "rejected"]
        /\ journal' = journal
    BY DEF MatchSelfTrade, Sweeping
  <1>2. body.type = "rejected"
    BY DEF TerminalBody, RejectedBody
  <1> HIDE DEF body
  <1>3. SameTrades
    BY <1>1, TakerFacts, StateChange
  <1>4. QED
    BY <1>1, <1>2, <1>3, TakerSettlesTrades

LEMMA RunsDryTrades ==
  ASSUME EngineInv, TradeInv, MatchRunsDry
  PROVE  TradeInv'
  <1> DEFINE body == TerminalBody(op.taker, orders[op.taker], "insufficient_liquidity")
  <1>1. /\ op.phase = "match" /\ Continue(<<body>>, "finish", op.fill)
        /\ orders' = [orders EXCEPT ![op.taker].state = "rejected"]
        /\ journal' = journal
    BY DEF MatchRunsDry, Sweeping
  <1>2. body.type = "rejected"
    BY DEF TerminalBody, RejectedBody
  <1> HIDE DEF body
  <1>3. SameTrades
    BY <1>1, TakerFacts, StateChange
  <1>4. QED
    BY <1>1, <1>2, <1>3, TakerSettlesTrades

LEMMA RestsTrades ==
  ASSUME EngineInv, TradeInv, MatchRests
  PROVE  TradeInv'
  <1> DEFINE body == RestingBody(op.taker, orders[op.taker])
  <1>1. /\ op.phase = "match" /\ Continue(<<body>>, "finish", op.fill)
        /\ orders' = orders /\ journal' = journal
    BY DEF MatchRests, Sweeping
  <1>2. body.type = "resting"
    BY DEF RestingBody
  <1> HIDE DEF body
  <1>3. SameTrades
    BY <1>1 DEF SameTrades
  <1>4. QED
    BY <1>1, <1>2, <1>3, TakerSettlesTrades

LEMMA CompletesTrades ==
  ASSUME EngineInv, TradeInv, MatchCompletes
  PROVE  TradeInv'
  <1>1. /\ op.phase = "match" /\ op' = [op EXCEPT !.phase = "finish"]
        /\ orders' = [orders EXCEPT ![op.taker].state = "filled"]
        /\ journal' = journal
    BY DEF MatchCompletes
  <1>2. op'.phase = "finish" /\ op'.events = op.events
    BY <1>1 DEF EngineInv, OperationInv
  <1>3. Emitted' = Emitted /\ EventsInv'
    BY <1>1, <1>2 DEF Emitted, TradeInv, EventsInv
  <1>4. SameTrades
    BY <1>1, TakerFacts, StateChange
  <1>5. QED
    BY <1>1, <1>3, <1>4, SilentTrades

(* One execution: two legs at the price of the maker, which the taker      *)
(* crosses.                                                                *)
LEMMA FillTrades ==
  ASSUME EngineInv, QueueInv, TradeInv, MatchFill
  PROVE  TradeInv'
  <1> DEFINE taker == op.taker
             o == orders[taker]
  <1>1. op.phase = "match" /\ journal' = journal
    BY DEF MatchFill, Sweeping
  <1>2. PICK p \in Prices :
          LET maker  == MakerAt(o, p)
              units  == Lesser(o.remaining, orders[maker].remaining)
              moved  == [orders EXCEPT ![maker].remaining = @ - units,
                                       ![taker].remaining = @ - units]
              bodies ==
                << FillBody(maker, moved[maker], maker, taker, op.fill, p, units),
                   FillBody(taker, moved[taker], maker, taker, op.fill, p, units) >>
              gone   == ~Exhausted(bodies) /\ moved[maker].remaining = 0
          IN  /\ Facing(o, p)
              /\ Continue(bodies, "match", op.fill + 1)
              /\ orders' = IF gone THEN [moved EXCEPT ![maker].state = "filled"]
                           ELSE moved
    BY DEF MatchFill
  <1> DEFINE maker  == MakerAt(o, p)
             units  == Lesser(o.remaining, orders[maker].remaining)
             moved  == [orders EXCEPT ![maker].remaining = @ - units,
                                      ![taker].remaining = @ - units]
             first  == FillBody(maker, moved[maker], maker, taker, op.fill, p, units)
             second == FillBody(taker, moved[taker], maker, taker, op.fill, p, units)
             gone   == ~Exhausted(<<first, second>>) /\ moved[maker].remaining = 0
  <1>3. /\ Facing(o, p)
        /\ Continue(<<first, second>>, "match", op.fill + 1)
        /\ orders' = IF gone THEN [moved EXCEPT ![maker].state = "filled"] ELSE moved
    BY <1>2
  <1>4. /\ maker \in DOMAIN orders \ {taker} /\ taker \in DOMAIN orders
        /\ orders[maker] \in Order /\ o \in Order
        /\ p \in Live(books[o.instrument], Opposite(o.side)) /\ Crosses(o, p)
    BY <1>1, <1>3, TakerFacts, MakerFacts DEF Facing, Matchable
  <1>5. orders[maker].side = Opposite(o.side) /\ orders[maker].price = p
    <2> DEFINE b == books[o.instrument]
               side == Opposite(o.side)
    <2>1. books \in [Instruments -> Book] /\ o.instrument \in Instruments /\ side \in Sides
      BY <1>1, <1>4, TakerFacts DEF Order, Opposite, Sides
    <2>2. b.levels[side][p] \in Seq(OrderIds) /\ b.levels[side][p] # << >>
      BY <1>4, <2>1, BookFacts DEF Live
    <2>3. maker \in Queued(b, side, p)
      BY <2>2, TailFacts DEF MakerAt, HeadOf, Queued
    <2>4. QED
      BY <1>1, <2>1, <2>3 DEF QueueInv, QueuesHoldResting, Holds
  <1> HIDE DEF maker, first, second, gone
  <1>6. /\ units \in Nat /\ orders[maker].remaining \in Nat /\ o.remaining \in Nat
    BY <1>4 DEF Lesser, Order
  <1>7. /\ DOMAIN moved = DOMAIN orders
        /\ moved[maker] = [orders[maker] EXCEPT !.remaining = orders[maker].remaining - units]
        /\ moved[taker] = [o EXCEPT !.remaining = o.remaining - units]
        /\ \A x \in DOMAIN orders \ {maker, taker} : moved[x] = orders[x]
    BY <1>4
  <1> HIDE DEF units, moved
  <1>8. \A x \in {maker, taker} :
          /\ moved[x].price = orders[x].price /\ moved[x].quantity = orders[x].quantity
          /\ moved[x].order_type = orders[x].order_type /\ moved[x].side = orders[x].side
          /\ moved[x].remaining = orders[x].remaining - units
    BY <1>4, <1>7 DEF Order
  <1>9. /\ DOMAIN orders' = DOMAIN orders
        /\ \A x \in DOMAIN orders \ {maker, taker} : orders'[x] = orders[x]
        /\ orders'[taker] = moved[taker]
        /\ orders'[maker] = IF gone THEN [moved[maker] EXCEPT !.state = "filled"]
                            ELSE moved[maker]
    BY <1>3, <1>4, <1>7
  <1>10. \A x \in {maker, taker} :
          /\ orders'[x].price = orders[x].price /\ orders'[x].quantity = orders[x].quantity
          /\ orders'[x].order_type = orders[x].order_type
          /\ orders'[x].remaining = orders[x].remaining - units
    <2>1. \A x \in {taker} :
          /\ orders'[x].price = orders[x].price /\ orders'[x].quantity = orders[x].quantity
          /\ orders'[x].order_type = orders[x].order_type
          /\ orders'[x].remaining = orders[x].remaining - units
      BY <1>8, <1>9
    <2>2. /\ orders'[maker].price = moved[maker].price
          /\ orders'[maker].quantity = moved[maker].quantity
          /\ orders'[maker].order_type = moved[maker].order_type
          /\ orders'[maker].remaining = moved[maker].remaining
      BY <1>4, <1>7, <1>9 DEF Order
    <2>3. QED
      BY <1>8, <2>1, <2>2
  <1>11. MarketsUnpriced'
    BY <1>4, <1>9, <1>10 DEF TradeInv, MarketsUnpriced
  <1>12. /\ EventsInv'
         /\ \/ op'.phase = "wedged" /\ Emitted' = Emitted
            \/ \E G, d, e : /\ OneMore(Emitted, G, d) /\ OneMore(G, Emitted', e)
                            /\ d.body = first /\ e.body = second
    BY <1>1, <1>3, TwoAreEmitted DEF TradeInv, Marked
  <1>13. CASE op'.phase = "wedged" /\ Emitted' = Emitted
    BY <1>11, <1>12, <1>13, WedgedTrades
  <1>14. ASSUME NEW G, NEW d, NEW e, OneMore(Emitted, G, d), OneMore(G, Emitted', e),
                d.body = first, e.body = second
         PROVE  TradeInv'
    <2>1. Traded(Emitted, orders) /\ Within(Emitted)
      BY <1>1 DEF TradeInv
    <2>2. /\ first.type \in {"filled", "partially_filled"} /\ first.order_id = maker
          /\ first.side = orders[maker].side /\ first.fill_id = op.fill
          /\ first.price = p /\ first.quantity = units
          /\ second.type \in {"filled", "partially_filled"} /\ second.order_id = taker
          /\ second.side = o.side /\ second.fill_id = op.fill
          /\ second.price = p /\ second.quantity = units
      BY <1>8 DEF first, second, FillBody
    <2>3. /\ OneMore(Emitted, G, d) /\ OneMore(G, Emitted', e)
          /\ IsFill(d) /\ IsFill(e)
          /\ d.body.order_id = maker /\ e.body.order_id = taker
          /\ d.body.fill_id = e.body.fill_id /\ d.body.side # e.body.side
          /\ d.body.price = e.body.price
          /\ d.body.quantity = units /\ e.body.quantity = units
      <3>1. orders[maker].side # o.side
        BY <1>4, <1>5 DEF Order, Sides, Opposite
      <3>2. QED
        BY <1>14, <2>2, <3>1 DEF IsFill
    <2>4. Bounded(d.body, orders[maker].price)
      <3>1. p \in Nat
        BY EventConstants
      <3>2. p <= p /\ p >= p
        BY <3>1
      <3>3. QED
        BY <1>5, <1>14, <2>2, <3>2 DEF Bounded
    <2>5. Bounded(e.body, orders[taker].price)
      <3>1. CASE o.order_type = "market"
        BY <1>4, <3>1 DEF TradeInv, MarketsUnpriced, Bounded
      <3>2. CASE o.order_type = "limit"
        <4>1. AsGood(Opposite(o.side), p, o.price) /\ o.side \in Sides
          BY <1>4, <3>2 DEF Crosses, Order
        <4>2. IF o.side = "buy" THEN p <= o.price ELSE p >= o.price
          BY <4>1 DEF AsGood, Opposite, Sides
        <4>3. QED
          BY <1>14, <2>2, <4>2 DEF Bounded
      <3>3. QED
        BY <1>4, <3>1, <3>2 DEF Order
    <2>6. /\ DOMAIN orders' = DOMAIN orders
          /\ \A x \in DOMAIN orders :
               /\ orders'[x].price = orders[x].price
               /\ orders'[x].quantity = orders[x].quantity
               /\ orders[x].remaining \in Int
               /\ orders'[x].remaining =
                    IF x \in {maker, taker} THEN orders[x].remaining - units
                    ELSE orders[x].remaining
      <3>1. ASSUME NEW x \in DOMAIN orders
            PROVE  /\ orders'[x].price = orders[x].price
                   /\ orders'[x].quantity = orders[x].quantity
                   /\ orders[x].remaining \in Int
                   /\ orders'[x].remaining =
                        IF x \in {maker, taker} THEN orders[x].remaining - units
                        ELSE orders[x].remaining
        <4>1. orders[x].remaining \in Int
          BY OrderTyped
        <4>2. CASE x \in {maker, taker}
          BY <1>10, <4>1, <4>2
        <4>3. CASE x \notin {maker, taker}
          BY <1>9, <4>1, <4>3
        <4>4. QED
          BY <4>2, <4>3
      <3>2. QED
        BY <1>9, <3>1
    <2>7. maker \in DOMAIN orders /\ taker \in DOMAIN orders /\ maker # taker /\ units \in Nat
      BY <1>4, <1>6
    <2>8. Traded(Emitted', orders') /\ Within(Emitted')
      BY ONLY <2>1, <2>3, <2>4, <2>5, <2>6, <2>7, FillEvents
    <2>9. QED
      BY <1>11, <1>12, <2>8 DEF TradeInv
  <1>15. QED
    BY <1>12, <1>13, <1>14

-----------------------------------------------------------------------------
(* Every step.                                                             *)

LEMMA CommitTrades ==
  ASSUME EngineInv, TradeInv, Commit
  PROVE  TradeInv'
  <1>1. /\ op.phase = "finish" /\ orders' = orders
        /\ journal' = journal \o op.events /\ op'.events = << >> /\ op'.phase = "idle"
    BY DEF Commit, Idle
  <1>2. IsSeq(journal') /\ IsSeq(op'.events)
    BY <1>1, Joined, NoEvents DEF TradeInv, EventsInv, Extends
  <1>3. EventsInv'
    BY <1>1, <1>2 DEF EventsInv
  <1>4. Emitted' = Emitted
    <2>1. Emitted' = journal' \o << >>
      BY <1>1 DEF Emitted
    <2>2. journal' \o << >> = journal'
      BY <1>2, ConcatEmptySeq DEF IsSeq
    <2>3. QED
      BY <1>1, <2>1, <2>2 DEF Emitted
  <1>5. SameTrades
    BY <1>1 DEF SameTrades
  <1>6. QED
    BY <1>1, <1>3, <1>4, <1>5, SilentTrades

LEMMA TradeNext ==
  ASSUME EngineInv, QueueInv, TradeInv, [Next]_vars
  PROVE  TradeInv'
  <1>1. ASSUME NEW now \in Times, NEW o \in Submissions, SubmitOrder(o, now)
        PROVE  TradeInv'
    BY <1>1, SubmitTrades, RejectedTrades DEF SubmitOrder, SubmitRejected
  <1>2. ASSUME NEW now \in Times, NEW c \in Cancellations, CancelOrder(c, now)
        PROVE  TradeInv'
    BY <1>2, CancelTrades, RejectedTrades DEF CancelOrder, CancelRejected
  <1>3. ASSUME NEW now \in Times, NEW a \in Amendments, AmendOrder(a, now)
        PROVE  TradeInv'
    <2>1. CASE AmendRejected(a, now)
      <3>1. BeginOperation(now)
        BY <2>1 DEF AmendRejected
      <3>2. \E id, instrument, side, reason :
              RejectWith(now, id, instrument, side, reason)
        BY <2>1 DEF AmendRejected
      <3>3. QED
        BY <3>1, <3>2, RejectedTrades
    <2>2. CASE AmendInPlace(a, now)
      <3>1. /\ BeginOperation(now) /\ Passes(AmendChecks(a)) /\ orders' = Amended(a)
            /\ OpenWith(now, "finish", Null,
                 AmendedBody(a.order_id, orders[a.order_id], NewPrice(a), NewTotal(a)))
            /\ journal' = journal
        BY <2>2 DEF AmendInPlace
      <3>2. QED
        BY <3>1, AmendTrades
    <2>3. CASE AmendRequeued(a, now)
      <3>1. /\ BeginOperation(now) /\ Passes(AmendChecks(a)) /\ orders' = Amended(a)
            /\ OpenWith(now, "match", a.order_id,
                 AmendedBody(a.order_id, orders[a.order_id], NewPrice(a), NewTotal(a)))
            /\ journal' = journal
        BY <2>3 DEF AmendRequeued
      <3>2. QED
        BY <3>1, AmendTrades
    <2>4. QED
      BY <1>3, <2>1, <2>2, <2>3 DEF AmendOrder
  <1>4. CASE MatchTaker
    BY <1>4, SelfTradeTrades, FillTrades, RestsTrades, RunsDryTrades, CompletesTrades
    DEF MatchTaker
  <1>5. CASE UNCHANGED vars
    <2>1. orders' = orders /\ journal' = journal /\ op' = op
      BY <1>5 DEF vars
    <2>2. Emitted' = Emitted
      BY <2>1 DEF Emitted
    <2>3. EventsInv' /\ MarketsUnpriced'
      BY <2>1 DEF TradeInv, EventsInv, MarketsUnpriced
    <2>4. QED
      BY <2>1, <2>2, <2>3 DEF TradeInv
  <1>6. QED
    BY <1>1, <1>2, <1>3, <1>4, <1>5, CommitTrades DEF Next, Call

LEMMA TradeAlways == Spec => []TradeInv
  BY TradeInit, TradeNext, EngineInvAlways, QueueAlways, PTL DEF Spec

LEMMA TradedConserves ==
  ASSUME TradeInv
  PROVE  QuantityConserved
  <1> SUFFICES ASSUME op.phase # "wedged"
               PROVE  /\ \A id \in DOMAIN orders :
                           FilledUnits(id) + CancelledUnits(id) + orders[id].remaining
                             = orders[id].quantity
                      /\ Paired(Emitted)
    BY DEF QuantityConserved, Paired
  <1>1. Traded(Emitted, orders)
    BY DEF TradeInv
  <1>2. ASSUME NEW id \in DOMAIN orders
        PROVE  /\ FilledUnits(id) = Units(Emitted, FillsOf(Emitted, id))
               /\ CancelledUnits(id) = Units(Emitted, CancelsOf(Emitted, id))
    BY DEF FilledUnits, CancelledUnits, Units, FillsOf, CancelsOf
  <1>3. QED
    BY <1>1, <1>2 DEF Traded, Conserved

LEMMA WithinIsWithin ==
  ASSUME TradeInv
  PROVE  WithinLimits
  <1> DEFINE E == Emitted
  <1>1. Within(E) /\ IsSeq(E)
    BY Joined DEF TradeInv, EventsInv, Emitted, Extends
  <1>2. DOMAIN E = 1 .. Len(E) /\ Len(E) \in Nat
    BY <1>1, SeqFacts
  <1>3. ASSUME NEW n \in DOMAIN E, IsFill(E[n])
        PROVE  Bounded(E[n].body, LimitBefore(E[n].body.order_id, n))
    <2> DEFINE id == E[n].body.order_id
               set == {k \in 1 .. n - 1 : /\ E[k].body.type \in {"accepted", "amended"}
                                          /\ E[k].body.order_id = id}
    <2>1. PICK k \in 1 .. n - 1 :
            LastSetAt(E, id, n, k) /\ Bounded(E[n].body, E[k].body.price)
      BY <1>1, <1>3 DEF Within, HasLimit
    <2>2. k \in set /\ \A j \in set : j <= k
      BY <2>1 DEF LastSetAt, SetsLimit
    <2>3. set \subseteq Nat
      BY <1>2
    <2>4. LimitBefore(id, n) = E[Max(set)].body.price
      BY DEF LimitBefore
    <2> HIDE DEF set
    <2>5. Max(set) = k
      BY <2>2, <2>3, MaxIs
    <2>6. QED
      BY <2>1, <2>4, <2>5
  <1>4. QED
    BY <1>3 DEF WithinLimits, Bounded

(* Executions add up: an order executed its quantity less its remainder    *)
(* and less what a cancel took out, the two legs of an execution move one  *)
(* amount at one price, and no leg is worse than the limit in force.       *)
THEOREM ExecutionsConserve == Spec => []ExecutionsAddUp
  <1>1. TradeInv => ExecutionsAddUp
    BY TradedConserves, WithinIsWithin DEF ExecutionsAddUp
  <1>2. QED
    BY <1>1, TradeAlways, PTL

-----------------------------------------------------------------------------
(* Price/time priority.  What the operations on sequences keep of the      *)
(* order of their entries.                                                 *)
LEMMA AppendInOrder ==
  ASSUME NEW S, NEW s \in Seq(S), NEW z \in S, NEW x, NEW y
  PROVE  InOrder(Append(s, z), x, y) <=> InOrder(s, x, y) \/ (x \in Range(s) /\ y = z)
  <1> DEFINE t == Append(s, z)
  <1>1. /\ Len(t) = Len(s) + 1 /\ Len(s) \in Nat
        /\ \A k \in 1 .. Len(s) : t[k] = s[k]
        /\ t[Len(s) + 1] = z
    OBVIOUS
  <1>2. x \in Range(s) <=> \E j \in 1 .. Len(s) : s[j] = x
    BY RangeFacts
  <1> HIDE DEF t
  <1>3. ASSUME NEW j \in 1 .. Len(t), NEW k \in 1 .. Len(t), j < k, t[j] = x, t[k] = y
        PROVE  InOrder(s, x, y) \/ (x \in Range(s) /\ y = z)
    <2>1. j \in 1 .. Len(s) /\ s[j] = x
      BY <1>1, <1>3
    <2>2. CASE k = Len(s) + 1
      BY <1>1, <1>2, <1>3, <2>1, <2>2
    <2>3. CASE k # Len(s) + 1
      <3>1. k \in 1 .. Len(s) /\ s[k] = y
        BY <1>1, <1>3, <2>3
      <3>2. QED
        BY <1>3, <2>1, <3>1 DEF InOrder
    <2>4. QED
      BY <2>2, <2>3
  <1>4. ASSUME InOrder(s, x, y)
        PROVE  InOrder(t, x, y)
    <2>1. PICK j, k \in 1 .. Len(s) : j < k /\ s[j] = x /\ s[k] = y
      BY <1>4 DEF InOrder
    <2>2. j \in 1 .. Len(t) /\ k \in 1 .. Len(t) /\ t[j] = x /\ t[k] = y
      BY <1>1, <2>1
    <2>3. QED
      BY <2>1, <2>2 DEF InOrder
  <1>5. ASSUME x \in Range(s), y = z
        PROVE  InOrder(t, x, y)
    <2>1. PICK j \in 1 .. Len(s) : s[j] = x
      BY <1>2, <1>5
    <2>2. /\ j \in 1 .. Len(t) /\ Len(s) + 1 \in 1 .. Len(t) /\ j < Len(s) + 1
          /\ t[j] = x /\ t[Len(s) + 1] = y
      BY <1>1, <1>5, <2>1
    <2>3. QED
      BY <2>2 DEF InOrder
  <1>6. QED
    BY <1>3, <1>4, <1>5 DEF t, InOrder

LEMMA TailInOrder ==
  ASSUME NEW S, NEW s \in Seq(S), s # << >>, NEW x, NEW y, InOrder(Tail(s), x, y)
  PROVE  InOrder(s, x, y)
  <1> DEFINE t == Tail(s)
  <1>1. /\ Len(s) \in Nat /\ Len(t) = Len(s) - 1
        /\ \A k \in 1 .. Len(t) : t[k] = s[k + 1]
    OBVIOUS
  <1> HIDE DEF t
  <1>2. PICK j, k \in 1 .. Len(t) : j < k /\ t[j] = x /\ t[k] = y
    BY DEF InOrder, t
  <1>3. /\ j + 1 \in 1 .. Len(s) /\ k + 1 \in 1 .. Len(s) /\ j + 1 < k + 1
        /\ s[j + 1] = x /\ s[k + 1] = y
    BY <1>1, <1>2
  <1>4. QED
    BY <1>3 DEF InOrder

(* The head of a queue is ahead of the rest.                               *)
LEMMA HeadInOrder ==
  ASSUME NEW S, NEW s \in Seq(S), s # << >>, NEW x \in Range(s), x # Head(s)
  PROVE  InOrder(s, Head(s), x)
  <1>1. Len(s) \in Nat /\ 1 \in 1 .. Len(s) /\ Head(s) = s[1]
    OBVIOUS
  <1>2. PICK k \in 1 .. Len(s) : s[k] = x
    BY RangeFacts
  <1>3. k # 1 /\ 1 < k
    BY <1>1, <1>2
  <1>4. QED
    BY <1>1, <1>2, <1>3 DEF InOrder

LEMMA WithoutInOrder ==
  ASSUME NEW S, NEW s \in Seq(S), NEW id \in Range(s), Unrepeated(s), NEW x, NEW y
  PROVE  InOrder(Without(s, id), x, y) <=> InOrder(s, x, y) /\ x # id /\ y # id
  <1> DEFINE t == Without(s, id)
  <1>1. PICK at \in 1 .. Len(s) :
          /\ s[at] = id
          /\ t \in Seq(S)
          /\ Len(t) = Len(s) - 1
          /\ \A k \in 1 .. at - 1 : t[k] = s[k]
          /\ \A k \in at .. Len(s) - 1 : t[k] = s[k + 1]
    BY WithoutCuts
  <1>2. Len(s) \in Nat
    OBVIOUS
  <1> HIDE DEF t
  <1>3. /\ Len(t) = Len(s) - 1
        /\ \A k \in 1 .. Len(t) : t[k] = IF k < at THEN s[k] ELSE s[k + 1]
    BY <1>1, <1>2
  <1>4. ASSUME NEW j \in 1 .. Len(t), NEW k \in 1 .. Len(t), j < k, t[j] = x, t[k] = y
        PROVE  InOrder(s, x, y) /\ x # id /\ y # id
    <2> DEFINE up(n) == IF n < at THEN n ELSE n + 1
    <2>1. /\ up(j) \in 1 .. Len(s) /\ up(k) \in 1 .. Len(s) /\ up(j) < up(k)
          /\ up(j) # at /\ up(k) # at
      BY <1>1, <1>2, <1>3, <1>4
    <2>2. s[up(j)] = x /\ s[up(k)] = y
      BY <1>3, <1>4
    <2> HIDE DEF up
    <2>3. QED
      BY <1>1, <2>1, <2>2 DEF InOrder, Unrepeated
  <1>5. ASSUME NEW j \in 1 .. Len(s), NEW k \in 1 .. Len(s), j < k, s[j] = x, s[k] = y,
               x # id, y # id
        PROVE  InOrder(t, x, y)
    <2> DEFINE down(n) == IF n < at THEN n ELSE n - 1
    <2>1. j # at /\ k # at
      BY <1>1, <1>5
    <2>2. down(j) < down(k)
      BY <1>5, <2>1
    <2>3. ASSUME NEW n \in 1 .. Len(s), n # at
          PROVE  down(n) \in 1 .. Len(t) /\ t[down(n)] = s[n]
      <3>1. CASE n < at
        <4>1. n \in 1 .. Len(t)
          BY <1>2, <1>3, <3>1
        <4>2. QED
          BY <1>3, <3>1, <4>1
      <3>2. CASE ~(n < at)
        <4>1. n - 1 \in 1 .. Len(t) /\ ~(n - 1 < at) /\ (n - 1) + 1 = n
          BY <1>2, <1>3, <2>3, <3>2
        <4>2. QED
          BY <1>3, <3>2, <4>1
      <3>3. QED
        BY <3>1, <3>2
    <2> HIDE DEF down
    <2>4. QED
      BY <1>5, <2>1, <2>2, <2>3 DEF InOrder
  <1>6. QED
    BY <1>4, <1>5 DEF t, InOrder

(* No level of c has an order its orders did not have in b.                *)
Narrows(b, c) ==
  \A side \in Sides, p \in Prices : \A x, y \in OrderIds :
    InOrder(c.levels[side][p], x, y) => InOrder(b.levels[side][p], x, y)

LEMMA LevelNarrows ==
  ASSUME NEW b \in Book, NEW side \in Sides, NEW p \in Prices, NEW queue, NEW resting,
         \A x, y : InOrder(queue, x, y) => InOrder(b.levels[side][p], x, y)
  PROVE  Narrows(b, [levels  |-> [b.levels EXCEPT ![side][p] = queue],
                     resting |-> resting])
  <1> DEFINE levels == [b.levels EXCEPT ![side][p] = queue]
             c == [levels |-> levels, resting |-> resting]
  <1>1. b.levels \in [Sides -> [Prices -> Seq(OrderIds)]]
    BY BookFacts
  <1>2. levels[side][p] = queue
    BY <1>1
  <1>3. \A s \in Sides, q \in Prices :
          <<s, q>> # <<side, p>> => levels[s][q] = b.levels[s][q]
    BY <1>1
  <1> HIDE DEF levels
  <1>4. c.levels = levels
    OBVIOUS
  <1> HIDE DEF c
  <1>5. Narrows(b, c)
    BY <1>2, <1>3, <1>4 DEF Narrows
  <1>6. QED
    BY <1>5 DEF c, levels

LEMMA RemoveNarrows ==
  ASSUME NEW b \in Book, Distinct(b), NEW side \in Sides, NEW p \in Prices,
         NEW id \in Queued(b, side, p)
  PROVE  Narrows(b, RemoveResting(b, id, side, p))
  <1> DEFINE queue == b.levels[side][p]
             rest == Without(queue, id)
  <1>1. queue \in Seq(OrderIds) /\ id \in Range(queue) /\ Unrepeated(queue)
    BY BookFacts DEF Queued, Distinct
  <1>2. \A x, y : InOrder(rest, x, y) => InOrder(queue, x, y)
    BY <1>1, WithoutInOrder
  <1>3. \E k \in DOMAIN queue : queue[k] = id
    BY <1>1 DEF Range
  <1>4. RemoveResting(b, id, side, p)
          = [levels |-> [b.levels EXCEPT ![side][p] = rest], resting |-> b.resting \ {id}]
    BY <1>3 DEF RemoveResting
  <1> HIDE DEF rest
  <1>5. QED
    BY <1>2, <1>4, LevelNarrows

LEMMA ShiftNarrows ==
  ASSUME NEW b \in Book, NEW side \in Sides, NEW p \in Live(b, side)
  PROVE  Narrows(b, ShiftBest(b, side, p))
  <1> DEFINE queue == b.levels[side][p]
             rest == Tail(queue)
             left == b.resting \ {HeadOf(b, side, p)}
  <1>1. p \in Prices /\ queue \in Seq(OrderIds) /\ queue # << >>
    BY BookFacts DEF Live
  <1>2. \A x, y : InOrder(rest, x, y) => InOrder(queue, x, y)
    BY <1>1, TailInOrder
  <1>3. ShiftBest(b, side, p)
          = [levels |-> [b.levels EXCEPT ![side][p] = rest], resting |-> left]
    BY DEF ShiftBest
  <1> HIDE DEF rest, left
  <1>4. Narrows(b, [levels |-> [b.levels EXCEPT ![side][p] = rest], resting |-> left])
    BY <1>1, <1>2, LevelNarrows
  <1>5. QED
    BY <1>3, <1>4

-----------------------------------------------------------------------------
(* Every queue is in the order of the tracked map, whose last entry is the *)
(* taker of an open sweep.                                                 *)
TakerIsLast ==
  op.phase = "match" =>
    \A x \in DOMAIN orders \ {op.taker} : InOrder(tracked, x, op.taker)

LinesUp ==
  \A i \in Instruments, side \in Sides, p \in Prices : \A x, y \in OrderIds :
    InOrder(books[i].levels[side][p], x, y) => InOrder(tracked, x, y)

PriorityInv == Unrepeated(tracked) /\ TakerIsLast /\ LinesUp

(* An operation that ends or goes on with its taker and adds to no queue.  *)
LEMMA NarrowingKeeps ==
  ASSUME PriorityInv, tracked' = tracked, DOMAIN orders' = DOMAIN orders,
         op'.phase = "match" => op.phase = "match" /\ op'.taker = op.taker,
         \A i \in Instruments : Narrows(books[i], books'[i])
  PROVE  PriorityInv'
  <1>1. Unrepeated(tracked)' /\ TakerIsLast'
    BY DEF PriorityInv, TakerIsLast
  <1>2. LinesUp'
    BY DEF PriorityInv, LinesUp, Narrows
  <1>3. QED
    BY <1>1, <1>2 DEF PriorityInv

LEMMA BooksKeep ==
  ASSUME PriorityInv, tracked' = tracked, DOMAIN orders' = DOMAIN orders, books' = books,
         op'.phase = "match" => op.phase = "match" /\ op'.taker = op.taker
  PROVE  PriorityInv'
  <1>1. \A i \in Instruments : Narrows(books[i], books'[i])
    BY DEF Narrows
  <1>2. QED
    BY <1>1, NarrowingKeeps

LEMMA RemovalNarrows ==
  ASSUME EngineInv, QueuesHoldResting, NEW id \in DOMAIN orders, Waits(id),
         RemoveFromBook(id)
  PROVE  \A i \in Instruments : Narrows(books[i], books'[i])
  <1> DEFINE o == orders[id]
             c == RemoveResting(books[o.instrument], id, o.side, o.price)
  <1>1. Narrows(books[o.instrument], c)
    BY WaitingIsQueued, RemoveNarrows
  <1>2. books' = [books EXCEPT ![o.instrument] = c] /\ books \in [Instruments -> Book]
    BY DEF RemoveFromBook, EngineInv, BooksInv
  <1> HIDE DEF c
  <1>3. \A i \in Instruments : books'[i] = IF i = o.instrument THEN c ELSE books[i]
    BY <1>2
  <1>4. QED
    BY <1>1, <1>3 DEF Narrows

LEMMA RejectedPriority ==
  ASSUME PriorityInv, NEW now, BeginOperation(now), NEW id, NEW instrument,
         NEW side, NEW reason, RejectWith(now, id, instrument, side, reason)
  PROVE  PriorityInv'
  <1>1. /\ op'.phase = "finish"
        /\ orders' = orders /\ books' = books /\ tracked' = tracked
    BY DEF RejectWith, OpenWith
  <1>2. QED
    BY <1>1, BooksKeep

(* Who is behind everyone stays so, and the others stand as they stood.    *)
LEMMA SubmitLine ==
  ASSUME EngineInv, NEW now \in Times, NEW o \in Submissions, SubmitAccepted(o, now)
  PROVE  /\ o.order_id \in OrderIds \ DOMAIN orders /\ o.order_id \notin Range(tracked)
         /\ tracked \in Seq(OrderIds) /\ DOMAIN orders = Range(tracked)
         /\ \A x, y : InOrder(tracked, x, y)' <=>
              InOrder(tracked, x, y) \/ (x \in DOMAIN orders /\ y = o.order_id)
  <1>1. o.order_id \in OrderIds \ DOMAIN orders
    BY SubmitPasses DEF SubmitAccepted
  <1>2. tracked \in Seq(OrderIds) /\ tracked \in Seq(DOMAIN orders)
    BY DEF EngineInv, TrackedInv, OrdersInv
  <1>3. DOMAIN orders = Range(tracked)
    BY <1>2, RangeFacts DEF EngineInv, TrackedInv
  <1>4. tracked' = Append(tracked, o.order_id)
    BY DEF SubmitAccepted
  <1>5. QED
    BY <1>1, <1>2, <1>3, <1>4, AppendInOrder

LEMMA SubmitPriority ==
  ASSUME EngineInv, PriorityInv, NEW now \in Times, NEW o \in Submissions,
         SubmitAccepted(o, now)
  PROVE  PriorityInv'
  <1> DEFINE id == o.order_id
  <1>1. /\ op'.phase = "match" /\ op'.taker = id /\ books' = books
        /\ tracked' = Append(tracked, id) /\ DOMAIN orders' = DOMAIN orders \cup {id}
    BY DEF SubmitAccepted, OpenWith, Put
  <1>2. /\ id \in OrderIds \ DOMAIN orders /\ id \notin Range(tracked)
        /\ tracked \in Seq(OrderIds)
        /\ \A x, y : InOrder(tracked, x, y)' <=>
             InOrder(tracked, x, y) \/ (x \in DOMAIN orders /\ y = id)
    BY SubmitLine
  <1> HIDE DEF id
  <1>3. Unrepeated(tracked)'
    BY <1>1, <1>2, AppendUnrepeated DEF PriorityInv
  <1>4. TakerIsLast'
    BY <1>1, <1>2 DEF TakerIsLast
  <1>5. LinesUp'
    BY <1>1, <1>2 DEF PriorityInv, LinesUp
  <1>6. QED
    BY <1>3, <1>4, <1>5 DEF PriorityInv

(* A queued order that is queued anew goes to the end.                     *)
LEMMA RequeuedLine ==
  ASSUME EngineInv, Unrepeated(tracked), NEW id \in DOMAIN orders,
         tracked' = Append(Without(tracked, id), id)
  PROVE  /\ Unrepeated(tracked)'
         /\ \A x, y : InOrder(tracked, x, y)' <=>
              \/ InOrder(tracked, x, y) /\ x # id /\ y # id
              \/ x \in DOMAIN orders \ {id} /\ y = id
  <1> DEFINE rest == Without(tracked, id)
  <1>1. /\ tracked \in Seq(DOMAIN orders) /\ DOMAIN orders = Range(tracked)
        /\ id \in Range(tracked)
    BY RangeFacts DEF EngineInv, TrackedInv
  <1>2. /\ rest \in Seq(DOMAIN orders) /\ Range(rest) = DOMAIN orders \ {id}
        /\ Unrepeated(rest)
    <2>1. /\ rest \in Seq(DOMAIN orders) /\ Unrepeated(rest)
          /\ Range(rest) \subseteq Range(tracked)
          /\ Range(tracked) \subseteq Range(rest) \cup {id} /\ id \notin Range(rest)
      BY <1>1, WithoutFacts
    <2>2. QED
      BY <1>1, <2>1
  <1>3. \A x, y : InOrder(rest, x, y) <=> InOrder(tracked, x, y) /\ x # id /\ y # id
    BY <1>1, WithoutInOrder
  <1> HIDE DEF rest
  <1>4. \A x, y : InOrder(Append(rest, id), x, y) <=>
          InOrder(rest, x, y) \/ (x \in Range(rest) /\ y = id)
    BY <1>2, AppendInOrder
  <1>5. Unrepeated(Append(rest, id))
    BY <1>2, AppendUnrepeated
  <1>6. tracked' = Append(rest, id)
    BY DEF rest
  <1>7. QED
    BY <1>2, <1>3, <1>4, <1>5, <1>6

LEMMA RequeuedPriority ==
  ASSUME EngineInv, QueueInv, PriorityInv, QueueInv', EngineInv', NEW now \in Times,
         NEW a \in Amendments, AmendRequeued(a, now)
  PROVE  PriorityInv'
  <1> DEFINE id == a.order_id
  <1>1. /\ op.phase = "idle" /\ op'.phase = "match" /\ op'.taker = id
        /\ RemoveFromBook(id) /\ tracked' = Append(Without(tracked, id), id)
        /\ Passes(AmendChecks(a)) /\ orders' = Amended(a)
    BY DEF AmendRequeued, BeginOperation, OpenWith
  <1>2. QueuesHoldResting /\ QueuesHoldResting'
    BY <1>1 DEF QueueInv
  <1>3. id \in DOMAIN orders /\ Waits(id) /\ DOMAIN orders' = DOMAIN orders
    BY <1>1, <1>2, AmendedWaits
  <1> HIDE DEF id
  <1>4. \A i \in Instruments : Narrows(books[i], books'[i])
    BY <1>1, <1>2, <1>3, RemovalNarrows
  <1>5. /\ Unrepeated(tracked)'
        /\ \A x, y : InOrder(tracked, x, y)' <=>
             \/ InOrder(tracked, x, y) /\ x # id /\ y # id
             \/ x \in DOMAIN orders \ {id} /\ y = id
    BY <1>1, <1>3, RequeuedLine DEF PriorityInv
  <1>6. TakerIsLast'
    BY <1>1, <1>3, <1>5 DEF TakerIsLast
  <1>7. ASSUME NEW i \in Instruments, NEW side \in Sides, NEW p \in Prices,
               NEW x \in OrderIds, NEW y \in OrderIds,
               InOrder(books'[i].levels[side][p], x, y)
        PROVE  InOrder(tracked, x, y)'
    <2>1. id \notin Queued(books'[i], side, p)
      <3>1. ~Waits(id)'
        BY <1>1 DEF Waits
      <3>2. Queued(books'[i], side, p) =
              {s \in Holds(i)' : orders'[s].side = side /\ orders'[s].price = p}
        BY <1>2 DEF QueuesHoldResting
      <3>3. QED
        BY <3>1, <3>2 DEF Holds
    <2>2. books'[i].levels[side][p] \in Seq(OrderIds)
      <3>1. books'[i] \in Book
        BY DEF EngineInv, BooksInv
      <3>2. QED
        BY <3>1, BookFacts
    <2>3. x \in Queued(books'[i], side, p) /\ y \in Queued(books'[i], side, p)
      BY <1>7, <2>2, RangeFacts DEF InOrder, Queued
    <2>4. InOrder(tracked, x, y)
      BY <1>4, <1>7 DEF PriorityInv, LinesUp, Narrows
    <2>5. QED
      BY <1>5, <2>1, <2>3, <2>4
  <1>8. LinesUp'
    BY <1>7 DEF LinesUp
  <1>9. QED
    BY <1>5, <1>6, <1>8 DEF PriorityInv

LEMMA RestsPriority ==
  ASSUME EngineInv, QueueInv, PriorityInv, MatchRests
  PROVE  PriorityInv'
  <1>1. PICK id : id = op.taker
    OBVIOUS
  <1> DEFINE o == orders[id]
             queue == books[o.instrument].levels[o.side][o.price]
             c == AddResting(books[o.instrument], id, o.side, o.price)
  <1>2. /\ op.phase = "match" /\ o.order_type = "limit" /\ orders' = orders
        /\ books' = [books EXCEPT ![o.instrument] = c] /\ tracked' = tracked
    BY <1>1 DEF MatchRests, Sweeping
  <1>3. op'.phase # "match"
    BY <1>1, <1>2 DEF MatchRests, Continue, EngineInv, OperationInv
  <1>4. /\ id \in DOMAIN orders /\ id \in OrderIds /\ o.instrument \in Instruments
        /\ o.side \in Sides /\ o.price \in Prices /\ books[o.instrument] \in Book
        /\ books \in [Instruments -> Book]
    BY <1>1, <1>2, TakerFacts DEF EngineInv, OrdersInv, Order
  <1>5. queue \in Seq(OrderIds) /\ Range(queue) \subseteq DOMAIN orders \ {id}
    <2>1. queue \in Seq(OrderIds)
      BY <1>4, BookFacts
    <2>2. Queued(books[o.instrument], o.side, o.price) \subseteq Holds(o.instrument)
      BY <1>2, <1>4 DEF QueueInv, QueuesHoldResting
    <2>3. id \notin Holds(o.instrument) /\ Holds(o.instrument) \subseteq DOMAIN orders
      BY <1>1, <1>2 DEF Holds, Waits
    <2>4. QED
      BY <2>1, <2>2, <2>3 DEF Queued
  <1>6. \A s \in Sides, q \in Prices :
          c.levels[s][q] = IF s = o.side /\ q = o.price THEN Append(queue, id)
                           ELSE books[o.instrument].levels[s][q]
    BY <1>4, BookFacts DEF AddResting
  <1>7. \A i \in Instruments : books'[i] = IF i = o.instrument THEN c ELSE books[i]
    <2> HIDE DEF c
    <2>1. QED
      BY <1>2, <1>4
  <1>8. ASSUME NEW i \in Instruments, NEW side \in Sides, NEW p \in Prices,
               NEW x \in OrderIds, NEW y \in OrderIds,
               InOrder(books'[i].levels[side][p], x, y)
        PROVE  InOrder(tracked, x, y)
    <2> HIDE DEF c, queue
    <2>1. CASE i = o.instrument /\ side = o.side /\ p = o.price
      <3>1. InOrder(Append(queue, id), x, y)
        BY <1>6, <1>7, <1>8, <2>1
      <3>2. InOrder(queue, x, y) \/ (x \in Range(queue) /\ y = id)
        BY <1>4, <1>5, <3>1, AppendInOrder
      <3>3. ASSUME InOrder(queue, x, y) PROVE InOrder(tracked, x, y)
        BY <1>4, <3>3 DEF PriorityInv, LinesUp, queue
      <3>4. QED
        BY <1>1, <1>2, <1>5, <3>2, <3>3 DEF PriorityInv, TakerIsLast
    <2>2. CASE ~(i = o.instrument /\ side = o.side /\ p = o.price)
      <3>1. books'[i].levels[side][p] = books[i].levels[side][p]
        BY <1>6, <1>7, <2>2
      <3>2. QED
        BY <1>8, <3>1 DEF PriorityInv, LinesUp
    <2>3. QED
      BY <2>1, <2>2
  <1>9. LinesUp'
    BY <1>2, <1>8 DEF LinesUp
  <1>10. QED
    BY <1>2, <1>3, <1>9 DEF PriorityInv, TakerIsLast

LEMMA FillPriority ==
  ASSUME EngineInv, QueueInv, PriorityInv, MatchFill
  PROVE  PriorityInv'
  <1>1. PICK taker : taker = op.taker
    OBVIOUS
  <1>2. PICK p \in Prices, maker \in DOMAIN orders \ {taker} : Executes(taker, maker, p)
    BY <1>1, FillFacts
  <1> DEFINE i == orders[taker].instrument
             side == Opposite(orders[taker].side)
             c == ShiftBest(books[i], side, p)
  <1>3. /\ op.phase = "match" /\ op'.phase \in {"match", "wedged"}
        /\ op'.phase = "match" => op'.taker = op.taker
        /\ DOMAIN orders' = DOMAIN orders /\ i \in Instruments /\ side \in Sides
        /\ p \in Live(books[i], side)
        /\ books' = books \/ books' = [books EXCEPT ![i] = c]
    BY <1>1, <1>2 DEF Executes, BestLevel
  <1>4. tracked' = tracked /\ books \in [Instruments -> Book]
    BY DEF MatchFill, EngineInv, BooksInv
  <1> HIDE DEF i, side
  <1>5. Narrows(books[i], c)
    BY <1>3, <1>4, ShiftNarrows
  <1> HIDE DEF c
  <1>6. ASSUME NEW j \in Instruments
        PROVE  Narrows(books[j], books'[j])
    <2>1. books'[j] = books[j] \/ (j = i /\ books'[j] = c)
      BY <1>3, <1>4
    <2>2. QED
      BY <1>5, <2>1 DEF Narrows
  <1>7. QED
    BY <1>3, <1>4, <1>6, NarrowingKeeps

LEMMA MatchPriority ==
  ASSUME EngineInv, QueueInv, PriorityInv, MatchTaker
  PROVE  PriorityInv'
  <1>1. CASE MatchSelfTrade \/ MatchRunsDry \/ MatchCompletes
    <2>1. op'.phase # "match"
      <3>1. CASE MatchSelfTrade \/ MatchRunsDry
        <4>1. PICK body : Continue(<<body>>, "finish", op.fill)
          BY <3>1 DEF MatchSelfTrade, MatchRunsDry
        <4>2. QED
          BY <4>1 DEF Continue, EngineInv, OperationInv
      <3>2. CASE MatchCompletes
        BY <3>2 DEF MatchCompletes, EngineInv, OperationInv
      <3>3. QED
        BY <1>1, <3>1, <3>2
    <2>2. tracked' = tracked /\ books' = books /\ DOMAIN orders' = DOMAIN orders
      <3>1. PICK state : orders' = [orders EXCEPT ![op.taker].state = state]
        BY <1>1 DEF MatchSelfTrade, MatchRunsDry, MatchCompletes
      <3>2. QED
        BY <1>1, <3>1 DEF MatchSelfTrade, MatchRunsDry, MatchCompletes
    <2>3. QED
      BY <2>1, <2>2, BooksKeep
  <1>2. QED
    BY <1>1, FillPriority, RestsPriority DEF MatchTaker

LEMMA PriorityInit == Init => PriorityInv
  <1> SUFFICES ASSUME Init PROVE PriorityInv
    OBVIOUS
  <1>1. Len(tracked) = 0 /\ op.phase = "idle"
    BY DEF Init, Idle
  <1>2. \A i \in Instruments, side \in Sides, p \in Prices :
          Len(books[i].levels[side][p]) = 0
    BY DEF Init, EmptyBook
  <1>3. QED
    BY <1>1, <1>2 DEF PriorityInv, Unrepeated, TakerIsLast, LinesUp, InOrder

LEMMA PriorityNext ==
  ASSUME EngineInv, QueueInv, EngineInv', QueueInv', PriorityInv, [Next]_vars
  PROVE  PriorityInv'
  <1>1. ASSUME NEW now \in Times, NEW o \in Submissions, SubmitOrder(o, now)
        PROVE  PriorityInv'
    BY <1>1, SubmitPriority, RejectedPriority DEF SubmitOrder, SubmitRejected
  <1>2. ASSUME NEW now \in Times, NEW c \in Cancellations, CancelOrder(c, now)
        PROVE  PriorityInv'
    <2>1. CASE CancelAccepted(c, now)
      <3>1. /\ op.phase = "idle" /\ op'.phase = "finish" /\ tracked' = tracked
            /\ RemoveFromBook(c.order_id) /\ DOMAIN orders' = DOMAIN orders
        BY <2>1 DEF CancelAccepted, BeginOperation, OpenWith
      <3>2. c.order_id \in DOMAIN orders /\ Waits(c.order_id) /\ QueuesHoldResting
        BY <2>1, <3>1, CancelQueues DEF QueueInv
      <3>3. \A i \in Instruments : Narrows(books[i], books'[i])
        BY <3>1, <3>2, RemovalNarrows
      <3>4. QED
        BY <3>1, <3>3, NarrowingKeeps
    <2>2. QED
      BY <1>2, <2>1, RejectedPriority DEF CancelOrder, CancelRejected
  <1>3. ASSUME NEW now \in Times, NEW a \in Amendments, AmendOrder(a, now)
        PROVE  PriorityInv'
    <2>1. CASE AmendRejected(a, now)
      <3>1. BeginOperation(now)
        BY <2>1 DEF AmendRejected
      <3>2. \E id, instrument, side, reason :
              RejectWith(now, id, instrument, side, reason)
        BY <2>1 DEF AmendRejected
      <3>3. QED
        BY <3>1, <3>2, RejectedPriority
    <2>2. CASE AmendInPlace(a, now)
      <3>1. /\ op'.phase = "finish" /\ tracked' = tracked /\ books' = books
            /\ DOMAIN orders' = DOMAIN orders
        BY <2>2 DEF AmendInPlace, OpenWith, Amended
      <3>2. QED
        BY <3>1, BooksKeep
    <2>3. QED
      BY <1>3, <2>1, <2>2, RequeuedPriority DEF AmendOrder
  <1>4. CASE Commit
    BY <1>4, BooksKeep DEF Commit, Idle
  <1>5. CASE UNCHANGED vars
    BY <1>5, BooksKeep DEF vars
  <1>6. QED
    BY <1>1, <1>2, <1>3, <1>4, <1>5, MatchPriority DEF Next, Call

LEMMA PriorityAlways == Spec => []PriorityInv
  BY EngineInvAlways, QueueAlways, PriorityInit, PriorityNext, PTL DEF Spec

-----------------------------------------------------------------------------
(* The line of open orders.                                                *)
Alike(x) ==
  /\ orders'[x].instrument = orders[x].instrument
  /\ orders'[x].side = orders[x].side
  /\ orders'[x].price = orders[x].price
  /\ orders'[x].remaining = orders[x].remaining

SameOrder(S) ==
  \A x, y \in S : InOrder(tracked, x, y)' <=> InOrder(tracked, x, y)

OpenWait == Open = {id \in DOMAIN orders : Waits(id)}

LEMMA OpenAre == EngineInv /\ QueuesHoldResting => OpenWait
  <1> SUFFICES ASSUME EngineInv, QueuesHoldResting PROVE OpenWait
    OBVIOUS
  <1>1. ASSUME NEW id \in Open PROVE Waits(id)
    <2>1. /\ id \in DOMAIN orders /\ orders[id].instrument \in Instruments
          /\ id \in books[orders[id].instrument].resting
      BY DEF Open, EngineInv, OrdersInv, Order
    <2>2. QED
      BY <2>1 DEF QueuesHoldResting, Holds
  <1>2. ASSUME NEW id \in DOMAIN orders, Waits(id) PROVE id \in Open
    BY <1>2, WaitingIsQueued DEF Open
  <1>3. QED
    BY <1>1, <1>2 DEF Open, OpenWait

LEMMA OpenAreNext == EngineInv' /\ QueuesHoldResting' => OpenWait'
  BY OpenAre, PTL

LEMMA LineStands ==
  ASSUME Open' = Open, \A x \in Open : Alike(x), SameOrder(Open)
  PROVE  OpenOrders' = OpenOrders /\ Ahead' = Ahead
  BY DEF OpenOrders, Ahead, Alike, SameOrder

LEMMA LineLoses ==
  ASSUME NEW id \in Open, Open' = Open \ {id},
         \A x \in Open \ {id} : Alike(x), SameOrder(Open \ {id})
  PROVE  Promise!Gone(id)
  <1>1. OpenOrders' = [x \in DOMAIN OpenOrders \ {id} |-> OpenOrders[x]]
    BY DEF OpenOrders, Alike
  <1>2. Ahead' = {pair \in Ahead : pair[1] # id /\ pair[2] # id}
    BY DEF Ahead, SameOrder
  <1>3. QED
    BY <1>1, <1>2 DEF Promise!Gone

LEMMA LineNarrows ==
  ASSUME NEW id \in Open, Open' = Open, \A x \in Open \ {id} : Alike(x),
         orders'[id].instrument = orders[id].instrument,
         orders'[id].side = orders[id].side, orders'[id].price = orders[id].price,
         orders'[id].remaining \in 1 .. orders[id].remaining - 1, SameOrder(Open)
  PROVE  Promise!Shrinks(id)
  <1>1. PICK units : units = orders'[id].remaining
    OBVIOUS
  <1>2. units \in 1 .. OpenOrders[id].remaining - 1
    BY <1>1 DEF OpenOrders
  <1>3. OpenOrders' = [OpenOrders EXCEPT ![id].remaining = units]
    BY <1>1 DEF OpenOrders, Alike
  <1>4. Ahead' = Ahead
    BY DEF Ahead, SameOrder
  <1>5. QED
    BY <1>2, <1>3, <1>4 DEF Promise!Shrinks

LineKeeps == UNCHANGED <<OpenOrders, Ahead, FillId>>

LEMMA QuietLine ==
  ASSUME books' = books, tracked' = tracked, DOMAIN orders' = DOMAIN orders,
         \A x \in DOMAIN orders : Alike(x), FillId' = FillId
  PROVE  LineKeeps
  <1>1. Open' = Open
    BY DEF Open, Alike
  <1>2. \A x \in Open : Alike(x)
    BY DEF Open
  <1>3. SameOrder(Open)
    BY DEF SameOrder, InOrder
  <1>4. QED
    BY <1>1, <1>2, <1>3, LineStands DEF LineKeeps

LEMMA RejectedLine ==
  ASSUME NEW now, BeginOperation(now), NEW id, NEW instrument, NEW side, NEW reason,
         RejectWith(now, id, instrument, side, reason)
  PROVE  LineKeeps
  <1>1. FillId' = FillId
    BY DEF FillId, BeginOperation, RejectWith, OpenWith
  <1>2. QED
    BY <1>1, QuietLine DEF RejectWith, Alike

LEMMA SubmitKeepsLine ==
  ASSUME EngineInv, NEW now \in Times, NEW o \in Submissions, SubmitAccepted(o, now)
  PROVE  LineKeeps
  <1> DEFINE id == o.order_id
  <1>1. /\ id \in OrderIds \ DOMAIN orders
        /\ \A x, y : InOrder(tracked, x, y)' <=>
             InOrder(tracked, x, y) \/ (x \in DOMAIN orders /\ y = id)
    BY SubmitLine
  <1>2. /\ DOMAIN orders' = DOMAIN orders \cup {id} /\ books' = books
        /\ \A x \in DOMAIN orders : orders'[x] = orders[x]
        /\ orders'[id].instrument \in Instruments
    <2>1. /\ DOMAIN orders' = DOMAIN orders \cup {id} /\ books' = books
          /\ \A x \in DOMAIN orders : orders'[x] = orders[x]
          /\ orders'[id].instrument = o.instrument
      BY <1>1 DEF SubmitAccepted, Put
    <2>2. o.instrument \in Instruments
      BY SubmitPasses DEF SubmitAccepted
    <2>3. QED
      BY <2>1, <2>2
  <1>3. FillId' = FillId
    BY DEF SubmitAccepted, FillId, BeginOperation, OpenWith
  <1> HIDE DEF id
  <1>4. Open' = Open
    <2>1. \A i \in Instruments : id \notin books[i].resting
      BY <1>1 DEF EngineInv, BooksInv
    <2>2. QED
      BY <1>2, <2>1 DEF Open
  <1>5. (\A x \in Open : Alike(x)) /\ SameOrder(Open)
    BY <1>1, <1>2 DEF Alike, SameOrder, Open
  <1>6. QED
    BY <1>3, <1>4, <1>5, LineStands DEF LineKeeps

LEMMA CancelLine ==
  ASSUME EngineInv, QueueInv, QueueInv', EngineInv', NEW now \in Times,
         NEW c \in Cancellations, CancelAccepted(c, now)
  PROVE  Promise!Leave
  <1> DEFINE id == c.order_id
  <1>1. /\ op.phase = "idle" /\ op'.phase = "finish" /\ tracked' = tracked
        /\ orders' = [orders EXCEPT ![id].state = "cancelled", ![id].remaining = 0]
        /\ FillId' = FillId
    BY DEF CancelAccepted, BeginOperation, OpenWith, FillId
  <1>2. QueuesHoldResting /\ QueuesHoldResting'
    BY <1>1 DEF QueueInv
  <1>3. id \in DOMAIN orders /\ Waits(id)
    BY CancelQueues
  <1> HIDE DEF id
  <1>4. /\ Open = {x \in DOMAIN orders : Waits(x)}
        /\ Open' = {x \in DOMAIN orders' : Waits(x)'}
    BY <1>2, OpenAre, OpenAreNext DEF OpenWait
  <1>5. /\ DOMAIN orders' = DOMAIN orders
        /\ \A x \in DOMAIN orders \ {id} : orders'[x] = orders[x]
        /\ orders'[id].state = "cancelled"
    <2>1. \A x \in DOMAIN orders : orders[x] \in Order
      BY DEF EngineInv, OrdersInv
    <2>2. QED
      BY <1>1, <1>3, <2>1 DEF Order
  <1>6. id \in Open /\ Open' = Open \ {id}
    BY <1>1, <1>3, <1>4, <1>5 DEF Waits
  <1>7. (\A x \in Open \ {id} : Alike(x)) /\ SameOrder(Open \ {id})
    BY <1>1, <1>5 DEF Alike, SameOrder, Open, InOrder
  <1>8. Promise!Gone(id)
    BY <1>6, <1>7, LineLoses
  <1>9. id \in DOMAIN OpenOrders
    BY <1>6 DEF OpenOrders
  <1>10. QED
    BY <1>1, <1>8, <1>9 DEF Promise!Leave

LEMMA RequeuedLeaves ==
  ASSUME EngineInv, QueueInv, QueueInv', EngineInv', PriorityInv, NEW now \in Times,
         NEW a \in Amendments, AmendRequeued(a, now)
  PROVE  Promise!Leave
  <1> DEFINE id == a.order_id
  <1>1. /\ op.phase = "idle" /\ op'.phase = "match" /\ op'.taker = id
        /\ tracked' = Append(Without(tracked, id), id)
        /\ Passes(AmendChecks(a)) /\ orders' = Amended(a)
        /\ FillId' = FillId
    BY DEF AmendRequeued, BeginOperation, OpenWith, FillId
  <1>2. QueuesHoldResting /\ QueuesHoldResting'
    BY <1>1 DEF QueueInv
  <1>3. /\ id \in DOMAIN orders /\ Waits(id) /\ DOMAIN orders' = DOMAIN orders
        /\ \A x \in DOMAIN orders \ {id} : orders'[x] = orders[x]
    BY <1>1, <1>2, AmendedWaits
  <1> HIDE DEF id
  <1>4. /\ Open = {x \in DOMAIN orders : Waits(x)}
        /\ Open' = {x \in DOMAIN orders' : Waits(x)'}
    BY <1>2, OpenAre, OpenAreNext DEF OpenWait
  <1>5. id \in Open /\ Open' = Open \ {id}
    BY <1>1, <1>3, <1>4 DEF Waits
  <1>6. \A x, y : InOrder(tracked, x, y)' <=>
          \/ InOrder(tracked, x, y) /\ x # id /\ y # id
          \/ x \in DOMAIN orders \ {id} /\ y = id
    BY <1>1, <1>3, RequeuedLine DEF PriorityInv
  <1>7. (\A x \in Open \ {id} : Alike(x)) /\ SameOrder(Open \ {id})
    BY <1>3, <1>6 DEF Alike, SameOrder, Open
  <1>8. Promise!Gone(id)
    BY <1>5, <1>7, LineLoses
  <1>9. id \in DOMAIN OpenOrders
    BY <1>5 DEF OpenOrders
  <1>10. QED
    BY <1>1, <1>8, <1>9 DEF Promise!Leave

LEMMA InPlaceShrinks ==
  ASSUME EngineInv, QueueInv, NEW now \in Times, NEW a \in Amendments,
         AmendInPlace(a, now)
  PROVE  Promise!Shrink
  <1> DEFINE id == a.order_id
  <1>1. /\ op.phase = "idle" /\ tracked' = tracked /\ books' = books
        /\ Passes(AmendChecks(a)) /\ orders' = Amended(a) /\ KeepsPriority(a)
        /\ FillId' = FillId
    BY DEF AmendInPlace, BeginOperation, OpenWith, FillId
  <1>2. QueuesHoldResting
    BY <1>1 DEF QueueInv
  <1>3. /\ id \in DOMAIN orders /\ Waits(id) /\ DOMAIN orders' = DOMAIN orders
        /\ orders'[id].instrument = orders[id].instrument
        /\ orders'[id].side = orders[id].side /\ orders'[id].price = NewPrice(a)
        /\ orders'[id].remaining > 0
        /\ \A x \in DOMAIN orders \ {id} : orders'[x] = orders[x]
    BY <1>1, <1>2, AmendedWaits
  <1>4. orders'[id].remaining \in 1 .. orders[id].remaining - 1
    <2>1. orders[id] \in Order
      BY <1>3 DEF EngineInv, OrdersInv
    <2>2. orders[id].quantity \in Nat /\ orders[id].remaining \in Nat
      BY <2>1 DEF Order
    <2>3. NewTotal(a) \in Nat /\ NewTotal(a) < orders[id].quantity
      <3>1. a.quantity \in (Nat \ {0}) \cup {Null}
        BY <1>1, AmendPasses
      <3>2. QED
        BY <1>1, <2>2, <3>1 DEF NewTotal, KeepsPriority
    <2>4. orders'[id].remaining = NewTotal(a) - (orders[id].quantity - orders[id].remaining)
      BY <1>1, <1>3, <2>1 DEF Amended, Executed, Order
    <2> QED
      BY <1>3, <2>2, <2>3, <2>4
  <1> HIDE DEF id
  <1>5. id \in Open
    BY <1>2, <1>3, OpenAre DEF OpenWait
  <1>6. Open' = Open
    <2>1. orders[id].remaining > 0
      BY <1>5 DEF Open
    <2>2. QED
      BY <1>1, <1>3, <2>1 DEF Open
  <1>7. orders'[id].price = orders[id].price
    BY <1>1, <1>3 DEF KeepsPriority, id
  <1>8. (\A x \in Open \ {id} : Alike(x)) /\ SameOrder(Open)
    BY <1>1, <1>3 DEF Alike, SameOrder, Open, InOrder
  <1>9. Promise!Shrinks(id)
    BY <1>3, <1>4, <1>5, <1>6, <1>7, <1>8, LineNarrows
  <1>10. id \in DOMAIN OpenOrders
    BY <1>5 DEF OpenOrders
  <1>11. QED
    BY <1>1, <1>9, <1>10 DEF Promise!Shrink

LEMMA OneWay ==
  ASSUME NEW S, NEW s \in Seq(S), Unrepeated(s), NEW x, NEW y, InOrder(s, x, y)
  PROVE  x # y /\ ~InOrder(s, y, x)
  <1>1. PICK j, k \in 1 .. Len(s) : j < k /\ s[j] = x /\ s[k] = y
    BY DEF InOrder
  <1>2. ASSUME NEW m \in 1 .. Len(s), NEW n \in 1 .. Len(s), m < n, s[m] = y, s[n] = x
        PROVE  FALSE
    <2>1. m = k /\ n = j
      BY <1>1, <1>2 DEF Unrepeated
    <2>2. Len(s) \in Nat
      OBVIOUS
    <2>3. QED
      BY <1>1, <1>2, <2>1, <2>2
  <1>3. x # y
    <2>1. Len(s) \in Nat
      OBVIOUS
    <2>2. QED
      BY <1>1, <2>1 DEF Unrepeated
  <1>4. QED
    BY <1>2, <1>3 DEF InOrder

(* The remainder of the taker enters: nothing it meets is left.            *)
LEMMA RestsEnters ==
  ASSUME EngineInv, QueueInv, PriorityInv, MatchRests
  PROVE  Promise!Enter
  <1>1. PICK id : id = op.taker
    OBVIOUS
  <1> DEFINE o == orders[id]
             i == o.instrument
             c == AddResting(books[i], id, o.side, o.price)
  <1>2. /\ op.phase = "match" /\ o.remaining > 0 /\ o.order_type = "limit"
        /\ Matchable(o) = {} /\ orders' = orders /\ tracked' = tracked
        /\ books' = [books EXCEPT ![i] = c]
    BY <1>1 DEF MatchRests, Sweeping
  <1>3. FillId' = FillId
    <2>1. op'.phase \in {"finish", "wedged"} /\ op'.fill = op.fill
      BY <1>1 DEF MatchRests, Continue, EngineInv, OperationInv
    <2>2. QED
      BY <1>2, <2>1 DEF FillId
  <1>4. /\ id \in DOMAIN orders /\ o \in Order /\ i \in Instruments
        /\ books \in [Instruments -> Book]
    BY <1>1, <1>2, TakerFacts DEF Order
  <1>5. QueuesHoldResting
    BY <1>2 DEF QueueInv
  <1>6. OpenWait /\ id \notin Open
    BY <1>1, <1>2, <1>5, OpenAre DEF OpenWait, Waits
  <1>7. Open' = Open \cup {id}
    <2>1. c.resting = books[i].resting \cup {id}
      BY DEF AddResting
    <2> HIDE DEF c
    <2>2. \A j \in Instruments :
            books'[j].resting = IF j = i THEN books[j].resting \cup {id}
                                ELSE books[j].resting
      BY <1>2, <1>4, <2>1
    <2>3. \A x \in DOMAIN orders : orders[x].instrument \in Instruments
      BY DEF EngineInv, OrdersInv, Order
    <2>4. QED
      BY <1>2, <1>4, <2>2, <2>3 DEF Open
  <1>8. ASSUME NEW x \in Open
        PROVE  ~Promise!Meet(OpenOrders'[id], OpenOrders[x])
    <2> SUFFICES ASSUME Promise!Meet(OpenOrders'[id], OpenOrders[x])
                 PROVE  FALSE
      OBVIOUS
    <2> DEFINE q == orders[x].price
    <2>1. /\ OpenOrders'[id] = [instrument |-> i, side |-> o.side, price |-> o.price,
                                remaining |-> o.remaining]
          /\ OpenOrders[x] = [instrument |-> orders[x].instrument,
                              side |-> orders[x].side, price |-> q,
                              remaining |-> orders[x].remaining]
      BY <1>2, <1>7 DEF OpenOrders
    <2>2. /\ orders[x].instrument = i /\ orders[x].side # o.side
          /\ IF o.side = "buy" THEN o.price >= q ELSE o.price <= q
      BY <2>1 DEF Promise!Meet
    <2>3. /\ x \in DOMAIN orders /\ Waits(x)
      BY <1>6 DEF OpenWait
    <2>4. /\ orders[x].side \in Sides /\ q \in Prices
          /\ x \in Queued(books[i], orders[x].side, q) /\ books[i] \in Book
      BY <1>5, <2>2, <2>3, WaitingIsQueued
    <2>5. o.side \in Sides /\ o.price \in Prices
      BY <1>2, <1>4 DEF EngineInv, OrdersInv, Order
    <2>6. orders[x].side = Opposite(o.side)
      BY <2>2, <2>4, <2>5 DEF Sides, Opposite
    <2>7. q \in Live(books[i], Opposite(o.side))
      BY <2>4, <2>6, BookFacts
    <2>8. AsGood(Opposite(o.side), q, o.price)
      <3>1. Prices \subseteq Int
        BY EventConstants
      <3> HIDE DEF q, o
      <3>2. QED
        BY <2>2, <2>4, <2>5, <3>1 DEF AsGood, Opposite, Sides
    <2>9. q \in Matchable(o)
      BY <2>7, <2>8 DEF Matchable, Crosses
    <2>10. QED
      BY <1>2, <2>9
  <1>9. /\ \A x \in Open : InOrder(tracked, x, id) /\ ~InOrder(tracked, id, x)
        /\ ~InOrder(tracked, id, id)
    <2>1. tracked \in Seq(DOMAIN orders) /\ Unrepeated(tracked)
      BY DEF EngineInv, TrackedInv, PriorityInv
    <2>2. \A x \in Open : InOrder(tracked, x, id)
      BY <1>1, <1>2, <1>6 DEF PriorityInv, TakerIsLast, Open
    <2>3. QED
      BY <2>1, <2>2, OneWay
  <1> HIDE DEF o, i, c
  <1>10. DOMAIN OpenOrders = Open /\ DOMAIN OpenOrders' = Open'
    BY DEF OpenOrders
  <1>11. \A x \in Open : OpenOrders'[x] = OpenOrders[x]
    BY <1>2, <1>7 DEF OpenOrders
  <1>12. Ahead' = Ahead \cup {<<x, id>> : x \in Open}
    BY <1>2, <1>7, <1>9 DEF Ahead
  <1>13. QED
    BY <1>3, <1>6, <1>7, <1>8, <1>10, <1>11, <1>12 DEF Promise!Enter

(* The maker at the head of the best level is first in line on its side.   *)
LEMMA MakerIsFirst ==
  ASSUME EngineInv, QueueInv, PriorityInv, NEW taker, NEW p \in Prices,
         NEW maker \in Open, Executes(taker, maker, p)
  PROVE  Promise!FirstInLine(maker)
  <1> DEFINE i == orders[taker].instrument
             side == Opposite(orders[taker].side)
             queue == books[i].levels[side][p]
  <1>1. /\ op.phase = "match" /\ i \in Instruments /\ side \in Sides
        /\ orders[maker].instrument = i /\ orders[maker].side = side
        /\ orders[maker].price = p
        /\ BestLevel(books[i], side, p) /\ maker = Head(queue)
    BY DEF Executes, HeadOf
  <1> HIDE DEF i, side
  <1>2. QueuesHoldResting /\ OpenWait
    BY <1>1, OpenAre DEF QueueInv
  <1>3. queue \in Seq(OrderIds) /\ queue # << >> /\ books[i] \in Book
    <2>1. books[i] \in Book
      BY <1>1 DEF EngineInv, BooksInv
    <2>2. p \in Live(books[i], side)
      BY <1>1 DEF BestLevel
    <2>3. QED
      BY <1>1, <2>1, <2>2, BookFacts DEF Live
  <1>4. ASSUME NEW x \in Open \ {maker}, orders[x].instrument = i, orders[x].side = side
        PROVE  /\ ~Promise!Better(side, orders[x].price, p)
               /\ orders[x].price = p => <<maker, x>> \in Ahead
    <2> DEFINE q == orders[x].price
    <2>1. x \in DOMAIN orders /\ Waits(x) /\ maker \in DOMAIN orders
      BY <1>2 DEF OpenWait
    <2>2. q \in Prices /\ x \in Queued(books[i], side, q)
      BY <1>2, <1>4, <2>1, WaitingIsQueued
    <2>3. q \in Live(books[i], side)
      BY <1>1, <1>3, <2>2, BookFacts
    <2>4. AsGood(side, p, q)
      BY <1>1, <2>3 DEF BestLevel
    <2>5. ~Promise!Better(side, q, p)
      <3>1. Prices \subseteq Int
        BY EventConstants
      <3>2. p \in Int /\ q \in Int
        BY <2>2, <3>1
      <3>3. QED
        BY <2>4, <3>2 DEF AsGood, Promise!Better
    <2>6. ASSUME q = p
          PROVE  <<maker, x>> \in Ahead
      <3>1. x \in Range(queue)
        BY <2>2, <2>6 DEF Queued
      <3>2. InOrder(queue, maker, x)
        BY <1>1, <1>3, <1>4, <3>1, HeadInOrder
      <3>3. maker \in OrderIds /\ x \in OrderIds
        BY <2>1 DEF EngineInv, OrdersInv
      <3>4. InOrder(tracked, maker, x)
        BY <1>1, <3>2, <3>3 DEF PriorityInv, LinesUp
      <3>5. QED
        BY <3>4 DEF Ahead
    <2>7. QED
      BY <2>5, <2>6
  <1>5. \A x \in Open : /\ OpenOrders[x].instrument = orders[x].instrument
                        /\ OpenOrders[x].side = orders[x].side
                        /\ OpenOrders[x].price = orders[x].price
    BY DEF OpenOrders
  <1>6. DOMAIN OpenOrders = Open
    BY DEF OpenOrders
  <1>7. QED
    BY <1>1, <1>4, <1>5, <1>6 DEF Promise!FirstInLine, Promise!SameSide

LEMMA FillTrade ==
  ASSUME EngineInv, QueueInv, PriorityInv, EngineInv', QueueInv', MatchFill
  PROVE  Promise!Trade
  <1>1. PICK taker : taker = op.taker
    OBVIOUS
  <1>2. PICK p \in Prices, maker \in DOMAIN orders \ {taker} : Executes(taker, maker, p)
    BY <1>1, FillFacts
  <1> DEFINE units == orders'[maker].remaining
  <1>3. /\ op.phase = "match" /\ op'.phase \in {"match", "wedged"}
        /\ op'.phase = "match" => op'.taker = taker
        /\ Waits(maker) /\ DOMAIN orders' = DOMAIN orders /\ op'.fill = op.fill + 1
        /\ \A x \in DOMAIN orders \ {maker, taker} : orders'[x] = orders[x]
        /\ orders'[maker].instrument = orders[maker].instrument
        /\ orders'[maker].side = orders[maker].side
        /\ orders'[maker].price = orders[maker].price
        /\ units \in 0 .. orders[maker].remaining - 1
        /\ op'.phase = "wedged" => books' = books
        /\ op'.phase = "match" =>
             \/ orders'[maker].state = "resting" /\ units > 0
             \/ orders'[maker].state = "filled"
    BY <1>2 DEF Executes
  <1>4. tracked' = tracked
    BY DEF MatchFill
  <1>5. QueuesHoldResting /\ OpenWait
    BY <1>3, OpenAre DEF QueueInv
  <1>6. maker \in Open /\ taker \notin Open
    BY <1>1, <1>3, <1>5 DEF OpenWait, Waits
  <1>7. (Open' = Open /\ units > 0) \/ Open' = Open \ {maker}
    <2>1. CASE op'.phase = "wedged"
      <3>1. \A j \in Instruments : taker \notin books[j].resting
        BY <1>1, <1>3, <1>5 DEF QueuesHoldResting, Holds, Waits
      <3>2. \A x \in DOMAIN orders : orders'[x].instrument \in Instruments
        BY <1>3 DEF EngineInv, OrdersInv, Order
      <3>3. ASSUME NEW x \in DOMAIN orders \ {maker}
            PROVE  x \in Open' <=> x \in Open
        BY <1>3, <1>6, <2>1, <3>1, <3>2 DEF Open
      <3>4. maker \in Open' <=> units > 0
        BY <1>3, <1>6, <2>1 DEF Open
      <3>5. Open \subseteq DOMAIN orders /\ Open' \subseteq DOMAIN orders
        BY <1>3 DEF Open
      <3>6. CASE units > 0
        BY <1>6, <3>3, <3>4, <3>5, <3>6
      <3>7. CASE ~(units > 0)
        BY <3>3, <3>4, <3>5, <3>7
      <3>8. QED
        BY <3>6, <3>7
    <2>2. CASE op'.phase = "match"
      <3>1. OpenWait'
        BY <2>2, OpenAreNext DEF QueueInv
      <3>2. \A x \in DOMAIN orders \ {maker} : Waits(x)' <=> Waits(x)
        BY <1>1, <1>3, <2>2 DEF Waits
      <3>3. \/ Waits(maker)' /\ units > 0
            \/ ~Waits(maker)'
        BY <1>1, <1>2, <1>3, <2>2 DEF Waits
      <3>4. QED
        BY <1>3, <1>5, <3>1, <3>2, <3>3 DEF OpenWait
    <2>3. QED
      BY <1>3, <2>1, <2>2
  <1>8. (\A x \in Open \ {maker} : Alike(x)) /\ SameOrder(Open)
        /\ SameOrder(Open \ {maker})
    BY <1>3, <1>4, <1>6 DEF Alike, SameOrder, Open, InOrder
  <1>9. Promise!FirstInLine(maker)
    BY <1>2, <1>6, MakerIsFirst
  <1>10. Promise!Gone(maker) \/ Promise!Shrinks(maker)
    <2>1. CASE Open' = Open /\ units > 0
      <3>1. units \in 1 .. orders[maker].remaining - 1
        BY <1>3, <2>1
      <3>2. QED
        BY <1>3, <1>6, <1>8, <2>1, <3>1, LineNarrows
    <2>2. CASE Open' = Open \ {maker}
      BY <1>6, <1>8, <2>2, LineLoses
    <2>3. QED
      BY <1>7, <2>1, <2>2
  <1>11. FillId' = FillId + 1
    BY <1>3 DEF FillId
  <1>12. maker \in DOMAIN OpenOrders
    BY <1>6 DEF OpenOrders
  <1>13. QED
    BY <1>9, <1>10, <1>11, <1>12 DEF Promise!Trade

LEMMA MatchLine ==
  ASSUME EngineInv, QueueInv, PriorityInv, EngineInv', QueueInv', MatchTaker
  PROVE  Promise!Next \/ LineKeeps
  <1>1. CASE MatchSelfTrade \/ MatchRunsDry \/ MatchCompletes
    <2>1. PICK id : id = op.taker
      OBVIOUS
    <2>2. op.phase = "match" /\ id \in DOMAIN orders /\ orders[id] \in Order
      BY <1>1, <2>1, TakerFacts
      DEF MatchSelfTrade, MatchRunsDry, MatchCompletes, Sweeping
    <2>3. op'.phase \in {"finish", "wedged"} /\ op'.fill = op.fill
      <3>1. CASE MatchSelfTrade \/ MatchRunsDry
        <4>1. PICK body : Continue(<<body>>, "finish", op.fill)
          BY <3>1 DEF MatchSelfTrade, MatchRunsDry
        <4>2. QED
          BY <4>1 DEF Continue, EngineInv, OperationInv
      <3>2. CASE MatchCompletes
        BY <3>2 DEF MatchCompletes, EngineInv, OperationInv
      <3>3. QED
        BY <1>1, <3>1, <3>2
    <2>4. PICK state : orders' = [orders EXCEPT ![id].state = state]
      BY <1>1, <2>1 DEF MatchSelfTrade, MatchRunsDry, MatchCompletes
    <2>5. DOMAIN orders' = DOMAIN orders /\ \A x \in DOMAIN orders : Alike(x)
      BY <2>2, <2>4 DEF Alike, Order
    <2>6. tracked' = tracked /\ books' = books
      BY <1>1 DEF MatchSelfTrade, MatchRunsDry, MatchCompletes
    <2>7. FillId' = FillId
      BY <2>2, <2>3 DEF FillId
    <2>8. QED
      BY <2>5, <2>6, <2>7, QuietLine
  <1>2. QED
    BY <1>1, FillTrade, RestsEnters DEF MatchTaker, Promise!Next

LEMMA PromiseInit == Init => Promise!Init
  <1> SUFFICES ASSUME Init PROVE Promise!Init
    OBVIOUS
  <1>1. Open = {} /\ FillId = 1
    BY DEF Init, Open, FillId, Idle
  <1>2. QED
    BY <1>1 DEF Promise!Init, OpenOrders, Ahead

LEMMA PromiseNext ==
  ASSUME EngineInv, QueueInv, PriorityInv, EngineInv', QueueInv', [Next]_vars
  PROVE  Promise!Next \/ LineKeeps
  <1>1. ASSUME NEW now \in Times, NEW o \in Submissions, SubmitOrder(o, now)
        PROVE  LineKeeps
    BY <1>1, SubmitKeepsLine, RejectedLine DEF SubmitOrder, SubmitRejected
  <1>2. ASSUME NEW now \in Times, NEW c \in Cancellations, CancelOrder(c, now)
        PROVE  Promise!Leave \/ LineKeeps
    BY <1>2, CancelLine, RejectedLine DEF CancelOrder, CancelRejected
  <1>3. ASSUME NEW now \in Times, NEW a \in Amendments, AmendOrder(a, now)
        PROVE  Promise!Leave \/ Promise!Shrink \/ LineKeeps
    <2>1. CASE AmendRejected(a, now)
      <3>1. BeginOperation(now)
        BY <2>1 DEF AmendRejected
      <3>2. \E id, instrument, side, reason :
              RejectWith(now, id, instrument, side, reason)
        BY <2>1 DEF AmendRejected
      <3>3. QED
        BY <3>1, <3>2, RejectedLine
    <2>2. QED
      BY <1>3, <2>1, RequeuedLeaves, InPlaceShrinks DEF AmendOrder
  <1>4. CASE Commit
    <2>1. FillId' = FillId
      BY <1>4 DEF Commit, FillId, Idle
    <2>2. QED
      BY <1>4, <2>1, QuietLine DEF Commit, Alike
  <1>5. CASE UNCHANGED vars
    <2>1. FillId' = FillId
      BY <1>5 DEF vars, FillId
    <2>2. QED
      BY <1>5, <2>1, QuietLine DEF vars, Alike
  <1>6. QED
    BY <1>1, <1>2, <1>3, <1>4, <1>5, MatchLine DEF Next, Call, Promise!Next

(* The engine keeps price/time priority (engine.mjs, book.mjs): every step *)
(* of every operation is a step of the line of open orders, or leaves the  *)
(* line as it is.                                                          *)
THEOREM EngineKeepsPriority == Spec => KeepsPriceTimePriority
  <1>1. EngineInv /\ QueueInv /\ PriorityInv /\ EngineInv' /\ QueueInv' /\ [Next]_vars
          => [Promise!Next]_<<OpenOrders, Ahead, FillId>>
    BY PromiseNext DEF LineKeeps
  <1>2. QED
    BY <1>1, EngineInvAlways, QueueAlways, PriorityAlways, PromiseInit, PTL
    DEF Spec, KeepsPriceTimePriority, Promise!Spec
=============================================================================
