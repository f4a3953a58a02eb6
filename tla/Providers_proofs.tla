--------------------------- MODULE Providers_proofs ---------------------------
(***************************************************************************)
(* What a receiver may rely on, for every value of the constants: the      *)
(* quotes of QuoteSimulator (every scale, spread, fee, price and amount),  *)
(* the inbox of CallbackInbox (every number of subjects, event ids and     *)
(* sequences, every adapter), the onboarding of KycOnboarding (every       *)
(* subject, session, scenario, delay and bound) and the personal checks of *)
(* ChecksSimulator over the network of CallbackReceiver.                   *)
(*                                                                         *)
(* IssuedQuotesValidate is not inductive: while a request is in hand, the  *)
(* invariant says that the budget pays for low and not for high, which is  *)
(* what the check of the receiver comes to once they are neighbours.       *)
(*                                                                         *)
(* Nor is CallbacksFoldInOrder: it follows from what each subject keeps.   *)
(* What was applied is a chain of claims, each allowed after the one       *)
(* before; what is parked was claimed and is not next; and, where no two   *)
(* claims contradict each other, a claim beyond the sequence reached is    *)
(* parked, or next and not allowed.                                        *)
(*                                                                         *)
(* KycFollowsProvider rests on what lies between the provider and what a   *)
(* subject is shown: a delivery repeats an event that has occurred when it *)
(* is due, and the inbox keeps, applied or parked, only such events that   *)
(* were in time; a submit that waits holds an application of its own       *)
(* subject.  A drain is a fold over what is due, in the order of signing:  *)
(* the proof is by induction over the deliveries received.                 *)
(*                                                                         *)
(* InboxTellsTheChecks needs what lies between a check and its receiver    *)
(* too: every delivery, queued or on the wire, says what happened to the   *)
(* check, and a delivery the verifier once accepted is too old to be read  *)
(* again or its nonce is still kept, whatever the skew of the clocks.      *)
(***************************************************************************)
EXTENDS QuoteSimulator, CallbackInbox, KycOnboarding, SetSums, SequenceTheorems, TLAPS

LEMMA Division ==
  ASSUME NEW n \in Nat, NEW d \in Nat \ {0}
  PROVE  /\ n \div d \in Nat /\ n % d \in Nat
         /\ n = d * (n \div d) + (n % d)
         /\ n % d < d
  OBVIOUS

LEMMA ProductMonotone ==
  ASSUME NEW a \in Nat, NEW b \in Nat, NEW c \in Nat, a <= b
  PROVE  a * c <= b * c
  OBVIOUS

LEMMA ProductCancels ==
  ASSUME NEW a \in Int, NEW b \in Int, NEW c \in Nat \ {0}, a * c < b * c
  PROVE  a < b
  OBVIOUS

(* Rounding up is the least multiple that covers the number.               *)
LEMMA UpCovers ==
  ASSUME NEW n \in Nat, NEW d \in Nat \ {0}
  PROVE  /\ Up(n, d) \in Nat
         /\ n <= Up(n, d) * d
         /\ Up(n, d) * d < n + d
  <1> DEFINE q == n \div d
             r == n % d
  <1>1. q \in Nat /\ r \in Nat /\ n = d * q + r /\ r < d
    BY Division
  <1>2. d * q = q * d /\ (q + 1) * d = q * d + d
    BY <1>1
  <1>3. Up(n, d) = IF r = 0 THEN q ELSE q + 1
    BY DEF Up
  <1> HIDE DEF q, r
  <1>4. QED
    BY <1>1, <1>2, <1>3

LEMMA UpMonotone ==
  ASSUME NEW m \in Nat, NEW n \in Nat, NEW d \in Nat \ {0}, m <= n
  PROVE  Up(m, d) <= Up(n, d)
  <1> DEFINE u == Up(m, d)
             v == Up(n, d)
  <1>1. u \in Nat /\ v \in Nat /\ u * d < m + d /\ n <= v * d
    BY UpCovers
  <1> HIDE DEF u, v
  <1>2. u * d < (v + 1) * d
    BY <1>1
  <1>3. u < v + 1
    BY <1>1, <1>2, ProductCancels
  <1>4. QED
    BY <1>1, <1>3 DEF u, v

OptionsTyped == options \in [spread : Spreads, fee : Fees]

LEMMA ConstantsTyped ==
  ASSUME QuoteConstants, OptionsTyped
  PROVE  /\ BasisPoints \in Nat \ {0} /\ PriceUnit \in Nat \ {0}
         /\ BaseUnit \in Nat \ {0} /\ QuoteUnit \in Nat \ {0}
         /\ options.spread \in Nat /\ options.fee \in Nat
         /\ Mids \subseteq Nat \ {0} /\ Amounts \subseteq Nat \ {0}
  <1>1. /\ BasisPoints \in Nat \ {0} /\ PriceUnit \in Nat \ {0}
        /\ BaseUnit \in Nat \ {0} /\ QuoteUnit \in Nat \ {0}
    BY DEF QuoteConstants
  <1>2. options.spread \in Spreads /\ options.fee \in Fees
    BY DEF OptionsTyped
  <1>3. options.spread \in 0..BasisPoints /\ options.fee \in 0..BasisPoints
    BY <1>2 DEF QuoteConstants
  <1>4. QED
    BY <1>1, <1>3 DEF QuoteConstants

LEMMA BuyPricePositive ==
  ASSUME QuoteConstants, OptionsTyped, NEW mid \in Mids
  PROVE  Price("buy", mid) \in Nat \ {0}
  <1> DEFINE d == 2 * BasisPoints
             n == mid * (2 * BasisPoints + options.spread)
  <1>1. /\ mid \in Nat \ {0} /\ options.spread \in Nat
        /\ BasisPoints \in Nat \ {0}
    BY ConstantsTyped
  <1>2. d \in Nat \ {0} /\ n \in Nat /\ n > 0
    BY <1>1
  <1> HIDE DEF d, n
  <1>3. Up(n, d) \in Nat /\ n <= Up(n, d) * d
    BY <1>2, UpCovers
  <1>4. Up(n, d) # 0
    BY <1>2, <1>3
  <1>5. QED
    BY <1>3, <1>4 DEF Price, n, d

(* What a base amount costs: rounded up twice, so never less than its      *)
(* exact price, and never less for more.                                   *)
Exact(base, mid) == base * Price("buy", mid) * QuoteUnit

LEMMA ExactTyped ==
  ASSUME QuoteConstants, OptionsTyped, NEW mid \in Mids, NEW base \in Nat
  PROVE  /\ Exact(base, mid) \in Nat
         /\ BaseUnit * PriceUnit \in Nat \ {0}
         /\ QuoteUnits("buy", base, Price("buy", mid)) = Up(Exact(base, mid), BaseUnit * PriceUnit)
  <1>1. Price("buy", mid) \in Nat \ {0}
    BY BuyPricePositive
  <1>2. BaseUnit \in Nat \ {0} /\ PriceUnit \in Nat \ {0} /\ QuoteUnit \in Nat \ {0}
    BY ConstantsTyped
  <1>3. BaseUnit * PriceUnit \in Nat \ {0}
    BY <1>2
  <1>4. Exact(base, mid) \in Nat
    BY <1>1, <1>2 DEF Exact
  <1>5. QED
    BY <1>3, <1>4 DEF QuoteUnits, Exact

LEMMA FeeMonotone ==
  ASSUME QuoteConstants, OptionsTyped, NEW u \in Nat, NEW v \in Nat, u <= v
  PROVE  Fee(u) \in Nat /\ Fee(v) \in Nat /\ Fee(u) <= Fee(v)
  <1>1. options.fee \in Nat /\ BasisPoints \in Nat \ {0}
    BY ConstantsTyped
  <1>2. u * options.fee \in Nat /\ v * options.fee \in Nat
    BY <1>1
  <1>3. u * options.fee <= v * options.fee
    BY <1>1, ProductMonotone
  <1>4. QED
    BY <1>1, <1>2, <1>3, UpCovers, UpMonotone DEF Fee

LEMMA TotalCovers ==
  ASSUME QuoteConstants, OptionsTyped, NEW mid \in Mids, NEW base \in Nat
  PROVE  /\ BuyTotal(base, mid) \in Nat
         /\ Exact(base, mid) <= BuyTotal(base, mid) * (BaseUnit * PriceUnit)
  <1> DEFINE d == BaseUnit * PriceUnit
             u == Up(Exact(base, mid), d)
  <1>1. Exact(base, mid) \in Nat /\ d \in Nat \ {0}
    BY ExactTyped
  <1>2. u \in Nat /\ Exact(base, mid) <= u * d
    BY <1>1, UpCovers
  <1>3. Fee(u) \in Nat /\ BuyTotal(base, mid) = u + Fee(u)
    BY <1>2, ExactTyped, FeeMonotone DEF BuyTotal, Total
  <1> HIDE DEF d, u
  <1>4. u <= u + Fee(u) /\ u + Fee(u) \in Nat
    BY <1>2, <1>3
  <1>5. u * d <= (u + Fee(u)) * d
    BY <1>1, <1>2, <1>4, ProductMonotone
  <1>6. (u + Fee(u)) * d \in Nat /\ u * d \in Nat
    BY <1>1, <1>2, <1>4
  <1>7. Exact(base, mid) <= (u + Fee(u)) * d
    BY <1>1, <1>2, <1>5, <1>6
  <1>8. QED
    BY <1>3, <1>4, <1>7 DEF d

LEMMA TotalMonotone ==
  ASSUME QuoteConstants, OptionsTyped, NEW mid \in Mids,
         NEW a \in Nat, NEW b \in Nat, a <= b
  PROVE  BuyTotal(a, mid) <= BuyTotal(b, mid)
  <1> DEFINE d == BaseUnit * PriceUnit
             c == Price("buy", mid) * QuoteUnit
             u == Up(Exact(a, mid), d)
             v == Up(Exact(b, mid), d)
  <1>1. c \in Nat
    BY BuyPricePositive, ConstantsTyped
  <1>2. Exact(a, mid) = a * c /\ Exact(b, mid) = b * c
    BY BuyPricePositive, ConstantsTyped DEF Exact
  <1>3. Exact(a, mid) <= Exact(b, mid)
    BY <1>1, <1>2, ProductMonotone
  <1>4. u \in Nat /\ v \in Nat /\ u <= v
    BY <1>3, ExactTyped, UpCovers, UpMonotone
  <1>5. /\ Fee(u) \in Nat /\ Fee(v) \in Nat /\ Fee(u) <= Fee(v)
        /\ BuyTotal(a, mid) = u + Fee(u) /\ BuyTotal(b, mid) = v + Fee(v)
    BY <1>4, ExactTyped, FeeMonotone DEF BuyTotal, Total
  <1> HIDE DEF u, v
  <1>6. QED
    BY <1>4, <1>5

(* The bisection begins with a budget that pays for nothing at least, and  *)
(* not for high.                                                           *)
LEMMA NothingIsFree ==
  ASSUME QuoteConstants, OptionsTyped, NEW mid \in Mids
  PROVE  BuyTotal(0, mid) = 0
  <1>1. Exact(0, mid) = 0
    BY BuyPricePositive, ConstantsTyped DEF Exact
  <1>2. Up(0, BaseUnit * PriceUnit) = 0 /\ Up(0, BasisPoints) = 0
    <2>1. \A d \in Nat \ {0} : Up(0, d) = 0
      <3> TAKE d \in Nat \ {0}
      <3>1. Up(0, d) \in Nat /\ Up(0, d) * d < d
        BY UpCovers
      <3>2. Up(0, d) < 1
        BY <3>1, ProductCancels
      <3>3. QED
        BY <3>1, <3>2
    <2>2. QED
      BY <2>1, ExactTyped, ConstantsTyped
  <1>3. Fee(0) = 0
    BY <1>2, ConstantsTyped DEF Fee
  <1>4. QED
    BY <1>1, <1>2, <1>3, ExactTyped DEF BuyTotal, Total

LEMMA HighOverruns ==
  ASSUME QuoteConstants, OptionsTyped, NEW mid \in Mids, NEW budget \in Amounts
  PROVE  /\ High(budget, mid) \in Nat \ {0}
         /\ BuyTotal(High(budget, mid), mid) > budget
  <1> DEFINE d == BaseUnit * PriceUnit
             c == Price("buy", mid) * QuoteUnit
             h == High(budget, mid)
  <1>1. budget \in Nat /\ d \in Nat \ {0} /\ c \in Nat \ {0}
    BY BuyPricePositive, ConstantsTyped
  <1>2. budget * d \in Nat
    BY <1>1
  <1>3. /\ h = (budget * d) \div c + 1
        /\ (budget * d) \div c \in Nat
    BY <1>1, <1>2, Division DEF High
  <1> HIDE DEF d, c, h
  <1>4. budget * d < h * c
    BY <1>1, <1>2, <1>3, Division
  <1>5. h \in Nat \ {0}
    BY <1>3
  <1>6. Exact(h, mid) = h * c
    BY <1>5, BuyPricePositive, ConstantsTyped DEF c, Exact
  <1>7. BuyTotal(h, mid) \in Nat /\ Exact(h, mid) <= BuyTotal(h, mid) * d
    BY <1>5, TotalCovers DEF d
  <1>8. budget * d < BuyTotal(h, mid) * d
    BY <1>1, <1>2, <1>4, <1>5, <1>6, <1>7
  <1>9. QED
    BY <1>1, <1>5, <1>7, <1>8, ProductCancels DEF h
-----------------------------------------------------------------------------
(* The budget pays for low and not for high.                               *)
Bracketed(s) ==
  /\ s.key \in IdempotencyKeys /\ s.request \in Requests /\ s.mid \in Mids
  /\ s.low \in Nat /\ s.high \in Nat /\ s.low < s.high
  /\ s.request.mode = "quote" =>
       /\ BuyTotal(s.low, s.mid) <= s.request.amount
       /\ s.request.amount < BuyTotal(s.high, s.mid)

Search == [key : IdempotencyKeys, request : Requests, mid : Mids, low : Nat, high : Nat]

(* And what one unit more would overrun is overrun by everything above.    *)
Largest(q) ==
  /\ q.mode \in {"base", "quote"}
  /\ q.mode = "quote" =>
       /\ q.budget \in Nat
       /\ \A b \in Nat : b > q.base => BuyTotal(b, q.mid) > q.budget

QuoteInv ==
  /\ OptionsTyped
  /\ quotes = [k \in IdempotencyKeys |-> quotes[k]]
  /\ \A k \in IdempotencyKeys : quotes[k] # None => Validates(quotes[k]) /\ Largest(quotes[k])
  /\ search # None => search \in Search /\ Bracketed(search)

LEMMA RequestsTyped ==
  ASSUME QuoteConstants, OptionsTyped, NEW request \in Requests
  PROVE  /\ request.amount \in Amounts /\ request.amount \in Nat \ {0}
         /\ request.side \in {"buy", "sell"} /\ request.mode \in {"base", "quote"}
         /\ request.mode = "quote" => request.side = "buy"
  <1>1. /\ request.amount \in Amounts
        /\ request.side \in {"buy", "sell"} /\ request.mode \in {"base", "quote"}
        /\ request.mode = "quote" => request.side = "buy"
    BY DEF Requests
  <1>2. QED
    BY <1>1, ConstantsTyped

LEMMA InitBrackets ==
  ASSUME QuoteConstants, Init
  PROVE  QuoteInv
  BY DEF Init, QuoteInv, OptionsTyped

LEMMA RequestBrackets ==
  ASSUME QuoteConstants, QuoteInv,
         NEW key \in IdempotencyKeys, NEW request \in Requests, NEW mid \in Mids,
         RequestQuote(key, request, mid)
  PROVE  search' \in Search /\ Bracketed(search')
  <1> DEFINE low == IF request.mode = "quote" THEN 0 ELSE request.amount
             high == IF request.mode = "quote" THEN High(request.amount, mid)
                                               ELSE request.amount + 1
  <1>1. OptionsTyped
    BY DEF QuoteInv
  <1>2. /\ request.amount \in Amounts /\ request.amount \in Nat \ {0}
        /\ request.mode \in {"base", "quote"}
    BY <1>1, RequestsTyped
  <1>3. /\ High(request.amount, mid) \in Nat \ {0}
        /\ BuyTotal(High(request.amount, mid), mid) > request.amount
        /\ BuyTotal(High(request.amount, mid), mid) \in Nat
    BY <1>1, <1>2, HighOverruns, TotalCovers
  <1>4. BuyTotal(0, mid) = 0
    BY <1>1, NothingIsFree
  <1>5. low \in Nat /\ high \in Nat /\ low < high
    BY <1>2, <1>3
  <1>6. request.mode = "quote" =>
          /\ BuyTotal(low, mid) <= request.amount
          /\ request.amount < BuyTotal(high, mid)
    BY <1>2, <1>3, <1>4
  <1>7. search' = [key |-> key, request |-> request, mid |-> mid, low |-> low, high |-> high]
    BY DEF RequestQuote
  <1> HIDE DEF low, high
  <1>8. /\ search'.key = key /\ search'.request = request /\ search'.mid = mid
        /\ search'.low = low /\ search'.high = high
        /\ search' \in Search
    BY <1>5, <1>7 DEF Search
  <1> DEFINE s == search'
  <1>9. /\ s.key = key /\ s.request = request /\ s.mid = mid
        /\ s.low = low /\ s.high = high
    BY <1>8
  <1> HIDE DEF s
  <1>10. Bracketed(s)
    BY <1>5, <1>6, <1>9 DEF Bracketed
  <1>11. QED
    BY <1>8, <1>10 DEF s

(* The price of an amount depends on the options only, which never change. *)
LEMMA TotalsStay ==
  ASSUME options' = options
  PROVE  /\ \A b, m : BuyTotal(b, m)' = BuyTotal(b, m)
         /\ \A q : (Validates(q) => Validates(q)') /\ (Largest(q) => Largest(q)')
         /\ \A s : Bracketed(s) => Bracketed(s)'
  <1>1. \A b, m : BuyTotal(b, m)' = BuyTotal(b, m)
    BY DEF BuyTotal, Total, Fee, QuoteUnits, Price
  <1>2. \A a, b, m : Computed(a, b, m)' = Computed(a, b, m)
    BY DEF Computed, Total, Fee, QuoteUnits, Price
  <1>3. QED
    BY <1>1, <1>2 DEF Validates, Largest, Bracketed

(* A step that leaves the quotes alone keeps the invariant if it leaves    *)
(* the search bracketed.                                                   *)
LEMMA SearchStepKeeps ==
  ASSUME QuoteInv, options' = options, quotes' = quotes,
         NEW s, s = search', s # None => s \in Search /\ Bracketed(s)
  PROVE  QuoteInv'
  <1>1. search' # None => search' \in Search /\ Bracketed(s)'
    BY TotalsStay
  <1>2. search' # None => Bracketed(search)'
    BY <1>1 DEF Bracketed
  <1>3. OptionsTyped' /\ Search' = Search
    BY DEF QuoteInv, OptionsTyped
  <1>4. \A k \in IdempotencyKeys :
          quotes'[k] # None => Validates(quotes[k])' /\ Largest(quotes[k])'
    <2> SUFFICES ASSUME NEW k \in IdempotencyKeys, quotes'[k] # None
                 PROVE  Validates(quotes[k])' /\ Largest(quotes[k])'
      OBVIOUS
    <2>1. PICK q : q = quotes[k] /\ q = quotes'[k]
      OBVIOUS
    <2>2. Validates(q) /\ Largest(q)
      BY <2>1 DEF QuoteInv
    <2>3. Validates(q)' /\ Largest(q)'
      BY <2>2, TotalsStay
    <2>4. QED
      BY <2>1, <2>3 DEF Validates, Largest
  <1>5. QED
    BY <1>1, <1>2, <1>3, <1>4 DEF QuoteInv

LEMMA RequestKeeps ==
  ASSUME QuoteConstants, QuoteInv,
         NEW key \in IdempotencyKeys, NEW request \in Requests, NEW mid \in Mids,
         RequestQuote(key, request, mid)
  PROVE  QuoteInv'
  <1>1. options' = options /\ quotes' = quotes
    BY DEF RequestQuote
  <1>2. PICK s : s = search'
    OBVIOUS
  <1>3. s \in Search /\ Bracketed(s)
    BY <1>2, RequestBrackets
  <1>4. QED
    BY <1>1, <1>2, <1>3, SearchStepKeeps

(* The middle becomes low where the budget pays for it, high where not.    *)
LEMMA HalveKeeps ==
  ASSUME QuoteConstants, QuoteInv, Halve
  PROVE  QuoteInv'
  <1> DEFINE middle == (search.low + search.high) \div 2
  <1>1. /\ options' = options /\ quotes' = quotes
        /\ search # None /\ ~(search.high - search.low <= 1)
        /\ search' = IF BuyTotal(middle, search.mid) <= search.request.amount
                       THEN [search EXCEPT !.low = middle]
                       ELSE [search EXCEPT !.high = middle]
    BY DEF Halve, Found
  <1>2. search \in Search /\ Bracketed(search) /\ OptionsTyped
    BY <1>1 DEF QuoteInv
  <1>3. middle \in Nat /\ search.low < middle /\ middle < search.high
    BY <1>1, <1>2 DEF Bracketed
  <1>4. /\ search.mid \in Mids /\ search.request.amount \in Nat
        /\ BuyTotal(middle, search.mid) \in Nat
    BY <1>2, <1>3, RequestsTyped, TotalCovers DEF Bracketed
  <1> HIDE DEF middle
  <1>5. PICK s : s = search'
    OBVIOUS
  <1>6. s \in Search /\ Bracketed(s)
    <2>1. CASE BuyTotal(middle, search.mid) <= search.request.amount
      <3>1. s = [search EXCEPT !.low = middle]
        BY <1>1, <1>5, <2>1
      <3>2. /\ s \in Search /\ s.key = search.key /\ s.request = search.request
            /\ s.mid = search.mid /\ s.low = middle /\ s.high = search.high
        BY <1>2, <1>3, <3>1 DEF Search
      <3>3. QED
        BY <1>2, <1>3, <2>1, <3>2 DEF Bracketed
    <2>2. CASE ~(BuyTotal(middle, search.mid) <= search.request.amount)
      <3>1. s = [search EXCEPT !.high = middle]
        BY <1>1, <1>5, <2>2
      <3>2. /\ s \in Search /\ s.key = search.key /\ s.request = search.request
            /\ s.mid = search.mid /\ s.low = search.low /\ s.high = middle
        BY <1>2, <1>3, <3>1 DEF Search
      <3>3. search.request.amount < BuyTotal(middle, search.mid)
        BY <1>4, <2>2
      <3>4. QED
        BY <1>2, <1>3, <3>2, <3>3 DEF Bracketed
    <2>3. QED
      BY <2>1, <2>2
  <1>7. QED
    BY <1>1, <1>5, <1>6, SearchStepKeeps

(* Once low and high are neighbours, low is the amount the receiver asks   *)
(* for.                                                                    *)
LEMMA FoundIsLargest ==
  ASSUME QuoteConstants, OptionsTyped, NEW s \in Search, Bracketed(s),
         s.high - s.low <= 1,
         Quotable(s.low, Computed(s.request.side, s.low, s.mid)),
         NEW q, q = Quote(s.request, s.mid, s.low)
  PROVE  Validates(q) /\ Largest(q)
  <1>1. /\ s.low \in Nat /\ s.high = s.low + 1
        /\ s.mid \in Mids /\ s.request \in Requests
    BY DEF Bracketed
  <1>2. /\ s.request.amount \in Nat \ {0} /\ s.request.mode \in {"base", "quote"}
        /\ s.request.mode = "quote" => s.request.side = "buy"
    BY <1>1, RequestsTyped
  <1>3. /\ q.side = s.request.side /\ q.mode = s.request.mode
        /\ q.base = s.low /\ q.mid = s.mid
        /\ q.mode = "quote" => q.budget = s.request.amount
        /\ q.amounts = Computed(q.side, q.base, q.mid)
    BY DEF Quote
  <1>4. q.base > 0 /\ q.amounts.total # 0
    BY <1>1, <1>3 DEF Quotable
  <1>5. q.mode = "quote" => q.amounts.total = BuyTotal(q.base, q.mid)
    BY <1>2, <1>3 DEF Computed, BuyTotal
  <1>6. q.mode = "quote" =>
          /\ BuyTotal(q.base, q.mid) <= q.budget
          /\ BuyTotal(q.base + 1, q.mid) > q.budget
    <2>1. BuyTotal(s.high, s.mid) \in Nat /\ BuyTotal(s.low, s.mid) \in Nat
      BY <1>1, TotalCovers
    <2>2. QED
      BY <1>1, <1>2, <1>3, <2>1 DEF Bracketed
  <1>7. ASSUME q.mode = "quote", NEW b \in Nat, b > q.base
        PROVE  BuyTotal(b, q.mid) > q.budget
    <2>1. q.base + 1 \in Nat /\ q.base + 1 <= b
      BY <1>1, <1>3, <1>7
    <2>2. /\ BuyTotal(q.base + 1, q.mid) <= BuyTotal(b, q.mid)
          /\ BuyTotal(q.base + 1, q.mid) \in Nat /\ BuyTotal(b, q.mid) \in Nat
      BY <1>1, <1>3, <2>1, TotalMonotone, TotalCovers
    <2>3. QED
      BY <1>2, <1>3, <1>6, <1>7, <2>2
  <1>8. QED
    BY <1>2, <1>3, <1>4, <1>5, <1>6, <1>7 DEF Validates, Largest

LEMMA AnswerKeeps ==
  ASSUME QuoteConstants, QuoteInv, Answer
  PROVE  QuoteInv'
  <1>1. /\ search # None /\ search.high - search.low <= 1
        /\ options' = options /\ search' = None
    BY DEF Answer, Found
  <1>2. search \in Search /\ Bracketed(search) /\ OptionsTyped
    BY <1>1 DEF QuoteInv
  <1>3. OptionsTyped'
    BY <1>1, <1>2 DEF OptionsTyped
  <1>4. quotes' = [k \in IdempotencyKeys |-> quotes'[k]]
    BY DEF Answer, QuoteInv
  <1>5. ASSUME NEW k \in IdempotencyKeys, quotes'[k] # None
        PROVE  Validates(quotes[k])' /\ Largest(quotes[k])'
    <2>1. PICK q : q = quotes'[k]
      OBVIOUS
    <2>2. Validates(q) /\ Largest(q)
      <3>1. CASE q = quotes[k]
        BY <1>5, <2>1, <3>1 DEF QuoteInv
      <3>2. CASE q # quotes[k]
        <4>1. /\ Quotable(search.low, Computed(search.request.side, search.low, search.mid))
              /\ q = Quote(search.request, search.mid, search.low)
          BY <2>1, <3>2 DEF Answer, QuoteInv
        <4>2. QED
          BY <1>1, <1>2, <4>1, FoundIsLargest
      <3>3. QED
        BY <3>1, <3>2
    <2>3. Validates(q)' /\ Largest(q)'
      BY <1>1, <2>2, TotalsStay
    <2>4. QED
      BY <2>1, <2>3 DEF Validates, Largest
  <1>6. QED
    BY <1>1, <1>3, <1>4, <1>5 DEF QuoteInv

LEMMA StepKeeps ==
  ASSUME QuoteConstants, QuoteInv, [Next]_vars
  PROVE  QuoteInv'
  <1>1. CASE UNCHANGED vars
    <2>1. options' = options /\ quotes' = quotes /\ search' = search
      BY <1>1 DEF vars
    <2>2. PICK s : s = search'
      OBVIOUS
    <2>3. s # None => s \in Search /\ Bracketed(s)
      BY <2>1, <2>2 DEF QuoteInv
    <2>4. QED
      BY <2>1, <2>2, <2>3, SearchStepKeeps
  <1>2. CASE Next
    BY <1>2, RequestKeeps, HalveKeeps, AnswerKeeps DEF Next
  <1>3. QED
    BY <1>1, <1>2

(* Every quote passes the check of its receiver (quotes.mjs,               *)
(* validateSignedQuote).                                                   *)
THEOREM QuotesValidate ==
  ASSUME QuoteConstants
  PROVE  Spec => []IssuedQuotesValidate
  <1>1. Init => QuoteInv
    BY InitBrackets
  <1>2. QuoteInv /\ [Next]_vars => QuoteInv'
    BY StepKeeps
  <1>3. QuoteInv => IssuedQuotesValidate
    BY DEF QuoteInv, IssuedQuotesValidate
  <1>4. QED
    BY <1>1, <1>2, <1>3, PTL DEF Spec

(* And no larger amount, however much larger, costs at most the budget:    *)
(* what the check of one unit more (quotes.mjs) stands for.                *)
THEOREM BudgetsBuyTheMost ==
  ASSUME QuoteConstants
  PROVE  Spec => [](\A k \in IdempotencyKeys : quotes[k] # None => Largest(quotes[k]))
  <1>1. Init => QuoteInv
    BY InitBrackets
  <1>2. QuoteInv /\ [Next]_vars => QuoteInv'
    BY StepKeeps
  <1>3. QuoteInv => \A k \in IdempotencyKeys : quotes[k] # None => Largest(quotes[k])
    BY DEF QuoteInv
  <1>4. QED
    BY <1>1, <1>2, <1>3, PTL DEF Spec
-----------------------------------------------------------------------------
StatusMaps == UNION {[D -> Statuses] : D \in SUBSET Nat}

(* The record of an open subject.                                          *)
SubjectRecord ==
  [status : Statuses \cup {InitialStatus}, sequence : Nat, deadline : Instants,
   timedOut : BOOLEAN, parked : StatusMaps, applied : StatusMaps,
   eventIds : SUBSET EventIds, claims : SUBSET (Sequences \X Statuses)]

(* The status after the n-th applied callback.                             *)
StatusAt(x, n) == IF n = 0 THEN InitialStatus ELSE x.applied[n]

(* No two claims contradict each other.                                    *)
Agreed(claims) == \A c, d \in claims : c[1] = d[1] => c[2] = d[2]

(* What was applied is what was claimed, each step allowed.                *)
AppliedInv(x) ==
  /\ x.sequence \in Sequences \cup {0}
  /\ DOMAIN x.applied = 1 .. x.sequence
  /\ x.status = StatusAt(x, x.sequence)
  /\ \A n \in 1 .. x.sequence :
       /\ <<n, x.applied[n]>> \in x.claims
       /\ x.applied[n] \in Transitions[StatusAt(x, n - 1)]

ParkedInv(x) ==
  \A n \in DOMAIN x.parked :
    n \in Sequences /\ n > x.sequence + 1 /\ <<n, x.parked[n]>> \in x.claims

(* What was claimed and not applied is parked, or not allowed next.        *)
ClaimsInv(x) ==
  /\ IsFiniteSet(x.claims)
  /\ Agreed(x.claims) =>
       \A c \in x.claims :
         /\ c[1] > x.sequence + 1 => c[1] \in DOMAIN x.parked
         /\ c[1] = x.sequence + 1 => c[2] \notin Transitions[x.status]

SubjectInv(x) == x \in SubjectRecord /\ AppliedInv(x) /\ ParkedInv(x) /\ ClaimsInv(x)
-----------------------------------------------------------------------------
(* A set of naturals that begins at a number and has no gap.               *)
LEMMA GaplessInterval ==
  ASSUME NEW N \in Nat, NEW a \in Nat, a >= 1, NEW T, T \subseteq a .. N,
         \A n \in T : \A k \in a .. n : k \in T
  PROVE  IsFiniteSet(T) /\ T = a .. (a - 1 + Cardinality(T)) /\ Cardinality(T) \in Nat
  <1> DEFINE Out == {n \in Nat : n >= a /\ n \notin T}
  <1>1. N + a + 1 \in Out
    OBVIOUS
  <1>2. PICK m \in Out : \A n \in Out : ~(n < m)
    BY <1>1, LeastNatural
  <1>3. m \in Nat /\ m >= a /\ m \notin T
    OBVIOUS
  <1>4. \A n \in a .. (m - 1) : n \in T
    BY <1>2, <1>3
  <1>5. \A n \in T : n < m
    <2> SUFFICES ASSUME NEW n \in T, n >= m PROVE FALSE
      BY <1>3
    <2>1. m \in a .. n
      BY <1>3
    <2>2. QED
      BY <1>3, <2>1
  <1> HIDE DEF Out
  <1>6. T = a .. (m - 1)
    <2>1. \A n \in T : n \in a .. (m - 1)
      BY <1>3, <1>5
    <2>2. QED
      BY <1>4, <2>1
  <1>7. IsFiniteSet(a .. (m - 1)) /\ Cardinality(a .. (m - 1)) = IF a > m - 1 THEN 0 ELSE (m - 1) - a + 1
    BY <1>3, FS_Interval
  <1>8. Cardinality(T) = m - a /\ IsFiniteSet(T)
    BY <1>3, <1>6, <1>7
  <1>9. QED
    BY <1>3, <1>6, <1>8

LEMMA MapsShape ==
  /\ \A f \in StatusMaps : /\ f = [k \in DOMAIN f |-> f[k]] /\ DOMAIN f \subseteq Nat
                     /\ \A k \in DOMAIN f : f[k] \in Statuses
  /\ \A D, f : D \subseteq Nat /\ f = [k \in D |-> f[k]] /\ (\A k \in D : f[k] \in Statuses) => f \in StatusMaps
  <1>1. \A f \in StatusMaps : /\ f = [k \in DOMAIN f |-> f[k]] /\ DOMAIN f \subseteq Nat
                        /\ \A k \in DOMAIN f : f[k] \in Statuses
    BY DEF StatusMaps
  <1>2. ASSUME NEW D, NEW f, D \subseteq Nat, f = [k \in D |-> f[k]], \A k \in D : f[k] \in Statuses
        PROVE  f \in StatusMaps
    <2>1. f \in [D -> Statuses] /\ D \in SUBSET Nat
      BY <1>2
    <2>2. QED
      BY <2>1 DEF StatusMaps
  <1>3. QED
    BY <1>1, <1>2

LEMMA MappedShape ==
  ASSUME NEW f \in StatusMaps, NEW k \in Nat, NEW v \in Statuses
  PROVE  /\ Mapped(f, k, v) \in StatusMaps /\ DOMAIN Mapped(f, k, v) = DOMAIN f \cup {k}
         /\ Mapped(f, k, v)[k] = v
         /\ \A n \in DOMAIN f : n # k => Mapped(f, k, v)[n] = f[n]
  <1> DEFINE g == Mapped(f, k, v)
  <1>1. /\ g = [n \in DOMAIN f \cup {k} |-> IF n = k THEN v ELSE f[n]]
        /\ DOMAIN g = DOMAIN f \cup {k}
        /\ \A n \in DOMAIN g : g[n] = IF n = k THEN v ELSE f[n]
    BY DEF Mapped
  <1> HIDE DEF g
  <1>2. DOMAIN g \subseteq Nat /\ \A n \in DOMAIN g : g[n] \in Statuses
    BY <1>1, MapsShape
  <1>3. g = [n \in DOMAIN g |-> g[n]]
    BY <1>1
  <1>4. g \in StatusMaps
    BY <1>2, <1>3, MapsShape
  <1>5. QED
    BY <1>1, <1>4 DEF g

(* What accept takes from the parked callbacks.                            *)
TurnOf(x, turn, last) ==
  /\ last \in Nat /\ last >= x.sequence
  /\ turn = (x.sequence + 1) .. last /\ turn \subseteq DOMAIN x.parked
  /\ turn = {} <=> last = x.sequence
  /\ \A n \in turn :
       x.parked[n] \in Transitions[IF n = x.sequence + 1 THEN x.status ELSE x.parked[n - 1]]
  /\ last + 1 \in DOMAIN x.parked =>
       x.parked[last + 1] \notin Transitions[IF last = x.sequence THEN x.status ELSE x.parked[last]]

LEMMA TurnTaken ==
  ASSUME NEW N \in Nat, Sequences = 1 .. N, NEW x \in SubjectRecord,
         \A n \in DOMAIN x.parked : n \in Sequences /\ n > x.sequence,
         NEW turn, turn = InTurn(x), NEW last, last = x.sequence + Cardinality(turn)
  PROVE  TurnOf(x, turn, last)
  <1> DEFINE from == x.sequence + 1
             Allowed(k) == k \in DOMAIN x.parked
                             /\ x.parked[k] \in Transitions[IF k = from THEN x.status ELSE x.parked[k - 1]]
  <1>1. x.sequence \in Nat
    BY DEF SubjectRecord
  <1>2. turn = {n \in DOMAIN x.parked : \A k \in from .. n : Allowed(k)}
    BY DEF InTurn
  <1> HIDE DEF Allowed
  <1>3. turn \subseteq from .. N
    BY <1>1, <1>2
  <1>4. \A n \in turn : \A k \in from .. n : k \in turn
    <2> SUFFICES ASSUME NEW n \in turn, NEW k \in from .. n PROVE k \in turn
      OBVIOUS
    <2>1. n \in Nat /\ k \in Nat
      BY <1>1, <1>3
    <2>2. \A i \in from .. n : Allowed(i)
      BY <1>2
    <2>3. \A i \in from .. k : i \in from .. n
      BY <1>1, <2>1
    <2>4. k \in DOMAIN x.parked
      BY <2>2 DEF Allowed
    <2>5. QED
      BY <1>2, <2>2, <2>3, <2>4
  <1>5. /\ IsFiniteSet(turn) /\ turn = from .. (from - 1 + Cardinality(turn))
        /\ Cardinality(turn) \in Nat
    <2>1. from \in Nat /\ from >= 1
      BY <1>1
    <2> HIDE DEF from
    <2>2. QED
      BY <1>3, <1>4, <2>1, GaplessInterval
  <1>6. last \in Nat /\ last >= x.sequence /\ turn = from .. last
    BY <1>1, <1>5
  <1>11. \A n : n \in turn <=> n \in Nat /\ x.sequence < n /\ n <= last
    <2>1. \A n : n \in from .. last <=> n \in Nat /\ x.sequence < n /\ n <= last
      <3>1. from = x.sequence + 1
        OBVIOUS
      <3> HIDE DEF from
      <3>2. \A n : n \in from .. last <=> n \in Int /\ from <= n /\ n <= last
        BY ONLY <1>1, <1>6, <3>1
      <3>3. QED
        BY ONLY <1>1, <1>6, <3>1, <3>2
    <2>2. QED
      BY ONLY <2>1, <1>6
  <1>7. turn = {} <=> last = x.sequence
    BY ONLY <1>1, <1>6, <1>11
  <1>8. \A n \in turn : Allowed(n)
    BY <1>1, <1>2, <1>3
  <1>9. ASSUME last + 1 \in DOMAIN x.parked
        PROVE  x.parked[last + 1] \notin
                Transitions[IF last = x.sequence THEN x.status ELSE x.parked[last]]
    <2>1. last + 1 \notin turn
      BY ONLY <1>6, <1>11
    <2>2. PICK k \in from .. (last + 1) : ~Allowed(k)
      BY <1>2, <1>9, <2>1
    <2>7. k \in Nat /\ x.sequence < k /\ k <= last + 1
      BY ONLY k \in from .. (last + 1), <1>1, <1>6
    <2>3. k = last + 1
      BY ONLY <1>6, <1>8, <1>11, <2>2, <2>7
    <2>4. ~Allowed(last + 1)
      BY <2>2, <2>3
    <2>5. (last + 1 = from <=> last = x.sequence) /\ (last + 1) - 1 = last
      BY <1>1, <1>6
    <2>6. QED
      BY <1>9, <2>4, <2>5 DEF Allowed
  <1>10. QED
    BY <1>2, <1>6, <1>7, <1>8, <1>9 DEF Allowed, TurnOf

(* A callback in its turn, with the claim it makes.                        *)
LEMMA AppliedParts ==
  ASSUME NEW x \in SubjectRecord, NEW status \in Statuses, NEW y, y = Applied(x, status)
  PROVE  /\ y \in SubjectRecord
         /\ y.status = status /\ y.sequence = x.sequence + 1
         /\ y.applied = Mapped(x.applied, x.sequence + 1, status)
         /\ y.parked = x.parked /\ y.claims = x.claims
         /\ y.deadline = x.deadline /\ y.timedOut = x.timedOut /\ y.eventIds = x.eventIds
  <1>1. /\ y = [x EXCEPT !.status = status, !.sequence = @ + 1,
                         !.applied = Mapped(@, x.sequence + 1, status)]
        /\ x.sequence + 1 \in Nat
    BY DEF Applied, SubjectRecord
  <1>2. Mapped(x.applied, x.sequence + 1, status) \in StatusMaps
    BY <1>1, MappedShape DEF SubjectRecord
  <1>3. QED
    BY <1>1, <1>2 DEF SubjectRecord

FoldOf(y, turn, last, z) ==
  /\ z \in SubjectRecord
  /\ z.status = IF turn = {} THEN y.status ELSE y.parked[last]
  /\ z.sequence = last
  /\ z.applied = [n \in DOMAIN y.applied \cup turn |->
                    IF n \in turn THEN y.parked[n] ELSE y.applied[n]]
  /\ z.parked = Except(y.parked, turn \cup {last + 1})
  /\ z.claims = y.claims
  /\ z.deadline = y.deadline /\ z.timedOut = y.timedOut /\ z.eventIds = y.eventIds

LEMMA FoldedParts ==
  ASSUME NEW y \in SubjectRecord, NEW turn, turn = InTurn(y), turn \subseteq DOMAIN y.parked,
         NEW last \in Nat, last = y.sequence + Cardinality(turn),
         turn # {} => last \in turn,
         NEW z, z = Folded(y)
  PROVE  FoldOf(y, turn, last, z)
  <1> DEFINE status == IF turn = {} THEN y.status ELSE y.parked[last]
             applied == [n \in DOMAIN y.applied \cup turn |->
                           IF n \in turn THEN y.parked[n] ELSE y.applied[n]]
             parked == Except(y.parked, turn \cup {last + 1})
  <1>1. z = [y EXCEPT !.status = status, !.sequence = last, !.applied = applied, !.parked = parked]
    BY DEF Folded
  <1>2. y.applied \in StatusMaps /\ y.parked \in StatusMaps /\ y.status \in Statuses \cup {InitialStatus}
    BY DEF SubjectRecord
  <1>3. applied \in StatusMaps
    <2>1. /\ DOMAIN applied = DOMAIN y.applied \cup turn
          /\ \A n \in DOMAIN applied : applied[n] = IF n \in turn THEN y.parked[n] ELSE y.applied[n]
          /\ applied = [n \in DOMAIN applied |-> applied[n]]
      OBVIOUS
    <2> HIDE DEF applied
    <2>2. DOMAIN applied \subseteq Nat /\ \A n \in DOMAIN applied : applied[n] \in Statuses
      BY <1>2, <2>1, MapsShape
    <2>3. QED
      BY <2>1, <2>2, MapsShape
  <1>4. parked \in StatusMaps
    <2>1. /\ DOMAIN parked = DOMAIN y.parked \ (turn \cup {last + 1})
          /\ \A n \in DOMAIN parked : parked[n] = y.parked[n]
          /\ parked = [n \in DOMAIN parked |-> parked[n]]
      BY DEF Except
    <2> HIDE DEF parked
    <2>2. DOMAIN parked \subseteq Nat /\ \A n \in DOMAIN parked : parked[n] \in Statuses
      BY <1>2, <2>1, MapsShape
    <2>3. QED
      BY <2>1, <2>2, MapsShape
  <1>5. status \in Statuses \cup {InitialStatus}
    BY <1>2, MapsShape
  <1> HIDE DEF status, applied, parked
  <1>6. /\ z \in SubjectRecord /\ z.status = status /\ z.sequence = last /\ z.applied = applied
        /\ z.parked = parked /\ z.claims = y.claims
        /\ z.deadline = y.deadline /\ z.timedOut = y.timedOut /\ z.eventIds = y.eventIds
    BY <1>1, <1>3, <1>4, <1>5 DEF SubjectRecord
  <1>7. QED
    BY <1>6 DEF status, applied, parked, FoldOf

LEMMA ClaimAdded ==
  ASSUME NEW x \in SubjectRecord, NEW c \in Sequences \X Statuses,
         NEW z, z = [x EXCEPT !.claims = @ \cup {c}]
  PROVE  /\ z \in SubjectRecord /\ z.status = x.status /\ z.sequence = x.sequence
         /\ z.applied = x.applied /\ z.parked = x.parked /\ z.claims = x.claims \cup {c}
         /\ z.deadline = x.deadline /\ z.timedOut = x.timedOut /\ z.eventIds = x.eventIds
  BY DEF SubjectRecord

(* A callback whose turn it is, and what was parked behind it.             *)
LEMMA FoldHolds ==
  ASSUME NEW N \in Nat, Sequences = 1 .. N, NEW x, SubjectInv(x),
         NEW status \in Statuses, status \in Transitions[x.status],
         x.sequence + 1 \in Sequences,
         NEW z, z = [Folded(Applied(x, status)) EXCEPT !.claims = @ \cup {<<x.sequence + 1, status>>}]
  PROVE  SubjectInv(z)
  <1> DEFINE y == Applied(x, status)
             turn == InTurn(y)
             last == y.sequence + Cardinality(turn)
             w == Folded(y)
             s == x.sequence
  <1>1. x \in SubjectRecord /\ s \in Nat /\ s + 1 \in 1 .. N
    BY DEF SubjectInv, SubjectRecord
  <1>2. /\ y \in SubjectRecord
        /\ y.status = status /\ y.sequence = s + 1
        /\ y.applied = Mapped(x.applied, s + 1, status)
        /\ y.parked = x.parked /\ y.claims = x.claims
    BY <1>1, AppliedParts
  <1>3. \A n \in DOMAIN x.parked : n \in Sequences /\ n > s + 1 /\ <<n, x.parked[n]>> \in x.claims
    BY DEF SubjectInv, ParkedInv
  <1>4. z = [w EXCEPT !.claims = @ \cup {<<s + 1, status>>}]
    OBVIOUS
  <1>5. turn = InTurn(y) /\ last = y.sequence + Cardinality(turn) /\ w = Folded(y)
    OBVIOUS
  <1> HIDE DEF y, turn, last, w
  <1>6. /\ last \in Nat /\ last >= s + 1
        /\ turn = (s + 1 + 1) .. last /\ turn \subseteq DOMAIN x.parked
        /\ turn = {} <=> last = s + 1
        /\ \A n \in turn :
             x.parked[n] \in Transitions[IF n = s + 1 + 1 THEN status ELSE x.parked[n - 1]]
        /\ last + 1 \in DOMAIN x.parked =>
             x.parked[last + 1] \notin Transitions[IF last = s + 1 THEN status ELSE x.parked[last]]
    <2>1. \A n \in DOMAIN y.parked : n \in Sequences /\ n > y.sequence
      BY <1>2, <1>3
    <2>4. N \in Nat /\ Sequences = 1 .. N /\ y \in SubjectRecord
      BY <1>2
    <2>2. TurnOf(y, turn, last)
      BY ONLY <2>4, <1>5, <2>1, TurnTaken
    <2>3. QED
      BY ONLY <1>2, <2>2 DEF TurnOf
  <1> HIDE DEF s
  <1>7. \A n : n \in turn <=> n \in Nat /\ s + 1 < n /\ n <= last
    <2>1. \A n : n \in (s + 1 + 1) .. last <=> n \in Int /\ s + 1 + 1 <= n /\ n <= last
      BY ONLY <1>1, <1>6
    <2>2. QED
      BY ONLY <1>1, <1>6, <2>1
  <1>8. turn # {} => last \in turn
    BY ONLY <1>1, <1>6, <1>7
  <1>9. /\ w \in SubjectRecord
        /\ w.status = IF turn = {} THEN status ELSE x.parked[last]
        /\ w.sequence = last
        /\ w.applied = [n \in DOMAIN y.applied \cup turn |->
                           IF n \in turn THEN x.parked[n] ELSE y.applied[n]]
        /\ w.parked = Except(x.parked, turn \cup {last + 1})
        /\ w.claims = x.claims
    <2>1. turn \subseteq DOMAIN y.parked /\ last \in Nat
      BY <1>2, <1>6
    <2>4. y \in SubjectRecord
      BY <1>2
    <2>2. FoldOf(y, turn, last, w)
      BY ONLY <2>4, <1>5, <1>8, <2>1, FoldedParts
    <2>3. QED
      BY ONLY <1>2, <2>2 DEF FoldOf
  <1>10. <<s + 1, status>> \in Sequences \X Statuses
    BY <1>1
  <1>11. /\ z \in SubjectRecord /\ z.status = w.status /\ z.sequence = w.sequence
         /\ z.applied = w.applied /\ z.parked = w.parked
         /\ z.claims = w.claims \cup {<<s + 1, status>>}
    BY ONLY <1>4, <1>9, <1>10, ClaimAdded
  <1>12. /\ DOMAIN x.applied = 1 .. s /\ x.status = StatusAt(x, s)
         /\ \A n \in 1 .. s : /\ <<n, x.applied[n]>> \in x.claims
                              /\ x.applied[n] \in Transitions[StatusAt(x, n - 1)]
    BY DEF SubjectInv, AppliedInv, s
  <1>13. /\ DOMAIN z.applied = 1 .. last
         /\ \A n \in 1 .. s : z.applied[n] = x.applied[n]
         /\ z.applied[s + 1] = status
         /\ \A n \in turn : z.applied[n] = x.parked[n]
    <2>1. x.applied \in StatusMaps
      BY <1>1 DEF SubjectRecord
    <2>2. /\ DOMAIN y.applied = DOMAIN x.applied \cup {s + 1} /\ y.applied[s + 1] = status
          /\ \A n \in DOMAIN x.applied : n # s + 1 => y.applied[n] = x.applied[n]
      <3>1. s + 1 \in Nat /\ status \in Statuses
        BY <1>1
      <3>2. y.applied = Mapped(x.applied, s + 1, status)
        BY <1>2
      <3>3. /\ DOMAIN Mapped(x.applied, s + 1, status) = DOMAIN x.applied \cup {s + 1}
            /\ Mapped(x.applied, s + 1, status)[s + 1] = status
            /\ \A n \in DOMAIN x.applied :
                 n # s + 1 => Mapped(x.applied, s + 1, status)[n] = x.applied[n]
        BY ONLY <2>1, <3>1, MappedShape, ZenonT(30)
      <3>4. QED
        BY ONLY <3>2, <3>3
    <2>3. DOMAIN z.applied = DOMAIN y.applied \cup turn
      BY <1>9, <1>11
    <2>4. \A n : n \in DOMAIN z.applied <=> n \in 1 .. last
      BY <1>1, <1>6, <1>7, <1>12, <2>2, <2>3
    <2>5. \A n \in 1 .. s : n \notin turn /\ n # s + 1 /\ n \in DOMAIN x.applied
      BY <1>1, <1>7, <1>12
    <2>6. s + 1 \notin turn
      BY <1>7
    <2>7. \A n \in DOMAIN y.applied \cup turn :
            z.applied[n] = IF n \in turn THEN x.parked[n] ELSE y.applied[n]
      BY <1>9, <1>11
    <2>8. DOMAIN z.applied = 1 .. last
      BY <1>9, <1>11, <2>4
    <2>9. QED
      BY <2>2, <2>5, <2>6, <2>7, <2>8
  <1>14. z.status = StatusAt(z, last)
    <2>1. CASE turn = {}
      BY <1>6, <1>9, <1>11, <1>13, <2>1, <1>1 DEF StatusAt
    <2>2. CASE turn # {}
      BY <1>1, <1>6, <1>8, <1>9, <1>11, <1>13, <2>2 DEF StatusAt
    <2>3. QED
      BY <2>1, <2>2
  <1>15. AppliedInv(z)
    <2>1. z.sequence \in Sequences \cup {0}
      <3>1. CASE turn = {}
        BY <1>1, <1>6, <1>9, <1>11, <3>1
      <3>2. CASE turn # {}
        BY <1>3, <1>6, <1>8, <1>9, <1>11, <3>2
      <3>3. QED
        BY <3>1, <3>2
    <2>2. ASSUME NEW n \in 1 .. last
          PROVE  /\ <<n, z.applied[n]>> \in z.claims
                 /\ z.applied[n] \in Transitions[StatusAt(z, n - 1)]
      <3>1. CASE n <= s
        <4>1. n \in 1 .. s /\ (n - 1 = 0 \/ n - 1 \in 1 .. s)
          BY <1>1, <3>1
        <4>2. StatusAt(z, n - 1) = StatusAt(x, n - 1)
          BY <1>13, <4>1 DEF StatusAt
        <4>3. QED
          BY <1>9, <1>11, <1>12, <1>13, <4>1, <4>2
      <3>2. CASE n = s + 1
        <4>1. n - 1 = s /\ (s = 0 \/ s \in 1 .. s)
          BY ONLY <1>1, <3>2
        <4>2. StatusAt(z, n - 1) = StatusAt(x, s)
          BY <1>13, <4>1 DEF StatusAt
        <4>3. QED
          BY <1>11, <1>12, <1>13, <3>2, <4>2
      <3>3. CASE n > s + 1
        <4>1. n \in turn /\ n \in DOMAIN x.parked
          BY <1>6, <1>7, <3>3
        <4>2. <<n, z.applied[n]>> \in z.claims
          BY <1>3, <1>9, <1>11, <1>13, <4>1
        <4>3. StatusAt(z, n - 1) = IF n = s + 1 + 1 THEN status ELSE x.parked[n - 1]
          <5>1. CASE n = s + 1 + 1
            BY <1>1, <1>13, <5>1 DEF StatusAt
          <5>2. CASE n # s + 1 + 1
            <6>1. n - 1 \in turn /\ n - 1 # 0
              <7>1. n \in Nat /\ n <= last
                BY <1>6
              <7>2. QED
                BY ONLY <1>1, <1>6, <1>7, <3>3, <5>2, <7>1
            <6>2. QED
              BY <1>13, <5>2, <6>1 DEF StatusAt
          <5>3. QED
            BY <5>1, <5>2
        <4>4. QED
          BY <1>6, <1>13, <4>1, <4>2, <4>3
      <3>4. QED
        BY <1>1, <3>1, <3>2, <3>3
    <2>3. QED
      BY <1>9, <1>11, <1>13, <1>14, <2>1, <2>2 DEF AppliedInv
  <1>16. /\ DOMAIN z.parked = DOMAIN x.parked \ (turn \cup {last + 1})
         /\ \A n \in DOMAIN z.parked : z.parked[n] = x.parked[n]
    BY <1>9, <1>11 DEF Except
  <1>17. ParkedInv(z)
    <2> SUFFICES ASSUME NEW n \in DOMAIN z.parked
                 PROVE  n \in Sequences /\ n > last + 1 /\ <<n, z.parked[n]>> \in z.claims
      BY <1>9, <1>11 DEF ParkedInv
    <2>1. n \in DOMAIN x.parked /\ n \notin turn /\ n # last + 1
      BY <1>16
    <2>2. n \in Sequences /\ n \in Nat /\ n > s + 1 /\ <<n, x.parked[n]>> \in x.claims
      BY <1>1, <1>3, <2>1
    <2>3. n > last + 1
      BY ONLY <1>1, <1>6, <1>7, <2>1, <2>2
    <2>4. QED
      BY <1>9, <1>11, <1>16, <2>2, <2>3
  <1>18. ClaimsInv(z)
    <2>1. IsFiniteSet(z.claims)
      <3>1. IsFiniteSet(x.claims)
        BY DEF SubjectInv, ClaimsInv
      <3>2. IsFiniteSet(x.claims \cup {<<s + 1, status>>})
        BY ONLY <3>1, FS_AddElement
      <3>3. QED
        BY ONLY <1>9, <1>11, <3>2
    <2>2. ASSUME Agreed(z.claims), NEW c \in z.claims
          PROVE  /\ c[1] > last + 1 => c[1] \in DOMAIN z.parked
                 /\ c[1] = last + 1 => c[2] \notin Transitions[z.status]
      <3>1. CASE c = <<s + 1, status>>
        BY <1>1, <1>6, <3>1
      <3>2. CASE c \in x.claims
        <4>1. Agreed(x.claims)
          BY <1>9, <1>11, <2>2 DEF Agreed
        <4>2. c[1] \in Nat
          BY <1>1, <3>2 DEF SubjectRecord
        <4>3. c[1] > s + 1 => c[1] \in DOMAIN x.parked
          BY <3>2, <4>1 DEF SubjectInv, ClaimsInv, s
        <4>4. ASSUME c[1] > last + 1 PROVE c[1] \in DOMAIN z.parked
          BY <1>1, <1>6, <1>7, <1>16, <4>2, <4>3, <4>4
        <4>5. ASSUME c[1] = last + 1 PROVE c[2] \notin Transitions[z.status]
          <5>1. last + 1 \in DOMAIN x.parked
            BY <1>1, <1>6, <4>3, <4>5
          <5>2. <<last + 1, x.parked[last + 1]>> \in x.claims
            BY <1>3, <5>1
          <5>3. c[2] = x.parked[last + 1]
            BY <3>2, <4>1, <4>5, <5>2 DEF Agreed
          <5>4. z.status = IF last = s + 1 THEN status ELSE x.parked[last]
            BY <1>6, <1>9, <1>11
          <5>5. QED
            BY <1>6, <5>1, <5>3, <5>4
        <4>6. QED
          BY <4>4, <4>5
      <3>3. QED
        BY <1>9, <1>11, <3>1, <3>2
    <2>3. QED
      BY <1>9, <1>11, <2>1, <2>2 DEF ClaimsInv
  <1>19. QED
    BY <1>11, <1>15, <1>17, <1>18 DEF SubjectInv

(* The invariant reads nothing of the event ids of a subject and no deadline.*)
LEMMA SameCallbacks ==
  ASSUME NEW x, SubjectInv(x), NEW y \in SubjectRecord, y.status = x.status, y.sequence = x.sequence,
         y.applied = x.applied, y.parked = x.parked, y.claims = x.claims
  PROVE  SubjectInv(y)
  <1>1. AppliedInv(y)
    BY DEF SubjectInv, AppliedInv, StatusAt
  <1>2. ParkedInv(y)
    BY DEF SubjectInv, ParkedInv
  <1>3. ClaimsInv(y)
    BY DEF SubjectInv, ClaimsInv
  <1>4. QED
    BY <1>1, <1>2, <1>3 DEF SubjectInv

(* A callback that is not applied, and where it would have been noticed.   *)
LEMMA HeldHolds ==
  ASSUME NEW N \in Nat, Sequences = 1 .. N, NEW x, SubjectInv(x),
         NEW q \in Sequences, NEW st \in Statuses,
         q > x.sequence + 1 => q \in DOMAIN x.parked,
         q = x.sequence + 1 => st \notin Transitions[x.status],
         NEW z, z = [x EXCEPT !.claims = @ \cup {<<q, st>>}]
  PROVE  SubjectInv(z)
  <1>1. x \in SubjectRecord /\ <<q, st>> \in Sequences \X Statuses
    BY DEF SubjectInv
  <1>2. /\ z \in SubjectRecord /\ z.status = x.status /\ z.sequence = x.sequence
        /\ z.applied = x.applied /\ z.parked = x.parked /\ z.claims = x.claims \cup {<<q, st>>}
    BY ONLY <1>1, z = [x EXCEPT !.claims = @ \cup {<<q, st>>}], ClaimAdded
  <1>3. AppliedInv(z)
    BY <1>2 DEF SubjectInv, AppliedInv, StatusAt
  <1>4. ParkedInv(z)
    BY <1>2 DEF SubjectInv, ParkedInv
  <1>5. ClaimsInv(z)
    <2>1. IsFiniteSet(z.claims)
      <3>1. IsFiniteSet(x.claims)
        BY DEF SubjectInv, ClaimsInv
      <3>2. IsFiniteSet(x.claims \cup {<<q, st>>})
        BY ONLY <3>1, FS_AddElement
      <3>3. QED
        BY ONLY <1>2, <3>2
    <2>2. ASSUME Agreed(z.claims), NEW c \in z.claims
          PROVE  /\ c[1] > z.sequence + 1 => c[1] \in DOMAIN z.parked
                 /\ c[1] = z.sequence + 1 => c[2] \notin Transitions[z.status]
      <3>1. CASE c = <<q, st>>
        BY <1>2, <3>1
      <3>2. CASE c \in x.claims
        <4>1. Agreed(x.claims)
          BY <1>2, <2>2 DEF Agreed
        <4>2. QED
          BY <1>2, <3>2, <4>1 DEF SubjectInv, ClaimsInv
      <3>3. QED
        BY <1>2, <3>1, <3>2
    <2>3. QED
      BY <2>1, <2>2 DEF ClaimsInv
  <1>6. QED
    BY <1>2, <1>3, <1>4, <1>5 DEF SubjectInv

(* A callback ahead of its turn.                                           *)
LEMMA ParkHolds ==
  ASSUME NEW N \in Nat, Sequences = 1 .. N, NEW x, SubjectInv(x),
         NEW q \in Sequences, NEW st \in Statuses, q > x.sequence + 1, q \notin DOMAIN x.parked,
         NEW z, z = [[x EXCEPT !.parked = Mapped(@, q, st)] EXCEPT !.claims = @ \cup {<<q, st>>}]
  PROVE  SubjectInv(z)
  <1> DEFINE y == [x EXCEPT !.parked = Mapped(@, q, st)]
  <1>1. x \in SubjectRecord /\ <<q, st>> \in Sequences \X Statuses /\ q \in Nat /\ x.parked \in StatusMaps
    BY DEF SubjectInv, SubjectRecord
  <1>2. /\ Mapped(x.parked, q, st) \in StatusMaps
        /\ DOMAIN Mapped(x.parked, q, st) = DOMAIN x.parked \cup {q}
        /\ Mapped(x.parked, q, st)[q] = st
        /\ \A n \in DOMAIN x.parked : n # q => Mapped(x.parked, q, st)[n] = x.parked[n]
    <2>1. x.parked \in StatusMaps /\ q \in Nat /\ st \in Statuses
      BY <1>1
    <2>2. QED
      BY ONLY <2>1, MappedShape, ZenonT(30)
  <1>3. /\ y \in SubjectRecord /\ y.status = x.status /\ y.sequence = x.sequence
        /\ y.applied = x.applied /\ y.parked = Mapped(x.parked, q, st) /\ y.claims = x.claims
    BY <1>1, <1>2 DEF SubjectRecord
  <1>4. z = [y EXCEPT !.claims = @ \cup {<<q, st>>}]
    OBVIOUS
  <1> HIDE DEF y
  <1>5. /\ z \in SubjectRecord /\ z.status = y.status /\ z.sequence = y.sequence
        /\ z.applied = y.applied /\ z.parked = y.parked /\ z.claims = y.claims \cup {<<q, st>>}
    BY ONLY <1>1, <1>3, <1>4, ClaimAdded
  <1>6. AppliedInv(z)
    BY <1>3, <1>5 DEF SubjectInv, AppliedInv, StatusAt
  <1>7. ParkedInv(z)
    <2> SUFFICES ASSUME NEW n \in DOMAIN z.parked
                 PROVE  n \in Sequences /\ n > z.sequence + 1 /\ <<n, z.parked[n]>> \in z.claims
      BY DEF ParkedInv
    <2>1. CASE n = q
      BY <1>2, <1>3, <1>5, <2>1
    <2>2. CASE n # q
      <3>1. n \in DOMAIN x.parked /\ z.parked[n] = x.parked[n]
        BY <1>2, <1>3, <1>5, <2>2
      <3>2. QED
        BY <1>3, <1>5, <3>1 DEF SubjectInv, ParkedInv
    <2>3. QED
      BY <2>1, <2>2
  <1>8. ClaimsInv(z)
    <2>1. IsFiniteSet(z.claims)
      <3>1. IsFiniteSet(x.claims)
        BY DEF SubjectInv, ClaimsInv
      <3>2. IsFiniteSet(x.claims \cup {<<q, st>>})
        BY ONLY <3>1, FS_AddElement
      <3>3. QED
        BY ONLY <1>3, <1>5, <3>2
    <2>2. ASSUME Agreed(z.claims), NEW c \in z.claims
          PROVE  /\ c[1] > z.sequence + 1 => c[1] \in DOMAIN z.parked
                 /\ c[1] = z.sequence + 1 => c[2] \notin Transitions[z.status]
      <3>1. CASE c = <<q, st>>
        <4>1. q \in DOMAIN z.parked /\ q # z.sequence + 1
          <5>1. x.sequence \in Nat
            BY <1>1 DEF SubjectRecord
          <5>2. QED
            BY <1>1, <1>2, <1>3, <1>5, <5>1
        <4>2. QED
          BY <3>1, <4>1
      <3>2. CASE c \in x.claims
        <4>1. Agreed(x.claims)
          BY <1>3, <1>5, <2>2 DEF Agreed
        <4>2. QED
          BY <1>2, <1>3, <1>5, <3>2, <4>1 DEF SubjectInv, ClaimsInv
      <3>3. QED
        BY <1>3, <1>5, <3>1, <3>2
    <2>3. QED
      BY <2>1, <2>2 DEF ClaimsInv
  <1>9. QED
    BY <1>5, <1>6, <1>7, <1>8 DEF SubjectInv

(* Whatever becomes of a callback in time, its subject stays explained.    *)
LEMMA DeliveredHolds ==
  ASSUME NEW N \in Nat, Sequences = 1 .. N, NEW x, SubjectInv(x),
         NEW q \in Sequences, NEW st \in Statuses,
         NEW z, z = [Delivered(x, q, st) EXCEPT !.claims = @ \cup {<<q, st>>}]
  PROVE  SubjectInv(z)
  <1>1. x.sequence \in Nat /\ q \in Nat
    BY DEF SubjectInv, SubjectRecord
  <1>2. \A n \in DOMAIN x.parked : n > x.sequence + 1
    BY DEF SubjectInv, ParkedInv
  <1>3. q > x.sequence => (Prior(x, q) # {} <=> q \in DOMAIN x.parked)
    <2> SUFFICES ASSUME q > x.sequence PROVE Prior(x, q) # {} <=> q \in DOMAIN x.parked
      OBVIOUS
    <2>1. Prior(x, q) = {x.parked[k] : k \in DOMAIN x.parked \cap {q}}
      BY <1>1 DEF Prior
    <2>2. QED
      BY ONLY <2>1
  <1>4. CASE q <= x.sequence \/ Prior(x, q) # {}
    <2>1. z = [x EXCEPT !.claims = @ \cup {<<q, st>>}]
      BY <1>4 DEF Delivered
    <2>2. q > x.sequence + 1 => q \in DOMAIN x.parked
      BY <1>1, <1>3, <1>4
    <2>3. q # x.sequence + 1
      BY <1>1, <1>2, <1>3, <1>4
    <2>4. N \in Nat /\ Sequences = 1 .. N /\ SubjectInv(x) /\ q \in Sequences /\ st \in Statuses
      OBVIOUS
    <2>5. QED
      BY ONLY <2>1, <2>2, <2>3, <2>4, HeldHolds
  <1>5. CASE ~(q <= x.sequence \/ Prior(x, q) # {}) /\ q > x.sequence + 1
    <2>1. z = [[x EXCEPT !.parked = Mapped(@, q, st)] EXCEPT !.claims = @ \cup {<<q, st>>}]
      BY <1>5 DEF Delivered
    <2>2. q \notin DOMAIN x.parked /\ q > x.sequence + 1
      BY <1>1, <1>3, <1>5
    <2>3. N \in Nat /\ Sequences = 1 .. N /\ SubjectInv(x) /\ q \in Sequences /\ st \in Statuses
      OBVIOUS
    <2>4. QED
      BY ONLY <2>1, <2>2, <2>3, ParkHolds
  <1>6. CASE ~(q <= x.sequence \/ Prior(x, q) # {}) /\ ~(q > x.sequence + 1)
    <2>1. q = x.sequence + 1
      BY <1>1, <1>6
    <2>2. N \in Nat /\ Sequences = 1 .. N /\ SubjectInv(x) /\ q \in Sequences /\ st \in Statuses
      OBVIOUS
    <2>3. CASE st \notin Transitions[x.status]
      <3>1. z = [x EXCEPT !.claims = @ \cup {<<q, st>>}]
        BY <1>6, <2>3 DEF Delivered
      <3>2. q > x.sequence + 1 => q \in DOMAIN x.parked
        BY <1>6
      <3>3. QED
        BY ONLY <2>2, <2>3, <3>1, <3>2, HeldHolds
    <2>4. CASE st \in Transitions[x.status]
      <3>1. z = [Folded(Applied(x, st)) EXCEPT !.claims = @ \cup {<<q, st>>}]
        BY <1>6, <2>4 DEF Delivered
      <3>2. z = [Folded(Applied(x, st)) EXCEPT !.claims = @ \cup {<<x.sequence + 1, st>>}]
        BY ONLY <2>1, <3>1
      <3>3. x.sequence + 1 \in Sequences
        BY ONLY <2>1, <2>2
      <3>4. QED
        BY ONLY <2>2, <2>4, <3>2, <3>3, FoldHolds
    <2>5. QED
      BY <2>3, <2>4
  <1>7. QED
    BY <1>4, <1>5, <1>6

(* Nor does a callback change which event ids its subject has.             *)
KeepsIds(x, z) == SubjectInv(z) /\ z.eventIds = x.eventIds

LEMMA DeliveredIds ==
  ASSUME NEW N \in Nat, Sequences = 1 .. N, NEW x, SubjectInv(x),
         NEW q \in Sequences, NEW st \in Statuses,
         NEW z, z = [Delivered(x, q, st) EXCEPT !.claims = @ \cup {<<q, st>>}]
  PROVE  KeepsIds(x, z)
  <1>1. x \in SubjectRecord
    BY DEF SubjectInv
  <1>2. Folded(Applied(x, st)).eventIds = x.eventIds
    <2>1. PICK y : y = Applied(x, st)
      OBVIOUS
    <2>2. y \in SubjectRecord /\ y.eventIds = x.eventIds
      BY <1>1, <2>1, AppliedParts
    <2>3. Folded(y).eventIds = y.eventIds
      <3> DEFINE status == IF InTurn(y) = {} THEN y.status
                           ELSE y.parked[y.sequence + Cardinality(InTurn(y))]
                 last == y.sequence + Cardinality(InTurn(y))
                 applied == [n \in DOMAIN y.applied \cup InTurn(y) |->
                               IF n \in InTurn(y) THEN y.parked[n] ELSE y.applied[n]]
                 parked == Except(y.parked, InTurn(y) \cup {last + 1})
      <3>1. Folded(y) = [y EXCEPT !.status = status, !.sequence = last,
                                  !.applied = applied, !.parked = parked]
        BY DEF Folded
      <3> HIDE DEF status, last, applied, parked
      <3>2. QED
        BY <2>2, <3>1 DEF SubjectRecord
    <2>4. QED
      BY <2>1, <2>2, <2>3
  <1>3. Delivered(x, q, st).eventIds = x.eventIds
    <2>1. [x EXCEPT !.parked = Mapped(@, q, st)].eventIds = x.eventIds
      BY <1>1 DEF SubjectRecord
    <2> HIDE DEF Folded, Applied
    <2>2. QED
      BY <1>2, <2>1 DEF Delivered
  <1>4. z.eventIds = x.eventIds
    BY <1>3
  <1>5. SubjectInv(z)
    BY DeliveredHolds
  <1>6. QED
    BY <1>4, <1>5 DEF KeepsIds

(* Every open subject is explained by its claims; each event id belongs to *)
(* the one subject it was first seen for.                                  *)
InboxInv ==
  /\ inbox = [subjects |-> inbox.subjects, events |-> inbox.events]
  /\ \A s \in DOMAIN inbox.subjects : SubjectInv(inbox.subjects[s])
  /\ DOMAIN inbox.events =
       UNION {inbox.subjects[s].eventIds : s \in DOMAIN inbox.subjects}
  /\ \A s, t \in DOMAIN inbox.subjects :
       s # t => inbox.subjects[s].eventIds \cap inbox.subjects[t].eventIds = {}

LEMMA OpenedHolds ==
  ASSUME NEW N \in Nat, Sequences = 1 .. N, InboxInv,
         NEW s, NEW deadline \in Instants, OpenSubject(s, deadline)
  PROVE  InboxInv'
  <1> DEFINE row == [status |-> InitialStatus, sequence |-> 0, deadline |-> deadline,
                     timedOut |-> FALSE, parked |-> << >>, applied |-> << >>,
                     eventIds |-> {}, claims |-> {}]
  <1>1. inbox' = [inbox EXCEPT !.subjects = Mapped(@, s, row)] /\ s \notin DOMAIN inbox.subjects
    BY DEF OpenSubject, Opened, IsOpen
  <1>2. inbox = [subjects |-> inbox.subjects, events |-> inbox.events]
    BY DEF InboxInv
  <1>3. row.eventIds = {} /\ SubjectInv(row)
    <2>1. << >> \in StatusMaps /\ DOMAIN << >> = {}
      <3>1. << >> \in [{} -> Statuses] /\ {} \in SUBSET Nat
        OBVIOUS
      <3>2. QED
        BY <3>1 DEF StatusMaps
    <2>2. row \in SubjectRecord
      BY <2>1 DEF SubjectRecord
    <2>3. AppliedInv(row)
      BY <2>1 DEF AppliedInv, StatusAt
    <2>4. ParkedInv(row)
      BY <2>1 DEF ParkedInv
    <2>5. ClaimsInv(row)
      BY FS_EmptySet DEF ClaimsInv
    <2>6. QED
      BY <2>2, <2>3, <2>4, <2>5 DEF SubjectInv
  <1> HIDE DEF row
  <1>4. /\ inbox' = [subjects |-> inbox'.subjects, events |-> inbox'.events]
        /\ inbox'.events = inbox.events /\ inbox'.subjects = Mapped(inbox.subjects, s, row)
    BY ONLY <1>1, <1>2
  <1>5. /\ DOMAIN inbox'.subjects = DOMAIN inbox.subjects \cup {s}
        /\ inbox'.subjects[s] = row
        /\ \A t \in DOMAIN inbox.subjects : inbox'.subjects[t] = inbox.subjects[t]
    BY ONLY <1>1, <1>4 DEF Mapped
  <1>6. \A t \in DOMAIN inbox'.subjects : SubjectInv(inbox'.subjects[t])
    BY <1>3, <1>5 DEF InboxInv
  <1>7. \A e : e \in UNION {inbox'.subjects[t].eventIds : t \in DOMAIN inbox'.subjects}
                 <=> e \in UNION {inbox.subjects[t].eventIds : t \in DOMAIN inbox.subjects}
    BY ONLY <1>3, <1>5
  <1>8. DOMAIN inbox'.events = UNION {inbox'.subjects[t].eventIds : t \in DOMAIN inbox'.subjects}
    BY <1>4, <1>7 DEF InboxInv
  <1>9. \A t, u \in DOMAIN inbox'.subjects :
          t # u => inbox'.subjects[t].eventIds \cap inbox'.subjects[u].eventIds = {}
    BY <1>3, <1>5 DEF InboxInv
  <1>10. QED
    BY ONLY <1>4, <1>6, <1>8, <1>9 DEF InboxInv

LEMMA AcceptHolds ==
  ASSUME NEW N \in Nat, Sequences = 1 .. N, InboxInv,
         NEW s, NEW event \in EventIds, NEW q \in Sequences, NEW st \in Statuses,
         NEW receivedAt \in Instants, Accept(s, event, q, st, receivedAt)
  PROVE  InboxInv'
  <1> DEFINE x == inbox.subjects[s]
             noted == [x EXCEPT !.eventIds = @ \cup {event}]
             left == IF IsLate(noted, receivedAt) THEN noted
                     ELSE [Delivered(noted, q, st) EXCEPT !.claims = @ \cup {<<q, st>>}]
             kept == [subject |-> s, sequence |-> q, status |-> st]
  <1>1. s \in DOMAIN inbox.subjects /\ event \notin DOMAIN inbox.events
    BY DEF Accept, Takes
  <1>2. inbox' = [subjects |-> [inbox.subjects EXCEPT ![s] = left],
                  events |-> Mapped(inbox.events, event, kept)]
    BY DEF Accept, Accepted
  <1>3. SubjectInv(x) /\ x \in SubjectRecord
    BY <1>1 DEF InboxInv, SubjectInv
  <1>4. /\ noted \in SubjectRecord /\ noted.status = x.status /\ noted.sequence = x.sequence
        /\ noted.applied = x.applied /\ noted.parked = x.parked /\ noted.claims = x.claims
        /\ noted.eventIds = x.eventIds \cup {event}
    BY <1>3 DEF SubjectRecord
  <1> HIDE DEF x
  <1>5. left = IF IsLate(noted, receivedAt) THEN noted
               ELSE [Delivered(noted, q, st) EXCEPT !.claims = @ \cup {<<q, st>>}]
    OBVIOUS
  <1> HIDE DEF noted, left, kept
  <1>6. SubjectInv(noted)
    BY ONLY <1>3, <1>4, SameCallbacks
  <1>7. SubjectInv(left) /\ left.eventIds = noted.eventIds
    <2>1. CASE IsLate(noted, receivedAt)
      BY <1>5, <1>6, <2>1
    <2>2. CASE ~IsLate(noted, receivedAt)
      <3>1. left = [Delivered(noted, q, st) EXCEPT !.claims = @ \cup {<<q, st>>}]
        BY <1>5, <2>2
      <3>2. N \in Nat /\ Sequences = 1 .. N /\ q \in Sequences /\ st \in Statuses
        OBVIOUS
      <3>3. KeepsIds(noted, left)
        BY ONLY <1>6, <3>1, <3>2, DeliveredIds
      <3>4. QED
        BY <3>3 DEF KeepsIds
    <2>3. QED
      BY <2>1, <2>2
  <1>8. /\ inbox' = [subjects |-> inbox'.subjects, events |-> inbox'.events]
        /\ DOMAIN inbox'.subjects = DOMAIN inbox.subjects
        /\ inbox'.subjects[s] = left
        /\ \A t \in DOMAIN inbox.subjects : t # s => inbox'.subjects[t] = inbox.subjects[t]
        /\ DOMAIN inbox'.events = DOMAIN inbox.events \cup {event}
    BY ONLY <1>1, <1>2 DEF Mapped
  <1>9. \A t \in DOMAIN inbox'.subjects : SubjectInv(inbox'.subjects[t])
    BY <1>7, <1>8 DEF InboxInv
  <1>10. left.eventIds = inbox.subjects[s].eventIds \cup {event}
    BY <1>4, <1>7 DEF x
  <1>11. \A e : (\E t \in DOMAIN inbox'.subjects : e \in inbox'.subjects[t].eventIds)
                  <=> e \in DOMAIN inbox'.events
    <2>1. DOMAIN inbox.events = UNION {inbox.subjects[t].eventIds : t \in DOMAIN inbox.subjects}
      BY DEF InboxInv
    <2>2. ASSUME NEW e
          PROVE  (\E t \in DOMAIN inbox'.subjects : e \in inbox'.subjects[t].eventIds)
                   <=> (\E t \in DOMAIN inbox.subjects : e \in inbox.subjects[t].eventIds) \/ e = event
      <3>1. ASSUME NEW t \in DOMAIN inbox.subjects
            PROVE  e \in inbox'.subjects[t].eventIds
                     <=> e \in inbox.subjects[t].eventIds \/ (t = s /\ e = event)
        <4>1. CASE t = s
          BY ONLY <1>8, <1>10, <4>1
        <4>2. CASE t # s
          BY ONLY <1>8, <3>1, <4>2
        <4>3. QED
          BY <4>1, <4>2
      <3>2. DOMAIN inbox'.subjects = DOMAIN inbox.subjects
        BY <1>8
      <3>3. QED
        BY ONLY <1>1, <3>1, <3>2
    <2>3. \A e : e \in DOMAIN inbox.events <=> \E t \in DOMAIN inbox.subjects : e \in inbox.subjects[t].eventIds
      BY ONLY <2>1
    <2>4. DOMAIN inbox'.events = DOMAIN inbox.events \cup {event}
      BY <1>8
    <2>5. QED
      BY ONLY <2>2, <2>3, <2>4
  <1>12. DOMAIN inbox'.events = UNION {inbox'.subjects[t].eventIds : t \in DOMAIN inbox'.subjects}
    BY ONLY <1>11
  <1>13. \A t \in DOMAIN inbox.subjects : event \notin inbox.subjects[t].eventIds
    BY <1>1 DEF InboxInv
  <1>14. \A t, u \in DOMAIN inbox'.subjects :
           t # u => inbox'.subjects[t].eventIds \cap inbox'.subjects[u].eventIds = {}
    BY <1>1, <1>8, <1>10, <1>13 DEF InboxInv
  <1>15. QED
    BY ONLY <1>8, <1>9, <1>12, <1>14 DEF InboxInv

LEMMA ExpireHolds ==
  ASSUME NEW N \in Nat, Sequences = 1 .. N, InboxInv, NEW instant \in Instants, Expire(instant)
  PROVE  InboxInv'
  <1> DEFINE Timed(x) == IF Transitions[x.status] # {} /\ instant > x.deadline
                         THEN [x EXCEPT !.timedOut = TRUE] ELSE x
  <1>1. inbox' = [inbox EXCEPT !.subjects = [s \in DOMAIN @ |-> Timed(@[s])]]
    BY DEF Expire, Expired
  <1>2. inbox = [subjects |-> inbox.subjects, events |-> inbox.events]
    BY DEF InboxInv
  <1>3. ASSUME NEW x, SubjectInv(x) PROVE SubjectInv(Timed(x)) /\ Timed(x).eventIds = x.eventIds
    <2>1. x \in SubjectRecord
      BY <1>3 DEF SubjectInv
    <2>2. PICK y : y = Timed(x)
      OBVIOUS
    <2>3. /\ y \in SubjectRecord /\ y.status = x.status /\ y.sequence = x.sequence
          /\ y.applied = x.applied /\ y.parked = x.parked /\ y.claims = x.claims
          /\ y.eventIds = x.eventIds
      BY <2>1, <2>2 DEF SubjectRecord
    <2>4. SubjectInv(y)
      BY ONLY <1>3, <2>3, SameCallbacks
    <2>5. QED
      BY ONLY <2>2, <2>3, <2>4
  <1> HIDE DEF Timed
  <1>4. /\ inbox' = [subjects |-> inbox'.subjects, events |-> inbox'.events]
        /\ inbox'.events = inbox.events
        /\ DOMAIN inbox'.subjects = DOMAIN inbox.subjects
        /\ \A t \in DOMAIN inbox.subjects : inbox'.subjects[t] = Timed(inbox.subjects[t])
    BY ONLY <1>1, <1>2
  <1>5. \A t \in DOMAIN inbox'.subjects :
          SubjectInv(inbox'.subjects[t]) /\ inbox'.subjects[t].eventIds = inbox.subjects[t].eventIds
    BY <1>3, <1>4 DEF InboxInv
  <1>6. \A e : e \in UNION {inbox'.subjects[t].eventIds : t \in DOMAIN inbox'.subjects}
                 <=> e \in UNION {inbox.subjects[t].eventIds : t \in DOMAIN inbox.subjects}
    BY ONLY <1>4, <1>5
  <1>7. DOMAIN inbox'.events = UNION {inbox'.subjects[t].eventIds : t \in DOMAIN inbox'.subjects}
    BY <1>4, <1>6 DEF InboxInv
  <1>8. \A t, u \in DOMAIN inbox'.subjects :
          t # u => inbox'.subjects[t].eventIds \cap inbox'.subjects[u].eventIds = {}
    BY <1>4, <1>5 DEF InboxInv
  <1>9. QED
    BY ONLY <1>4, <1>5, <1>7, <1>8 DEF InboxInv

LEMMA DiscardHolds ==
  ASSUME NEW N \in Nat, Sequences = 1 .. N, InboxInv, NEW s, Discard(s)
  PROVE  InboxInv'
  <1>1. /\ s \in DOMAIN inbox.subjects
        /\ inbox' = [subjects |-> Except(inbox.subjects, {s}),
                     events |-> Except(inbox.events, inbox.subjects[s].eventIds)]
    BY DEF Discard, Discarded, IsOpen
  <1>2. /\ inbox' = [subjects |-> inbox'.subjects, events |-> inbox'.events]
        /\ DOMAIN inbox'.subjects = DOMAIN inbox.subjects \ {s}
        /\ \A t \in DOMAIN inbox'.subjects : inbox'.subjects[t] = inbox.subjects[t]
        /\ DOMAIN inbox'.events = DOMAIN inbox.events \ inbox.subjects[s].eventIds
    BY ONLY <1>1 DEF Except
  <1>3. \A t \in DOMAIN inbox'.subjects : SubjectInv(inbox'.subjects[t])
    BY <1>2 DEF InboxInv
  <1>4. \A e : e \in UNION {inbox'.subjects[t].eventIds : t \in DOMAIN inbox'.subjects}
                 <=> \E t \in DOMAIN inbox.subjects : t # s /\ e \in inbox.subjects[t].eventIds
    BY ONLY <1>2
  <1>5. \A e : e \in DOMAIN inbox'.events <=>
                 /\ \E t \in DOMAIN inbox.subjects : e \in inbox.subjects[t].eventIds
                 /\ e \notin inbox.subjects[s].eventIds
    BY <1>2 DEF InboxInv
  <1>6. \A t \in DOMAIN inbox.subjects :
          t # s => inbox.subjects[t].eventIds \cap inbox.subjects[s].eventIds = {}
    BY <1>1 DEF InboxInv
  <1>7. \A e : e \in DOMAIN inbox'.events <=>
                 e \in UNION {inbox'.subjects[t].eventIds : t \in DOMAIN inbox'.subjects}
    BY ONLY <1>1, <1>4, <1>5, <1>6
  <1>8. DOMAIN inbox'.events = UNION {inbox'.subjects[t].eventIds : t \in DOMAIN inbox'.subjects}
    BY ONLY <1>7
  <1>9. \A t, u \in DOMAIN inbox'.subjects :
          t # u => inbox'.subjects[t].eventIds \cap inbox'.subjects[u].eventIds = {}
    BY <1>2 DEF InboxInv
  <1>10. QED
    BY ONLY <1>2, <1>3, <1>8, <1>9 DEF InboxInv

LEMMA ClaimedMembers ==
  ASSUME NEW x, x.claims \in SUBSET (Sequences \X Statuses), NEW n, NEW v
  PROVE  v \in Claimed(x, n) <=> <<n, v>> \in x.claims
  <1>1. \A c \in x.claims : c = <<c[1], c[2]>>
    OBVIOUS
  <1>2. ASSUME v \in Claimed(x, n) PROVE <<n, v>> \in x.claims
    <2>1. PICK c \in x.claims : c[1] = n /\ v = c[2]
      BY <1>2 DEF Claimed
    <2>2. QED
      BY <1>1, <2>1
  <1>3. ASSUME <<n, v>> \in x.claims PROVE v \in Claimed(x, n)
    <2>1. <<n, v>>[1] = n /\ <<n, v>>[2] = v
      OBVIOUS
    <2>2. QED
      BY <1>3, <2>1 DEF Claimed
  <1>4. QED
    BY <1>2, <1>3

(* One claim for each sequence: no two contradict each other.              *)
LEMMA SingleClaimsAgree ==
  ASSUME NEW x, x.claims \in SUBSET (Sequences \X Statuses), IsFiniteSet(x.claims),
         \A n \in Sequences : Cardinality(Claimed(x, n)) <= 1
  PROVE  Agreed(x.claims)
  <1> SUFFICES ASSUME NEW c \in x.claims, NEW d \in x.claims, c[1] = d[1], c[2] # d[2] PROVE FALSE
    BY DEF Agreed
  <1> DEFINE n == c[1]
             own == {y \in x.claims : y[1] = n}
             said == Claimed(x, n)
             f == [y \in own |-> y[2]]
  <1>1. n \in Sequences /\ c = <<n, c[2]>> /\ d = <<n, d[2]>>
    OBVIOUS
  <1>2. c[2] \in said /\ d[2] \in said
    <2>1. <<n, c[2]>> \in x.claims /\ <<n, d[2]>> \in x.claims
      BY <1>1
    <2>2. QED
      BY <2>1, ClaimedMembers
  <1>3. said = {y[2] : y \in own}
    BY DEF Claimed
  <1>4. IsFiniteSet(own)
    BY FS_Subset
  <1>5. f \in Surjection(own, said)
    <2>1. f \in [own -> said]
      BY <1>3
    <2>2. \A v \in said : \E y \in own : f[y] = v
      BY <1>3
    <2>3. QED
      BY <2>1, <2>2 DEF Surjection
  <1>6. Cardinality(said) <= 1
    BY <1>1
  <1> HIDE DEF said, own, f, n
  <1>7. IsFiniteSet(said)
    BY ONLY <1>4, <1>5, FS_Surjection
  <1>8. {c[2], d[2]} \in SUBSET said
    BY <1>2
  <1>9. Cardinality({c[2], d[2]}) <= Cardinality(said)
    BY ONLY <1>7, <1>8, FS_Subset
  <1>10. Cardinality({c[2], d[2]}) = 2
    <2>1. IsFiniteSet({c[2]}) /\ Cardinality({c[2]}) = 1
      BY ONLY FS_Singleton
    <2>2. d[2] \notin {c[2]}
      OBVIOUS
    <2>3. Cardinality({c[2]} \cup {d[2]}) = Cardinality({c[2]}) + 1
      BY ONLY <2>1, <2>2, FS_AddElement
    <2>4. {c[2], d[2]} = {c[2]} \cup {d[2]}
      OBVIOUS
    <2>5. QED
      BY ONLY <2>1, <2>3, <2>4
  <1>11. Cardinality(said) \in Nat
    BY ONLY <1>7, FS_CardinalityType
  <1>12. QED
    BY ONLY <1>6, <1>9, <1>10, <1>11

(* The step of InOrder from what the earlier sequences come to.            *)
InOrderStep(x, f) ==
  [n \in Sequences \cup {0} |->
     IF n = 0 THEN [sequence |-> 0, status |-> InitialStatus]
     ELSE IF /\ f[n - 1].sequence = n - 1
             /\ Claimed(x, n) \cap Transitions[f[n - 1].status] # {}
          THEN [sequence |-> n, status |-> CHOOSE st \in Claimed(x, n) : TRUE]
          ELSE f[n - 1]]

Reached(x) ==
  [n \in Sequences \cup {0} |->
     IF n <= x.sequence THEN [sequence |-> n, status |-> StatusAt(x, n)]
     ELSE [sequence |-> x.sequence, status |-> x.status]]

LEMMA ReachedIsFixed ==
  ASSUME NEW N \in Nat, Sequences = 1 .. N, NEW x, SubjectInv(x), Agreed(x.claims)
  PROVE  Reached(x) = InOrderStep(x, Reached(x))
  <1> DEFINE g == Reached(x)
             s == x.sequence
  <1>1. /\ s \in 0 .. N /\ x.status = StatusAt(x, s)
        /\ \A n \in 1 .. s : /\ <<n, x.applied[n]>> \in x.claims
                             /\ x.applied[n] \in Transitions[StatusAt(x, n - 1)]
    BY DEF SubjectInv, AppliedInv
  <1>2. x.claims \in SUBSET (Sequences \X Statuses)
    BY DEF SubjectInv, SubjectRecord
  <1>3. \A n, v : v \in Claimed(x, n) <=> <<n, v>> \in x.claims
    BY <1>2, ClaimedMembers
  <1>4. \A c \in x.claims : c[1] = s + 1 => c[2] \notin Transitions[x.status]
    BY DEF SubjectInv, ClaimsInv
  <1>5. \A n, v, w : <<n, v>> \in x.claims /\ <<n, w>> \in x.claims => v = w
    <2> SUFFICES ASSUME NEW n, NEW v, NEW w, <<n, v>> \in x.claims, <<n, w>> \in x.claims PROVE v = w
      OBVIOUS
    <2>1. <<n, v>>[1] = <<n, w>>[1] /\ <<n, v>>[2] = v /\ <<n, w>>[2] = w
      OBVIOUS
    <2>2. \A c, d \in x.claims : c[1] = d[1] => c[2] = d[2]
      BY DEF Agreed
    <2>3. QED
      BY ONLY <2>1, <2>2, <<n, v>> \in x.claims, <<n, w>> \in x.claims
  <1>6. \A n \in 0 .. N : g[n] = IF n <= s THEN [sequence |-> n, status |-> StatusAt(x, n)]
                                 ELSE [sequence |-> s, status |-> x.status]
    BY DEF Reached
  <1>7. Sequences \cup {0} = 0 .. N
    OBVIOUS
  <1> HIDE DEF g
  <1>8. ASSUME NEW n \in 0 .. N PROVE g[n] = InOrderStep(x, g)[n]
    <2>1. InOrderStep(x, g)[n] =
            IF n = 0 THEN [sequence |-> 0, status |-> InitialStatus]
            ELSE IF /\ g[n - 1].sequence = n - 1
                    /\ Claimed(x, n) \cap Transitions[g[n - 1].status] # {}
                 THEN [sequence |-> n, status |-> CHOOSE st \in Claimed(x, n) : TRUE]
                 ELSE g[n - 1]
      BY ONLY <1>7, <1>8 DEF InOrderStep
    <2>2. CASE n = 0
      BY ONLY <1>1, <1>6, <2>1, <2>2, n \in 0 .. N DEF StatusAt
    <2>3. CASE n \in 1 .. s
      <3>1. n - 1 \in 0 .. N /\ n - 1 <= s /\ n <= s /\ n # 0 /\ n \in 0 .. N
        BY ONLY <1>1, <2>3, N \in Nat
      <3>2. g[n - 1] = [sequence |-> n - 1, status |-> StatusAt(x, n - 1)]
        BY ONLY <1>6, <3>1
      <3>3. g[n - 1].sequence = n - 1 /\ g[n - 1].status = StatusAt(x, n - 1)
        BY ONLY <3>2
      <3>4. x.applied[n] \in Claimed(x, n) /\ x.applied[n] \in Transitions[g[n - 1].status]
        BY ONLY <1>1, <1>3, <2>3, <3>3
      <3>5. \A v \in Claimed(x, n) : v = x.applied[n]
        BY ONLY <1>3, <1>5, <3>4
      <3>6. (CHOOSE st \in Claimed(x, n) : TRUE) = x.applied[n]
        BY ONLY <3>4, <3>5
      <3>7. g[n] = [sequence |-> n, status |-> x.applied[n]]
        BY ONLY <1>6, <3>1 DEF StatusAt
      <3>8. QED
        BY ONLY <2>1, <3>1, <3>3, <3>4, <3>6, <3>7
    <2>4. CASE n = s + 1
      <3>1. n - 1 = s /\ n - 1 \in 0 .. N /\ ~(n <= s) /\ n # 0 /\ n \in 0 .. N /\ s <= s
        BY ONLY <1>1, <2>4, n \in 0 .. N, N \in Nat
      <3>2. g[n - 1] = [sequence |-> s, status |-> x.status]
        BY ONLY <1>1, <1>6, <3>1
      <3>3. Claimed(x, n) \cap Transitions[g[n - 1].status] = {}
        <4>1. g[n - 1].status = x.status
          BY ONLY <3>2
        <4>2. ASSUME NEW v \in Claimed(x, n) PROVE v \notin Transitions[x.status]
          <5>1. <<n, v>> \in x.claims /\ <<n, v>>[1] = s + 1 /\ <<n, v>>[2] = v
            BY ONLY <1>3, <2>4, <4>2
          <5>2. QED
            BY ONLY <1>4, <5>1
        <4>3. QED
          BY ONLY <4>1, <4>2
      <3>4. g[n] = [sequence |-> s, status |-> x.status]
        BY ONLY <1>6, <3>1
      <3>5. QED
        BY ONLY <2>1, <3>1, <3>2, <3>3, <3>4
    <2>5. CASE n > s + 1
      <3>1. n - 1 \in 0 .. N /\ ~(n - 1 <= s) /\ ~(n <= s) /\ n # 0 /\ n \in 0 .. N /\ s # n - 1
        BY ONLY <1>1, <2>5, n \in 0 .. N, N \in Nat
      <3>2. g[n - 1] = [sequence |-> s, status |-> x.status] /\ g[n] = g[n - 1]
        BY ONLY <1>6, <3>1
      <3>3. g[n - 1].sequence # n - 1
        BY ONLY <3>1, <3>2
      <3>4. QED
        BY ONLY <2>1, <3>1, <3>2, <3>3
    <2>6. QED
      BY ONLY <1>1, <2>2, <2>3, <2>4, <2>5, n \in 0 .. N, N \in Nat
  <1>9. /\ g = [n \in 0 .. N |-> g[n]] /\ InOrderStep(x, g) = [n \in 0 .. N |-> InOrderStep(x, g)[n]]
    <2>1. g = [n \in 0 .. N |-> g[n]]
      BY <1>7 DEF g, Reached
    <2>2. InOrderStep(x, g) = [n \in 0 .. N |-> InOrderStep(x, g)[n]]
      BY ONLY <1>7 DEF InOrderStep
    <2>3. QED
      BY ONLY <2>1, <2>2
  <1>10. g = InOrderStep(x, g)
    BY ONLY <1>8, <1>9
  <1>11. QED
    BY ONLY <1>10 DEF g

LEMMA FoldIsReached ==
  ASSUME NEW N \in Nat, Sequences = 1 .. N, NEW x, SubjectInv(x), Agreed(x.claims)
  PROVE  InOrder(x) = [sequence |-> x.sequence, status |-> x.status]
  <1> DEFINE fold == CHOOSE f : f = InOrderStep(x, f)
             g == Reached(x)
             Differ == {n \in Nat : n <= N /\ fold[n] # g[n]}
  <1>1. InOrder(x) = fold[Cardinality(Sequences)]
    BY DEF InOrder, InOrderStep
  <1>2. g = InOrderStep(x, g)
    BY ReachedIsFixed
  <1>3. fold = InOrderStep(x, fold)
    <2>1. \E f : f = InOrderStep(x, f)
      BY <1>2
    <2>2. QED
      BY <2>1
  <1> HIDE DEF fold, g
  <1>4. \A n \in 0 .. N : n = 0 => fold[n] = g[n]
    BY ONLY <1>2, <1>3, Sequences = 1 .. N, N \in Nat DEF InOrderStep
  <1>5. \A n \in 1 .. N : fold[n - 1] = g[n - 1] => fold[n] = g[n]
    <2> SUFFICES ASSUME NEW n \in 1 .. N, fold[n - 1] = g[n - 1] PROVE fold[n] = g[n]
      OBVIOUS
    <2>1. n \in Sequences \cup {0} /\ n # 0
      OBVIOUS
    <2>2. InOrderStep(x, fold)[n] = InOrderStep(x, g)[n]
      BY ONLY <2>1, fold[n - 1] = g[n - 1] DEF InOrderStep
    <2>3. QED
      BY ONLY <1>2, <1>3, <2>2
  <1>6. Differ = {}
    <2> SUFFICES ASSUME Differ # {} PROVE FALSE
      OBVIOUS
    <2>1. PICK m \in Differ : \A n \in Differ : ~(n < m)
      BY LeastNatural
    <2>2. m \in Nat /\ m <= N /\ fold[m] # g[m]
      OBVIOUS
    <2>3. m # 0
      BY <1>4, <2>2
    <2>4. m \in 1 .. N /\ m - 1 \in Nat /\ m - 1 <= N /\ m - 1 < m
      BY <2>2, <2>3
    <2>5. fold[m - 1] = g[m - 1]
      BY <2>1, <2>4
    <2>6. QED
      BY <1>5, <2>2, <2>4, <2>5
  <1>7. fold[N] = g[N]
    BY <1>6
  <1>8. Cardinality(Sequences) = N
    BY FS_Interval
  <1>9. x.sequence \in 0 .. N /\ x.status = StatusAt(x, x.sequence)
    BY DEF SubjectInv, AppliedInv
  <1>10. g[N] = [sequence |-> x.sequence, status |-> x.status]
    <2>1. g[N] = IF N <= x.sequence THEN [sequence |-> N, status |-> StatusAt(x, N)]
                 ELSE [sequence |-> x.sequence, status |-> x.status]
      BY DEF g, Reached
    <2>2. QED
      BY <1>9, <2>1
  <1>11. QED
    BY <1>1, <1>7, <1>8, <1>10

LEMMA InboxInitHolds == InboxInit => InboxInv
  <1> SUFFICES ASSUME InboxInit PROVE InboxInv
    OBVIOUS
  <1>1. DOMAIN << >> = {}
    OBVIOUS
  <1>2. QED
    BY <1>1 DEF InboxInit, InboxInv

LEMMA InboxStep ==
  ASSUME InboxInv, [InboxNext]_inbox PROVE InboxInv'
  <1>1. PICK N \in Nat : Sequences = 1 .. N
    BY InboxAssumption, FS_CardinalityType
  <1>2. CASE UNCHANGED inbox
    BY <1>2 DEF InboxInv
  <1>3. CASE InboxNext
    <2>1. ASSUME NEW s \in Subjects, NEW deadline \in Instants, OpenSubject(s, deadline)
          PROVE  InboxInv'
      BY <1>1, <2>1, OpenedHolds
    <2>2. ASSUME NEW s \in Subjects, NEW event \in EventIds, NEW q \in Sequences,
                 NEW st \in Statuses, NEW receivedAt \in Instants, Accept(s, event, q, st, receivedAt)
          PROVE  InboxInv'
      BY <1>1, <2>2, AcceptHolds
    <2>3. ASSUME NEW s \in Subjects, Discard(s) PROVE InboxInv'
      BY <1>1, <2>3, DiscardHolds
    <2>4. ASSUME NEW instant \in Instants, Expire(instant) PROVE InboxInv'
      BY <1>1, <2>4, ExpireHolds
    <2>5. QED
      BY <1>3, <2>1, <2>2, <2>3, <2>4 DEF InboxNext
  <1>4. QED
    BY <1>2, <1>3

LEMMA InboxInvFolds ==
  ASSUME InboxInv PROVE CallbacksFoldInOrder
  <1>1. PICK N \in Nat : Sequences = 1 .. N
    BY InboxAssumption, FS_CardinalityType
  <1>2. ASSUME NEW s \in DOMAIN inbox.subjects,
               \A n \in Sequences : Cardinality(Claimed(inbox.subjects[s], n)) <= 1
        PROVE  InOrder(inbox.subjects[s]) =
                 [sequence |-> inbox.subjects[s].sequence, status |-> inbox.subjects[s].status]
    <2>1. PICK x : x = inbox.subjects[s]
      OBVIOUS
    <2>2. SubjectInv(x)
      BY <2>1 DEF InboxInv
    <2>3. x.claims \in SUBSET (Sequences \X Statuses) /\ IsFiniteSet(x.claims)
      BY <2>2 DEF SubjectInv, SubjectRecord, ClaimsInv
    <2>4. \A n \in Sequences : Cardinality(Claimed(x, n)) <= 1
      BY <1>2, <2>1
    <2>5. Agreed(x.claims)
      BY ONLY <2>3, <2>4, SingleClaimsAgree
    <2>6. InOrder(x) = [sequence |-> x.sequence, status |-> x.status]
      BY ONLY <1>1, <2>2, <2>5, FoldIsReached
    <2>7. QED
      BY ONLY <2>1, <2>6
  <1>3. DOMAIN inbox.events = UNION {inbox.subjects[s].eventIds : s \in DOMAIN inbox.subjects}
    BY DEF InboxInv
  <1>4. QED
    BY <1>2, <1>3 DEF CallbacksFoldInOrder

THEOREM CallbacksFold == InboxSpec => []CallbacksFoldInOrder
  <1>1. InboxInit => InboxInv
    BY InboxInitHolds
  <1>2. InboxInv /\ [InboxNext]_inbox => InboxInv'
    BY InboxStep
  <1>3. InboxInv => CallbacksFoldInOrder
    BY InboxInvFolds
  <1>4. QED
    BY <1>1, <1>2, <1>3, PTL DEF InboxSpec
-----------------------------------------------------------------------------
(* Onboarding: the applications an inbox keeps, and what the provider will *)
(* have said of each.                                                      *)
SubjectFields ==
  {"status", "sequence", "deadline", "timedOut", "parked", "applied", "eventIds", "claims"}

ServiceFields == {"queue", "timelines", "nonces", "inbox", "index", "records"}

RecordFields == {"attempt", "unavailable", "application", "lastState"}

References == Applicants \X (0 .. MaxAttempts)

(* Timelines name their application and its events in sequence.            *)
Promised(T) ==
  \A r \in DOMAIN T :
    /\ r \in References /\ T[r].deadline \in Int /\ DOMAIN T[r].events \subseteq {1, 2}
    /\ \A n \in DOMAIN T[r].events : T[r].events[n].at \in Int

(* A delivery repeats an event that has occurred when it is due.           *)
Tells(T, d) ==
  LET said == T[d.payload.ref].events
  IN  /\ d.at \in Int /\ d.nonce \in Int
      /\ d.payload.ref \in DOMAIN T /\ d.payload.sequence \in DOMAIN said
      /\ d.payload.status = said[d.payload.sequence].payload.status
      /\ said[d.payload.sequence].at <= d.at

(* An event the provider observed by a time and within its deadline.       *)
Heard(T, t, r, n, status) ==
  /\ n \in DOMAIN T[r].events
  /\ T[r].events[n].payload.status = status
  /\ T[r].events[n].at <= t /\ T[r].events[n].at <= T[r].deadline

(* What the inbox keeps of an application it has heard of in time.         *)
Hears(T, t, r, x) ==
  /\ DOMAIN x = SubjectFields
  /\ x.deadline = T[r].deadline /\ x.timedOut \in BOOLEAN /\ x.sequence \in 0 .. 2
  /\ x.sequence = 0 => x.status = "submitted"
  /\ x.sequence # 0 => Heard(T, t, r, x.sequence, x.status) /\ DOMAIN x.parked = {}
  /\ DOMAIN x.parked \subseteq {2}
  /\ \A n \in DOMAIN x.parked : Heard(T, t, r, n, x.parked[n])

(* A callback moves an application only by what it says.                   *)
Moved(x, y) ==
  /\ y.timedOut = x.timedOut
  /\ y.sequence = x.sequence => y.status = x.status

LEMMA SameSize == \A S : Inbox!Cardinality(S) = Cardinality(S)
  BY DEF Cardinality, Inbox!Cardinality

LEMMA FoldedHears ==
  ASSUME NEW x, DOMAIN x = SubjectFields, x.sequence \in {1, 2}, DOMAIN x.parked \subseteq {2},
         x.sequence = 2 => DOMAIN x.parked = {}, NEW y, y = Inbox!Folded(x)
  PROVE  /\ DOMAIN y = SubjectFields /\ DOMAIN y.parked = {}
         /\ y.deadline = x.deadline /\ y.timedOut = x.timedOut
         /\ \/ y.sequence = x.sequence /\ y.status = x.status
            \/ y.sequence = 2 /\ 2 \in DOMAIN x.parked /\ y.status = x.parked[2]
  <1>0. PICK turn : turn = Inbox!InTurn(x)
    OBVIOUS
  <1> DEFINE last == x.sequence + Cardinality(turn)
             kept == Inbox!Except(x.parked, turn \cup {last + 1})
             told == [n \in DOMAIN x.applied \cup turn |->
                        IF n \in turn THEN x.parked[n] ELSE x.applied[n]]
  <1>1. turn \subseteq DOMAIN x.parked
    BY <1>0 DEF Inbox!InTurn
  <1>2. y = [x EXCEPT !.status = IF turn = {} THEN x.status ELSE x.parked[last],
                      !.sequence = last, !.applied = told, !.parked = kept]
    BY <1>0, SameSize DEF Inbox!Folded
  <1>3. DOMAIN kept = DOMAIN x.parked \ (turn \cup {last + 1})
    BY DEF Inbox!Except
  <1> HIDE DEF kept, told
  <1>4. /\ DOMAIN y = SubjectFields /\ y.parked = kept /\ y.sequence = last
        /\ y.deadline = x.deadline /\ y.timedOut = x.timedOut
        /\ y.status = IF turn = {} THEN x.status ELSE x.parked[last]
    BY <1>2 DEF SubjectFields
  <1>5. CASE turn = {}
    <2>1. last = x.sequence
      BY <1>5, FS_EmptySet
    <2>2. DOMAIN kept = {}
      BY <1>3, <1>5, <2>1
    <2>3. QED
      BY <1>4, <1>5, <2>1, <2>2
  <1>6. CASE turn # {}
    <2>1. turn = {2} /\ 2 \in DOMAIN x.parked /\ x.sequence = 1
      BY <1>1, <1>6
    <2>2. Cardinality(turn) = 1
      BY <2>1, FS_Singleton
    <2>3. last = 2
      BY <2>1, <2>2
    <2>4. DOMAIN kept = {}
      BY <1>3, <2>1
    <2>5. QED
      BY <1>4, <1>6, <2>1, <2>3, <2>4
  <1>7. QED
    BY <1>5, <1>6

LEMMA DeliveredHears ==
  ASSUME NEW T, NEW t, NEW r, NEW x, Hears(T, t, r, x), NEW n \in {1, 2}, NEW status,
         Heard(T, t, r, n, status), NEW y, y = Inbox!Delivered(x, n, status)
  PROVE  Hears(T, t, r, y) /\ Moved(x, y)
  <1>1. CASE y = x
    BY <1>1 DEF Moved
  <1>2. CASE y = [x EXCEPT !.parked = Inbox!Mapped(@, n, status)] /\ n > x.sequence + 1
    <2> DEFINE more == Inbox!Mapped(x.parked, n, status)
    <2>1. /\ DOMAIN more = DOMAIN x.parked \cup {n}
          /\ \A k \in DOMAIN more : more[k] = IF k = n THEN status ELSE x.parked[k]
      BY DEF Inbox!Mapped
    <2> HIDE DEF more
    <2>2. n = 2 /\ x.sequence = 0
      BY <1>2 DEF Hears
    <2>3. /\ DOMAIN y = SubjectFields /\ y.parked = more /\ y.status = x.status
          /\ y.sequence = x.sequence /\ y.deadline = x.deadline /\ y.timedOut = x.timedOut
      BY <1>2 DEF Hears, SubjectFields, more
    <2>4. \A k \in DOMAIN more : Heard(T, t, r, k, more[k])
      BY <2>1 DEF Hears
    <2>5. QED
      BY <2>1, <2>2, <2>3, <2>4 DEF Hears, Moved
  <1>3. CASE /\ y = Inbox!Folded(Inbox!Applied(x, status))
             /\ n = x.sequence + 1 /\ n \notin DOMAIN x.parked
    <2> DEFINE z == Inbox!Applied(x, status)
    <2>1. /\ DOMAIN z = SubjectFields /\ z.status = status /\ z.sequence = n
          /\ z.parked = x.parked /\ z.deadline = x.deadline /\ z.timedOut = x.timedOut
      BY <1>3 DEF Inbox!Applied, Hears, SubjectFields
    <2> HIDE DEF z
    <2>2. DOMAIN z.parked \subseteq {2} /\ (z.sequence = 2 => DOMAIN z.parked = {})
      BY <1>3, <2>1 DEF Hears
    <2>3. /\ DOMAIN y = SubjectFields /\ DOMAIN y.parked = {}
          /\ y.deadline = z.deadline /\ y.timedOut = z.timedOut
          /\ \/ y.sequence = z.sequence /\ y.status = z.status
             \/ y.sequence = 2 /\ 2 \in DOMAIN z.parked /\ y.status = z.parked[2]
      <3>1. y = Inbox!Folded(z) /\ z.sequence \in {1, 2} /\ DOMAIN z = SubjectFields
        BY <1>3, <2>1 DEF z
      <3>2. QED
        BY ONLY <2>2, <3>1, FoldedHears
    <2>4. y.sequence \in {1, 2} /\ Heard(T, t, r, y.sequence, y.status)
      BY <2>1, <2>3 DEF Hears
    <2>5. QED
      BY <1>3, <2>1, <2>3, <2>4 DEF Hears, Moved
  <1>4. n \in DOMAIN x.parked /\ n > x.sequence => Inbox!Prior(x, n) # {}
    BY DEF Inbox!Prior, Hears
  <1>5. QED
    BY <1>1, <1>2, <1>3, <1>4 DEF Inbox!Delivered, Hears

(* A callback reaches the application it names.                            *)
Arrives(T, t, box, r, x, n, status) ==
  /\ Promised(T) /\ t \in Int /\ r \in DOMAIN T
  /\ DOMAIN box = {"subjects", "events"} /\ r \in DOMAIN box.subjects
  /\ x = box.subjects[r] /\ Hears(T, t, r, x)
  /\ n \in DOMAIN T[r].events /\ status = T[r].events[n].payload.status
  /\ T[r].events[n].at <= t

LEMMA AcceptedHears ==
  ASSUME NEW T, NEW t, NEW box, NEW r, NEW x, NEW n, NEW status,
         Arrives(T, t, box, r, x, n, status), NEW event,
         NEW new, new = Inbox!Accepted(box, r, event, n, status, t)
  PROVE  /\ DOMAIN new = DOMAIN box /\ DOMAIN new.subjects = DOMAIN box.subjects
         /\ \A q \in DOMAIN box.subjects \ {r} : new.subjects[q] = box.subjects[q]
         /\ Hears(T, t, r, new.subjects[r]) /\ Moved(x, new.subjects[r])
         /\ x.timedOut => new.subjects[r].sequence = x.sequence
  <1>0. /\ Promised(T) /\ t \in Int /\ r \in DOMAIN T
        /\ DOMAIN box = {"subjects", "events"} /\ r \in DOMAIN box.subjects
        /\ x = box.subjects[r] /\ Hears(T, t, r, x)
        /\ n \in DOMAIN T[r].events /\ status = T[r].events[n].payload.status
        /\ T[r].events[n].at <= t
    BY DEF Arrives
  <1>1. CASE new = box
    BY <1>0, <1>1 DEF Moved
  <1>2. CASE new # box
    <2> DEFINE noted == [x EXCEPT !.eventIds = @ \cup {event}]
               left  == IF Inbox!IsLate(noted, t) THEN noted
                        ELSE [Inbox!Delivered(noted, n, status)
                                EXCEPT !.claims = @ \cup {<<n, status>>}]
    <2>1. /\ DOMAIN new = {"subjects", "events"}
          /\ new.subjects = [box.subjects EXCEPT ![r] = left]
      BY <1>0, <1>2 DEF Inbox!Accepted
    <2>2. Hears(T, t, r, noted) /\ Moved(x, noted) /\ noted.sequence = x.sequence
          /\ noted.timedOut = x.timedOut /\ noted.deadline = T[r].deadline
          /\ DOMAIN noted = SubjectFields
      BY <1>0 DEF Hears, Moved, SubjectFields, Heard
    <2> HIDE DEF noted
    <2>3. Hears(T, t, r, left) /\ Moved(x, left) /\ (x.timedOut => left.sequence = x.sequence)
      <3>1. CASE Inbox!IsLate(noted, t)
        BY <2>2, <3>1
      <3>2. CASE ~Inbox!IsLate(noted, t)
        <4> DEFINE y == Inbox!Delivered(noted, n, status)
        <4>1. ~noted.timedOut /\ t <= T[r].deadline
          BY <1>0, <2>2, <3>2 DEF Inbox!IsLate, Promised
        <4>2. n \in {1, 2} /\ T[r].events[n].at \in Int /\ T[r].deadline \in Int
          BY <1>0 DEF Promised
        <4>3. Heard(T, t, r, n, status)
          BY <1>0, <4>1, <4>2 DEF Heard
        <4>4. Hears(T, t, r, y) /\ Moved(noted, y)
          BY <2>2, <4>2, <4>3, DeliveredHears
        <4> HIDE DEF y
        <4>5. left = [y EXCEPT !.claims = @ \cup {<<n, status>>}]
          BY <3>2 DEF y
        <4>6. DOMAIN y = SubjectFields
          BY <4>4 DEF Hears
        <4>7. /\ DOMAIN left = SubjectFields /\ left.status = y.status
              /\ left.sequence = y.sequence /\ left.deadline = y.deadline
              /\ left.timedOut = y.timedOut /\ left.parked = y.parked
          BY ONLY <4>5, <4>6 DEF SubjectFields
        <4>8. Hears(T, t, r, left)
          BY <4>4, <4>7 DEF Hears
        <4>9. QED
          BY <2>2, <4>1, <4>4, <4>7, <4>8 DEF Moved
      <3>3. QED
        BY <3>1, <3>2
    <2> HIDE DEF left
    <2>4. QED
      BY <1>0, <2>1, <2>3
  <1>3. QED
    BY <1>1, <1>2
-----------------------------------------------------------------------------
Shaped(k) ==
  /\ DOMAIN k = ServiceFields /\ DOMAIN k.inbox = {"subjects", "events"}
  /\ DOMAIN k.records = Applicants
  /\ \A s \in Applicants : DOMAIN k.records[s] = RecordFields

(* A subject's application is its own, and its listeners know its state.   *)
Belongs(k, s) ==
  LET ref == Application(k, s)
  IN  /\ k.records[s].attempt \in 0 .. MaxAttempts
      /\ ref # Absent =>
           /\ ref \in k.index /\ ref[1] = s
           /\ k.records[s].lastState = StateOf(k, ref)

LEMMA BelongsStays ==
  ASSUME NEW k, NEW m, m.records = k.records, m.inbox = k.inbox, m.index = k.index,
         NEW s \in Applicants, Belongs(k, s)
  PROVE  Belongs(m, s)
  <1>1. Application(m, s) = Application(k, s)
    BY DEF Application
  <1>2. \A r : StateOf(m, r) = StateOf(k, r)
    BY DEF StateOf
  <1>3. QED
    BY <1>1, <1>2 DEF Belongs

(* The inbox of the service follows its provider.                          *)
Follows(k, t) ==
  /\ Shaped(k) /\ k.index = DOMAIN k.inbox.subjects /\ k.index \subseteq DOMAIN k.timelines
  /\ \A r \in k.index : Hears(k.timelines, t, r, k.inbox.subjects[r])
  /\ \A s \in Applicants : Belongs(k, s)

(* What a drain leaves as it was.                                          *)
Stays(k, m) ==
  /\ m.timelines = k.timelines /\ m.queue = k.queue /\ m.index = k.index
  /\ \A s \in Applicants : /\ m.records[s].attempt = k.records[s].attempt
                           /\ Application(m, s) = Application(k, s)

LEMMA TransitionShape ==
  ASSUME NEW k, Shaped(k), NEW r, NEW state, NEW m, m = TransitionFor(k, r, state)
  PROVE  /\ Shaped(m) /\ Stays(k, m) /\ m.inbox = k.inbox
         /\ \A s \in Applicants :
              m.records[s].lastState =
                IF Application(k, s) = r THEN state ELSE k.records[s].lastState
  <1> DEFINE told == [s \in Applicants |->
                        IF k.records[s].application = r
                        THEN [k.records[s] EXCEPT !.lastState = state] ELSE k.records[s]]
  <1>1. m = [k EXCEPT !.records = told]
    BY DEF TransitionFor
  <1>2. \A s \in Applicants :
          /\ DOMAIN told[s] = RecordFields /\ told[s].attempt = k.records[s].attempt
          /\ told[s].application = k.records[s].application
          /\ told[s].lastState =
               IF k.records[s].application = r THEN state ELSE k.records[s].lastState
    BY DEF Shaped, RecordFields
  <1>3. DOMAIN told = Applicants
    OBVIOUS
  <1> HIDE DEF told
  <1>4. /\ DOMAIN m = ServiceFields /\ m.records = told /\ m.inbox = k.inbox
        /\ m.timelines = k.timelines /\ m.queue = k.queue /\ m.index = k.index
    BY <1>1 DEF Shaped, ServiceFields
  <1>5. QED
    BY <1>2, <1>3, <1>4 DEF Shaped, Stays, Application

LEMMA ReceiveKeeps ==
  ASSUME NEW k, Promised(k.timelines), Follows(k, now), now \in Int,
         NEW d, Tells(k.timelines, d), d.at <= now,
         NEW m, m = ReceiveCallback(k, d)
  PROVE  Follows(m, now) /\ Stays(k, m)
  <1> DEFINE r == d.payload.ref
             n == d.payload.sequence
             status == d.payload.status
             T == k.timelines
             noted == [k EXCEPT !.nonces = Recorded(@, d, now)]
             box == Inbox!Accepted(k.inbox, r, d.payload.event, n, status, now)
             x == k.inbox.subjects[r]
             y == box.subjects[r]
  <1>1. /\ DOMAIN noted = ServiceFields /\ noted.inbox = k.inbox /\ noted.records = k.records
        /\ noted.timelines = T /\ noted.queue = k.queue /\ noted.index = k.index
    BY DEF Follows, Shaped, ServiceFields
  <1>2. \/ m = noted
        \/ /\ r \in k.index
           /\ \/ y.sequence = x.sequence /\ m = [noted EXCEPT !.inbox = box]
              \/ /\ y.sequence # x.sequence
                 /\ m = TransitionFor([noted EXCEPT !.inbox = box], r, y.status)
    BY DEF ReceiveCallback
  <1> HIDE DEF noted
  <1>3. CASE m = noted
    <2>1. \A s \in Applicants : Belongs(m, s)
      BY <1>1, <1>3, BelongsStays DEF Follows
    <2>2. Shaped(m)
      BY <1>1, <1>3 DEF Follows, Shaped
    <2>3. Stays(k, m)
      BY <1>1, <1>3 DEF Stays, Application
    <2>4. QED
      BY <1>1, <1>3, <2>1, <2>2, <2>3 DEF Follows
  <1>4. CASE r \in k.index
    <2>1. /\ DOMAIN box = DOMAIN k.inbox /\ DOMAIN box.subjects = DOMAIN k.inbox.subjects
          /\ \A q \in DOMAIN k.inbox.subjects \ {r} : box.subjects[q] = k.inbox.subjects[q]
          /\ Hears(T, now, r, y) /\ Moved(x, y) /\ (x.timedOut => y.sequence = x.sequence)
      <3>1. r \in DOMAIN T /\ n \in DOMAIN T[r].events
            /\ status = T[r].events[n].payload.status /\ T[r].events[n].at <= now
            /\ T[r].events[n].at \in Int /\ d.at \in Int
        <4> DEFINE event == T[r].events[n]
        <4>1. /\ r \in DOMAIN T /\ n \in DOMAIN T[r].events /\ status = event.payload.status
              /\ event.at <= d.at /\ d.at \in Int
          BY DEF Tells
        <4>2. event.at \in Int
          BY <4>1 DEF Promised
        <4> HIDE DEF event
        <4>3. event.at <= now
          BY <4>1, <4>2
        <4>4. QED
          BY <4>1, <4>2, <4>3 DEF event
      <3>2. /\ DOMAIN k.inbox = {"subjects", "events"} /\ r \in DOMAIN k.inbox.subjects
            /\ Hears(T, now, r, x)
        BY <1>4 DEF Follows, Shaped
      <3> DEFINE was == k.inbox
                 event == d.payload.event
      <3>3. /\ Arrives(T, now, was, r, x, n, status)
            /\ box = Inbox!Accepted(was, r, event, n, status, now)
        BY <3>1, <3>2 DEF Arrives
      <3> HIDE DEF r, n, status, T, x, box, was, event
      <3>4. /\ DOMAIN box = DOMAIN was /\ DOMAIN box.subjects = DOMAIN was.subjects
            /\ \A q \in DOMAIN was.subjects \ {r} : box.subjects[q] = was.subjects[q]
            /\ Hears(T, now, r, box.subjects[r]) /\ Moved(x, box.subjects[r])
            /\ x.timedOut => box.subjects[r].sequence = x.sequence
        BY ONLY <3>3, AcceptedHears
      <3>5. QED
        BY <3>4 DEF was
    <2> DEFINE l == [noted EXCEPT !.inbox = box]
    <2> HIDE DEF box
    <2>2. /\ DOMAIN l = ServiceFields /\ l.inbox = box /\ l.records = k.records
          /\ l.timelines = T /\ l.queue = k.queue /\ l.index = k.index
      BY <1>1 DEF ServiceFields
    <2> HIDE DEF l
    <2>3. Shaped(l)
      BY <2>1, <2>2 DEF Follows, Shaped
    <2>4. \A q \in k.index : Hears(T, now, q, box.subjects[q])
      BY <2>1 DEF Follows
    <2>5. ASSUME NEW q \in k.index
          PROVE  /\ StateOf(k, q) = (IF k.inbox.subjects[q].timedOut THEN "timed_out"
                                         ELSE k.inbox.subjects[q].status)
                 /\ \A z : z.inbox = box =>
                      StateOf(z, q) = (IF box.subjects[q].timedOut THEN "timed_out"
                                           ELSE box.subjects[q].status)
      BY <2>1 DEF Follows, StateOf
    <2>6. CASE y.sequence = x.sequence /\ m = l
      <3>1. ASSUME NEW q \in k.index PROVE StateOf(m, q) = StateOf(k, q)
        <4>1. m.inbox = box
          BY <2>2, <2>6
        <4>2. CASE q = r
          BY <2>1, <2>5, <2>6, <4>1, <4>2 DEF Moved
        <4>3. CASE q # r
          <5>1. box.subjects[q] = k.inbox.subjects[q]
            BY <2>1, <4>3 DEF Follows
          <5>2. QED
            BY <2>5, <4>1, <5>1
        <4>4. QED
          BY <4>2, <4>3
      <3>2. \A s \in Applicants : Belongs(m, s)
        BY <2>2, <2>6, <3>1 DEF Belongs, Follows, Application
      <3>3. QED
        BY <2>1, <2>2, <2>3, <2>4, <2>6, <3>2 DEF Follows, Stays, Application
    <2>7. CASE y.sequence # x.sequence /\ m = TransitionFor(l, r, y.status)
      <3>1. /\ Shaped(m) /\ Stays(l, m) /\ m.inbox = box
            /\ \A s \in Applicants :
                 m.records[s].lastState =
                   IF Application(l, s) = r THEN y.status ELSE l.records[s].lastState
        <4> DEFINE state == y.status
        <4>1. Shaped(l) /\ m = TransitionFor(l, r, state)
          BY <2>3, <2>7
        <4> HIDE DEF state, r
        <4>2. /\ Shaped(m) /\ Stays(l, m) /\ m.inbox = l.inbox
              /\ \A s \in Applicants :
                   m.records[s].lastState =
                     IF Application(l, s) = r THEN state ELSE l.records[s].lastState
          BY ONLY <4>1, TransitionShape
        <4>3. QED
          BY <2>2, <4>2 DEF state
      <3>2. ~y.timedOut
        BY <2>1, <2>7 DEF Moved
      <3>3. ASSUME NEW q \in k.index
            PROVE  StateOf(m, q) = IF q = r THEN y.status ELSE StateOf(k, q)
        <4>1. CASE q = r
          BY <2>5, <3>1, <3>2, <4>1
        <4>2. CASE q # r
          <5>1. box.subjects[q] = k.inbox.subjects[q]
            BY <2>1, <4>2 DEF Follows
          <5>2. QED
            BY <2>5, <3>1, <4>2, <5>1
        <4>3. QED
          BY <4>1, <4>2
      <3>4. \A s \in Applicants : Application(l, s) = Application(k, s)
        BY <2>2 DEF Application
      <3>5. \A s \in Applicants : Belongs(m, s)
        <4> SUFFICES ASSUME NEW s \in Applicants PROVE Belongs(m, s)
          OBVIOUS
        <4>1. Belongs(k, s)
          BY DEF Follows
        <4>2. /\ m.records[s].attempt = k.records[s].attempt /\ m.index = k.index
              /\ Application(m, s) = Application(k, s)
              /\ m.records[s].lastState =
                   IF Application(k, s) = r THEN y.status ELSE k.records[s].lastState
          BY <2>2, <3>1, <3>4 DEF Stays
        <4>3. QED
          BY <3>3, <4>1, <4>2 DEF Belongs
      <3>6. QED
        BY <2>1, <2>2, <2>4, <3>1, <3>4, <3>5 DEF Follows, Stays
    <2>8. QED
      BY <1>2, <1>3, <2>6, <2>7 DEF l
  <1>5. QED
    BY <1>2, <1>3, <1>4
-----------------------------------------------------------------------------
(* Draining: deliveries are received by time and order of signing.         *)
Signings(S) == \A d \in S : d.at \in Int /\ d.nonce \in Int

Before(e, d) == e.at < d.at \/ (e.at = d.at /\ e.nonce <= d.nonce)

LEMMA LatestIsDue ==
  ASSUME NEW S, IsFiniteSet(S), Signings(S)
  PROVE  \A s \in SUBSET S : s # {} => Latest(s) \in s
  <1> DEFINE Has(s) == \E d \in s : \A e \in s : Before(e, d)
             Good == {s \in SUBSET S : s # {} => Has(s)}
  <1>1. ASSUME NEW s \in SUBSET S, \A r \in SUBSET s : r # s => r \in Good
        PROVE  s \in Good
    <2> SUFFICES ASSUME s # {} PROVE Has(s)
      OBVIOUS
    <2>1. PICK e \in s : TRUE
      OBVIOUS
    <2>2. e.at \in Int /\ e.nonce \in Int
      BY DEF Signings
    <2>3. CASE s \ {e} = {}
      <3>1. \A x \in s : x = e
        BY <2>3
      <3>2. QED
        BY <2>1, <2>2, <3>1 DEF Before
    <2>4. CASE s \ {e} # {}
      <3>1. s \ {e} \in SUBSET s /\ s \ {e} # s
        BY <2>1
      <3>2. Has(s \ {e})
        BY <1>1, <2>4, <3>1
      <3>3. PICK d \in s \ {e} : \A x \in s \ {e} : Before(x, d)
        BY <3>2
      <3>4. d.at \in Int /\ d.nonce \in Int /\ \A x \in s : x.at \in Int /\ x.nonce \in Int
        BY DEF Signings
      <3>5. CASE Before(e, d)
        BY <3>3, <3>5
      <3>6. CASE ~Before(e, d)
        <4>1. Before(d, e) /\ Before(e, e)
          BY <2>2, <3>4, <3>6 DEF Before
        <4>2. ASSUME NEW x \in s \ {e} PROVE Before(x, e)
          BY <2>2, <3>3, <3>4, <4>1 DEF Before
        <4>3. QED
          BY <2>1, <4>1, <4>2
      <3>7. QED
        BY <3>5, <3>6
    <2>5. QED
      BY <2>3, <2>4
  <1> HIDE DEF Good
  <1>2. SUBSET S \subseteq Good
    BY <1>1, SubsetInduction
  <1>3. QED
    BY <1>2 DEF Good, Before, Latest

(* The loop of a drain: each delivery due, the latest last.                *)
Reception(f, base, S) ==
  f = [s \in SUBSET S |->
         IF s = {} THEN base
         ELSE CHOOSE r \in {ReceiveCallback(x, Latest(s)) :
                              x \in {f[s \ {Latest(s)}]}} : TRUE]

LEMMA ReceptionExists ==
  ASSUME NEW base, NEW S, IsFiniteSet(S), Signings(S)
  PROVE  \E f : Reception(f, base, S)
  <1> DEFINE L(s) == Latest(s)
             Rec(f, s) == IF s = {} THEN base
                          ELSE CHOOSE r \in {ReceiveCallback(x, L(s)) : x \in {f[s \ {L(s)}]}} : TRUE
             To(n) == \E f : \A s \in SUBSET S : Cardinality(s) <= n => f[s] = Rec(f, s)
             Missed == {n \in Nat : ~To(n)}
  <1>1. \A s \in SUBSET S : IsFiniteSet(s) /\ Cardinality(s) \in Nat
    BY FS_Subset, FS_CardinalityType
  <1>2. To(0)
    <2> DEFINE f == [s \in SUBSET S |-> base]
    <2>1. ASSUME NEW s \in SUBSET S, Cardinality(s) <= 0 PROVE f[s] = Rec(f, s)
      <3>1. s = {}
        BY <1>1, <2>1, FS_EmptySet
      <3>2. QED
        BY <3>1
    <2>2. QED
      BY <2>1
  <1>3. ASSUME NEW n \in Nat, To(n) PROVE To(n + 1)
    <2>1. PICK f : \A s \in SUBSET S : Cardinality(s) <= n => f[s] = Rec(f, s)
      BY <1>3
    <2> DEFINE g == [s \in SUBSET S |-> Rec(f, s)]
    <2>2. ASSUME NEW s \in SUBSET S, Cardinality(s) <= n + 1
          PROVE  g[s] = Rec(g, s)
      <3>1. g[s] = Rec(f, s)
        OBVIOUS
      <3>2. CASE s = {}
        BY <3>1, <3>2
      <3>3. CASE s # {}
        <4>1. L(s) \in s
          BY <3>3, LatestIsDue
        <4> HIDE DEF L
        <4>2. s \ {L(s)} \in SUBSET S /\ Cardinality(s \ {L(s)}) <= n
          BY <1>1, <2>2, <4>1, FS_RemoveElement
        <4>3. f[s \ {L(s)}] = Rec(f, s \ {L(s)})
          BY <2>1, <4>2
        <4>4. g[s \ {L(s)}] = Rec(f, s \ {L(s)})
          BY <4>2
        <4>5. g[s \ {L(s)}] = f[s \ {L(s)}]
          BY <4>3, <4>4
        <4> HIDE DEF g
        <4>6. QED
          BY <3>1, <3>3, <4>5
      <3>4. QED
        BY <3>2, <3>3
    <2> HIDE DEF g, Rec
    <2>3. QED
      BY <2>2
  <1> HIDE DEF To
  <1>4. Missed = {}
    <2> SUFFICES ASSUME Missed # {} PROVE FALSE
      OBVIOUS
    <2>1. PICK n \in Missed : \A m \in Missed : ~(m < n)
      BY LeastNatural
    <2>2. n \in Nat /\ n # 0
      BY <1>2
    <2>3. n - 1 \in Nat /\ n - 1 < n /\ (n - 1) + 1 = n
      BY <2>2
    <2>4. To(n - 1)
      BY <2>1, <2>3
    <2>5. To(n)
      BY <1>3, <2>3, <2>4
    <2>6. QED
      BY <2>5
  <1>5. To(Cardinality(S))
    BY <1>1, <1>4
  <1>6. PICK f : \A s \in SUBSET S : Cardinality(s) <= Cardinality(S) => f[s] = Rec(f, s)
    BY <1>5 DEF To
  <1> DEFINE g == [s \in SUBSET S |-> Rec(f, s)]
  <1>7. ASSUME NEW s \in SUBSET S PROVE g[s] = f[s]
    BY <1>6, FS_Subset
  <1>8. ASSUME NEW s \in SUBSET S PROVE Rec(f, s) = Rec(g, s)
    <2>1. CASE s = {}
      BY <2>1
    <2>2. CASE s # {}
      <3>1. s \ {L(s)} \in SUBSET S
        OBVIOUS
      <3> HIDE DEF L, g
      <3>2. g[s \ {L(s)}] = f[s \ {L(s)}]
        BY <1>7, <3>1
      <3>3. QED
        BY <2>2, <3>2
    <2>3. QED
      BY <2>1, <2>2
  <1>9. g = [s \in SUBSET S |-> Rec(g, s)]
    <2>1. \A s \in SUBSET S : Rec(f, s) = Rec(g, s)
      BY <1>8
    <2> DEFINE h == [s \in SUBSET S |-> Rec(g, s)]
    <2> HIDE DEF Rec
    <2>2. \A s \in SUBSET S : g[s] = h[s]
      <3>1. \A s \in SUBSET S : g[s] = Rec(f, s) /\ h[s] = Rec(g, s)
        OBVIOUS
      <3>2. QED
        BY <2>1, <3>1
    <2>3. DOMAIN g = SUBSET S /\ DOMAIN h = SUBSET S
      OBVIOUS
    <2>4. g = [s \in SUBSET S |-> g[s]] /\ h = [s \in SUBSET S |-> h[s]]
      OBVIOUS
    <2> HIDE DEF g, h
    <2>5. g = h
      BY <2>2, <2>4
    <2>6. QED
      BY <2>5 DEF h
  <1>10. QED
    BY <1>9 DEF Reception

LEMMA ReceivedAtOnce ==
  ASSUME NEW base, NEW queue,
         IsFiniteSet(Due(queue, now)), Signings(Due(queue, now))
  PROVE  \E f : /\ Reception(f, base, Due(queue, now))
                /\ ReceiveDue(ReceiveCallback, base, queue, now) = f[Due(queue, now)]
  <1> DEFINE S == Due(queue, now)
             f == CHOOSE g : Reception(g, base, S)
  <1>1. Reception(f, base, S)
    BY ReceptionExists
  <1>2. ReceiveDue(ReceiveCallback, base, queue, now) = f[S]
    BY DEF ReceiveDue, MapThenFoldSet, Reception
  <1>3. QED
    BY <1>1, <1>2

(* A drain hears what is due, and the clock times out what is not decided. *)
Queued(k) ==
  /\ DOMAIN k.queue = {"pending", "order"} /\ k.queue.order \in Nat
  /\ IsFiniteSet(k.queue.pending) /\ \A d \in k.queue.pending : Tells(k.timelines, d)

LEMMA ReceptionKeeps ==
  ASSUME now \in Int, NEW base, Promised(base.timelines), Follows(base, now),
         NEW S, IsFiniteSet(S), \A d \in S : Tells(base.timelines, d) /\ d.at <= now,
         NEW f, Reception(f, base, S)
  PROVE  Follows(f[S], now) /\ Stays(base, f[S])
  <1> DEFINE Good == {s \in SUBSET S : Follows(f[s], now) /\ Stays(base, f[s])}
             L(s) == Latest(s)
  <1>0. Signings(S)
    BY DEF Signings, Tells
  <1>1. ASSUME NEW s \in SUBSET S, \A r \in SUBSET s : r # s => r \in Good
        PROVE  s \in Good
    <2>1. CASE s = {}
      <3>1. f[s] = base
        BY <2>1 DEF Reception
      <3>2. QED
        BY <3>1 DEF Stays
    <2>2. CASE s # {}
      <3> DEFINE d == L(s)
                 was == f[s \ {d}]
      <3>1. d \in s
        BY <1>0, <2>2, LatestIsDue
      <3>2. f[s] = CHOOSE r \in {ReceiveCallback(x, d) : x \in {was}} : TRUE
        BY <2>2 DEF Reception
      <3>3. s \ {d} \in Good
        BY <1>1, <3>1
      <3>4. Follows(was, now) /\ Stays(base, was)
        BY <3>3
      <3> HIDE DEF d, was, Good
      <3>5. f[s] = ReceiveCallback(was, d)
        BY <3>2
      <3>6. was.timelines = base.timelines
        BY <3>4 DEF Stays
      <3>7. Tells(was.timelines, d) /\ d.at <= now /\ Promised(was.timelines)
        BY <3>1, <3>6
      <3>8. Follows(f[s], now) /\ Stays(was, f[s])
        BY <3>4, <3>5, <3>7, ReceiveKeeps
      <3>9. Stays(base, f[s])
        BY <3>4, <3>8 DEF Stays
      <3>10. QED
        BY <3>8, <3>9 DEF Good
    <2>3. QED
      BY <2>1, <2>2
  <1> HIDE DEF Good
  <1>2. SUBSET S \subseteq Good
    BY <1>1, SubsetInduction
  <1>3. QED
    BY <1>2 DEF Good

LEMMA TimeOutKeeps ==
  ASSUME NEW k, Follows(k, now), NEW m,
         m = TimeOut(k, Inbox!Expired(k.inbox, now))
  PROVE  Follows(m, now) /\ Stays(k, m)
  <1> DEFINE box == Inbox!Expired(k.inbox, now)
             newly == {r \in DOMAIN box.subjects :
                         box.subjects[r].timedOut /\ ~k.inbox.subjects[r].timedOut}
             told == [s \in Applicants |->
                        IF k.records[s].application \in newly
                        THEN [k.records[s] EXCEPT !.lastState = "timed_out"] ELSE k.records[s]]
  <1>1. DOMAIN box = DOMAIN k.inbox /\ DOMAIN box.subjects = DOMAIN k.inbox.subjects
    BY DEF Inbox!Expired, Follows, Shaped
  <1>2. ASSUME NEW r \in k.index
        PROVE  LET x == k.inbox.subjects[r]
                   y == box.subjects[r]
               IN  /\ Hears(k.timelines, now, r, y)
                   /\ y.status = x.status /\ (x.timedOut => y.timedOut)
                   /\ y.timedOut \in BOOLEAN /\ x.timedOut \in BOOLEAN
    <2> DEFINE x == k.inbox.subjects[r]
               y == box.subjects[r]
    <2>1. Hears(k.timelines, now, r, x) /\ r \in DOMAIN k.inbox.subjects
      BY DEF Follows
    <2>2. y = x \/ y = [x EXCEPT !.timedOut = TRUE]
      BY <2>1 DEF Inbox!Expired, Follows, Shaped
    <2> HIDE DEF x, y
    <2>3. QED
      BY <2>1, <2>2 DEF Hears, SubjectFields, x, y
  <1>3. m = [k EXCEPT !.inbox = box, !.records = told]
    BY DEF TimeOut
  <1>4. ASSUME NEW s \in Applicants
        PROVE  /\ DOMAIN told[s] = RecordFields /\ told[s].attempt = k.records[s].attempt
               /\ told[s].application = k.records[s].application
               /\ told[s].lastState = IF k.records[s].application \in newly THEN "timed_out"
                                      ELSE k.records[s].lastState
    BY DEF Follows, Shaped, RecordFields
  <1>5. DOMAIN told = Applicants
    OBVIOUS
  <1>n. \A r \in k.index : r \in newly <=> box.subjects[r].timedOut /\ ~k.inbox.subjects[r].timedOut
    BY <1>1 DEF Follows
  <1> HIDE DEF box, newly, told
  <1>6. /\ DOMAIN m = ServiceFields /\ m.inbox = box /\ m.records = told
        /\ m.timelines = k.timelines /\ m.queue = k.queue /\ m.index = k.index
    BY <1>3 DEF Follows, Shaped, ServiceFields
  <1>7. ASSUME NEW s \in Applicants PROVE Belongs(m, s)
    <2> DEFINE ref == Application(k, s)
    <2>1. Belongs(k, s) /\ Application(m, s) = ref /\ m.records[s].attempt = k.records[s].attempt
      BY <1>4, <1>6 DEF Follows, Application
    <2>2. SUFFICES ASSUME ref # Absent PROVE m.records[s].lastState = StateOf(m, ref)
      BY <1>6, <2>1 DEF Belongs
    <2>3. ref \in k.index /\ k.records[s].lastState = StateOf(k, ref)
      BY <2>1, <2>2 DEF Belongs
    <2>4. m.records[s].lastState = IF ref \in newly THEN "timed_out" ELSE k.records[s].lastState
      BY <1>4, <1>6 DEF Application
    <2> HIDE DEF ref
    <2>5. ref \in DOMAIN k.inbox.subjects /\ ref \in DOMAIN box.subjects
      BY <1>1, <2>3 DEF Follows
    <2>6. /\ StateOf(k, ref) = (IF k.inbox.subjects[ref].timedOut THEN "timed_out"
                                    ELSE k.inbox.subjects[ref].status)
          /\ StateOf(m, ref) = (IF box.subjects[ref].timedOut THEN "timed_out"
                                    ELSE box.subjects[ref].status)
      BY <1>6, <2>5 DEF StateOf
    <2>7. QED
      BY <1>2, <1>n, <2>3, <2>4, <2>6
  <1>8. QED
    BY <1>1, <1>2, <1>4, <1>5, <1>6, <1>7 DEF Follows, Stays, Shaped, Application

(* The service in step with its provider.                                  *)
InStep(k) == Promised(k.timelines) /\ Queued(k) /\ Follows(k, now)

LEMMA SyncKeeps ==
  ASSUME now \in Int, NEW k, InStep(k), NEW m, m = Sync(k)
  PROVE  /\ InStep(m) /\ m.timelines = k.timelines
         /\ \A s \in Applicants : /\ m.records[s].attempt = k.records[s].attempt
                                  /\ Application(m, s) = Application(k, s)
  <1> DEFINE S == Due(k.queue, now)
             base == [k EXCEPT !.queue = Drained(@, now)]
             last == ReceiveDue(ReceiveCallback, base, k.queue, now)
  <1>1. S \subseteq k.queue.pending /\ \A d \in S : d.at <= now
    BY DEF Due
  <1>2. IsFiniteSet(S) /\ \A d \in S : Tells(k.timelines, d)
    BY <1>1, FS_Subset DEF InStep, Queued
  <1>3. Signings(S)
    BY <1>2 DEF Signings, Tells
  <1>4. m = TimeOut(last, Inbox!Expired(last.inbox, now))
    <2> DEFINE out == TimeOut(last, Inbox!Expired(last.inbox, now))
    <2>1. m = CHOOSE left \in {TimeOut(r, Inbox!Expired(r.inbox, now)) : r \in {last}} : TRUE
      BY DEF Sync
    <2> HIDE DEF last
    <2>2. {TimeOut(r, Inbox!Expired(r.inbox, now)) : r \in {last}} = {out}
      OBVIOUS
    <2> HIDE DEF out
    <2>3. QED
      BY <2>1, <2>2 DEF out
  <1>5. /\ base.timelines = k.timelines /\ base.index = k.index /\ base.records = k.records
        /\ base.inbox = k.inbox /\ DOMAIN base = ServiceFields
        /\ base.queue = Drained(k.queue, now)
    BY DEF InStep, Follows, Shaped, ServiceFields
  <1>6. PICK f : Reception(f, base, S) /\ last = f[S]
    BY <1>2, <1>3, ReceivedAtOnce
  <1> HIDE DEF base, last, S
  <1>7. Follows(base, now) /\ Promised(base.timelines)
    <2>1. \A s \in Applicants : Belongs(base, s)
      BY <1>5, BelongsStays DEF InStep, Follows
    <2>2. Shaped(base)
      BY <1>5 DEF InStep, Follows, Shaped
    <2>3. QED
      BY <1>5, <2>1, <2>2 DEF InStep, Follows
  <1>8. Follows(last, now) /\ Stays(base, last)
    BY <1>1, <1>2, <1>5, <1>6, <1>7, ReceptionKeeps
  <1>9. Follows(m, now) /\ Stays(last, m)
    BY <1>4, <1>8, TimeOutKeeps
  <1>10. Stays(base, m)
    BY <1>8, <1>9 DEF Stays
  <1>11. Queued(m)
    <2>1. m.queue = Drained(k.queue, now) /\ m.timelines = k.timelines
      BY <1>5, <1>10 DEF Stays
    <2>2. /\ DOMAIN m.queue = {"pending", "order"} /\ m.queue.order = k.queue.order
          /\ m.queue.pending = k.queue.pending \ S
      BY <2>1 DEF Drained, InStep, Queued, S
    <2>3. IsFiniteSet(m.queue.pending)
      BY <2>2, FS_Subset DEF InStep, Queued
    <2>4. QED
      BY <2>1, <2>2, <2>3 DEF InStep, Queued
  <1>12. QED
    BY <1>5, <1>7, <1>9, <1>10, <1>11 DEF InStep, Stays, Application
-----------------------------------------------------------------------------
(* What the simulator sends of a timeline repeats its events, no earlier.  *)
Told(E, e) ==
  \E n \in DOMAIN E : e.payload = E[n].payload /\ E[n].at <= e.at /\ e.at \in Int

LEMMA PairSent ==
  ASSUME NEW a, NEW b, DOMAIN a = {"at", "payload"}, DOMAIN b = {"at", "payload"},
         a.at \in Int, b.at \in Int, NEW mode, NEW delay \in Nat,
         mode = "out_of_order" => a.at <= b.at,
         NEW E, E = <<a, b>>, NEW sent, sent = Timeline(E, mode, delay)
  PROVE  Len(sent) \in Nat /\ DOMAIN sent = 1 .. Len(sent) /\ \A i \in DOMAIN sent : Told(E, sent[i])
  <1>1. Len(E) = 2 /\ E[1] = a /\ E[2] = b /\ DOMAIN E = 1 .. 2
    OBVIOUS
  <1>2. /\ Told(E, a) /\ Told(E, b)
        /\ Told(E, [b EXCEPT !.at = b.at + delay])
        /\ mode = "out_of_order" => Told(E, [a EXCEPT !.at = b.at + delay])
    <2>1. ASSUME NEW e \in {a, b}, NEW at \in Int PROVE [e EXCEPT !.at = at].at = at /\ [e EXCEPT !.at = at].payload = e.payload
      OBVIOUS
    <2>2. b.at + delay \in Int /\ b.at <= b.at + delay /\ (a.at <= b.at => a.at <= b.at + delay)
      OBVIOUS
    <2>3. QED
      BY <1>1, <2>1, <2>2 DEF Told
  <1>3. CASE mode = "none"
    <2>1. sent = << >>
      BY <1>3 DEF Timeline
    <2>2. sent \in Seq({}) /\ Len(sent) = 0
      BY <2>1
    <2>3. QED
      BY <2>2
  <1>4. CASE mode = "duplicate"
    <2> DEFINE c == [b EXCEPT !.at = b.at + delay]
    <2>1. sent = Append(E, c)
      BY <1>1, <1>4 DEF Timeline
    <2> HIDE DEF c
    <2>2. sent = <<a, b, c>>
      BY <2>1
    <2>3. Len(sent) = 3 /\ DOMAIN sent = 1 .. 3 /\ sent[1] = a /\ sent[2] = b /\ sent[3] = c
      BY <2>2
    <2>4. QED
      BY <1>2, <2>3 DEF c
  <1>5. CASE mode = "out_of_order"
    <2> DEFINE c == [a EXCEPT !.at = b.at + delay]
    <2>1. sent = SubSeq(E, 1, 0) \o <<b, c>>
      BY <1>1, <1>5 DEF Timeline
    <2> HIDE DEF c
    <2>2. SubSeq(E, 1, 0) = << >>
      OBVIOUS
    <2>3. sent = <<b, c>>
      BY <2>1, <2>2
    <2>4. Len(sent) = 2 /\ DOMAIN sent = 1 .. 2 /\ sent[1] = b /\ sent[2] = c
      BY <2>3
    <2>5. Told(E, b) /\ Told(E, c)
      BY <1>2, <1>5 DEF c
    <2>6. QED
      BY <2>4, <2>5
  <1>6. CASE mode \notin {"none", "duplicate", "out_of_order"}
    <2>1. sent = E
      BY <1>6 DEF Timeline
    <2>2. QED
      BY <1>1, <1>2, <2>1
  <1>7. QED
    BY <1>3, <1>4, <1>5, <1>6

LEMMA OneSent ==
  ASSUME NEW a, DOMAIN a = {"at", "payload"}, a.at \in Int, NEW mode, NEW delay \in Nat,
         NEW E, E = <<a>>, NEW sent, sent = Timeline(E, mode, delay)
  PROVE  Len(sent) \in Nat /\ DOMAIN sent = 1 .. Len(sent) /\ \A i \in DOMAIN sent : Told(E, sent[i])
  <1>1. Len(E) = 1 /\ E[1] = a /\ DOMAIN E = 1 .. 1
    OBVIOUS
  <1> DEFINE c == [a EXCEPT !.at = a.at + delay]
  <1>2. c.at = a.at + delay /\ c.payload = a.payload
    OBVIOUS
  <1>3. sent \in {<< >>, Append(E, c), E}
    BY <1>1 DEF Timeline
  <1> HIDE DEF c
  <1>4. Told(E, a) /\ Told(E, c)
    BY <1>1, <1>2 DEF Told
  <1>5. CASE sent = << >>
    <2>1. sent \in Seq({}) /\ Len(sent) = 0
      BY <1>5
    <2>2. QED
      BY <2>1
  <1>6. CASE sent = E
    BY <1>1, <1>4, <1>6
  <1>7. CASE sent = Append(E, c)
    <2>1. sent = <<a, c>>
      BY <1>7
    <2>2. Len(sent) = 2 /\ DOMAIN sent = 1 .. 2 /\ sent[1] = a /\ sent[2] = c
      BY <2>1
    <2>3. QED
      BY <1>4, <2>2
  <1>8. QED
    BY <1>3, <1>5, <1>6, <1>7

LEMMA Joined == ASSUME NEW a, NEW b PROVE <<a>> \o <<b>> = <<a, b>>
  <1> DEFINE s == <<a>> \o <<b>>
             t == <<a, b>>
  <1>1. <<a>> \in Seq({a, b}) /\ <<b>> \in Seq({a, b}) /\ t \in Seq({a, b})
    OBVIOUS
  <1>2. Len(<<a>>) = 1 /\ Len(<<b>>) = 1 /\ Len(t) = 2
    OBVIOUS
  <1>3. s \in Seq({a, b}) /\ Len(s) = 2 /\ s[1] = a /\ s[2] = b
    BY <1>1, <1>2
  <1>4. t[1] = a /\ t[2] = b
    OBVIOUS
  <1> HIDE DEF s, t
  <1>5. \A i \in 1 .. Len(s) : s[i] = t[i]
    BY <1>3, <1>4
  <1>6. QED
    BY <1>1, <1>2, <1>3, <1>5, SeqEqual DEF s, t

(* The events of a new application, and what is sent of them.              *)
LEMMA EventsSent ==
  ASSUME now \in Nat, OnboardingConstants, NEW r, NEW delay \in DecisionDelays,
         NEW E, E = Events(r, delay),
         NEW sent, sent = Timeline(E, DeliveryMode, ReorderDelay)
  PROVE  /\ DOMAIN E \subseteq {1, 2}
         /\ \A n \in DOMAIN E : E[n].at \in Int /\ E[n].payload.ref = r /\ E[n].payload.sequence = n
         /\ Len(sent) \in Nat /\ DOMAIN sent = 1 .. Len(sent)
         /\ \A i \in DOMAIN sent : Told(E, sent[i])
  <1> DEFINE outcome == KycScenarios[scenario].outcome
             told(n, status) == [ref |-> r, event |-> <<r, n>>, sequence |-> n, status |-> status]
             reviewAt == now + ReviewDelay
             at == IF scenario = "late_callback" THEN now + ReviewTimeout + LateDelay
                   ELSE reviewAt + delay
             a == [at |-> reviewAt, payload |-> told(1, "in_review")]
             b == [at |-> at, payload |-> told(2, outcome)]
  <1>1. {ReviewDelay, ReviewTimeout, LateDelay, ReorderDelay, delay} \subseteq Nat
    BY DEF OnboardingConstants
  <1>2. E = <<a>> \o IF outcome = Absent THEN << >> ELSE <<b>>
    BY DEF Events
  <1>3. DeliveryMode = "out_of_order" => scenario # "late_callback"
    BY DEF DeliveryMode, KycScenarios
  <1>4. /\ reviewAt \in Int /\ at \in Int
        /\ DeliveryMode = "out_of_order" => reviewAt <= at
    BY <1>1, <1>3
  <1>5. /\ DOMAIN a = {"at", "payload"} /\ DOMAIN b = {"at", "payload"}
        /\ a.at = reviewAt /\ b.at = at
        /\ a.payload.ref = r /\ a.payload.sequence = 1
        /\ b.payload.ref = r /\ b.payload.sequence = 2
    OBVIOUS
  <1> DEFINE mode == DeliveryMode
  <1> HIDE DEF outcome, at, reviewAt, told, a, b, mode
  <1>6. CASE outcome = Absent
    <2>1. E = <<a>>
      BY <1>2, <1>6
    <2>2. Len(sent) \in Nat /\ DOMAIN sent = 1 .. Len(sent) /\ \A i \in DOMAIN sent : Told(E, sent[i])
      BY <1>1, <1>4, <1>5, <2>1, OneSent DEF mode
    <2>3. QED
      BY <1>4, <1>5, <2>1, <2>2
  <1>7. CASE outcome # Absent
    <2>1. E = <<a, b>>
      <3>1. E = <<a>> \o <<b>>
        BY <1>2, <1>7
      <3>2. QED
        BY <3>1, Joined
    <2>2. Len(sent) \in Nat /\ DOMAIN sent = 1 .. Len(sent) /\ \A i \in DOMAIN sent : Told(E, sent[i])
      BY <1>1, <1>4, <1>5, <2>1, PairSent DEF mode
    <2>3. QED
      BY <1>4, <1>5, <2>1, <2>2
  <1>8. QED
    BY <1>6, <1>7
-----------------------------------------------------------------------------
LEMMA LaterHears ==
  ASSUME NEW T, NEW U, NEW r, U[r] = T[r], Promised(T), r \in DOMAIN T,
         NEW t \in Int, NEW u \in Int, t <= u, NEW x, Hears(T, t, r, x)
  PROVE  Hears(U, u, r, x)
  <1>1. ASSUME NEW n, NEW status, Heard(T, t, r, n, status) PROVE Heard(U, u, r, n, status)
    <2>1. T[r].events[n].at \in Int
      BY <1>1 DEF Promised, Heard
    <2>2. QED
      BY <1>1, <2>1 DEF Heard
  <1>2. QED
    BY <1>1 DEF Hears

Numbered(E, r) == \A n \in DOMAIN E : E[n].payload.ref = r /\ E[n].payload.sequence = n

SentOf(E, sent) ==
  Len(sent) \in Nat /\ DOMAIN sent = 1 .. Len(sent) /\ \A i \in DOMAIN sent : Told(E, sent[i])

Waiting(q, T) ==
  q.order \in Nat /\ IsFiniteSet(q.pending) /\ \A d \in q.pending : Tells(T, d)

(* The queue with the deliveries of one more timeline.                     *)
LEMMA ScheduleKeeps ==
  ASSUME NEW T, NEW r, NEW E, r \in DOMAIN T, T[r].events = E,
         Numbered(E, r), NEW mode, NEW delay,
         NEW sent, sent = Timeline(E, mode, delay), SentOf(E, sent),
         NEW q, Waiting(q, T), NEW more, more = ScheduleTimeline(q, E, mode, delay)
  PROVE  DOMAIN more = {"pending", "order"} /\ Waiting(more, T)
  <1>0. /\ \A n \in DOMAIN E : E[n].payload.ref = r /\ E[n].payload.sequence = n
        /\ Len(sent) \in Nat /\ DOMAIN sent = 1 .. Len(sent)
        /\ \A i \in DOMAIN sent : Told(E, sent[i])
        /\ q.order \in Nat /\ IsFiniteSet(q.pending) /\ \A d \in q.pending : Tells(T, d)
    BY DEF Numbered, SentOf, Waiting
  <1> DEFINE new == {Signed(sent[i], q.order + i - 1) : i \in DOMAIN sent}
  <1>1. more = [pending |-> q.pending \cup new, order |-> q.order + Len(sent)]
    BY DEF ScheduleTimeline
  <1>2. IsFiniteSet(DOMAIN sent)
    BY <1>0, FS_Interval
  <1>3. IsFiniteSet(new)
    <2> DEFINE f == [i \in DOMAIN sent |-> Signed(sent[i], q.order + i - 1)]
    <2>1. f \in Surjection(DOMAIN sent, new)
      BY DEF Surjection
    <2>2. QED
      BY <1>2, <2>1, FS_Surjection
  <1>4. ASSUME NEW i \in DOMAIN sent PROVE Tells(T, Signed(sent[i], q.order + i - 1))
    <2> DEFINE e == sent[i]
               nonce == q.order + i - 1
               d == Signed(e, nonce)
    <2>1. d.at = e.at /\ d.nonce = nonce /\ d.payload = e.payload /\ nonce \in Int
      BY <1>0 DEF Signed
    <2>2. PICK n \in DOMAIN E : e.payload = E[n].payload /\ E[n].at <= e.at /\ e.at \in Int
      BY <1>0 DEF Told
    <2> HIDE DEF d, e, nonce
    <2>3. /\ d.payload.ref = r /\ d.payload.sequence = n
          /\ d.payload.status = E[n].payload.status /\ d.at \in Int /\ E[n].at <= d.at
      BY <1>0, <2>1, <2>2
    <2>4. Tells(T, d)
      BY <2>1, <2>2, <2>3 DEF Tells
    <2>5. QED
      BY <2>4 DEF d, e, nonce
  <1>5. \A d \in new : Tells(T, d)
    BY <1>4
  <1> HIDE DEF new
  <1>6. IsFiniteSet(q.pending \cup new)
    BY <1>0, <1>3, FS_Union
  <1>7. QED
    BY <1>0, <1>1, <1>5, <1>6 DEF Waiting

LEMMA SubmitKeeps ==
  ASSUME now \in Nat, OnboardingConstants, NEW k, InStep(k), NEW r \in References,
         NEW delay \in DecisionDelays, NEW m, m = SubmitApplicant(k, r, delay)
  PROVE  /\ InStep(m) /\ m.records = k.records /\ r \in DOMAIN m.timelines
         /\ m.inbox = k.inbox
         /\ \A q \in DOMAIN k.timelines : /\ q \in DOMAIN m.timelines
                                          /\ m.timelines[q] = k.timelines[q]
  <1>1. CASE r \in DOMAIN k.timelines
    <2>1. m = k
      BY <1>1 DEF SubmitApplicant
    <2>2. QED
      BY <1>1, <2>1
  <1>2. CASE r \notin DOMAIN k.timelines
    <2>1. PICK E : E = Events(r, delay)
      OBVIOUS
    <2>2. PICK sent : sent = Timeline(E, DeliveryMode, ReorderDelay)
      OBVIOUS
    <2>3. /\ DOMAIN E \subseteq {1, 2}
          /\ \A n \in DOMAIN E : E[n].at \in Int /\ E[n].payload.ref = r /\ E[n].payload.sequence = n
          /\ Len(sent) \in Nat /\ DOMAIN sent = 1 .. Len(sent)
          /\ \A i \in DOMAIN sent : Told(E, sent[i])
      BY <2>1, <2>2, EventsSent
    <2> DEFINE new == [events |-> E, deadline |-> now + ReviewTimeout]
               T == [q \in DOMAIN k.timelines \cup {r} |-> IF q = r THEN new ELSE k.timelines[q]]
               queue == ScheduleTimeline(k.queue, E, DeliveryMode, ReorderDelay)
    <2>4. m = [k EXCEPT !.timelines = T, !.queue = queue]
      BY <1>2, <2>1 DEF SubmitApplicant
    <2>5. DOMAIN T = DOMAIN k.timelines \cup {r} /\ T[r] = new
          /\ \A q \in DOMAIN k.timelines : T[q] = k.timelines[q]
      BY <1>2
    <2>6. new.events = E /\ new.deadline \in Int
      BY DEF OnboardingConstants
    <2> HIDE DEF T, queue, new
    <2>7. /\ DOMAIN m = ServiceFields /\ m.timelines = T /\ m.queue = queue
          /\ m.inbox = k.inbox /\ m.records = k.records /\ m.index = k.index
      BY <2>4 DEF InStep, Follows, Shaped, ServiceFields
    <2>8. Promised(T)
      BY <2>3, <2>5, <2>6 DEF Promised, InStep
    <2>9. Queued(m)
      <3>1. ASSUME NEW d \in k.queue.pending PROVE Tells(T, d)
        <4>1. Tells(k.timelines, d)
          BY DEF InStep, Queued
        <4>2. T[d.payload.ref] = k.timelines[d.payload.ref] /\ d.payload.ref \in DOMAIN T
          BY <2>5, <4>1 DEF Tells
        <4>3. QED
          BY <4>1, <4>2 DEF Tells
      <3> DEFINE q == k.queue
                 mode == DeliveryMode
      <3>2. Waiting(q, T)
        BY <3>1 DEF InStep, Queued, Waiting
      <3>3. /\ r \in DOMAIN T /\ T[r].events = E /\ Numbered(E, r) /\ SentOf(E, sent)
            /\ sent = Timeline(E, mode, ReorderDelay)
            /\ queue = ScheduleTimeline(q, E, mode, ReorderDelay)
        BY <2>2, <2>3, <2>5, <2>6 DEF queue, Numbered, SentOf
      <3> HIDE DEF q, mode
      <3>4. DOMAIN queue = {"pending", "order"} /\ Waiting(queue, T)
        BY <3>2, <3>3, ScheduleKeeps
      <3>5. QED
        BY <2>7, <3>4 DEF Queued, Waiting
    <2>10. Follows(m, now)
      <3>1. ASSUME NEW q \in k.index PROVE Hears(T, now, q, k.inbox.subjects[q])
        <4>1. q \in DOMAIN k.timelines /\ Hears(k.timelines, now, q, k.inbox.subjects[q])
          BY DEF InStep, Follows
        <4>2. T[q] = k.timelines[q] /\ Promised(k.timelines) /\ now \in Int
          BY <2>5, <4>1 DEF InStep
        <4> DEFINE x == k.inbox.subjects[q]
                   was == k.timelines
        <4> HIDE DEF x, was
        <4>3. Hears(T, now, q, x)
          BY <4>1, <4>2, LaterHears DEF x, was
        <4>4. QED
          BY <4>3 DEF x
      <3>2. Shaped(m) /\ m.index = DOMAIN m.inbox.subjects /\ m.index \subseteq DOMAIN m.timelines
        BY <2>5, <2>7 DEF InStep, Follows, Shaped
      <3>3. \A s \in Applicants : Belongs(m, s)
        BY <2>7, BelongsStays DEF InStep, Follows
      <3>4. QED
        BY <2>7, <3>1, <3>2, <3>3 DEF Follows
    <2>11. QED
      BY <2>5, <2>7, <2>8, <2>9, <2>10 DEF InStep
  <1>3. QED
    BY <1>1, <1>2
-----------------------------------------------------------------------------
(* One record of the service is written anew.                              *)
LEMMA RecordKept ==
  ASSUME NEW k, Shaped(k), NEW s \in Applicants, NEW record, DOMAIN record = RecordFields,
         NEW m, DOMAIN m = ServiceFields, m.records = [k.records EXCEPT ![s] = record],
         DOMAIN m.inbox = {"subjects", "events"}
  PROVE  /\ Shaped(m) /\ m.records[s] = record
         /\ \A q \in Applicants \ {s} : m.records[q] = k.records[q]
  <1>1. DOMAIN k.records = Applicants
    BY DEF Shaped
  <1>2. DOMAIN m.records = Applicants
    BY <1>1
  <1>3. m.records[s] = record /\ \A q \in Applicants \ {s} : m.records[q] = k.records[q]
    BY <1>1
  <1>4. \A q \in Applicants : DOMAIN m.records[q] = RecordFields
    BY <1>3 DEF Shaped
  <1>5. QED
    BY <1>2, <1>3, <1>4 DEF Shaped

(* An outage reaches a subject that has no application.                    *)
Unavailable(k, s) ==
  [k EXCEPT !.records[s].unavailable = TRUE, !.records[s].lastState = "unavailable"]

LEMMA UnavailableKeeps ==
  ASSUME NEW k, InStep(k), NEW s \in Applicants, Application(k, s) = Absent,
         NEW m, m = Unavailable(k, s)
  PROVE  /\ InStep(m) /\ m.timelines = k.timelines
         /\ \A q \in Applicants : Application(m, q) = Application(k, q)
  <1> DEFINE record == [k.records[s] EXCEPT !.unavailable = TRUE, !.lastState = "unavailable"]
  <1>0. Shaped(k) /\ DOMAIN k = ServiceFields /\ DOMAIN k.records = Applicants
        /\ DOMAIN k.records[s] = RecordFields
    BY DEF InStep, Follows, Shaped
  <1>1. /\ DOMAIN record = RecordFields /\ record.application = Absent
        /\ record.attempt = k.records[s].attempt
    BY <1>0 DEF RecordFields, Application
  <1>2. /\ DOMAIN m = ServiceFields /\ m.timelines = k.timelines /\ m.queue = k.queue
        /\ m.inbox = k.inbox /\ m.index = k.index
        /\ m.records = [k.records EXCEPT ![s] = record]
    BY <1>0 DEF Unavailable, ServiceFields
  <1> HIDE DEF record
  <1>3. /\ Shaped(m) /\ m.records[s] = record
        /\ \A q \in Applicants \ {s} : m.records[q] = k.records[q]
    <2>1. /\ m.records[s] = record /\ DOMAIN m.records = Applicants
          /\ \A q \in Applicants \ {s} : m.records[q] = k.records[q]
      BY <1>0, <1>2
    <2>2. \A q \in Applicants : DOMAIN m.records[q] = RecordFields
      BY <1>0, <1>1, <2>1 DEF Shaped
    <2>3. QED
      BY <1>0, <1>2, <2>1, <2>2 DEF Shaped
  <1>4. ASSUME NEW q \in Applicants PROVE Belongs(m, q) /\ Application(m, q) = Application(k, q)
    <2>1. Belongs(k, q)
      BY DEF InStep, Follows
    <2>2. CASE q = s
      BY <1>1, <1>3, <2>1, <2>2 DEF Belongs, Application
    <2>3. CASE q # s
      BY <1>2, <1>3, <2>1, <2>3 DEF Belongs, Application, StateOf
    <2>4. QED
      BY <2>2, <2>3
  <1>5. QED
    BY <1>2, <1>3, <1>4 DEF InStep, Queued, Follows

(* A new application opens at its provider's deadline.                     *)
LEMMA OpenedKeeps ==
  ASSUME now \in Int, NEW k, InStep(k), NEW s \in Applicants, NEW r \in DOMAIN k.timelines,
         r[1] = s, r \notin DOMAIN k.inbox.subjects, NEW m, m = OpenedFor(k, s, r)
  PROVE  InStep(m) /\ m.timelines = k.timelines
         /\ \A q \in Applicants \ {s} : Application(m, q) = Application(k, q)
  <1> DEFINE record == [k.records[s] EXCEPT !.application = r, !.unavailable = FALSE,
                                            !.lastState = "submitted"]
             box == Inbox!Opened(k.inbox, r, k.timelines[r].deadline)
             x == box.subjects[r]
  <1>0. /\ Shaped(k) /\ DOMAIN k = ServiceFields /\ DOMAIN k.records = Applicants
        /\ DOMAIN k.records[s] = RecordFields /\ DOMAIN k.inbox = {"subjects", "events"}
        /\ k.index = DOMAIN k.inbox.subjects /\ k.index \subseteq DOMAIN k.timelines
    BY DEF InStep, Follows, Shaped
  <1>1. /\ DOMAIN record = RecordFields /\ record.application = r
        /\ record.attempt = k.records[s].attempt /\ record.lastState = "submitted"
    BY <1>0 DEF RecordFields
  <1>2. /\ DOMAIN box = {"subjects", "events"} /\ DOMAIN box.subjects = DOMAIN k.inbox.subjects \cup {r}
        /\ \A q \in DOMAIN k.inbox.subjects : box.subjects[q] = k.inbox.subjects[q]
    BY <1>0 DEF Inbox!Opened, Inbox!Mapped
  <1>3. x = [status |-> "submitted", sequence |-> 0, deadline |-> k.timelines[r].deadline,
             timedOut |-> FALSE, parked |-> << >>, applied |-> << >>, eventIds |-> {}, claims |-> {}]
    BY <1>0 DEF Inbox!Opened, Inbox!Mapped
  <1>4. DOMAIN << >> = {}
    OBVIOUS
  <1>5. Hears(k.timelines, now, r, x) /\ x.status = "submitted" /\ ~x.timedOut
    BY <1>3, <1>4 DEF Hears, SubjectFields
  <1>6. m = [k EXCEPT !.inbox = box, !.index = k.index \cup {r},
                      !.records = [k.records EXCEPT ![s] = record]]
    BY <1>0 DEF OpenedFor
  <1>7. /\ DOMAIN m = ServiceFields /\ m.timelines = k.timelines /\ m.queue = k.queue
        /\ m.inbox = box /\ m.index = k.index \cup {r}
        /\ m.records = [k.records EXCEPT ![s] = record]
    BY <1>0, <1>6 DEF ServiceFields
  <1> HIDE DEF record, box
  <1>8. /\ Shaped(m) /\ m.records[s] = record
        /\ \A q \in Applicants \ {s} : m.records[q] = k.records[q]
    BY <1>0, <1>1, <1>2, <1>7, RecordKept
  <1>9. ASSUME NEW q \in k.index PROVE StateOf(m, q) = StateOf(k, q) /\ q # r
    BY <1>0, <1>2, <1>7 DEF StateOf
  <1>10. StateOf(m, r) = "submitted"
    BY <1>2, <1>5, <1>7 DEF StateOf
  <1>11. ASSUME NEW q \in Applicants PROVE Belongs(m, q)
    <2>1. Belongs(k, q)
      BY DEF InStep, Follows
    <2>2. CASE q = s
      BY <1>1, <1>7, <1>8, <1>10, <2>1, <2>2 DEF Belongs, Application
    <2>3. CASE q # s
      BY <1>7, <1>8, <1>9, <2>1, <2>3 DEF Belongs, Application
    <2>4. QED
      BY <2>2, <2>3
  <1>12. \A q \in m.index : Hears(m.timelines, now, q, m.inbox.subjects[q])
    BY <1>0, <1>2, <1>5, <1>7 DEF InStep, Follows
  <1>13. QED
    BY <1>0, <1>2, <1>7, <1>8, <1>11, <1>12 DEF InStep, Queued, Follows, Application

(* A reset forgets the subject's application and nobody else's.            *)
LEMMA ResetKeeps ==
  ASSUME now \in Int, OnboardingConstants, NEW k, InStep(k), NEW s \in Applicants,
         k.records[s].attempt < MaxAttempts, NEW m, m = Reset(k, s)
  PROVE  /\ InStep(m) /\ m.timelines = k.timelines
         /\ \A q \in Applicants : Application(m, q) \in {Absent, Application(k, q)}
  <1> DEFINE record == [NoRecord EXCEPT !.attempt = k.records[s].attempt + 1]
             ref == Application(k, s)
             box == Inbox!Discarded(k.inbox, ref)
  <1>0. /\ Shaped(k) /\ DOMAIN k = ServiceFields /\ DOMAIN k.records = Applicants
        /\ DOMAIN k.inbox = {"subjects", "events"}
        /\ k.index = DOMAIN k.inbox.subjects /\ k.index \subseteq DOMAIN k.timelines
    BY DEF InStep, Follows, Shaped
  <1>1. DOMAIN record = RecordFields /\ record.application = Absent
        /\ record.attempt = k.records[s].attempt + 1
    BY DEF RecordFields, NoRecord
  <1>2. /\ DOMAIN box = {"subjects", "events"}
        /\ DOMAIN box.subjects = DOMAIN k.inbox.subjects \ {ref}
        /\ \A q \in DOMAIN k.inbox.subjects \ {ref} : box.subjects[q] = k.inbox.subjects[q]
    BY <1>0 DEF Inbox!Discarded, Inbox!Except
  <1>3. /\ DOMAIN m = ServiceFields /\ m.timelines = k.timelines /\ m.queue = k.queue
        /\ m.inbox = box /\ m.index = k.index \ {ref}
        /\ m.records = [k.records EXCEPT ![s] = record]
    BY <1>0 DEF Reset, ServiceFields
  <1> HIDE DEF record, box, ref
  <1>4. /\ Shaped(m) /\ m.records[s] = record
        /\ \A q \in Applicants \ {s} : m.records[q] = k.records[q]
    BY <1>0, <1>1, <1>2, <1>3, RecordKept
  <1>5. ASSUME NEW q \in Applicants
        PROVE  Belongs(m, q) /\ Application(m, q) \in {Absent, Application(k, q)}
    <2>1. Belongs(k, q) /\ Belongs(k, s)
      BY DEF InStep, Follows
    <2>2. MaxAttempts \in Nat
      BY DEF OnboardingConstants
    <2>3. CASE q = s
      <3>1. k.records[s].attempt + 1 \in 0 .. MaxAttempts
        BY <2>1, <2>2 DEF Belongs
      <3>2. QED
        BY <1>1, <1>4, <2>3, <3>1 DEF Belongs, Application
    <2>4. CASE q # s
      <3> DEFINE mine == Application(k, q)
      <3>1. Application(m, q) = mine /\ m.records[q] = k.records[q]
        BY <1>4, <2>4 DEF Application
      <3>2. ASSUME mine # Absent
            PROVE  mine \in m.index /\ mine[1] = q /\ k.records[q].lastState = StateOf(m, mine)
        <4>1. mine \in k.index /\ mine[1] = q /\ k.records[q].lastState = StateOf(k, mine)
          BY <2>1, <3>2 DEF Belongs
        <4>2. mine # ref
          <5>1. ref # Absent => ref[1] = s
            BY <2>1 DEF Belongs, ref
          <5>2. QED
            BY <2>4, <3>2, <4>1, <5>1
        <4>3. StateOf(m, mine) = StateOf(k, mine)
          BY <1>0, <1>2, <1>3, <4>1, <4>2 DEF StateOf
        <4>4. QED
          BY <1>3, <4>1, <4>2, <4>3
      <3>3. QED
        BY <2>1, <3>1, <3>2 DEF Belongs
    <2>5. QED
      BY <2>3, <2>4
  <1>6. \A q \in m.index : Hears(m.timelines, now, q, m.inbox.subjects[q])
    BY <1>0, <1>2, <1>3 DEF InStep, Follows
  <1>7. QED
    BY <1>0, <1>2, <1>3, <1>4, <1>5, <1>6 DEF InStep, Queued, Follows
-----------------------------------------------------------------------------
(* The provider said so of an application by a time, within its deadline.  *)
DecidedIn(T, t, r, status) == r \in DOMAIN T /\ \E n \in DOMAIN T[r].events : Heard(T, t, r, n, status)

Approved(T, t, s) == \E attempt \in 0 .. MaxAttempts : DecidedIn(T, t, <<s, attempt>>, "approved")

(* A submit that waits has an application of its subject, or the outage.   *)
CallsInv ==
  /\ DOMAIN calls = Submits
  /\ \A c \in Submits : calls[c] # Absent =>
       /\ calls[c].subject \in Applicants
       /\ calls[c].ref = Absent => scenario = "provider_outage"
       /\ calls[c].ref # Absent =>
            /\ calls[c].ref \in DOMAIN kyc.timelines /\ calls[c].ref[1] = calls[c].subject
            /\ scenario # "provider_outage"

OutageInv ==
  scenario = "provider_outage" => \A s \in Applicants : Application(kyc, s) = Absent

(* A session that is promoted, or about to be, has an approved subject.    *)
SessionsInv ==
  /\ DOMAIN sessions = SessionIds /\ promoting \subseteq SessionIds
  /\ \A i \in SessionIds :
       /\ i \in promoting => sessions[i] # Absent
       /\ sessions[i] # Absent =>
            /\ DOMAIN sessions[i] = {"subject", "kyc"} /\ sessions[i].subject \in Applicants
            /\ sessions[i].kyc = "promoted" \/ i \in promoting
                 => Approved(kyc.timelines, now, sessions[i].subject)

OnboardingInv == now \in Nat /\ InStep(kyc) /\ CallsInv /\ OutageInv /\ SessionsInv

(* Time goes on and what the provider keeps stays.                         *)
Later ==
  /\ now' \in Nat /\ now <= now'
  /\ \A r \in DOMAIN kyc.timelines : /\ r \in DOMAIN kyc'.timelines
                                     /\ kyc'.timelines[r] = kyc.timelines[r]

LEMMA ApprovalStays ==
  ASSUME OnboardingInv, Later, NEW s, Approved(kyc.timelines, now, s)
  PROVE  Approved(kyc'.timelines, now', s)
  <1>1. PICK attempt \in 0 .. MaxAttempts : DecidedIn(kyc.timelines, now, <<s, attempt>>, "approved")
    BY DEF Approved
  <1>2. PICK r : r = <<s, attempt>>
    OBVIOUS
  <1>3. r \in DOMAIN kyc.timelines
    BY <1>1, <1>2 DEF DecidedIn
  <1>4. PICK n \in DOMAIN kyc.timelines[r].events : Heard(kyc.timelines, now, r, n, "approved")
    BY <1>1, <1>2 DEF DecidedIn
  <1>5. r \in DOMAIN kyc'.timelines /\ kyc'.timelines[r] = kyc.timelines[r]
    BY <1>3 DEF Later
  <1>6. kyc.timelines[r].events[n].at \in Int /\ now \in Nat /\ now' \in Nat /\ now <= now'
    BY <1>3, <1>4 DEF OnboardingInv, InStep, Promised, Later
  <1>7. Heard(kyc'.timelines, now', r, n, "approved")
    BY <1>4, <1>5, <1>6 DEF Heard
  <1>8. DecidedIn(kyc'.timelines, now', r, "approved")
    BY <1>4, <1>5, <1>7 DEF DecidedIn
  <1>9. QED
    BY <1>2, <1>8 DEF Approved

LEMMA SessionsStay ==
  ASSUME OnboardingInv, Later, UNCHANGED <<sessions, promoting>>
  PROVE  SessionsInv'
  <1>1. ASSUME NEW i \in SessionIds, sessions[i] # Absent, sessions[i].kyc = "promoted" \/ i \in promoting
        PROVE  Approved(kyc'.timelines, now', sessions[i].subject)
    <2>1. Approved(kyc.timelines, now, sessions[i].subject)
      BY <1>1 DEF OnboardingInv, SessionsInv
    <2>2. QED
      BY <2>1, ApprovalStays
  <1>2. QED
    BY <1>1 DEF OnboardingInv, SessionsInv

LEMMA CallsStay ==
  ASSUME OnboardingInv, Later, UNCHANGED <<scenario, calls>>
  PROVE  CallsInv'
  BY DEF OnboardingInv, CallsInv, Later

(* What a subject is shown beyond the first state, its provider said.      *)
LEMMA ShownIsDecided ==
  ASSUME NEW k, InStep(k), NEW s \in Applicants, NEW r, r = Application(k, s), r # Absent
  PROVE  /\ r \in k.index /\ k.records[s].lastState = StateOf(k, r)
         /\ \E attempt \in 0 .. MaxAttempts : r = <<s, attempt>>
         /\ StateOf(k, r) \notin {"submitted", "timed_out"}
              => DecidedIn(k.timelines, now, r, StateOf(k, r))
  <1>1. r \in k.index /\ r[1] = s /\ k.records[s].lastState = StateOf(k, r)
    BY DEF InStep, Follows, Belongs
  <1>2. /\ r \in DOMAIN k.timelines /\ r \in DOMAIN k.inbox.subjects
        /\ Hears(k.timelines, now, r, k.inbox.subjects[r])
    BY <1>1 DEF InStep, Follows
  <1>3. r \in References
    BY <1>2 DEF InStep, Promised
  <1>4. \E attempt \in 0 .. MaxAttempts : r = <<s, attempt>>
    BY <1>1, <1>3 DEF References
  <1>5. ASSUME StateOf(k, r) \notin {"submitted", "timed_out"}
        PROVE  DecidedIn(k.timelines, now, r, StateOf(k, r))
    <2> DEFINE x == k.inbox.subjects[r]
    <2>1. ~x.timedOut /\ StateOf(k, r) = x.status /\ x.status # "submitted"
      BY <1>2, <1>5 DEF StateOf
    <2> HIDE DEF x
    <2>2. Heard(k.timelines, now, r, x.sequence, x.status)
      BY <1>2, <2>1 DEF Hears, x
    <2>3. x.sequence \in DOMAIN k.timelines[r].events
      BY <2>2 DEF Heard
    <2>4. QED
      BY <1>2, <2>1, <2>2, <2>3 DEF DecidedIn
  <1>6. QED
    BY <1>1, <1>4, <1>5

LEMMA OnboardingFollows == OnboardingInv => KycFollowsProvider
  <1> SUFFICES ASSUME OnboardingInv PROVE KycFollowsProvider
    OBVIOUS
  <1>1. ASSUME NEW r, NEW status, DecidedIn(kyc.timelines, now, r, status) PROVE Decided(r, status)
    BY <1>1 DEF DecidedIn, Heard, Decided
  <1>2. ASSUME NEW s \in Applicants, Application(kyc, s) # Absent
        PROVE  LET ref == Application(kyc, s)
               IN  /\ ref \in kyc.index
                   /\ kyc.records[s].lastState = StateOf(kyc, ref)
                   /\ StateOf(kyc, ref) \in {"in_review", "approved", "rejected", "needs_more_data"}
                        => Decided(ref, StateOf(kyc, ref))
    <2>1. PICK r : r = Application(kyc, s)
      OBVIOUS
    <2>2. InStep(kyc) /\ r # Absent
      BY <1>2, <2>1 DEF OnboardingInv
    <2>3. /\ r \in kyc.index /\ kyc.records[s].lastState = StateOf(kyc, r)
          /\ StateOf(kyc, r) \notin {"submitted", "timed_out"}
               => DecidedIn(kyc.timelines, now, r, StateOf(kyc, r))
      BY <2>1, <2>2, ShownIsDecided
    <2>4. QED
      BY <1>1, <2>1, <2>3
  <1>3. ASSUME NEW i \in SessionIds, sessions[i] # Absent, sessions[i].kyc = "promoted" \/ i \in promoting
        PROVE  \E attempt \in 0 .. MaxAttempts : Decided(<<sessions[i].subject, attempt>>, "approved")
    <2>1. Approved(kyc.timelines, now, sessions[i].subject)
      BY <1>3 DEF OnboardingInv, SessionsInv
    <2>2. QED
      BY <1>1, <2>1 DEF Approved
  <1>4. kyc.index = DOMAIN kyc.inbox.subjects
    BY DEF OnboardingInv, InStep, Follows
  <1>5. QED
    BY <1>2, <1>3, <1>4 DEF KycFollowsProvider
-----------------------------------------------------------------------------
LEMMA OnboardingStarts ==
  ASSUME OnboardingConstants, OnboardingInit
  PROVE  OnboardingInv
  <1>0. DOMAIN << >> = {}
    OBVIOUS
  <1> DEFINE records == [s \in Applicants |-> NoRecord]
             box == [subjects |-> << >>, events |-> << >>]
  <1>1. kyc = [queue |-> NothingQueued, timelines |-> << >>, nonces |-> {}, inbox |-> box,
               index |-> {}, records |-> records]
    BY DEF OnboardingInit
  <1>2. DOMAIN box = {"subjects", "events"} /\ DOMAIN box.subjects = {}
    BY <1>0
  <1>3. /\ DOMAIN records = Applicants
        /\ \A s \in Applicants : /\ DOMAIN records[s] = RecordFields /\ records[s].attempt = 0
                                 /\ records[s].application = Absent
    BY DEF NoRecord, RecordFields
  <1> HIDE DEF records, box
  <1>4. /\ DOMAIN kyc = ServiceFields /\ kyc.queue = NothingQueued /\ DOMAIN kyc.timelines = {}
        /\ kyc.inbox = box /\ kyc.index = {} /\ kyc.records = records
    BY <1>0, <1>1 DEF ServiceFields
  <1>5. Promised(kyc.timelines)
    BY <1>4 DEF Promised
  <1>6. Queued(kyc)
    BY <1>4, FS_EmptySet DEF Queued, NothingQueued
  <1>7. MaxAttempts \in Nat
    BY DEF OnboardingConstants
  <1>8. Follows(kyc, now)
    BY <1>2, <1>3, <1>4, <1>7 DEF Follows, Shaped, Belongs, Application
  <1>9. OutageInv
    BY <1>3, <1>4 DEF OutageInv, Application
  <1>10. CallsInv /\ SessionsInv /\ now \in Nat
    BY DEF OnboardingInit, CallsInv, SessionsInv
  <1>11. QED
    BY <1>5, <1>6, <1>8, <1>9, <1>10 DEF OnboardingInv, InStep

LEMMA TickFollows == ASSUME OnboardingInv, Tick PROVE OnboardingInv'
  <1>1. now' = now + 1 /\ UNCHANGED <<scenario, kyc, calls, sessions, promoting>> /\ now \in Nat
    BY DEF OnboardingInv, Tick
  <1>2. Later
    BY <1>1 DEF Later
  <1>3. PICK k : k = kyc
    OBVIOUS
  <1>4. ASSUME NEW r \in k.index PROVE Hears(k.timelines, now', r, k.inbox.subjects[r])
    <2>1. /\ r \in DOMAIN k.timelines /\ Promised(k.timelines)
          /\ Hears(k.timelines, now, r, k.inbox.subjects[r])
      BY <1>3 DEF OnboardingInv, InStep, Follows
    <2>2. now \in Int /\ now' \in Int /\ now <= now'
      BY <1>1
    <2>3. QED
      BY <2>1, <2>2, LaterHears
  <1>5. InStep(kyc)'
    BY <1>1, <1>3, <1>4 DEF OnboardingInv, InStep, Follows
  <1>6. OutageInv'
    BY <1>1 DEF OnboardingInv, OutageInv
  <1>7. QED
    BY <1>1, <1>2, <1>5, <1>6, SessionsStay, CallsStay DEF OnboardingInv, Later

(* What every step that drains or writes the service comes to.             *)
LEMMA ServiceStep ==
  ASSUME OnboardingInv, NEW m, kyc' = m, now' = now, scenario' = scenario, InStep(m),
         \A r \in DOMAIN kyc.timelines : r \in DOMAIN m.timelines /\ m.timelines[r] = kyc.timelines[r],
         scenario = "provider_outage" => \A s \in Applicants : Application(m, s) = Absent
  PROVE  now' \in Nat /\ Later /\ InStep(kyc)' /\ OutageInv'
  <1>1. now' \in Nat /\ Later
    BY DEF OnboardingInv, Later
  <1>2. InStep(kyc)'
    BY DEF InStep
  <1>3. OutageInv'
    BY DEF OutageInv
  <1>4. QED
    BY <1>1, <1>2, <1>3

LEMMA ViewFollows == ASSUME OnboardingInv, View PROVE OnboardingInv'
  <1>1. PICK m : m = Sync(kyc)
    OBVIOUS
  <1>2. kyc' = m /\ UNCHANGED <<now, scenario, calls, sessions, promoting>>
    BY <1>1 DEF View
  <1>3. now \in Int /\ InStep(kyc)
    BY DEF OnboardingInv
  <1>4. /\ InStep(m) /\ m.timelines = kyc.timelines
        /\ \A s \in Applicants : Application(m, s) = Application(kyc, s)
    BY <1>1, <1>3, SyncKeeps
  <1>5. scenario = "provider_outage" => \A s \in Applicants : Application(m, s) = Absent
    BY <1>4 DEF OnboardingInv, OutageInv
  <1>6. now' \in Nat /\ Later /\ InStep(kyc)' /\ OutageInv'
    BY <1>2, <1>4, <1>5, ServiceStep
  <1>7. QED
    BY <1>2, <1>6, SessionsStay, CallsStay DEF OnboardingInv

LEMMA SubmitFollows ==
  ASSUME OnboardingConstants, OnboardingInv, NEW c \in Submits, NEW s \in Applicants,
         NEW delay \in DecisionDelays, Submit(c, s, delay)
  PROVE  OnboardingInv'
  <1>1. PICK k : k = Sync(kyc)
    OBVIOUS
  <1>2. now \in Int /\ InStep(kyc)
    BY DEF OnboardingInv
  <1>3. /\ InStep(k) /\ k.timelines = kyc.timelines
        /\ \A q \in Applicants : Application(k, q) = Application(kyc, q)
    BY <1>1, <1>2, SyncKeeps
  <1>4. UNCHANGED <<now, scenario, sessions, promoting>>
    BY DEF Submit
  <1>5. scenario = "provider_outage" => \A q \in Applicants : Application(k, q) = Absent
    BY <1>3 DEF OnboardingInv, OutageInv
  <1> DEFINE ref == <<s, k.records[s].attempt>>
  <1>6. \/ kyc' = k /\ UNCHANGED calls
        \/ /\ scenario = "provider_outage" /\ kyc' = k
           /\ calls' = [calls EXCEPT ![c] = [subject |-> s, ref |-> Absent]]
        \/ /\ scenario # "provider_outage" /\ kyc' = SubmitApplicant(k, ref, delay)
           /\ calls' = [calls EXCEPT ![c] = [subject |-> s, ref |-> ref]]
    BY <1>1 DEF Submit
  <1>7. CASE kyc' = k /\ UNCHANGED calls
    <2>1. now' \in Nat /\ Later /\ InStep(kyc)' /\ OutageInv'
      BY <1>3, <1>4, <1>5, <1>7, ServiceStep
    <2>2. QED
      BY <1>4, <1>7, <2>1, SessionsStay, CallsStay DEF OnboardingInv
  <1>8. CASE /\ scenario = "provider_outage" /\ kyc' = k
             /\ calls' = [calls EXCEPT ![c] = [subject |-> s, ref |-> Absent]]
    <2>1. now' \in Nat /\ Later /\ InStep(kyc)' /\ OutageInv'
      BY <1>3, <1>4, <1>5, <1>8, ServiceStep
    <2>2. CallsInv'
      BY <1>3, <1>4, <1>8 DEF OnboardingInv, CallsInv
    <2>3. QED
      BY <1>4, <2>1, <2>2, SessionsStay DEF OnboardingInv
  <1>9. CASE /\ scenario # "provider_outage" /\ kyc' = SubmitApplicant(k, ref, delay)
             /\ calls' = [calls EXCEPT ![c] = [subject |-> s, ref |-> ref]]
    <2>1. PICK r : r = ref
      OBVIOUS
    <2>2. PICK m : m = SubmitApplicant(k, r, delay)
      OBVIOUS
    <2>3. k.records[s].attempt \in 0 .. MaxAttempts
      BY <1>3 DEF InStep, Follows, Belongs
    <2>4. r \in References /\ r[1] = s
      BY <2>1, <2>3 DEF References
    <2>5. kyc' = m /\ calls' = [calls EXCEPT ![c] = [subject |-> s, ref |-> r]]
      BY <1>9, <2>1, <2>2
    <2> HIDE DEF ref
    <2>6. now \in Nat
      BY DEF OnboardingInv
    <2>7. /\ InStep(m) /\ r \in DOMAIN m.timelines
          /\ \A q \in DOMAIN k.timelines : q \in DOMAIN m.timelines /\ m.timelines[q] = k.timelines[q]
      BY <1>3, <2>2, <2>4, <2>6, SubmitKeeps
    <2>8. now' \in Nat /\ Later /\ InStep(kyc)' /\ OutageInv'
      BY <1>3, <1>4, <1>9, <2>5, <2>7, ServiceStep
    <2>9. CallsInv'
      <3>1. DOMAIN calls = Submits
        BY DEF OnboardingInv, CallsInv
      <3> DEFINE call == [subject |-> s, ref |-> r]
      <3>2. call.subject = s /\ call.ref = r
        OBVIOUS
      <3> HIDE DEF call
      <3>3. calls' = [calls EXCEPT ![c] = call]
        BY <2>5 DEF call
      <3>4. \A x \in Submits : calls'[x] = IF x = c THEN call ELSE calls[x]
        BY <3>1, <3>3
      <3>5. DOMAIN calls' = Submits
        BY <3>1, <3>3
      <3>6. ASSUME NEW x \in Submits, calls'[x] # Absent
            PROVE  /\ calls'[x].subject \in Applicants
                   /\ calls'[x].ref = Absent => scenario' = "provider_outage"
                   /\ calls'[x].ref # Absent =>
                        /\ calls'[x].ref \in DOMAIN kyc'.timelines
                        /\ calls'[x].ref[1] = calls'[x].subject /\ scenario' # "provider_outage"
        <4>1. CASE x = c
          <5>1. calls'[x] = call
            BY <3>4, <4>1
          <5>2. r # Absent
            <6>1. r \in Applicants \X Nat
              BY <2>1, <2>3 DEF ref
            <6>2. QED
              BY <6>1 DEF OnboardingConstants
          <5>3. QED
            BY <1>4, <1>9, <2>4, <2>5, <2>7, <3>2, <5>1, <5>2
        <4>2. CASE x # c
          <5>1. calls'[x] = calls[x]
            BY <3>4, <4>2
          <5>2. QED
            BY <1>4, <2>8, <3>6, <5>1 DEF OnboardingInv, CallsInv, Later
        <4>3. QED
          BY <4>1, <4>2
      <3>7. QED
        BY <3>5, <3>6 DEF CallsInv
    <2>10. QED
      BY <1>4, <2>8, <2>9, SessionsStay DEF OnboardingInv
  <1>10. QED
    BY <1>6, <1>7, <1>8, <1>9
-----------------------------------------------------------------------------
LEMMA AnsweredFollows ==
  ASSUME OnboardingInv, NEW c \in Submits, Answered(c)
  PROVE  OnboardingInv'
  <1>1. PICK s : s = calls[c].subject
    OBVIOUS
  <1>2. PICK r : r = calls[c].ref
    OBVIOUS
  <1>3. /\ calls[c] # Absent /\ calls' = [calls EXCEPT ![c] = Absent]
        /\ UNCHANGED <<now, scenario, sessions, promoting>>
        /\ \/ /\ r = Absent
              /\ kyc' = [kyc EXCEPT !.records[s].unavailable = TRUE,
                                    !.records[s].lastState = "unavailable"]
           \/ r # Absent /\ kyc' = kyc
           \/ r # Absent /\ r \notin DOMAIN kyc.inbox.subjects /\ kyc' = OpenedFor(kyc, s, r)
    BY <1>1, <1>2 DEF Answered
  <1>4. /\ s \in Applicants /\ (r = Absent => scenario = "provider_outage")
        /\ r # Absent => r \in DOMAIN kyc.timelines /\ r[1] = s /\ scenario # "provider_outage"
    BY <1>1, <1>2, <1>3 DEF OnboardingInv, CallsInv
  <1>5. PICK m : m = kyc'
    OBVIOUS
  <1>6. now \in Int /\ InStep(kyc)
    BY DEF OnboardingInv
  <1>7. /\ InStep(m) /\ m.timelines = kyc.timelines
        /\ scenario = "provider_outage" => \A q \in Applicants : Application(m, q) = Absent
    <2>1. CASE r = Absent
      <3>1. \A q \in Applicants : Application(kyc, q) = Absent
        BY <1>4, <2>1 DEF OnboardingInv, OutageInv
      <3>2. m = Unavailable(kyc, s)
        BY <1>3, <1>5, <2>1 DEF Unavailable
      <3>3. InStep(m) /\ m.timelines = kyc.timelines
            /\ \A q \in Applicants : Application(m, q) = Application(kyc, q)
        BY <1>4, <1>6, <3>1, <3>2, UnavailableKeeps
      <3>4. QED
        BY <3>1, <3>3
    <2>2. CASE r # Absent /\ m = kyc
      BY <1>4, <1>6, <2>2
    <2>3. CASE r # Absent /\ r \notin DOMAIN kyc.inbox.subjects /\ m = OpenedFor(kyc, s, r)
      <3>1. InStep(m) /\ m.timelines = kyc.timelines
        BY <1>4, <1>6, <2>3, OpenedKeeps
      <3>2. QED
        BY <1>4, <2>3, <3>1
    <2>4. QED
      BY <1>3, <1>5, <2>1, <2>2, <2>3
  <1>8. now' \in Nat /\ Later /\ InStep(kyc)' /\ OutageInv'
    BY <1>3, <1>5, <1>7, ServiceStep
  <1>9. CallsInv'
    <2>1. /\ DOMAIN calls' = Submits
          /\ \A x \in Submits : calls'[x] = IF x = c THEN Absent ELSE calls[x]
      BY <1>3 DEF OnboardingInv, CallsInv
    <2>2. kyc'.timelines = kyc.timelines
      BY <1>5, <1>7
    <2>3. QED
      BY <1>3, <2>1, <2>2 DEF OnboardingInv, CallsInv
  <1>10. QED
    BY <1>3, <1>8, <1>9, SessionsStay DEF OnboardingInv

LEMMA LoginFollows ==
  ASSUME OnboardingConstants, OnboardingInv, NEW i \in SessionIds, NEW s \in Applicants,
         NEW resets \in BOOLEAN, NEW view \in {"verified", "kyc-gated"},
         Login(i, s, resets, view)
  PROVE  OnboardingInv'
  <1>1. PICK m : m = kyc'
    OBVIOUS
  <1> DEFINE session == [subject |-> s, kyc |-> view]
  <1>2. /\ sessions[i] = Absent /\ sessions' = [sessions EXCEPT ![i] = session]
        /\ UNCHANGED <<now, scenario, calls, promoting>>
        /\ \/ kyc.records[s].attempt < MaxAttempts /\ m = Reset(kyc, s)
           \/ m = kyc
    BY <1>1 DEF Login
  <1>3. now \in Int /\ InStep(kyc)
    BY DEF OnboardingInv
  <1>4. /\ InStep(m) /\ m.timelines = kyc.timelines
        /\ \A q \in Applicants : Application(m, q) \in {Absent, Application(kyc, q)}
    <2>1. CASE m = kyc
      BY <1>3, <2>1
    <2>2. CASE kyc.records[s].attempt < MaxAttempts /\ m = Reset(kyc, s)
      BY <1>3, <2>2, ResetKeeps
    <2>3. QED
      BY <1>2, <2>1, <2>2
  <1>5. scenario = "provider_outage" => \A q \in Applicants : Application(m, q) = Absent
    BY <1>4 DEF OnboardingInv, OutageInv
  <1>6. now' \in Nat /\ Later /\ InStep(kyc)' /\ OutageInv'
    BY <1>1, <1>2, <1>4, <1>5, ServiceStep
  <1>7. SessionsInv'
    <2>1. /\ DOMAIN session = {"subject", "kyc"} /\ session.subject = s
          /\ session.kyc # "promoted"
      OBVIOUS
    <2> HIDE DEF session
    <2>2. /\ DOMAIN sessions' = SessionIds
          /\ \A j \in SessionIds : sessions'[j] = IF j = i THEN session ELSE sessions[j]
      BY <1>2 DEF OnboardingInv, SessionsInv
    <2>3. i \notin promoting /\ promoting' = promoting
      BY <1>2 DEF OnboardingInv, SessionsInv
    <2>4. ASSUME NEW j \in SessionIds
          PROVE  /\ j \in promoting' => sessions'[j] # Absent
                 /\ sessions'[j] # Absent =>
                      /\ DOMAIN sessions'[j] = {"subject", "kyc"} /\ sessions'[j].subject \in Applicants
                      /\ sessions'[j].kyc = "promoted" \/ j \in promoting'
                           => Approved(kyc'.timelines, now', sessions'[j].subject)
      <3>1. CASE j = i
        BY <2>1, <2>2, <2>3, <3>1
      <3>2. CASE j # i
        <4>1. sessions'[j] = sessions[j]
          BY <2>2, <3>2
        <4>2. /\ j \in promoting => sessions[j] # Absent
              /\ sessions[j] # Absent =>
                   /\ DOMAIN sessions[j] = {"subject", "kyc"} /\ sessions[j].subject \in Applicants
                   /\ sessions[j].kyc = "promoted" \/ j \in promoting
                        => Approved(kyc.timelines, now, sessions[j].subject)
          BY DEF OnboardingInv, SessionsInv
        <4>3. QED
          BY <1>6, <2>3, <4>1, <4>2, ApprovalStays
      <3>3. QED
        BY <3>1, <3>2
    <2>5. promoting' \subseteq SessionIds
      BY <2>3 DEF OnboardingInv, SessionsInv
    <2>6. QED
      BY <2>2, <2>4, <2>5 DEF SessionsInv
  <1>8. CallsInv'
    BY <1>2, <1>6, CallsStay
  <1>9. QED
    BY <1>6, <1>7, <1>8 DEF OnboardingInv

LEMMA LogoutFollows ==
  ASSUME OnboardingInv, NEW i \in SessionIds, Logout(i)
  PROVE  OnboardingInv'
  <1>1. /\ sessions' = [sessions EXCEPT ![i] = Absent] /\ promoting' = promoting \ {i}
        /\ UNCHANGED <<now, scenario, kyc, calls>>
    BY DEF Logout
  <1>2. SessionsInv'
    <2>1. /\ DOMAIN sessions' = SessionIds
          /\ \A j \in SessionIds : sessions'[j] = IF j = i THEN Absent ELSE sessions[j]
      BY <1>1 DEF OnboardingInv, SessionsInv
    <2>2. QED
      BY <1>1, <2>1 DEF OnboardingInv, SessionsInv
  <1>3. Later
    BY <1>1 DEF OnboardingInv, Later
  <1>4. InStep(kyc)' /\ OutageInv'
    BY <1>1 DEF OnboardingInv, InStep, OutageInv
  <1>5. QED
    BY <1>1, <1>2, <1>3, <1>4, CallsStay DEF OnboardingInv, Later

LEMMA PassGateFollows ==
  ASSUME OnboardingInv, NEW i \in SessionIds, PassGate(i)
  PROVE  OnboardingInv'
  <1>1. PICK m : m = Sync(kyc)
    OBVIOUS
  <1>2. /\ sessions[i] # Absent /\ kyc' = m /\ UNCHANGED <<now, scenario, calls, sessions>>
        /\ promoting' = promoting \cup {x \in {i} : IsVerified(m, sessions[x].subject)}
    BY <1>1 DEF PassGate
  <1>3. now \in Int /\ InStep(kyc)
    BY DEF OnboardingInv
  <1>4. /\ InStep(m) /\ m.timelines = kyc.timelines
        /\ \A s \in Applicants : Application(m, s) = Application(kyc, s)
    BY <1>1, <1>3, SyncKeeps
  <1>5. scenario = "provider_outage" => \A s \in Applicants : Application(m, s) = Absent
    BY <1>4 DEF OnboardingInv, OutageInv
  <1>6. now' \in Nat /\ Later /\ InStep(kyc)' /\ OutageInv'
    BY <1>2, <1>4, <1>5, ServiceStep
  <1>7. i \in promoting' \ promoting => Approved(m.timelines, now, sessions[i].subject)
    <2> SUFFICES ASSUME i \in promoting' \ promoting
                 PROVE  Approved(m.timelines, now, sessions[i].subject)
      OBVIOUS
    <2>1. PICK s : s = sessions[i].subject
      OBVIOUS
    <2>2. s \in Applicants
      BY <1>2, <2>1 DEF OnboardingInv, SessionsInv
    <2>3. PICK r : r = Application(m, s)
      OBVIOUS
    <2>4. r # Absent /\ StateOf(m, r) = "approved"
      BY <1>2, <2>1, <2>3 DEF IsVerified
    <2>5. /\ \E attempt \in 0 .. MaxAttempts : r = <<s, attempt>>
          /\ StateOf(m, r) \notin {"submitted", "timed_out"}
               => DecidedIn(m.timelines, now, r, StateOf(m, r))
      BY <1>4, <2>2, <2>3, <2>4, ShownIsDecided
    <2>6. QED
      BY <2>1, <2>4, <2>5 DEF Approved
  <1>8. ASSUME NEW j \in SessionIds
        PROVE  /\ j \in promoting' => sessions[j] # Absent
               /\ sessions[j] # Absent =>
                    /\ DOMAIN sessions[j] = {"subject", "kyc"} /\ sessions[j].subject \in Applicants
                    /\ sessions[j].kyc = "promoted" \/ j \in promoting'
                         => Approved(m.timelines, now, sessions[j].subject)
    <2>1. /\ j \in promoting => sessions[j] # Absent
          /\ sessions[j] # Absent =>
               /\ DOMAIN sessions[j] = {"subject", "kyc"} /\ sessions[j].subject \in Applicants
               /\ sessions[j].kyc = "promoted" \/ j \in promoting
                    => Approved(kyc.timelines, now, sessions[j].subject)
      BY DEF OnboardingInv, SessionsInv
    <2>2. j \in promoting' \ promoting => j = i
      BY <1>2
    <2>3. QED
      BY <1>2, <1>4, <1>7, <2>1, <2>2
  <1>9. SessionsInv'
    <2>1. promoting' \subseteq SessionIds /\ DOMAIN sessions = SessionIds
      BY <1>2 DEF OnboardingInv, SessionsInv
    <2>2. QED
      BY <1>2, <1>8, <2>1 DEF SessionsInv
  <1>10. CallsInv'
    BY <1>2, <1>6, CallsStay
  <1>11. QED
    BY <1>6, <1>9, <1>10 DEF OnboardingInv

LEMMA VerifyFollows ==
  ASSUME OnboardingInv, NEW i \in SessionIds, VerifyKyc(i)
  PROVE  OnboardingInv'
  <1> DEFINE session == [sessions[i] EXCEPT !.kyc = "promoted"]
  <1>1. /\ i \in promoting /\ sessions' = [sessions EXCEPT ![i] = session]
        /\ promoting' = promoting \ {i} /\ UNCHANGED <<now, scenario, kyc, calls>>
    BY DEF VerifyKyc
  <1>2. /\ sessions[i] # Absent /\ DOMAIN sessions[i] = {"subject", "kyc"}
        /\ sessions[i].subject \in Applicants
        /\ Approved(kyc.timelines, now, sessions[i].subject)
    BY <1>1 DEF OnboardingInv, SessionsInv
  <1>3. DOMAIN session = {"subject", "kyc"} /\ session.subject = sessions[i].subject
    BY <1>2
  <1> HIDE DEF session
  <1>4. SessionsInv'
    <2>1. /\ DOMAIN sessions' = SessionIds
          /\ \A j \in SessionIds : sessions'[j] = IF j = i THEN session ELSE sessions[j]
      BY <1>1 DEF OnboardingInv, SessionsInv
    <2>2. QED
      BY <1>1, <1>2, <1>3, <2>1 DEF OnboardingInv, SessionsInv
  <1>5. Later
    BY <1>1 DEF OnboardingInv, Later
  <1>6. InStep(kyc)' /\ OutageInv'
    BY <1>1 DEF OnboardingInv, InStep, OutageInv
  <1>7. QED
    BY <1>1, <1>4, <1>5, <1>6, CallsStay DEF OnboardingInv, Later

LEMMA OnboardingStep ==
  ASSUME OnboardingConstants, OnboardingInv, [OnboardingNext]_(onboardingVars)
  PROVE  OnboardingInv'
  <1>1. CASE Tick
    BY <1>1, TickFollows
  <1>2. CASE View
    BY <1>2, ViewFollows
  <1>3. CASE \E c \in Submits :
               Answered(c) \/ \E s \in Applicants, delay \in DecisionDelays : Submit(c, s, delay)
    BY <1>3, AnsweredFollows, SubmitFollows
  <1>4. CASE \E i \in SessionIds : Logout(i) \/ PassGate(i) \/ VerifyKyc(i)
    BY <1>4, LogoutFollows, PassGateFollows, VerifyFollows
  <1>5. CASE \E i \in SessionIds, s \in Applicants, resets \in BOOLEAN, view \in {"verified", "kyc-gated"} :
               Login(i, s, resets, view)
    BY <1>5, LoginFollows
  <1>6. CASE UNCHANGED onboardingVars
    <2>1. UNCHANGED <<now, scenario, kyc, calls, sessions, promoting>>
      BY <1>6 DEF onboardingVars
    <2>2. QED
      BY <2>1 DEF OnboardingInv, InStep, Queued, CallsInv, OutageInv, SessionsInv
  <1>7. QED
    BY <1>1, <1>2, <1>3, <1>4, <1>5, <1>6 DEF OnboardingNext

(* Whatever logins, overlapping submits, late reads and lost or repeated   *)
(* callbacks do, a subject is shown what its provider decided in time, its *)
(* listeners heard the same, and only an approved subject's session passes *)
(* the gate (kyc.ts, currentSession in server.ts): for every subject,      *)
(* session, scenario, delay and bound of the simulator.                    *)
THEOREM OnboardingFollowsProvider ==
  ASSUME OnboardingConstants
  PROVE  OnboardingSpec => []KycFollowsProvider
  <1>1. OnboardingInit => OnboardingInv
    BY OnboardingStarts
  <1>2. OnboardingInv /\ [OnboardingNext]_(onboardingVars) => OnboardingInv'
    BY OnboardingStep
  <1>3. OnboardingInv => KycFollowsProvider
    BY OnboardingFollows
  <1>4. QED
    BY <1>1, <1>2, <1>3, PTL DEF OnboardingSpec
-----------------------------------------------------------------------------
(* Personal checks: the simulator, the network and the receiver.           *)
CONSTANTS
  Deliveries, CheckTtl, DuplicateDelay, MaxFailedClaimAttempts, LastCreation, Grace

VARIABLES queue, wire, receiver, check, cleared

Checks == INSTANCE ChecksSimulator

CheckFields == {"status", "delivery", "history", "expiresAt", "failedClaimAttempts"}

CheckStatuses ==
  {"registered", "awaiting_confirmation", "created", "awaiting_recipient_kyc",
   "claimed", "cancelled", "expired"}

CheckEvents == [status : CheckStatuses, at : Int]

(* No check comes back to a status: it has this many events at most.       *)
Rank ==
  [registered |-> 0, awaiting_confirmation |-> 1, awaiting_recipient_kyc |-> 2,
   created |-> 3, claimed |-> 4, cancelled |-> 4, expired |-> 4]

(* One event of a check, after the status before it.                       *)
RightEvent(c, before, event) ==
  /\ event.status \in Checks!ChecksTransitions[before]
  /\ event.status = "expired" => event.at = c.expiresAt
  /\ event.status # "expired" => event.at < c.expiresAt
  /\ event.status = "claimed" => c.failedClaimAttempts < MaxFailedClaimAttempts

StatusBefore(c, n) == IF n = 1 THEN "registered" ELSE c.history[n - 1].status

(* A check at a time: its events are in order, and it is where they led.   *)
CheckInv(c, t) ==
  /\ DOMAIN c = CheckFields /\ c.history \in Seq(CheckEvents)
  /\ c.expiresAt \in Int /\ c.failedClaimAttempts \in Nat
  /\ c.status = StatusBefore(c, Len(c.history) + 1)
  /\ Len(c.history) <= Rank[c.status]
  /\ \A n \in DOMAIN c.history :
       /\ RightEvent(c, StatusBefore(c, n), c.history[n])
       /\ c.history[n].at <= t
       /\ n > 1 => c.history[n - 1].at <= c.history[n].at

ToldOf(history, n, status) == n \in DOMAIN history /\ status = history[n].status

(* A delivery says what happened to the check.                             *)
SaysOf(history, d) ==
  /\ d.at \in Int /\ d.nonce \in Int
  /\ Checks!ValidChecksCallback(d.payload)
  /\ ToldOf(history, d.payload.sequence, d.payload.status)

(* At most two deliveries for an event.                                    *)
QueueInv(history, q) ==
  /\ DOMAIN q = {"pending", "order"} /\ q.order \in Int
  /\ IsFiniteSet(q.pending) /\ Cardinality(q.pending) <= 2 * Len(history)
  /\ \A d \in q.pending : SaysOf(history, d)

SimInv(sim, t) ==
  DOMAIN sim = {"check", "queue"} /\ CheckInv(sim.check, t) /\ QueueInv(sim.check.history, sim.queue)

(* What happened stays, with more after it.                                *)
Continues(old, new) ==
  /\ Len(old) <= Len(new)
  /\ \A n \in DOMAIN old : n \in DOMAIN new /\ new[n] = old[n]

LEMMA SameCount == \A S : Checks!Cardinality(S) = Cardinality(S) /\ Checks!Channel!Cardinality(S) = Cardinality(S)
  BY DEF Cardinality, Checks!Cardinality, Checks!Channel!Cardinality

(* No delivery, one, or two.                                               *)
TimesOf(times) ==
  \/ times = << >>
  \/ \E a \in Int : times = <<a>>
  \/ \E a, b \in Int : times = <<a, b>>

EventsAt(payload, times) == [i \in DOMAIN times |-> [payload |-> payload, at |-> times[i]]]

Within(Q, P, d, e) == Q \subseteq P \cup {d, e}

(* An event as scheduled: at most twice, at times that are numbers.        *)
LEMMA ScheduledAdds ==
  ASSUME NEW q, DOMAIN q = {"pending", "order"}, q.order \in Int, NEW payload,
         NEW times, TimesOf(times),
         NEW r, r = Checks!Channel!ScheduleTimeline(q, EventsAt(payload, times), "normal", 0)
  PROVE  /\ DOMAIN r = {"pending", "order"} /\ r.order \in Int
         /\ \E d, e : Within(r.pending, q.pending, d, e)
         /\ \A x \in r.pending \ q.pending : x.at \in Int /\ x.nonce \in Int /\ x.payload = payload
  <1> DEFINE events == EventsAt(payload, times)
             Sent(i) == Checks!Channel!Signed(events[i], q.order + i - 1)
  <1>1. PICK N \in {0, 1, 2} : DOMAIN times = 1 .. N /\ \A i \in 1 .. N : times[i] \in Int
    <2>1. CASE times = << >>
      BY <2>1
    <2>2. CASE \E a \in Int : times = <<a>>
      BY <2>2
    <2>3. CASE \E a, b \in Int : times = <<a, b>>
      BY <2>3
    <2>4. QED
      BY <2>1, <2>2, <2>3 DEF TimesOf
  <1>2. /\ DOMAIN events = 1 .. N /\ Len(events) = N
        /\ \A i \in 1 .. N : events[i].at \in Int /\ events[i].payload = payload
    <2>1. events = [i \in 1 .. N |-> [payload |-> payload, at |-> times[i]]] /\ N \in Nat
      BY <1>1 DEF EventsAt
    <2>2. Len(events) = N
      BY ONLY <2>1
    <2>3. QED
      BY <1>1, <2>1, <2>2
  <1> HIDE DEF events
  <1>3. Checks!Channel!Timeline(events, "normal", 0) = events
    BY DEF Checks!Channel!Timeline
  <1>4. r = [pending |-> q.pending \cup {Sent(i) : i \in 1 .. N}, order |-> q.order + N]
    <2>1. r = Checks!Channel!ScheduleTimeline(q, events, "normal", 0)
      BY DEF events
    <2>2. r = [pending |-> q.pending \cup {Sent(i) : i \in DOMAIN events}, order |-> q.order + Len(events)]
      BY <1>3, <2>1 DEF Checks!Channel!ScheduleTimeline
    <2>3. QED
      BY <1>2, <2>2
  <1>5. \A i \in 1 .. N : Sent(i).at \in Int /\ Sent(i).nonce \in Int /\ Sent(i).payload = payload
    BY <1>1, <1>2 DEF Checks!Channel!Signed
  <1> HIDE DEF Sent
  <1>6. r.pending = q.pending \cup {Sent(i) : i \in 1 .. N}
    BY <1>4
  <1>7. r.pending \subseteq q.pending \cup {Sent(1), Sent(2)}
    <2> SUFFICES ASSUME NEW i \in 1 .. N PROVE Sent(i) \in {Sent(1), Sent(2)}
      BY <1>6
    <2>1. i = 1 \/ i = 2
      BY <1>1
    <2>2. QED
      BY <2>1
  <1>8. \A x \in r.pending \ q.pending : x.at \in Int /\ x.nonce \in Int /\ x.payload = payload
    BY <1>5, <1>6
  <1>9. DOMAIN r = {"pending", "order"} /\ r.order \in Int
    BY <1>1, <1>4
  <1>10. Within(r.pending, q.pending, Sent(1), Sent(2))
    BY <1>7 DEF Within
  <1>11. QED
    BY ONLY <1>8, <1>9, <1>10

LEMMA TwoMore ==
  ASSUME NEW P, IsFiniteSet(P), NEW d, NEW e, NEW Q, Within(Q, P, d, e)
  PROVE  IsFiniteSet(Q) /\ Cardinality(Q) <= Cardinality(P) + 2
         /\ Cardinality(Q) \in Nat /\ Cardinality(P) \in Nat
  <1>0. Cardinality(P) \in Nat
    BY FS_CardinalityType
  <1>1. IsFiniteSet(P \cup {d}) /\ Cardinality(P \cup {d}) <= Cardinality(P) + 1
        /\ Cardinality(P) \in Nat
    BY <1>0, FS_AddElement
  <1>2. IsFiniteSet((P \cup {d}) \cup {e})
        /\ Cardinality((P \cup {d}) \cup {e}) <= Cardinality(P \cup {d}) + 1
    <2>1. Cardinality(P \cup {d}) \in Nat
      BY <1>1, FS_CardinalityType
    <2>2. QED
      BY <1>1, <2>1, FS_AddElement
  <1>3. Q \subseteq (P \cup {d}) \cup {e}
    BY DEF Within
  <1>4. IsFiniteSet(Q) /\ Cardinality(Q) <= Cardinality((P \cup {d}) \cup {e})
    BY <1>2, <1>3, FS_Subset
  <1>5. /\ Cardinality(Q) \in Nat /\ Cardinality(P \cup {d}) \in Nat
        /\ Cardinality((P \cup {d}) \cup {e}) \in Nat
    BY <1>1, <1>2, <1>4, FS_CardinalityType
  <1>6. QED
    BY ONLY <1>1, <1>2, <1>4, <1>5

LEMMA SaysStill ==
  ASSUME NEW old, NEW new, Continues(old, new), NEW d, SaysOf(old, d)
  PROVE  SaysOf(new, d)
  BY DEF Continues, SaysOf, ToldOf

(* A status that may follow, at a time it may.                             *)
MayMove(c, status, at) ==
  /\ status \in CheckStatuses /\ at \in Int
  /\ RightEvent(c, c.status, [status |-> status, at |-> at])
  /\ \A n \in DOMAIN c.history : c.history[n].at <= at

MovedCheck(c, status, at) ==
  [c EXCEPT !.status = status, !.history = Append(@, [status |-> status, at |-> at])]

LEMMA EmittedCheck ==
  ASSUME NEW t \in Int, NEW c, CheckInv(c, t), NEW at, at <= t, NEW status, MayMove(c, status, at),
         NEW m, m = MovedCheck(c, status, at)
  PROVE  /\ CheckInv(m, t) /\ Continues(c.history, m.history) /\ Len(m.history) = Len(c.history) + 1
         /\ m.history[Len(m.history)] = [status |-> status, at |-> at]
         /\ m.status = status /\ m.delivery = c.delivery /\ m.expiresAt = c.expiresAt
         /\ m.failedClaimAttempts = c.failedClaimAttempts
  <1> DEFINE h == c.history
             event == [status |-> status, at |-> at]
             g == Append(h, event)
             k == Len(h) + 1
  <1>1. h \in Seq(CheckEvents) /\ Len(h) \in Nat /\ DOMAIN h = 1 .. Len(h) /\ event \in CheckEvents
        /\ at \in Int /\ status \in CheckStatuses /\ RightEvent(c, c.status, event)
        /\ \A n \in DOMAIN h : h[n].at <= at
    BY DEF CheckInv, CheckEvents, MayMove
  <1>2. /\ g \in Seq(CheckEvents) /\ Len(g) = k /\ DOMAIN g = 1 .. k /\ g[k] = event
        /\ \A n \in 1 .. Len(h) : g[n] = h[n]
    BY <1>1
  <1>3. /\ DOMAIN m = CheckFields /\ m.history = g /\ m.status = status
        /\ m.delivery = c.delivery /\ m.expiresAt = c.expiresAt
        /\ m.failedClaimAttempts = c.failedClaimAttempts
    BY DEF CheckInv, CheckFields, MovedCheck
  <1> HIDE DEF g
  <1>4. Continues(h, g)
    BY <1>1, <1>2 DEF Continues
  <1>5. \A n \in 1 .. k : StatusBefore(m, n) = StatusBefore(c, n)
    <2> SUFFICES ASSUME NEW n \in 1 .. k PROVE StatusBefore(m, n) = StatusBefore(c, n)
      OBVIOUS
    <2>1. n # 1 => n - 1 \in 1 .. Len(h)
      BY <1>1
    <2>2. QED
      BY <1>2, <1>3, <2>1 DEF StatusBefore
  <1>6. m.status = StatusBefore(m, Len(g) + 1)
    BY <1>1, <1>2, <1>3 DEF StatusBefore
  <1>7. Len(g) <= Rank[status]
    <2>1. status \in Checks!ChecksTransitions[c.status] /\ c.status \in CheckStatuses
      <3>1. c.status = IF k = 1 THEN "registered" ELSE h[Len(h)].status
        BY <1>1 DEF CheckInv, StatusBefore
      <3>2. k # 1 => h[Len(h)] \in CheckEvents
        BY <1>1
      <3>3. QED
        BY <1>1, <3>1, <3>2 DEF RightEvent, CheckEvents, CheckStatuses
    <2>2. Rank[c.status] + 1 <= Rank[status]
      BY <2>1 DEF Rank, Checks!ChecksTransitions, CheckStatuses
    <2>3. Rank[c.status] \in Nat /\ Rank[status] \in Nat
      BY <1>1, <2>1 DEF Rank, CheckStatuses
    <2>4. QED
      BY <1>1, <1>2, <2>2, <2>3 DEF CheckInv
  <1>8. ASSUME NEW n \in 1 .. k
        PROVE  /\ RightEvent(m, StatusBefore(m, n), g[n]) /\ g[n].at <= t
               /\ n > 1 => g[n - 1].at <= g[n].at
    <2>1. CASE n = k
      <3>1. StatusBefore(m, n) = c.status
        BY <1>5, <2>1 DEF CheckInv
      <3>2. RightEvent(m, c.status, g[n])
        BY <1>1, <1>2, <1>3, <2>1 DEF RightEvent
      <3>3. n > 1 => g[n - 1] = h[n - 1] /\ n - 1 \in DOMAIN h
        BY <1>1, <1>2, <2>1
      <3>4. QED
        BY <1>1, <1>2, <2>1, <3>1, <3>2, <3>3
    <2>2. CASE n \in 1 .. Len(h)
      <3>1. g[n] = h[n] /\ (n > 1 => g[n - 1] = h[n - 1])
        BY <1>1, <1>2, <2>2
      <3>2. /\ RightEvent(c, StatusBefore(c, n), h[n]) /\ h[n].at <= t
            /\ n > 1 => h[n - 1].at <= h[n].at
        BY <1>1, <2>2 DEF CheckInv
      <3>3. RightEvent(m, StatusBefore(m, n), h[n])
        BY <1>3, <1>5, <3>2 DEF RightEvent
      <3>4. QED
        BY <3>1, <3>2, <3>3
    <2>3. QED
      BY <1>1, <2>1, <2>2
  <1>9. CheckInv(m, t)
    BY <1>2, <1>3, <1>6, <1>7, <1>8 DEF CheckInv
  <1>10. QED
    BY <1>2, <1>3, <1>4, <1>9

(* What a simulator may become by a step: more of the same check.          *)
Grows(old, new) ==
  /\ Continues(old.check.history, new.check.history)
  /\ new.check.expiresAt = old.check.expiresAt

LEMMA EmittedHolds ==
  ASSUME Checks!ChecksConstants, NEW t \in Int, NEW sim, SimInv(sim, t), NEW at, at <= t, NEW status,
         MayMove(sim.check, status, at), NEW m, m = Checks!Emitted(sim, status, at)
  PROVE  SimInv(m, t) /\ Grows(sim, m) /\ m.check.status = status
  <1> DEFINE c == sim.check
             q == sim.queue
             event == [status |-> status, at |-> at]
             new == MovedCheck(c, status, at)
             sequence == Len(c.history) + 1
             payload == [subject |-> Checks!CheckId, event |-> sequence, sequence |-> sequence,
                         status |-> status, outstanding |-> Checks!Outstanding(status),
                         occurredAt |-> at, expiresAt |-> c.expiresAt]
             deliverAt == IF c.delivery = "late" THEN at + CheckTtl + LateDelay ELSE at
             times == CASE c.delivery = "none" -> << >>
                        [] c.delivery = "duplicate" -> <<deliverAt, deliverAt + DuplicateDelay>>
                        [] OTHER -> <<deliverAt>>
  <1>1. CheckInv(c, t) /\ QueueInv(c.history, q) /\ DOMAIN sim = {"check", "queue"}
    BY DEF SimInv
  <1>2. PICK r : r = Checks!Channel!ScheduleTimeline(q, EventsAt(payload, times), "normal", 0)
    OBVIOUS
  <1>3. m.check = new /\ m.queue = r /\ DOMAIN m = {"check", "queue"}
    BY ONLY <1>2, m = Checks!Emitted(sim, status, at) DEF Checks!Emitted, EventsAt, MovedCheck
  <1>4. /\ CheckInv(new, t) /\ Continues(c.history, new.history)
        /\ Len(new.history) = sequence /\ new.history[Len(new.history)] = event
        /\ new.status = status /\ new.expiresAt = c.expiresAt
    <2> HIDE DEF new
    <2>1. new = MovedCheck(c, status, at)
      BY DEF new
    <2>2. QED
      BY <1>1, <2>1, EmittedCheck
  <1>5. /\ Len(c.history) \in Nat /\ new.history \in Seq(CheckEvents)
        /\ DOMAIN new.history = 1 .. sequence
    BY <1>1, <1>4 DEF CheckInv
  <1>6. Checks!ValidChecksCallback(payload)
    <2>1. at <= c.expiresAt
      BY <1>1 DEF RightEvent, CheckInv, MayMove
    <2>2. QED
      BY <2>1 DEF Checks!ValidChecksCallback
  <1>7. payload.sequence = sequence /\ payload.status = status
    OBVIOUS
  <1>8. deliverAt \in Int /\ deliverAt + DuplicateDelay \in Int
    BY DEF Checks!ChecksConstants, MayMove
  <1> HIDE DEF new, payload, deliverAt
  <1>9. TimesOf(times)
    BY <1>8 DEF TimesOf
  <1> HIDE DEF times
  <1>10. /\ DOMAIN r = {"pending", "order"} /\ r.order \in Int
         /\ \E d, e : Within(r.pending, q.pending, d, e)
         /\ \A x \in r.pending \ q.pending : x.at \in Int /\ x.nonce \in Int /\ x.payload = payload
    <2>1. DOMAIN q = {"pending", "order"} /\ q.order \in Int
      BY <1>1 DEF QueueInv
    <2>2. QED
      BY ONLY <1>2, <1>9, <2>1, ScheduledAdds
  <1>11. PICK d, e : Within(r.pending, q.pending, d, e)
    BY <1>10
  <1>12. /\ IsFiniteSet(r.pending) /\ Cardinality(r.pending) <= Cardinality(q.pending) + 2
         /\ Cardinality(r.pending) \in Nat /\ Cardinality(q.pending) \in Nat
    <2>1. IsFiniteSet(q.pending)
      BY <1>1 DEF QueueInv
    <2>2. QED
      BY ONLY <1>11, <2>1, TwoMore
  <1>13. Cardinality(r.pending) <= 2 * Len(new.history)
    BY <1>1, <1>4, <1>5, <1>12 DEF QueueInv
  <1>14. ASSUME NEW x \in r.pending PROVE SaysOf(new.history, x)
    <2>1. CASE x \in q.pending
      BY <1>1, <1>4, <2>1, SaysStill DEF QueueInv
    <2>2. CASE x \notin q.pending
      <3>1. x.at \in Int /\ x.nonce \in Int /\ x.payload = payload
        BY <1>10, <2>2
      <3>2. ToldOf(new.history, sequence, status)
        BY <1>4, <1>5 DEF ToldOf
      <3>3. QED
        BY <1>6, <1>7, <3>1, <3>2 DEF SaysOf
    <2>3. QED
      BY <2>1, <2>2
  <1>15. QueueInv(new.history, r)
    BY <1>10, <1>12, <1>13, <1>14 DEF QueueInv
  <1>16. QED
    BY <1>3, <1>4, <1>15 DEF SimInv, Grows

(* A check that is not due moves now, or it expires.                       *)
LEMMA MovesNow ==
  ASSUME Checks!ChecksConstants, now \in Nat, NEW c, CheckInv(c, now),
         Checks!Unresolved(c.status), ~Checks!IsDue(c), NEW status,
         status \in Checks!ChecksTransitions[c.status], status # "expired",
         status = "claimed" => c.failedClaimAttempts < MaxFailedClaimAttempts
  PROVE  MayMove(c, status, now)
  <1>1. c.expiresAt \in Int /\ now < c.expiresAt
    BY DEF Checks!IsDue, CheckInv
  <1>2. status \in CheckStatuses
    BY DEF Checks!ChecksTransitions, Checks!Unresolved, CheckStatuses
  <1>3. \A n \in DOMAIN c.history : c.history[n].at <= now
    BY DEF CheckInv
  <1>4. RightEvent(c, c.status, [status |-> status, at |-> now])
    BY <1>1 DEF RightEvent
  <1>5. QED
    BY <1>2, <1>3, <1>4 DEF MayMove

LEMMA ExpiresThen ==
  ASSUME Checks!ChecksConstants, now \in Nat, NEW c, CheckInv(c, now), Checks!IsDue(c)
  PROVE  MayMove(c, "expired", c.expiresAt) /\ c.expiresAt <= now
  <1>1. c.expiresAt \in Int /\ c.expiresAt <= now /\ Checks!Unresolved(c.status)
    BY DEF Checks!IsDue, CheckInv
  <1>2. ASSUME NEW n \in DOMAIN c.history PROVE c.history[n].at <= c.expiresAt
    <2>1. RightEvent(c, StatusBefore(c, n), c.history[n])
      BY DEF CheckInv
    <2>2. c.history[n].at \in Int
      <3>1. c.history \in Seq(CheckEvents)
        BY DEF CheckInv
      <3>2. c.history[n] \in CheckEvents
        BY <3>1
      <3>3. QED
        BY <3>2 DEF CheckEvents
    <2>3. QED
      BY <1>1, <2>1, <2>2 DEF RightEvent
  <1>3. RightEvent(c, c.status, [status |-> "expired", at |-> c.expiresAt])
    BY <1>1 DEF RightEvent, Checks!ChecksTransitions, Checks!Unresolved
  <1>4. QED
    BY <1>1, <1>2, <1>3 DEF MayMove, CheckStatuses

LEMMA GrowsOn ==
  ASSUME NEW t, NEW a, NEW b, NEW c, SimInv(a, t), SimInv(b, t), SimInv(c, t),
         Grows(a, b), Grows(b, c)
  PROVE  Grows(a, c)
  <1>0. ASSUME NEW x, SimInv(x, t) PROVE Len(x.check.history) \in Nat
    <2>1. x.check.history \in Seq(CheckEvents)
      BY <1>0 DEF SimInv, CheckInv
    <2>2. QED
      BY <2>1
  <1>1. Len(a.check.history) \in Nat /\ Len(b.check.history) \in Nat /\ Len(c.check.history) \in Nat
    BY <1>0
  <1>2. /\ Len(a.check.history) <= Len(b.check.history)
        /\ Len(b.check.history) <= Len(c.check.history)
    BY DEF Grows, Continues
  <1>3. Len(a.check.history) <= Len(c.check.history)
    BY ONLY <1>1, <1>2
  <1>4. ASSUME NEW n \in DOMAIN a.check.history
        PROVE  n \in DOMAIN c.check.history /\ c.check.history[n] = a.check.history[n]
    <2>1. n \in DOMAIN b.check.history /\ b.check.history[n] = a.check.history[n]
      BY DEF Grows, Continues
    <2>2. QED
      BY <2>1 DEF Grows, Continues
  <1>5. c.check.expiresAt = a.check.expiresAt
    BY DEF Grows
  <1>6. QED
    BY <1>3, <1>4, <1>5 DEF Grows, Continues

LEMMA GrowsSame ==
  ASSUME NEW a, NEW t, SimInv(a, t), NEW b, b.check.history = a.check.history,
         b.check.expiresAt = a.check.expiresAt
  PROVE  Grows(a, b)
  <1>1. Len(a.check.history) \in Nat
    BY DEF SimInv, CheckInv
  <1>2. QED
    BY <1>1 DEF Grows, Continues

(* What every operation does first.                                        *)
LEMMA RefreshedHolds ==
  ASSUME Checks!ChecksConstants, now \in Nat, NEW sim, SimInv(sim, now),
         NEW m, m = Checks!PromotedIfCleared(Checks!ExpiredIfDue(sim))
  PROVE  SimInv(m, now) /\ Grows(sim, m) /\ ~Checks!IsDue(m.check)
  <1>1. PICK e : e = Checks!ExpiredIfDue(sim)
    OBVIOUS
  <1>2. SimInv(e, now) /\ Grows(sim, e) /\ ~Checks!IsDue(e.check)
    <2>1. CASE Checks!IsDue(sim.check)
      <3>1. e = Checks!Emitted(sim, "expired", sim.check.expiresAt)
        BY <1>1, <2>1 DEF Checks!ExpiredIfDue
      <3>2. MayMove(sim.check, "expired", sim.check.expiresAt) /\ sim.check.expiresAt <= now
        BY <2>1, ExpiresThen DEF SimInv
      <3>3. SimInv(e, now) /\ Grows(sim, e) /\ e.check.status = "expired"
        BY <3>1, <3>2, EmittedHolds
      <3>4. QED
        BY <3>3 DEF Checks!IsDue, Checks!Unresolved
    <2>2. CASE ~Checks!IsDue(sim.check)
      <3>1. e = sim
        BY <1>1, <2>2 DEF Checks!ExpiredIfDue
      <3>2. QED
        BY <2>2, <3>1, GrowsSame
    <2>3. QED
      BY <2>1, <2>2
  <1>3. CASE e.check.status = "awaiting_recipient_kyc" /\ cleared
    <2>1. m = Checks!Emitted(e, "created", now)
      BY <1>1, <1>3 DEF Checks!PromotedIfCleared
    <2>2. MayMove(e.check, "created", now)
      <3>1. /\ Checks!Unresolved(e.check.status)
            /\ "created" \in Checks!ChecksTransitions[e.check.status]
        BY <1>3 DEF Checks!Unresolved, Checks!ChecksTransitions
      <3>2. CheckInv(e.check, now)
        BY <1>2 DEF SimInv
      <3>3. QED
        BY <1>2, <3>1, <3>2, MovesNow
    <2>3. SimInv(m, now) /\ Grows(e, m)
      BY <1>2, <2>1, <2>2, EmittedHolds
    <2>4. ~Checks!IsDue(m.check)
      BY <1>2, <1>3, <2>3 DEF Checks!IsDue, Checks!Unresolved, Grows
    <2>5. Grows(sim, m)
      BY <1>2, <2>3, GrowsOn
    <2>6. QED
      BY <2>3, <2>4, <2>5
  <1>4. CASE ~(e.check.status = "awaiting_recipient_kyc" /\ cleared)
    <2>1. m = e
      BY <1>1, <1>4 DEF Checks!PromotedIfCleared
    <2>2. QED
      BY <1>2, <2>1
  <1>5. QED
    BY <1>3, <1>4

LEMMA NotYetClaimed ==
  ASSUME NEW t, NEW c, CheckInv(c, t), c.status = "created", NEW n \in DOMAIN c.history
  PROVE  c.history[n].status # "claimed"
  <1>1. c.history \in Seq(CheckEvents) /\ Len(c.history) \in Nat /\ DOMAIN c.history = 1 .. Len(c.history)
    BY DEF CheckInv
  <1>2. CASE n = Len(c.history)
    BY <1>1, <1>2 DEF CheckInv, StatusBefore
  <1>3. CASE n # Len(c.history)
    <2>1. n + 1 \in DOMAIN c.history /\ n + 1 # 1 /\ (n + 1) - 1 = n
      BY <1>1, <1>3
    <2>2. RightEvent(c, StatusBefore(c, n + 1), c.history[n + 1])
      BY <2>1 DEF CheckInv
    <2>3. StatusBefore(c, n + 1) = c.history[n].status
      BY <2>1 DEF StatusBefore
    <2>4. QED
      BY <2>2, <2>3 DEF RightEvent, Checks!ChecksTransitions
  <1>4. QED
    BY <1>2, <1>3

(* A wrong claim is counted while the check waits to be claimed.           *)
LEMMA WrongClaimHolds ==
  ASSUME NEW t, NEW sim, SimInv(sim, t), sim.check.status = "created",
         NEW m, m = [sim EXCEPT !.check.failedClaimAttempts = @ + 1]
  PROVE  SimInv(m, t) /\ Grows(sim, m)
  <1> DEFINE c == sim.check
  <1>1. CheckInv(c, t) /\ DOMAIN sim = {"check", "queue"} /\ QueueInv(c.history, sim.queue)
    BY DEF SimInv
  <1>2. PICK d : d = [c EXCEPT !.failedClaimAttempts = @ + 1]
    OBVIOUS
  <1>3. DOMAIN m = {"check", "queue"} /\ m.check = d /\ m.queue = sim.queue
    BY <1>1, <1>2
  <1>4. /\ DOMAIN d = CheckFields /\ d.status = c.status /\ d.history = c.history
        /\ d.expiresAt = c.expiresAt /\ d.failedClaimAttempts = c.failedClaimAttempts + 1
    BY <1>1, <1>2 DEF CheckInv, CheckFields
  <1>5. \A n : StatusBefore(d, n) = StatusBefore(c, n)
    BY <1>4 DEF StatusBefore
  <1>6. \A n \in DOMAIN d.history : RightEvent(d, StatusBefore(d, n), d.history[n])
    <2> SUFFICES ASSUME NEW n \in DOMAIN c.history
                 PROVE  RightEvent(d, StatusBefore(c, n), c.history[n])
      BY <1>4, <1>5
    <2>1. RightEvent(c, StatusBefore(c, n), c.history[n])
      BY <1>1 DEF CheckInv
    <2>2. c.history[n].status # "claimed"
      BY <1>1, NotYetClaimed
    <2>3. QED
      BY <1>4, <2>1, <2>2 DEF RightEvent
  <1>7. CheckInv(d, t)
    BY <1>1, <1>4, <1>5, <1>6 DEF CheckInv
  <1>8. SimInv(m, t)
    BY <1>1, <1>3, <1>4, <1>7 DEF SimInv
  <1>9. QED
    BY <1>3, <1>4, <1>8, GrowsSame

(* Issuing, cancelling and claiming.                                       *)
LEMMA MoveHolds ==
  ASSUME Checks!ChecksConstants, now \in Nat, NEW sim, SimInv(sim, now), ~Checks!IsDue(sim.check),
         Checks!Unresolved(sim.check.status), NEW status,
         status \in Checks!ChecksTransitions[sim.check.status], status # "expired",
         status = "claimed" => sim.check.failedClaimAttempts < MaxFailedClaimAttempts,
         NEW m, m = Checks!Emitted(sim, status, now)
  PROVE  SimInv(m, now) /\ Grows(sim, m)
  <1>1. CheckInv(sim.check, now)
    BY DEF SimInv
  <1>2. MayMove(sim.check, status, now)
    BY <1>1, MovesNow
  <1>3. QED
    BY <1>2, EmittedHolds

LEMMA OperationHolds ==
  ASSUME Checks!ChecksConstants, now \in Nat, NEW sim, SimInv(sim, now), sim = [check |-> check, queue |-> queue],
         \/ \E member \in Checks!Members :
              \/ Checks!IssueCheck(member) \/ Checks!CancelCheck(member)
              \/ \E matches \in BOOLEAN : Checks!ClaimCheck(member, matches)
         \/ Checks!GetCheckStatus
  PROVE  \E m : SimInv(m, now) /\ Grows(sim, m) /\ Checks!Becomes(m)
  <1>1. PICK r : r = Checks!Refreshed
    OBVIOUS
  <1>2. SimInv(r, now) /\ Grows(sim, r) /\ ~Checks!IsDue(r.check)
    BY <1>1, RefreshedHolds DEF Checks!Refreshed
  <1>3. ASSUME NEW m, SimInv(m, now), Grows(r, m), Checks!Becomes(m)
        PROVE  SimInv(m, now) /\ Grows(sim, m) /\ Checks!Becomes(m)
    BY <1>2, <1>3, GrowsOn
  <1>4. ASSUME Checks!Becomes(r)
        PROVE  \E m : SimInv(m, now) /\ Grows(sim, m) /\ Checks!Becomes(m)
    BY <1>2, <1>4
  <1>5. ASSUME NEW member, Checks!IssueCheck(member)
        PROVE  \E m : SimInv(m, now) /\ Grows(sim, m) /\ Checks!Becomes(m)
    <2>1. CASE member = "sender" /\ r.check.status = "awaiting_confirmation"
      <3>1. PICK status : status = IF cleared THEN "created" ELSE "awaiting_recipient_kyc"
        OBVIOUS
      <3>2. PICK m : m = Checks!Emitted(r, status, now)
        OBVIOUS
      <3>3. Checks!Becomes(m)
        BY <1>1, <1>5, <2>1, <3>1, <3>2 DEF Checks!IssueCheck
      <3>4. /\ Checks!Unresolved(r.check.status)
            /\ status \in Checks!ChecksTransitions[r.check.status]
            /\ status # "expired" /\ status # "claimed"
        BY <2>1, <3>1 DEF Checks!Unresolved, Checks!ChecksTransitions
      <3>5. SimInv(m, now) /\ Grows(r, m)
        BY <1>2, <3>2, <3>4, MoveHolds
      <3>6. QED
        BY <1>3, <3>3, <3>5
    <2>2. CASE ~(member = "sender" /\ r.check.status = "awaiting_confirmation")
      <3>1. Checks!Becomes(r)
        BY <1>1, <1>5, <2>2 DEF Checks!IssueCheck
      <3>2. QED
        BY <1>4, <3>1
    <2>3. QED
      BY <2>1, <2>2
  <1>6. ASSUME NEW member, Checks!CancelCheck(member)
        PROVE  \E m : SimInv(m, now) /\ Grows(sim, m) /\ Checks!Becomes(m)
    <2>1. CASE member = "sender" /\ Checks!Unresolved(r.check.status)
      <3>1. PICK m : m = Checks!Emitted(r, "cancelled", now)
        OBVIOUS
      <3>2. Checks!Becomes(m)
        BY <1>1, <1>6, <2>1, <3>1 DEF Checks!CancelCheck
      <3>3. "cancelled" \in Checks!ChecksTransitions[r.check.status]
        BY <2>1 DEF Checks!Unresolved, Checks!ChecksTransitions
      <3>4. SimInv(m, now) /\ Grows(r, m)
        BY <1>2, <2>1, <3>1, <3>3, MoveHolds
      <3>5. QED
        BY <1>3, <3>2, <3>4
    <2>2. CASE ~(member = "sender" /\ Checks!Unresolved(r.check.status))
      <3>1. Checks!Becomes(r)
        BY <1>1, <1>6, <2>2 DEF Checks!CancelCheck
      <3>2. QED
        BY <1>4, <3>1
    <2>3. QED
      BY <2>1, <2>2
  <1>7. ASSUME NEW member, NEW matches \in BOOLEAN, Checks!ClaimCheck(member, matches)
        PROVE  \E m : SimInv(m, now) /\ Grows(sim, m) /\ Checks!Becomes(m)
    <2>1. CASE ~Checks!MayClaim(member, r.check)
      <3>1. Checks!Becomes(r)
        BY <1>1, <1>7, <2>1 DEF Checks!ClaimCheck
      <3>2. QED
        BY <1>4, <3>1
    <2>2. CASE Checks!MayClaim(member, r.check) /\ matches
      <3>1. PICK m : m = Checks!Emitted(r, "claimed", now)
        OBVIOUS
      <3>2. Checks!Becomes(m)
        BY <1>1, <1>7, <2>2, <3>1 DEF Checks!ClaimCheck
      <3>3. /\ r.check.status = "created"
            /\ r.check.failedClaimAttempts < MaxFailedClaimAttempts
        BY <2>2 DEF Checks!MayClaim
      <3>4. /\ Checks!Unresolved(r.check.status)
            /\ "claimed" \in Checks!ChecksTransitions[r.check.status]
        BY <3>3 DEF Checks!Unresolved, Checks!ChecksTransitions
      <3>5. SimInv(m, now) /\ Grows(r, m)
        BY <1>2, <3>1, <3>3, <3>4, MoveHolds
      <3>6. QED
        BY <1>3, <3>2, <3>5
    <2>3. CASE Checks!MayClaim(member, r.check) /\ ~matches
      <3>1. PICK m : m = [r EXCEPT !.check.failedClaimAttempts = @ + 1]
        OBVIOUS
      <3>2. Checks!Becomes(m)
        BY <1>1, <1>7, <2>3, <3>1 DEF Checks!ClaimCheck
      <3>3. SimInv(m, now) /\ Grows(r, m)
        BY <1>2, <2>3, <3>1, WrongClaimHolds DEF Checks!MayClaim
      <3>4. QED
        BY <1>3, <3>2, <3>3
    <2>4. QED
      BY <2>1, <2>2, <2>3
  <1>8. ASSUME Checks!GetCheckStatus
        PROVE  \E m : SimInv(m, now) /\ Grows(sim, m) /\ Checks!Becomes(m)
    BY <1>1, <1>4, <1>8 DEF Checks!GetCheckStatus
  <1>9. QED
    BY <1>5, <1>6, <1>7, <1>8
-----------------------------------------------------------------------------
(* What the receiver holds, applied or parked, happened to the check.      *)
HeldOf(history, x) ==
  /\ DOMAIN x = SubjectFields /\ x.sequence \in Nat
  /\ \A n \in 1 .. x.sequence : n \in DOMAIN x.applied
  /\ \A n \in DOMAIN x.applied : ToldOf(history, n, x.applied[n])
  /\ \A n \in DOMAIN x.parked : n > x.sequence + 1 /\ ToldOf(history, n, x.parked[n])

BoxOf(history, box) ==
  /\ DOMAIN box = {"subjects", "events"}
  /\ \A s \in DOMAIN box.subjects : HeldOf(history, box.subjects[s])

(* A delivery the verifier accepted is too old now, or remembered.         *)
NoncesInv(nonces, accepted, t) ==
  \A d \in accepted :
    /\ d.at \in Int
    /\ \/ d.at + MaxAgeSeconds < t
       \/ \E seen \in nonces :
            /\ seen.nonce = d.nonce
            /\ seen.expiresAt = d.at + MaxAgeSeconds + MaxFutureSeconds

ReceiverInv(history, r, t) ==
  /\ DOMAIN r = {"nonces", "accepted", "inbox"}
  /\ NoncesInv(r.nonces, r.accepted, t) /\ BoxOf(history, r.inbox)

LEMMA SameInboxCount == \A S : Checks!Channel!Inbox!Cardinality(S) = Cardinality(S)
  BY DEF Cardinality, Checks!Channel!Inbox!Cardinality

LEMMA CheckFolded ==
  ASSUME NEW N \in Nat, NEW history, DOMAIN history = 1 .. N, NEW x,
         DOMAIN x = SubjectFields, x.sequence \in Nat,
         \A n \in 1 .. x.sequence : n \in DOMAIN x.applied,
         \A n \in DOMAIN x.applied : ToldOf(history, n, x.applied[n]),
         \A n \in DOMAIN x.parked : n > x.sequence /\ ToldOf(history, n, x.parked[n]),
         NEW y, y = Checks!Channel!Inbox!Folded(x)
  PROVE  HeldOf(history, y)
  <1>0. PICK turn : turn = Checks!Channel!Inbox!InTurn(x)
    OBVIOUS
  <1> DEFINE from == x.sequence + 1
             last == x.sequence + Cardinality(turn)
             kept == Checks!Channel!Inbox!Except(x.parked, turn \cup {last + 1})
             told == [n \in DOMAIN x.applied \cup turn |->
                        IF n \in turn THEN x.parked[n] ELSE x.applied[n]]
             InRow(k) == /\ k \in DOMAIN x.parked
                         /\ x.parked[k] \in Checks!ChecksTransitions[
                              IF k = from THEN x.status ELSE x.parked[k - 1]]
  <1>1. turn = {n \in DOMAIN x.parked : \A k \in from .. n : InRow(k)}
    BY <1>0 DEF Checks!Channel!Inbox!InTurn
  <1> HIDE DEF InRow
  <1>2. DOMAIN x.parked \subseteq from .. N
    BY DEF ToldOf
  <1>3. \A n \in turn : \A k \in from .. n : k \in turn
    <2> SUFFICES ASSUME NEW n \in turn, NEW k \in from .. n PROVE k \in turn
      OBVIOUS
    <2>1. n \in from .. N /\ k \in Nat
      BY <1>1, <1>2
    <2>2. InRow(k) /\ \A i \in from .. k : InRow(i)
      BY <1>1, <2>1
    <2>3. k \in DOMAIN x.parked
      BY <2>2 DEF InRow
    <2>4. QED
      BY <1>1, <2>2, <2>3
  <1>4. turn = from .. (from - 1 + Cardinality(turn)) /\ Cardinality(turn) \in Nat
    <2>1. from \in Nat /\ from >= 1 /\ turn \subseteq from .. N
      BY <1>1, <1>2
    <2> HIDE DEF from
    <2>2. QED
      BY ONLY N \in Nat, <1>3, <2>1, GaplessInterval
  <1>5. turn = from .. last /\ last \in Nat /\ last >= x.sequence
    BY <1>4
  <1>6. y = [x EXCEPT !.status = IF turn = {} THEN x.status ELSE x.parked[last],
                      !.sequence = last, !.applied = told, !.parked = kept]
    BY <1>0, SameInboxCount DEF Checks!Channel!Inbox!Folded
  <1>7. /\ DOMAIN kept = DOMAIN x.parked \ (turn \cup {last + 1})
        /\ \A n \in DOMAIN kept : kept[n] = x.parked[n]
    BY DEF Checks!Channel!Inbox!Except
  <1>8. /\ DOMAIN told = DOMAIN x.applied \cup turn
        /\ \A n \in DOMAIN told : told[n] = IF n \in turn THEN x.parked[n] ELSE x.applied[n]
    OBVIOUS
  <1>9. turn \subseteq DOMAIN x.parked
    BY <1>1
  <1> HIDE DEF kept, told, last
  <1>10. /\ DOMAIN y = SubjectFields /\ y.sequence = last /\ y.applied = told /\ y.parked = kept
    BY <1>6 DEF SubjectFields
  <1>11. \A n \in 1 .. last : n \in DOMAIN told
    <2> SUFFICES ASSUME NEW n \in 1 .. last, n \notin 1 .. x.sequence PROVE n \in turn
      BY <1>8
    <2>1. QED
      BY <1>5
  <1>12. \A n \in DOMAIN told : ToldOf(history, n, told[n])
    BY <1>8, <1>9
  <1>13. ASSUME NEW n \in DOMAIN kept PROVE n > last + 1 /\ ToldOf(history, n, kept[n])
    <2>1. n \in from .. N /\ n \notin turn /\ n # last + 1 /\ n \in DOMAIN x.parked
      BY <1>2, <1>7
    <2>2. n > last + 1
      BY <1>5, <2>1
    <2>3. QED
      BY <1>7, <2>1, <2>2
  <1>14. QED
    BY <1>5, <1>10, <1>11, <1>12, <1>13 DEF HeldOf

LEMMA CheckDelivered ==
  ASSUME NEW N \in Nat, NEW history, DOMAIN history = 1 .. N, NEW x, HeldOf(history, x),
         NEW n, NEW status, ToldOf(history, n, status),
         NEW y, y = Checks!Channel!Inbox!Delivered(x, n, status)
  PROVE  HeldOf(history, y)
  <1>0. n \in 1 .. N /\ x.sequence \in Nat /\ DOMAIN x = SubjectFields
    BY DEF ToldOf, HeldOf
  <1>1. CASE y = x
    BY <1>1
  <1>2. CASE y = [x EXCEPT !.parked = Checks!Channel!Inbox!Mapped(@, n, status)] /\ n > x.sequence + 1
    <2> DEFINE more == Checks!Channel!Inbox!Mapped(x.parked, n, status)
    <2>1. /\ DOMAIN more = DOMAIN x.parked \cup {n}
          /\ \A k \in DOMAIN more : more[k] = IF k = n THEN status ELSE x.parked[k]
      BY DEF Checks!Channel!Inbox!Mapped
    <2>2. /\ DOMAIN y = SubjectFields /\ y.parked = more /\ y.sequence = x.sequence
          /\ y.applied = x.applied
      BY <1>0, <1>2 DEF SubjectFields
    <2> HIDE DEF more
    <2>3. QED
      BY <1>2, <2>1, <2>2 DEF HeldOf
  <1>3. CASE /\ y = Checks!Channel!Inbox!Folded(Checks!Channel!Inbox!Applied(x, status))
             /\ n = x.sequence + 1
    <2> DEFINE more == Checks!Channel!Inbox!Mapped(x.applied, n, status)
    <2>1. PICK z : z = Checks!Channel!Inbox!Applied(x, status)
      OBVIOUS
    <2>2. /\ DOMAIN more = DOMAIN x.applied \cup {n}
          /\ \A k \in DOMAIN more : more[k] = IF k = n THEN status ELSE x.applied[k]
      BY DEF Checks!Channel!Inbox!Mapped
    <2>3. /\ DOMAIN z = SubjectFields /\ z.sequence = n /\ z.applied = more /\ z.parked = x.parked
      BY <1>0, <1>3, <2>1 DEF Checks!Channel!Inbox!Applied, SubjectFields
    <2> HIDE DEF more
    <2>4. \A k \in 1 .. n : k \in DOMAIN more
      <3> SUFFICES ASSUME NEW k \in 1 .. n, k # n PROVE k \in DOMAIN x.applied
        BY <2>2
      <3>1. k \in 1 .. x.sequence
        BY <1>0, <1>3
      <3>2. QED
        BY <3>1 DEF HeldOf
    <2>5. \A k \in DOMAIN more : ToldOf(history, k, more[k])
      BY <2>2 DEF HeldOf
    <2>6. \A k \in DOMAIN x.parked : k > n /\ ToldOf(history, k, x.parked[k])
      BY <1>3 DEF HeldOf
    <2>7. n \in Nat /\ y = Checks!Channel!Inbox!Folded(z)
      BY <1>0, <1>3, <2>1
    <2>8. QED
      BY <2>3, <2>4, <2>5, <2>6, <2>7, CheckFolded
  <1>4. QED
    BY <1>0, <1>1, <1>2, <1>3 DEF Checks!Channel!Inbox!Delivered

LEMMA CheckAccepted ==
  ASSUME NEW N \in Nat, NEW history, DOMAIN history = 1 .. N, NEW box, BoxOf(history, box),
         NEW s, NEW event, NEW n, NEW status, ToldOf(history, n, status), NEW t,
         NEW new, new = Checks!Channel!Inbox!Accepted(box, s, event, n, status, t)
  PROVE  BoxOf(history, new)
  <1>1. CASE ~Checks!Channel!Inbox!Takes(box, s, event)
    BY <1>1 DEF Checks!Channel!Inbox!Accepted
  <1>2. CASE Checks!Channel!Inbox!Takes(box, s, event)
    <2>1. s \in DOMAIN box.subjects /\ HeldOf(history, box.subjects[s])
      BY <1>2 DEF Checks!Channel!Inbox!Takes, BoxOf
    <2>2. PICK noted : noted = [box.subjects[s] EXCEPT !.eventIds = @ \cup {event}]
      OBVIOUS
    <2>3. HeldOf(history, noted)
      <3>1. /\ DOMAIN noted = SubjectFields /\ noted.sequence = box.subjects[s].sequence
            /\ noted.applied = box.subjects[s].applied /\ noted.parked = box.subjects[s].parked
        BY <2>1, <2>2 DEF HeldOf, SubjectFields
      <3>2. QED
        BY <2>1, <3>1 DEF HeldOf
    <2>4. PICK y : y = Checks!Channel!Inbox!Delivered(noted, n, status)
      OBVIOUS
    <2>5. HeldOf(history, y)
      BY <2>3, <2>4, CheckDelivered
    <2>6. PICK z : z = [y EXCEPT !.claims = @ \cup {<<n, status>>}]
      OBVIOUS
    <2>7. HeldOf(history, z)
      <3>1. /\ DOMAIN z = SubjectFields /\ z.sequence = y.sequence
            /\ z.applied = y.applied /\ z.parked = y.parked
        BY <2>5, <2>6 DEF HeldOf, SubjectFields
      <3>2. QED
        BY <2>5, <3>1 DEF HeldOf
    <2>8. PICK left \in {noted, z} : /\ DOMAIN new = {"subjects", "events"}
                                     /\ new.subjects = [box.subjects EXCEPT ![s] = left]
      BY <1>2, <2>2, <2>4, <2>6 DEF Checks!Channel!Inbox!Accepted
    <2>9. HeldOf(history, left)
      BY <2>3, <2>7, <2>8
    <2>10. QED
      BY <2>8, <2>9 DEF BoxOf
  <1>3. QED
    BY <1>1, <1>2

(* A longer history of the check takes nothing back.                       *)
LEMMA HeldStill ==
  ASSUME NEW old, NEW new, Continues(old, new), NEW r, NEW t, ReceiverInv(old, r, t)
  PROVE  ReceiverInv(new, r, t)
  <1>1. \A n, status : ToldOf(old, n, status) => ToldOf(new, n, status)
    BY DEF Continues, ToldOf
  <1>2. ASSUME NEW x, HeldOf(old, x) PROVE HeldOf(new, x)
    BY <1>1, <1>2 DEF HeldOf
  <1>3. QED
    BY <1>2 DEF ReceiverInv, BoxOf

(* What the nonce store forgets at a reading of the clock is too old for   *)
(* the next ones.                                                          *)
LEMMA NoncesKept ==
  ASSUME Checks!ChecksConstants, NEW t \in Nat, NEW nonces, NEW accepted, NoncesInv(nonces, accepted, t),
         NEW reading \in Int, reading <= t + MaxFutureSeconds
  PROVE  NoncesInv(Checks!Channel!Kept(nonces, reading), accepted, t)
  <1> SUFFICES ASSUME NEW d \in accepted, ~(d.at + MaxAgeSeconds < t)
               PROVE  \E seen \in Checks!Channel!Kept(nonces, reading) :
                        /\ seen.nonce = d.nonce
                        /\ seen.expiresAt = d.at + MaxAgeSeconds + MaxFutureSeconds
    BY DEF NoncesInv
  <1>1. PICK seen \in nonces : /\ seen.nonce = d.nonce
                              /\ seen.expiresAt = d.at + MaxAgeSeconds + MaxFutureSeconds
    BY DEF NoncesInv
  <1>2. d.at \in Int
    BY DEF NoncesInv
  <1>3. ~(seen.expiresAt < reading)
    BY <1>1, <1>2 DEF Checks!ChecksConstants
  <1>4. seen \in Checks!Channel!Kept(nonces, reading)
    BY <1>3 DEF Checks!Channel!Kept
  <1>5. QED
    BY <1>1, <1>4

LEMMA NoncesRecorded ==
  ASSUME Checks!ChecksConstants, NEW t \in Nat, NEW nonces, NEW accepted, NoncesInv(nonces, accepted, t),
         NEW reading \in Int, reading <= t + MaxFutureSeconds, NEW d, d.at \in Int,
         NEW noted, noted = Checks!Channel!Recorded(nonces, d, reading)
  PROVE  /\ NoncesInv(noted, accepted, t)
         /\ Checks!Channel!Fresh(nonces, d, reading) => NoncesInv(noted, accepted \cup {d}, t)
  <1> DEFINE kept == Checks!Channel!Kept(nonces, reading)
             seen == [nonce |-> d.nonce, expiresAt |-> Checks!Channel!NonceExpiry(d)]
  <1>1. NoncesInv(kept, accepted, t)
    BY NoncesKept
  <1>2. \/ noted = nonces /\ ~Checks!Channel!Fresh(nonces, d, reading)
        \/ noted = kept /\ ~Checks!Channel!Fresh(nonces, d, reading)
        \/ noted = kept \cup {seen}
    BY DEF Checks!Channel!Recorded, Checks!Channel!Fresh
  <1> HIDE DEF kept
  <1>3. seen.nonce = d.nonce /\ seen.expiresAt = d.at + MaxAgeSeconds + MaxFutureSeconds
    BY DEF Checks!Channel!NonceExpiry
  <1> HIDE DEF seen
  <1>4. NoncesInv(kept \cup {seen}, accepted \cup {d}, t)
    BY <1>1, <1>3 DEF NoncesInv
  <1>5. QED
    BY <1>1, <1>2, <1>4 DEF NoncesInv
-----------------------------------------------------------------------------
ChecksInv ==
  /\ now \in Nat
  /\ \/ check = Checks!NoCheck /\ QueueInv(check.history, queue)
     \/ SimInv([check |-> check, queue |-> queue], now)
  /\ \A d \in wire : SaysOf(check.history, d)
  /\ ReceiverInv(check.history, receiver, now)

LEMMA HistoryShape ==
  ASSUME ChecksInv
  PROVE  /\ Len(check.history) \in 0 .. 4 /\ DOMAIN check.history = 1 .. Len(check.history)
         /\ QueueInv(check.history, queue)
  <1>1. CASE check = Checks!NoCheck /\ QueueInv(check.history, queue)
    <2>1. check.history = << >>
      BY <1>1 DEF Checks!NoCheck
    <2>2. QED
      BY <1>1, <2>1
  <1>2. CASE SimInv([check |-> check, queue |-> queue], now)
    <2>1. CheckInv(check, now) /\ QueueInv(check.history, queue)
      BY <1>2 DEF SimInv
    <2>2. /\ check.history \in Seq(CheckEvents) /\ Len(check.history) \in Nat
          /\ DOMAIN check.history = 1 .. Len(check.history)
          /\ Len(check.history) <= Rank[check.status]
          /\ check.status = StatusBefore(check, Len(check.history) + 1)
      BY <2>1 DEF CheckInv
    <2>3. check.status \in CheckStatuses
      <3>1. CASE Len(check.history) = 0
        BY <2>2, <3>1 DEF StatusBefore, CheckStatuses
      <3>2. CASE Len(check.history) # 0
        <4>1. check.history[Len(check.history)] \in CheckEvents
          BY <2>2, <3>2
        <4>2. check.status = check.history[Len(check.history)].status
          BY <2>2, <3>2 DEF StatusBefore
        <4>3. QED
          BY <4>1, <4>2 DEF CheckEvents
      <3>3. QED
        BY <3>1, <3>2
    <2>4. Rank[check.status] \in 0 .. 4
      BY <2>3 DEF Rank, CheckStatuses
    <2>5. Len(check.history) \in 0 .. 4
      <3>1. PICK n, r : n = Len(check.history) /\ r = Rank[check.status]
        OBVIOUS
      <3>2. n \in Nat /\ n <= r /\ r \in 0 .. 4
        BY <2>2, <2>4, <3>1
      <3>3. n \in 0 .. 4
        BY ONLY <3>2
      <3>4. QED
        BY <3>1, <3>3
    <2>6. QED
      BY <2>1, <2>2, <2>5
  <1>3. QED
    BY <1>1, <1>2 DEF ChecksInv

LEMMA ChecksStart == ASSUME Checks!ChecksConstants, Checks!Init PROVE ChecksInv
  <1>1. /\ now = 0 /\ queue = [pending |-> {}, order |-> 0] /\ wire = {}
        /\ receiver = [nonces |-> {}, accepted |-> {},
                       inbox |-> [subjects |-> << >>, events |-> << >>]]
        /\ check = Checks!NoCheck
    BY DEF Checks!Init, Checks!Channel!ChannelInit, Checks!Channel!NothingQueued
  <1>2. check.history = << >> /\ Len(check.history) = 0
    BY <1>1 DEF Checks!NoCheck
  <1>3. QueueInv(check.history, queue)
    BY <1>1, <1>2, FS_EmptySet DEF QueueInv
  <1>4. ReceiverInv(check.history, receiver, now)
    BY <1>1 DEF ReceiverInv, NoncesInv, BoxOf
  <1>5. QED
    BY <1>1, <1>3, <1>4 DEF ChecksInv

(* An operation on the check.                                              *)
LEMMA BecomesKeeps ==
  ASSUME ChecksInv, NEW m, SimInv(m, now), Continues(check.history, m.check.history), Checks!Becomes(m)
  PROVE  ChecksInv'
  <1>1. /\ check' = m.check /\ queue' = m.queue /\ now' = now /\ wire' = wire
        /\ receiver' = receiver /\ DOMAIN m = {"check", "queue"}
    BY DEF Checks!Becomes, SimInv
  <1>2. SimInv([check |-> m.check, queue |-> m.queue], now)
    BY DEF SimInv
  <1>3. \A d \in wire : SaysOf(m.check.history, d)
    BY SaysStill DEF ChecksInv
  <1>4. ReceiverInv(m.check.history, receiver, now)
    BY HeldStill DEF ChecksInv
  <1>5. QED
    BY <1>1, <1>2, <1>3, <1>4 DEF ChecksInv

LEMMA CreateKeeps ==
  ASSUME Checks!ChecksConstants, ChecksInv, NEW delivery, Checks!CreateCheck(delivery)
  PROVE  ChecksInv'
  <1> DEFINE new == [status |-> "registered", delivery |-> delivery, history |-> << >>,
                     expiresAt |-> now + CheckTtl, failedClaimAttempts |-> 0]
             sim == [check |-> new, queue |-> queue]
  <1>1. check = Checks!NoCheck /\ now \in Nat
    BY DEF Checks!CreateCheck, Checks!Exists, ChecksInv
  <1>2. check.history = << >> /\ QueueInv(<< >>, queue)
    BY <1>1, HistoryShape DEF Checks!NoCheck
  <1>3. CheckInv(new, now)
    BY <1>1 DEF CheckInv, CheckFields, StatusBefore, Rank, Checks!ChecksConstants
  <1>4. SimInv(sim, now)
    BY <1>2, <1>3 DEF SimInv
  <1>5. MayMove(new, "awaiting_confirmation", now)
    <2>1. now < now + CheckTtl
      BY <1>1 DEF Checks!ChecksConstants
    <2>2. RightEvent(new, "registered", [status |-> "awaiting_confirmation", at |-> now])
      BY <2>1 DEF RightEvent, Checks!ChecksTransitions
    <2>3. QED
      BY <1>1, <2>2 DEF MayMove, CheckStatuses
  <1>6. PICK m : m = Checks!Emitted(sim, "awaiting_confirmation", now)
    OBVIOUS
  <1>7. Checks!Becomes(m)
    BY <1>6 DEF Checks!CreateCheck
  <1>8. sim.check = new /\ new.history = << >>
    OBVIOUS
  <1> HIDE DEF sim, new
  <1>9. SimInv(m, now)
    <2>1. MayMove(sim.check, "awaiting_confirmation", now) /\ now \in Int /\ now <= now
      BY <1>1, <1>5, <1>8
    <2>2. QED
      BY <1>4, <1>6, <2>1, EmittedHolds
  <1>10. Continues(check.history, m.check.history)
    <2>1. Len(m.check.history) \in Nat
      BY <1>9 DEF SimInv, CheckInv
    <2>2. QED
      BY <1>2, <2>1 DEF Continues
  <1>11. QED
    BY <1>7, <1>9, <1>10, BecomesKeeps

LEMMA OperationKeeps ==
  ASSUME Checks!ChecksConstants, ChecksInv,
         \/ \E member \in Checks!Members :
              \/ Checks!IssueCheck(member) \/ Checks!CancelCheck(member)
              \/ \E matches \in BOOLEAN : Checks!ClaimCheck(member, matches)
         \/ Checks!GetCheckStatus
  PROVE  ChecksInv'
  <1>1. check # Checks!NoCheck
    BY DEF Checks!IssueCheck, Checks!CancelCheck, Checks!ClaimCheck, Checks!GetCheckStatus, Checks!Exists
  <1>2. PICK sim : sim = [check |-> check, queue |-> queue]
    OBVIOUS
  <1>3. SimInv(sim, now) /\ now \in Nat
    BY <1>1, <1>2 DEF ChecksInv
  <1>4. PICK m : SimInv(m, now) /\ Grows(sim, m) /\ Checks!Becomes(m)
    BY <1>2, <1>3, OperationHolds
  <1>5. Continues(check.history, m.check.history)
    BY <1>2, <1>4 DEF Grows
  <1>6. QED
    BY <1>4, <1>5, BecomesKeeps
-----------------------------------------------------------------------------
LEMMA CheckTick == 
  ASSUME Checks!ChecksConstants, ChecksInv, Checks!Channel!Tick, check' = check
  PROVE  ChecksInv'
  <1>1. /\ now \in Nat /\ now' = now + 1 /\ queue' = queue /\ wire' = wire /\ receiver' = receiver
    BY DEF Checks!Channel!Tick, ChecksInv
  <1> DEFINE sim == [check |-> check, queue |-> queue]
  <1>2. ASSUME SimInv(sim, now) PROVE SimInv(sim, now + 1)
    <2>1. CheckInv(check, now) /\ QueueInv(check.history, queue)
      BY <1>2 DEF SimInv
    <2>2. check.history \in Seq(CheckEvents)
      BY <2>1 DEF CheckInv
    <2>3. \A n \in DOMAIN check.history : check.history[n].at <= now + 1
      <3> SUFFICES ASSUME NEW n \in DOMAIN check.history PROVE check.history[n].at <= now + 1
        OBVIOUS
      <3>1. check.history[n] \in CheckEvents
        BY <2>2
      <3>2. check.history[n].at \in Int /\ check.history[n].at <= now
        BY <2>1, <3>1 DEF CheckEvents, CheckInv
      <3>3. QED
        BY <1>1, <3>2
    <2>4. CheckInv(check, now + 1)
      BY <2>1, <2>3 DEF CheckInv
    <2>5. QED
      BY <2>1, <2>4 DEF SimInv
  <1>3. ReceiverInv(check.history, receiver, now + 1)
    <2>1. NoncesInv(receiver.nonces, receiver.accepted, now)
      BY DEF ChecksInv, ReceiverInv
    <2>2. NoncesInv(receiver.nonces, receiver.accepted, now + 1)
      <3> SUFFICES ASSUME NEW d \in receiver.accepted, d.at + MaxAgeSeconds < now
                   PROVE  d.at + MaxAgeSeconds < now + 1
        BY <2>1 DEF NoncesInv
      <3>1. d.at \in Int /\ MaxAgeSeconds \in Nat
        BY <2>1 DEF NoncesInv, Checks!ChecksConstants
      <3>2. QED
        BY <1>1, <3>1
    <2>3. QED
      BY <2>2 DEF ChecksInv, ReceiverInv
  <1>4. QED
    BY <1>1, <1>2, <1>3 DEF ChecksInv

LEMMA CheckDrain ==
  ASSUME ChecksInv, Checks!Channel!DrainCallbacks, check' = check
  PROVE  ChecksInv'
  <1>1. /\ now' = now /\ receiver' = receiver
        /\ queue' = [queue EXCEPT !.pending = @ \ Checks!Channel!Due(queue, now)]
        /\ wire' = wire \cup Checks!Channel!Due(queue, now)
    BY DEF Checks!Channel!DrainCallbacks, Checks!Channel!Drained
  <1>2. Checks!Channel!Due(queue, now) \subseteq queue.pending
    BY DEF Checks!Channel!Due
  <1>3. QueueInv(check.history, queue)
    BY HistoryShape
  <1>4. QueueInv(check.history, queue')
    <2>1. /\ DOMAIN queue' = {"pending", "order"} /\ queue'.order = queue.order
          /\ queue'.pending \subseteq queue.pending
      BY <1>1, <1>3 DEF QueueInv
    <2>2. IsFiniteSet(queue.pending) /\ Cardinality(queue.pending) \in Nat
      BY <1>3, FS_CardinalityType DEF QueueInv
    <2>3. IsFiniteSet(queue'.pending) /\ Cardinality(queue'.pending) <= Cardinality(queue.pending)
      BY <2>1, <2>2, FS_Subset
    <2>4. Cardinality(queue'.pending) \in Nat /\ Len(check.history) \in Nat
      BY <2>3, FS_CardinalityType, HistoryShape
    <2>5. Cardinality(queue'.pending) <= 2 * Len(check.history)
      BY <1>3, <2>2, <2>3, <2>4 DEF QueueInv
    <2>6. QED
      BY <1>3, <2>1, <2>3, <2>5 DEF QueueInv
  <1>5. \A d \in wire' : SaysOf(check.history, d)
    BY <1>1, <1>2, <1>3 DEF ChecksInv, QueueInv
  <1>6. ASSUME SimInv([check |-> check, queue |-> queue], now)
        PROVE  SimInv([check |-> check, queue |-> queue'], now)
    BY <1>4, <1>6 DEF SimInv
  <1>7. QED
    BY <1>1, <1>4, <1>5, <1>6 DEF ChecksInv

(* A step of the receiver alone.                                           *)
LEMMA ReceiverStep ==
  ASSUME ChecksInv, UNCHANGED <<now, queue, wire>>, check' = check,
         ReceiverInv(check.history, receiver', now)
  PROVE  ChecksInv'
  BY DEF ChecksInv

LEMMA CheckOpen ==
  ASSUME ChecksInv, NEW s, NEW expiresAt, Checks!Channel!Open(s, expiresAt), check' = check
  PROVE  ChecksInv'
  <1> DEFINE h == check.history
             box == receiver.inbox
  <1>1. ReceiverInv(h, receiver, now)
    BY DEF ChecksInv
  <1>2. PICK new : new = Checks!Channel!Inbox!Opened(box, s, expiresAt + Grace)
    OBVIOUS
  <1>3. receiver' = [receiver EXCEPT !.inbox = new] /\ UNCHANGED <<now, queue, wire>>
    BY <1>2 DEF Checks!Channel!Open
  <1>4. PICK x : x = [status |-> "registered", sequence |-> 0, deadline |-> expiresAt + Grace,
                      timedOut |-> FALSE, parked |-> << >>, applied |-> << >>,
                      eventIds |-> {}, claims |-> {}]
    OBVIOUS
  <1>5. HeldOf(h, x)
    BY <1>4 DEF HeldOf, SubjectFields
  <1>6. /\ DOMAIN new = {"subjects", "events"}
        /\ DOMAIN new.subjects = DOMAIN box.subjects \cup {s}
        /\ \A k \in DOMAIN new.subjects : new.subjects[k] = IF k = s THEN x ELSE box.subjects[k]
    <2>1. new = [box EXCEPT !.subjects = [k \in DOMAIN @ \cup {s} |-> IF k = s THEN x ELSE @[k]]]
      BY <1>2, <1>4 DEF Checks!Channel!Inbox!Opened, Checks!Channel!Inbox!Mapped
    <2>2. DOMAIN box = {"subjects", "events"}
      BY <1>1 DEF ReceiverInv, BoxOf
    <2>3. QED
      BY <2>1, <2>2
  <1>7. BoxOf(h, new)
    BY <1>1, <1>5, <1>6 DEF ReceiverInv, BoxOf
  <1>8. ReceiverInv(h, receiver', now)
    BY <1>1, <1>3, <1>7 DEF ReceiverInv
  <1>9. QED
    BY <1>3, <1>8, ReceiverStep

LEMMA CheckExpire ==
  ASSUME ChecksInv, NEW reading, Checks!Channel!Expire(reading), check' = check
  PROVE  ChecksInv'
  <1> DEFINE h == check.history
             box == receiver.inbox
  <1>1. ReceiverInv(h, receiver, now)
    BY DEF ChecksInv
  <1>2. PICK new : new = Checks!Channel!Inbox!Expired(box, reading)
    OBVIOUS
  <1>3. receiver' = [receiver EXCEPT !.inbox = new] /\ UNCHANGED <<now, queue, wire>>
    BY <1>2 DEF Checks!Channel!Expire
  <1>4. DOMAIN box = {"subjects", "events"} /\ \A s \in DOMAIN box.subjects : HeldOf(h, box.subjects[s])
    BY <1>1 DEF ReceiverInv, BoxOf
  <1>5. /\ DOMAIN new = {"subjects", "events"} /\ DOMAIN new.subjects = DOMAIN box.subjects
        /\ \A s \in DOMAIN box.subjects :
             \/ new.subjects[s] = box.subjects[s]
             \/ new.subjects[s] = [box.subjects[s] EXCEPT !.timedOut = TRUE]
    BY <1>2, <1>4 DEF Checks!Channel!Inbox!Expired
  <1>6. ASSUME NEW s \in DOMAIN box.subjects PROVE HeldOf(h, new.subjects[s])
    <2>1. HeldOf(h, box.subjects[s])
      BY <1>4
    <2>2. CASE new.subjects[s] = [box.subjects[s] EXCEPT !.timedOut = TRUE]
      <3>1. /\ DOMAIN new.subjects[s] = SubjectFields
            /\ new.subjects[s].sequence = box.subjects[s].sequence
            /\ new.subjects[s].applied = box.subjects[s].applied
            /\ new.subjects[s].parked = box.subjects[s].parked
        BY <2>1, <2>2 DEF HeldOf, SubjectFields
      <3>2. QED
        BY <2>1, <3>1 DEF HeldOf
    <2>3. QED
      BY <1>5, <2>1, <2>2
  <1>7. BoxOf(h, new)
    BY <1>5, <1>6 DEF BoxOf
  <1>8. ReceiverInv(h, receiver', now)
    BY <1>1, <1>3, <1>7 DEF ReceiverInv
  <1>9. QED
    BY <1>3, <1>8, ReceiverStep

LEMMA CheckReceive ==
  ASSUME Checks!ChecksConstants, ChecksInv, NEW reading \in Checks!Channel!Readings, NEW d \in wire,
         Checks!Channel!Receive(d, reading), check' = check
  PROVE  ChecksInv'
  <1> DEFINE h == check.history
  <1>1. ReceiverInv(h, receiver, now) /\ SaysOf(h, d) /\ now \in Nat
    BY DEF ChecksInv
  <1>2. reading \in Int /\ reading <= now + MaxFutureSeconds
    BY <1>1 DEF Checks!Channel!Readings, Checks!ChecksConstants
  <1>3. PICK noted : noted = Checks!Channel!Recorded(receiver.nonces, d, reading)
    OBVIOUS
  <1>4. PICK new : new = Checks!Channel!Inbox!Accepted(receiver.inbox, d.payload.subject, d.payload.event,
                           d.payload.sequence, d.payload.status, reading)
    OBVIOUS
  <1>5. /\ UNCHANGED <<now, queue, wire>>
        /\ \/ receiver' = receiver
           \/ receiver' = [receiver EXCEPT !.nonces = noted]
           \/ /\ Checks!Channel!Fresh(receiver.nonces, d, reading)
              /\ receiver' = [nonces |-> noted, accepted |-> receiver.accepted \cup {d}, inbox |-> new]
    BY <1>3, <1>4 DEF Checks!Channel!Receive, Checks!Channel!Verified
  <1>6. /\ NoncesInv(noted, receiver.accepted, now)
        /\ Checks!Channel!Fresh(receiver.nonces, d, reading) =>
             NoncesInv(noted, receiver.accepted \cup {d}, now)
    BY <1>1, <1>2, <1>3, NoncesRecorded DEF ReceiverInv, SaysOf
  <1>7. BoxOf(h, new)
    <2>1. BoxOf(h, receiver.inbox) /\ ToldOf(h, d.payload.sequence, d.payload.status)
      BY <1>1 DEF ReceiverInv, SaysOf
    <2>2. Len(h) \in Nat /\ DOMAIN h = 1 .. Len(h)
      BY HistoryShape
    <2>3. QED
      BY <1>4, <2>1, <2>2, CheckAccepted
  <1>8. ReceiverInv(h, receiver', now)
    BY <1>1, <1>5, <1>6, <1>7 DEF ReceiverInv
  <1>9. QED
    BY <1>5, <1>8, ReceiverStep

LEMMA ChecksStep ==
  ASSUME Checks!ChecksConstants, ChecksInv, [Checks!Next]_(Checks!vars)
  PROVE  ChecksInv'
  <1>1. ASSUME NEW delivery, Checks!CreateCheck(delivery) PROVE ChecksInv'
    BY <1>1, CreateKeeps
  <1>2. ASSUME \/ \E member \in Checks!Members :
                  \/ Checks!IssueCheck(member) \/ Checks!CancelCheck(member)
                  \/ \E matches \in BOOLEAN : Checks!ClaimCheck(member, matches)
               \/ Checks!GetCheckStatus
        PROVE  ChecksInv'
    BY <1>2, OperationKeeps
  <1>3. ASSUME NEW verified, Checks!SetMemberKyc(verified) PROVE ChecksInv'
    BY <1>3 DEF Checks!SetMemberKyc, ChecksInv
  <1>4. ASSUME check' = check, Checks!Channel!ChannelNext PROVE ChecksInv'
    BY <1>4, CheckTick, CheckDrain, CheckExpire, CheckReceive DEF Checks!Channel!ChannelNext
  <1>5. ASSUME check' = check, NEW s, NEW e, Checks!Channel!Open(s, e) PROVE ChecksInv'
    BY <1>5, CheckOpen
  <1>6. CASE UNCHANGED Checks!vars
    BY <1>6 DEF Checks!vars, ChecksInv
  <1>7. QED
    BY <1>1, <1>2, <1>3, <1>4, <1>5, <1>6 DEF Checks!Next

(* Whatever repeats a delivery: it is too old, or its nonce is kept.       *)
LEMMA NeverTwice == ASSUME Checks!ChecksConstants, ChecksInv PROVE Checks!Channel!NeverAcceptedTwice
  <1> SUFFICES ASSUME NEW d \in receiver.accepted, NEW reading \in Checks!Channel!Readings,
                      Checks!Channel!Fresh(receiver.nonces, d, reading)
               PROVE  FALSE
    BY DEF Checks!Channel!NeverAcceptedTwice, Checks!Channel!Verified
  <1>1. NoncesInv(receiver.nonces, receiver.accepted, now) /\ now \in Nat
    BY DEF ChecksInv, ReceiverInv
  <1>2. d.at \in Int /\ reading \in Int /\ now <= reading
    BY <1>1 DEF NoncesInv, Checks!Channel!Readings, Checks!ChecksConstants
  <1>3. ~(d.at < reading - MaxAgeSeconds)
    BY DEF Checks!Channel!Fresh, Checks!Channel!InWindow
  <1>4. MaxAgeSeconds \in Nat /\ MaxFutureSeconds \in Nat
    BY DEF Checks!ChecksConstants
  <1>5. ~(d.at + MaxAgeSeconds < now)
    BY <1>1, <1>2, <1>3, <1>4
  <1>6. PICK seen \in receiver.nonces :
          /\ seen.nonce = d.nonce
          /\ seen.expiresAt = d.at + MaxAgeSeconds + MaxFutureSeconds
    BY <1>1, <1>5 DEF NoncesInv
  <1>7. ~(seen.expiresAt < reading)
    BY <1>2, <1>3, <1>4, <1>6
  <1>8. QED
    BY <1>6, <1>7 DEF Checks!Channel!Fresh, Checks!Channel!Kept

LEMMA ChecksTold == ASSUME Checks!ChecksConstants, ChecksInv PROVE Checks!InboxTellsTheChecks
  <1> DEFINE h == check.history
  <1>1. Len(h) \in 0 .. 4 /\ DOMAIN h = 1 .. Len(h) /\ QueueInv(h, queue)
    BY HistoryShape
  <1>2. ASSUME NEW n \in DOMAIN h
        PROVE  /\ RightEvent(check, StatusBefore(check, n), h[n])
               /\ n > 1 => h[n - 1].at <= h[n].at
    <2>1. CheckInv(check, now)
      <3>1. check # Checks!NoCheck
        BY <1>2 DEF Checks!NoCheck
      <3>2. QED
        BY <3>1 DEF ChecksInv, SimInv
    <2>2. QED
      BY <2>1 DEF CheckInv
  <1>3. \A d \in queue.pending \cup wire : Checks!ValidChecksCallback(d.payload)
    BY <1>1 DEF QueueInv, SaysOf, ChecksInv
  <1>4. ASSUME NEW s \in DOMAIN receiver.inbox.subjects
        PROVE  LET x == receiver.inbox.subjects[s]
               IN  /\ x.sequence <= Len(h)
                   /\ \A n \in 1 .. x.sequence : x.applied[n] = h[n].status
    <2> DEFINE x == receiver.inbox.subjects[s]
    <2>1. HeldOf(h, x)
      BY DEF ChecksInv, ReceiverInv, BoxOf
    <2> HIDE DEF x
    <2>2. \A n \in 1 .. x.sequence : n \in 1 .. Len(h) /\ x.applied[n] = h[n].status
      BY <1>1, <2>1 DEF HeldOf, ToldOf
    <2>3. x.sequence \in Nat
      BY <2>1 DEF HeldOf
    <2>4. x.sequence <= Len(h)
      <3>1. CASE x.sequence = 0
        BY <1>1, <3>1
      <3>2. CASE x.sequence # 0
        <4>1. x.sequence \in 1 .. x.sequence
          BY <2>3, <3>2
        <4>2. QED
          BY <1>1, <2>2, <4>1
      <3>3. QED
        BY <3>1, <3>2
    <2>5. QED
      BY <2>2, <2>4 DEF x
  <1>5. Checks!Cardinality(queue.pending) <= 16
    <2>1. Cardinality(queue.pending) \in Nat
      BY <1>1, FS_CardinalityType DEF QueueInv
    <2>2. Cardinality(queue.pending) <= 2 * Len(h)
      BY <1>1 DEF QueueInv
    <2>3. Cardinality(queue.pending) <= 16
      <3>1. PICK k, n : k = Cardinality(queue.pending) /\ n = Len(h)
        OBVIOUS
      <3>2. k \in Nat /\ n \in 0 .. 4 /\ k <= 2 * n
        BY <1>1, <2>1, <2>2, <3>1
      <3>3. k <= 16
        BY ONLY <3>2
      <3>4. QED
        BY <3>1, <3>3
    <2>4. QED
      BY <2>3, SameCount
  <1>6. ASSUME NEW n \in DOMAIN h
        PROVE  LET event == h[n]
                   before == IF n = 1 THEN "registered" ELSE h[n - 1].status
               IN  /\ event.status \in Checks!ChecksTransitions[before]
                   /\ n > 1 => h[n - 1].at <= event.at
                   /\ event.status = "expired" => event.at = check.expiresAt
                   /\ event.status # "expired" => event.at < check.expiresAt
                   /\ event.status = "claimed" => check.failedClaimAttempts < MaxFailedClaimAttempts
    BY <1>2 DEF RightEvent, StatusBefore
  <1>7. QED
    BY <1>3, <1>4, <1>5, <1>6, NeverTwice DEF Checks!InboxTellsTheChecks

(* What the receiver holds of a personal check is what happened to it, and *)
(* what happened is allowed (checks.mjs, callback-inbox.mjs, signing.mjs), *)
(* for every scenario of delivery, every delay, lifetime and limit of      *)
(* attempts, and every loss, delay and repetition by the network.          *)
THEOREM ReceiverFollowsTheCheck ==
  ASSUME Checks!ChecksConstants
  PROVE  Checks!Spec => []Checks!InboxTellsTheChecks
  <1>1. Checks!Init => ChecksInv
    BY ChecksStart
  <1>2. ChecksInv /\ [Checks!Next]_(Checks!vars) => ChecksInv'
    BY ChecksStep
  <1>3. ChecksInv => Checks!InboxTellsTheChecks
    BY ChecksTold
  <1>4. QED
    BY <1>1, <1>2, <1>3, PTL DEF Checks!Spec
=============================================================================
