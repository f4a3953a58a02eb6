---------------------------- MODULE QuoteSimulator ----------------------------
(***************************************************************************)
(* The quote simulator of provider-simulators/src/quotes.mjs, for one pair *)
(* of assets: requestQuote prices a base amount, or finds by bisection the *)
(* largest base amount a budget of the quote asset pays for, fee included. *)
(* validateSignedQuote is what the receiver of a signed quote recomputes.  *)
(*                                                                         *)
(* Amounts and prices are integers of their scale, as in the code.  A      *)
(* request is one synchronous call; the rounds of its bisection are the    *)
(* steps of the model, and nothing comes between them.                     *)
(***************************************************************************)
EXTENDS Integers, FiniteSets

CONSTANTS
  None,
  IdempotencyKeys,
  BasisPoints,   \* basis points in a whole: 10 000
  PriceUnit,     \* 10^PRICE_SCALE
  BaseUnit,      \* 10^scale of the base asset
  QuoteUnit,     \* 10^scale of the quote asset
  Spreads, Fees, \* the basis points a simulator may be made with
  Mids,          \* the prices the jitter can make of the reference
  Amounts,       \* the amounts a request may name
  AmountLimit,   \* quoteAssetLimit
  MaxResources

(* What the constructor admits of its options, and the scales and the      *)
(* grammar of amounts of the rest.                                         *)
QuoteConstants ==
  /\ {BasisPoints, PriceUnit, BaseUnit, QuoteUnit} \subseteq Nat \ {0}
  /\ Spreads \subseteq 0..BasisPoints /\ Fees \subseteq 0..BasisPoints
  /\ Mids \subseteq Nat \ {0} /\ Amounts \subseteq Nat \ {0}
  /\ AmountLimit \in Nat

VARIABLES
  options,  \* spreadBps and feeBps
  quotes,   \* by the idempotency key that made them
  search    \* the request in hand: a base amount in low .. high - 1

vars == <<options, quotes, search>>

Init ==
  /\ options \in [spread : Spreads, fee : Fees]
  /\ quotes = [k \in IdempotencyKeys |-> None]
  /\ search = None

(* divideRounded, towards and away from zero.                              *)
Down(n, d) == n \div d

Up(n, d) == IF n % d = 0 THEN n \div d ELSE n \div d + 1

Price(side, mid) ==
  IF side = "buy" THEN Up(mid * (2 * BasisPoints + options.spread), 2 * BasisPoints)
                  ELSE Down(mid * (2 * BasisPoints - options.spread), 2 * BasisPoints)

QuoteUnits(side, base, price) ==
  IF side = "buy" THEN Up(base * price * QuoteUnit, BaseUnit * PriceUnit)
                  ELSE Down(base * price * QuoteUnit, BaseUnit * PriceUnit)

Fee(units) == Up(units * options.fee, BasisPoints)

Total(side, units) == IF side = "buy" THEN units + Fee(units) ELSE units - Fee(units)

(* computeQuoteAmounts.                                                    *)
Computed(side, base, mid) ==
  LET price == Price(side, mid)
      units == QuoteUnits(side, base, price)
  IN  [price |-> price, units |-> units, fee |-> Fee(units), total |-> Total(side, units)]

BuyTotal(base, mid) == Total("buy", QuoteUnits("buy", base, Price("buy", mid)))
-----------------------------------------------------------------------------
HighWithoutSlack(budget, mid) ==
  (budget * (BaseUnit * PriceUnit)) \div (Price("buy", mid) * QuoteUnit)

(* More than a budget can pay for.                                         *)
High(budget, mid) ==
  (budget * (BaseUnit * PriceUnit)) \div (Price("buy", mid) * QuoteUnit) + 1

Requests ==
  [side : {"buy", "sell"}, mode : {"base"}, amount : Amounts]
    \cup [side : {"buy"}, mode : {"quote"}, amount : Amounts]

(* requestQuote up to the bisection.  A key used before gets its quote, or *)
(* a conflict.                                                             *)
RequestQuote(key, request, mid) ==
  /\ search = None
  /\ quotes[key] = None
  /\ Cardinality({k \in IdempotencyKeys : quotes[k] # None}) < MaxResources
  /\ search' = [key |-> key, request |-> request, mid |-> mid,
                low |-> IF request.mode = "quote" THEN 0 ELSE request.amount,
                high |-> IF request.mode = "quote" THEN High(request.amount, mid)
                                                   ELSE request.amount + 1]
  /\ UNCHANGED <<options, quotes>>

Found == search # None /\ search.high - search.low <= 1

(* A round of maxBaseForQuoteBudget.                                       *)
Halve ==
  LET middle == (search.low + search.high) \div 2
  IN  /\ search # None /\ ~Found
      /\ search' = IF BuyTotal(middle, search.mid) <= search.request.amount
                     THEN [search EXCEPT !.low = middle]
                     ELSE [search EXCEPT !.high = middle]
      /\ UNCHANGED <<options, quotes>>

(* Neither too small nor too large to quote.                               *)
Quotable(base, amounts) ==
  /\ base # 0
  /\ amounts.units # 0 /\ amounts.total # 0
  /\ amounts.units < AmountLimit /\ amounts.total < AmountLimit

Quote(request, mid, base) ==
  [side |-> request.side, mode |-> request.mode,
   budget |-> IF request.mode = "quote" THEN request.amount ELSE None,
   base |-> base, mid |-> mid, amounts |-> Computed(request.side, base, mid)]

Answer ==
  LET request == search.request
      fits == Quotable(search.low, Computed(request.side, search.low, search.mid))
  IN  /\ Found
      /\ quotes' = IF fits
                     THEN [quotes EXCEPT ![search.key] = Quote(request, search.mid, search.low)]
                     ELSE quotes
      /\ search' = None
      /\ UNCHANGED options

Next ==
  \/ \E key \in IdempotencyKeys, request \in Requests, mid \in Mids :
       RequestQuote(key, request, mid)
  \/ Halve
  \/ Answer

Spec == Init /\ [][Next]_vars
-----------------------------------------------------------------------------
(* validateSignedQuote, as far as it goes beyond the shape of the fields:  *)
(* what the receiver computes from the quote's own inputs, and that one    *)
(* unit more would overrun the budget.                                     *)
Validates(quote) ==
  /\ quote.mode = "quote" => quote.side = "buy"
  /\ quote.base > 0
  /\ quote.amounts = Computed(quote.side, quote.base, quote.mid)
  /\ quote.amounts.total # 0
  /\ quote.mode = "quote" =>
       /\ quote.budget > 0
       /\ quote.amounts.total <= quote.budget
       /\ BuyTotal(quote.base + 1, quote.mid) > quote.budget

(* Every quote the simulator answers passes the check its receiver makes:  *)
(* for a budget, the bisection (quotes.mjs, maxBaseForQuoteBudget) returns *)
(* the largest amount whose rounded total, fee included, still fits.       *)
IssuedQuotesValidate ==
  \A k \in IdempotencyKeys : quotes[k] # None => Validates(quotes[k])
=============================================================================
