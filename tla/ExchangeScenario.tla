-------------------------- MODULE ExchangeScenario --------------------------
(***************************************************************************)
(* The synthetic market scenario of packages/customer-api,                 *)
(* src/exchange-orders.mjs: the acts exchangeOrderScenario derives for a   *)
(* subject, and replayExchangeOrderScenario, which runs them through a     *)
(* fresh matching engine.                                                  *)
(*                                                                         *)
(* The code derives the whole scenario before it replays it; no act        *)
(* depends on what an earlier one did, so the model derives an act when    *)
(* its turn comes.  What the code draws from a digest of the subject is a  *)
(* choice here.  An order id is the salt it is derived from and the part   *)
(* it plays; a counterparty is an owner of its own.                        *)
(***************************************************************************)
EXTENDS MatchingEngine

CONSTANTS
  Customer,       \* the owner tag of the subject
  OrdinaryActs,   \* the largest number of ordinary acts
  Draws           \* by salt, the draws an act may be derived from

SCENARIO_ROLES ==
  << "rest", "partial", "cancel", "expire", "reject_shape", "market_gap",
     "self_trade" >>

GUARANTEED_ROW_ROLES == {"reject_shape", "cancel", "expire"}

OrdinarySalts == << "0", "1", "2", "3" >>

Salts ==
  {"trade:maker", "trade:taker", "tail", "ghost-limit", "ghost-market"}
  \cup {OrdinarySalts[k] : k \in 1 .. OrdinaryActs}

Draw ==
  [pair : Instruments, side : Sides, price : Prices, makerPrice : Prices,
   base : Nat \ {0}, thin : 2 .. 8, fill : 3 .. 9, fee : 15 .. 45]

ASSUME ScenarioConstants ==
  /\ OrdinaryActs \in 1 .. 4
  /\ Salts \X {"own", "cross", "maker", "taker"} \subseteq OrderIds
  /\ {Customer} \cup OrderIds \subseteq Owners
  /\ Draws \in [Salts -> SUBSET Draw]
  /\ \A salt \in Salts : \A d \in Draws[salt] : d.base >= d.thin

VARIABLES
  script,    \* the acts still to be derived: their salts and roles
  steps,     \* the steps of the current act still to be replayed
  intents,   \* the subject's orders, in submission order
  clock      \* the simulated clock

svars == <<vars, script, steps, intents, clock>>

-----------------------------------------------------------------------------
(* The inputs and intents an act is made of.                               *)

LimitInput(id, d, side, owner, price, units) ==
  [wellFormed |-> TRUE, order_id |-> id, instrument |-> d.pair, side |-> side,
   owner |-> owner, type |-> "limit", price |-> price, quantity |-> units]

MarketInput(id, d, side, owner, units) ==
  [LimitInput(id, d, side, owner, Null, units) EXCEPT !.type = "market"]

Intent(id, d, side, type, expires) ==
  [order_id |-> id, pair |-> d.pair, side |-> side, order_type |-> type,
   price |-> d.price, quantity |-> d.base, fee_bps |-> d.fee,
   expires |-> expires]

(* A step, after an advance of the clock.                                  *)
Submit(input) == [op |-> "submit", input |-> input]
Cancel(d, id) ==
  [op |-> "cancel", input |-> [order_id |-> id, instrument |-> d.pair]]

OwnLimit(salt, d) ==
  LimitInput(<<salt, "own">>, d, d.side, Customer, d.price, d.base)

CrossLimit(salt, d) ==
  LimitInput(<<salt, "cross">>, d, Opposite(d.side), Customer, d.price, d.base)

MakerLimit(salt, d, units) ==
  LET id == <<salt, "maker">>
  IN  LimitInput(id, d, Opposite(d.side), id, d.makerPrice, units)

TakerMarket(salt, d, units) ==
  LET id == <<salt, "taker">>
  IN  MarketInput(id, d, Opposite(d.side), id, units)

(* More than the whole of what the act places.                             *)
Beyond(d) == d.base + d.base \div 4 + 1

(* The subject rests an order, which then meets `next`.                    *)
RestAct(salt, d, expires, next) ==
  [steps   |-> <<Submit(OwnLimit(salt, d))>> \o next,
   intents |-> <<Intent(<<salt, "own">>, d, d.side, "limit", expires)>>]

(* A counterparty rests `units`, which the subject sweeps at market.       *)
SweepAct(salt, d, units) ==
  [steps   |-> << Submit(MakerLimit(salt, d, units)),
                  Submit(MarketInput(<<salt, "own">>, d, d.side, Customer, d.base)) >>,
   intents |-> <<Intent(<<salt, "own">>, d, d.side, "market", FALSE)>>]

(* Mutant of ThinMaker: the maker of a market gap is deeper than the sweep. *)
DeepMaker(d) == Beyond(d)

ThinMaker(d) == d.base \div d.thin

Act(role, salt, d) ==
  CASE role = "rest" -> RestAct(salt, d, FALSE, << >>)
    [] role = "partial" ->
         RestAct(salt, d, FALSE,
                 <<Submit(TakerMarket(salt, d, (d.base * d.fill) \div 10))>>)
    [] role \in {"cancel", "expire"} ->
         RestAct(salt, d, role = "expire", <<Cancel(d, <<salt, "own">>)>>)
    [] role = "reject_shape" ->
         [RestAct(salt, d, FALSE, << >>)
            EXCEPT !.steps = <<Submit([OwnLimit(salt, d) EXCEPT !.wellFormed = FALSE])>>]
    [] role = "market_gap" -> SweepAct(salt, d, ThinMaker(d))
    [] role = "self_trade" ->
         [RestAct(salt, d, FALSE, <<Submit(CrossLimit(salt, d))>>)
            EXCEPT !.intents = Append(@, Intent(<<salt, "cross">>, d,
                                                Opposite(d.side), "limit", FALSE))]
    [] role = "swept" ->
         RestAct(salt, d, FALSE, <<Submit(TakerMarket(salt, d, Beyond(d)))>>)
    [] role = "exact" -> SweepAct(salt, d, d.base)
    [] role = "deep"  -> SweepAct(salt, d, Beyond(d))

(* The acts of a subject: two opening acts that fill completely, up to     *)
(* four ordinary ones whose roles follow each other in rotation, the       *)
(* guaranteed tail and two ghosts.                                         *)
Script(count, offset, tail) ==
  << [salt |-> "trade:maker", role |-> "swept"],
     [salt |-> "trade:taker", role |-> "exact"] >>
  \o [k \in 1 .. count |->
        [salt |-> OrdinarySalts[k],
         role |-> SCENARIO_ROLES[((k - 1 + offset) % Len(SCENARIO_ROLES)) + 1]]]
  \o << [salt |-> "tail", role |-> tail],
        [salt |-> "ghost-limit", role |-> "swept"],
        [salt |-> "ghost-market", role |-> "deep"] >>

-----------------------------------------------------------------------------
ScenarioInit ==
  /\ Init
  /\ \E count \in 1 .. OrdinaryActs, offset \in 0 .. Len(SCENARIO_ROLES) - 1,
        tail \in GUARANTEED_ROW_ROLES :
       script = Script(count, offset, tail)
  /\ steps = << >>
  /\ intents = << >>
  /\ clock = 0

DeriveAct ==
  /\ op.phase = "idle"
  /\ steps = << >>
  /\ script # << >>
  /\ \E d \in Draws[Head(script).salt] :
       LET act == Act(Head(script).role, Head(script).salt, d)
       IN  /\ steps' = act.steps
           /\ intents' = intents \o act.intents
  /\ script' = Tail(script)
  /\ UNCHANGED <<vars, clock>>

(* The next step, after the advance that precedes it.                      *)
ReplayStep ==
  /\ steps # << >>
  /\ clock' = clock + 1
  /\ LET step == Head(steps)
     IN  IF step.op = "submit"
         THEN SubmitOrder(step.input, clock')
         ELSE CancelOrder(step.input, clock')
  /\ steps' = Tail(steps)
  /\ UNCHANGED <<script, intents>>

(* The rest of a call runs to its end before the next step.                *)
EngineStep == (MatchTaker \/ Commit) /\ UNCHANGED <<script, steps, intents, clock>>

ScenarioNext == DeriveAct \/ ReplayStep \/ EngineStep

ScenarioSpec == ScenarioInit /\ [][ScenarioNext]_svars

(* The replay is through: this is the engine the directories project.      *)
Replayed == script = << >> /\ steps = << >> /\ intents # << >> /\ op.phase = "idle"
=============================================================================
