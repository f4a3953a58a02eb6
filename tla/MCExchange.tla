----------------------------- MODULE MCExchange -----------------------------
(* Small instances of the engine under its clients, for TLC: a scenario of *)
(* the exchange reads, or calls that may be refused.                       *)
EXTENDS ExchangeViews, MCMatchingEngine

CONSTANT customer

AllSalts == {"trade:maker", "trade:taker", "0", "1", "2", "tail",
             "ghost-limit", "ghost-market"}

ScenarioIds == AllSalts \X {"own", "cross", "maker", "taker"}
ClientOrderIds == ScenarioIds \cup {o1, o2}
ClientOwners == ClientOrderIds \cup {customer, alice}

Drawn(sides, prices, makers, bases, thin, fills) ==
  [pair : {XAU}, side : sides, price : prices, makerPrice : makers,
   base : bases, thin : {thin}, fill : {fills}, fee : {30}]

(* The acts that meet what others left draw their side, their price and    *)
(* what is swept of them; the opening acts and the ghosts draw little.     *)
MCDraws ==
  [salt \in AllSalts |->
     CASE salt = "trade:maker" -> Drawn({"buy"}, {2}, {2}, {4}, 2, 3)
       [] salt = "trade:taker" -> Drawn({"sell"}, {1}, {2}, {4}, 2, 3)
       [] salt = "tail" -> Drawn(Sides, {1, 2}, {1}, {2}, 2, 3)
       [] salt = "ghost-limit"  -> Drawn({"sell"}, {1}, {1}, {6}, 2, 3)
       [] salt = "ghost-market" -> Drawn(Sides, {2}, {1}, {4}, 2, 3)
       [] OTHER -> Drawn(Sides, {1, 2}, {1}, {4}, 4, 9)]

(* A client without a scenario: it calls and may be refused.               *)
Direct == script = << >> /\ clock = 0

DirectInit ==
  Init /\ script = << >> /\ steps = << >> /\ intents = << >> /\ clock = 0

DirectCall == Direct /\ Call /\ UNCHANGED <<script, steps, intents, clock>>

ClientSpec ==
  (ScenarioInit \/ DirectInit) /\ [][ScenarioNext \/ DirectCall]_svars

DirectBound == Direct => OneRefusal /\ nextSeq < 6
=============================================================================
