----------------------------- MODULE CustodySigning -----------------------------
(***************************************************************************)
(* A withdrawal from its verified intent to the chain: the signer gateway  *)
(* (prepareSigningRequest and dispatchSigningRequest of                    *)
(* custody-core/src/signer-gateway.mjs) over the policy module of each     *)
(* tier (evaluate of hsm-policy.mjs), and the watcher (watcher.mjs) over   *)
(* what the chain shows.                                                   *)
(*                                                                         *)
(* An intent stands for a verified envelope, whose quorum is the one the   *)
(* module proves again, of one allowlisted asset on its network; a wire    *)
(* for the transaction it decodes to.  The denials that read no counter    *)
(* and no clock are left out: they change nothing.                         *)
(*                                                                         *)
(* Signing and the chain are outside the code: what a module approved may  *)
(* be paid until its wire expires, once, and someone else may pay from the *)
(* same address.  The chain shows its payments in any order, repeatedly.   *)
(***************************************************************************)
EXTENDS Integers, Sequences, FiniteSets, FiniteSetsExt

CONSTANTS
  Tiers, Networks, Days, SecondsPerDay,
  DailyMaximum, PerTransactionMaximum, TimeDelay,  \* of each tier
  LiveIntents,  \* the intents, in the order the watcher was given them
  Wires, Horizon,
  Foreign   \* outflows nobody approved

(* The policy module of a tier, evaluate of hsm-policy.mjs.                *)
DayBucket(now) == now \div SecondsPerDay

NewModule ==
  [velocity |-> [d \in Days |-> [n \in Networks |-> 0]],
   lastSequence |-> [n \in Networks |-> -1],
   consumed |-> {},
   frozen |-> FALSE]

WithinLimitsSoFar(m, tier, intent, now) ==
  /\ intent.amount <= PerTransactionMaximum[tier]
  /\ m.velocity[DayBucket(now)][intent.network] <= DailyMaximum[tier]

WithinLimits(m, tier, intent, now) ==
  /\ intent.amount <= PerTransactionMaximum[tier]
  /\ m.velocity[DayBucket(now)][intent.network] + intent.amount <= DailyMaximum[tier]

TransactionMatches(m, intent, wire) ==
  /\ wire.transfer = intent.transfer /\ wire.network = intent.network
  /\ wire.amount = intent.amount
  /\ wire.expiry <= intent.expires_at
  /\ wire.sequence > m.lastSequence[intent.network]

Approves(m, tier, intent, wire, now) ==
  /\ ~m.frozen
  /\ intent \notin m.consumed
  /\ now < intent.expires_at
  /\ now - intent.created_at >= TimeDelay[tier]
  /\ WithinLimits(m, tier, intent, now)
  /\ TransactionMatches(m, intent, wire)

Counted(m, intent, now) ==
  [m.velocity EXCEPT ![DayBucket(now)][intent.network] = @ + intent.amount]

Approved(m, intent, wire, now) ==
  [m EXCEPT !.velocity = Counted(m, intent, now),
            !.lastSequence[intent.network] = wire.sequence,
            !.consumed = @ \cup {intent}]
-----------------------------------------------------------------------------
(* The watcher, observe of watcher.mjs: a state and the step one event     *)
(* makes of it.  Inflows only take a place in seen, like outflows on a     *)
(* frozen network.                                                         *)
NewWatcher ==
  [seen |-> {}, consumed |-> {}, frozen |-> {}, reconciled |-> {}]

(* The intents an outflow could be the payment of.                         *)
Candidates(w, outflow) ==
  {k \in DOMAIN LiveIntents :
     /\ k \notin w.consumed
     /\ LiveIntents[k].network = outflow.network
     /\ LiveIntents[k].transfer = outflow.transfer
     /\ LiveIntents[k].amount = outflow.amount
     /\ LiveIntents[k].expires_at > outflow.at}

Unexplained(w, outflow) == [w EXCEPT !.frozen = @ \cup {outflow.network}]

ReconciledUnmarked(w, outflow) ==
  LET k == Min(Candidates(w, outflow))
  IN  [w EXCEPT !.reconciled = @ \cup {<<outflow, LiveIntents[k]>>}]

Reconciled(w, outflow) ==
  LET k == Min(Candidates(w, outflow))
  IN  [w EXCEPT !.consumed = @ \cup {k},
                !.reconciled = @ \cup {<<outflow, LiveIntents[k]>>}]

Observed(w, outflow) ==
  LET noted == [w EXCEPT !.seen = @ \cup {outflow.tx}]
  IN  CASE outflow.tx \in w.seen -> w
        [] outflow.tx \notin w.seen /\ outflow.network \in w.frozen -> noted
        [] OTHER -> IF Candidates(w, outflow) = {} THEN Unexplained(noted, outflow)
                    ELSE Reconciled(noted, outflow)
-----------------------------------------------------------------------------
VARIABLES
  now,       \* the clock of the gateway, the modules and the chain
  modules,   \* the policy module of each tier
  approvals, \* what each module approved, and when
  chain,     \* the outflows of the custody address
  watcher

signingVars == <<now, modules, approvals, chain, watcher>>

Intents == {LiveIntents[k] : k \in DOMAIN LiveIntents}

SigningInit ==
  /\ now = 0
  /\ approvals = {} /\ chain = {}
  /\ modules = [t \in Tiers |-> NewModule]
  /\ watcher = NewWatcher

Tick ==
  /\ now < Horizon
  /\ now' = now + 1
  /\ UNCHANGED <<modules, approvals, chain, watcher>>

IsVerified(intent) == intent.created_at <= now /\ now < intent.expires_at

(* A request is a value its caller keeps and may send again: at dispatch,  *)
(* any one prepared for the intent at this time or before.  Its expiry is  *)
(* the longest it may have, its wire one the caller made for the intent.   *)
Request(intent, tier, wire) == [intent |-> intent, tier |-> tier, wire |-> wire]

(* A rejection leaves no trace.                                            *)
Dispatch(q) ==
  LET m == modules[q.tier]
  IN  /\ IsVerified(q.intent)
      /\ Approves(m, q.tier, q.intent, q.wire, now)
      /\ modules' = [modules EXCEPT ![q.tier] = Approved(m, q.intent, q.wire, now)]
      /\ approvals' = approvals \cup {[request |-> q, at |-> now]}
      /\ UNCHANGED <<now, chain, watcher>>

Freeze(t) ==
  /\ modules' = [modules EXCEPT ![t].frozen = TRUE] /\ modules' # modules
  /\ UNCHANGED <<now, approvals, chain, watcher>>

(* unfreeze, by the full quorum of distinct subjects.                      *)
Unfreeze(t) ==
  /\ modules[t].frozen
  /\ modules' = [modules EXCEPT ![t].frozen = FALSE]
  /\ UNCHANGED <<now, approvals, chain, watcher>>

Outflow(tx, wire) ==
  [tx |-> tx, network |-> wire.network, transfer |-> wire.transfer,
   amount |-> wire.amount, at |-> now]

Lands(outflow) ==
  /\ ~\E o \in chain : o.tx = outflow.tx
  /\ chain' = chain \cup {outflow}
  /\ UNCHANGED <<now, modules, approvals, watcher>>

Pays(a) == now < a.request.wire.expiry /\ Lands(Outflow(a.request, a.request.wire))

PaysForeign(f) == Lands(Outflow(f, f))

Observe(o) ==
  /\ watcher' = Observed(watcher, o)
  /\ UNCHANGED <<now, modules, approvals, chain>>

SigningNext ==
  \/ Tick
  \/ \E i \in Intents, t \in Tiers, w \in Wires : Dispatch(Request(i, t, w))
  \/ \E t \in Tiers : Freeze(t) \/ Unfreeze(t)
  \/ \E a \in approvals : Pays(a)
  \/ \E f \in Foreign : PaysForeign(f)
  \/ \E o \in chain : Observe(o)

SigningSpec == SigningInit /\ [][SigningNext]_signingVars
-----------------------------------------------------------------------------
(* What a tier approved never passes its limits or pays an intent twice,   *)
(* over requests dispatched again, freezes and new days.                   *)
Outlay(set) == MapThenSumSet(LAMBDA a : a.request.wire.amount, set)

TierLimitsHold ==
  \A t \in Tiers :
    LET mine == {a \in approvals : a.request.tier = t}
    IN  /\ \A d \in Days, n \in Networks :
             Outlay({a \in mine : DayBucket(a.at) = d /\ a.request.wire.network = n})
               <= DailyMaximum[t]
        /\ \A a, b \in mine : a.request.intent = b.request.intent => a = b
        /\ \A a, b \in mine :
             /\ a.request.wire.network = b.request.wire.network /\ a # b
             => a.request.wire.sequence # b.request.wire.sequence

(* While a network is not frozen every outflow observed on it is the one   *)
(* payment of an intent, paid in time: an intent that two tiers approved   *)
(* and paid twice freezes it like an outflow nobody approved.  And it only *)
(* freezes for a cause: when every payment observed is the approved one of *)
(* an intent of its own, it does not, in whatever order the chain shows    *)
(* them, as long as intents of equal transfers are listed by their expiry. *)
ObservedOn(n) == {o \in chain : o.network = n /\ o.tx \in watcher.seen}

OwnPayments(n) ==
  /\ ObservedOn(n) \cap {o \in chain : o.tx \in Foreign} = {}
  /\ \A o, p \in ObservedOn(n) : o.tx.intent = p.tx.intent => o = p

ListedByExpiry ==
  \A j, k \in DOMAIN LiveIntents :
    (j < k /\ LiveIntents[j].transfer = LiveIntents[k].transfer)
      => LiveIntents[j].expires_at <= LiveIntents[k].expires_at

OutflowsExplained ==
  \A n \in Networks :
    /\ n \notin watcher.frozen =>
         /\ \A o \in ObservedOn(n) : \E i \in Intents :
              /\ <<o, i>> \in watcher.reconciled
              /\ i.transfer = o.transfer /\ o.at < i.expires_at
         /\ \A x, y \in watcher.reconciled : x[2] = y[2] => x = y
    /\ (ListedByExpiry /\ OwnPayments(n)) => n \notin watcher.frozen
=============================================================================
