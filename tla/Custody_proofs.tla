--------------------------- MODULE Custody_proofs ---------------------------
(***************************************************************************)
(* Proofs about custody: what the policy modules of the tiers approve and  *)
(* what the watcher makes of the chain, then the outbox its projections    *)
(* are recorded in; for every set of intents, wires, requests and callers. *)
(*                                                                         *)
(* A tier's limits speak of the approvals of a day, the module keeps only  *)
(* a running total per network: TierInv says that the total is the sum of  *)
(* what was approved, and sums come from SetSums.  The watcher looks at    *)
(* one outflow at a time and consumes the first live intent it could pay:  *)
(* WatcherInv pairs every outflow explained with the intent it took, and   *)
(* by counting these pairs an outflow that pays an intent of its own finds *)
(* one that is left.                                                       *)
(*                                                                         *)
(* The transactions of record_custody_projection implement the registry of *)
(* one atomic call at a time.  What a call saw may be old when it is       *)
(* answered; the refinement rests on what stays true of it: the row it     *)
(* replays is the only one of its key, the row it inserted collides with   *)
(* nothing committed or being inserted, and the row whose insertion was    *)
(* refused still collides.                                                 *)
(***************************************************************************)
EXTENDS CustodyOutbox, CustodySigning, SetSums

LEMMA OutlaySums ==
  ASSUME NEW S, IsFiniteSet(S), NEW w \in [S -> Int],
         \A a \in S : w[a] = a.request.wire.amount
  PROVE  \E f : Sums(f, w, S) /\ Outlay(S) = f[S]
  <1> DEFINE Body(f) == [s \in SUBSET S |->
               IF s = {} THEN 0
               ELSE (CHOOSE a \in s : TRUE).request.wire.amount + f[s \ {CHOOSE a \in s : TRUE}]]
             chosen == CHOOSE f : f = Body(f)
  <1>1. Outlay(S) = chosen[S]
    BY DEF Outlay, MapThenSumSet, MapThenFoldSet
  <1>2. ASSUME NEW f
        PROVE  Body(f) = [s \in SUBSET S |-> IF s = {} THEN 0 ELSE w[Some(s)] + f[s \ {Some(s)}]]
    <2>1. \A s \in SUBSET S : s # {} => w[Some(s)] = Some(s).request.wire.amount
      BY SomeIn
    <2>2. QED
      BY <2>1 DEF Some
  <1> HIDE DEF Body
  <1>3. \A f : f = Body(f) <=> Sums(f, w, S)
    BY <1>2 DEF Sums
  <1>4. \E f : f = Body(f)
    BY <1>3, SumsExist
  <1>5. chosen = Body(chosen)
    BY <1>4
  <1> HIDE DEF chosen
  <1>6. QED
    BY <1>1, <1>3, <1>5

LEMMA OutlayAdds ==
  ASSUME NEW S, IsFiniteSet(S), NEW b, b \notin S,
         \A a \in S \cup {b} : a.request.wire.amount \in Int
  PROVE  Outlay(S \cup {b}) = Outlay(S) + b.request.wire.amount /\ Outlay(S) \in Int
  <1> DEFINE T == S \cup {b}
             w == [a \in S |-> a.request.wire.amount]
             v == [a \in T |-> a.request.wire.amount]
  <1>1. IsFiniteSet(T)
    BY FS_AddElement
  <1>2. /\ w \in [S -> Int] /\ \A a \in S : w[a] = a.request.wire.amount
        /\ v \in [T -> Int] /\ \A a \in T : v[a] = a.request.wire.amount
        /\ \A a \in S : w[a] = v[a]
        /\ v[b] = b.request.wire.amount
        /\ S \in SUBSET T /\ b \in T /\ T \ {b} = S
    OBVIOUS
  <1> HIDE DEF T, w, v
  <1>3. PICK f : Sums(f, w, S) /\ Outlay(S) = f[S]
    BY <1>2, OutlaySums
  <1>4. PICK g : Sums(g, v, T) /\ Outlay(T) = g[T]
    BY <1>1, <1>2, OutlaySums
  <1>5. g[T] = v[b] + g[S]
    BY <1>1, <1>2, <1>4, SumsAny
  <1>6. f[S] = g[S]
    BY <1>1, <1>2, <1>3, <1>4, SumsAgree
  <1>7. f[S] \in Int
    BY <1>2, <1>3, SumsInt
  <1>8. v[b] \in Int
    BY <1>2
  <1>9. Outlay(T) = Outlay(S) + b.request.wire.amount
    BY <1>2, <1>3, <1>4, <1>5, <1>6, <1>7, <1>8
  <1>10. QED
    BY <1>3, <1>7, <1>9 DEF T

LEMMA OutlayNone == Outlay({}) = 0
  <1>1. IsFiniteSet({}) /\ [a \in {} |-> 0] \in [{} -> Int]
    BY FS_EmptySet
  <1>2. PICK f : Sums(f, [a \in {} |-> 0], {}) /\ Outlay({}) = f[{}]
    BY <1>1, OutlaySums
  <1>3. QED
    BY <1>2, SumsAt
-----------------------------------------------------------------------------
(* An intent is for a network of the gateway and a whole amount, a wire    *)
(* carries a whole sequence number, and clocks are whole seconds.          *)
SigningConstants ==
  /\ \A i \in Intents : i.network \in Networks /\ i.amount \in Nat
  /\ \A w \in Wires : w.sequence \in Int
  /\ \A t \in Tiers : DailyMaximum[t] \in Nat

Of(set, t, d, n) ==
  {a \in set :
     a.request.tier = t /\ DayBucket(a.at) = d /\ a.request.wire.network = n}

ModulesTyped ==
  /\ modules = [t \in Tiers |-> modules[t]]
  /\ \A t \in Tiers : modules[t] \in
       [velocity : [Days -> [Networks -> Int]], lastSequence : [Networks -> Int],
        consumed : SUBSET Intents, frozen : BOOLEAN]

ApprovalsTyped ==
  /\ IsFiniteSet(approvals)
  /\ \A a \in approvals :
       /\ a.request.tier \in Tiers
       /\ a.request.wire.network \in Networks /\ a.request.wire.amount \in Nat
       /\ a.request.wire.sequence \in Int

(* What the counters of a module stand for.                                *)
CountersCount ==
  \A t \in Tiers, d \in Days, n \in Networks :
    /\ modules[t].velocity[d][n] = Outlay(Of(approvals, t, d, n))
    /\ modules[t].velocity[d][n] <= DailyMaximum[t]

SequencesPassed ==
  \A a \in approvals :
    a.request.wire.sequence <= modules[a.request.tier].lastSequence[a.request.wire.network]

IntentsConsumed ==
  \A a \in approvals : a.request.intent \in modules[a.request.tier].consumed

ApprovedOnce ==
  \A a, b \in approvals : a.request.tier = b.request.tier =>
    /\ a.request.intent = b.request.intent => a = b
    /\ a.request.wire.network = b.request.wire.network /\ a # b
         => a.request.wire.sequence # b.request.wire.sequence

TierInv ==
  /\ ModulesTyped /\ ApprovalsTyped /\ CountersCount
  /\ SequencesPassed /\ IntentsConsumed /\ ApprovedOnce

LEMMA TierInit ==
  ASSUME SigningConstants, SigningInit PROVE TierInv
  <1>1. ModulesTyped
    BY DEF SigningInit, ModulesTyped, NewModule
  <1>2. ApprovalsTyped
    BY FS_EmptySet DEF SigningInit, ApprovalsTyped
  <1>3. CountersCount
    <2> SUFFICES ASSUME NEW t \in Tiers, NEW d \in Days, NEW n \in Networks
                 PROVE  /\ modules[t].velocity[d][n] = Outlay(Of(approvals, t, d, n))
                        /\ modules[t].velocity[d][n] <= DailyMaximum[t]
      BY DEF CountersCount
    <2>1. Of(approvals, t, d, n) = {}
      BY DEF SigningInit, Of
    <2>2. modules[t].velocity[d][n] = 0
      BY DEF SigningInit, NewModule
    <2>3. QED
      BY <2>1, <2>2, OutlayNone DEF SigningConstants
  <1>4. QED
    BY <1>1, <1>2, <1>3 DEF SigningInit, TierInv, SequencesPassed, IntentsConsumed, ApprovedOnce

(* A step that leaves counters and approvals alone.                        *)
LEMMA TierKeeps ==
  ASSUME TierInv, approvals' = approvals,
         modules' = [t \in Tiers |-> modules'[t]],
         \A t \in Tiers : \E frozen \in BOOLEAN :
           modules'[t] = [modules[t] EXCEPT !.frozen = frozen]
  PROVE  TierInv'
  <1>1. \A t \in Tiers :
          /\ modules'[t] \in
               [velocity : [Days -> [Networks -> Int]], lastSequence : [Networks -> Int],
                consumed : SUBSET Intents, frozen : BOOLEAN]
          /\ modules'[t].velocity = modules[t].velocity
          /\ modules'[t].lastSequence = modules[t].lastSequence
          /\ modules'[t].consumed = modules[t].consumed
    BY DEF TierInv, ModulesTyped
  <1>2. ModulesTyped'
    BY <1>1 DEF ModulesTyped, Intents
  <1>3. CountersCount'
    BY <1>1 DEF TierInv, CountersCount
  <1>4. ApprovalsTyped'
    BY DEF TierInv, ApprovalsTyped
  <1>5. SequencesPassed' /\ IntentsConsumed'
    BY <1>1 DEF TierInv, ApprovalsTyped, SequencesPassed, IntentsConsumed
  <1>6. ApprovedOnce'
    BY DEF TierInv, ApprovedOnce
  <1>7. QED
    BY <1>2, <1>3, <1>4, <1>5, <1>6 DEF TierInv

(* An approval adds to the counters of its day what it adds to the total.  *)
LEMMA TierDispatches ==
  ASSUME SigningConstants, TierInv,
         NEW i \in Intents, NEW t \in Tiers, NEW w \in Wires, Dispatch(Request(i, t, w))
  PROVE  TierInv'
  <1> DEFINE m == modules[t]
             b == [request |-> Request(i, t, w), at |-> now]
             day == DayBucket(now)
  <1>1. /\ Approves(m, t, i, w, now)
        /\ modules' = [modules EXCEPT ![t] = Approved(m, i, w, now)]
        /\ approvals' = approvals \cup {b}
    BY DEF Dispatch, Request
  <1>2. /\ b.request.tier = t /\ b.request.intent = i /\ b.request.wire = w /\ b.at = now
    BY DEF Request
  <1> HIDE DEF b
  <1>3. /\ i \notin m.consumed /\ w.network = i.network /\ w.amount = i.amount
        /\ w.sequence > m.lastSequence[i.network]
        /\ m.velocity[day][i.network] + i.amount <= DailyMaximum[t]
    BY <1>1 DEF Approves, TransactionMatches, WithinLimits
  <1>4. /\ i.network \in Networks /\ i.amount \in Nat /\ w.sequence \in Int
        /\ m \in [velocity : [Days -> [Networks -> Int]], lastSequence : [Networks -> Int],
                  consumed : SUBSET Intents, frozen : BOOLEAN]
    BY DEF SigningConstants, TierInv, ModulesTyped
  <1> HIDE DEF m
  <1>5. /\ modules'[t] = Approved(m, i, w, now)
        /\ \A o \in Tiers \ {t} : modules'[o] = modules[o]
        /\ modules' = [o \in Tiers |-> modules'[o]]
    BY <1>1 DEF TierInv, ModulesTyped
  <1>6. /\ modules'[t].velocity = Counted(m, i, now)
        /\ modules'[t].lastSequence = [m.lastSequence EXCEPT ![i.network] = w.sequence]
        /\ modules'[t].consumed = m.consumed \cup {i}
        /\ modules'[t].frozen = m.frozen
        /\ modules'[t] \in
             [velocity : [Days -> [Networks -> Int]], lastSequence : [Networks -> Int],
              consumed : SUBSET Intents, frozen : BOOLEAN]
    <2>1. modules'[t] = [m EXCEPT !.velocity = Counted(m, i, now),
                                  !.lastSequence = [m.lastSequence EXCEPT ![i.network] = w.sequence],
                                  !.consumed = m.consumed \cup {i}]
      BY <1>4, <1>5 DEF Approved
    <2>2. Counted(m, i, now) \in [Days -> [Networks -> Int]]
      <3> DEFINE v == m.velocity
      <3>1. v \in [Days -> [Networks -> Int]]
        BY <1>4
      <3> HIDE DEF v
      <3>2. day \in Days => [v[day] EXCEPT ![i.network] = @ + i.amount] \in [Networks -> Int]
        BY <1>4, <3>1
      <3>3. [v EXCEPT ![day] = [v[day] EXCEPT ![i.network] = @ + i.amount]]
              \in [Days -> [Networks -> Int]]
        BY <3>1, <3>2
      <3>4. QED
        BY <3>3 DEF Counted, v
    <2>3. [m.lastSequence EXCEPT ![i.network] = w.sequence] \in [Networks -> Int]
      BY <1>4
    <2>4. m.consumed \cup {i} \in SUBSET Intents
      BY <1>4
    <2>5. QED
      BY <1>4, <2>1, <2>2, <2>3, <2>4
  <1>7. b \notin approvals
    BY <1>2, <1>3 DEF TierInv, IntentsConsumed, m
  <1>8. ModulesTyped'
    BY <1>5, <1>6 DEF TierInv, ModulesTyped, Intents
  <1>9. ApprovalsTyped'
    BY <1>1, <1>2, <1>3, <1>4, FS_AddElement DEF TierInv, ApprovalsTyped
  <1>10. CountersCount'
    <2> SUFFICES ASSUME NEW o \in Tiers, NEW d \in Days, NEW n \in Networks
                 PROVE  /\ modules'[o].velocity[d][n] = Outlay(Of(approvals', o, d, n))
                        /\ modules'[o].velocity[d][n] <= DailyMaximum[o]
      BY DEF CountersCount
    <2>1. /\ modules[o].velocity[d][n] = Outlay(Of(approvals, o, d, n))
          /\ modules[o].velocity[d][n] <= DailyMaximum[o]
      BY DEF TierInv, CountersCount
    <2>2. CASE o = t /\ d = day /\ n = i.network
      <3>1. Of(approvals', o, d, n) = Of(approvals, o, d, n) \cup {b}
        BY <1>1, <1>2, <1>3, <2>2 DEF Of
      <3>2. b \notin Of(approvals, o, d, n) /\ IsFiniteSet(Of(approvals, o, d, n))
        BY <1>7, FS_Subset DEF Of, TierInv, ApprovalsTyped
      <3>3. \A a \in Of(approvals, o, d, n) \cup {b} : a.request.wire.amount \in Int
        BY <1>2, <1>3, <1>4 DEF Of, TierInv, ApprovalsTyped
      <3>4. Outlay(Of(approvals', o, d, n)) = Outlay(Of(approvals, o, d, n)) + i.amount
        BY <1>2, <1>3, <3>1, <3>2, <3>3, OutlayAdds
      <3>5. modules'[o].velocity[d][n] = m.velocity[d][n] + i.amount
        BY <1>4, <1>6, <2>2 DEF Counted
      <3>6. QED
        BY <1>3, <2>1, <2>2, <3>4, <3>5 DEF m
    <2>3. CASE ~(o = t /\ d = day /\ n = i.network)
      <3>1. Of(approvals', o, d, n) = Of(approvals, o, d, n)
        BY <1>1, <1>2, <1>3, <2>3 DEF Of
      <3>2. modules'[o].velocity[d][n] = modules[o].velocity[d][n]
        BY <1>4, <1>5, <1>6, <2>3 DEF Counted, m
      <3>3. QED
        BY <2>1, <3>1, <3>2
    <2>4. QED
      BY <2>2, <2>3
  <1>11. SequencesPassed'
    <2> SUFFICES ASSUME NEW a \in approvals \cup {b}
                 PROVE  a.request.wire.sequence
                          <= modules'[a.request.tier].lastSequence[a.request.wire.network]
      BY <1>1 DEF SequencesPassed
    <2>1. CASE a = b
      BY <2>1, <1>2, <1>3, <1>4, <1>6
    <2>2. CASE a # b
      <3>1. /\ a \in approvals
            /\ a.request.wire.sequence
                 <= modules[a.request.tier].lastSequence[a.request.wire.network]
        BY <2>2 DEF TierInv, SequencesPassed
      <3>2. /\ a.request.tier \in Tiers /\ a.request.wire.network \in Networks
            /\ a.request.wire.sequence \in Int
        BY <3>1 DEF TierInv, ApprovalsTyped
      <3>3. CASE a.request.tier = t
        <4>1. a.request.wire.sequence <= m.lastSequence[a.request.wire.network]
          BY <3>1, <3>3 DEF m
        <4>2. CASE a.request.wire.network = i.network
          BY <3>2, <3>3, <4>1, <4>2, <1>3, <1>4, <1>6
        <4>3. CASE a.request.wire.network # i.network
          BY <3>2, <3>3, <4>1, <4>3, <1>4, <1>6
        <4>4. QED
          BY <4>2, <4>3
      <3>4. CASE a.request.tier # t
        BY <3>1, <3>2, <3>4, <1>5
      <3>5. QED
        BY <3>3, <3>4
    <2>3. QED
      BY <2>1, <2>2
  <1>12. IntentsConsumed'
    BY <1>1, <1>2, <1>5, <1>6 DEF TierInv, IntentsConsumed, ApprovalsTyped, m
  <1>13. ApprovedOnce'
    BY <1>1, <1>2, <1>3, <1>4 DEF TierInv, ApprovedOnce, SequencesPassed, IntentsConsumed, m
  <1>14. QED
    BY <1>8, <1>9, <1>10, <1>11, <1>12, <1>13 DEF TierInv

LEMMA TierSteps ==
  ASSUME SigningConstants, TierInv, [SigningNext]_signingVars
  PROVE  TierInv'
  <1>1. CASE UNCHANGED <<modules, approvals>>
    <2>1. \A t \in Tiers : modules[t] = [modules[t] EXCEPT !.frozen = modules[t].frozen]
      BY DEF TierInv, ModulesTyped
    <2>2. QED
      BY <1>1, <2>1, TierKeeps DEF TierInv, ModulesTyped
  <1>2. ASSUME NEW t \in Tiers, Freeze(t) \/ Unfreeze(t)
        PROVE  TierInv'
    <2>1. PICK frozen \in BOOLEAN : modules' = [modules EXCEPT ![t].frozen = frozen]
      BY <1>2 DEF Freeze, Unfreeze
    <2>2. \A o \in Tiers : o # t =>
            modules'[o] = [modules[o] EXCEPT !.frozen = modules[o].frozen]
      BY <2>1 DEF TierInv, ModulesTyped
    <2>3. modules'[t] = [modules[t] EXCEPT !.frozen = frozen]
      BY <2>1 DEF TierInv, ModulesTyped
    <2>4. \A o \in Tiers : modules[o].frozen \in BOOLEAN
      BY DEF TierInv, ModulesTyped
    <2>5. QED
      BY <1>2, <2>1, <2>2, <2>3, <2>4, TierKeeps DEF Freeze, Unfreeze, TierInv, ModulesTyped
  <1>3. QED
    BY <1>1, <1>2, TierDispatches
       DEF SigningNext, signingVars, Tick, Pays, PaysForeign, Lands, Observe

(* Whatever requests are dispatched, again or late, and whatever freezes   *)
(* and days pass, what a tier approved stays within its daily limit on     *)
(* each network, is of distinct intents and of distinct wire sequences     *)
(* (evaluate of hsm-policy.mjs).                                           *)
THEOREM TiersStayWithinLimits ==
  ASSUME SigningConstants
  PROVE  SigningSpec => []TierLimitsHold
  <1>1. TierInv => TierLimitsHold
    <2> SUFFICES ASSUME TierInv, NEW t \in Tiers
                 PROVE  LET mine == {a \in approvals : a.request.tier = t}
                        IN  /\ \A d \in Days, n \in Networks :
                                 Outlay({a \in mine : DayBucket(a.at) = d /\ a.request.wire.network = n})
                                   <= DailyMaximum[t]
                            /\ \A a, b \in mine : a.request.intent = b.request.intent => a = b
                            /\ \A a, b \in mine :
                                 /\ a.request.wire.network = b.request.wire.network /\ a # b
                                 => a.request.wire.sequence # b.request.wire.sequence
      BY DEF TierLimitsHold
    <2> DEFINE mine == {a \in approvals : a.request.tier = t}
    <2>1. ASSUME NEW d \in Days, NEW n \in Networks
          PROVE  Outlay({a \in mine : DayBucket(a.at) = d /\ a.request.wire.network = n})
                   <= DailyMaximum[t]
      <3>1. {a \in mine : DayBucket(a.at) = d /\ a.request.wire.network = n} = Of(approvals, t, d, n)
        BY DEF Of
      <3>2. Outlay(Of(approvals, t, d, n)) <= DailyMaximum[t]
        BY DEF TierInv, CountersCount
      <3>3. QED
        BY <3>1, <3>2, Zenon
    <2>2. QED
      BY <2>1 DEF TierInv, ApprovedOnce
  <1>2. QED
    BY <1>1, TierInit, TierSteps, PTL DEF SigningSpec
-----------------------------------------------------------------------------
(* The watcher keeps its live intents by digest, so no two are equal, and  *)
(* in the order it was given them; times are whole.                        *)
WatcherConstants ==
  /\ \E n \in Nat : DOMAIN LiveIntents = 1 .. n
  /\ \A j, k \in DOMAIN LiveIntents : LiveIntents[j] = LiveIntents[k] => j = k
  /\ \A i \in Intents : i.expires_at \in Int
  /\ \A w \in Wires : w.expiry \in Int

SameTransfer(o, i) ==
  i.network = o.network /\ i.transfer = o.transfer /\ i.amount = o.amount

(* Intent k could be what outflow o pays.                                  *)
Eligible(o, k) ==
  SameTransfer(o, LiveIntents[k]) /\ o.at < LiveIntents[k].expires_at

(* An approval is of an intent its wire pays in time.                      *)
ApprovalsPay ==
  \A a \in approvals :
    /\ a.request.intent \in Intents /\ a.request.wire \in Wires
    /\ SameTransfer(a.request.wire, a.request.intent)
    /\ a.request.wire.expiry <= a.request.intent.expires_at

ChainPays ==
  /\ \A o \in chain :
       /\ o.at \in Int
       /\ o.tx \notin Foreign =>
            /\ o.tx.intent \in Intents
            /\ SameTransfer(o, o.tx.intent)
            /\ o.at < o.tx.intent.expires_at
  /\ \A o, p \in chain : o.tx = p.tx => o = p

WatcherTyped ==
  /\ watcher = [seen |-> watcher.seen, consumed |-> watcher.consumed,
                frozen |-> watcher.frozen, reconciled |-> watcher.reconciled]
  /\ watcher.seen \subseteq {o.tx : o \in chain}
  /\ watcher.consumed \subseteq DOMAIN LiveIntents

(* What was reconciled pairs an outflow observed with the intent it took.  *)
ReconciledPairs ==
  \A x \in watcher.reconciled : \E o \in chain, k \in watcher.consumed :
    x = <<o, LiveIntents[k]>> /\ o.tx \in watcher.seen /\ Eligible(o, k)

PairsDistinct ==
  \A x, y \in watcher.reconciled :
    (x[1] = y[1] => x = y) /\ (x[2] = y[2] => x = y)

ConsumedByOne ==
  \A k \in watcher.consumed : \E o \in chain : <<o, LiveIntents[k]>> \in watcher.reconciled

ObservedPaired ==
  \A n \in Networks \ watcher.frozen : \A o \in ObservedOn(n) :
    \E k \in watcher.consumed : <<o, LiveIntents[k]>> \in watcher.reconciled

(* An outflow took the first intent it could.                              *)
TakesFirst ==
  \A o \in chain, k \in watcher.consumed :
    <<o, LiveIntents[k]>> \in watcher.reconciled =>
      \A j \in DOMAIN LiveIntents : (j < k /\ Eligible(o, j)) => j \in watcher.consumed

FreezesForCause ==
  \A n \in Networks : (ListedByExpiry /\ OwnPayments(n)) => n \notin watcher.frozen

WatcherInv ==
  /\ now \in Int /\ ApprovalsPay /\ ChainPays
  /\ WatcherTyped /\ ReconciledPairs /\ PairsDistinct /\ ConsumedByOne
  /\ ObservedPaired /\ TakesFirst /\ FreezesForCause

LEMMA LiveIsIntent ==
  \A k \in DOMAIN LiveIntents : LiveIntents[k] \in Intents
  BY DEF Intents

(* Listed by expiry, whoever may take an intent may take every later one   *)
(* of the same transfer.                                                   *)
LEMMA LaterEligible ==
  ASSUME WatcherConstants, ListedByExpiry, NEW o, o.at \in Int,
         NEW j \in DOMAIN LiveIntents, NEW k \in DOMAIN LiveIntents,
         Eligible(o, j), SameTransfer(o, LiveIntents[k]), j <= k
  PROVE  Eligible(o, k)
  <1>1. LiveIntents[j].expires_at \in Int /\ LiveIntents[k].expires_at \in Int
    BY LiveIsIntent DEF WatcherConstants
  <1>2. j = k \/ j < k
    BY DEF WatcherConstants
  <1>3. j < k => LiveIntents[j].expires_at <= LiveIntents[k].expires_at
    BY DEF ListedByExpiry, Eligible, SameTransfer
  <1>4. QED
    BY <1>1, <1>2, <1>3 DEF Eligible

(* The intents from which on every one of o's transfer is taken.           *)
TakenFrom(o) ==
  {k \in DOMAIN LiveIntents :
     /\ SameTransfer(o, LiveIntents[k])
     /\ \A j \in DOMAIN LiveIntents :
          (SameTransfer(o, LiveIntents[j]) /\ k <= j) => j \in watcher.consumed}

(* An outflow that pays an intent of its own finds one: had it none, every *)
(* intent from its own on would be taken, each by a payment whose own      *)
(* intent is among them too, and there is one payment too many.            *)
LEMMA OwnPaymentFinds ==
  ASSUME WatcherConstants, ListedByExpiry, WatcherInv,
         NEW n \in Networks \ watcher.frozen,
         NEW o \in chain, o.network = n, o.tx \notin watcher.seen,
         \A p \in ObservedOn(n) \cup {o} : p.tx \notin Foreign,
         \A p, q \in ObservedOn(n) \cup {o} : p.tx.intent = q.tx.intent => p = q
  PROVE  Candidates(watcher, o) # {}
  <1> SUFFICES ASSUME Candidates(watcher, o) = {} PROVE FALSE
    OBVIOUS
  <1> DEFINE Own(p) == CHOOSE k \in DOMAIN LiveIntents : LiveIntents[k] = p.tx.intent
             Taker(k) == CHOOSE p \in chain : <<p, LiveIntents[k]>> \in watcher.reconciled
             B == TakenFrom(o)
  <1>1. ASSUME NEW p \in ObservedOn(n) \cup {o}
        PROVE  /\ Own(p) \in DOMAIN LiveIntents /\ LiveIntents[Own(p)] = p.tx.intent
               /\ Eligible(p, Own(p))
               /\ p.at \in Int
    <2>1. p \in chain /\ p.tx.intent \in Intents /\ SameTransfer(p, p.tx.intent)
          /\ p.at < p.tx.intent.expires_at /\ p.at \in Int
      BY DEF ObservedOn, WatcherInv, ChainPays
    <2>2. \E k \in DOMAIN LiveIntents : LiveIntents[k] = p.tx.intent
      BY <2>1 DEF Intents
    <2>3. Own(p) \in DOMAIN LiveIntents /\ LiveIntents[Own(p)] = p.tx.intent
      BY <2>2
    <2>4. QED
      BY <2>1, <2>3 DEF Eligible
  <1>2. \A k \in DOMAIN LiveIntents : Eligible(o, k) => k \in watcher.consumed
    BY DEF Candidates, Eligible, SameTransfer, WatcherInv, ChainPays, WatcherConstants
  <1> HIDE DEF Own
  <1>3. Own(o) \in B
    <2>1. o.at \in Int /\ Own(o) \in DOMAIN LiveIntents /\ Eligible(o, Own(o))
      BY <1>1
    <2>2. \A j \in DOMAIN LiveIntents :
            (SameTransfer(o, LiveIntents[j]) /\ Own(o) <= j) => j \in watcher.consumed
      BY <1>2, <2>1, LaterEligible
    <2>3. QED
      BY <2>1, <2>2 DEF TakenFrom, Eligible
  <1>4. ASSUME NEW k \in B
        PROVE  /\ Taker(k) \in ObservedOn(n)
               /\ <<Taker(k), LiveIntents[k]>> \in watcher.reconciled
               /\ Own(Taker(k)) \in B
    <2> DEFINE p == Taker(k)
    <2>1. k \in watcher.consumed /\ k \in DOMAIN LiveIntents /\ SameTransfer(o, LiveIntents[k])
      BY DEF TakenFrom, WatcherConstants
    <2>2. p \in chain /\ <<p, LiveIntents[k]>> \in watcher.reconciled
      BY <2>1 DEF WatcherInv, ConsumedByOne
    <2> HIDE DEF p
    <2>3. p.tx \in watcher.seen /\ Eligible(p, k)
      BY <2>1, <2>2 DEF WatcherInv, ReconciledPairs, WatcherTyped, WatcherConstants
    <2>4. p \in ObservedOn(n) /\ SameTransfer(o, p)
      BY <2>1, <2>2, <2>3 DEF ObservedOn, Eligible, SameTransfer
    <2>5. Own(p) \in DOMAIN LiveIntents /\ Eligible(p, Own(p)) /\ p.at \in Int
      BY <1>1, <2>4
    <2>6. ASSUME NEW j \in DOMAIN LiveIntents, SameTransfer(o, LiveIntents[j]), Own(p) <= j
          PROVE  j \in watcher.consumed
      <3>1. SameTransfer(p, LiveIntents[j])
        BY <2>4, <2>6 DEF SameTransfer
      <3>2. Eligible(p, j)
        BY <2>5, <2>6, <3>1, LaterEligible
      <3>3. CASE j < k
        BY <2>1, <2>2, <3>2, <3>3 DEF WatcherInv, TakesFirst
      <3>4. CASE k <= j
        BY <2>6, <3>4 DEF TakenFrom
      <3>5. QED
        BY <2>1, <3>3, <3>4 DEF WatcherConstants
    <2>7. SameTransfer(o, LiveIntents[Own(p)])
      BY <2>4, <2>5 DEF Eligible, SameTransfer
    <2>8. Own(p) \in B
      BY <2>5, <2>6, <2>7 DEF TakenFrom
    <2>9. QED
      BY <2>2, <2>4, <2>8 DEF p
  <1> HIDE DEF Taker, B
  <1>5. ASSUME NEW j \in B, NEW k \in B, Own(Taker(j)) = Own(Taker(k))
        PROVE  j = k
    <2>1. Taker(j) = Taker(k)
      <3>1. Taker(j) \in ObservedOn(n) /\ Taker(k) \in ObservedOn(n)
        BY <1>4
      <3>2. Taker(j).tx.intent = Taker(k).tx.intent
        BY <1>1, <1>5, <3>1
      <3>3. QED
        BY <3>1, <3>2
    <2>2. LiveIntents[j] = LiveIntents[k]
      <3> DEFINE x == <<Taker(j), LiveIntents[j]>>
                 y == <<Taker(k), LiveIntents[k]>>
      <3>1. x \in watcher.reconciled /\ y \in watcher.reconciled
        BY <1>4
      <3>2. x[1] = y[1] /\ x[2] = LiveIntents[j] /\ y[2] = LiveIntents[k]
        BY <2>1
      <3> HIDE DEF x, y
      <3>3. x = y
        BY <3>1, <3>2 DEF WatcherInv, PairsDistinct
      <3>4. QED
        BY <3>2, <3>3
    <2>3. j \in DOMAIN LiveIntents /\ k \in DOMAIN LiveIntents
      BY DEF B, TakenFrom
    <2>4. QED
      BY <2>2, <2>3 DEF WatcherConstants
  <1>6. ASSUME NEW k \in B
        PROVE  Own(Taker(k)) # Own(o)
    <2>1. Taker(k) \in ObservedOn(n) /\ Taker(k).tx \in watcher.seen
      BY <1>4 DEF ObservedOn
    <2>2. Taker(k) # o
      BY <2>1
    <2>3. QED
      BY <1>1, <2>1, <2>2
  <1>7. IsFiniteSet(B)
    <2>1. PICK m \in Nat : DOMAIN LiveIntents = 1 .. m
      BY DEF WatcherConstants
    <2>2. B \subseteq 1 .. m
      BY <2>1 DEF B, TakenFrom
    <2>3. IsFiniteSet(1 .. m)
      BY FS_Interval
    <2>4. QED
      BY <2>2, <2>3, FS_Subset
  <1>8. IsFiniteSet(B \ {Own(o)}) /\ Cardinality(B \ {Own(o)}) < Cardinality(B)
    <2>1. IsFiniteSet(B \ {Own(o)}) /\ Cardinality(B \ {Own(o)}) = Cardinality(B) - 1
      BY <1>3, <1>7, FS_RemoveElement
    <2>2. Cardinality(B) \in Nat
      BY <1>7, FS_CardinalityType
    <2>3. QED
      BY <2>1, <2>2
  <1> DEFINE owner == [k \in B |-> Own(Taker(k))]
  <1>9. owner \in [B -> B \ {Own(o)}] /\ \A k \in B : owner[k] = Own(Taker(k))
    BY <1>4, <1>6
  <1> HIDE DEF owner
  <1>10. \E j, k \in B : j # k /\ owner[j] = owner[k]
    BY <1>7, <1>8, <1>9, FS_PigeonHole
  <1>11. QED
    BY <1>5, <1>9, <1>10
-----------------------------------------------------------------------------
LEMMA WatcherInit ==
  ASSUME SigningInit PROVE WatcherInv
  BY DEF SigningInit, WatcherInv, ApprovalsPay, ChainPays, WatcherTyped, ReconciledPairs,
         PairsDistinct, ConsumedByOne, ObservedPaired, TakesFirst, FreezesForCause,
         ObservedOn, NewWatcher

(* What the watcher has says nothing of outflows it has not seen.          *)
LEMMA WatcherKeeps ==
  ASSUME WatcherInv, watcher' = watcher, now' \in Int,
         ApprovalsPay', ChainPays', chain \subseteq chain',
         \A o \in chain' \ chain : \A p \in chain : p.tx # o.tx
  PROVE  WatcherInv'
  <1>1. \A n : ObservedOn(n)' = ObservedOn(n)
    BY DEF ObservedOn, WatcherInv, WatcherTyped
  <1>2. WatcherTyped'
    BY DEF WatcherInv, WatcherTyped
  <1>3. ReconciledPairs' /\ PairsDistinct' /\ ConsumedByOne'
    BY DEF WatcherInv, ReconciledPairs, PairsDistinct, ConsumedByOne
  <1>4. ObservedPaired'
    BY <1>1 DEF WatcherInv, ObservedPaired
  <1>5. TakesFirst'
    <2> SUFFICES ASSUME NEW o \in chain', NEW k \in watcher.consumed,
                        <<o, LiveIntents[k]>> \in watcher.reconciled,
                        NEW j \in DOMAIN LiveIntents, j < k, Eligible(o, j)
                 PROVE  j \in watcher.consumed
      BY DEF TakesFirst
    <2>1. PICK p \in chain, i \in watcher.consumed :
            <<o, LiveIntents[k]>> = <<p, LiveIntents[i]>>
      BY DEF WatcherInv, ReconciledPairs
    <2>2. o \in chain
      BY <2>1
    <2>3. QED
      BY <2>2 DEF WatcherInv, TakesFirst
  <1>6. FreezesForCause'
    <2> SUFFICES ASSUME NEW n \in Networks, ListedByExpiry, OwnPayments(n)'
                 PROVE  n \notin watcher.frozen
      BY DEF FreezesForCause
    <2>1. OwnPayments(n)
      BY <1>1 DEF OwnPayments
    <2>2. QED
      BY <2>1 DEF WatcherInv, FreezesForCause
  <1>7. QED
    BY <1>2, <1>3, <1>4, <1>5, <1>6 DEF WatcherInv

LEMMA ApprovedPays ==
  ASSUME WatcherInv,
         NEW i \in Intents, NEW t \in Tiers, NEW w \in Wires, Dispatch(Request(i, t, w))
  PROVE  WatcherInv'
  <1> DEFINE b == [request |-> Request(i, t, w), at |-> now]
  <1>1. /\ Approves(modules[t], t, i, w, now)
        /\ approvals' = approvals \cup {b}
        /\ now' = now /\ chain' = chain /\ watcher' = watcher
    BY DEF Dispatch, Request
  <1>2. b.request.intent = i /\ b.request.wire = w
    BY DEF Request
  <1>3. SameTransfer(w, i) /\ w.expiry <= i.expires_at
    BY <1>1 DEF Approves, TransactionMatches, SameTransfer
  <1> HIDE DEF b
  <1>4. ApprovalsPay'
    BY <1>1, <1>2, <1>3 DEF WatcherInv, ApprovalsPay
  <1>5. ChainPays'
    BY <1>1 DEF WatcherInv, ChainPays
  <1>6. QED
    BY <1>1, <1>4, <1>5, WatcherKeeps DEF WatcherInv

LEMMA LandingPays ==
  ASSUME WatcherInv, NEW o, Lands(o), o.at \in Int,
         o.tx \notin Foreign =>
           /\ o.tx.intent \in Intents /\ SameTransfer(o, o.tx.intent)
           /\ o.at < o.tx.intent.expires_at
  PROVE  WatcherInv'
  <1>1. /\ \A p \in chain : p.tx # o.tx
        /\ chain' = chain \cup {o}
        /\ now' = now /\ approvals' = approvals /\ watcher' = watcher
    BY DEF Lands
  <1>2. ChainPays'
    BY <1>1 DEF WatcherInv, ChainPays
  <1>3. ApprovalsPay'
    BY <1>1 DEF WatcherInv, ApprovalsPay
  <1>4. QED
    BY <1>1, <1>2, <1>3, WatcherKeeps DEF WatcherInv

LEMMA PaymentPays ==
  ASSUME WatcherConstants, WatcherInv,
         (\E a \in approvals : Pays(a)) \/ (\E f \in Foreign : PaysForeign(f))
  PROVE  WatcherInv'
  <1>1. ASSUME NEW a \in approvals, Pays(a)
        PROVE  WatcherInv'
    <2> DEFINE o == Outflow(a.request, a.request.wire)
               i == a.request.intent
    <2>1. /\ now < a.request.wire.expiry /\ a.request.wire.expiry <= i.expires_at
          /\ i \in Intents /\ SameTransfer(a.request.wire, i)
          /\ a.request.wire \in Wires /\ Lands(o)
      BY <1>1 DEF Pays, WatcherInv, ApprovalsPay
    <2>2. /\ o.at = now /\ o.tx = a.request
          /\ o.network = a.request.wire.network /\ o.transfer = a.request.wire.transfer
          /\ o.amount = a.request.wire.amount
      BY DEF Outflow
    <2> HIDE DEF o
    <2>3. now \in Int /\ a.request.wire.expiry \in Int /\ i.expires_at \in Int
      BY <2>1 DEF WatcherInv, WatcherConstants
    <2>4. o.at < i.expires_at
      BY <2>1, <2>2, <2>3
    <2>5. SameTransfer(o, i)
      BY <2>1, <2>2 DEF SameTransfer
    <2>6. QED
      BY <2>1, <2>2, <2>3, <2>4, <2>5, LandingPays
  <1>2. ASSUME NEW f \in Foreign, PaysForeign(f)
        PROVE  WatcherInv'
    <2> DEFINE o == Outflow(f, f)
    <2>1. o.at = now /\ o.tx = f /\ Lands(o)
      BY <1>2 DEF Outflow, PaysForeign
    <2> HIDE DEF o
    <2>2. QED
      BY <2>1, LandingPays DEF WatcherInv
  <1>3. QED
    BY <1>1, <1>2

(* What one observation makes of the fields of the watcher.                *)
LEMMA ObservedFields ==
  ASSUME WatcherInv, NEW o \in chain, Observe(o)
  PROVE  \/ watcher' = watcher
         \/ /\ o.tx \notin watcher.seen
            /\ watcher' = [watcher EXCEPT !.seen = @ \cup {o.tx}]
            /\ o.network \in watcher.frozen
         \/ /\ o.tx \notin watcher.seen
            /\ watcher' = [watcher EXCEPT !.seen = @ \cup {o.tx},
                                          !.frozen = @ \cup {o.network}]
            /\ o.network \notin watcher.frozen /\ Candidates(watcher, o) = {}
         \/ /\ o.tx \notin watcher.seen
            /\ o.network \notin watcher.frozen /\ Candidates(watcher, o) # {}
            /\ watcher' = [watcher EXCEPT
                 !.seen = @ \cup {o.tx},
                 !.consumed = @ \cup {Min(Candidates(watcher, o))},
                 !.reconciled = @ \cup {<<o, LiveIntents[Min(Candidates(watcher, o))]>>}]
  <1> DEFINE noted == [watcher EXCEPT !.seen = @ \cup {o.tx}]
  <1>1. watcher' = Observed(watcher, o)
    BY DEF Observe
  <1>2. /\ watcher = [seen |-> watcher.seen, consumed |-> watcher.consumed,
                      frozen |-> watcher.frozen, reconciled |-> watcher.reconciled]
        /\ noted.consumed = watcher.consumed /\ noted.frozen = watcher.frozen
        /\ noted.reconciled = watcher.reconciled
    BY DEF WatcherInv, WatcherTyped
  <1>3. Candidates(noted, o) = Candidates(watcher, o)
    BY <1>2 DEF Candidates
  <1>4. CASE o.tx \in watcher.seen
    BY <1>1, <1>4 DEF Observed
  <1>5. CASE o.tx \notin watcher.seen /\ o.network \in watcher.frozen
    BY <1>1, <1>5 DEF Observed
  <1>6. CASE o.tx \notin watcher.seen /\ o.network \notin watcher.frozen
    <2>1. watcher' = IF Candidates(watcher, o) = {} THEN Unexplained(noted, o)
                     ELSE Reconciled(noted, o)
      BY <1>1, <1>6 DEF Observed
    <2>2. CASE Candidates(watcher, o) = {}
      <3>1. watcher' = [noted EXCEPT !.frozen = @ \cup {o.network}]
        BY <2>1, <2>2 DEF Unexplained
      <3>2. QED
        BY <1>6, <2>2, <3>1
    <2>3. CASE Candidates(watcher, o) # {}
      <3> DEFINE k == Min(Candidates(watcher, o))
      <3>1. watcher' = [noted EXCEPT !.consumed = @ \cup {k},
                                     !.reconciled = @ \cup {<<o, LiveIntents[k]>>}]
        BY <1>3, <2>1, <2>3 DEF Reconciled
      <3> HIDE DEF k
      <3>2. watcher' = [watcher EXCEPT !.seen = @ \cup {o.tx},
                 !.consumed = @ \cup {k},
                 !.reconciled = @ \cup {<<o, LiveIntents[k]>>}]
        BY <1>2, <3>1
      <3>3. QED
        BY <1>6, <2>3, <3>2 DEF k
    <2>4. QED
      BY <2>2, <2>3
  <1>7. QED
    BY <1>4, <1>5, <1>6

(* An outflow on a frozen network is only seen.                            *)
LEMMA NotedHolds ==
  ASSUME WatcherInv, NEW o \in chain, o.tx \notin watcher.seen,
         UNCHANGED <<now, modules, approvals, chain>>,
         watcher' = [watcher EXCEPT !.seen = @ \cup {o.tx}],
         o.network \in watcher.frozen
  PROVE  WatcherInv'
  <1>1. /\ watcher'.seen = watcher.seen \cup {o.tx}
        /\ watcher'.consumed = watcher.consumed /\ watcher'.frozen = watcher.frozen
        /\ watcher'.reconciled = watcher.reconciled
        /\ watcher' = [seen |-> watcher'.seen, consumed |-> watcher'.consumed,
                       frozen |-> watcher'.frozen, reconciled |-> watcher'.reconciled]
    BY DEF WatcherInv, WatcherTyped
  <1>2. \A n \in Networks \ watcher.frozen : ObservedOn(n)' = ObservedOn(n)
    BY <1>1 DEF ObservedOn, WatcherInv, ChainPays
  <1>3. ApprovalsPay' /\ ChainPays' /\ now' \in Int
    BY DEF WatcherInv, ApprovalsPay, ChainPays
  <1>4. WatcherTyped'
    BY <1>1 DEF WatcherInv, WatcherTyped
  <1>5. ReconciledPairs' /\ PairsDistinct' /\ ConsumedByOne'
    BY <1>1 DEF WatcherInv, ReconciledPairs, PairsDistinct, ConsumedByOne
  <1>6. ObservedPaired'
    BY <1>1, <1>2 DEF WatcherInv, ObservedPaired
  <1>7. TakesFirst'
    BY <1>1 DEF WatcherInv, TakesFirst
  <1>8. FreezesForCause'
    <2> SUFFICES ASSUME NEW n \in Networks, ListedByExpiry, OwnPayments(n)'
                 PROVE  n \notin watcher.frozen
      BY <1>1 DEF FreezesForCause
    <2>1. OwnPayments(n)
      BY <1>1 DEF OwnPayments, ObservedOn
    <2>2. QED
      BY <2>1 DEF WatcherInv, FreezesForCause
  <1>9. QED
    BY <1>3, <1>4, <1>5, <1>6, <1>7, <1>8 DEF WatcherInv

(* An outflow that finds no intent freezes its network, for a cause.       *)
LEMMA FreezeHolds ==
  ASSUME WatcherConstants, WatcherInv, NEW o \in chain, o.tx \notin watcher.seen,
         UNCHANGED <<now, modules, approvals, chain>>,
         watcher' = [watcher EXCEPT !.seen = @ \cup {o.tx}, !.frozen = @ \cup {o.network}],
         o.network \notin watcher.frozen, Candidates(watcher, o) = {}
  PROVE  WatcherInv'
  <1>1. /\ watcher'.seen = watcher.seen \cup {o.tx}
        /\ watcher'.consumed = watcher.consumed
        /\ watcher'.frozen = watcher.frozen \cup {o.network}
        /\ watcher'.reconciled = watcher.reconciled
        /\ watcher' = [seen |-> watcher'.seen, consumed |-> watcher'.consumed,
                       frozen |-> watcher'.frozen, reconciled |-> watcher'.reconciled]
    BY DEF WatcherInv, WatcherTyped
  <1>2. \A n \in Networks \ watcher'.frozen : ObservedOn(n)' = ObservedOn(n)
    BY <1>1 DEF ObservedOn, WatcherInv, ChainPays
  <1>3. ApprovalsPay' /\ ChainPays' /\ now' \in Int
    BY DEF WatcherInv, ApprovalsPay, ChainPays
  <1>4. WatcherTyped'
    BY <1>1 DEF WatcherInv, WatcherTyped
  <1>5. ReconciledPairs' /\ PairsDistinct' /\ ConsumedByOne'
    BY <1>1 DEF WatcherInv, ReconciledPairs, PairsDistinct, ConsumedByOne
  <1>6. ObservedPaired'
    BY <1>1, <1>2 DEF WatcherInv, ObservedPaired
  <1>7. TakesFirst'
    BY <1>1 DEF WatcherInv, TakesFirst
  <1>8. FreezesForCause'
    <2> SUFFICES ASSUME NEW n \in Networks, ListedByExpiry, OwnPayments(n)'
                 PROVE  n \notin watcher.frozen \cup {o.network}
      BY <1>1 DEF FreezesForCause
    <2>1. OwnPayments(n)
      BY <1>1 DEF OwnPayments, ObservedOn
    <2>2. n \notin watcher.frozen
      BY <2>1 DEF WatcherInv, FreezesForCause
    <2>3. CASE n = o.network
      <3>1. ObservedOn(n)' = ObservedOn(n) \cup {o}
        BY <1>1, <2>3 DEF ObservedOn, WatcherInv, ChainPays
      <3>2. /\ \A p \in ObservedOn(n) \cup {o} : p.tx \notin Foreign
            /\ \A p, q \in ObservedOn(n) \cup {o} : p.tx.intent = q.tx.intent => p = q
        BY <3>1 DEF OwnPayments, ObservedOn
      <3>3. QED
        BY <2>2, <2>3, <3>2, OwnPaymentFinds
    <2>4. QED
      BY <2>2, <2>3
  <1>9. QED
    BY <1>3, <1>4, <1>5, <1>6, <1>7, <1>8 DEF WatcherInv

(* Min chooses the first candidate.                                        *)
LEMMA FirstCandidate ==
  ASSUME WatcherConstants, NEW o, Candidates(watcher, o) # {}
  PROVE  LET k == Min(Candidates(watcher, o))
         IN  /\ k \in Candidates(watcher, o)
             /\ \A j \in Candidates(watcher, o) : k <= j
  <1>1. Candidates(watcher, o) \subseteq Nat
    BY DEF Candidates, WatcherConstants
  <1> DEFINE C == Candidates(watcher, o)
  <1> HIDE DEF C
  <1>2. \E k \in C : \A j \in C : ~(j < k)
    BY <1>1, LeastNatural DEF C
  <1>3. \E k \in C : \A j \in C : k <= j
    BY <1>1, <1>2 DEF C
  <1>4. Min(C) \in C /\ \A j \in C : Min(C) <= j
    BY <1>3 DEF Min
  <1>5. QED
    BY <1>4 DEF C

(* An outflow that takes an intent takes it first, once and alone.         *)
LEMMA ReconcileHolds ==
  ASSUME WatcherConstants, WatcherInv, NEW o \in chain, o.tx \notin watcher.seen,
         UNCHANGED <<now, modules, approvals, chain>>,
         o.network \notin watcher.frozen,
         NEW k \in Candidates(watcher, o), \A j \in Candidates(watcher, o) : k <= j,
         watcher' = [watcher EXCEPT !.seen = @ \cup {o.tx}, !.consumed = @ \cup {k},
                                    !.reconciled = @ \cup {<<o, LiveIntents[k]>>}]
  PROVE  WatcherInv'
  <1> DEFINE pair == <<o, LiveIntents[k]>>
  <1>1. /\ watcher'.seen = watcher.seen \cup {o.tx}
        /\ watcher'.consumed = watcher.consumed \cup {k}
        /\ watcher'.frozen = watcher.frozen
        /\ watcher'.reconciled = watcher.reconciled \cup {pair}
        /\ watcher' = [seen |-> watcher'.seen, consumed |-> watcher'.consumed,
                       frozen |-> watcher'.frozen, reconciled |-> watcher'.reconciled]
    BY DEF WatcherInv, WatcherTyped
  <1>2. k \in DOMAIN LiveIntents /\ k \notin watcher.consumed /\ Eligible(o, k)
    BY DEF Candidates, Eligible, SameTransfer, WatcherInv, ChainPays, WatcherConstants,
           Intents
  <1>3. pair[1] = o /\ pair[2] = LiveIntents[k]
    OBVIOUS
  <1>4. \A x \in watcher.reconciled : x[1] # o /\ x[2] # LiveIntents[k]
    <2> SUFFICES ASSUME NEW x \in watcher.reconciled
                 PROVE  x[1] # o /\ x[2] # LiveIntents[k]
      OBVIOUS
    <2>1. PICK p \in chain, i \in watcher.consumed :
            x = <<p, LiveIntents[i]>> /\ p.tx \in watcher.seen
      BY DEF WatcherInv, ReconciledPairs
    <2>2. x[1] = p /\ x[2] = LiveIntents[i]
      BY <2>1
    <2>3. LiveIntents[i] # LiveIntents[k]
      BY <1>2 DEF WatcherConstants, WatcherInv, WatcherTyped
    <2>4. QED
      BY <2>1, <2>2, <2>3
  <1> HIDE DEF pair
  <1>5. ApprovalsPay' /\ ChainPays' /\ now' \in Int
    BY DEF WatcherInv, ApprovalsPay, ChainPays
  <1>6. WatcherTyped'
    BY <1>1, <1>2 DEF WatcherInv, WatcherTyped
  <1>7. ReconciledPairs'
    <2> SUFFICES ASSUME NEW x \in watcher.reconciled \cup {pair}
                 PROVE  \E p \in chain, i \in watcher.consumed \cup {k} :
                          /\ x = <<p, LiveIntents[i]>>
                          /\ p.tx \in watcher.seen \cup {o.tx} /\ Eligible(p, i)
      BY <1>1 DEF ReconciledPairs
    <2>1. CASE x = pair
      BY <2>1, <1>2 DEF pair
    <2>2. CASE x # pair
      BY <2>2 DEF WatcherInv, ReconciledPairs
    <2>3. QED
      BY <2>1, <2>2
  <1>8. PairsDistinct'
    BY <1>1, <1>3, <1>4 DEF WatcherInv, PairsDistinct
  <1>9. ConsumedByOne'
    BY <1>1 DEF WatcherInv, ConsumedByOne, pair
  <1>10. ObservedPaired'
    <2> SUFFICES ASSUME NEW n \in Networks \ watcher.frozen, NEW p \in ObservedOn(n)'
                 PROVE  \E i \in watcher.consumed \cup {k} :
                          <<p, LiveIntents[i]>> \in watcher.reconciled \cup {pair}
      BY <1>1 DEF ObservedPaired
    <2>1. CASE p = o
      BY <2>1 DEF pair
    <2>2. CASE p # o
      <3>1. p \in ObservedOn(n)
        BY <1>1, <2>2 DEF ObservedOn, WatcherInv, ChainPays
      <3>2. QED
        BY <3>1 DEF WatcherInv, ObservedPaired
    <2>3. QED
      BY <2>1, <2>2
  <1>11. TakesFirst'
    <2> SUFFICES ASSUME NEW p \in chain, NEW i \in watcher.consumed \cup {k},
                        <<p, LiveIntents[i]>> \in watcher.reconciled \cup {pair},
                        NEW j \in DOMAIN LiveIntents, j < i, Eligible(p, j)
                 PROVE  j \in watcher.consumed \cup {k}
      BY <1>1 DEF TakesFirst
    <2>1. CASE <<p, LiveIntents[i]>> = pair
      <3>1. p = o /\ LiveIntents[i] = LiveIntents[k]
        BY <2>1 DEF pair
      <3>2. i = k
        BY <3>1, <1>2 DEF WatcherConstants, WatcherInv, WatcherTyped
      <3>3. j \notin Candidates(watcher, o)
        <4>1. j \in Int /\ k \in Int
          BY <1>2 DEF WatcherConstants
        <4>2. QED
          BY <3>2, <4>1
      <3>4. LiveIntents[j].expires_at > o.at
        BY <3>1, LiveIsIntent DEF Eligible, WatcherConstants, WatcherInv, ChainPays
      <3>5. QED
        BY <3>1, <3>3, <3>4 DEF Candidates, Eligible, SameTransfer
    <2>2. CASE <<p, LiveIntents[i]>> # pair
      <3>1. <<p, LiveIntents[i]>> \in watcher.reconciled
        BY <2>2
      <3>2. i # k
        <4>1. <<p, LiveIntents[i]>>[2] = LiveIntents[i]
          OBVIOUS
        <4>2. QED
          BY <1>4, <3>1, <4>1
      <3>3. QED
        BY <3>1, <3>2 DEF WatcherInv, TakesFirst
    <2>3. QED
      BY <2>1, <2>2
  <1>12. FreezesForCause'
    <2> SUFFICES ASSUME NEW n \in Networks, ListedByExpiry, OwnPayments(n)'
                 PROVE  n \notin watcher.frozen
      BY <1>1 DEF FreezesForCause
    <2>1. OwnPayments(n)
      BY <1>1 DEF OwnPayments, ObservedOn
    <2>2. QED
      BY <2>1 DEF WatcherInv, FreezesForCause
  <1>13. QED
    BY <1>5, <1>6, <1>7, <1>8, <1>9, <1>10, <1>11, <1>12 DEF WatcherInv

LEMMA ObservationHolds ==
  ASSUME WatcherConstants, WatcherInv, NEW o \in chain, Observe(o)
  PROVE  WatcherInv'
  <1>1. UNCHANGED <<now, modules, approvals, chain>>
    BY DEF Observe
  <1>2. CASE watcher' = watcher
    BY <1>1, <1>2, WatcherKeeps DEF WatcherInv, ApprovalsPay, ChainPays
  <1>3. CASE watcher' # watcher
    <2>1. CASE Candidates(watcher, o) # {} /\ o.network \notin watcher.frozen
               /\ o.tx \notin watcher.seen
      <3> DEFINE k == Min(Candidates(watcher, o))
      <3>1. k \in Candidates(watcher, o) /\ \A j \in Candidates(watcher, o) : k <= j
        BY <2>1, FirstCandidate
      <3>2. watcher' = [watcher EXCEPT !.seen = @ \cup {o.tx}, !.consumed = @ \cup {k},
                                       !.reconciled = @ \cup {<<o, LiveIntents[k]>>}]
        BY <1>3, <2>1, ObservedFields
      <3> HIDE DEF k
      <3>3. QED
        BY <1>1, <2>1, <3>1, <3>2, ReconcileHolds
    <2>2. CASE ~(Candidates(watcher, o) # {} /\ o.network \notin watcher.frozen
                 /\ o.tx \notin watcher.seen)
      BY <1>1, <1>3, <2>2, ObservedFields, NotedHolds, FreezeHolds
    <2>3. QED
      BY <2>1, <2>2
  <1>4. QED
    BY <1>2, <1>3

(* While a network is not frozen, every outflow observed on it is the one  *)
(* payment of an intent, paid in time; and it only freezes for a cause, in *)
(* whatever order the chain shows its payments (observe of watcher.mjs).   *)
THEOREM WatcherExplains ==
  ASSUME WatcherConstants
  PROVE  SigningSpec => []OutflowsExplained
  <1>1. WatcherInv /\ [SigningNext]_signingVars => WatcherInv'
    <2> SUFFICES ASSUME WatcherInv, [SigningNext]_signingVars PROVE WatcherInv'
      OBVIOUS
    <2>1. CASE UNCHANGED <<approvals, chain, watcher>> /\ now' \in Int
      BY <2>1, WatcherKeeps DEF WatcherInv, ApprovalsPay, ChainPays
    <2>2. CASE Tick \/ (\E t \in Tiers : Freeze(t) \/ Unfreeze(t)) \/ UNCHANGED signingVars
      <3>1. UNCHANGED <<approvals, chain, watcher>> /\ now' \in Int
        BY <2>2 DEF Tick, Freeze, Unfreeze, signingVars, WatcherInv
      <3>2. QED
        BY <2>1, <3>1
    <2>3. QED
      BY <2>2, ApprovedPays, PaymentPays, ObservationHolds DEF SigningNext
  <1>2. WatcherInv => OutflowsExplained
    <2> SUFFICES ASSUME WatcherInv, NEW n \in Networks
                 PROVE  /\ n \notin watcher.frozen =>
                             /\ \A o \in ObservedOn(n) : \E i \in Intents :
                                  /\ <<o, i>> \in watcher.reconciled
                                  /\ i.transfer = o.transfer /\ o.at < i.expires_at
                             /\ \A x, y \in watcher.reconciled : x[2] = y[2] => x = y
                        /\ (ListedByExpiry /\ OwnPayments(n)) => n \notin watcher.frozen
      BY DEF OutflowsExplained
    <2>1. ASSUME n \notin watcher.frozen, NEW o \in ObservedOn(n)
          PROVE  \E i \in Intents : /\ <<o, i>> \in watcher.reconciled
                                    /\ i.transfer = o.transfer /\ o.at < i.expires_at
      <3>1. PICK k \in watcher.consumed : <<o, LiveIntents[k]>> \in watcher.reconciled
        BY <2>1 DEF WatcherInv, ObservedPaired
      <3>2. PICK p \in chain, j \in watcher.consumed :
              <<o, LiveIntents[k]>> = <<p, LiveIntents[j]>> /\ Eligible(p, j)
        BY <3>1 DEF WatcherInv, ReconciledPairs
      <3>3. o = p /\ LiveIntents[k] = LiveIntents[j]
        BY <3>2
      <3>4. LiveIntents[k] \in Intents
        BY LiveIsIntent DEF WatcherInv, WatcherTyped
      <3>5. QED
        BY <3>1, <3>2, <3>3, <3>4 DEF Eligible, SameTransfer
    <2>2. QED
      BY <2>1 DEF WatcherInv, PairsDistinct, FreezesForCause
  <1>3. QED
    BY <1>1, <1>2, WatcherInit, PTL DEF SigningSpec
-----------------------------------------------------------------------------
Steps == {"called", "replays", "absent", "inserted", "violated"}

CallsTyped ==
  /\ calls = [c \in Callers |-> calls[c]]
  /\ \A c \in Callers : calls[c] # None => calls[c] \in [request : Requests, step : Steps]
  /\ outbox \subseteq Requests

ReplayedAlone ==
  \A c \in Callers : At(c, "replays") => OfKey(calls[c].request) = {calls[c].request}

InsertedFree ==
  \A c \in Callers : At(c, "inserted") =>
    /\ ~CollidesWithCommitted(calls[c].request)
    /\ \A o \in Callers \ {c} :
         At(o, "inserted") => ~Collides(calls[o].request, calls[c].request)

ViolatedTaken ==
  \A c \in Callers : At(c, "violated") => CollidesWithCommitted(calls[c].request)

OutboxInv == CallsTyped /\ ReplayedAlone /\ InsertedFree /\ ViolatedTaken

(* What a call may turn to, outside of its commit.                         *)
Resolves(c) ==
  /\ calls[c] # None
  /\ calls' = [calls EXCEPT ![c] = None]
  /\ UNCHANGED outbox

LEMMA InitHolds == OutboxInit => OutboxInv
  BY DEF OutboxInit, OutboxInv, CallsTyped, ReplayedAlone, InsertedFree, ViolatedTaken, At

LEMMA CallHolds ==
  ASSUME OutboxInv, NEW c \in Callers, NEW r \in Requests, Call(c, r)
  PROVE  OutboxInv'
  <1>1. /\ outbox' = outbox
        /\ calls' = [calls EXCEPT ![c] = [request |-> r, step |-> "called"]]
    BY DEF Call
  <1>2. CallsTyped'
    BY <1>1 DEF OutboxInv, CallsTyped, Steps
  <1>3. ASSUME NEW d \in Callers, NEW step, step # "called", At(d, step)'
        PROVE  calls'[d] = calls[d] /\ At(d, step)
    BY <1>1, <1>3 DEF OutboxInv, CallsTyped, At
  <1>4. ReplayedAlone'
    BY <1>1, <1>3 DEF OutboxInv, ReplayedAlone, OfKey
  <1>5. InsertedFree'
    BY <1>1, <1>3 DEF OutboxInv, InsertedFree, CollidesWithCommitted
  <1>6. ViolatedTaken'
    BY <1>1, <1>3 DEF OutboxInv, ViolatedTaken, CollidesWithCommitted
  <1>7. QED
    BY <1>2, <1>4, <1>5, <1>6 DEF OutboxInv

LEMMA ResolveHolds ==
  ASSUME OutboxInv, NEW c \in Callers, Resolves(c)
  PROVE  OutboxInv'
  <1>1. outbox' = outbox /\ calls' = [calls EXCEPT ![c] = None]
    BY DEF Resolves
  <1>2. CallsTyped'
    BY <1>1 DEF OutboxInv, CallsTyped
  <1>3. ASSUME NEW d \in Callers, NEW step, At(d, step)'
        PROVE  calls'[d] = calls[d] /\ At(d, step)
    BY <1>1, <1>3 DEF OutboxInv, CallsTyped, At
  <1>4. ReplayedAlone'
    BY <1>1, <1>3 DEF OutboxInv, ReplayedAlone, OfKey
  <1>5. InsertedFree'
    BY <1>1, <1>3 DEF OutboxInv, InsertedFree, CollidesWithCommitted
  <1>6. ViolatedTaken'
    BY <1>1, <1>3 DEF OutboxInv, ViolatedTaken, CollidesWithCommitted
  <1>7. QED
    BY <1>2, <1>4, <1>5, <1>6 DEF OutboxInv

(* A call goes on to a step whose condition holds.                         *)
LEMMA MoveHolds ==
  ASSUME OutboxInv, NEW c \in Callers, NEW step \in Steps,
         calls[c] # None, Moves(c, step),
         step = "replays" => OfKey(calls[c].request) = {calls[c].request},
         step = "inserted" =>
           /\ ~CollidesWithCommitted(calls[c].request)
           /\ ~\E p \in Pending : Collides(p, calls[c].request),
         step = "violated" => CollidesWithCommitted(calls[c].request)
  PROVE  OutboxInv'
  <1>1. outbox' = outbox /\ calls' = [calls EXCEPT ![c].step = step]
    BY DEF Moves
  <1>2. CallsTyped'
    BY <1>1 DEF OutboxInv, CallsTyped
  <1>3. /\ calls[c] \in [request : Requests, step : Steps]
        /\ calls'[c].request = calls[c].request /\ calls'[c].step = step
    BY <1>1 DEF OutboxInv, CallsTyped
  <1>4. ASSUME NEW d \in Callers, NEW at, At(d, at)', ~(d = c /\ at = step)
        PROVE  calls'[d] = calls[d] /\ At(d, at) /\ d # c
    BY <1>1, <1>3, <1>4 DEF OutboxInv, CallsTyped, At
  <1>5. ReplayedAlone'
    BY <1>1, <1>3, <1>4 DEF OutboxInv, ReplayedAlone, OfKey
  <1>6. ViolatedTaken'
    BY <1>1, <1>3, <1>4 DEF OutboxInv, ViolatedTaken, CollidesWithCommitted
  <1>7. InsertedFree'
    <2> SUFFICES ASSUME NEW d \in Callers, At(d, "inserted")'
                 PROVE  /\ ~(\E p \in outbox' : Collides(p, calls'[d].request))
                        /\ \A o \in Callers \ {d} : At(o, "inserted")' =>
                             ~Collides(calls'[o].request, calls'[d].request)
      BY DEF InsertedFree, CollidesWithCommitted
    <2>1. CASE step # "inserted"
      <3>1. \A o \in Callers : At(o, "inserted")' => calls'[o] = calls[o] /\ At(o, "inserted")
        BY <1>4, <2>1
      <3>2. QED
        BY <1>1, <3>1 DEF OutboxInv, InsertedFree, CollidesWithCommitted
    <2>2. CASE step = "inserted" /\ d # c
      <3>1. calls'[d] = calls[d] /\ At(d, "inserted")
        BY <1>4, <2>2
      <3>2. ~CollidesWithCommitted(calls[d].request)
        BY <3>1 DEF OutboxInv, InsertedFree
      <3>3. ~Collides(calls[d].request, calls[c].request)
        BY <2>2, <3>1 DEF Pending
      <3>4. ASSUME NEW o \in Callers \ {d}, At(o, "inserted")'
            PROVE  ~Collides(calls'[o].request, calls'[d].request)
        <4>1. CASE o = c
          BY <4>1, <1>3, <3>1, <3>3 DEF Collides
        <4>2. CASE o # c
          <5>1. calls'[o] = calls[o] /\ At(o, "inserted")
            BY <1>4, <3>4, <4>2
          <5>2. QED
            BY <5>1, <3>1 DEF OutboxInv, InsertedFree
        <4>3. QED
          BY <4>1, <4>2
      <3>5. QED
        BY <1>1, <3>1, <3>2, <3>4 DEF CollidesWithCommitted
    <2>3. CASE step = "inserted" /\ d = c
      <3>1. ASSUME NEW o \in Callers \ {d}, At(o, "inserted")'
            PROVE  ~Collides(calls'[o].request, calls'[d].request)
        <4>1. calls'[o] = calls[o] /\ At(o, "inserted")
          BY <1>4, <2>3, <3>1
        <4>2. ~Collides(calls[o].request, calls[c].request)
          BY <2>3, <4>1 DEF Pending
        <4>3. QED
          BY <1>3, <2>3, <4>1, <4>2
      <3>2. QED
        BY <1>1, <1>3, <2>3, <3>1 DEF CollidesWithCommitted
    <2>4. QED
      BY <2>1, <2>2, <2>3
  <1>8. QED
    BY <1>2, <1>5, <1>6, <1>7 DEF OutboxInv

(* A commit disturbs nobody: what it adds collides with no row and with no *)
(* other insertion.                                                        *)
LEMMA CommitHolds ==
  ASSUME OutboxInv, NEW c \in Callers,
         At(c, "inserted") \/ At(c, "replays"),
         outbox' = Committed(c), calls' = [calls EXCEPT ![c] = None]
  PROVE  OutboxInv'
  <1>1. ASSUME NEW d \in Callers, NEW step, At(d, step)'
        PROVE  calls'[d] = calls[d] /\ At(d, step) /\ d # c
    BY <1>1 DEF OutboxInv, CallsTyped, At
  <1>2. calls[c] # None /\ calls[c].request \in Requests
    BY DEF OutboxInv, CallsTyped, At
  <1>3. CallsTyped'
    BY <1>2 DEF OutboxInv, CallsTyped, Committed
  <1>4. ASSUME NEW d \in Callers, At(d, "replays")'
        PROVE  {p \in outbox' : p.key = calls'[d].request.key} = {calls'[d].request}
    <2>1. /\ calls'[d] = calls[d] /\ At(d, "replays")
          /\ OfKey(calls[d].request) = {calls[d].request}
      BY <1>1, <1>4 DEF OutboxInv, ReplayedAlone
    <2>2. ~At(c, "inserted") \/ calls[c].request.key # calls[d].request.key
      BY <2>1 DEF OutboxInv, InsertedFree, CollidesWithCommitted, Collides, OfKey
    <2>3. {p \in outbox' : p.key = calls[d].request.key} = OfKey(calls[d].request)
      BY <2>1, <2>2 DEF OfKey, Committed
    <2>4. QED
      BY <2>1, <2>3
  <1>5. ASSUME NEW d \in Callers, At(d, "inserted")'
        PROVE  /\ ~(\E p \in outbox' : Collides(p, calls'[d].request))
               /\ \A o \in Callers \ {d} : At(o, "inserted")' =>
                    ~Collides(calls'[o].request, calls'[d].request)
    <2>1. calls'[d] = calls[d] /\ At(d, "inserted") /\ c # d
      BY <1>1, <1>5 DEF At
    <2>2. \A p \in outbox' : ~Collides(p, calls[d].request)
      BY <2>1 DEF OutboxInv, InsertedFree, CollidesWithCommitted, Committed
    <2>3. ASSUME NEW o \in Callers \ {d}, At(o, "inserted")'
          PROVE  ~Collides(calls'[o].request, calls'[d].request)
      <3>1. calls'[o] = calls[o] /\ At(o, "inserted")
        BY <1>1, <2>3
      <3>2. QED
        BY <2>1, <3>1 DEF OutboxInv, InsertedFree
    <2>4. QED
      BY <2>1, <2>2, <2>3 DEF CollidesWithCommitted
  <1>6. ASSUME NEW d \in Callers, At(d, "violated")'
        PROVE  (\E p \in outbox' : Collides(p, calls'[d].request))
    <2>1. calls'[d] = calls[d] /\ CollidesWithCommitted(calls[d].request)
      BY <1>1, <1>6 DEF OutboxInv, ViolatedTaken
    <2>2. outbox \subseteq outbox'
      BY DEF Committed
    <2>3. QED
      BY <2>1, <2>2 DEF CollidesWithCommitted
  <1>7. ReplayedAlone'
    BY <1>4 DEF ReplayedAlone, OfKey
  <1>8. InsertedFree'
    BY <1>5 DEF InsertedFree, CollidesWithCommitted
  <1>9. ViolatedTaken'
    BY <1>6 DEF ViolatedTaken, CollidesWithCommitted
  <1>10. QED
    BY <1>3, <1>7, <1>8, <1>9 DEF OutboxInv
-----------------------------------------------------------------------------
(* The conditions under which each step of a call moves it on.             *)
LEMMA FindHolds ==
  ASSUME OutboxInv, NEW c \in Callers, calls[c] # None, Finds(c)
  PROVE  OutboxInv'
  <1>1. CASE OfKey(calls[c].request) = {calls[c].request}
    <2>1. Moves(c, "replays")
      BY <1>1 DEF Finds
    <2>2. QED
      BY <1>1, <2>1, MoveHolds DEF Steps
  <1>2. CASE OfKey(calls[c].request) # {calls[c].request}
    <2>1. Resolves(c)
      BY <1>2 DEF Finds, Raises, Resolves
    <2>2. QED
      BY <2>1, ResolveHolds
  <1>3. QED
    BY <1>1, <1>2

LEMMA InsertHolds ==
  ASSUME OutboxInv, NEW c \in Callers, Insert(c)
  PROVE  OutboxInv'
  <1>1. /\ calls[c] # None
        /\ ~\E p \in Pending : Collides(p, calls[c].request)
    BY DEF Insert, At
  <1>2. CASE CollidesWithCommitted(calls[c].request)
    <2>1. Moves(c, "violated")
      BY <1>2 DEF Insert
    <2>2. QED
      BY <1>1, <1>2, <2>1, MoveHolds DEF Steps
  <1>3. CASE ~CollidesWithCommitted(calls[c].request)
    <2>1. Moves(c, "inserted")
      BY <1>3 DEF Insert
    <2>2. QED
      BY <1>1, <1>3, <2>1, MoveHolds DEF Steps
  <1>4. QED
    BY <1>2, <1>3

LEMMA StepHolds ==
  ASSUME OutboxInv, [OutboxNext]_outboxVars
  PROVE  OutboxInv'
  <1>1. CASE UNCHANGED outboxVars
    BY <1>1 DEF outboxVars, OutboxInv, CallsTyped, ReplayedAlone, InsertedFree, ViolatedTaken,
                At, OfKey, CollidesWithCommitted
  <1>2. ASSUME NEW c \in Callers, NEW r \in Requests, Call(c, r)
        PROVE  OutboxInv'
    BY <1>2, CallHolds
  <1>3. ASSUME NEW c \in Callers, Select(c)
        PROVE  OutboxInv'
    <2>1. calls[c] # None
      BY <1>3 DEF Select, At
    <2>2. CASE Finds(c)
      BY <2>1, <2>2, FindHolds
    <2>3. CASE Moves(c, "absent")
      BY <2>1, <2>3, MoveHolds DEF Steps
    <2>4. QED
      BY <1>3, <2>2, <2>3 DEF Select
  <1>4. ASSUME NEW c \in Callers, Reselect(c)
        PROVE  OutboxInv'
    <2>1. calls[c] # None
      BY <1>4 DEF Reselect, At
    <2>2. CASE Finds(c)
      BY <2>1, <2>2, FindHolds
    <2>3. CASE Raises(c, "identity taken")
      BY <2>1, <2>3, ResolveHolds DEF Raises, Resolves
    <2>4. QED
      BY <1>4, <2>2, <2>3 DEF Reselect
  <1>5. ASSUME NEW c \in Callers, Commit(c) \/ CommitUnanswered(c)
        PROVE  OutboxInv'
    BY <1>5, CommitHolds DEF Commit, CommitUnanswered
  <1>6. ASSUME NEW c \in Callers, RollBack(c)
        PROVE  OutboxInv'
    BY <1>6, ResolveHolds DEF RollBack, Resolves
  <1>7. QED
    BY <1>1, <1>2, <1>3, <1>4, <1>5, <1>6, InsertHolds DEF OutboxNext

-----------------------------------------------------------------------------
(* Apart from the key, a unique column is an identity of the registry.     *)
LEMMA CollisionsShareIdentities ==
  ASSUME NEW p, NEW r, Collides(p, r), p.key # r.key
  PROVE  Projection!Identities(p) \cap Projection!Identities(r) # {}
  <1>1. \/ p.event = r.event \/ p.approved = r.approved
        \/ p.withdrawal = r.withdrawal \/ p.intent = r.intent
    BY DEF Collides
  <1>2. QED
    BY <1>1 DEF Projection!Identities

(* The registry is never full of fewer requests than there are.            *)
LEMMA NeverFull ==
  ASSUME OutboxInv, IsFiniteSet(Requests)
  PROVE  ~(Cardinality(outbox) >= Cardinality(Requests) + 1)
  <1>1. outbox \subseteq Requests
    BY DEF OutboxInv, CallsTyped
  <1>2. /\ Cardinality(outbox) \in Nat /\ Cardinality(Requests) \in Nat
        /\ Cardinality(outbox) <= Cardinality(Requests)
    BY <1>1, FS_Subset, FS_CardinalityType
  <1>3. QED
    BY <1>2

LEMMA CardinalityInTheRegistry ==
  Projection!Cardinality(outbox) = Cardinality(outbox)
  BY DEF Projection!Cardinality, Cardinality

(* What the registry answers to a key it does not have.                    *)
LEMMA NewKeyOutcome ==
  ASSUME OutboxInv, IsFiniteSet(Requests), NEW r, Projection!Prior(r) = {}
  PROVE  Projection!Outcome(r) =
           IF \E p \in outbox : Projection!Identities(p) \cap Projection!Identities(r) # {}
           THEN "identity taken" ELSE "recorded"
  <1>1. Projection!Prior(r) # {r}
    OBVIOUS
  <1>2. Projection!Prior(r) \in {{}, {r}}
    OBVIOUS
  <1>3. ~(Projection!Cardinality(outbox) >= Cardinality(Requests) + 1)
    BY NeverFull, CardinalityInTheRegistry
  <1>4. QED
    BY <1>1, <1>2, <1>3 DEF Projection!Outcome

(* A step that raises is the call of the registry that is refused.         *)
LEMMA RaisesImplement ==
  ASSUME NEW c \in Callers, NEW outcome, Raises(c, outcome),
         calls[c].request \in Requests,
         outcome = Projection!Outcome(calls[c].request), outcome # "recorded"
  PROVE  Projection!Next
  BY DEF Raises, Projection!Next, Projection!Project

LEMMA FindsImplement ==
  ASSUME OutboxInv, NEW c \in Callers, calls[c] # None, Finds(c)
  PROVE  Projection!Next \/ UNCHANGED <<outbox, answers>>
  <1> DEFINE r == calls[c].request
  <1>1. CASE OfKey(r) = {r}
    BY <1>1 DEF Finds, Moves
  <1>2. CASE OfKey(r) # {r}
    <2>1. Raises(c, "key reused") /\ OfKey(r) # {}
      BY <1>2 DEF Finds
    <2>2. Projection!Prior(r) \notin {{}, {r}}
      BY <1>2, <2>1 DEF Projection!Prior, OfKey
    <2>3. Projection!Outcome(r) = "key reused"
      BY <2>2 DEF Projection!Outcome
    <2>4. r \in Requests
      BY DEF OutboxInv, CallsTyped
    <2>5. QED
      BY <2>1, <2>3, <2>4, RaisesImplement
  <1>3. QED
    BY <1>1, <1>2

LEMMA ReselectImplements ==
  ASSUME OutboxInv, IsFiniteSet(Requests), NEW c \in Callers, Reselect(c)
  PROVE  Projection!Next \/ UNCHANGED <<outbox, answers>>
  <1> DEFINE r == calls[c].request
  <1>1. calls[c] # None /\ r \in Requests /\ CollidesWithCommitted(r)
    BY DEF Reselect, At, OutboxInv, CallsTyped, ViolatedTaken
  <1>2. CASE Finds(c)
    BY <1>1, <1>2, FindsImplement
  <1>3. CASE OfKey(r) = {} /\ Raises(c, "identity taken")
    <2>1. PICK p \in outbox : Collides(p, r)
      BY <1>1 DEF CollidesWithCommitted
    <2>2. p.key # r.key
      BY <1>3 DEF OfKey
    <2>3. Projection!Identities(p) \cap Projection!Identities(r) # {}
      BY <2>1, <2>2, CollisionsShareIdentities
    <2>4. Projection!Prior(r) = {}
      BY <1>3 DEF Projection!Prior, OfKey
    <2>5. Projection!Outcome(r) = "identity taken"
      BY <2>3, <2>4, NewKeyOutcome
    <2>6. QED
      BY <1>1, <1>3, <2>5, RaisesImplement
  <1>4. QED
    BY <1>2, <1>3 DEF Reselect

(* A commit is the moment of its call.                                     *)
LEMMA CommitImplements ==
  ASSUME OutboxInv, IsFiniteSet(Requests), NEW c \in Callers,
         \A p, q \in Requests :
           Projection!Identities(p) \cap Projection!Identities(q) # {} => Collides(p, q),
         Commit(c) \/ CommitUnanswered(c)
  PROVE  Projection!Next
  <1> DEFINE r == calls[c].request
             outcome == IF At(c, "inserted") THEN "recorded" ELSE "replayed"
  <1>1. calls[c] # None /\ r \in Requests /\ outbox \subseteq Requests
    BY DEF Commit, CommitUnanswered, At, OutboxInv, CallsTyped
  <1>2. /\ outbox' = IF At(c, "inserted") THEN outbox \cup {r} ELSE outbox
        /\ answers' \in {answers, [answers EXCEPT ![c] = [request |-> r, outcome |-> outcome]]}
    BY DEF Commit, CommitUnanswered, Committed
  <1>3. outcome = Projection!Outcome(r)
    <2>1. CASE At(c, "inserted")
      <3>1. ~CollidesWithCommitted(r)
        BY <2>1 DEF OutboxInv, InsertedFree
      <3>2. Projection!Prior(r) = {}
        BY <3>1 DEF Projection!Prior, CollidesWithCommitted, Collides
      <3>3. ~\E p \in outbox : Projection!Identities(p) \cap Projection!Identities(r) # {}
        BY <1>1, <3>1 DEF CollidesWithCommitted
      <3>4. QED
        BY <2>1, <3>2, <3>3, NewKeyOutcome
    <2>2. CASE At(c, "replays") /\ ~At(c, "inserted")
      <3>1. Projection!Prior(r) = {r}
        BY <2>2 DEF OutboxInv, ReplayedAlone, Projection!Prior, OfKey
      <3>2. QED
        BY <2>2, <3>1 DEF Projection!Outcome
    <2>3. QED
      BY <2>1, <2>2 DEF Commit, CommitUnanswered
  <1>4. (outcome = "recorded") <=> At(c, "inserted")
    OBVIOUS
  <1> HIDE DEF outcome
  <1>5. Projection!Project(c, r)
    BY <1>2, <1>3, <1>4 DEF Projection!Project
  <1>6. QED
    BY <1>1, <1>5 DEF Projection!Next

(* Calls that overlap, fail, lose their answers or are repeated are, each  *)
(* of them, one atomic call of the registry (record_custody_projection of  *)
(* custody-core/migrations/0001).  The table has one column for an         *)
(* approval and one for the event that approved: the premise is that two   *)
(* requests share no identity of the registry that has no column.          *)
THEOREM TransactionsImplementTheRegistry ==
  ASSUME IsFiniteSet(Requests),
         \A p, r \in Requests :
           Projection!Identities(p) \cap Projection!Identities(r) # {} => Collides(p, r)
  PROVE  OutboxSpec => ImplementsProjection
  <1>1. OutboxInit => Projection!Init
    BY DEF OutboxInit, Projection!Init
  <1>2. ASSUME OutboxInv, [OutboxNext]_outboxVars
        PROVE  [Projection!Next]_<<outbox, answers>>
    <2>1. CASE UNCHANGED outboxVars
      BY <2>1 DEF outboxVars
    <2>2. ASSUME NEW c \in Callers, NEW r \in Requests, Call(c, r)
          PROVE  UNCHANGED <<outbox, answers>>
      BY <2>2 DEF Call
    <2>3. ASSUME NEW c \in Callers, Select(c)
          PROVE  Projection!Next \/ UNCHANGED <<outbox, answers>>
      BY <1>2, <2>3, FindsImplement DEF Select, At, Moves
    <2>4. ASSUME NEW c \in Callers, Insert(c) \/ RollBack(c)
          PROVE  UNCHANGED <<outbox, answers>>
      BY <2>4 DEF Insert, Moves, RollBack
    <2>5. ASSUME NEW c \in Callers, Reselect(c)
          PROVE  Projection!Next \/ UNCHANGED <<outbox, answers>>
      BY <1>2, <2>5, ReselectImplements
    <2>6. ASSUME NEW c \in Callers, Commit(c) \/ CommitUnanswered(c)
          PROVE  Projection!Next
      BY <1>2, <2>6, CommitImplements
    <2>7. QED
      BY <1>2, <2>1, <2>2, <2>3, <2>4, <2>5, <2>6 DEF OutboxNext
  <1>3. QED
    BY <1>1, <1>2, InitHolds, StepHolds, PTL DEF OutboxSpec, ImplementsProjection, Projection!Spec
=============================================================================
