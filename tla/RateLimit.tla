------------------------------ MODULE RateLimit ------------------------------
(***************************************************************************)
(* The PostgreSQL rate limiter of packages/customer-api: CONSUME_SQL of    *)
(* src/postgres-store.mjs, which answers what consumeFixedWindowBucket of  *)
(* src/rate-limit.mjs answers when consumes do not overlap.                *)
(*                                                                         *)
(* A consume is one statement of several CTEs over one snapshot: whether   *)
(* the key has a bucket, how many buckets are live and how many there are. *)
(* The upsert and the sweep judge the rows they change as last committed.  *)
(***************************************************************************)
EXTENDS Integers, FiniteSets

CONSTANTS
  Keys, Callers, Moments,
  Window, Limit, MaxKeys,
  Absent

VARIABLES
  buckets,   \* the count and end of each key's window
  consumes,  \* the consume each caller awaits, with what its snapshot says
  granted    \* the requests allowed in the window each bucket counts

limiterVars == <<buckets, consumes, granted>>

LimiterInit ==
  /\ buckets = [k \in Keys |-> Absent]
  /\ consumes = [c \in Callers |-> Absent]
  /\ granted = [k \in Keys |-> 0]

Over(bucket, now) == bucket # Absent /\ bucket.reset_at <= now

StoredKeys == {k \in Keys : buckets[k] # Absent}

Live(now) == {k \in StoredKeys : ~Over(buckets[k], now)}

SnapshotOfStored(key, now) ==
  [key |-> key, now |-> now, prior |-> key \in StoredKeys,
   writes |-> key \in StoredKeys \/ Cardinality(StoredKeys) < MaxKeys,
   swept |-> IF key \notin StoredKeys /\ Cardinality(StoredKeys) >= MaxKeys
             THEN StoredKeys \ Live(now) ELSE {}]

(* The CTEs that read: prior, occupancy, row_total and the rows to sweep.  *)
Snapshot(key, now) ==
  [key |-> key, now |-> now, prior |-> key \in StoredKeys,
   writes |-> key \in StoredKeys \/ Cardinality(Live(now)) < MaxKeys,
   swept |-> IF key \notin StoredKeys /\ Cardinality(StoredKeys) >= MaxKeys
             THEN StoredKeys \ Live(now) ELSE {}]

(* INSERT ... ON CONFLICT DO UPDATE, on the row as last committed.         *)
Starts(q) == buckets[q.key] = Absent \/ Over(buckets[q.key], q.now)

(* A count above the limit is over the limit, by however much.             *)
OneMore(count) == IF count > Limit THEN count ELSE count + 1

CountAfterSnapshot(q) ==
  IF ~q.prior \/ Starts(q) THEN 1 ELSE OneMore(buckets[q.key].count)

Count(q) == IF Starts(q) THEN 1 ELSE OneMore(buckets[q.key].count)

Upserted(q) ==
  IF Starts(q) THEN [count |-> 1, reset_at |-> q.now + Window]
  ELSE [buckets[q.key] EXCEPT !.count = Count(q)]

Table(q) ==
  [k \in Keys |->
     CASE k = q.key /\ q.writes -> Upserted(q)
       [] k \in q.swept /\ Over(buckets[k], q.now) -> Absent
       [] OTHER -> buckets[k]]

Allowed(q) == q.writes /\ Count(q) <= Limit

ConsumeCalled(c, key, now) ==
  /\ consumes[c] = Absent
  /\ consumes' = [consumes EXCEPT ![c] = Snapshot(key, now)]
  /\ UNCHANGED <<buckets, granted>>

Answer(c) ==
  LET q == consumes[c]
      earlier == IF Starts(q) THEN 0 ELSE granted[q.key]
  IN  /\ q # Absent
      /\ buckets' = Table(q)
      /\ granted' = IF q.writes
                    THEN [granted EXCEPT ![q.key] = earlier + (IF Allowed(q) THEN 1 ELSE 0)]
                    ELSE granted
      /\ consumes' = [consumes EXCEPT ![c] = Absent]

(* A connection or statement that fails before it takes effect.            *)
Fails(c) ==
  /\ consumes[c] # Absent
  /\ consumes' = [consumes EXCEPT ![c] = Absent]
  /\ UNCHANGED <<buckets, granted>>

LimiterNext ==
  \E c \in Callers :
    \/ \E key \in Keys, now \in Moments : ConsumeCalled(c, key, now)
    \/ Answer(c) \/ Fails(c)

LimiterSpec == LimiterInit /\ [][LimiterNext]_limiterVars
-----------------------------------------------------------------------------
(* consumeFixedWindowBucket, step by step: the table it leaves and whether *)
(* it allows the request.                                                  *)
Shed(key, now) ==
  IF key \notin StoredKeys /\ Cardinality(StoredKeys) >= MaxKeys
  THEN [k \in Keys |-> IF Over(buckets[k], now) THEN Absent ELSE buckets[k]]
  ELSE buckets

Refused(key, now) ==
  key \notin StoredKeys /\ Cardinality({k \in Keys : Shed(key, now)[k] # Absent}) >= MaxKeys

FixedWindow(key, now) ==
  LET shed == Shed(key, now)
      opened == IF shed[key] = Absent \/ Over(shed[key], now)
                THEN [count |-> 0, reset_at |-> now + Window] ELSE shed[key]
  IN  IF Refused(key, now) THEN [table |-> shed, allowed |-> FALSE]
      ELSE [table |-> [shed EXCEPT ![key] = [opened EXCEPT !.count = OneMore(@)]],
            allowed |-> OneMore(opened.count) <= Limit]

(* The statement is the memory limiter whenever nothing overlaps it: "must *)
(* answer exactly what this function answers against the same bucket map"  *)
(* (rate-limit.mjs), on every table overlapping consumes can leave, which  *)
(* may hold more than MaxKeys buckets.                                     *)
MatchesMemoryLimiter ==
  \A key \in Keys, now \in Moments :
    LET q == Snapshot(key, now)
    IN  FixedWindow(key, now) = [table |-> Table(q), allowed |-> Allowed(q)]

(* Consumes that overlap share a window's limit: however their snapshots   *)
(* and sweeps interleave, no bucket allows more requests than Limit.       *)
AllowedWithinLimit ==
  \A k \in StoredKeys : granted[k] <= Limit
=============================================================================
