---------------------------- MODULE AuthSessions ----------------------------
(***************************************************************************)
(* The PostgreSQL auth-session store of packages/customer-api, as several  *)
(* store instances sharing one database: src/postgres-store.mjs over       *)
(* migrations/0002_auth_sessions.sql, called by the directory of           *)
(* src/auth-session-store.mjs.                                             *)
(*                                                                         *)
(* An instance runs its writes one after the other.  A write is a READ     *)
(* COMMITTED transaction of one statement; issue and revoke take the       *)
(* advisory lock of their subject first.  The statement reads a snapshot;  *)
(* what it locks or updates it judges again on the latest committed row,   *)
(* which it reaches when the last writer of the row has committed, so its  *)
(* effects and COMMIT are one step here.  What it joins to a subquery over *)
(* the snapshot is not judged again.                                       *)
(*                                                                         *)
(* A call carries the clock reading it was made at, which may be old when  *)
(* its turn comes, or another host's.  Session ids and bearer digests are  *)
(* random and never collide; digests and last_used_at are left out.        *)
(***************************************************************************)
EXTENDS Integers, FiniteSets

CONSTANTS
  SessionIds,     \* ids to mint; numbers, for ORDER BY session_id
  Subjects, Devices,
  Stores,         \* the instances sharing the database
  Instants, Ttl,  \* clock readings, the life of a session
  MaxPerSubject, MaxRevoked,
  Null

(* Clock readings are milliseconds, and Null stands for SQL's NULL.        *)
ASSUME ClockAssumption ==
  Instants \subseteq Int /\ Ttl \in Nat /\ Null \notin Instants

ASSUME BoundsAssumption ==
  /\ IsFiniteSet(SessionIds) /\ SessionIds \subseteq Int
  /\ MaxPerSubject \in Nat \ {0} /\ MaxRevoked \in Nat
  /\ Null \notin Subjects

VARIABLES
  rows,     \* the committed table, by session id
  calls,    \* the write at the head of each instance's queue
  seen,     \* what its statement read in its snapshot
  failure,  \* the latch of each instance
  told      \* which sessions were minted, and reported revoked

vars == <<rows, calls, seen, failure, told>>

Init ==
  /\ rows = [s \in SessionIds |-> Null]
  /\ calls = [i \in Stores |-> Null]
  /\ seen = [i \in Stores |-> Null]
  /\ failure = [i \in Stores |-> "none"]
  /\ told = [s \in SessionIds |-> "unminted"]

IsActive(row) == row # Null /\ row.revoked_at = Null
IsRevoked(row) == row # Null /\ row.revoked_at # Null
Expired(row, now) == IsActive(row) /\ row.expires_at <= now
Later(a, b) == IF a > b THEN a ELSE b

(* reject_auth_session_mutation.                                           *)
MutationAllowed(old, new) ==
  /\ old.revoked_at = Null
  /\ new.expires_at >= old.expires_at
  /\ old.device # Null => new.device = old.device

(* ORDER BY field DESC, session_id ASC OFFSET keep.                        *)
Overflow(ids, field, keep) ==
  LET Before(s, t) == \/ rows[s][field] > rows[t][field]
                      \/ rows[s][field] = rows[t][field] /\ s < t
  IN  {t \in ids : Cardinality({s \in ids : Before(s, t)}) >= keep}
-----------------------------------------------------------------------------
(* What a directory hands to an instance.                                  *)
Called(i, call) ==
  /\ failure[i] = "none" /\ calls[i] = Null
  /\ calls' = [calls EXCEPT ![i] = call]
  /\ UNCHANGED <<rows, seen, failure>>

IssueCalled(i, subject, now) ==
  \E s \in SessionIds :
    /\ told[s] = "unminted" /\ \A r \in SessionIds : r < s => told[r] # "unminted"
    /\ Called(i, [kind |-> "issue", id |-> s, subject |-> subject, now |-> now])
    /\ told' = [told EXCEPT ![s] = "minted"]

(* Callers name sessions they were given or found in a list; for one that  *)
(* is already gone every call is a no-op.                                  *)
Known(s) == rows[s] # Null

RefreshCalled(i, s, now) ==
  Known(s) /\ Called(i, [kind |-> "refresh", id |-> s, now |-> now]) /\ UNCHANGED told

RevokeCalled(i, s, now) ==
  Known(s) /\ Called(i, [kind |-> "revoke", id |-> s, now |-> now]) /\ UNCHANGED told

BindCalled(i, s, device, now) ==
  /\ Known(s)
  /\ Called(i, [kind |-> "bind", id |-> s, device |-> device, now |-> now])
  /\ UNCHANGED told

SweepCalled(i, now) == Called(i, [kind |-> "sweep", now |-> now]) /\ UNCHANGED told

(* getSession and getSessionByTokenDigest evict what they find expired;    *)
(* listSessions evicts nothing.                                            *)
Get(i, s, now) ==
  /\ failure[i] = "none" /\ Known(s)
  /\ Expired(rows[s], now)
  /\ rows' = [rows EXCEPT ![s] = Null]
  /\ UNCHANGED <<calls, seen, failure, told>>
-----------------------------------------------------------------------------
Running(i) == seen[i] # Null

(* The rows a statement finds with a subquery and then deletes.            *)
ActivesOf(subject, now) ==
  {s \in SessionIds : /\ IsActive(rows[s]) /\ rows[s].subject = subject
                      /\ ~Expired(rows[s], now)}

AllExpired(now) == {s \in SessionIds : Expired(rows[s], now)}

TombstonesBeside(s) ==
  {r \in SessionIds \ {s} : IsRevoked(rows[r]) /\ rows[r].subject = rows[s].subject}

Doomed(c) ==
  CASE c.kind = "issue"  -> AllExpired(c.now) \cup
         Overflow(ActivesOf(c.subject, c.now), "issued_at", MaxPerSubject - 1)
    [] c.kind = "revoke" /\ rows[c.id] # Null ->
         Overflow(TombstonesBeside(c.id), "revoked_at", MaxRevoked)
    [] c.kind = "sweep"  -> AllExpired(c.now)
    [] OTHER -> {}

Found(c) == IF c.kind = "sweep" THEN Null ELSE rows[c.id]

LockedByIssue(c) == IF c.kind = "issue" THEN c.subject ELSE Null

(* The subject a write locks; a revocation looks it up.                    *)
LockedSubject(c) ==
  CASE c.kind = "issue" -> c.subject
    [] c.kind = "revoke" /\ rows[c.id] # Null -> rows[c.id].subject
    [] OTHER -> Null

(* pg_advisory_xact_lock waits for whoever holds the subject.              *)
SubjectFree(i) ==
  LockedSubject(calls[i]) # Null =>
    \A j \in Stores \ {i} : Running(j) => seen[j].locked # LockedSubject(calls[i])

Begin(i) ==
  /\ calls[i] # Null /\ ~Running(i)
  /\ SubjectFree(i)
  /\ seen' = [seen EXCEPT ![i] = [locked |-> LockedSubject(calls[i]),
                                  doomed |-> Doomed(calls[i]),
                                  target |-> Found(calls[i])]]
  /\ UNCHANGED <<rows, calls, failure, told>>

TargetInSnapshot(i) == IF rows[calls[i].id] = Null THEN Null ELSE seen[i].target

(* SELECT ... FOR UPDATE: found in the snapshot, read as last committed.   *)
Target(i) == IF seen[i].target = Null THEN Null ELSE rows[calls[i].id]

Without(ids) == [s \in SessionIds |-> IF s \in ids THEN Null ELSE rows[s]]

IssuedRow(c) ==
  [subject |-> c.subject, device |-> Null, issued_at |-> c.now,
   expires_at |-> c.now + Ttl, revoked_at |-> Null]

Issued(i) == [Without(seen[i].doomed) EXCEPT ![calls[i].id] = IssuedRow(calls[i])]

Swept(i) == Without({s \in seen[i].doomed : Expired(rows[s], calls[i].now)})

(* The lazy evict of an expired target.                                    *)
Evicted(i) == Without({s \in {calls[i].id} : Expired(Target(i), calls[i].now)})

Updates(i) ==
  /\ rows[calls[i].id] # Null
  /\ IsActive(Target(i)) /\ ~Expired(Target(i), calls[i].now)
  /\ calls[i].kind = "bind" => Target(i).device = Null

UpdatedRow(c, row) ==
  CASE c.kind = "refresh" -> [row EXCEPT !.expires_at = Later(c.now + Ttl, @)]
    [] c.kind = "bind"    -> [row EXCEPT !.device = c.device]
    [] c.kind = "revoke"  -> [row EXCEPT !.revoked_at = Later(c.now, row.issued_at)]

(* A revocation pushes the oldest tombstones of its subject out.           *)
Updated(i) ==
  [Without(seen[i].doomed) EXCEPT ![calls[i].id] = UpdatedRow(calls[i], rows[calls[i].id])]

Result(i) ==
  CASE calls[i].kind = "issue" -> Issued(i)
    [] calls[i].kind = "sweep" -> Swept(i)
    [] OTHER -> IF Updates(i) THEN Updated(i) ELSE Evicted(i)

Raises(i) ==
  /\ calls[i].kind \in {"refresh", "bind", "revoke"} /\ Updates(i)
  /\ ~MutationAllowed(rows[calls[i].id], UpdatedRow(calls[i], rows[calls[i].id]))

Settled(i, outcome) ==
  /\ calls' = [calls EXCEPT ![i] = Null]
  /\ seen' = [seen EXCEPT ![i] = Null]
  /\ failure' = [failure EXCEPT ![i] = outcome]

Answered(i) ==
  IF calls[i].kind = "revoke" /\ Updates(i)
  THEN [told EXCEPT ![calls[i].id] = "revoked"] ELSE told

(* An error the trigger raises is not of the command's class: it latches.  *)
Commit(i) ==
  /\ Running(i)
  /\ rows' = IF Raises(i) THEN rows ELSE Result(i)
  /\ told' = IF Raises(i) THEN told ELSE Answered(i)
  /\ Settled(i, IF Raises(i) THEN "raised" ELSE "none")

(* The COMMIT runs and its answer is lost: the caller hears of a failure.  *)
CommitUnanswered(i) ==
  /\ Running(i) /\ ~Raises(i)
  /\ rows' = Result(i)
  /\ Settled(i, "lost")
  /\ UNCHANGED told

RollBackAfterAnswer(i) ==
  /\ calls[i] # Null
  /\ told' = IF Running(i) THEN Answered(i) ELSE told
  /\ Settled(i, "lost")
  /\ UNCHANGED rows

(* No connection, lock_timeout, query_timeout, a deadlock, a crash.        *)
RollBack(i) ==
  /\ calls[i] # Null
  /\ Settled(i, "lost")
  /\ UNCHANGED <<rows, told>>

(* A latched store serves again once it is initialized.                    *)
Initialize(i) ==
  /\ failure[i] # "none"
  /\ failure' = [failure EXCEPT ![i] = "none"]
  /\ UNCHANGED <<rows, calls, seen, told>>

Next ==
  \E i \in Stores :
    \/ \E now \in Instants :
         \/ \E subject \in Subjects : IssueCalled(i, subject, now)
         \/ SweepCalled(i, now)
         \/ \E s \in SessionIds :
              \/ RefreshCalled(i, s, now) \/ RevokeCalled(i, s, now)
              \/ \E device \in Devices : BindCalled(i, s, device, now)
              \/ Get(i, s, now)
    \/ Begin(i) \/ Commit(i) \/ CommitUnanswered(i) \/ RollBack(i)
    \/ Initialize(i)

Spec == Init /\ [][Next]_vars
-----------------------------------------------------------------------------
(* createMemoryAuthSessionStore, the backend without a database: every     *)
(* operation is one synchronous pass over a map.                           *)
IssuedInMemory(c) ==
  LET swept   == Without(AllExpired(c.now))
      actives == {s \in SessionIds : IsActive(swept[s]) /\ swept[s].subject = c.subject}
      evicted == Overflow(actives, "issued_at", MaxPerSubject - 1)
  IN  [s \in SessionIds |-> IF s = c.id THEN IssuedRow(c)
                            ELSE IF s \in evicted THEN Null ELSE swept[s]]

TombstonesInMemory(c) ==
  {s \in SessionIds : IsRevoked(rows[s]) /\ rows[s].subject = rows[c.id].subject}

ChangedInMemory(c) ==
  IF rows[c.id] = Null THEN rows
  ELSE IF Expired(rows[c.id], c.now) THEN Without({c.id})
  ELSE IF IsRevoked(rows[c.id]) THEN rows
  ELSE IF c.kind = "bind" /\ rows[c.id].device # Null THEN rows
  ELSE LET evicted == IF c.kind = "revoke"
                      THEN Overflow(TombstonesInMemory(c), "revoked_at", MaxRevoked)
                      ELSE {}
       IN  [Without(evicted) EXCEPT ![c.id] = UpdatedRow(c, rows[c.id])]

InMemory(c) ==
  CASE c.kind = "issue" -> IssuedInMemory(c)
    [] c.kind = "sweep" -> Without(AllExpired(c.now))
    [] OTHER            -> ChangedInMemory(c)

(* The snapshot of the statement still is what it would read now.          *)
SnapshotHolds(i) ==
  Running(i) /\ seen[i].doomed = Doomed(calls[i]) /\ seen[i].target = Found(calls[i])
-----------------------------------------------------------------------------
(* "Each statement reproduces the memory model exactly"                    *)
(* (postgres-store.mjs:120): over every table the store can reach, a       *)
(* statement that no other instance disturbs leaves the very table the     *)
(* memory backend leaves.                                                  *)
StatementsMatchMemory ==
  \A i \in Stores : SnapshotHolds(i) => Result(i) = InMemory(calls[i])

(* Whatever two instances interleave, a subject keeps at most its bound of *)
(* sessions and one revoked session more than its bound of tombstones:     *)
(* "would ghost records past the cap" (postgres-store.mjs, lockSubject).   *)
SubjectsBounded ==
  \A subject \in Subjects :
    LET mine == {s \in SessionIds : rows[s] # Null /\ rows[s].subject = subject}
    IN  /\ Cardinality({s \in mine : IsActive(rows[s])}) <= MaxPerSubject
        /\ Cardinality({s \in mine : IsRevoked(rows[s])}) <= MaxRevoked + 1

(* A caller who was told that a session is revoked never sees it live      *)
(* again, over lost answers, retries and restarts.                         *)
AckedRevocationsHold ==
  \A s \in SessionIds : told[s] = "revoked" => ~IsActive(rows[s])

(* No interleaving makes a statement write what the trigger refuses; its   *)
(* error would latch the store and fail every later call of the instance.  *)
StatementsNeverRaise == \A i \in Stores : failure[i] # "raised"
=============================================================================
