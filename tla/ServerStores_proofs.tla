------------------------ MODULE ServerStores_proofs -------------------------
(***************************************************************************)
(* Proofs about what the servers keep: the session store and the rate      *)
(* limiter of customer-api, for any number of instances, sessions,         *)
(* subjects, keys and callers, every bound and every clock; the console of *)
(* the backoffice, for any number of sessions, approvals and overlapping   *)
(* requests; the sign-ins of its operators; and the session store of the   *)
(* Mini App.                                                               *)
(***************************************************************************)
EXTENDS OperatorSignIn, RateLimit, Console, CustomerSessions, SetSums, FiniteSetTheorems,
        SequenceTheorems, TLAPS

Row == [subject : Subjects, device : Devices \cup {Null}, issued_at : Instants,
        expires_at : Int, revoked_at : Instants \cup {Null}]

RowsTyped == \A s \in SessionIds : rows[s] # Null => rows[s] \in Row

WellFormed(c) ==
  /\ c.kind \in {"issue", "refresh", "revoke", "bind", "sweep"}
  /\ c.now \in Instants
  /\ c.kind # "sweep" => c.id \in SessionIds
  /\ c.kind = "issue" => c.subject \in Subjects
  /\ c.kind = "bind" => c.device \in Devices

CallsTyped ==
  \A i \in Stores :
    /\ calls[i] # Null => WellFormed(calls[i])
    /\ Running(i) => calls[i] # Null

MapsTyped ==
  /\ rows = [s \in SessionIds |-> rows[s]]
  /\ calls = [i \in Stores |-> calls[i]]
  /\ seen = [i \in Stores |-> seen[i]]
  /\ failure = [i \in Stores |-> failure[i]]
  /\ told \in [SessionIds -> {"unminted", "minted", "revoked"}]

Issuing(i) == calls[i] # Null /\ calls[i].kind = "issue"

(* An id is issued once: no row has it before, and no other call issues it.*)
IssuesFresh ==
  /\ \A i \in Stores : Issuing(i) =>
       /\ told[calls[i].id] = "minted" /\ rows[calls[i].id] = Null
       /\ \A j \in Stores : Issuing(j) /\ calls[j].id = calls[i].id => j = i
  /\ \A s \in SessionIds : told[s] = "unminted" => rows[s] = Null

StoreInv ==
  /\ MapsTyped /\ RowsTyped /\ CallsTyped /\ IssuesFresh
  /\ AckedRevocationsHold /\ StatementsNeverRaise

LEMMA InitHolds == Init => StoreInv
  BY DEF Init, StoreInv, MapsTyped, RowsTyped, CallsTyped, IssuesFresh, Issuing,
         Running, AckedRevocationsHold, StatementsNeverRaise, IsActive

LEMMA LivesEnd ==
  ASSUME NEW n \in Instants
  PROVE  n + Ttl \in Int
  <1>1. n \in Int /\ Ttl \in Int
    BY ClockAssumption
  <1>2. QED
    BY <1>1

(* What a statement judged active is the row it updates.                   *)
LEMMA UpdatesActive ==
  ASSUME StoreInv, NEW i \in Stores, Running(i), Updates(i),
         calls[i].kind \in {"refresh", "bind", "revoke"}
  PROVE  /\ calls[i].id \in SessionIds
         /\ rows[calls[i].id] \in Row
         /\ rows[calls[i].id].revoked_at = Null
         /\ calls[i].kind = "bind" => rows[calls[i].id].device = Null
         /\ IsActive(rows[calls[i].id])
  <1>1. calls[i].id \in SessionIds /\ rows[calls[i].id] # Null
    BY DEF StoreInv, CallsTyped, WellFormed, Updates
  <1>2. Target(i) # Null
    BY DEF Updates, IsActive
  <1>3. Target(i) = rows[calls[i].id]
    BY <1>2 DEF Target
  <1>4. QED
    BY <1>1, <1>3 DEF Updates, IsActive, StoreInv, RowsTyped

(* The trigger allows the row an update writes.                            *)
LEMMA UpdatesAllowed ==
  ASSUME StoreInv, NEW i \in Stores, Running(i), Updates(i),
         calls[i].kind \in {"refresh", "bind", "revoke"}
  PROVE  LET old == rows[calls[i].id]
             new == UpdatedRow(calls[i], old)
         IN  /\ new \in Row /\ new.subject = old.subject
             /\ MutationAllowed(old, new)
             /\ calls[i].kind = "revoke" => new.revoked_at \in Instants
             /\ calls[i].kind # "revoke" => new.revoked_at = Null
  <1> DEFINE c == calls[i]
             old == rows[c.id]
             new == UpdatedRow(c, old)
  <1>1. /\ old \in Row /\ old.revoked_at = Null
        /\ c.kind = "bind" => old.device = Null
    BY UpdatesActive
  <1>2. c.now \in Instants /\ (c.kind = "bind" => c.device \in Devices)
    BY DEF StoreInv, CallsTyped, WellFormed
  <1>3. CASE c.kind = "refresh"
    <2>1. new = [old EXCEPT !.expires_at = Later(c.now + Ttl, @)]
      BY <1>3 DEF UpdatedRow
    <2> DEFINE later == c.now + Ttl
    <2>2. later \in Int /\ old.expires_at \in Int
      BY <1>1, <1>2, LivesEnd DEF Row
    <2> HIDE DEF later
    <2>3. /\ Later(later, old.expires_at) \in Int
          /\ Later(later, old.expires_at) >= old.expires_at
      BY <2>2 DEF Later
    <2>4. QED
      BY <1>1, <1>3, <2>1, <2>3 DEF Row, MutationAllowed, later
  <1>4. CASE c.kind = "bind"
    <2>1. new = [old EXCEPT !.device = c.device]
      BY <1>4 DEF UpdatedRow
    <2>2. QED
      BY <1>1, <1>2, <1>4, <2>1 DEF Row, MutationAllowed
  <1>5. CASE c.kind = "revoke"
    <2>1. new = [old EXCEPT !.revoked_at = Later(c.now, old.issued_at)]
      BY <1>5 DEF UpdatedRow
    <2>2. Later(c.now, old.issued_at) \in Instants
      BY <1>1, <1>2 DEF Later, Row
    <2>3. QED
      BY <1>1, <1>5, <2>1, <2>2 DEF Row, MutationAllowed
  <1>6. QED
    BY <1>3, <1>4, <1>5

LEMMA NeverRaises ==
  ASSUME StoreInv, NEW i \in Stores, Running(i)
  PROVE  ~Raises(i)
  BY UpdatesAllowed DEF Raises

-----------------------------------------------------------------------------
(* What a statement leaves of a row.                                       *)
LEMMA ResultOfRow ==
  ASSUME StoreInv, NEW i \in Stores, Running(i), NEW s \in SessionIds
  PROVE  LET c == calls[i]
         IN  \/ /\ Result(i)[s] \in {Null, rows[s]}
                /\ ~(c.kind \in {"refresh", "bind", "revoke"} /\ Updates(i) /\ s = c.id)
             \/ s = c.id /\ c.kind = "issue" /\ Result(i)[s] = IssuedRow(c)
             \/ /\ s = c.id /\ c.kind \in {"refresh", "bind", "revoke"} /\ Updates(i)
                /\ Result(i)[s] = UpdatedRow(c, rows[s])
  <1> DEFINE c == calls[i]
  <1>1. WellFormed(c)
    BY DEF StoreInv, CallsTyped
  <1>2. CASE c.kind = "issue"
    BY <1>1, <1>2 DEF Result, Issued, Without, WellFormed
  <1>3. CASE c.kind = "sweep"
    BY <1>1, <1>3 DEF Result, Swept, Without, WellFormed
  <1>4. CASE c.kind \in {"refresh", "bind", "revoke"} /\ Updates(i)
    <2>1. Result(i) = Updated(i)
      BY <1>4 DEF Result
    <2>2. QED
      BY <1>1, <1>4, <2>1 DEF Updated, Without, WellFormed
  <1>5. CASE c.kind \in {"refresh", "bind", "revoke"} /\ ~Updates(i)
    <2>1. Result(i) = Evicted(i)
      BY <1>5 DEF Result
    <2>2. QED
      BY <1>1, <1>5, <2>1 DEF Evicted, Without, WellFormed
  <1>6. QED
    BY <1>1, <1>2, <1>3, <1>4, <1>5 DEF WellFormed

LEMMA ResultTyped ==
  ASSUME StoreInv, NEW i \in Stores, Running(i)
  PROVE  Result(i) = [s \in SessionIds |-> Result(i)[s]]
  <1>1. WellFormed(calls[i])
    BY DEF StoreInv, CallsTyped
  <1>2. Result(i) \in {Issued(i), Swept(i), Updated(i), Evicted(i)}
    BY <1>1 DEF Result, WellFormed
  <1>3. QED
    BY <1>2 DEF Issued, Swept, Updated, Evicted, Without

(* A statement that commits keeps the invariant, answered or not.          *)
LEMMA CommitKeeps ==
  ASSUME StoreInv, NEW i \in Stores, Running(i),
         NEW outcome \in {"none", "lost"},
         rows' = Result(i), told' \in {told, Answered(i)}, Settled(i, outcome),
         outcome = "none" => told' = Answered(i)
  PROVE  StoreInv'
  <1> DEFINE c == calls[i]
  <1>1. WellFormed(c) /\ c # Null
    BY DEF StoreInv, CallsTyped
  <1>2. MapsTyped'
    <2>1. rows' = [s \in SessionIds |-> rows'[s]]
      BY ResultTyped
    <2>2. told' \in [SessionIds -> {"unminted", "minted", "revoked"}]
      BY DEF StoreInv, MapsTyped, Answered
    <2>3. QED
      BY <2>1, <2>2 DEF StoreInv, MapsTyped, Settled
  <1>3. \A s \in SessionIds :
          \/ rows'[s] \in {Null, rows[s]}
          \/ s = c.id /\ c.kind = "issue" /\ rows'[s] = IssuedRow(c)
          \/ /\ s = c.id /\ c.kind \in {"refresh", "bind", "revoke"} /\ Updates(i)
             /\ rows'[s] = UpdatedRow(c, rows[s])
    BY ResultOfRow
  <1>4. IssuedRow(c) \in Row \/ c.kind # "issue"
    <2>1. CASE c.kind = "issue"
      <3>1. c.now + Ttl \in Int
        BY <1>1, LivesEnd DEF WellFormed
      <3>2. QED
        BY <1>1, <2>1, <3>1 DEF IssuedRow, Row, WellFormed
    <2>2. QED
      BY <2>1
  <1>5. RowsTyped'
    BY <1>3, <1>4, UpdatesAllowed DEF StoreInv, RowsTyped
  <1>6. \A j \in Stores : calls'[j] = (IF j = i THEN Null ELSE calls[j])
    BY DEF Settled, StoreInv, MapsTyped
  <1>7. \A j \in Stores : seen'[j] = (IF j = i THEN Null ELSE seen[j])
    BY DEF Settled, StoreInv, MapsTyped
  <1>8. CallsTyped'
    BY <1>6, <1>7 DEF StoreInv, CallsTyped, Running, WellFormed
  <1>9. \A s \in SessionIds :
          \/ told'[s] = told[s]
          \/ /\ s = c.id /\ told'[s] = "revoked" /\ c.kind = "revoke" /\ Updates(i)
    BY DEF Answered, StoreInv, MapsTyped
  <1>10. \A s \in SessionIds : c.kind # "issue" /\ rows[s] = Null => rows'[s] = Null
    <2> SUFFICES ASSUME NEW s \in SessionIds, c.kind # "issue", rows[s] = Null
                 PROVE  rows'[s] = Null
      OBVIOUS
    <2>1. ~(s = c.id /\ c.kind \in {"refresh", "bind", "revoke"} /\ Updates(i))
      BY DEF Updates
    <2>2. QED
      BY <1>3, <2>1
  <1>11. IssuesFresh'
    <2>1. ASSUME NEW j \in Stores, Issuing(j)'
          PROVE  /\ told'[calls'[j].id] = "minted" /\ rows'[calls'[j].id] = Null
                 /\ \A k \in Stores : Issuing(k)' /\ calls'[k].id = calls'[j].id => k = j
      <3>1. j # i /\ calls'[j] = calls[j] /\ Issuing(j) /\ calls[j].id \in SessionIds
        BY <1>6, <2>1 DEF Issuing, StoreInv, CallsTyped, WellFormed
      <3>2. told[calls[j].id] = "minted" /\ rows[calls[j].id] = Null
        BY <3>1 DEF StoreInv, IssuesFresh
      <3>3. ~(c.kind = "issue" /\ calls[j].id = c.id)
        BY <1>1, <3>1 DEF StoreInv, IssuesFresh, Issuing
      <3>4. rows'[calls[j].id] = Null
        BY <1>3, <3>1, <3>2, <3>3 DEF Updates
      <3>5. told'[calls[j].id] = "minted"
        BY <1>9, <3>1, <3>2 DEF Updates
      <3>6. \A k \in Stores : Issuing(k)' => k # i /\ Issuing(k) /\ calls'[k] = calls[k]
        BY <1>6 DEF Issuing
      <3>7. QED
        BY <3>1, <3>4, <3>5, <3>6 DEF StoreInv, IssuesFresh
    <2>2. ASSUME NEW s \in SessionIds, told'[s] = "unminted"
          PROVE  rows'[s] = Null
      <3>1. told[s] = "unminted" /\ rows[s] = Null
        BY <1>9, <2>2 DEF StoreInv, IssuesFresh
      <3>2. ~(c.kind = "issue" /\ s = c.id)
        BY <1>1, <3>1 DEF StoreInv, IssuesFresh, Issuing
      <3>3. QED
        BY <1>3, <3>1, <3>2 DEF Updates
    <2>3. QED
      BY <2>1, <2>2 DEF IssuesFresh
  <1>12. AckedRevocationsHold'
    <2> SUFFICES ASSUME NEW s \in SessionIds, told'[s] = "revoked"
                 PROVE  ~IsActive(rows'[s])
      BY DEF AckedRevocationsHold
    <2>1. CASE s = c.id /\ c.kind \in {"refresh", "bind", "revoke"} /\ Updates(i)
      <3>1. told[s] # "revoked"
        BY <2>1, UpdatesActive DEF StoreInv, AckedRevocationsHold
      <3>2. c.kind = "revoke"
        BY <1>9, <3>1
      <3>3. rows'[s].revoked_at \in Instants
        BY <2>1, <3>2, UpdatesAllowed, ResultOfRow
      <3>4. QED
        BY ClockAssumption, <3>3 DEF IsActive
    <2>2. CASE s = c.id /\ c.kind = "issue"
      <3>1. told[s] = "minted"
        BY <1>1, <2>2 DEF StoreInv, IssuesFresh, Issuing
      <3>2. QED
        BY <1>9, <2>2, <3>1
    <2>3. CASE rows'[s] \in {Null, rows[s]}
                 /\ ~(s = c.id /\ c.kind \in {"refresh", "bind", "revoke"} /\ Updates(i))
      <3>1. told[s] = "revoked"
        BY <1>9, <2>3
      <3>2. QED
        BY <2>3, <3>1 DEF StoreInv, AckedRevocationsHold, IsActive
    <2>4. QED
      BY <1>3, <2>1, <2>2, <2>3
  <1>13. StatementsNeverRaise'
    BY DEF Settled, StoreInv, MapsTyped, StatementsNeverRaise
  <1>14. QED
    BY <1>2, <1>5, <1>8, <1>11, <1>12, <1>13 DEF StoreInv

(* A call handed to an instance.                                           *)
LEMMA CalledKeeps ==
  ASSUME StoreInv, NEW i \in Stores, NEW call, Called(i, call), WellFormed(call),
         told' = told, call.kind # "issue"
  PROVE  StoreInv'
  <1>1. \A j \in Stores : calls'[j] = (IF j = i THEN call ELSE calls[j])
    BY DEF Called, StoreInv, MapsTyped
  <1>2. MapsTyped' /\ RowsTyped' /\ AckedRevocationsHold' /\ StatementsNeverRaise'
    BY DEF Called, StoreInv, MapsTyped, RowsTyped, AckedRevocationsHold, StatementsNeverRaise
  <1>3. CallsTyped'
    BY <1>1 DEF Called, StoreInv, CallsTyped, Running, WellFormed
  <1>4. \A j \in Stores : Issuing(j)' => Issuing(j) /\ calls'[j] = calls[j]
    BY <1>1 DEF Issuing
  <1>5. IssuesFresh'
    BY <1>4 DEF Called, StoreInv, IssuesFresh
  <1>6. QED
    BY <1>2, <1>3, <1>5 DEF StoreInv

(* A call that issues, whatever else it carries.                           *)
LEMMA MintedKeeps ==
  ASSUME StoreInv, NEW i \in Stores, NEW call, WellFormed(call), call.kind = "issue",
         told[call.id] = "unminted", Called(i, call),
         told' = [told EXCEPT ![call.id] = "minted"]
  PROVE  StoreInv'
  <1> DEFINE s == call.id
  <1>1. s \in SessionIds
    BY DEF WellFormed
  <1>2. \A j \in Stores : calls'[j] = (IF j = i THEN call ELSE calls[j])
    BY DEF Called, StoreInv, MapsTyped
  <1>3. rows' = rows /\ seen' = seen /\ failure' = failure /\ calls[i] = Null
    BY DEF Called
  <1>4. \A r \in SessionIds : told'[r] = (IF r = s THEN "minted" ELSE told[r])
    BY DEF StoreInv, MapsTyped
  <1>5. MapsTyped' /\ RowsTyped' /\ StatementsNeverRaise'
    BY <1>1, <1>3 DEF Called, StoreInv, MapsTyped, RowsTyped, StatementsNeverRaise
  <1>6. AckedRevocationsHold'
    BY <1>3, <1>4 DEF StoreInv, AckedRevocationsHold
  <1>7. CallsTyped'
    BY <1>2, <1>3 DEF StoreInv, CallsTyped, Running, WellFormed
  <1>8. rows[s] = Null /\ \A j \in Stores : Issuing(j) => calls[j].id # s
    BY <1>1 DEF StoreInv, IssuesFresh
  <1>9. \A j \in Stores :
           Issuing(j)' => \/ j = i /\ calls'[j].id = s
                          \/ j # i /\ Issuing(j) /\ calls'[j] = calls[j]
    BY <1>2 DEF Issuing
  <1>10. \A j \in Stores : Issuing(j) => calls[j].id \in SessionIds
    BY DEF Issuing, StoreInv, CallsTyped, WellFormed
  <1>11. IssuesFresh'
    BY <1>1, <1>3, <1>4, <1>8, <1>9, <1>10 DEF StoreInv, IssuesFresh
  <1>12. QED
    BY <1>5, <1>6, <1>7, <1>11 DEF StoreInv

LEMMA IssueCalledKeeps ==
  ASSUME StoreInv, NEW i \in Stores, NEW subject \in Subjects, NEW now \in Instants,
         IssueCalled(i, subject, now)
  PROVE  StoreInv'
  <1> DEFINE issue(s) == [kind |-> "issue", id |-> s, subject |-> subject, now |-> now]
  <1>1. PICK s \in SessionIds :
          /\ told[s] = "unminted" /\ Called(i, issue(s))
          /\ told' = [told EXCEPT ![s] = "minted"]
    BY DEF IssueCalled
  <1>2. WellFormed(issue(s)) /\ issue(s).kind = "issue" /\ issue(s).id = s
    BY DEF WellFormed
  <1>3. QED
    BY <1>1, <1>2, MintedKeeps

(* The steps that take no effect on the table but an eviction.             *)
LEMMA QuietKeeps ==
  ASSUME StoreInv, NEW i \in Stores,
         \/ Begin(i) \/ RollBack(i) \/ Initialize(i)
         \/ \E s \in SessionIds, now \in Instants : Get(i, s, now)
  PROVE  StoreInv'
  <1>1. told' = told /\ \A s \in SessionIds : rows'[s] \in {Null, rows[s]}
    BY DEF Begin, RollBack, Initialize, Get, StoreInv, MapsTyped
  <1>2. \A j \in Stores : calls'[j] = calls[j] \/ (calls'[j] = Null /\ seen'[j] = Null)
    BY DEF Begin, RollBack, Initialize, Get, Settled, StoreInv, MapsTyped
  <1>3. \A j \in Stores : seen'[j] # Null => (seen[j] # Null \/ calls'[j] # Null)
    BY DEF Begin, RollBack, Initialize, Get, Settled, StoreInv, MapsTyped
  <1>4. MapsTyped' /\ StatementsNeverRaise'
    BY DEF Begin, RollBack, Initialize, Get, Settled, StoreInv, MapsTyped,
           StatementsNeverRaise
  <1>5. RowsTyped' /\ AckedRevocationsHold'
    BY <1>1 DEF StoreInv, RowsTyped, AckedRevocationsHold, IsActive
  <1>6. CallsTyped'
    BY <1>2, <1>3 DEF StoreInv, CallsTyped, Running, WellFormed
  <1>7. \A j \in Stores : Issuing(j)' => Issuing(j) /\ calls'[j] = calls[j]
                                         /\ calls[j].id \in SessionIds
    BY <1>2 DEF Issuing, StoreInv, CallsTyped, WellFormed
  <1>8. IssuesFresh'
    BY <1>1, <1>7 DEF StoreInv, IssuesFresh
  <1>9. QED
    BY <1>4, <1>5, <1>6, <1>8 DEF StoreInv

LEMMA StoreInvKept ==
  ASSUME StoreInv, [Next]_vars
  PROVE  StoreInv'
  <1>1. CASE UNCHANGED vars
    BY <1>1 DEF vars, StoreInv, MapsTyped, RowsTyped, CallsTyped, Running, IssuesFresh,
                Issuing, AckedRevocationsHold, StatementsNeverRaise, WellFormed
  <1>2. CASE Next
    <2> SUFFICES ASSUME NEW i \in Stores,
                        \/ \E now \in Instants :
                             \/ \E subject \in Subjects : IssueCalled(i, subject, now)
                             \/ SweepCalled(i, now)
                             \/ \E s \in SessionIds :
                                  \/ RefreshCalled(i, s, now) \/ RevokeCalled(i, s, now)
                                  \/ \E device \in Devices : BindCalled(i, s, device, now)
                                  \/ Get(i, s, now)
                        \/ Begin(i) \/ Commit(i) \/ CommitUnanswered(i) \/ RollBack(i)
                        \/ Initialize(i)
                 PROVE  StoreInv'
      BY <1>2 DEF Next
    <2>1. ASSUME NEW now \in Instants, NEW subject \in Subjects,
                 IssueCalled(i, subject, now)
          PROVE  StoreInv'
      BY <2>1, IssueCalledKeeps
    <2>2. ASSUME NEW now \in Instants, SweepCalled(i, now)
          PROVE  StoreInv'
      <3>1. WellFormed([kind |-> "sweep", now |-> now])
        BY DEF WellFormed
      <3>2. QED
        BY <2>2, <3>1, CalledKeeps DEF SweepCalled
    <2>3. ASSUME NEW now \in Instants, NEW s \in SessionIds,
                 RefreshCalled(i, s, now) \/ RevokeCalled(i, s, now)
          PROVE  StoreInv'
      <3>1. ASSUME NEW kind \in {"refresh", "revoke"},
                   Called(i, [kind |-> kind, id |-> s, now |-> now]), told' = told
            PROVE  StoreInv'
        <4>1. /\ WellFormed([kind |-> kind, id |-> s, now |-> now])
              /\ [kind |-> kind, id |-> s, now |-> now].kind # "issue"
          BY DEF WellFormed
        <4>2. QED
          BY <3>1, <4>1, CalledKeeps
      <3>2. QED
        BY <2>3, <3>1 DEF RefreshCalled, RevokeCalled
    <2>4. ASSUME NEW now \in Instants, NEW s \in SessionIds, NEW device \in Devices,
                 BindCalled(i, s, device, now)
          PROVE  StoreInv'
      <3> DEFINE call == [kind |-> "bind", id |-> s, device |-> device, now |-> now]
      <3>1. WellFormed(call) /\ call.kind # "issue"
        BY DEF WellFormed
      <3>2. QED
        BY <2>4, <3>1, CalledKeeps DEF BindCalled
    <2>5. CASE Commit(i)
      <3>1. ~Raises(i) /\ Running(i)
        BY <2>5, NeverRaises DEF Commit
      <3>2. rows' = Result(i) /\ told' = Answered(i) /\ Settled(i, "none")
        BY <2>5, <3>1 DEF Commit
      <3>3. QED
        BY <3>1, <3>2, CommitKeeps
    <2>6. CASE CommitUnanswered(i)
      BY <2>6, CommitKeeps DEF CommitUnanswered
    <2>7. QED
      BY <2>1, <2>2, <2>3, <2>4, <2>5, <2>6, QuietKeeps
  <1>3. QED
    BY <1>1, <1>2

(* A caller who was told that a session is revoked never sees it live      *)
(* again (revokeSession of postgres-store.mjs), over lost answers, retries *)
(* and restarts.                                                           *)
THEOREM RevocationsHold ==
  Spec => []AckedRevocationsHold
  <1>1. StoreInv => AckedRevocationsHold
    BY DEF StoreInv
  <1>2. StoreInv /\ [Next]_vars => StoreInv'
    BY StoreInvKept
  <1>3. QED
    BY <1>1, <1>2, InitHolds, PTL DEF Spec

(* No interleaving makes a statement write what the trigger of             *)
(* 0002_auth_sessions.sql refuses, so its error never latches a store.     *)
THEOREM NoStatementRaises ==
  Spec => []StatementsNeverRaise
  <1>1. StoreInv => StatementsNeverRaise
    BY DEF StoreInv
  <1>2. StoreInv /\ [Next]_vars => StoreInv'
    BY StoreInvKept
  <1>3. QED
    BY <1>1, <1>2, InitHolds, PTL DEF Spec
-----------------------------------------------------------------------------
(* The statements and the memory backend.  A target that is updated is     *)
(* live, so it is no tombstone of its subject.                             *)
LEMMA StatementIssuesAlike ==
  ASSUME StoreInv, NEW i \in Stores, SnapshotHolds(i), calls[i].kind = "issue"
  PROVE  Result(i) = InMemory(calls[i])
  <1> DEFINE c == calls[i]
             swept == Without(AllExpired(c.now))
             actives == {s \in SessionIds : IsActive(swept[s]) /\ swept[s].subject = c.subject}
  <1>1. c.id \in SessionIds /\ seen[i].doomed = Doomed(c)
    BY DEF StoreInv, CallsTyped, WellFormed, SnapshotHolds
  <1>2. actives = ActivesOf(c.subject, c.now)
    BY DEF ActivesOf, AllExpired, Without, IsActive
  <1>3. Doomed(c) = AllExpired(c.now) \cup Overflow(actives, "issued_at", MaxPerSubject - 1)
    BY <1>2 DEF Doomed
  <1> HIDE DEF actives
  <1>4. Result(i) = [s \in SessionIds |-> IF s = c.id THEN IssuedRow(c)
                       ELSE IF s \in Overflow(actives, "issued_at", MaxPerSubject - 1) THEN Null
                       ELSE swept[s]]
    BY <1>1, <1>3 DEF Result, Issued, Without
  <1>5. InMemory(c) = IssuedInMemory(c)
    BY DEF InMemory
  <1>6. QED
    BY <1>4, <1>5 DEF IssuedInMemory, actives

LEMMA StatementSweepsAlike ==
  ASSUME StoreInv, NEW i \in Stores, SnapshotHolds(i), calls[i].kind = "sweep"
  PROVE  Result(i) = InMemory(calls[i])
  <1>1. seen[i].doomed = AllExpired(calls[i].now)
    BY DEF SnapshotHolds, Doomed
  <1>2. Result(i) = Swept(i) /\ InMemory(calls[i]) = Without(AllExpired(calls[i].now))
    BY DEF Result, InMemory
  <1>3. QED
    BY <1>1, <1>2 DEF Swept, Without, AllExpired

LEMMA StatementChangesAlike ==
  ASSUME StoreInv, NEW i \in Stores, SnapshotHolds(i),
         calls[i].kind \in {"refresh", "revoke", "bind"}
  PROVE  Result(i) = InMemory(calls[i])
  <1> DEFINE c == calls[i]
             row == rows[c.id]
  <1>1. /\ c.id \in SessionIds /\ seen[i].doomed = Doomed(c) /\ seen[i].target = row
        /\ rows = [s \in SessionIds |-> rows[s]]
    BY DEF StoreInv, MapsTyped, CallsTyped, WellFormed, SnapshotHolds, Found
  <1>2. Target(i) = row
    BY <1>1 DEF Target
  <1>3. /\ InMemory(c) = ChangedInMemory(c)
        /\ Result(i) = IF Updates(i) THEN Updated(i) ELSE Evicted(i)
    BY DEF InMemory, Result
  <1>4. Evicted(i) = IF Expired(row, c.now) THEN Without({c.id}) ELSE rows
    BY <1>1, <1>2 DEF Evicted, Without
  <1>5. CASE Updates(i)
    <2>1. /\ row # Null /\ IsActive(row) /\ ~Expired(row, c.now) /\ ~IsRevoked(row)
          /\ c.kind = "bind" => row.device = Null
      BY <1>2, <1>5 DEF Updates, IsActive, IsRevoked
    <2>2. TombstonesBeside(c.id) = TombstonesInMemory(c)
      BY <2>1 DEF TombstonesBeside, TombstonesInMemory
    <2>3. Doomed(c) = IF c.kind = "revoke"
                      THEN Overflow(TombstonesInMemory(c), "revoked_at", MaxRevoked) ELSE {}
      BY <2>1, <2>2 DEF Doomed
    <2>4. Updated(i) = [Without(Doomed(c)) EXCEPT ![c.id] = UpdatedRow(c, row)]
      BY <1>1 DEF Updated
    <2>5. ChangedInMemory(c) =
            [Without(IF c.kind = "revoke"
                     THEN Overflow(TombstonesInMemory(c), "revoked_at", MaxRevoked)
                     ELSE {}) EXCEPT ![c.id] = UpdatedRow(c, row)]
      BY <2>1 DEF ChangedInMemory
    <2>6. QED
      BY <1>3, <1>5, <2>3, <2>4, <2>5
  <1>6. CASE ~Updates(i)
    <2>1. \/ row = Null \/ Expired(row, c.now) \/ ~IsActive(row)
          \/ c.kind = "bind" /\ row.device # Null
      BY <1>2, <1>6 DEF Updates
    <2>2. ~IsActive(row) => row = Null \/ IsRevoked(row)
      BY DEF IsActive, IsRevoked
    <2>3. row = Null \/ ~IsActive(row) => ~Expired(row, c.now)
      BY DEF Expired, IsActive
    <2>4. IsRevoked(row) => ~Expired(row, c.now)
      BY DEF IsRevoked, Expired, IsActive
    <2>5. ChangedInMemory(c) = IF Expired(row, c.now) THEN Without({c.id}) ELSE rows
      BY <2>1, <2>2, <2>3, <2>4 DEF ChangedInMemory
    <2>6. QED
      BY <1>3, <1>4, <1>6, <2>5
  <1>7. QED
    BY <1>5, <1>6

(* "Each statement reproduces the memory model exactly"                    *)
(* (postgres-store.mjs:120): what a statement leaves whose snapshot still  *)
(* holds is what the memory backend leaves of the same table.              *)
THEOREM StatementsReproduceMemory == Spec => []StatementsMatchMemory
  <1>1. Spec => []StoreInv
    BY InitHolds, StoreInvKept, PTL DEF Spec
  <1>2. StoreInv => StatementsMatchMemory
    <2> SUFFICES ASSUME StoreInv, NEW i \in Stores, SnapshotHolds(i)
                 PROVE  Result(i) = InMemory(calls[i])
      BY DEF StatementsMatchMemory
    <2>1. calls[i].kind \in {"issue", "refresh", "revoke", "bind", "sweep"}
      BY DEF StoreInv, CallsTyped, WellFormed, SnapshotHolds
    <2>2. QED
      BY <2>1, StatementIssuesAlike, StatementSweepsAlike, StatementChangesAlike
  <1>3. QED
    BY <1>1, <1>2, PTL

-----------------------------------------------------------------------------
(* The bounds of a subject.  They are not inductive: what keeps them is    *)
(* that a statement holding the lock of a subject leaves room for the      *)
(* session it adds among those it does not delete, and that nobody else    *)
(* adds to the subject meanwhile.                                          *)
Actives(subject) ==
  {s \in SessionIds : IsActive(rows[s]) /\ rows[s].subject = subject}

Tombstones(subject) ==
  {s \in SessionIds : IsRevoked(rows[s]) /\ rows[s].subject = subject}

(* Below, beside is how many tombstones a revocation leaves beside its own.*)
Bounded(beside) ==
  \A subject \in Subjects :
    /\ Cardinality(Actives(subject)) <= MaxPerSubject
    /\ Cardinality(Tombstones(subject)) <= beside + 1

IssueLeavesRoom(i) ==
  /\ seen[i].locked = calls[i].subject
  /\ Cardinality(Actives(calls[i].subject) \ seen[i].doomed) <= MaxPerSubject - 1

(* The session a revocation found stays the one of its subject.            *)
RevokeLeavesRoom(i, beside) ==
  LET id == calls[i].id
  IN  /\ seen[i].locked \in Subjects
      /\ rows[id] # Null => rows[id].subject = seen[i].locked
      /\ told[id] # "unminted"
      /\ \A j \in Stores : Issuing(j) => calls[j].id # id
      /\ Cardinality(Tombstones(seen[i].locked) \ (seen[i].doomed \cup {id})) <= beside

RoomLeft(beside) ==
  \A i \in Stores : Running(i) =>
    /\ calls[i].kind = "issue" => IssueLeavesRoom(i)
    /\ calls[i].kind = "revoke" /\ seen[i].target # Null => RevokeLeavesRoom(i, beside)

LocksExclude ==
  \A i, j \in Stores :
    Running(i) /\ Running(j) /\ i # j /\ seen[i].locked # Null
      => seen[i].locked # seen[j].locked

(* What the bounds ask of the calls of either store.                       *)
CallsNamed ==
  \A i \in Stores :
    /\ Running(i) => calls[i] # Null
    /\ calls[i] # Null /\ calls[i].kind \in {"issue", "revoke"} => calls[i].id \in SessionIds
    /\ Issuing(i) => calls[i].subject \in Subjects

TableBounds(beside) ==
  MapsTyped /\ CallsNamed /\ Bounded(beside) /\ RoomLeft(beside) /\ LocksExclude

BoundsInv == StoreInv /\ Bounded(MaxRevoked) /\ RoomLeft(MaxRevoked) /\ LocksExclude

LEMMA StoreBounds ==
  ASSUME BoundsInv
  PROVE  TableBounds(MaxRevoked)
  BY DEF BoundsInv, StoreInv, CallsTyped, WellFormed, Issuing, TableBounds, CallsNamed

(* An offset of keep in a strict total order leaves at most keep rows: the *)
(* numbers of their predecessors differ and are below keep.                *)
RankedBefore(value, ids, t) ==
  {s \in ids : \/ value[s] > value[t]
               \/ value[s] = value[t] /\ s < t}

PastOffset(value, ids, keep) ==
  {t \in ids : Cardinality(RankedBefore(value, ids, t)) >= keep}

LEMMA OffsetOfRanks ==
  ASSUME NEW ids, IsFiniteSet(ids), ids \subseteq Int,
         NEW value \in [ids -> Int], NEW keep \in Nat
  PROVE  Cardinality(ids \ PastOffset(value, ids, keep)) <= keep
  <1> DEFINE Before(s, t) == \/ value[s] > value[t]
                             \/ value[s] = value[t] /\ s < t
             Ahead(t) == {s \in ids : Before(s, t)}
             over == {t \in ids : Cardinality(Ahead(t)) >= keep}
             kept == ids \ over
             rank == [t \in kept |-> Cardinality(Ahead(t))]
  <1>1. IsFiniteSet(kept) /\ Cardinality(kept) \in Nat
    BY FS_Subset, FS_CardinalityType
  <1>2. \A t : IsFiniteSet(Ahead(t)) /\ Cardinality(Ahead(t)) \in Nat
    BY FS_Subset, FS_CardinalityType
  <1>3. \A s \in ids : s \in Int /\ value[s] \in Int
    OBVIOUS
  <1>4. \A t, u \in ids : Before(t, u) => Cardinality(Ahead(t)) < Cardinality(Ahead(u))
    <2> SUFFICES ASSUME NEW t \in ids, NEW u \in ids, Before(t, u)
                 PROVE  Cardinality(Ahead(t)) < Cardinality(Ahead(u))
      OBVIOUS
    <2>1. ASSUME NEW s \in ids, Before(s, t)
          PROVE  Before(s, u)
      <3>1. /\ s \in Int /\ t \in Int /\ u \in Int
            /\ value[s] \in Int /\ value[t] \in Int /\ value[u] \in Int
        BY <1>3
      <3>2. QED
        BY <2>1, <3>1
    <2>2. Ahead(t) \subseteq Ahead(u)
      BY <2>1
    <2>3. t \in Ahead(u) /\ t \notin Ahead(t)
      BY <1>3
    <2> HIDE DEF Ahead
    <2>4. QED
      BY <1>2, <2>2, <2>3, FS_Subset
  <1>5. \A t, u \in ids : t # u => Cardinality(Ahead(t)) # Cardinality(Ahead(u))
    <2> SUFFICES ASSUME NEW t \in ids, NEW u \in ids, t # u
                 PROVE  Cardinality(Ahead(t)) # Cardinality(Ahead(u))
      OBVIOUS
    <2>1. t \in Int /\ u \in Int /\ value[t] \in Int /\ value[u] \in Int
      BY <1>3
    <2>2. Before(t, u) \/ Before(u, t)
      BY <2>1
    <2> HIDE DEF Ahead, Before
    <2>3. QED
      BY <1>2, <1>4, <2>2
  <1>6. \A t \in kept : Cardinality(Ahead(t)) \in 0 .. keep - 1
    <2> HIDE DEF Ahead
    <2>1. QED
      BY <1>2
  <1> HIDE DEF Ahead
  <1>7. rank \in [kept -> 0 .. keep - 1] /\ \A t, u \in kept : t # u => rank[t] # rank[u]
    BY <1>5, <1>6
  <1>8. IsFiniteSet(0 .. keep - 1) /\ Cardinality(0 .. keep - 1) = keep
    BY FS_Interval
  <1> HIDE DEF rank, kept
  <1>9. ~(keep < Cardinality(kept))
    BY <1>1, <1>7, <1>8, FS_PigeonHole
  <1>10. Cardinality(kept) <= keep
    BY <1>1, <1>9
  <1>11. QED
    BY <1>10 DEF kept, Ahead, PastOffset, RankedBefore

LEMMA OffsetKeeps ==
  ASSUME NEW ids \in SUBSET SessionIds, IsFiniteSet(SessionIds), SessionIds \subseteq Int,
         NEW field, \A s \in ids : rows[s][field] \in Int,
         NEW keep \in Nat
  PROVE  Cardinality(ids \ Overflow(ids, field, keep)) <= keep
  <1> DEFINE value == [s \in ids |-> rows[s][field]]
  <1>1. Cardinality(ids \ PastOffset(value, ids, keep)) <= keep
    <2>1. IsFiniteSet(ids) /\ ids \subseteq Int /\ value \in [ids -> Int]
      BY FS_Subset
    <2> HIDE DEF value
    <2>2. QED
      BY <2>1, OffsetOfRanks
  <1>2. PastOffset(value, ids, keep) = Overflow(ids, field, keep)
    <2>1. ASSUME NEW t \in ids
          PROVE  RankedBefore(value, ids, t) =
                 {s \in ids : \/ rows[s][field] > rows[t][field]
                              \/ rows[s][field] = rows[t][field] /\ s < t}
      BY DEF RankedBefore
    <2> HIDE DEF value
    <2>2. QED
      BY <2>1 DEF Overflow, PastOffset
  <1>3. QED
    BY <1>1, <1>2

LEMMA SubsetBounded ==
  ASSUME NEW S, IsFiniteSet(S), NEW T \in SUBSET S, NEW n \in Int, Cardinality(S) <= n
  PROVE  Cardinality(T) <= n
  <1>1. Cardinality(T) <= Cardinality(S) /\ Cardinality(T) \in Nat /\ Cardinality(S) \in Nat
    BY FS_Subset, FS_CardinalityType
  <1>2. QED
    BY <1>1

LEMMA SessionsFinite ==
  ASSUME NEW S \in SUBSET SessionIds
  PROVE  IsFiniteSet(S) /\ Cardinality(S) \in Nat
  BY BoundsAssumption, FS_Subset, FS_CardinalityType

(* Nobody adds to a subject that somebody else has locked.                 *)
LEMMA RoomKept ==
  ASSUME NEW beside \in Nat, TableBounds(beside),
         \A j \in Stores : seen'[j] # Null => seen'[j] = seen[j] /\ calls'[j] = calls[j],
         \A j \in Stores, subject \in Subjects :
           seen'[j] # Null /\ seen[j].locked = subject =>
             /\ Actives(subject)' \subseteq Actives(subject)
             /\ Tombstones(subject)' \subseteq Tombstones(subject),
         \A s \in SessionIds : rows'[s] # Null =>
           \/ rows[s] # Null /\ rows'[s].subject = rows[s].subject
           \/ \E k \in Stores : Issuing(k) /\ calls[k].id = s,
         \A s \in SessionIds : told[s] # "unminted" => told'[s] # "unminted",
         \A j \in Stores : Issuing(j)' =>
           \/ Issuing(j) /\ calls'[j].id = calls[j].id
           \/ calls'[j].id \in SessionIds /\ told[calls'[j].id] = "unminted"
  PROVE  RoomLeft(beside)' /\ LocksExclude'
  <1>1. LocksExclude'
    BY DEF TableBounds, LocksExclude, Running
  <1>2. ASSUME NEW i \in Stores, Running(i)', calls'[i].kind = "issue"
        PROVE  IssueLeavesRoom(i)'
    <2>1. Running(i) /\ seen'[i] = seen[i] /\ calls'[i] = calls[i]
      BY <1>2 DEF Running
    <2>2. IssueLeavesRoom(i) /\ calls[i].subject \in Subjects
      BY <1>2, <2>1 DEF TableBounds, RoomLeft, CallsNamed, Issuing
    <2> DEFINE subject == calls[i].subject
               room == Actives(subject) \ seen[i].doomed
               left == {s \in SessionIds : IsActive(rows'[s]) /\ rows'[s].subject = subject}
                         \ seen[i].doomed
    <2>3. left \subseteq room
      BY <1>2, <2>1, <2>2 DEF IssueLeavesRoom, Running, Actives
    <2>4. Cardinality(left) <= MaxPerSubject - 1
      <3>1. IsFiniteSet(room)
        BY SessionsFinite DEF Actives
      <3>2. MaxPerSubject - 1 \in Int /\ Cardinality(room) <= MaxPerSubject - 1
        BY BoundsAssumption, <2>2 DEF IssueLeavesRoom
      <3> HIDE DEF left, room
      <3>3. QED
        BY <2>3, <3>1, <3>2, SubsetBounded
    <2>5. QED
      BY <2>1, <2>2, <2>4 DEF IssueLeavesRoom, Actives
  <1>3. ASSUME NEW i \in Stores, Running(i)', calls'[i].kind = "revoke", seen'[i].target # Null
        PROVE  RevokeLeavesRoom(i, beside)'
    <2>1. Running(i) /\ seen'[i] = seen[i] /\ calls'[i] = calls[i]
      BY <1>3 DEF Running
    <2>2. RevokeLeavesRoom(i, beside) /\ calls[i].id \in SessionIds
      BY <1>3, <2>1 DEF TableBounds, RoomLeft, CallsNamed, Issuing
    <2> DEFINE id == calls[i].id
               subject == seen[i].locked
               room == Tombstones(subject) \ (seen[i].doomed \cup {id})
               left == {s \in SessionIds : IsRevoked(rows'[s]) /\ rows'[s].subject = subject}
                         \ (seen[i].doomed \cup {id})
    <2>3. left \subseteq room
      BY <1>3, <2>1, <2>2 DEF RevokeLeavesRoom, Running, Tombstones
    <2>4. Cardinality(left) <= beside
      <3>1. IsFiniteSet(room)
        BY SessionsFinite DEF Tombstones
      <3>2. beside \in Int /\ Cardinality(room) <= beside
        BY BoundsAssumption, <2>2 DEF RevokeLeavesRoom
      <3> HIDE DEF left, room
      <3>3. QED
        BY <2>3, <3>1, <3>2, SubsetBounded
    <2>5. rows'[id] # Null => rows'[id].subject = subject
      BY <2>2 DEF RevokeLeavesRoom
    <2>6. told'[id] # "unminted" /\ \A j \in Stores : Issuing(j)' => calls'[j].id # id
      BY <2>2 DEF RevokeLeavesRoom
    <2>7. QED
      BY <2>1, <2>2, <2>4, <2>5, <2>6 DEF RevokeLeavesRoom, Tombstones
  <1>4. QED
    BY <1>1, <1>2, <1>3 DEF RoomLeft

(* A step that adds no session to a subject, live or revoked.              *)
LEMMA ShrinkKeeps ==
  ASSUME NEW beside \in Nat, TableBounds(beside),
         \A j \in Stores : seen'[j] # Null => seen'[j] = seen[j] /\ calls'[j] = calls[j],
         \A s \in SessionIds : rows'[s] # Null =>
           /\ rows[s] # Null /\ rows'[s].subject = rows[s].subject
           /\ IsActive(rows'[s]) => IsActive(rows[s])
           /\ IsRevoked(rows'[s]) => IsRevoked(rows[s]),
         \A s \in SessionIds : told[s] # "unminted" => told'[s] # "unminted",
         \A j \in Stores : Issuing(j)' =>
           \/ Issuing(j) /\ calls'[j].id = calls[j].id
           \/ calls'[j].id \in SessionIds /\ told[calls'[j].id] = "unminted"
  PROVE  Bounded(beside)' /\ RoomLeft(beside)' /\ LocksExclude'
  <1>1. \A subject \in Subjects :
          /\ Actives(subject)' \subseteq Actives(subject)
          /\ Tombstones(subject)' \subseteq Tombstones(subject)
    BY DEF Actives, Tombstones, IsActive, IsRevoked
  <1>2. RoomLeft(beside)' /\ LocksExclude'
    BY <1>1, RoomKept
  <1>3. ASSUME NEW subject \in Subjects
        PROVE  /\ Cardinality(Actives(subject)') <= MaxPerSubject
               /\ Cardinality(Tombstones(subject)') <= beside + 1
    <2>1. IsFiniteSet(Actives(subject)) /\ IsFiniteSet(Tombstones(subject))
      BY SessionsFinite DEF Actives, Tombstones
    <2>2. /\ Cardinality(Actives(subject)) <= MaxPerSubject /\ MaxPerSubject \in Int
          /\ Cardinality(Tombstones(subject)) <= beside + 1 /\ beside + 1 \in Int
      BY BoundsAssumption DEF TableBounds, Bounded
    <2>3. QED
      BY <1>1, <2>1, <2>2, SubsetBounded
  <1>4. Bounded(beside)'
    BY <1>3 DEF Bounded
  <1>5. QED
    BY <1>2, <1>4

(* Between its snapshot and its COMMIT a subject only lost sessions.       *)
LEMMA IssuedBounds ==
  ASSUME NEW beside \in Nat, TableBounds(beside), NEW i \in Stores, Running(i),
         calls[i].kind = "issue", told' = told, NEW outcome, Settled(i, outcome),
         NEW row, row.subject = calls[i].subject, ~IsRevoked(row),
         \A s \in SessionIds :
           IF s = calls[i].id THEN rows'[s] = row
           ELSE rows'[s] = Null \/ (s \notin seen[i].doomed /\ rows'[s] = rows[s])
  PROVE  Bounded(beside)' /\ RoomLeft(beside)' /\ LocksExclude'
  <1> DEFINE c == calls[i]
  <1>1. /\ IssueLeavesRoom(i) /\ c # Null
        /\ c.id \in SessionIds /\ c.subject \in Subjects
    BY DEF TableBounds, RoomLeft, CallsNamed, Issuing
  <1>2. \A j \in Stores : /\ seen'[j] = (IF j = i THEN Null ELSE seen[j])
                          /\ calls'[j] = (IF j = i THEN Null ELSE calls[j])
    BY <1>1 DEF Settled, TableBounds, MapsTyped
  <1>3. \A subject \in Subjects :
          /\ Tombstones(subject)' \subseteq Tombstones(subject)
          /\ subject # c.subject => Actives(subject)' \subseteq Actives(subject)
          /\ subject = c.subject =>
               Actives(subject)' \subseteq (Actives(subject) \ seen[i].doomed) \cup {c.id}
    BY DEF Tombstones, Actives, IsRevoked, IsActive
  <1>4. RoomLeft(beside)' /\ LocksExclude'
    <2>1. \A j \in Stores, subject \in Subjects :
            seen'[j] # Null /\ seen[j].locked = subject => subject # c.subject
      BY BoundsAssumption, <1>1, <1>2 DEF TableBounds, LocksExclude, IssueLeavesRoom, Running
    <2>2. \A s \in SessionIds : rows'[s] # Null =>
            \/ rows[s] # Null /\ rows'[s].subject = rows[s].subject
            \/ \E k \in Stores : Issuing(k) /\ calls[k].id = s
      BY <1>1 DEF Issuing
    <2>3. \A j \in Stores : Issuing(j)' => Issuing(j) /\ calls'[j].id = calls[j].id
      BY <1>2 DEF Issuing
    <2>4. QED
      BY <1>2, <1>3, <2>1, <2>2, <2>3, RoomKept
  <1>5. ASSUME NEW subject \in Subjects
        PROVE  /\ Cardinality(Actives(subject)') <= MaxPerSubject
               /\ Cardinality(Tombstones(subject)') <= beside + 1
    <2>1. /\ IsFiniteSet(Actives(subject)) /\ IsFiniteSet(Tombstones(subject))
          /\ IsFiniteSet(Actives(subject) \ seen[i].doomed)
          /\ Cardinality(Actives(subject) \ seen[i].doomed) \in Nat
      BY SessionsFinite DEF Actives, Tombstones
    <2>2. /\ Cardinality(Actives(subject)) <= MaxPerSubject /\ MaxPerSubject \in Int
          /\ Cardinality(Tombstones(subject)) <= beside + 1 /\ beside + 1 \in Int
      BY BoundsAssumption DEF TableBounds, Bounded
    <2>3. CASE subject # c.subject
      BY <1>3, <2>1, <2>2, <2>3, SubsetBounded
    <2>4. CASE subject = c.subject
      <3> DEFINE room == Actives(subject) \ seen[i].doomed
      <3>1. Cardinality(room) <= MaxPerSubject - 1
        BY <1>1, <2>4 DEF IssueLeavesRoom
      <3>2. IsFiniteSet(room \cup {c.id}) /\ Cardinality(room \cup {c.id}) <= MaxPerSubject
        <4> HIDE DEF room
        <4>1. /\ IsFiniteSet(room \cup {c.id})
              /\ Cardinality(room \cup {c.id}) \in {Cardinality(room), Cardinality(room) + 1}
          BY <2>1, FS_AddElement DEF room
        <4>2. QED
          BY <2>1, <2>2, <3>1, <4>1 DEF room
      <3>3. Actives(subject)' \subseteq room \cup {c.id}
        BY <1>3, <2>4
      <3> HIDE DEF room
      <3>4. QED
        BY <1>3, <2>1, <2>2, <3>2, <3>3, SubsetBounded
    <2>5. QED
      BY <2>3, <2>4
  <1>6. Bounded(beside)'
    BY <1>5 DEF Bounded
  <1>7. QED
    BY <1>4, <1>6

(* A revocation replaces the tombstones its snapshot saw past the offset.  *)
LEMMA RevokedBounds ==
  ASSUME NEW beside \in Nat, TableBounds(beside), NEW i \in Stores, Running(i),
         calls[i].kind = "revoke", IsActive(rows[calls[i].id]), seen[i].target # Null,
         \A s \in SessionIds : told[s] # "unminted" => told'[s] # "unminted",
         NEW outcome, Settled(i, outcome),
         NEW row, row.subject = rows[calls[i].id].subject, ~IsActive(row),
         \A s \in SessionIds :
           IF s = calls[i].id THEN rows'[s] = row
           ELSE rows'[s] = Null \/ (s \notin seen[i].doomed /\ rows'[s] = rows[s])
  PROVE  Bounded(beside)' /\ RoomLeft(beside)' /\ LocksExclude'
  <1> DEFINE c == calls[i]
  <1>1. c # Null /\ c.id \in SessionIds /\ rows[c.id] # Null
    BY DEF TableBounds, CallsNamed, IsActive
  <1>2. RevokeLeavesRoom(i, beside)
    BY DEF TableBounds, RoomLeft
  <1>3. \A j \in Stores : /\ seen'[j] = (IF j = i THEN Null ELSE seen[j])
                          /\ calls'[j] = (IF j = i THEN Null ELSE calls[j])
    BY <1>1 DEF Settled, TableBounds, MapsTyped
  <1>4. row.subject = seen[i].locked
    BY <1>1, <1>2 DEF RevokeLeavesRoom
  <1>5. \A subject \in Subjects :
          /\ Actives(subject)' \subseteq Actives(subject)
          /\ subject # seen[i].locked => Tombstones(subject)' \subseteq Tombstones(subject)
          /\ subject = seen[i].locked =>
               Tombstones(subject)' \subseteq
                 (Tombstones(subject) \ (seen[i].doomed \cup {c.id})) \cup {c.id}
    BY <1>4 DEF Tombstones, Actives, IsRevoked, IsActive
  <1>6. RoomLeft(beside)' /\ LocksExclude'
    <2>1. \A j \in Stores, subject \in Subjects :
            seen'[j] # Null /\ seen[j].locked = subject => subject # seen[i].locked
      BY BoundsAssumption, <1>2, <1>3 DEF TableBounds, LocksExclude, RevokeLeavesRoom, Running
    <2>2. \A s \in SessionIds : rows'[s] # Null =>
            rows[s] # Null /\ rows'[s].subject = rows[s].subject
      BY <1>1, <1>4
    <2>3. \A j \in Stores : Issuing(j)' => Issuing(j) /\ calls'[j].id = calls[j].id
      BY <1>3 DEF Issuing
    <2>4. QED
      BY <1>3, <1>5, <2>1, <2>2, <2>3, RoomKept
  <1>7. ASSUME NEW subject \in Subjects
        PROVE  /\ Cardinality(Actives(subject)') <= MaxPerSubject
               /\ Cardinality(Tombstones(subject)') <= beside + 1
    <2> DEFINE room == Tombstones(subject) \ (seen[i].doomed \cup {c.id})
    <2>1. /\ IsFiniteSet(Actives(subject)) /\ IsFiniteSet(Tombstones(subject))
          /\ IsFiniteSet(room) /\ Cardinality(room) \in Nat
      BY SessionsFinite DEF Actives, Tombstones
    <2>2. /\ Cardinality(Actives(subject)) <= MaxPerSubject /\ MaxPerSubject \in Int
          /\ Cardinality(Tombstones(subject)) <= beside + 1 /\ beside + 1 \in Int
          /\ beside \in Int
      BY BoundsAssumption DEF TableBounds, Bounded
    <2>3. CASE subject # seen[i].locked
      BY <1>5, <2>1, <2>2, <2>3, SubsetBounded
    <2>4. CASE subject = seen[i].locked
      <3>1. Cardinality(room) <= beside
        BY <1>2, <2>4 DEF RevokeLeavesRoom
      <3>2. Tombstones(subject)' \subseteq room \cup {c.id}
        BY <1>5, <2>4
      <3> HIDE DEF room
      <3>3. /\ IsFiniteSet(room \cup {c.id})
            /\ Cardinality(room \cup {c.id}) \in {Cardinality(room), Cardinality(room) + 1}
        BY <2>1, FS_AddElement
      <3>4. Cardinality(room \cup {c.id}) <= beside + 1
        BY <2>1, <2>2, <3>1, <3>3
      <3>5. QED
        BY <1>5, <2>1, <2>2, <3>2, <3>3, <3>4, SubsetBounded
    <2>5. QED
      BY <2>3, <2>4
  <1>8. Bounded(beside)'
    BY <1>7 DEF Bounded
  <1>9. QED
    BY <1>6, <1>8

(* A snapshot taken under the lock of the subject leaves the room.         *)
LEMMA SnapshotBounds ==
  ASSUME NEW beside \in Nat, TableBounds(beside), NEW i \in Stores,
         calls[i] # Null, ~Running(i), SubjectFree(i), NEW doomed,
         seen' = [seen EXCEPT ![i] = [locked |-> LockedSubject(calls[i]), doomed |-> doomed,
                                      target |-> Found(calls[i])]],
         UNCHANGED <<rows, calls, told>>,
         calls[i].kind = "issue" =>
           Cardinality(Actives(calls[i].subject) \ doomed) <= MaxPerSubject - 1,
         LET id == calls[i].id
         IN  calls[i].kind = "revoke" /\ rows[id] # Null =>
               /\ rows[id].subject \in Subjects /\ told[id] # "unminted"
               /\ \A j \in Stores : Issuing(j) => calls[j].id # id
               /\ Cardinality(Tombstones(rows[id].subject) \ (doomed \cup {id})) <= beside
  PROVE  Bounded(beside)' /\ RoomLeft(beside)' /\ LocksExclude'
  <1> DEFINE c == calls[i]
             noted == [locked |-> LockedSubject(c), doomed |-> doomed, target |-> Found(c)]
  <1>1. \A j \in Stores : seen'[j] = IF j = i THEN noted ELSE seen[j]
    BY DEF TableBounds, MapsTyped
  <1>2. Bounded(beside)'
    BY DEF TableBounds, Bounded, Actives, Tombstones
  <1>3. noted.locked = LockedSubject(c) /\ noted.doomed = doomed /\ noted.target = Found(c)
    OBVIOUS
  <1> HIDE DEF noted
  <1>4. LocksExclude'
    <2>1. LockedSubject(c) # Null =>
            \A j \in Stores \ {i} : Running(j) => seen[j].locked # LockedSubject(c)
      BY DEF SubjectFree
    <2>2. QED
      BY <1>1, <1>3, <2>1 DEF TableBounds, LocksExclude, Running
  <1>5. ASSUME NEW j \in Stores, Running(j)', calls'[j].kind = "issue"
        PROVE  IssueLeavesRoom(j)'
    <2>1. CASE j # i
      BY <1>1, <1>5, <2>1 DEF TableBounds, RoomLeft, Running, IssueLeavesRoom, Actives
    <2>2. CASE j = i
      <3>1. noted.locked = c.subject
        BY <1>3, <1>5, <2>2 DEF LockedSubject
      <3>2. QED
        BY <1>1, <1>3, <1>5, <2>2, <3>1 DEF IssueLeavesRoom, Actives
    <2>3. QED
      BY <2>1, <2>2
  <1>6. ASSUME NEW j \in Stores, Running(j)', calls'[j].kind = "revoke", seen'[j].target # Null
        PROVE  RevokeLeavesRoom(j, beside)'
    <2>1. CASE j # i
      BY <1>1, <1>6, <2>1, ZenonT(30) DEF TableBounds, RoomLeft, Running, RevokeLeavesRoom,
                             Tombstones, Issuing
    <2>2. CASE j = i
      <3>1. rows[c.id] # Null /\ c.kind = "revoke"
        BY <1>1, <1>3, <1>6, <2>2 DEF Found
      <3>2. noted.locked = rows[c.id].subject
        BY <1>3, <3>1 DEF LockedSubject
      <3>3. /\ rows[c.id].subject \in Subjects /\ told[c.id] # "unminted"
            /\ \A k \in Stores : Issuing(k) => calls[k].id # c.id
            /\ Cardinality(Tombstones(rows[c.id].subject) \ (doomed \cup {c.id})) <= beside
        BY <3>1
      <3>4. calls'[j] = c /\ seen'[j] = noted
        BY <1>1, <2>2
      <3>5. \A k \in Stores : Issuing(k)' => calls'[k].id # c.id
        BY <3>3 DEF Issuing
      <3>6. \A subject : Tombstones(subject)' = Tombstones(subject)
        BY DEF Tombstones
      <3>7. QED
        BY <1>3, <3>2, <3>3, <3>4, <3>5, <3>6 DEF RevokeLeavesRoom
    <2>3. QED
      BY <2>1, <2>2
  <1>7. QED
    BY <1>2, <1>4, <1>5, <1>6 DEF RoomLeft

LEMMA BeginLeavesRoom ==
  ASSUME BoundsInv, NEW i \in Stores, Begin(i)
  PROVE  Bounded(MaxRevoked)' /\ RoomLeft(MaxRevoked)' /\ LocksExclude'
  <1> DEFINE c == calls[i]
  <1>1. StoreInv /\ c # Null /\ WellFormed(c) /\ ~Running(i)
    BY DEF BoundsInv, StoreInv, CallsTyped, Begin
  <1>2. TableBounds(MaxRevoked) /\ MaxRevoked \in Nat /\ MaxRevoked \in Int
    BY StoreBounds, BoundsAssumption
  <1>3. \A s \in SessionIds : IsActive(rows[s]) => rows[s].issued_at \in Int
    BY ClockAssumption, <1>1 DEF StoreInv, RowsTyped, IsActive, Row
  <1>4. \A s \in SessionIds : IsRevoked(rows[s]) => rows[s].revoked_at \in Int
    BY ClockAssumption, <1>1 DEF StoreInv, RowsTyped, IsRevoked, Row
  <1>5. ASSUME c.kind = "issue"
        PROVE  Cardinality(Actives(c.subject) \ Doomed(c)) <= MaxPerSubject - 1
    <2> DEFINE mine == ActivesOf(c.subject, c.now)
               over == Overflow(mine, "issued_at", MaxPerSubject - 1)
    <2>1. Doomed(c) = AllExpired(c.now) \cup over
      BY <1>5 DEF Doomed
    <2>2. Actives(c.subject) \ Doomed(c) \subseteq mine \ over
      BY <2>1 DEF Actives, ActivesOf, AllExpired
    <2>3. MaxPerSubject - 1 \in Nat
      BY BoundsAssumption
    <2>4. mine \subseteq SessionIds /\ \A s \in mine : rows[s]["issued_at"] \in Int
      BY <1>3 DEF ActivesOf
    <2>5. Cardinality(mine \ over) <= MaxPerSubject - 1
      <3> HIDE DEF mine
      <3>1. QED
        BY BoundsAssumption, <2>3, <2>4, OffsetKeeps
    <2>6. IsFiniteSet(mine \ over)
      BY SessionsFinite DEF ActivesOf
    <2> HIDE DEF mine, over
    <2>7. QED
      BY <2>2, <2>3, <2>5, <2>6, SubsetBounded
  <1>6. ASSUME c.kind = "revoke", rows[c.id] # Null
        PROVE  /\ rows[c.id].subject \in Subjects /\ told[c.id] # "unminted"
               /\ \A j \in Stores : Issuing(j) => calls[j].id # c.id
               /\ Cardinality(Tombstones(rows[c.id].subject) \ (Doomed(c) \cup {c.id}))
                    <= MaxRevoked
    <2> DEFINE mine == TombstonesBeside(c.id)
               over == Overflow(mine, "revoked_at", MaxRevoked)
    <2>1. c.id \in SessionIds
      BY <1>1, <1>6 DEF WellFormed
    <2>2. Doomed(c) = over
      BY <1>6 DEF Doomed
    <2>3. rows[c.id].subject \in Subjects
      BY <1>1, <1>6, <2>1 DEF StoreInv, RowsTyped, Row
    <2>4. told[c.id] # "unminted" /\ \A j \in Stores : Issuing(j) => calls[j].id # c.id
      BY <1>1, <1>6, <2>1 DEF StoreInv, IssuesFresh
    <2>5. Tombstones(rows[c.id].subject) \ (Doomed(c) \cup {c.id}) \subseteq mine \ over
      BY <2>2 DEF Tombstones, TombstonesBeside
    <2>6. mine \subseteq SessionIds /\ \A s \in mine : rows[s]["revoked_at"] \in Int
      BY <1>4 DEF TombstonesBeside
    <2>7. Cardinality(mine \ over) <= MaxRevoked
      <3> HIDE DEF mine
      <3>1. QED
        BY BoundsAssumption, <2>6, <1>2, OffsetKeeps
    <2>8. IsFiniteSet(mine \ over)
      BY SessionsFinite DEF TombstonesBeside
    <2> HIDE DEF mine, over
    <2>9. QED
      BY <1>2, <2>3, <2>4, <2>5, <2>7, <2>8, SubsetBounded
  <1>7. /\ SubjectFree(i) /\ UNCHANGED <<rows, calls, told>>
        /\ seen' = [seen EXCEPT ![i] = [locked |-> LockedSubject(c), doomed |-> Doomed(c),
                                        target |-> Found(c)]]
    BY DEF Begin
  <1>8. QED
    BY <1>1, <1>2, <1>5, <1>6, <1>7, SnapshotBounds

(* A statement that commits, answered or not.                              *)
LEMMA CommitBounds ==
  ASSUME BoundsInv, NEW i \in Stores, Running(i),
         rows' = Result(i), told' \in {told, Answered(i)}, NEW outcome, Settled(i, outcome)
  PROVE  Bounded(MaxRevoked)' /\ RoomLeft(MaxRevoked)' /\ LocksExclude'
  <1> DEFINE c == calls[i]
  <1>0. TableBounds(MaxRevoked) /\ MaxRevoked \in Nat
    BY StoreBounds, BoundsAssumption
  <1>1. StoreInv /\ WellFormed(c)
    BY DEF BoundsInv, StoreInv, CallsTyped
  <1>2. CASE c.kind = "issue"
    <2>1. told' = told
      BY <1>2 DEF Answered
    <2>2. c.id \in SessionIds
      BY <1>1, <1>2 DEF WellFormed
    <2>3. \A s \in SessionIds :
            rows'[s] = IF s = c.id THEN IssuedRow(c)
                       ELSE IF s \in seen[i].doomed THEN Null ELSE rows[s]
      BY <1>2, <2>2 DEF Result, Issued, Without
    <2>4. IssuedRow(c).subject = c.subject /\ ~IsRevoked(IssuedRow(c))
      BY DEF IsRevoked, IssuedRow
    <2>5. QED
      BY <1>0, <1>2, <2>1, <2>3, <2>4, IssuedBounds
  <1>3. CASE c.kind = "revoke" /\ Updates(i)
    <2> DEFINE row == UpdatedRow(c, rows[c.id])
    <2>1. c.id \in SessionIds /\ IsActive(rows[c.id])
      BY <1>1, <1>3, UpdatesActive
    <2>2. \A s \in SessionIds :
            rows'[s] = IF s = c.id THEN row
                       ELSE IF s \in seen[i].doomed THEN Null ELSE rows[s]
      BY <1>3, <2>1 DEF Result, Updated, Without
    <2>3. row.subject = rows[c.id].subject /\ ~IsActive(row)
      <3>1. row.subject = rows[c.id].subject /\ row.revoked_at \in Instants
        BY <1>1, <1>3, UpdatesAllowed
      <3>2. QED
        BY ClockAssumption, <3>1 DEF IsActive
    <2>4. seen[i].target # Null
      BY <1>3 DEF Updates, Target, IsActive
    <2>5. \A s \in SessionIds : told[s] # "unminted" => told'[s] # "unminted"
      BY <1>1, <2>1 DEF Answered, StoreInv, MapsTyped
    <2> HIDE DEF row
    <2>6. QED
      BY <1>0, <1>3, <2>1, <2>2, <2>3, <2>4, <2>5, RevokedBounds
  <1>4. CASE c.kind # "issue" /\ ~(c.kind = "revoke" /\ Updates(i))
    <2>1. told' = told
      BY <1>4 DEF Answered
    <2>2. ASSUME NEW s \in SessionIds, rows'[s] # Null
          PROVE  /\ rows[s] # Null /\ rows'[s].subject = rows[s].subject
                 /\ IsActive(rows'[s]) => IsActive(rows[s])
                 /\ IsRevoked(rows'[s]) => IsRevoked(rows[s])
      <3>1. CASE rows'[s] = rows[s]
        BY <2>2, <3>1
      <3>2. CASE /\ s = c.id /\ c.kind \in {"refresh", "bind"} /\ Updates(i)
                 /\ rows'[s] = UpdatedRow(c, rows[s])
        <4>1. IsActive(rows[s])
          BY <1>1, <3>2, UpdatesActive
        <4>2. rows'[s].subject = rows[s].subject /\ rows'[s].revoked_at = Null
          BY <1>1, <3>2, UpdatesAllowed
        <4>3. QED
          BY <4>1, <4>2 DEF IsActive, IsRevoked
      <3>3. QED
        BY <1>1, <1>4, <2>2, <3>1, <3>2, ResultOfRow
    <2>3. \A j \in Stores : /\ seen'[j] = (IF j = i THEN Null ELSE seen[j])
                            /\ calls'[j] = (IF j = i THEN Null ELSE calls[j])
      BY <1>1 DEF Settled, StoreInv, MapsTyped
    <2>4. \A j \in Stores : Issuing(j)' => Issuing(j) /\ calls'[j].id = calls[j].id
      BY <2>3 DEF Issuing
    <2>5. QED
      BY <1>0, <2>1, <2>2, <2>3, <2>4, ShrinkKeeps
  <1>5. QED
    BY <1>2, <1>3, <1>4

(* Calls, failures, restarts and the eviction of a get.                    *)
LEMMA QuietBounds ==
  ASSUME BoundsInv, NEW i \in Stores,
         \/ \E call : Called(i, call) /\ told' = told /\ call.kind # "issue"
         \/ \E subject \in Subjects, now \in Instants : IssueCalled(i, subject, now)
         \/ RollBack(i) \/ Initialize(i)
         \/ \E s \in SessionIds, now \in Instants : Get(i, s, now)
  PROVE  Bounded(MaxRevoked)' /\ RoomLeft(MaxRevoked)' /\ LocksExclude'
  <1>1. StoreInv
    BY DEF BoundsInv
  <1>2. \A s \in SessionIds : rows'[s] \in {Null, rows[s]}
    BY <1>1 DEF Called, IssueCalled, RollBack, Initialize, Get, StoreInv, MapsTyped
  <1>3. \A s \in SessionIds : told[s] # "unminted" => told'[s] # "unminted"
    BY <1>1 DEF Called, IssueCalled, RollBack, Initialize, Get, StoreInv, MapsTyped
  <1>4. \A j \in Stores : seen'[j] # Null => seen'[j] = seen[j] /\ calls'[j] = calls[j]
    <2>1. \A j \in Stores : seen[j] # Null => calls[j] # Null
      BY <1>1 DEF StoreInv, CallsTyped, Running
    <2>2. QED
      BY <1>1, <2>1 DEF Called, IssueCalled, RollBack, Initialize, Get, Settled, StoreInv, MapsTyped
  <1>5. \A j \in Stores : Issuing(j)' =>
          \/ Issuing(j) /\ calls'[j].id = calls[j].id
          \/ calls'[j].id \in SessionIds /\ told[calls'[j].id] = "unminted"
    BY <1>1 DEF Issuing, Called, IssueCalled, RollBack, Initialize, Get, Settled, StoreInv, MapsTyped
  <1>6. \A s \in SessionIds : rows'[s] # Null => rows'[s] = rows[s] /\ rows[s] # Null
    BY <1>2
  <1>7. TableBounds(MaxRevoked) /\ MaxRevoked \in Nat
    BY StoreBounds, BoundsAssumption
  <1>8. QED
    BY <1>3, <1>4, <1>5, <1>6, <1>7, ShrinkKeeps

LEMMA BoundsKept ==
  ASSUME BoundsInv, [Next]_vars
  PROVE  BoundsInv'
  <1>1. StoreInv'
    BY StoreInvKept DEF BoundsInv
  <1>2. CASE UNCHANGED vars
    BY <1>1, <1>2 DEF vars, BoundsInv, Bounded, Actives, Tombstones, RoomLeft, LocksExclude,
                     Running, IssueLeavesRoom, RevokeLeavesRoom, Issuing
  <1>3. CASE Next
    <2>1. PICK i \in Stores :
            \/ \E now \in Instants :
                 \/ \E subject \in Subjects : IssueCalled(i, subject, now)
                 \/ SweepCalled(i, now)
                 \/ \E s \in SessionIds :
                      \/ RefreshCalled(i, s, now) \/ RevokeCalled(i, s, now)
                      \/ \E device \in Devices : BindCalled(i, s, device, now)
                      \/ Get(i, s, now)
            \/ Begin(i) \/ Commit(i) \/ CommitUnanswered(i) \/ RollBack(i)
            \/ Initialize(i)
      BY <1>3 DEF Next
    <2>2. CASE Commit(i)
      <3>1. Running(i) /\ ~Raises(i)
        BY <2>2, NeverRaises DEF Commit, BoundsInv
      <3>2. QED
        BY <1>1, <2>2, <3>1, CommitBounds DEF Commit, BoundsInv
    <2>3. CASE CommitUnanswered(i)
      BY <1>1, <2>3, CommitBounds DEF CommitUnanswered, BoundsInv
    <2>4. CASE Begin(i)
      BY <1>1, <2>4, BeginLeavesRoom DEF BoundsInv
    <2>5. CASE \E now \in Instants :
                 \/ SweepCalled(i, now)
                 \/ \E s \in SessionIds :
                      \/ RefreshCalled(i, s, now) \/ RevokeCalled(i, s, now)
                      \/ \E device \in Devices : BindCalled(i, s, device, now)
      <3>1. ASSUME NEW call, Called(i, call), told' = told, call.kind # "issue"
            PROVE  BoundsInv'
        BY <1>1, <3>1, QuietBounds DEF BoundsInv
      <3>2. ASSUME NEW now \in Instants, SweepCalled(i, now)
            PROVE  BoundsInv'
        <4>1. [kind |-> "sweep", now |-> now].kind # "issue"
          OBVIOUS
        <4>2. QED
          BY <3>1, <3>2, <4>1 DEF SweepCalled
      <3>3. ASSUME NEW now \in Instants, NEW s \in SessionIds,
                   RefreshCalled(i, s, now) \/ RevokeCalled(i, s, now)
            PROVE  BoundsInv'
        <4>1. \A kind \in {"refresh", "revoke"} :
                [kind |-> kind, id |-> s, now |-> now].kind # "issue"
          OBVIOUS
        <4>2. QED
          BY <3>1, <3>3, <4>1 DEF RefreshCalled, RevokeCalled
      <3>4. ASSUME NEW now \in Instants, NEW s \in SessionIds, NEW device \in Devices,
                   BindCalled(i, s, device, now)
            PROVE  BoundsInv'
        <4>1. [kind |-> "bind", id |-> s, device |-> device, now |-> now].kind # "issue"
          OBVIOUS
        <4>2. QED
          BY <3>1, <3>4, <4>1 DEF BindCalled
      <3>5. QED
        BY <2>5, <3>2, <3>3, <3>4
    <2>6. CASE \/ \E now \in Instants :
                    \/ \E subject \in Subjects : IssueCalled(i, subject, now)
                    \/ \E s \in SessionIds : Get(i, s, now)
               \/ RollBack(i) \/ Initialize(i)
      BY <1>1, <2>6, QuietBounds DEF BoundsInv
    <2>7. QED
      BY <2>1, <2>2, <2>3, <2>4, <2>5, <2>6
  <1>4. QED
    BY <1>2, <1>3

(* However instances interleave, a subject keeps at most its bound of      *)
(* sessions, and one revoked session more than its bound of tombstones     *)
(* (lockSubject, ISSUE_SQL and REVOKE_SQL of postgres-store.mjs).          *)
THEOREM BoundsHold ==
  Spec => []SubjectsBounded
  <1>1. Init => BoundsInv
    <2> SUFFICES ASSUME Init PROVE BoundsInv
      OBVIOUS
    <2>1. \A subject : Actives(subject) = {} /\ Tombstones(subject) = {}
      BY DEF Init, Actives, Tombstones, IsActive, IsRevoked
    <2>2. Bounded(MaxRevoked)
      BY BoundsAssumption, <2>1, FS_EmptySet DEF Bounded
    <2>3. RoomLeft(MaxRevoked) /\ LocksExclude
      BY DEF Init, RoomLeft, LocksExclude, Running
    <2>4. QED
      BY <2>2, <2>3, InitHolds DEF BoundsInv
  <1>2. BoundsInv /\ [Next]_vars => BoundsInv'
    BY BoundsKept
  <1>3. BoundsInv => SubjectsBounded
    <2> SUFFICES ASSUME BoundsInv, NEW subject \in Subjects
                 PROVE  LET mine == {s \in SessionIds :
                                       rows[s] # Null /\ rows[s].subject = subject}
                        IN  /\ Cardinality({s \in mine : IsActive(rows[s])}) <= MaxPerSubject
                            /\ Cardinality({s \in mine : IsRevoked(rows[s])}) <= MaxRevoked + 1
      BY DEF SubjectsBounded
    <2> DEFINE mine == {s \in SessionIds : rows[s] # Null /\ rows[s].subject = subject}
    <2>1. /\ {s \in mine : IsActive(rows[s])} = Actives(subject)
          /\ {s \in mine : IsRevoked(rows[s])} = Tombstones(subject)
      BY DEF Actives, Tombstones, IsActive, IsRevoked
    <2>2. QED
      BY <2>1 DEF BoundsInv, Bounded
  <1>4. QED
    BY <1>1, <1>2, <1>3, PTL DEF Spec
-----------------------------------------------------------------------------
(* The rate limiter.  AllowedWithinLimit is not inductive: what a window   *)
(* granted is bounded by its count, which the upsert judges as last        *)
(* committed, and that is what bounds the next grant.                      *)
Bucket == [count : Nat, reset_at : Int]

GrantsCounted ==
  \A k \in StoredKeys :
    /\ buckets[k] \in Bucket /\ granted[k] \in Nat
    /\ granted[k] <= buckets[k].count
    /\ granted[k] <= Limit

(* A consume awaited is of a key of the limiter, at a reading of a clock.  *)
ConsumesTyped ==
  \A c \in Callers : consumes[c] # Absent =>
    consumes[c].key \in Keys /\ consumes[c].now \in Int

LimiterInv ==
  /\ buckets = [k \in Keys |-> buckets[k]]
  /\ granted = [k \in Keys |-> granted[k]]
  /\ consumes = [c \in Callers |-> consumes[c]]
  /\ GrantsCounted
  /\ ConsumesTyped

LEMMA InitCounts == LimiterInit => LimiterInv
  BY DEF LimiterInit, LimiterInv, GrantsCounted, ConsumesTyped, StoredKeys

(* A consume that only takes or drops its snapshot leaves the table alone. *)
LEMMA CallsCount ==
  ASSUME LimiterInv, Moments \subseteq Int,
         NEW c \in Callers,
         \/ \E key \in Keys, now \in Moments : ConsumeCalled(c, key, now)
         \/ Fails(c)
  PROVE  LimiterInv'
  <1>1. /\ buckets' = buckets /\ granted' = granted
        /\ consumes' = [d \in Callers |-> consumes'[d]]
    BY DEF LimiterInv, ConsumeCalled, Fails
  <1>2. GrantsCounted'
    BY <1>1 DEF LimiterInv, GrantsCounted, StoredKeys
  <1>3. ConsumesTyped'
    <2> SUFFICES ASSUME NEW d \in Callers, consumes'[d] # Absent
                 PROVE  consumes'[d].key \in Keys /\ consumes'[d].now \in Int
      BY DEF ConsumesTyped
    <2>1. CASE consumes'[d] = consumes[d]
      BY <2>1 DEF LimiterInv, ConsumesTyped
    <2>2. CASE consumes'[d] # consumes[d]
      <3>1. PICK key \in Keys, now \in Moments : consumes'[d] = Snapshot(key, now)
        BY <2>2 DEF LimiterInv, ConsumeCalled, Fails
      <3>2. QED
        BY <3>1 DEF Snapshot
    <2>3. QED
      BY <2>1, <2>2
  <1>4. QED
    BY <1>1, <1>2, <1>3 DEF LimiterInv

(* The statement counts what it grants, in the bucket it grants it in.     *)
LEMMA AnswersCount ==
  ASSUME LimiterInv, Limit \in Nat, Window \in Int,
         NEW c \in Callers, Answer(c)
  PROVE  LimiterInv'
  <1> DEFINE q == consumes[c]
  <1>1. q # Absent /\ q.key \in Keys /\ q.now \in Int
    BY DEF Answer, LimiterInv, ConsumesTyped
  <1>2. /\ buckets' = Table(q)
        /\ granted' = IF q.writes
             THEN [granted EXCEPT ![q.key] =
                     (IF Starts(q) THEN 0 ELSE granted[q.key]) +
                     (IF Allowed(q) THEN 1 ELSE 0)]
             ELSE granted
        /\ consumes' = [consumes EXCEPT ![c] = Absent]
    BY DEF Answer
  <1>3. ConsumesTyped'
    BY <1>2 DEF LimiterInv, ConsumesTyped
  <1>4. GrantsCounted'
    <2> SUFFICES ASSUME NEW k \in Keys, buckets'[k] # Absent
                 PROVE  /\ buckets'[k] \in Bucket /\ granted'[k] \in Nat
                        /\ granted'[k] <= buckets'[k].count
                        /\ granted'[k] <= Limit
      BY DEF GrantsCounted, StoredKeys
    <2>1. buckets'[k] = CASE k = q.key /\ q.writes -> Upserted(q)
                          [] k \in q.swept /\ Over(buckets[k], q.now) -> Absent
                          [] OTHER -> buckets[k]
      BY <1>2 DEF Table
    <2>2. CASE k = q.key /\ q.writes /\ Starts(q)
      <3>1. buckets'[k] = [count |-> 1, reset_at |-> q.now + Window]
        BY <2>1, <2>2 DEF Upserted
      <3>2. granted'[k] = IF 1 <= Limit THEN 1 ELSE 0
        BY <1>2, <2>2 DEF LimiterInv, Allowed, Count
      <3>3. QED
        BY <1>1, <3>1, <3>2 DEF Bucket
    <2>3. CASE k = q.key /\ q.writes /\ ~Starts(q)
      <3>1. /\ k \in StoredKeys /\ buckets[k] \in Bucket /\ granted[k] \in Nat
            /\ granted[k] <= buckets[k].count /\ granted[k] <= Limit
        BY <2>3 DEF Starts, StoredKeys, LimiterInv, GrantsCounted
      <3>2. buckets'[k] = [buckets[k] EXCEPT !.count = OneMore(buckets[k].count)]
        BY <2>1, <2>3 DEF Upserted, Count
      <3>3. granted'[k] = granted[k] + (IF OneMore(buckets[k].count) <= Limit THEN 1 ELSE 0)
        <4>1. Allowed(q) <=> OneMore(buckets[k].count) <= Limit
          BY <2>3 DEF Allowed, Count
        <4>2. granted'[k] = granted[k] + (IF Allowed(q) THEN 1 ELSE 0)
          BY <1>2, <2>3 DEF LimiterInv
        <4>3. QED
          BY <4>1, <4>2
      <3>4. QED
        BY <3>1, <3>2, <3>3 DEF Bucket, OneMore
    <2>4. CASE ~(k = q.key /\ q.writes)
      <3>1. buckets'[k] = buckets[k]
        BY <2>1, <2>4
      <3>2. granted'[k] = granted[k]
        BY <1>2, <2>4 DEF LimiterInv
      <3>3. QED
        BY <3>1, <3>2 DEF LimiterInv, GrantsCounted, StoredKeys
    <2>5. QED
      BY <2>2, <2>3, <2>4
  <1>5. QED
    BY <1>2, <1>3, <1>4 DEF LimiterInv, Table

LEMMA CountsStay ==
  ASSUME LimiterInv, Limit \in Nat, Window \in Int, Moments \subseteq Int,
         [LimiterNext]_limiterVars
  PROVE  LimiterInv'
  <1>1. CASE UNCHANGED limiterVars
    BY <1>1 DEF limiterVars, LimiterInv, GrantsCounted, ConsumesTyped, StoredKeys
  <1>2. CASE LimiterNext
    BY <1>2, CallsCount, AnswersCount DEF LimiterNext
  <1>3. QED
    BY <1>1, <1>2

(* However consumes overlap, no bucket allows more requests than Limit     *)
(* (CONSUME_SQL of postgres-store.mjs).                                    *)
THEOREM WindowsAllowWithinLimit ==
  ASSUME Limit \in Nat, Window \in Int, Moments \subseteq Int
  PROVE  LimiterSpec => []AllowedWithinLimit
  <1>1. LimiterInv /\ [LimiterNext]_limiterVars => LimiterInv'
    BY CountsStay
  <1>2. LimiterInv => AllowedWithinLimit
    BY DEF LimiterInv, GrantsCounted, AllowedWithinLimit
  <1>3. QED
    BY <1>1, <1>2, InitCounts, PTL DEF LimiterSpec
-----------------------------------------------------------------------------
(* The statement judges capacity by the buckets of its snapshot that are   *)
(* live; the memory limiter sweeps first and counts what is left.  The two *)
(* counts agree because the buckets stored are finitely many.              *)
LEMMA InitFinite == LimiterInit => IsFiniteSet(StoredKeys)
  <1> SUFFICES ASSUME LimiterInit PROVE IsFiniteSet(StoredKeys)
    OBVIOUS
  <1>1. StoredKeys = {}
    BY DEF LimiterInit, StoredKeys
  <1>2. QED
    BY <1>1, FS_EmptySet

LEMMA StaysFinite ==
  ASSUME LimiterInv, IsFiniteSet(StoredKeys), [LimiterNext]_limiterVars
  PROVE  IsFiniteSet(StoredKeys')
  <1>1. CASE UNCHANGED buckets
    BY <1>1 DEF StoredKeys
  <1>2. ASSUME NEW c \in Callers, Answer(c)
        PROVE  IsFiniteSet(StoredKeys')
    <2> DEFINE key == consumes[c].key
    <2>1. buckets' = Table(consumes[c])
      BY <1>2 DEF Answer
    <2>2. StoredKeys' \subseteq StoredKeys \cup {key}
      BY <2>1 DEF StoredKeys, Table
    <2>3. IsFiniteSet(StoredKeys \cup {key})
      BY FS_AddElement
    <2>4. QED
      BY <2>2, <2>3, FS_Subset
  <1>3. QED
    BY <1>1, <1>2 DEF LimiterNext, ConsumeCalled, Fails, limiterVars

(* What the sweep leaves is what is live.                                  *)
LEMMA ShedKeepsLive ==
  ASSUME NEW key \in Keys, NEW now,
         key \notin StoredKeys, Cardinality(StoredKeys) >= MaxKeys
  PROVE  {k \in Keys : Shed(key, now)[k] # Absent} = Live(now)
  BY DEF Shed, Live, StoredKeys, Over

LEMMA Writes ==
  ASSUME NEW key, NEW now
  PROVE  Snapshot(key, now).writes
           <=> key \in StoredKeys \/ Cardinality(Live(now)) < MaxKeys
  BY DEF Snapshot

(* Both refuse the same calls.                                             *)
LEMMA RefusesAlike ==
  ASSUME IsFiniteSet(StoredKeys), MaxKeys \in Int,
         NEW key \in Keys, NEW now
  PROVE  Snapshot(key, now).writes <=> ~Refused(key, now)
  <1>1. CASE key \in StoredKeys
    BY <1>1 DEF Snapshot, Refused
  <1>2. CASE key \notin StoredKeys /\ Cardinality(StoredKeys) >= MaxKeys
    <2>1. Refused(key, now) <=> Cardinality(Live(now)) >= MaxKeys
      <3>1. {k \in Keys : Shed(key, now)[k] # Absent} = Live(now)
        BY <1>2, ShedKeepsLive
      <3>2. QED
        BY <1>2, <3>1, Zenon DEF Refused
    <2>2. Cardinality(Live(now)) \in Nat
      BY FS_Subset, FS_CardinalityType DEF Live
    <2>3. QED
      BY <1>2, <2>1, <2>2, Writes
  <1>3. CASE key \notin StoredKeys /\ ~(Cardinality(StoredKeys) >= MaxKeys)
    <2>1. Refused(key, now) <=> Cardinality(StoredKeys) >= MaxKeys
      <3>1. {k \in Keys : Shed(key, now)[k] # Absent} = StoredKeys
        BY <1>3 DEF Shed, StoredKeys
      <3>2. QED
        BY <1>3, <3>1, Zenon DEF Refused
    <2>2. Live(now) \subseteq StoredKeys
      BY DEF Live
    <2>3. /\ Cardinality(StoredKeys) \in Nat /\ Cardinality(Live(now)) \in Nat
          /\ Cardinality(Live(now)) <= Cardinality(StoredKeys)
      BY <2>2, FS_Subset, FS_CardinalityType
    <2>4. QED
      BY <1>3, <2>1, <2>3, Writes
  <1>4. QED
    BY <1>1, <1>2, <1>3

(* The rows the statement sweeps are the ones the memory limiter sheds.    *)
LEMMA SweepsAlike ==
  ASSUME LimiterInv, NEW key \in Keys, NEW now, NEW k \in Keys
  PROVE  Shed(key, now)[k] =
           IF k \in Snapshot(key, now).swept /\ Over(buckets[k], now)
           THEN Absent ELSE buckets[k]
  BY DEF LimiterInv, Shed, Snapshot, Live, StoredKeys, Over

(* A bucket is counted alike in the row and in the map.                    *)
LEMMA CountsAlike ==
  ASSUME LimiterInv, Limit \in Nat, Window \in Int,
         NEW key \in Keys, NEW now \in Int
  PROVE  LET q == Snapshot(key, now)
             shed == Shed(key, now)
             opened == IF shed[key] = Absent \/ Over(shed[key], now)
                       THEN [count |-> 0, reset_at |-> now + Window] ELSE shed[key]
         IN  /\ Upserted(q) = [opened EXCEPT !.count = OneMore(@)]
             /\ Count(q) = OneMore(opened.count)
  <1> DEFINE q == Snapshot(key, now)
             shed == Shed(key, now)
             opened == IF shed[key] = Absent \/ Over(shed[key], now)
                       THEN [count |-> 0, reset_at |-> now + Window] ELSE shed[key]
  <1>1. shed[key] = buckets[key]
    BY DEF LimiterInv, Shed, StoredKeys, Over
  <1>2. q.key = key /\ q.now = now
    BY DEF Snapshot
  <1>3. CASE Starts(q)
    <2>1. opened = [count |-> 0, reset_at |-> now + Window]
      BY <1>1, <1>2, <1>3 DEF Starts
    <2>2. OneMore(0) = 1
      BY DEF OneMore
    <2>3. Upserted(q) = [count |-> 1, reset_at |-> now + Window] /\ Count(q) = 1
      BY <1>2, <1>3 DEF Upserted, Count
    <2>4. QED
      BY <2>1, <2>2, <2>3
  <1>4. CASE ~Starts(q)
    <2>1. opened = buckets[key]
      BY <1>1, <1>2, <1>4 DEF Starts
    <2>2. QED
      BY <1>2, <1>4, <2>1 DEF Upserted, Count
  <1>5. QED
    BY <1>3, <1>4

LEMMA AnswersAlike ==
  ASSUME LimiterInv, IsFiniteSet(StoredKeys),
         Limit \in Nat, Window \in Int, MaxKeys \in Int,
         NEW key \in Keys, NEW now \in Int
  PROVE  LET q == Snapshot(key, now)
         IN  FixedWindow(key, now) = [table |-> Table(q), allowed |-> Allowed(q)]
  <1> DEFINE q == Snapshot(key, now)
             shed == Shed(key, now)
             opened == IF shed[key] = Absent \/ Over(shed[key], now)
                       THEN [count |-> 0, reset_at |-> now + Window] ELSE shed[key]
             counted == [opened EXCEPT !.count = OneMore(@)]
  <1>1. q.key = key /\ q.now = now
    BY DEF Snapshot
  <1>2. q.writes <=> ~Refused(key, now)
    BY RefusesAlike
  <1>3. shed = [k \in Keys |-> shed[k]]
    BY DEF Shed, LimiterInv
  <1>4. \A k \in Keys :
          shed[k] = IF k \in q.swept /\ Over(buckets[k], now) THEN Absent ELSE buckets[k]
    BY SweepsAlike
  <1>5. Upserted(q) = counted /\ Count(q) = OneMore(opened.count)
    BY CountsAlike
  <1>6. CASE Refused(key, now)
    <2>1. Table(q) = [k \in Keys |-> shed[k]]
      BY <1>1, <1>2, <1>4, <1>6 DEF Table
    <2>2. Allowed(q) = FALSE
      BY <1>2, <1>6 DEF Allowed
    <2>3. FixedWindow(key, now) = [table |-> shed, allowed |-> FALSE]
      BY <1>6 DEF FixedWindow
    <2>4. QED
      BY <1>3, <2>1, <2>2, <2>3
  <1>7. CASE ~Refused(key, now)
    <2>1. Table(q) = [k \in Keys |-> IF k = key THEN Upserted(q) ELSE shed[k]]
      <3>1. q.writes
        BY <1>2, <1>7
      <3>2. ASSUME NEW k \in Keys
            PROVE  (CASE k = q.key /\ q.writes -> Upserted(q)
                      [] k \in q.swept /\ Over(buckets[k], q.now) -> Absent
                      [] OTHER -> buckets[k])
                   = IF k = key THEN Upserted(q) ELSE shed[k]
        <4> HIDE DEF q, shed
        <4>1. CASE k = key
          <5>1. Over(buckets[k], q.now) => ~(k \in q.swept)
            BY <4>1 DEF q, Snapshot, StoredKeys
          <5>2. QED
            BY <4>1, <5>1, <3>1, <1>1
        <4>2. CASE k # key
          BY <4>2, <1>1, <1>4
        <4>3. QED
          BY <4>1, <4>2
      <3>3. QED
        BY <3>2 DEF Table
    <2>2. [shed EXCEPT ![key] = counted] = [k \in Keys |-> IF k = key THEN counted ELSE shed[k]]
      BY <1>3
    <2>3. Allowed(q) = (OneMore(opened.count) <= Limit)
      BY <1>2, <1>5, <1>7 DEF Allowed
    <2>4. FixedWindow(key, now)
            = [table |-> [shed EXCEPT ![key] = counted],
               allowed |-> OneMore(opened.count) <= Limit]
      BY <1>7 DEF FixedWindow
    <2>5. QED
      BY <1>5, <2>1, <2>2, <2>3, <2>4
  <1>8. QED
    BY <1>6, <1>7

(* On every table that overlapping consumes can leave, and at every        *)
(* reading of the clock, CONSUME_SQL leaves the buckets and gives the      *)
(* answer of consumeFixedWindowBucket, the capacity rule and the sweep     *)
(* included ("must answer exactly what this function answers against the   *)
(* same bucket map", rate-limit.mjs).                                      *)
THEOREM StatementIsTheMemoryLimiter ==
  ASSUME Limit \in Nat, Window \in Int, MaxKeys \in Int, Moments \subseteq Int
  PROVE  LimiterSpec => []MatchesMemoryLimiter
  <1> DEFINE IInv == LimiterInv /\ IsFiniteSet(StoredKeys)
  <1>1. IInv /\ [LimiterNext]_limiterVars => IInv'
    BY CountsStay, StaysFinite
  <1>2. IInv => MatchesMemoryLimiter
    BY AnswersAlike DEF MatchesMemoryLimiter
  <1>3. LimiterInit => IInv
    BY InitCounts, InitFinite
  <1>4. QED
    BY <1>1, <1>2, <1>3, PTL DEF LimiterSpec
-----------------------------------------------------------------------------
(* The console.                                                            *)
Ask ==
  [kind : {"view"}] \cup
  [kind : {"challenge"}, approval : Approvals] \cup
  [kind : {"verify"}, approval : Approvals, challenge : Requests, right : BOOLEAN] \cup
  [kind : {"preview"}, approval : Approvals, grant : Requests]

Request ==
  [step : {"authorized", "read", "appending", "done", "refused", "wrong"},
   session : Sessions, ask : Ask,
   seen : Seq(Requests) \cup {None}, read : Seq(Requests) \cup {None}]

RequestsTyped ==
  /\ None \notin Request
  /\ requests \in [Requests -> Request \cup {None}]
  /\ chain \in Seq(Requests)

(* Every step of a request but its arrival and its reading of the chain    *)
(* moves its step only, and what ended stays as it ended.                  *)
Moves(r, step) ==
  /\ requests[r] # None
  /\ requests' = [requests EXCEPT ![r].step = step]

LEMMA MovedRequest ==
  ASSUME RequestsTyped, NEW r \in Requests,
         NEW step \in {"authorized", "read", "appending", "done", "refused", "wrong"},
         Moves(r, step)
  PROVE  /\ requests' \in [Requests -> Request \cup {None}]
         /\ \A q \in Requests \ {r} : requests'[q] = requests[q]
         /\ requests'[r].step = step /\ requests'[r].ask = requests[r].ask
         /\ requests'[r].session = requests[r].session
         /\ requests'[r].seen = requests[r].seen /\ requests'[r].read = requests[r].read
         /\ requests[r] \in Request /\ requests'[r] \in Request
  <1>1. requests[r] \in Request
    BY DEF Moves, RequestsTyped
  <1>2. requests'[r] = [requests[r] EXCEPT !.step = step]
    BY DEF Moves, RequestsTyped
  <1>3. \A q \in Requests \ {r} : requests'[q] = requests[q]
    BY DEF Moves, RequestsTyped
  <1>4. /\ requests'[r] \in Request
        /\ requests'[r].step = step /\ requests'[r].ask = requests[r].ask
        /\ requests'[r].session = requests[r].session
        /\ requests'[r].seen = requests[r].seen /\ requests'[r].read = requests[r].read
    BY <1>1, <1>2 DEF Request
  <1>5. requests' \in [Requests -> Request \cup {None}]
    BY <1>3, <1>4 DEF Moves, RequestsTyped
  <1>6. QED
    BY <1>1, <1>3, <1>4, <1>5

Ended(r) == requests[r].step \in {"done", "refused", "wrong"}

(* What no step changes of a request.                                      *)
Follows(r) ==
  requests[r] # None =>
    /\ requests'[r] # None
    /\ requests'[r].ask = requests[r].ask /\ requests'[r].session = requests[r].session
    /\ requests[r].step # "authorized" => requests'[r].seen = requests[r].seen
    /\ requests'[r].step # "authorized" \/ requests[r].step = "authorized"
    /\ Ended(r) => requests'[r] = requests[r]

LEMMA AskingIsTyped ==
  ASSUME NEW ask \in Asks
  PROVE  ask \in Ask
  BY DEF Asks, Ask, Minted

LEMMA ArrivalShape ==
  ASSUME RequestsTyped, NEW r \in Requests, NEW s \in Sessions, NEW ask \in Asks,
         Arrives(r, s, ask)
  PROVE  /\ RequestsTyped' /\ requests[r] = None
         /\ \A q \in Requests \ {r} : requests'[q] = requests[q]
         /\ requests'[r] # None /\ requests'[r].step = "authorized"
  <1> DEFINE new == [step |-> "authorized", session |-> s, ask |-> ask, seen |-> None, read |-> None]
  <1>1. new \in Request /\ new.step = "authorized"
    BY AskingIsTyped DEF Request
  <1>2. /\ requests[r] = None /\ chain' = chain
        /\ requests' = [requests EXCEPT ![r] = new]
    BY DEF Arrives
  <1> HIDE DEF new
  <1>3. requests'[r] = new /\ \A q \in Requests \ {r} : requests'[q] = requests[q]
    BY <1>2 DEF RequestsTyped
  <1>4. RequestsTyped'
    BY <1>1, <1>2, <1>3 DEF RequestsTyped, Request, Ask
  <1>5. QED
    BY <1>1, <1>2, <1>3, <1>4 DEF RequestsTyped

(* A request that reads the chain, for its handler or for its append.      *)
LEMMA ReadShape ==
  ASSUME RequestsTyped, NEW r \in Requests, ReadsChain(r) \/ BeginsAppend(r)
  PROVE  /\ RequestsTyped'
         /\ \A q \in Requests \ {r} : requests'[q] = requests[q]
         /\ requests[r] # None /\ requests'[r] # None
         /\ requests'[r].ask = requests[r].ask /\ requests'[r].session = requests[r].session
         /\ ReadsChain(r) => /\ requests[r].step = "authorized"
                             /\ requests'[r].step = "read" /\ requests'[r].seen = chain
         /\ BeginsAppend(r) =>
              /\ requests[r].step = "read" /\ requests'[r].step = "appending"
              /\ requests'[r].seen = requests[r].seen /\ requests'[r].read = chain
              /\ Kind(r) = "view"
  <1>1. requests[r] \in Request /\ requests[r] # None /\ chain \in Seq(Requests)
    BY DEF RequestsTyped, ReadsChain, BeginsAppend, At
  <1>2. CASE ReadsChain(r)
    <2> DEFINE new == [requests[r] EXCEPT !.step = "read", !.seen = chain]
    <2>1. /\ requests' = [requests EXCEPT ![r].step = "read", ![r].seen = chain]
          /\ chain' = chain /\ requests[r].step = "authorized"
      BY <1>2 DEF ReadsChain, At
    <2>2. requests'[r] = new /\ \A q \in Requests \ {r} : requests'[q] = requests[q]
      BY <2>1 DEF RequestsTyped
    <2>3. /\ new \in Request /\ new.step = "read" /\ new.seen = chain
          /\ new.ask = requests[r].ask /\ new.session = requests[r].session
      BY <1>1 DEF Request
    <2> HIDE DEF new
    <2>4. RequestsTyped'
      BY <2>1, <2>2, <2>3 DEF RequestsTyped, Request, Ask
    <2>5. ~BeginsAppend(r)
      BY <2>1 DEF BeginsAppend, At
    <2>6. QED
      BY <1>1, <2>1, <2>2, <2>3, <2>4, <2>5 DEF RequestsTyped
  <1>3. CASE BeginsAppend(r)
    <2> DEFINE new == [requests[r] EXCEPT !.step = "appending", !.read = chain]
    <2>1. /\ requests' = [requests EXCEPT ![r].step = "appending", ![r].read = chain]
          /\ chain' = chain /\ requests[r].step = "read" /\ Kind(r) = "view"
      BY <1>3 DEF BeginsAppend, At
    <2>2. requests'[r] = new /\ \A q \in Requests \ {r} : requests'[q] = requests[q]
      BY <2>1 DEF RequestsTyped
    <2>3. /\ new \in Request /\ new.step = "appending" /\ new.read = chain
          /\ new.seen = requests[r].seen
          /\ new.ask = requests[r].ask /\ new.session = requests[r].session
      BY <1>1 DEF Request
    <2> HIDE DEF new
    <2>4. RequestsTyped'
      BY <2>1, <2>2, <2>3 DEF RequestsTyped, Request, Ask
    <2>5. ~ReadsChain(r)
      BY <2>1 DEF ReadsChain, At
    <2>6. QED
      BY <1>1, <2>1, <2>2, <2>3, <2>4, <2>5 DEF RequestsTyped
  <1>4. QED
    BY <1>2, <1>3

LEMMA RestartShape ==
  ASSUME RequestsTyped, Restart
  PROVE  /\ RequestsTyped'
         /\ \A r \in Requests : Follows(r)
         /\ \A r \in Requests : requests[r] = None => requests'[r] = None
         /\ \A r \in Requests : requests[r] # None /\ ~Ended(r) => requests'[r].step = "refused"
  <1>1. ASSUME NEW r \in Requests
        PROVE  /\ requests'[r] \in Request \cup {None}
               /\ Follows(r)
               /\ requests[r] = None => requests'[r] = None
               /\ requests[r] # None /\ ~Ended(r) => requests'[r].step = "refused"
    <2>1. CASE requests[r] # None /\ requests[r].step \in {"authorized", "read", "appending"}
      <3> DEFINE new == [requests[r] EXCEPT !.step = "refused"]
      <3>1. requests'[r] = new /\ requests[r] \in Request
        BY <2>1 DEF Restart, RequestsTyped
      <3>2. /\ new \in Request /\ new.step = "refused"
            /\ new.seen = requests[r].seen
            /\ new.ask = requests[r].ask /\ new.session = requests[r].session
        BY <3>1 DEF Request
      <3> HIDE DEF new
      <3>3. QED
        BY <2>1, <3>1, <3>2 DEF RequestsTyped, Follows, Ended
    <2>2. CASE ~(requests[r] # None /\ requests[r].step \in {"authorized", "read", "appending"})
      <3>1. requests'[r] = requests[r] /\ (requests[r] # None => requests[r] \in Request)
        BY <2>2 DEF Restart, RequestsTyped
      <3>2. QED
        BY <2>2, <3>1 DEF RequestsTyped, Follows, Ended, Request
    <2>3. QED
      BY <2>1, <2>2
  <1>2. chain' = chain /\ requests' = [r \in Requests |-> requests'[r]]
    BY DEF Restart
  <1>3. requests' \in [Requests -> Request \cup {None}]
    BY <1>1, <1>2
  <1>4. RequestsTyped'
    BY <1>2, <1>3 DEF RequestsTyped, Request, Ask
  <1>5. QED
    BY <1>1, <1>4

-----------------------------------------------------------------------------
(* Audited views.  An append extends exactly the chain its handler read:   *)
(* what its transaction read is a prefix of the chain, of the same length  *)
(* when its sequence is free, and the head it compares is the handler's.   *)
Recorded(r) ==
  requests[r] # None /\ requests[r].ask.kind = "view" /\ requests[r].step \in {"done", "refused"}

Prefix(seq) ==
  Len(seq) <= Len(chain) /\ \A m \in 1 .. Len(seq) : seq[m] = chain[m]

RecordedAfter(r, before) ==
  \E k \in 1 .. Len(chain) :
    chain[k] = r /\ before \in Seq(Requests) /\ Len(before) = k - 1 /\ Prefix(before)

ViewsInv ==
  /\ RequestsTyped
  /\ \A k \in 1 .. Len(chain) : Recorded(chain[k])
  /\ \A j, k \in 1 .. Len(chain) : chain[j] = chain[k] => j = k
  /\ \A r \in Requests : At(r, "appending") =>
       /\ Kind(r) = "view"
       /\ requests[r].read \in Seq(Requests) /\ Prefix(requests[r].read)
  /\ \A r \in Requests : At(r, "done") /\ Kind(r) = "view" =>
       RecordedAfter(r, requests[r].seen)

(* A step that leaves the chain alone and ends no view.                    *)
LEMMA ViewsUndisturbed ==
  ASSUME ViewsInv, RequestsTyped', chain' = chain,
         \A r \in Requests : requests[r] # None /\ Ended(r) => requests'[r] = requests[r],
         \A r \in Requests : At(r, "appending")' =>
           \/ requests'[r] = requests[r]
           \/ requests'[r].ask.kind = "view" /\ requests'[r].read = chain,
         \A r \in Requests : At(r, "done")' /\ Kind(r)' = "view" => requests'[r] = requests[r]
  PROVE  ViewsInv'
  <1>1. \A k \in 1 .. Len(chain) : Recorded(chain[k])'
    BY DEF ViewsInv, RequestsTyped, Recorded, Ended
  <1>2. ASSUME NEW r \in Requests, At(r, "appending")'
        PROVE  /\ Kind(r)' = "view"
               /\ requests'[r].read \in Seq(Requests) /\ Prefix(requests[r].read)'
    <2>1. CASE requests'[r] = requests[r]
      BY <1>2, <2>1 DEF ViewsInv, At, Kind, Prefix
    <2>2. CASE requests'[r].ask.kind = "view" /\ requests'[r].read = chain
      BY <2>2 DEF ViewsInv, RequestsTyped, Kind, Prefix
    <2>3. QED
      BY <1>2, <2>1, <2>2
  <1>3. ASSUME NEW r \in Requests, At(r, "done")', Kind(r)' = "view"
        PROVE  RecordedAfter(r, requests[r].seen)'
    BY <1>3 DEF ViewsInv, At, Kind, RecordedAfter, Prefix
  <1>4. QED
    BY <1>1, <1>2, <1>3 DEF ViewsInv

LEMMA AppendKeepsViews ==
  ASSUME ViewsInv, NEW r \in Requests, Appends(r) \/ AppendsUnanswered(r)
  PROVE  ViewsInv'
  <1>1. /\ At(r, "appending") /\ HeadUnchanged(r) /\ SequenceFree(r)
        /\ chain' = Append(chain, r)
        /\ Moves(r, "done") \/ (Moves(r, "refused") /\ ~Appends(r))
    BY DEF Appends, AppendsUnanswered, Ends, Moves, At
  <1>2. /\ RequestsTyped /\ Kind(r) = "view"
        /\ requests[r].read \in Seq(Requests) /\ Prefix(requests[r].read)
        /\ requests[r].step = "appending" /\ requests[r] # None
    BY <1>1 DEF ViewsInv, At
  <1>3. chain \in Seq(Requests) /\ requests[r].seen = requests[r].read
        /\ Len(requests[r].read) = Len(chain)
    BY <1>1, <1>2 DEF RequestsTyped, HeadUnchanged, SequenceFree
  <1>4. /\ chain' \in Seq(Requests) /\ Len(chain') = Len(chain) + 1
        /\ chain'[Len(chain) + 1] = r /\ \A k \in 1 .. Len(chain) : chain'[k] = chain[k]
        /\ Len(chain) \in Nat
    BY <1>1, <1>3
  <1>5. /\ RequestsTyped'
        /\ \A q \in Requests \ {r} : requests'[q] = requests[q]
        /\ requests'[r] # None /\ requests'[r].ask = requests[r].ask
        /\ requests'[r].step \in {"done", "refused"}
        /\ requests'[r].seen = requests[r].seen
    BY <1>1, <1>2, <1>4, MovedRequest DEF RequestsTyped, Request, Ask
  <1>6. \A k \in 1 .. Len(chain) : chain[k] \in Requests /\ chain[k] # r
    BY <1>2, <1>3 DEF ViewsInv, Recorded
  <1>7. \A k \in 1 .. Len(chain') : Recorded(chain[k])'
    <2>1. \A k \in 1 .. Len(chain) : Recorded(chain[k])'
      BY <1>4, <1>5, <1>6 DEF ViewsInv, Recorded
    <2>2. requests'[r] # None /\ requests'[r].ask.kind = "view"
            /\ requests'[r].step \in {"done", "refused"}
      BY <1>2, <1>5 DEF Kind
    <2>3. QED
      BY <1>4, <2>1, <2>2 DEF Recorded
  <1>8. \A j, k \in 1 .. Len(chain') : chain'[j] = chain'[k] => j = k
    BY <1>4, <1>6 DEF ViewsInv
  <1>9. \A seq : seq \in Seq(Requests) /\ Prefix(seq) => Prefix(seq)'
    BY <1>4 DEF Prefix
  <1>10. ASSUME NEW q \in Requests, At(q, "appending")'
         PROVE  /\ Kind(q)' = "view"
                /\ requests'[q].read \in Seq(Requests) /\ Prefix(requests[q].read)'
    <2>1. q # r /\ requests'[q] = requests[q] /\ At(q, "appending")
      BY <1>5, <1>10 DEF At
    <2>2. requests[q].read \in Seq(Requests) /\ Prefix(requests[q].read) /\ Kind(q) = "view"
      BY <2>1 DEF ViewsInv
    <2>3. QED
      BY <1>4, <2>1, <2>2 DEF Prefix, Kind
  <1>11. ASSUME NEW q \in Requests, At(q, "done")', Kind(q)' = "view"
         PROVE  RecordedAfter(q, requests[q].seen)'
    <2>1. CASE q = r
      <3>1. requests'[q].seen \in Seq(Requests) /\ Len(requests'[q].seen) = Len(chain)
              /\ \A m \in 1 .. Len(chain) : requests'[q].seen[m] = chain[m]
        BY <1>2, <1>3, <1>5, <2>1 DEF Prefix
      <3>2. QED
        BY <1>4, <2>1, <3>1 DEF RecordedAfter, Prefix
    <2>2. CASE q # r
      <3>1. requests'[q] = requests[q] /\ RecordedAfter(q, requests[q].seen)
        BY <1>5, <1>11, <2>2 DEF ViewsInv, At, Kind
      <3>2. PICK k \in 1 .. Len(chain) :
              /\ chain[k] = q /\ requests[q].seen \in Seq(Requests)
              /\ Len(requests[q].seen) = k - 1 /\ Prefix(requests[q].seen)
        BY <3>1 DEF RecordedAfter
      <3>3. k \in 1 .. Len(chain') /\ chain'[k] = q
        BY <1>4, <3>2
      <3>4. Prefix(requests[q].seen)'
        BY <1>4, <3>1, <3>2 DEF Prefix
      <3>5. QED
        BY <3>1, <3>2, <3>3, <3>4 DEF RecordedAfter
    <2>3. QED
      BY <2>1, <2>2
  <1>12. QED
    BY <1>5, <1>7, <1>8, <1>10, <1>11 DEF ViewsInv

LEMMA ViewsKept ==
  ASSUME ViewsInv, [ConsoleNext]_consoleVars
  PROVE  ViewsInv'
  <1>1. RequestsTyped
    BY DEF ViewsInv
  <1>2. CASE requests' = requests /\ chain' = chain
    BY <1>1, <1>2, ViewsUndisturbed DEF RequestsTyped, Request, Ask
  <1>3. ASSUME NEW r \in Requests, NEW s \in Sessions, NEW ask \in Asks, Arrives(r, s, ask)
        PROVE  ViewsInv'
    <2>1. chain' = chain
      BY <1>3 DEF Arrives
    <2>2. QED
      BY <1>1, <1>3, <2>1, ArrivalShape, ViewsUndisturbed DEF At
  <1>4. ASSUME NEW r \in Requests, ReadsChain(r) \/ BeginsAppend(r)
        PROVE  ViewsInv'
    <2>1. chain' = chain
      BY <1>4 DEF ReadsChain, BeginsAppend
    <2>2. QED
      BY <1>1, <1>4, <2>1, ReadShape, ViewsUndisturbed DEF At, Kind, Ended
  <1>5. ASSUME NEW r \in Requests, BeginsChallenge(r) \/ Verifies(r) \/ Previews(r)
        PROVE  ViewsInv'
    <2>1. /\ chain' = chain /\ requests[r].step = "read" /\ Kind(r) # "view"
          /\ Moves(r, "done") \/ Moves(r, "refused") \/ Moves(r, "wrong")
      BY <1>5 DEF BeginsChallenge, Verifies, Previews, Ends, Moves, At
    <2>2. /\ RequestsTyped' /\ requests'[r].step # "appending"
          /\ requests'[r].ask = requests[r].ask
          /\ \A q \in Requests \ {r} : requests'[q] = requests[q]
      BY <1>1, <2>1, MovedRequest DEF RequestsTyped, Request, Ask
    <2>3. QED
      BY <2>1, <2>2, ViewsUndisturbed DEF At, Kind, Ended
  <1>6. ASSUME NEW r \in Requests, AppendFails(r)
        PROVE  ViewsInv'
    <2>1. chain' = chain /\ requests[r].step = "appending" /\ Moves(r, "refused")
      BY <1>6 DEF AppendFails, Ends, Moves, At
    <2>2. /\ RequestsTyped' /\ requests'[r].step = "refused"
          /\ \A q \in Requests \ {r} : requests'[q] = requests[q]
      BY <1>1, <2>1, MovedRequest DEF RequestsTyped, Request, Ask
    <2>3. QED
      BY <2>1, <2>2, ViewsUndisturbed DEF At, Ended
  <1>7. CASE Restart
    <2>1. chain' = chain
      BY <1>7 DEF Restart
    <2>2. \A r \in Requests : requests'[r] # None =>
            requests'[r] = requests[r] \/ requests'[r].step = "refused"
      BY <1>1, <1>7, RestartShape DEF Follows
    <2>3. QED
      BY <1>1, <1>7, <2>1, <2>2, RestartShape, ViewsUndisturbed DEF At, Follows
  <1>8. ASSUME NEW s \in Sessions, Login(s) \/ Logout(s)
        PROVE  ViewsInv'
    BY <1>2, <1>8 DEF Login, Logout
  <1>9. QED
    BY <1>2, <1>3, <1>4, <1>5, <1>6, <1>7, <1>8, AppendKeepsViews DEF ConsoleNext, consoleVars, Expires

(* A view that was answered is on the chain once, right after the chain    *)
(* its handler read (the audited routes of server.ts over                  *)
(* postgres-audit-store.ts); no event is repeated.                         *)
THEOREM AnsweredViewsAreAudited ==
  ASSUME None \notin Request
  PROVE  ConsoleSpec => []ViewsAreAudited
  <1>1. ConsoleInit => ViewsInv
    BY DEF ConsoleInit, ViewsInv, RequestsTyped, At
  <1>2. ViewsInv /\ [ConsoleNext]_consoleVars => ViewsInv'
    BY ViewsKept
  <1>3. ViewsInv => ViewsAreAudited
    <2> SUFFICES ASSUME ViewsInv PROVE ViewsAreAudited
      OBVIOUS
    <2>1. chain \in Seq(Requests) /\ DOMAIN chain = 1 .. Len(chain)
      BY DEF ViewsInv, RequestsTyped
    <2>2. ASSUME NEW r \in Minted("view")
          PROVE  \E k \in DOMAIN chain :
                   chain[k] = r /\ SubSeq(chain, 1, k - 1) = requests[r].seen
      <3> DEFINE before == requests[r].seen
      <3>1. PICK k \in 1 .. Len(chain) :
              chain[k] = r /\ before \in Seq(Requests) /\ Len(before) = k - 1 /\ Prefix(before)
        BY DEF Minted, ViewsInv, At, Kind, RecordedAfter
      <3>2. /\ SubSeq(chain, 1, k - 1) \in Seq(Requests)
            /\ Len(SubSeq(chain, 1, k - 1)) = k - 1
            /\ \A m \in 1 .. k - 1 : SubSeq(chain, 1, k - 1)[m] = chain[m]
        BY <2>1
      <3>3. SubSeq(chain, 1, k - 1) = before
        <4> DEFINE sub == SubSeq(chain, 1, k - 1)
        <4>1. sub \in Seq(Requests) /\ Len(sub) = Len(before)
                /\ \A m \in 1 .. Len(sub) : sub[m] = before[m]
          BY <3>1, <3>2 DEF Prefix
        <4> HIDE DEF sub, before
        <4>2. sub = before
          BY <3>1, <4>1, SeqEqual
        <4>3. QED
          BY <4>2 DEF sub, before
      <3>4. QED
        BY <2>1, <3>1, <3>3
    <2>3. QED
      BY <2>1, <2>2 DEF ViewsInv, ViewsAreAudited
  <1>4. QED
    BY <1>1, <1>2, <1>3, PTL DEF ConsoleSpec
-----------------------------------------------------------------------------
(* The step-up stores and their indexes: what each helper keeps.           *)
Indexes(index, key, b) == b \in DOMAIN index /\ index[b] = key

LEMMA CurrentIsIndexed ==
  ASSUME NEW index, NEW key, NEW b
  PROVE  key \in Current(index, b) <=> Indexes(index, key, b)
  BY DEF Current, Indexes

LEMMA PruningKeeps ==
  ASSUME NEW index, NEW store, NEW b, NEW key \in DOMAIN store, Indexes(index, key, b)
  PROVE  Indexes(Pruned(index, store), key, b)
  BY DEF Pruned, Indexes

LEMMA DeletingKeeps ==
  ASSUME NEW index, NEW b, NEW x, NEW c, NEW key, key # x, Indexes(index, key, c)
  PROVE  Indexes(DeleteCurrent(index, b, x), key, c)
  <1>1. CASE x \in Current(index, b)
    <2>1. index[b] = x /\ DeleteCurrent(index, b, x) = Except(index, {b})
      BY <1>1, CurrentIsIndexed DEF Indexes, DeleteCurrent
    <2>2. c # b
      BY <2>1 DEF Indexes
    <2>3. c \in DOMAIN Except(index, {b}) /\ Except(index, {b})[c] = index[c]
      BY <2>2 DEF Indexes, Except
    <2>4. QED
      BY <2>1, <2>3 DEF Indexes
  <1>2. CASE x \notin Current(index, b)
    BY <1>2 DEF DeleteCurrent
  <1>3. QED
    BY <1>1, <1>2

LEMMA StoringIndexes ==
  ASSUME NEW index, NEW b, NEW x
  PROVE  /\ Indexes(Stored(index, b, x), x, b)
         /\ \A c, key : Indexes(index, key, c) /\ c # b => Indexes(Stored(index, b, x), key, c)
  <1> DEFINE new == Stored(index, b, x)
  <1>1. /\ DOMAIN new = DOMAIN index \cup {b} /\ new[b] = x
        /\ \A c \in DOMAIN index \ {b} : new[c] = index[c]
    BY DEF Stored
  <1> HIDE DEF new
  <1>2. Indexes(new, x, b) /\ \A c, key : Indexes(index, key, c) /\ c # b => Indexes(new, key, c)
    BY <1>1 DEF Indexes
  <1>3. QED
    BY <1>2 DEF new

(* The indexes name every live challenge and grant.                        *)
IndexedStores ==
  /\ \A id \in DOMAIN challenges : Indexes(challengeByBinding, id, challenges[id].binding)
  /\ \A g \in DOMAIN grants : Indexes(grantByBinding, g, grants[g])

LEMMA IndexedIsLive == IndexedStores => OneLiveProofPerBinding
  BY CurrentIsIndexed DEF IndexedStores, OneLiveProofPerBinding

(* What every call but a begin, and a verification with the right code,    *)
(* does to the stores.                                                     *)
ChallengesShrink ==
  \A id \in DOMAIN challenges' :
    /\ id \in DOMAIN challenges /\ "binding" \in DOMAIN challenges'[id]
    /\ challenges'[id].binding = challenges[id].binding

GrantsShrink ==
  \A g \in DOMAIN grants' : g \in DOMAIN grants /\ grants'[g] = grants[g]

ChallengesBound == \A id \in DOMAIN challenges : "binding" \in DOMAIN challenges[id]

LEMMA PrunedIndexesKeep ==
  ASSUME IndexedStores
  PROVE  /\ \A id \in DOMAIN challenges : Indexes(PrunedChallenges, id, challenges[id].binding)
         /\ \A g \in DOMAIN grants : Indexes(PrunedGrants, g, grants[g])
  BY PruningKeeps DEF IndexedStores, PrunedChallenges, PrunedGrants

LEMMA ExpiryShrinks ==
  ASSUME IndexedStores, ChallengesBound, NEW id, ChallengeExpires(id) \/ GrantExpires(id)
  PROVE  IndexedStores' /\ ChallengesShrink /\ GrantsShrink
  <1>1. CASE ChallengeExpires(id)
    <2>1. /\ DOMAIN challenges' = DOMAIN challenges \ {id}
          /\ \A k \in DOMAIN challenges' : challenges'[k] = challenges[k]
      BY <1>1 DEF ChallengeExpires, Except
    <2>2. UNCHANGED <<challengeByBinding, grants, grantByBinding>>
      BY <1>1 DEF ChallengeExpires
    <2>3. QED
      BY <2>1, <2>2 DEF IndexedStores, Indexes, ChallengesShrink, GrantsShrink, ChallengesBound
  <1>2. CASE GrantExpires(id)
    <2>1. /\ DOMAIN grants' = DOMAIN grants \ {id}
          /\ \A k \in DOMAIN grants' : grants'[k] = grants[k]
      BY <1>2 DEF GrantExpires, Except
    <2>2. UNCHANGED <<challenges, challengeByBinding, grantByBinding>>
      BY <1>2 DEF GrantExpires
    <2>3. QED
      BY <2>1, <2>2 DEF IndexedStores, Indexes, ChallengesShrink, GrantsShrink, ChallengesBound
  <1>3. QED
    BY <1>1, <1>2

LEMMA RefusalShrinks ==
  ASSUME IndexedStores, ChallengesBound, NEW id, NEW b, VerifyRefused(id, b)
  PROVE  IndexedStores' /\ ChallengesShrink /\ GrantsShrink
  <1>1. /\ challengeByBinding' = PrunedChallenges /\ grantByBinding' = PrunedGrants
        /\ challenges' = challenges /\ grants' = grants
    BY DEF VerifyRefused
  <1>2. IndexedStores'
    BY <1>1, PrunedIndexesKeep DEF IndexedStores
  <1>3. QED
    BY <1>1, <1>2 DEF ChallengesShrink, GrantsShrink, ChallengesBound

(* A challenge that is deleted leaves its binding to another one, if any.  *)
LEMMA SpendingChallenge ==
  ASSUME IndexedStores, ChallengesBound, NEW id, NEW b,
         challenges' = Except(challenges, {id}),
         challengeByBinding' = DeleteCurrent(PrunedChallenges, b, id)
  PROVE  /\ \A k \in DOMAIN challenges' : Indexes(challengeByBinding', k, challenges'[k].binding)
         /\ ChallengesShrink /\ id \notin DOMAIN challenges'
  <1>1. /\ DOMAIN challenges' = DOMAIN challenges \ {id}
        /\ \A k \in DOMAIN challenges' : challenges'[k] = challenges[k]
    BY DEF Except
  <1>2. ASSUME NEW k \in DOMAIN challenges'
        PROVE  Indexes(challengeByBinding', k, challenges'[k].binding)
    <2>1. k # id /\ Indexes(PrunedChallenges, k, challenges[k].binding)
      BY <1>1, PrunedIndexesKeep
    <2>2. Indexes(DeleteCurrent(PrunedChallenges, b, id), k, challenges[k].binding)
      BY <2>1, DeletingKeeps
    <2>3. QED
      BY <1>1, <2>2
  <1>3. QED
    BY <1>1, <1>2 DEF ChallengesShrink, ChallengesBound

LEMMA WrongCodeShrinks ==
  ASSUME IndexedStores, ChallengesBound, NEW id, NEW b, WrongCode(id, b)
  PROVE  IndexedStores' /\ ChallengesShrink /\ GrantsShrink
  <1>1. grants' = grants /\ grantByBinding' = PrunedGrants /\ id \in DOMAIN challenges
    BY DEF WrongCode, Matches
  <1>2. CASE challenges[id].attemptsRemaining <= 1
    <2>1. /\ challenges' = Except(challenges, {id})
          /\ challengeByBinding' = DeleteCurrent(PrunedChallenges, b, id)
      BY <1>2 DEF WrongCode
    <2>2. /\ \A k \in DOMAIN challenges' : Indexes(challengeByBinding', k, challenges'[k].binding)
          /\ ChallengesShrink
      BY <2>1, SpendingChallenge
    <2>3. QED
      BY <1>1, <2>2, PrunedIndexesKeep DEF IndexedStores, GrantsShrink
  <1>3. CASE ~(challenges[id].attemptsRemaining <= 1)
    <2>1. /\ challenges' = [challenges EXCEPT ![id].attemptsRemaining = @ - 1]
          /\ challengeByBinding' = PrunedChallenges
      BY <1>3 DEF WrongCode
    <2>2. ASSUME NEW k \in DOMAIN challenges'
          PROVE  /\ k \in DOMAIN challenges
                 /\ "binding" \in DOMAIN challenges'[k]
                 /\ challenges'[k].binding = challenges[k].binding
      BY <2>1 DEF ChallengesBound
    <2>3. QED
      BY <1>1, <2>1, <2>2, PrunedIndexesKeep DEF IndexedStores, ChallengesShrink, GrantsShrink
  <1>4. QED
    BY <1>2, <1>3

LEMMA ConsumingSpends ==
  ASSUME IndexedStores, ChallengesBound, NEW g, NEW b, Consume(g, b)
  PROVE  IndexedStores' /\ ChallengesShrink /\ GrantsShrink /\ g \notin DOMAIN grants'
  <1>1. /\ challenges' = challenges /\ challengeByBinding' = PrunedChallenges
        /\ DOMAIN grants' = DOMAIN grants \ {g}
        /\ \A k \in DOMAIN grants' : grants'[k] = grants[k]
    BY DEF Consume, Except
  <1>2. grantByBinding' = PrunedGrants \/ grantByBinding' = DeleteCurrent(PrunedGrants, b, g)
    BY DEF Consume
  <1>3. ASSUME NEW k \in DOMAIN grants'
        PROVE  Indexes(grantByBinding', k, grants'[k])
    <2>1. k # g /\ Indexes(PrunedGrants, k, grants[k])
      BY <1>1, PrunedIndexesKeep
    <2>2. Indexes(DeleteCurrent(PrunedGrants, b, g), k, grants[k])
      BY <2>1, DeletingKeeps
    <2>3. QED
      BY <1>1, <1>2, <2>1, <2>2
  <1>4. QED
    BY <1>1, <1>3, PrunedIndexesKeep
       DEF IndexedStores, ChallengesShrink, GrantsShrink, ChallengesBound

(* A new entry of a store displaces the one its binding had.               *)
LEMMA BeginningStores ==
  ASSUME IndexedStores, ChallengesBound, NEW id, NEW b, BeginChallenge(id, b)
  PROVE  /\ IndexedStores' /\ GrantsShrink
         /\ id \in DOMAIN challenges' /\ challenges'[id].binding = b
         /\ "binding" \in DOMAIN challenges'[id]
         /\ \A k \in DOMAIN challenges' \ {id} :
              k \in DOMAIN challenges /\ challenges'[k] = challenges[k]
  <1> DEFINE kept == Except(challenges, Current(PrunedChallenges, b))
             new == [binding |-> b, attemptsRemaining |-> MaxAttempts]
  <1>1. /\ challenges' = Stored(kept, id, new)
        /\ challengeByBinding' = Stored(PrunedChallenges, b, id)
        /\ grantByBinding' = PrunedGrants /\ grants' = grants
    BY DEF BeginChallenge
  <1>2. /\ DOMAIN kept = DOMAIN challenges \ Current(PrunedChallenges, b)
        /\ \A k \in DOMAIN kept : kept[k] = challenges[k]
    BY DEF Except
  <1>3. new.binding = b /\ "binding" \in DOMAIN new
    OBVIOUS
  <1> HIDE DEF kept, new
  <1>4. /\ DOMAIN challenges' = DOMAIN kept \cup {id} /\ challenges'[id] = new
        /\ \A k \in DOMAIN kept \ {id} : challenges'[k] = kept[k]
    BY <1>1 DEF Stored
  <1>5. ASSUME NEW k \in DOMAIN challenges' \ {id}
        PROVE  /\ k \in DOMAIN challenges /\ challenges'[k] = challenges[k]
               /\ Indexes(challengeByBinding', k, challenges'[k].binding)
    <2>1. /\ k \in DOMAIN challenges /\ challenges'[k] = challenges[k]
          /\ k \notin Current(PrunedChallenges, b)
      BY <1>2, <1>4
    <2>2. Indexes(PrunedChallenges, k, challenges[k].binding) /\ challenges[k].binding # b
      BY <2>1, PrunedIndexesKeep, CurrentIsIndexed
    <2>3. QED
      BY <1>1, <2>1, <2>2, StoringIndexes
  <1>6. Indexes(challengeByBinding', id, challenges'[id].binding)
    BY <1>1, <1>3, <1>4, StoringIndexes
  <1>7. QED
    BY <1>1, <1>3, <1>4, <1>5, <1>6, PrunedIndexesKeep DEF IndexedStores, GrantsShrink

LEMMA VerifyingStores ==
  ASSUME IndexedStores, ChallengesBound, NEW id, NEW g, NEW b, RightCode(id, g, b)
  PROVE  /\ IndexedStores' /\ ChallengesShrink /\ id \notin DOMAIN challenges'
         /\ id \in DOMAIN challenges /\ challenges[id].binding = b
         /\ grants'[g] = b
         /\ \A k \in DOMAIN grants' \ {g} : k \in DOMAIN grants /\ grants'[k] = grants[k]
  <1> DEFINE kept == Except(grants, Current(PrunedGrants, b))
  <1>1. /\ grants' = Stored(kept, g, b)
        /\ grantByBinding' = Stored(PrunedGrants, b, g)
        /\ id \in DOMAIN challenges /\ challenges[id].binding = b
    BY DEF RightCode, Matches
  <1>2. /\ DOMAIN kept = DOMAIN grants \ Current(PrunedGrants, b)
        /\ \A k \in DOMAIN kept : kept[k] = grants[k]
    BY DEF Except
  <1> HIDE DEF kept
  <1>3. /\ DOMAIN grants' = DOMAIN kept \cup {g} /\ grants'[g] = b
        /\ \A k \in DOMAIN kept \ {g} : grants'[k] = kept[k]
    BY <1>1 DEF Stored
  <1>4. ASSUME NEW k \in DOMAIN grants' \ {g}
        PROVE  /\ k \in DOMAIN grants /\ grants'[k] = grants[k]
               /\ Indexes(grantByBinding', k, grants'[k])
    <2>1. /\ k \in DOMAIN grants /\ grants'[k] = grants[k]
          /\ k \notin Current(PrunedGrants, b)
      BY <1>2, <1>3
    <2>2. Indexes(PrunedGrants, k, grants[k]) /\ grants[k] # b
      BY <2>1, PrunedIndexesKeep, CurrentIsIndexed
    <2>3. QED
      BY <1>1, <2>1, <2>2, StoringIndexes
  <1>5. Indexes(grantByBinding', g, grants'[g])
    BY <1>1, <1>3, StoringIndexes
  <1>6. /\ \A k \in DOMAIN challenges' : Indexes(challengeByBinding', k, challenges'[k].binding)
        /\ ChallengesShrink /\ id \notin DOMAIN challenges'
    BY SpendingChallenge DEF RightCode
  <1>7. QED
    BY <1>1, <1>3, <1>4, <1>5, <1>6 DEF IndexedStores

(* Where a live challenge and a live grant come from, that none is used    *)
(* yet, and that what used one is its only user.                           *)
Done(r, kind) == At(r, "done") /\ Kind(r) = kind

ChallengesOpen ==
  \A id \in DOMAIN challenges :
    /\ id \in Requests /\ Done(id, "challenge") /\ "binding" \in DOMAIN challenges[id]
    /\ challenges[id].binding = Binding(id)
    /\ \A g \in Requests : Done(g, "verify") => requests[g].ask.challenge # id

GrantsOpen ==
  \A g \in DOMAIN grants :
    /\ g \in Requests /\ Done(g, "verify") /\ grants[g] = Binding(g)
    /\ \A p \in Requests : Done(p, "preview") => requests[p].ask.grant # g

VerifiedOnce ==
  /\ \A g \in Requests : Done(g, "verify") =>
       LET id == requests[g].ask.challenge
       IN  /\ requests[g].ask.right /\ id \in Requests /\ Done(id, "challenge")
           /\ Binding(g) = Binding(id)
  /\ \A g, h \in Requests :
       /\ Done(g, "verify") /\ Done(h, "verify")
       /\ requests[g].ask.challenge = requests[h].ask.challenge
       => g = h

PreviewedOnce ==
  /\ \A p \in Requests : Done(p, "preview") =>
       LET g == requests[p].ask.grant
       IN  g \in Requests /\ Done(g, "verify") /\ Binding(p) = Binding(g)
  /\ \A p, q \in Requests :
       /\ Done(p, "preview") /\ Done(q, "preview")
       /\ requests[p].ask.grant = requests[q].ask.grant
       => p = q

StepUpInv ==
  /\ RequestsTyped /\ IndexedStores
  /\ ChallengesOpen /\ GrantsOpen /\ VerifiedOnce /\ PreviewedOnce

LEMMA OpenChallengesBound == ChallengesOpen => ChallengesBound
  BY DEF ChallengesOpen, ChallengesBound

(* What is done stays done, with its binding.                              *)
LEMMA DoneStays ==
  ASSUME \A r \in Requests : Follows(r), NEW r \in Requests, NEW kind, Done(r, kind)
  PROVE  Done(r, kind)' /\ requests'[r] = requests[r] /\ Binding(r)' = Binding(r)
  BY DEF Follows, Ended, Done, At, Kind, Binding

(* A step that ends no verification and no preview with success.           *)
LEMMA StepUpUndisturbed ==
  ASSUME StepUpInv, RequestsTyped', IndexedStores', ChallengesShrink, GrantsShrink,
         \A r \in Requests : Follows(r),
         \A r \in Requests : Done(r, "verify")' => Done(r, "verify"),
         \A r \in Requests : Done(r, "preview")' => Done(r, "preview")
  PROVE  StepUpInv'
  <1>1. ChallengesOpen'
    <2> SUFFICES ASSUME NEW id \in DOMAIN challenges'
                 PROVE  /\ id \in Requests /\ Done(id, "challenge")'
                        /\ "binding" \in DOMAIN challenges'[id]
                        /\ challenges'[id].binding = Binding(id)'
                        /\ \A g \in Requests :
                             Done(g, "verify")' => requests'[g].ask.challenge # id
      BY DEF ChallengesOpen
    <2>1. /\ id \in DOMAIN challenges /\ "binding" \in DOMAIN challenges'[id]
          /\ challenges'[id].binding = challenges[id].binding
      BY DEF ChallengesShrink
    <2>2. /\ id \in Requests /\ Done(id, "challenge") /\ challenges[id].binding = Binding(id)
          /\ \A g \in Requests : Done(g, "verify") => requests[g].ask.challenge # id
      BY <2>1 DEF StepUpInv, ChallengesOpen
    <2>3. QED
      BY <2>1, <2>2, DoneStays
  <1>2. GrantsOpen'
    <2> SUFFICES ASSUME NEW g \in DOMAIN grants'
                 PROVE  /\ g \in Requests /\ Done(g, "verify")' /\ grants'[g] = Binding(g)'
                        /\ \A p \in Requests :
                             Done(p, "preview")' => requests'[p].ask.grant # g
      BY DEF GrantsOpen
    <2>1. g \in DOMAIN grants /\ grants'[g] = grants[g]
      BY DEF GrantsShrink
    <2>2. /\ g \in Requests /\ Done(g, "verify") /\ grants[g] = Binding(g)
          /\ \A p \in Requests : Done(p, "preview") => requests[p].ask.grant # g
      BY <2>1 DEF StepUpInv, GrantsOpen
    <2>3. QED
      BY <2>1, <2>2, DoneStays
  <1>3. VerifiedOnce'
    BY DoneStays DEF StepUpInv, VerifiedOnce
  <1>4. PreviewedOnce'
    BY DoneStays DEF StepUpInv, PreviewedOnce
  <1>5. QED
    BY <1>1, <1>2, <1>3, <1>4 DEF StepUpInv

(* The request a step moves, and the others.                               *)
LEMMA MovingFollows ==
  ASSUME RequestsTyped, NEW r \in Requests,
         NEW step \in {"read", "appending", "done", "refused", "wrong"},
         Moves(r, step), requests[r].step \in {"read", "appending"}
  PROVE  /\ \A q \in Requests : Follows(q)
         /\ \A q \in Requests \ {r} : requests'[q] = requests[q]
         /\ requests'[r] # None /\ requests'[r].step = step
         /\ requests'[r].ask = requests[r].ask /\ Binding(r)' = Binding(r)
  <1>1. /\ requests' \in [Requests -> Request \cup {None}]
        /\ \A q \in Requests \ {r} : requests'[q] = requests[q]
        /\ requests'[r].step = step /\ requests'[r].ask = requests[r].ask
        /\ requests'[r].session = requests[r].session
        /\ requests'[r].seen = requests[r].seen
        /\ requests'[r] # None
    BY MovedRequest DEF RequestsTyped
  <1>2. Binding(r)' = Binding(r)
    BY <1>1 DEF Binding
  <1>3. \A q \in Requests : Follows(q)
    BY <1>1 DEF Follows, Ended
  <1>4. QED
    BY <1>1, <1>2, <1>3

LEMMA ChallengeBeginsOpen ==
  ASSUME StepUpInv, RequestsTyped', NEW r \in Requests, BeginsChallenge(r)
  PROVE  StepUpInv'
  <1>1. /\ requests[r] # None /\ requests[r].step = "read" /\ Kind(r) = "challenge"
        /\ BeginChallenge(r, Binding(r)) /\ Moves(r, "done")
    BY DEF BeginsChallenge, Ends, Moves, At
  <1>2. /\ \A q \in Requests : Follows(q)
        /\ \A q \in Requests \ {r} : requests'[q] = requests[q]
        /\ requests'[r] # None /\ requests'[r].step = "done"
        /\ requests'[r].ask = requests[r].ask /\ Binding(r)' = Binding(r)
    BY <1>1, MovingFollows DEF StepUpInv
  <1>3. /\ IndexedStores' /\ GrantsShrink
        /\ challenges'[r].binding = Binding(r) /\ "binding" \in DOMAIN challenges'[r]
        /\ \A k \in DOMAIN challenges' \ {r} :
             k \in DOMAIN challenges /\ challenges'[k] = challenges[k]
    BY <1>1, BeginningStores, OpenChallengesBound DEF StepUpInv
  <1>4. /\ Done(r, "challenge")' /\ ~Done(r, "challenge")
        /\ \A q \in Requests : Done(q, "verify")' => Done(q, "verify")
        /\ \A q \in Requests : Done(q, "preview")' => Done(q, "preview")
    BY <1>1, <1>2 DEF Done, At, Kind
  <1>5. \A g \in Requests : Done(g, "verify") => requests[g].ask.challenge # r
    BY <1>4 DEF StepUpInv, VerifiedOnce
  <1>6. ChallengesOpen'
    <2> SUFFICES ASSUME NEW id \in DOMAIN challenges'
                 PROVE  /\ id \in Requests /\ Done(id, "challenge")'
                        /\ "binding" \in DOMAIN challenges'[id]
                        /\ challenges'[id].binding = Binding(id)'
                        /\ \A g \in Requests :
                             Done(g, "verify")' => requests'[g].ask.challenge # id
      BY DEF ChallengesOpen
    <2>1. CASE id = r
      BY <2>1, <1>2, <1>3, <1>4, <1>5, DoneStays
    <2>2. CASE id # r
      <3>1. id \in DOMAIN challenges /\ challenges'[id] = challenges[id]
        BY <2>2, <1>3
      <3>2. /\ id \in Requests /\ Done(id, "challenge") /\ challenges[id].binding = Binding(id)
            /\ "binding" \in DOMAIN challenges[id]
            /\ \A g \in Requests : Done(g, "verify") => requests[g].ask.challenge # id
        BY <3>1 DEF StepUpInv, ChallengesOpen
      <3>3. QED
        BY <3>1, <3>2, <1>2, <1>4, DoneStays
    <2>3. QED
      BY <2>1, <2>2
  <1>7. GrantsOpen'
    <2> SUFFICES ASSUME NEW g \in DOMAIN grants'
                 PROVE  /\ g \in Requests /\ Done(g, "verify")' /\ grants'[g] = Binding(g)'
                        /\ \A p \in Requests :
                             Done(p, "preview")' => requests'[p].ask.grant # g
      BY DEF GrantsOpen
    <2>1. g \in DOMAIN grants /\ grants'[g] = grants[g]
      BY <1>3 DEF GrantsShrink
    <2>2. /\ g \in Requests /\ Done(g, "verify") /\ grants[g] = Binding(g)
          /\ \A p \in Requests : Done(p, "preview") => requests[p].ask.grant # g
      BY <2>1 DEF StepUpInv, GrantsOpen
    <2>3. QED
      BY <2>1, <2>2, <1>2, <1>4, DoneStays
  <1>8. VerifiedOnce'
    BY <1>2, <1>4, DoneStays DEF StepUpInv, VerifiedOnce
  <1>9. PreviewedOnce'
    BY <1>2, <1>4, DoneStays DEF StepUpInv, PreviewedOnce
  <1>10. QED
    BY <1>3, <1>6, <1>7, <1>8, <1>9 DEF StepUpInv

(* The right code: the challenge it spends was open.                       *)
LEMMA RightCodeVerifies ==
  ASSUME StepUpInv, RequestsTyped', NEW r \in Requests, Verifies(r), requests'[r].step = "done"
  PROVE  StepUpInv'
  <1> DEFINE id == requests[r].ask.challenge
  <1>1. /\ requests[r] # None /\ requests[r].step = "read" /\ Kind(r) = "verify"
        /\ \E step \in {"refused", "wrong", "done"} :
             /\ Moves(r, step)
             /\ step = "done" => RightCode(id, r, Binding(r)) /\ requests[r].ask.right
    BY DEF Verifies, Ends, Moves, At
  <1>2. Moves(r, "done") /\ RightCode(id, r, Binding(r)) /\ requests[r].ask.right
    BY <1>1, MovingFollows DEF StepUpInv
  <1>3. /\ \A q \in Requests : Follows(q)
        /\ \A q \in Requests \ {r} : requests'[q] = requests[q]
        /\ requests'[r] # None /\ requests'[r].step = "done"
        /\ requests'[r].ask = requests[r].ask /\ Binding(r)' = Binding(r)
    BY <1>1, <1>2, MovingFollows DEF StepUpInv
  <1>4. /\ IndexedStores' /\ ChallengesShrink /\ id \notin DOMAIN challenges'
        /\ id \in DOMAIN challenges /\ challenges[id].binding = Binding(r)
        /\ grants'[r] = Binding(r)
        /\ \A k \in DOMAIN grants' \ {r} : k \in DOMAIN grants /\ grants'[k] = grants[k]
    BY <1>2, VerifyingStores, OpenChallengesBound DEF StepUpInv
  <1>5. /\ id \in Requests /\ Done(id, "challenge") /\ Binding(id) = Binding(r)
        /\ \A g \in Requests : Done(g, "verify") => requests[g].ask.challenge # id
    BY <1>4 DEF StepUpInv, ChallengesOpen
  <1>6. /\ Done(r, "verify")' /\ ~Done(r, "verify")
        /\ \A q \in Requests \ {r} : Done(q, "verify")' => Done(q, "verify")
        /\ \A q \in Requests : Done(q, "preview")' => Done(q, "preview")
    BY <1>1, <1>3 DEF Done, At, Kind
  <1>7. \A p \in Requests : Done(p, "preview") => requests[p].ask.grant # r
    BY <1>6 DEF StepUpInv, PreviewedOnce
  <1> HIDE DEF id
  <1>8. requests'[r].ask.challenge = id /\ requests'[r].ask.right
    BY <1>2, <1>3 DEF id
  <1>9. ChallengesOpen'
    <2> SUFFICES ASSUME NEW c \in DOMAIN challenges'
                 PROVE  /\ c \in Requests /\ Done(c, "challenge")'
                        /\ "binding" \in DOMAIN challenges'[c]
                        /\ challenges'[c].binding = Binding(c)'
                        /\ \A g \in Requests :
                             Done(g, "verify")' => requests'[g].ask.challenge # c
      BY DEF ChallengesOpen
    <2>1. /\ c \in DOMAIN challenges /\ "binding" \in DOMAIN challenges'[c]
          /\ challenges'[c].binding = challenges[c].binding /\ c # id
      BY <1>4 DEF ChallengesShrink
    <2>2. /\ c \in Requests /\ Done(c, "challenge") /\ challenges[c].binding = Binding(c)
          /\ \A g \in Requests : Done(g, "verify") => requests[g].ask.challenge # c
      BY <2>1 DEF StepUpInv, ChallengesOpen
    <2>3. QED
      BY <2>1, <2>2, <1>3, <1>6, <1>8, DoneStays
  <1>10. GrantsOpen'
    <2> SUFFICES ASSUME NEW g \in DOMAIN grants'
                 PROVE  /\ g \in Requests /\ Done(g, "verify")' /\ grants'[g] = Binding(g)'
                        /\ \A p \in Requests :
                             Done(p, "preview")' => requests'[p].ask.grant # g
      BY DEF GrantsOpen
    <2>1. CASE g = r
      BY <2>1, <1>3, <1>4, <1>6, <1>7, DoneStays
    <2>2. CASE g # r
      <3>1. g \in DOMAIN grants /\ grants'[g] = grants[g]
        BY <2>2, <1>4
      <3>2. /\ g \in Requests /\ Done(g, "verify") /\ grants[g] = Binding(g)
            /\ \A p \in Requests : Done(p, "preview") => requests[p].ask.grant # g
        BY <3>1 DEF StepUpInv, GrantsOpen
      <3>3. QED
        BY <3>1, <3>2, <1>3, <1>6, DoneStays
    <2>3. QED
      BY <2>1, <2>2
  <1>11. VerifiedOnce'
    <2>1. ASSUME NEW g \in Requests, Done(g, "verify")'
          PROVE  /\ requests'[g].ask.right
                 /\ \E c \in Requests : /\ c = requests'[g].ask.challenge
                                        /\ Done(c, "challenge")'
                                        /\ Binding(g)' = Binding(c)'
      <3>1. CASE g = r
        BY <3>1, <1>3, <1>5, <1>8, DoneStays
      <3>2. CASE g # r
        <4>1. Done(g, "verify") /\ requests'[g] = requests[g] /\ Binding(g)' = Binding(g)
          BY <3>2, <2>1, <1>3, <1>6, DoneStays
        <4>2. PICK c \in Requests : /\ c = requests[g].ask.challenge /\ requests[g].ask.right
                                    /\ Done(c, "challenge") /\ Binding(g) = Binding(c)
          BY <4>1 DEF StepUpInv, VerifiedOnce
        <4>3. Done(c, "challenge")' /\ Binding(c)' = Binding(c)
          BY <4>2, <1>3, DoneStays
        <4>4. QED
          BY <4>1, <4>2, <4>3
      <3>3. QED
        BY <3>1, <3>2
    <2>2. ASSUME NEW g \in Requests, NEW h \in Requests, Done(g, "verify")', Done(h, "verify")',
                 requests'[g].ask.challenge = requests'[h].ask.challenge
          PROVE  g = h
      <3>1. ASSUME NEW k \in Requests, k # r, Done(k, "verify")'
            PROVE  /\ Done(k, "verify") /\ requests'[k] = requests[k]
                   /\ requests'[k].ask.challenge # id
        BY <3>1, <1>3, <1>5, <1>6
      <3>2. QED
        BY <2>2, <3>1, <1>8 DEF StepUpInv, VerifiedOnce
    <2>3. QED
      BY <2>1, <2>2 DEF VerifiedOnce
  <1>12. PreviewedOnce'
    BY <1>3, <1>6, DoneStays DEF StepUpInv, PreviewedOnce
  <1>13. QED
    BY <1>4, <1>9, <1>10, <1>11, <1>12 DEF StepUpInv

(* A preview that is verified: the grant it consumes was open.             *)
LEMMA GrantPreviews ==
  ASSUME StepUpInv, RequestsTyped', NEW r \in Requests, Previews(r)
  PROVE  StepUpInv'
  <1> DEFINE g == requests[r].ask.grant
  <1>1. /\ requests[r] # None /\ requests[r].step = "read" /\ Kind(r) = "preview"
        /\ Consume(g, Binding(r))
        /\ Moves(r, IF Accepts(g, Binding(r)) THEN "done" ELSE "refused")
    BY DEF Previews, Ends, Moves, At
  <1>2. /\ \A q \in Requests : Follows(q)
        /\ \A q \in Requests \ {r} : requests'[q] = requests[q]
        /\ requests'[r] # None
        /\ requests'[r].ask = requests[r].ask /\ Binding(r)' = Binding(r)
        /\ requests'[r].step = "done" => Accepts(g, Binding(r))
    BY <1>1, MovingFollows DEF StepUpInv
  <1>3. IndexedStores' /\ ChallengesShrink /\ GrantsShrink /\ g \notin DOMAIN grants'
    BY <1>1, ConsumingSpends, OpenChallengesBound DEF StepUpInv
  <1>4. /\ \A q \in Requests : Done(q, "verify")' => Done(q, "verify")
        /\ \A q \in Requests \ {r} : Done(q, "preview")' => Done(q, "preview")
    BY <1>1, <1>2 DEF Done, At, Kind
  <1>5. CASE ~Done(r, "preview")'
    BY <1>2, <1>3, <1>4, <1>5, StepUpUndisturbed
  <1>6. CASE Done(r, "preview")'
    <2>1. g \in DOMAIN grants /\ grants[g] = Binding(r)
      BY <1>2, <1>6 DEF Done, At, Accepts
    <2>2. /\ g \in Requests /\ Done(g, "verify") /\ Binding(g) = Binding(r)
          /\ \A p \in Requests : Done(p, "preview") => requests[p].ask.grant # g
      BY <2>1 DEF StepUpInv, GrantsOpen
    <2> HIDE DEF g
    <2>3. requests'[r].ask.grant = g
      BY <1>2 DEF g
    <2>4. ChallengesOpen'
      <3> SUFFICES ASSUME NEW id \in DOMAIN challenges'
                   PROVE  /\ id \in Requests /\ Done(id, "challenge")'
                          /\ "binding" \in DOMAIN challenges'[id]
                          /\ challenges'[id].binding = Binding(id)'
                          /\ \A h \in Requests :
                               Done(h, "verify")' => requests'[h].ask.challenge # id
        BY DEF ChallengesOpen
      <3>1. /\ id \in DOMAIN challenges /\ "binding" \in DOMAIN challenges'[id]
            /\ challenges'[id].binding = challenges[id].binding
        BY <1>3 DEF ChallengesShrink
      <3>2. /\ id \in Requests /\ Done(id, "challenge") /\ challenges[id].binding = Binding(id)
            /\ \A h \in Requests : Done(h, "verify") => requests[h].ask.challenge # id
        BY <3>1 DEF StepUpInv, ChallengesOpen
      <3>3. QED
        BY <3>1, <3>2, <1>2, <1>4, DoneStays
    <2>5. GrantsOpen'
      <3> SUFFICES ASSUME NEW h \in DOMAIN grants'
                   PROVE  /\ h \in Requests /\ Done(h, "verify")' /\ grants'[h] = Binding(h)'
                          /\ \A p \in Requests :
                               Done(p, "preview")' => requests'[p].ask.grant # h
        BY DEF GrantsOpen
      <3>1. h \in DOMAIN grants /\ grants'[h] = grants[h] /\ h # g
        BY <1>3 DEF GrantsShrink
      <3>2. /\ h \in Requests /\ Done(h, "verify") /\ grants[h] = Binding(h)
            /\ \A p \in Requests : Done(p, "preview") => requests[p].ask.grant # h
        BY <3>1 DEF StepUpInv, GrantsOpen
      <3>3. QED
        BY <3>1, <3>2, <2>3, <1>2, <1>4, DoneStays
    <2>6. VerifiedOnce'
      BY <1>2, <1>4, DoneStays DEF StepUpInv, VerifiedOnce
    <2>7. PreviewedOnce'
      <3>1. ASSUME NEW p \in Requests, Done(p, "preview")'
            PROVE  \E h \in Requests : /\ h = requests'[p].ask.grant
                                       /\ Done(h, "verify")'
                                       /\ Binding(p)' = Binding(h)'
        <4>1. CASE p = r
          BY <4>1, <2>2, <2>3, <1>2, DoneStays
        <4>2. CASE p # r
          <5>1. Done(p, "preview") /\ requests'[p] = requests[p] /\ Binding(p)' = Binding(p)
            BY <4>2, <3>1, <1>2, <1>4, DoneStays
          <5>2. PICK h \in Requests : /\ h = requests[p].ask.grant
                                      /\ Done(h, "verify") /\ Binding(p) = Binding(h)
            BY <5>1 DEF StepUpInv, PreviewedOnce
          <5>3. Done(h, "verify")' /\ Binding(h)' = Binding(h)
            BY <5>2, <1>2, DoneStays
          <5>4. QED
            BY <5>1, <5>2, <5>3
        <4>3. QED
          BY <4>1, <4>2
      <3>2. ASSUME NEW p \in Requests, NEW q \in Requests,
                   Done(p, "preview")', Done(q, "preview")',
                   requests'[p].ask.grant = requests'[q].ask.grant
            PROVE  p = q
        <4>1. ASSUME NEW k \in Requests, k # r, Done(k, "preview")'
              PROVE  /\ Done(k, "preview") /\ requests'[k] = requests[k]
                     /\ requests'[k].ask.grant # g
          BY <4>1, <2>2, <1>2, <1>4
        <4>2. QED
          BY <3>2, <4>1, <2>3 DEF StepUpInv, PreviewedOnce
      <3>3. QED
        BY <3>1, <3>2 DEF PreviewedOnce
    <2>8. QED
      BY <1>3, <2>4, <2>5, <2>6, <2>7 DEF StepUpInv
  <1>7. QED
    BY <1>5, <1>6

(* A step that leaves step-up alone and moves one request, if any.         *)
LEMMA OthersLeaveStepUp ==
  ASSUME StepUpInv, RequestsTyped', UNCHANGED stepUpVars,
         \A q \in Requests : Follows(q),
         \A q \in Requests : requests'[q] # None /\ requests'[q].step = "done" =>
           requests'[q] = requests[q] \/ requests'[q].ask.kind = "view"
  PROVE  StepUpInv'
  <1>1. IndexedStores' /\ ChallengesShrink /\ GrantsShrink
    BY OpenChallengesBound DEF StepUpInv, stepUpVars, IndexedStores, Indexes,
       ChallengesShrink, GrantsShrink, ChallengesBound
  <1>2. /\ \A q \in Requests : Done(q, "verify")' => Done(q, "verify")
        /\ \A q \in Requests : Done(q, "preview")' => Done(q, "preview")
    BY DEF Done, At, Kind
  <1>3. QED
    BY <1>1, <1>2, StepUpUndisturbed

LEMMA StepUpKept ==
  ASSUME ViewsInv, StepUpInv, RequestsTyped', [ConsoleNext]_consoleVars
  PROVE  StepUpInv'
  <1>1. RequestsTyped /\ IndexedStores /\ ChallengesBound
    BY OpenChallengesBound DEF StepUpInv
  <1>2. CASE UNCHANGED <<stepUpVars, requests>>
    BY <1>2, OthersLeaveStepUp DEF Follows
  <1>3. ASSUME NEW r \in Requests, NEW s \in Sessions, NEW ask \in Asks, Arrives(r, s, ask)
        PROVE  StepUpInv'
    <2>1. UNCHANGED stepUpVars
      BY <1>3 DEF Arrives
    <2>2. \A q \in Requests : Follows(q)
      BY <1>1, <1>3, ArrivalShape DEF Follows
    <2>3. QED
      BY <1>1, <1>3, <2>1, <2>2, ArrivalShape, OthersLeaveStepUp
  <1>4. ASSUME NEW r \in Requests, ReadsChain(r) \/ BeginsAppend(r)
        PROVE  StepUpInv'
    <2>1. UNCHANGED stepUpVars
      BY <1>4 DEF ReadsChain, BeginsAppend
    <2>2. /\ \A q \in Requests \ {r} : requests'[q] = requests[q]
          /\ Follows(r) /\ requests'[r].step # "done"
      BY <1>1, <1>4, ReadShape DEF Follows, Ended
    <2>3. \A q \in Requests : Follows(q)
      BY <2>2 DEF Follows
    <2>4. QED
      BY <2>1, <2>2, <2>3, OthersLeaveStepUp
  <1>5. ASSUME NEW r \in Requests, Appends(r) \/ AppendsUnanswered(r) \/ AppendFails(r)
        PROVE  StepUpInv'
    <2>1. /\ UNCHANGED stepUpVars /\ requests[r].step = "appending"
          /\ Moves(r, "done") \/ Moves(r, "refused")
          /\ Kind(r) = "view"
      BY <1>5 DEF Appends, AppendsUnanswered, AppendFails, Ends, Moves, At, ViewsInv
    <2>2. /\ \A q \in Requests : Follows(q)
          /\ \A q \in Requests \ {r} : requests'[q] = requests[q]
          /\ requests'[r].ask = requests[r].ask
      BY <1>1, <2>1, MovingFollows
    <2>3. QED
      BY <2>1, <2>2, OthersLeaveStepUp DEF Kind
  <1>6. ASSUME NEW r \in Requests, Verifies(r), requests'[r].step # "done"
        PROVE  StepUpInv'
    <2>1. /\ requests[r].step = "read"
          /\ Moves(r, "refused") \/ Moves(r, "wrong") \/ Moves(r, "done")
          /\ \/ VerifyRefused(requests[r].ask.challenge, Binding(r))
             \/ WrongCode(requests[r].ask.challenge, Binding(r))
             \/ Moves(r, "done")
      BY <1>6 DEF Verifies, Ends, Moves, At
    <2>2. /\ \A q \in Requests : Follows(q)
          /\ \A q \in Requests \ {r} : requests'[q] = requests[q]
          /\ Moves(r, "done") => requests'[r].step = "done"
      BY <1>1, <2>1, MovingFollows
    <2>3. IndexedStores' /\ ChallengesShrink /\ GrantsShrink
      BY <1>1, <1>6, <2>1, <2>2, RefusalShrinks, WrongCodeShrinks
    <2>4. /\ \A q \in Requests : Done(q, "verify")' => Done(q, "verify")
          /\ \A q \in Requests : Done(q, "preview")' => Done(q, "preview")
      BY <1>6, <2>2 DEF Done, At, Kind
    <2>5. QED
      BY <2>2, <2>3, <2>4, StepUpUndisturbed
  <1>7. CASE Restart
    <2>1. /\ challenges' = << >> /\ challengeByBinding' = << >>
          /\ grants' = << >> /\ grantByBinding' = << >>
      BY <1>7 DEF Restart
    <2>2. IndexedStores' /\ ChallengesShrink /\ GrantsShrink
      BY <2>1 DEF IndexedStores, ChallengesShrink, GrantsShrink
    <2>3. \A q \in Requests : Follows(q)
      BY <1>1, <1>7, RestartShape
    <2>4. /\ \A q \in Requests : Done(q, "verify")' => Done(q, "verify")
          /\ \A q \in Requests : Done(q, "preview")' => Done(q, "preview")
      BY <1>1, <1>7, RestartShape DEF Done, At, Kind, Ended, Follows
    <2>5. QED
      BY <2>2, <2>3, <2>4, StepUpUndisturbed
  <1>8. ASSUME NEW r \in Requests, Expires(r)
        PROVE  StepUpInv'
    <2>1. requests' = requests
      BY <1>8 DEF Expires
    <2>2. IndexedStores' /\ ChallengesShrink /\ GrantsShrink
      BY <1>1, <1>8, ExpiryShrinks DEF Expires
    <2>3. QED
      BY <2>1, <2>2, StepUpUndisturbed DEF Follows, Done, At, Kind
  <1>9. ASSUME NEW s \in Sessions, Login(s) \/ Logout(s)
        PROVE  StepUpInv'
    BY <1>2, <1>9 DEF Login, Logout
  <1>10. QED
    BY <1>2, <1>3, <1>4, <1>5, <1>6, <1>7, <1>8, <1>9,
       ChallengeBeginsOpen, RightCodeVerifies, GrantPreviews DEF ConsoleNext, consoleVars, stepUpVars

(* A step-up proof is good for one verified preview, of its own session,   *)
(* approval and audit head, after a right code, and a binding has at most  *)
(* one live challenge and one live grant (step-up.ts under the routes of   *)
(* server.ts).                                                             *)
THEOREM ProofsVerifyOnePreview ==
  ASSUME None \notin Request
  PROVE  ConsoleSpec => []ProofsAreSingleUse
  <1> DEFINE Inv == ViewsInv /\ StepUpInv
  <1>1. ConsoleInit => Inv
    <2> SUFFICES ASSUME ConsoleInit PROVE Inv
      OBVIOUS
    <2>1. ViewsInv
      BY DEF ConsoleInit, ViewsInv, RequestsTyped, At
    <2>2. IndexedStores /\ ChallengesOpen /\ GrantsOpen
      BY DEF ConsoleInit, StepUpInit, IndexedStores, ChallengesOpen, GrantsOpen
    <2>3. VerifiedOnce /\ PreviewedOnce
      BY DEF ConsoleInit, VerifiedOnce, PreviewedOnce, Done, At
    <2>4. QED
      BY <2>1, <2>2, <2>3 DEF ViewsInv, StepUpInv
  <1>2. Inv /\ [ConsoleNext]_consoleVars => Inv'
    <2> SUFFICES ASSUME Inv, [ConsoleNext]_consoleVars PROVE Inv'
      OBVIOUS
    <2>1. ViewsInv'
      BY ViewsKept
    <2>2. QED
      BY <2>1, StepUpKept DEF ViewsInv
  <1>3. Inv => ProofsAreSingleUse
    <2> SUFFICES ASSUME StepUpInv PROVE ProofsAreSingleUse
      OBVIOUS
    <2>1. OneLiveProofPerBinding
      BY IndexedIsLive DEF StepUpInv
    <2>2. \A p \in Minted("preview") : p \in Requests /\ Done(p, "preview")
      BY DEF Minted, Done, At, Kind
    <2>3. ASSUME NEW p \in Minted("preview")
          PROVE  /\ requests[requests[p].ask.grant].ask.right
                 /\ Binding(p) = Binding(requests[p].ask.grant)
                 /\ Binding(p) = Binding(ChallengeOf(p))
      BY <2>2 DEF StepUpInv, VerifiedOnce, PreviewedOnce, ChallengeOf
    <2>4. ASSUME NEW p \in Minted("preview"), NEW q \in Minted("preview"),
                 ChallengeOf(p) = ChallengeOf(q)
          PROVE  p = q
      <3>1. requests[p].ask.grant = requests[q].ask.grant
        BY <2>2, <2>4 DEF StepUpInv, VerifiedOnce, PreviewedOnce, ChallengeOf
      <3>2. QED
        BY <2>2, <3>1 DEF StepUpInv, PreviewedOnce
    <2>5. QED
      BY <2>1, <2>3, <2>4 DEF ProofsAreSingleUse
  <1>4. QED
    BY <1>1, <1>2, <1>3, PTL DEF ConsoleSpec

-----------------------------------------------------------------------------
(* The sign-ins of the operators.  A session that has been issued is not   *)
(* issued again, so it is live no more once it is live no more.            *)
Delivered(s) ==
  told[s] # "unminted" /\ \A i \in Stores : Issuing(i) => calls[i].id # s

(* A revocation that found no row will find none that is live.             *)
RevocationsFind ==
  \A i \in Stores : calls[i] # Null /\ calls[i].kind = "revoke" =>
    /\ Delivered(calls[i].id)
    /\ Running(i) /\ seen[i].target = Null => ~IsActive(rows[calls[i].id])

(* The sessions of an operator on the device that signs in.                *)
Beside(c) ==
  {s \in SessionIds : /\ IsActive(rows[s]) /\ rows[s].device = c.device
                      /\ rows[s].subject = c.subject}

(* Under the lock of its subject, an issue that has read the table still   *)
(* finds in it all that it displaces.                                      *)
IssuesDisplace ==
  \A i \in Stores : Issuing(i) =>
    /\ calls[i].device = binding
    /\ Running(i) => /\ seen[i].locked = calls[i].subject
                     /\ binding # Null => Beside(calls[i]) \subseteq seen[i].doomed

OneSessionPerOperator ==
  binding # Null => \A s, t \in SessionIds :
    /\ IsActive(rows[s]) /\ IsActive(rows[t])
    /\ rows[s].device = rows[t].device /\ rows[s].subject = rows[t].subject
    => s = t

OperatorStoreInv ==
  /\ StoreInv /\ binding \in {Device, Null}
  /\ RevocationsFind /\ IssuesDisplace /\ LocksExclude /\ OneSessionPerOperator

(* What every step does to the store, as far as a flow can tell.           *)
StoreMoves ==
  /\ \A s \in SessionIds : told[s] # "unminted" => told'[s] # "unminted"
  /\ \A i \in Stores : Issuing(i)' =>
       \/ Issuing(i) /\ calls'[i] = calls[i]
       \/ told[calls'[i].id] = "unminted"
  /\ \A s \in SessionIds : IsActive(rows'[s]) =>
       rows'[s] = rows[s] \/ \E i \in Stores : Issuing(i) /\ calls[i].id = s

LEMMA DeliveredStays ==
  ASSUME StoreMoves, NEW s \in SessionIds, Delivered(s)
  PROVE  Delivered(s)' /\ (IsActive(rows'[s]) => IsActive(rows[s]))
  BY DEF StoreMoves, Delivered

(* A table that only loses rows.                                           *)
TableShrinks ==
  /\ rows' = [s \in SessionIds |-> rows'[s]]
  /\ \A s \in SessionIds : rows'[s] \in {Null, rows[s]}

LEMMA LookupKeeps ==
  ASSUME OperatorStoreInv, TableShrinks, UNCHANGED <<calls, seen, told, binding>>,
         failure' = failure \/ \E i \in Stores : failure' = [failure EXCEPT ![i] = "none"]
  PROVE  OperatorStoreInv' /\ StoreMoves
  <1>1. MapsTyped' /\ StatementsNeverRaise'
    BY DEF OperatorStoreInv, StoreInv, MapsTyped, StatementsNeverRaise, TableShrinks
  <1>2. RowsTyped' /\ CallsTyped' /\ IssuesFresh' /\ AckedRevocationsHold'
    BY DEF OperatorStoreInv, StoreInv, RowsTyped, CallsTyped, WellFormed, Running,
           IssuesFresh, Issuing, AckedRevocationsHold, IsActive, TableShrinks
  <1>3. \A s \in SessionIds : IsActive(rows'[s]) => rows'[s] = rows[s]
    BY DEF TableShrinks, IsActive
  <1>4. StoreMoves
    BY <1>3 DEF StoreMoves, Issuing
  <1>5. RevocationsFind'
    BY <1>3 DEF OperatorStoreInv, RevocationsFind, Delivered, Issuing, Running, StoreInv,
                CallsTyped, WellFormed
  <1>6. IssuesDisplace'
    <2>1. \A i \in Stores : Beside(calls[i])' \subseteq Beside(calls[i])
      BY <1>3 DEF Beside
    <2>2. QED
      BY <2>1 DEF OperatorStoreInv, IssuesDisplace, Issuing, Running
  <1>7. LocksExclude'
    BY DEF OperatorStoreInv, LocksExclude, Running
  <1>8. OneSessionPerOperator'
    BY <1>3 DEF OperatorStoreInv, OneSessionPerOperator
  <1>9. QED
    BY <1>1, <1>2, <1>4, <1>5, <1>6, <1>7, <1>8 DEF OperatorStoreInv, StoreInv

(* A flow asks for the revocation of a session it was given.               *)
LEMMA RevokeCallKeeps ==
  ASSUME OperatorStoreInv, NEW i \in Stores, NEW s \in SessionIds, NEW now \in Instants,
         Delivered(s), Called(i, [kind |-> "revoke", id |-> s, now |-> now]),
         UNCHANGED <<told, binding>>
  PROVE  OperatorStoreInv' /\ StoreMoves
  <1> DEFINE call == [kind |-> "revoke", id |-> s, now |-> now]
  <1>1. WellFormed(call) /\ call.kind = "revoke" /\ call.id = s
    BY DEF WellFormed
  <1>2. StoreInv'
    <2>1. call.kind # "issue" /\ StoreInv
      BY DEF OperatorStoreInv
    <2>2. QED
      BY <1>1, <2>1, CalledKeeps
  <1>3. /\ \A j \in Stores : calls'[j] = (IF j = i THEN call ELSE calls[j])
        /\ rows' = rows /\ seen' = seen /\ calls[i] = Null
    BY DEF Called, OperatorStoreInv, StoreInv, MapsTyped
  <1> HIDE DEF call
  <1>4. ~Running(i)
    BY <1>3 DEF OperatorStoreInv, StoreInv, CallsTyped
  <1>5. \A j \in Stores : Issuing(j)' => Issuing(j) /\ calls'[j] = calls[j]
    BY <1>1, <1>3 DEF Issuing
  <1>6. StoreMoves
    BY <1>3, <1>5 DEF StoreMoves
  <1>7. \A r \in SessionIds : Delivered(r) => Delivered(r)'
    BY <1>6, DeliveredStays
  <1>8. RevocationsFind'
    BY <1>1, <1>3, <1>4, <1>7
       DEF OperatorStoreInv, RevocationsFind, Running, StoreInv, CallsTyped, WellFormed
  <1>9. IssuesDisplace'
    BY <1>3, <1>5 DEF OperatorStoreInv, IssuesDisplace, Running, Beside
  <1>10. LocksExclude' /\ OneSessionPerOperator'
    BY <1>3 DEF OperatorStoreInv, LocksExclude, OneSessionPerOperator, Running
  <1>11. QED
    BY <1>2, <1>6, <1>8, <1>9, <1>10 DEF OperatorStoreInv

LEMMA IssueCallKeeps ==
  ASSUME OperatorStoreInv, NEW i \in Stores, NEW call, WellFormed(call),
         call.kind = "issue", call.device = binding, told[call.id] = "unminted",
         Called(i, call), told' = [told EXCEPT ![call.id] = "minted"], UNCHANGED binding
  PROVE  OperatorStoreInv' /\ StoreMoves
  <1>1. StoreInv'
    BY MintedKeeps DEF OperatorStoreInv
  <1>2. call.id \in SessionIds
    BY DEF WellFormed
  <1>3. /\ \A j \in Stores : calls'[j] = (IF j = i THEN call ELSE calls[j])
        /\ rows' = rows /\ seen' = seen /\ calls[i] = Null
        /\ \A s \in SessionIds : told'[s] = (IF s = call.id THEN "minted" ELSE told[s])
    BY DEF Called, OperatorStoreInv, StoreInv, MapsTyped
  <1>4. ~Running(i)
    BY <1>3 DEF OperatorStoreInv, StoreInv, CallsTyped
  <1>5. \A j \in Stores : Issuing(j)' => calls'[j] = call \/ (Issuing(j) /\ calls'[j] = calls[j])
    BY <1>3 DEF Issuing
  <1>6. StoreMoves
    BY <1>3, <1>5 DEF StoreMoves
  <1>7. \A r \in SessionIds : Delivered(r) => Delivered(r)'
    BY <1>6, DeliveredStays
  <1>8. RevocationsFind'
    BY <1>3, <1>4, <1>7
       DEF OperatorStoreInv, RevocationsFind, Running, StoreInv, CallsTyped, WellFormed
  <1>9. IssuesDisplace'
    BY <1>3, <1>4, <1>5 DEF OperatorStoreInv, IssuesDisplace, Running, Issuing, Beside
  <1>10. LocksExclude' /\ OneSessionPerOperator'
    BY <1>3 DEF OperatorStoreInv, LocksExclude, OneSessionPerOperator, Running
  <1>11. QED
    BY <1>1, <1>6, <1>8, <1>9, <1>10 DEF OperatorStoreInv

(* A statement reads its snapshot under its lock.                          *)
LEMMA StatementBeginsKeeps ==
  ASSUME OperatorStoreInv, NEW i \in Stores, StatementBegins(i)
  PROVE  OperatorStoreInv' /\ StoreMoves
  <1>1. /\ calls[i] # Null /\ ~Running(i) /\ SubjectFree(i)
        /\ UNCHANGED <<rows, calls, failure, told, binding>>
    BY DEF StatementBegins, Begin, signInVars
  <1>2. PICK read :
          /\ seen' = [seen EXCEPT ![i] = read]
          /\ read.locked = LockedSubject(calls[i])
          /\ Issuing(i) => read.doomed = Displaced(calls[i])
          /\ ~Issuing(i) => read.target = Found(calls[i])
    <2>1. CASE calls[i].kind = "issue"
      <3> DEFINE read == [locked |-> LockedSubject(calls[i]),
                          doomed |-> Displaced(calls[i]), target |-> Null]
      <3>1. seen' = [seen EXCEPT ![i] = read]
        BY <2>1 DEF StatementBegins
      <3>2. read.locked = LockedSubject(calls[i]) /\ read.doomed = Displaced(calls[i])
        OBVIOUS
      <3> HIDE DEF read
      <3>3. QED
        BY <1>1, <2>1, <3>1, <3>2 DEF Issuing
    <2>2. CASE calls[i].kind # "issue"
      <3> DEFINE read == [locked |-> LockedSubject(calls[i]),
                          doomed |-> Doomed(calls[i]), target |-> Found(calls[i])]
      <3>1. seen' = [seen EXCEPT ![i] = read]
        BY <2>2 DEF StatementBegins, Begin
      <3>2. read.locked = LockedSubject(calls[i]) /\ read.target = Found(calls[i])
        OBVIOUS
      <3> HIDE DEF read
      <3>3. QED
        BY <2>2, <3>1, <3>2 DEF Issuing
    <2>3. QED
      BY <2>1, <2>2
  <1>3. \A j \in Stores : seen'[j] = (IF j = i THEN read ELSE seen[j])
    BY <1>2 DEF OperatorStoreInv, StoreInv, MapsTyped
  <1>4. StoreInv'
    <2>1. MapsTyped' /\ StatementsNeverRaise'
      BY <1>1, <1>2 DEF OperatorStoreInv, StoreInv, MapsTyped, StatementsNeverRaise
    <2>2. RowsTyped' /\ IssuesFresh' /\ AckedRevocationsHold'
      BY <1>1 DEF OperatorStoreInv, StoreInv, RowsTyped, IssuesFresh, Issuing,
                  AckedRevocationsHold, IsActive
    <2>3. CallsTyped'
      BY <1>1, <1>3 DEF OperatorStoreInv, StoreInv, CallsTyped, WellFormed, Running
    <2>4. QED
      BY <2>1, <2>2, <2>3 DEF StoreInv
  <1>5. StoreMoves
    BY <1>1 DEF StoreMoves, Issuing
  <1>6. RevocationsFind'
    <2> SUFFICES ASSUME NEW j \in Stores, (calls[j] # Null /\ calls[j].kind = "revoke")'
                 PROVE  /\ Delivered(calls[j].id)'
                        /\ Running(j)' /\ seen'[j].target = Null => ~IsActive(rows'[calls'[j].id])
      BY DEF RevocationsFind
    <2>1. /\ calls[j] # Null /\ calls[j].kind = "revoke" /\ Delivered(calls[j].id)
          /\ Running(j) /\ seen[j].target = Null => ~IsActive(rows[calls[j].id])
      BY <1>1 DEF OperatorStoreInv, RevocationsFind
    <2>2. Delivered(calls[j].id)'
      BY <1>1, <2>1 DEF Delivered, Issuing
    <2>3. j = i => read.target = rows[calls[i].id]
      BY <1>2, <2>1 DEF Issuing, Found
    <2>4. QED
      BY <1>1, <1>3, <2>1, <2>2, <2>3 DEF Running, IsActive
  <1>7. IssuesDisplace'
    <2> SUFFICES ASSUME NEW j \in Stores, Issuing(j)
                 PROVE  /\ calls[j].device = binding
                        /\ seen'[j] # Null =>
                             /\ seen'[j].locked = calls[j].subject
                             /\ binding # Null => Beside(calls[j]) \subseteq seen'[j].doomed
      BY <1>1 DEF IssuesDisplace, Issuing, Running, Beside
    <2>1. calls[j].device = binding
      BY DEF OperatorStoreInv, IssuesDisplace
    <2>2. CASE j # i
      BY <1>3, <2>1, <2>2 DEF OperatorStoreInv, IssuesDisplace, Running
    <2>3. CASE j = i
      <3>1. seen'[i] = read /\ read.doomed = Displaced(calls[i])
        BY <1>2, <1>3, <2>3
      <3>2. LockedSubject(calls[i]) = calls[i].subject
        BY <2>3 DEF LockedSubject, Issuing
      <3>3. binding # Null => Beside(calls[i]) \subseteq Displaced(calls[i])
        BY <2>1, <2>3 DEF Beside, Displaced, OnDevice
      <3>4. QED
        BY <1>2, <2>1, <2>3, <3>1, <3>2, <3>3
    <2>4. QED
      BY <2>2, <2>3
  <1>8. LocksExclude'
    <2> SUFFICES ASSUME NEW j \in Stores, NEW k \in Stores, j # k,
                        seen'[j] # Null, seen'[k] # Null, seen'[j].locked # Null
                 PROVE  seen'[j].locked # seen'[k].locked
      BY DEF LocksExclude, Running
    <2>1. \A l \in Stores \ {i} : Running(l) /\ LockedSubject(calls[i]) # Null =>
            seen[l].locked # LockedSubject(calls[i])
      BY <1>1 DEF SubjectFree
    <2>2. QED
      BY <1>2, <1>3, <2>1 DEF OperatorStoreInv, LocksExclude, Running
  <1>9. OneSessionPerOperator'
    BY <1>1 DEF OperatorStoreInv, OneSessionPerOperator
  <1>10. QED
    BY <1>1, <1>4, <1>5, <1>6, <1>7, <1>8, <1>9 DEF OperatorStoreInv

(* A call that is over, with or without its effects.                       *)
CallOver(i) ==
  /\ \A j \in Stores : j # i => calls'[j] = calls[j] /\ seen'[j] = seen[j]
  /\ calls'[i] = Null /\ seen'[i] = Null

LEMMA OverKeeps ==
  ASSUME OperatorStoreInv, NEW i \in Stores, CallOver(i), StoreInv', UNCHANGED binding,
         \A s \in SessionIds : told[s] # "unminted" => told'[s] # "unminted",
         \A s \in SessionIds : IsActive(rows'[s]) => rows'[s] = rows[s]
  PROVE  OperatorStoreInv' /\ StoreMoves
  <1>1. \A j \in Stores : Issuing(j)' => Issuing(j) /\ calls'[j] = calls[j] /\ j # i
    BY DEF CallOver, Issuing
  <1>2. \A j \in Stores : Running(j)' => Running(j) /\ seen'[j] = seen[j]
    BY DEF CallOver, Running
  <1>3. StoreMoves
    BY <1>1 DEF StoreMoves
  <1>4. \A r \in SessionIds : Delivered(r) => Delivered(r)'
    BY <1>3, DeliveredStays
  <1>5. RevocationsFind'
    <2> SUFFICES ASSUME NEW j \in Stores, calls'[j] # Null, calls'[j].kind = "revoke"
                 PROVE  /\ Delivered(calls[j].id)'
                        /\ Running(j)' /\ seen'[j].target = Null => ~IsActive(rows'[calls'[j].id])
      BY DEF RevocationsFind
    <2>1. calls'[j] = calls[j] /\ seen'[j] = seen[j]
      BY DEF CallOver
    <2>2. calls[j].id \in SessionIds /\ Delivered(calls[j].id)
      BY <2>1 DEF OperatorStoreInv, RevocationsFind, StoreInv, CallsTyped, WellFormed
    <2>3. Delivered(calls[j].id)'
      <3> DEFINE id == calls[j].id
      <3>1. id' = id
        BY <2>1
      <3>2. id \in SessionIds /\ Delivered(id)
        BY <2>2
      <3>3. told'[id] # "unminted" /\ \A k \in Stores : Issuing(k)' => calls'[k].id # id
        BY <1>1, <3>2 DEF Delivered
      <3>4. QED
        BY <3>1, <3>3 DEF Delivered
    <2>4. QED
      BY <2>1, <2>2, <2>3 DEF OperatorStoreInv, RevocationsFind, Running
  <1>6. IssuesDisplace'
    BY <1>1, <1>2 DEF OperatorStoreInv, IssuesDisplace, Beside
  <1>7. LocksExclude'
    BY <1>2 DEF OperatorStoreInv, LocksExclude
  <1>8. OneSessionPerOperator'
    BY DEF OperatorStoreInv, OneSessionPerOperator
  <1>9. QED
    BY <1>3, <1>5, <1>6, <1>7, <1>8 DEF OperatorStoreInv

LEMMA SettledIsOver ==
  ASSUME OperatorStoreInv, NEW i \in Stores, NEW outcome, Settled(i, outcome)
  PROVE  CallOver(i)
  BY DEF OperatorStoreInv, StoreInv, MapsTyped, Settled, CallOver

LEMMA RollBackKeeps ==
  ASSUME OperatorStoreInv, NEW i \in Stores, RollBack(i), UNCHANGED binding
  PROVE  OperatorStoreInv' /\ StoreMoves /\ CallOver(i)
  <1>1. StoreInv'
    BY QuietKeeps DEF OperatorStoreInv
  <1>2. CallOver(i) /\ rows' = rows /\ told' = told
    BY SettledIsOver DEF RollBack
  <1>3. QED
    BY <1>1, <1>2, OverKeeps

(* What a revocation names is not live once it has committed.              *)
LEMMA RevokeEnds ==
  ASSUME OperatorStoreInv, NEW i \in Stores, Running(i), calls[i].kind = "revoke",
         NEW outcome \in {"none", "lost"},
         rows' = Result(i), told' \in {told, Answered(i)}, Settled(i, outcome),
         outcome = "none" => told' = Answered(i), UNCHANGED binding
  PROVE  OperatorStoreInv' /\ StoreMoves /\ CallOver(i) /\ ~IsActive(rows'[calls[i].id])
  <1> DEFINE c == calls[i]
  <1>1. StoreInv /\ WellFormed(c) /\ c # Null /\ c.id \in SessionIds
    BY DEF OperatorStoreInv, StoreInv, CallsTyped, WellFormed
  <1>2. StoreInv'
    BY <1>1, CommitKeeps
  <1>3. CallOver(i)
    BY SettledIsOver
  <1>4. Updates(i) => ~IsActive(UpdatedRow(c, rows[c.id]))
    <2>1. Updates(i) => UpdatedRow(c, rows[c.id]).revoked_at \in Instants
      BY <1>1, UpdatesAllowed
    <2>2. QED
      BY <2>1, ClockAssumption DEF IsActive
  <1>5. \A s \in SessionIds : IsActive(rows'[s]) => rows'[s] = rows[s]
    <2> SUFFICES ASSUME NEW s \in SessionIds, IsActive(Result(i)[s])
                 PROVE  Result(i)[s] = rows[s]
      OBVIOUS
    <2>1. CASE Result(i)[s] \in {Null, rows[s]}
      BY <2>1 DEF IsActive
    <2>2. CASE s = c.id /\ Updates(i) /\ Result(i)[s] = UpdatedRow(c, rows[s])
      BY <1>4, <2>2
    <2>3. QED
      BY <1>1, <2>1, <2>2, ResultOfRow
  <1>6. \A s \in SessionIds : told[s] # "unminted" => told'[s] # "unminted"
    BY <1>1 DEF Answered, StoreInv, MapsTyped
  <1>7. ~IsActive(rows'[c.id])
    <2>1. CASE Updates(i)
      <3>1. Result(i)[c.id] = UpdatedRow(c, rows[c.id])
        BY <1>1, <2>1, ResultOfRow
      <3>2. QED
        BY <1>4, <2>1, <3>1
    <2>2. CASE ~Updates(i)
      <3>1. Result(i) = Evicted(i)
        BY <2>2 DEF Result
      <3>2. rows'[c.id] = IF Expired(Target(i), c.now) THEN Null ELSE rows[c.id]
        BY <1>1, <3>1 DEF Evicted, Without
      <3>3. ~Expired(Target(i), c.now) => ~IsActive(rows[c.id])
        <4>1. CASE seen[i].target = Null
          BY <1>1, <4>1 DEF OperatorStoreInv, RevocationsFind
        <4>2. CASE seen[i].target # Null
          <5>1. Target(i) = rows[c.id]
            BY <4>2 DEF Target
          <5>2. QED
            BY <2>2, <5>1 DEF Updates, IsActive
        <4>3. QED
          BY <4>1, <4>2
      <3>4. QED
        BY <3>2, <3>3 DEF IsActive
    <2>3. QED
      BY <2>1, <2>2
  <1>8. OperatorStoreInv' /\ StoreMoves
    BY <1>2, <1>3, <1>5, <1>6, OverKeeps
  <1>9. QED
    BY <1>3, <1>7, <1>8

(* An issue leaves its session as the one of its operator on the device.   *)
LEMMA IssueEnds ==
  ASSUME OperatorStoreInv, NEW i \in Stores, Running(i), Issuing(i),
         NEW outcome \in {"none", "lost"},
         rows' = SignedIn(i), told' = told, Settled(i, outcome), UNCHANGED binding
  PROVE  OperatorStoreInv' /\ StoreMoves /\ CallOver(i)
  <1> DEFINE c == calls[i]
             row == [IssuedRow(c) EXCEPT !.device = c.device]
  <1>1. /\ StoreInv /\ c.id \in SessionIds /\ c.subject \in Subjects /\ c.now \in Instants
        /\ c.device = binding /\ c.device \in Devices \cup {Null}
    BY SignInAssumption DEF OperatorStoreInv, StoreInv, CallsTyped, WellFormed, IssuesDisplace,
       Issuing
  <1>2. row = [subject |-> c.subject, device |-> c.device, issued_at |-> c.now,
               expires_at |-> c.now + Ttl, revoked_at |-> Null]
    BY DEF IssuedRow
  <1>3. row \in Row
    BY <1>1, <1>2, LivesEnd DEF Row
  <1>4. row.device = c.device /\ row.subject = c.subject
    BY <1>2
  <1>5. \A s \in SessionIds :
          rows'[s] = IF s = c.id THEN row ELSE IF s \in seen[i].doomed THEN Null ELSE rows[s]
    BY <1>1 DEF SignedIn, Without
  <1>6. rows' = [s \in SessionIds |-> rows'[s]]
    BY DEF SignedIn, Without
  <1> HIDE DEF row
  <1>7. CallOver(i)
    BY SettledIsOver
  <1>8. \A j \in Stores : Issuing(j)' => Issuing(j) /\ calls'[j] = calls[j] /\ j # i
    BY <1>7 DEF CallOver, Issuing
  <1>9. \A j \in Stores : Issuing(j) /\ j # i => calls[j].id # c.id /\ calls[j].id \in SessionIds
    BY <1>1 DEF StoreInv, IssuesFresh, CallsTyped, WellFormed, Issuing
  <1>10. StoreInv'
    <2>1. MapsTyped' /\ StatementsNeverRaise'
      BY <1>1, <1>6 DEF Settled, StoreInv, MapsTyped, StatementsNeverRaise
    <2>2. RowsTyped'
      BY <1>1, <1>3, <1>5 DEF StoreInv, RowsTyped
    <2>3. CallsTyped'
      BY <1>1, <1>7 DEF CallOver, StoreInv, CallsTyped, WellFormed, Running
    <2>4. told[c.id] = "minted"
      BY <1>1 DEF StoreInv, IssuesFresh
    <2>5. IssuesFresh'
      BY <1>1, <1>5, <1>8, <1>9, <2>4 DEF StoreInv, IssuesFresh
    <2>6. AckedRevocationsHold'
      BY <1>1, <1>5, <2>4 DEF StoreInv, AckedRevocationsHold, IsActive
    <2>7. QED
      BY <2>1, <2>2, <2>3, <2>5, <2>6 DEF StoreInv
  <1>11. \A s \in SessionIds : IsActive(rows'[s]) =>
           s = c.id \/ (rows'[s] = rows[s] /\ s \notin seen[i].doomed)
    BY <1>5 DEF IsActive
  <1>12. StoreMoves
    BY <1>8, <1>11 DEF StoreMoves
  <1>13. RevocationsFind'
    <2> SUFFICES ASSUME NEW j \in Stores, calls'[j] # Null, calls'[j].kind = "revoke"
                 PROVE  /\ Delivered(calls[j].id)'
                        /\ Running(j)' /\ seen'[j].target = Null => ~IsActive(rows'[calls'[j].id])
      BY DEF RevocationsFind
    <2>1. calls'[j] = calls[j] /\ seen'[j] = seen[j]
      BY <1>7 DEF CallOver
    <2>2. calls[j].id \in SessionIds /\ Delivered(calls[j].id) /\ calls[j].id # c.id
      BY <1>1, <2>1 DEF OperatorStoreInv, RevocationsFind, StoreInv, CallsTyped, WellFormed,
                        Delivered
    <2>3. Delivered(calls[j].id)'
      BY <1>8, <2>1, <2>2 DEF Delivered
    <2>4. QED
      BY <1>11, <2>1, <2>2, <2>3 DEF OperatorStoreInv, RevocationsFind, Running
  <1>14. seen[i].locked = c.subject /\ (binding # Null => Beside(c) \subseteq seen[i].doomed)
    BY DEF OperatorStoreInv, IssuesDisplace
  <1>15. IssuesDisplace'
    <2> SUFFICES ASSUME NEW j \in Stores, Issuing(j), j # i, calls'[j] = calls[j], seen'[j] = seen[j]
                 PROVE  /\ calls[j].device = binding
                        /\ Running(j) => /\ seen[j].locked = calls[j].subject
                                         /\ binding # Null => Beside(calls[j])' \subseteq seen[j].doomed
      BY <1>7, <1>8 DEF IssuesDisplace, CallOver, Running
    <2>1. ASSUME Running(j)
          PROVE  c.subject # calls[j].subject
      BY <1>1, <1>14, <2>1, BoundsAssumption DEF OperatorStoreInv, IssuesDisplace, LocksExclude
    <2>2. ASSUME Running(j)
          PROVE  Beside(calls[j])' \subseteq Beside(calls[j])
      BY <1>4, <1>5, <1>11, <2>1, <2>2 DEF Beside
    <2>3. QED
      BY <2>2 DEF OperatorStoreInv, IssuesDisplace
  <1>16. LocksExclude'
    BY <1>7 DEF CallOver, OperatorStoreInv, LocksExclude, Running
  <1>17. OneSessionPerOperator'
    <2> SUFFICES ASSUME binding # Null, NEW s \in SessionIds, NEW t \in SessionIds,
                        IsActive(rows'[s]), IsActive(rows'[t]),
                        rows'[s].device = rows'[t].device, rows'[s].subject = rows'[t].subject
                 PROVE  s = t
      BY DEF OneSessionPerOperator
    <2>1. ASSUME NEW r \in SessionIds, r # c.id, IsActive(rows'[r]),
                 rows'[r].device = c.device, rows'[r].subject = c.subject
          PROVE  FALSE
      <3>1. r \in Beside(c) /\ r \notin seen[i].doomed
        BY <1>11, <2>1 DEF Beside
      <3>2. QED
        BY <1>14, <3>1
    <2>2. rows'[c.id].device = c.device /\ rows'[c.id].subject = c.subject
      BY <1>1, <1>4, <1>5
    <2>3. QED
      BY <1>11, <2>1, <2>2 DEF OperatorStoreInv, OneSessionPerOperator
  <1>18. QED
    BY <1>1, <1>7, <1>10, <1>12, <1>13, <1>15, <1>16, <1>17 DEF OperatorStoreInv

-----------------------------------------------------------------------------
(* What a request may present: nothing, or a session that was delivered.   *)
Presentable(token) == token # Null => token \in SessionIds /\ Delivered(token)

TokensKnown ==
  /\ browser \in [cookie : SessionIds \cup {Null}, transaction : Flows \cup {Null}]
  /\ Presentable(browser.cookie)
  /\ pending = [f \in Flows |-> pending[f]]
  /\ \A f \in Flows : pending[f] # Null => Presentable(pending[f].previous)

Flow ==
  [kind : {"oidc", "dev", "logout"}, at : Stores, subject : Subjects \cup {Null},
   session : SessionIds \cup {Null},
   step : {"redirected", "authorized", "exchanging", "replacing", "revoking", "issuing",
           "done", "failed"},
   old : Seq(SessionIds), replaced : SUBSET SessionIds]

(* A session still in the way of a sign-in is one it has yet to revoke.    *)
ToRevoke(flow, s) ==
  \/ \E k \in DOMAIN flow.old : flow.old[k] = s
  \/ flow.step = "revoking" /\ calls[flow.at].id = s

Awaits(flow) == flow.step \in {"revoking", "issuing"}

Sound(flow) ==
  /\ flow \in Flow
  /\ flow.kind # "logout" /\ flow.step \in {"authorized", "exchanging", "replacing", "revoking"}
       => flow.subject \in Subjects
  /\ \A k \in DOMAIN flow.old : flow.old[k] \in flow.replaced
  /\ \A s \in flow.replaced : Delivered(s)
  /\ Awaits(flow) => calls[flow.at] # Null
  /\ flow.step = "revoking" => calls[flow.at].kind = "revoke"
  /\ flow.step = "issuing" => /\ calls[flow.at].kind = "issue"
                              /\ calls[flow.at].id = flow.session
  /\ flow.step # "failed" =>
       \A s \in flow.replaced : IsActive(rows[s]) => ToRevoke(flow, s)
  /\ flow.step \in {"issuing", "done"} => flow.old = << >>

FlowsSound ==
  /\ flows = [f \in Flows |-> flows[f]]
  /\ \A f \in Flows : flows[f] # Null => Sound(flows[f])

WaitingAlone ==
  \A f, g \in Flows :
    /\ flows[f] # Null /\ Awaits(flows[f])
    /\ flows[g] # Null /\ Awaits(flows[g])
    /\ flows[f].at = flows[g].at
    => f = g

SignInInv == OperatorStoreInv /\ TokensKnown /\ FlowsSound /\ WaitingAlone

LEMMA PresentableStays ==
  ASSUME StoreMoves, NEW token, Presentable(token)
  PROVE  Presentable(token)'
  BY DeliveredStays DEF Presentable

LEMMA SoundStays ==
  ASSUME OperatorStoreInv, StoreMoves, NEW flow, Sound(flow),
         Awaits(flow) => calls'[flow.at] = calls[flow.at]
  PROVE  Sound(flow)'
  <1>1. flow.replaced \subseteq SessionIds
    BY DEF Sound, Flow
  <1>2. \A s \in flow.replaced : Delivered(s)' /\ (IsActive(rows'[s]) => IsActive(rows[s]))
    BY <1>1, DeliveredStays DEF Sound
  <1>3. \A s : ToRevoke(flow, s) => ToRevoke(flow, s)'
    BY DEF ToRevoke, Awaits
  <1>4. QED
    BY <1>2, <1>3 DEF Sound, Awaits

(* A step of one flow, which may begin to wait for its store if that was   *)
(* idle.                                                                   *)
LEMMA FlowMoves ==
  ASSUME SignInInv, NEW f \in Flows, NEW flow, flows' = [flows EXCEPT ![f] = flow],
         OperatorStoreInv', StoreMoves, TokensKnown', Sound(flow)',
         Awaits(flow) => calls[flow.at] = Null,
         \A g \in Flows \ {f} : flows[g] # Null /\ Awaits(flows[g])
           => calls'[flows[g].at] = calls[flows[g].at]
  PROVE  SignInInv'
  <1>1. \A g \in Flows : flows'[g] = IF g = f THEN flow ELSE flows[g]
    BY DEF SignInInv, FlowsSound
  <1>2. FlowsSound'
    <2> SUFFICES ASSUME NEW g \in Flows, flows'[g] # Null
                 PROVE  Sound(flows[g])'
      BY DEF SignInInv, FlowsSound
    <2>1. CASE g = f
      BY <1>1, <2>1 DEF Sound, Delivered, Issuing, IsActive, ToRevoke, Awaits
    <2>2. CASE g # f
      <3>1. PICK other : other = flows[g]
        OBVIOUS
      <3>2. Sound(other)
        BY <1>1, <2>2, <3>1 DEF SignInInv, FlowsSound
      <3>3. Sound(other)'
        BY <1>1, <2>2, <3>1, <3>2, SoundStays DEF SignInInv
      <3>4. flows'[g] = other
        BY <1>1, <2>2, <3>1
      <3>5. QED
        BY <3>3, <3>4 DEF Sound, Delivered, Issuing, IsActive, ToRevoke, Awaits
    <2>3. QED
      BY <2>1, <2>2
  <1>3. WaitingAlone'
    <2>1. \A g \in Flows : flows[g] # Null /\ Awaits(flows[g]) => calls[flows[g].at] # Null
      BY DEF SignInInv, FlowsSound, Sound
    <2>2. QED
      BY <1>1, <2>1 DEF SignInInv, WaitingAlone, Awaits
  <1>4. QED
    BY <1>2, <1>3 DEF SignInInv

LEMMA StoreIdle ==
  ASSUME OperatorStoreInv, UNCHANGED vars, UNCHANGED binding
  PROVE  OperatorStoreInv' /\ StoreMoves
  <1>1. TableShrinks
    BY DEF vars, OperatorStoreInv, StoreInv, MapsTyped, TableShrinks
  <1>2. QED
    BY <1>1, LookupKeeps DEF vars

LEMMA ReadsKeep ==
  ASSUME OperatorStoreInv, NEW token, NEW now, Reads(token, now),
         UNCHANGED <<calls, seen, failure, told, binding>>
  PROVE  /\ OperatorStoreInv' /\ StoreMoves
         /\ token \in SessionIds /\ ~Resolves(token, now) => ~IsActive(rows'[token])
  <1>1. TableShrinks
    BY DEF Reads, Without, OperatorStoreInv, StoreInv, MapsTyped, TableShrinks
  <1>2. token \in SessionIds /\ ~Resolves(token, now) => ~IsActive(rows'[token])
    BY SignInAssumption DEF Reads, Resolves, Without, IsActive
  <1>3. QED
    BY <1>1, <1>2, LookupKeeps

LEMMA TokensStay ==
  ASSUME TokensKnown, StoreMoves, browser' = browser, pending' = pending
  PROVE  TokensKnown'
  <1>1. PICK cookie : cookie = browser.cookie
    OBVIOUS
  <1>2. Presentable(cookie)'
    BY <1>1, PresentableStays DEF TokensKnown
  <1>3. Presentable(browser.cookie)'
    BY <1>1, <1>2 DEF Presentable, Delivered, Issuing
  <1>4. ASSUME NEW f \in Flows, pending'[f] # Null
        PROVE  Presentable(pending[f].previous)'
    <2>1. PICK previous : previous = pending[f].previous
      OBVIOUS
    <2>2. Presentable(previous)'
      BY <1>4, <2>1, PresentableStays DEF TokensKnown
    <2>3. QED
      BY <2>1, <2>2 DEF Presentable, Delivered, Issuing
  <1>5. QED
    BY <1>3, <1>4 DEF TokensKnown

(* The tokens after a step that leaves each cookie and pending login, or   *)
(* drops it, or writes a token that could be presented.                    *)
LEMMA TokensMove ==
  ASSUME TokensKnown, StoreMoves,
         NEW token, Presentable(token)',
         NEW cookie, cookie \in {browser.cookie, token, Null},
         NEW transaction \in Flows \cup {Null},
         browser' = [cookie |-> cookie, transaction |-> transaction],
         pending' = [f \in Flows |-> pending'[f]],
         \A f \in Flows : \/ pending'[f] \in {Null, pending[f]}
                          \/ pending'[f].previous \in {token, Null}
  PROVE  TokensKnown'
  <1>1. \A old : Presentable(old) => Presentable(old)'
    BY PresentableStays
  <1>2. Presentable(Null)
    BY DEF Presentable
  <1>3. PICK held : held = browser.cookie
    OBVIOUS
  <1>4. Presentable(held) /\ cookie \in {held, token, Null}
    BY <1>3 DEF TokensKnown
  <1>5. Presentable(cookie)'
    BY <1>1, <1>2, <1>4
  <1>6. browser' \in [cookie : SessionIds \cup {Null}, transaction : Flows \cup {Null}]
    BY <1>5 DEF Presentable
  <1>7. browser'.cookie = cookie
    OBVIOUS
  <1>8. Presentable(browser.cookie)'
    BY <1>5, <1>7 DEF Presentable, Delivered, Issuing
  <1>9. ASSUME NEW f \in Flows, pending'[f] # Null
        PROVE  Presentable(pending[f].previous)'
    <2>1. PICK previous : previous = pending'[f].previous
      OBVIOUS
    <2>2. PICK before : before = pending[f]
      OBVIOUS
    <2>3. pending[f] # Null => Presentable(before.previous)
      BY <2>2 DEF TokensKnown
    <2>4. Presentable(previous)'
      <3>1. CASE pending'[f] = pending[f]
        <4>1. previous = before.previous /\ Presentable(before.previous)
          BY <1>9, <2>1, <2>2, <2>3, <3>1
        <4>2. QED
          BY <1>1, <4>1
      <3>2. CASE previous \in {token, Null}
        BY <1>1, <1>2, <3>2
      <3>3. QED
        BY <1>9, <2>1, <3>1, <3>2
    <2>5. QED
      BY <2>1, <2>4 DEF Presentable, Delivered, Issuing
  <1>10. QED
    BY <1>6, <1>8, <1>9 DEF TokensKnown

LEMMA SignInFailsKeeps ==
  ASSUME SignInInv, NEW f \in Flows, flows[f] # Null, SignInFails(f), UNCHANGED pending,
         OperatorStoreInv', StoreMoves,
         \A g \in Flows \ {f} : flows[g] # Null /\ Awaits(flows[g])
           => calls'[flows[g].at] = calls[flows[g].at]
  PROVE  SignInInv'
  <1>1. PICK flow : flow = flows[f]
    OBVIOUS
  <1>2. Sound(flow)
    BY <1>1 DEF SignInInv, FlowsSound
  <1> DEFINE failed == [flow EXCEPT !.step = "failed"]
  <1>3. /\ failed \in Flow /\ failed.step = "failed" /\ failed.old = flow.old
        /\ failed.replaced = flow.replaced
    BY <1>2 DEF Sound, Flow
  <1>4. flows' = [flows EXCEPT ![f] = failed]
    BY <1>1 DEF SignInFails
  <1> HIDE DEF failed
  <1>5. Sound(failed)'
    <2>1. \A s \in flow.replaced : Delivered(s)'
      BY <1>2, DeliveredStays DEF Sound, Flow
    <2>2. QED
      BY <1>2, <1>3, <2>1 DEF Sound, Awaits
  <1>6. TokensKnown'
    <2>1. PICK transaction \in Flows \cup {Null} :
            browser' = [cookie |-> browser.cookie, transaction |-> transaction]
      BY DEF SignInFails, SignInInv, TokensKnown
    <2>2. pending' = [g \in Flows |-> pending'[g]]
      BY DEF SignInInv, TokensKnown
    <2>3. PICK cookie : cookie = browser.cookie
      OBVIOUS
    <2>4. browser' = [cookie |-> cookie, transaction |-> transaction]
      BY <2>1, <2>3
    <2>5. Presentable(Null)'
      BY DEF Presentable
    <2>6. QED
      BY <2>2, <2>3, <2>4, <2>5, TokensMove DEF SignInInv
  <1>7. ~Awaits(failed)
    BY <1>3 DEF Awaits
  <1>8. QED
    BY <1>4, <1>5, <1>6, <1>7, FlowMoves

LEMMA NamedTokens ==
  ASSUME NEW token, Presentable(token)
  PROVE  /\ Named(token) \in Seq(SessionIds)
         /\ \A k \in DOMAIN Named(token) : Named(token)[k] = token /\ token # Null
         /\ token # Null => DOMAIN Named(token) = {1} /\ Named(token)[1] = token
  BY DEF Named, Presentable

(* The record of a sign-in that begins.                                    *)
LEMMA BegunShape ==
  ASSUME SignInInv, NEW f \in Flows, NEW kind \in {"oidc", "dev", "logout"},
         NEW i \in Stores, NEW old \in Seq(SessionIds), NEW subject \in Subjects \cup {Null},
         NEW step \in {"redirected", "replacing"}, Begun(f, kind, i, old, subject, step),
         step = "replacing" /\ kind # "logout" => subject \in Subjects,
         step = "redirected" => old = << >>,
         StoreMoves, \A k \in DOMAIN old : Delivered(old[k]),
         OperatorStoreInv', TokensKnown', UNCHANGED calls
  PROVE  SignInInv'
  <1> DEFINE flow == [kind |-> kind, at |-> i, subject |-> subject, session |-> Null,
                      step |-> step, old |-> old, replaced |-> {old[k] : k \in DOMAIN old}]
  <1>1. \A k \in DOMAIN old : old[k] \in SessionIds
    OBVIOUS
  <1>2. flow \in Flow
    <2>1. {old[k] : k \in DOMAIN old} \in SUBSET SessionIds
      BY <1>1
    <2>2. QED
      BY <2>1 DEF Flow
  <1>3. flows' = [flows EXCEPT ![f] = flow]
    BY DEF Begun
  <1>4. /\ flow.kind = kind /\ flow.at = i /\ flow.subject = subject /\ flow.step = step
        /\ flow.old = old /\ flow.replaced = {old[k] : k \in DOMAIN old}
    OBVIOUS
  <1> HIDE DEF flow
  <1>5. Sound(flow)'
    <2>1. \A s \in flow.replaced : Delivered(s)' /\ s \in SessionIds
      BY <1>1, <1>4, DeliveredStays
    <2>2. \A s \in flow.replaced : ToRevoke(flow, s)'
      BY <1>4 DEF ToRevoke
    <2>3. QED
      BY <1>2, <1>4, <2>1, <2>2 DEF Sound, Awaits
  <1>6. ~Awaits(flow)
    BY <1>4 DEF Awaits
  <1>7. QED
    BY <1>3, <1>5, <1>6, FlowMoves

LEMMA LoginStartsKeeps ==
  ASSUME SignInInv, NEW f \in Flows, NEW i \in Stores, NEW now \in Readings,
         LoginStarts(f, i, now)
  PROVE  SignInInv'
  <1>1. PICK token \in {browser.cookie, Null} :
          LET entry == [initiator |-> Initiator(f, i, token, now), previous |-> token]
          IN  /\ Begun(f, "oidc", i, << >>, Null, "redirected")
              /\ Reads(token, now)
              /\ pending' = Retained([pending EXCEPT ![f] = entry], i, entry.initiator)
              /\ browser' = [browser EXCEPT !.transaction = f]
              /\ UNCHANGED <<binding, calls, seen, failure, told>>
    BY DEF LoginStarts
  <1>2. PICK presented, initiator :
          presented = token /\ initiator = Initiator(f, i, token, now)
    OBVIOUS
  <1> DEFINE entry == [initiator |-> initiator, previous |-> presented]
  <1>3. entry.previous = presented /\ pending' = Retained([pending EXCEPT ![f] = entry], i, initiator)
    BY <1>1, <1>2
  <1> HIDE DEF entry
  <1>4. OperatorStoreInv' /\ StoreMoves
    BY <1>1, ReadsKeep DEF SignInInv
  <1>5. Presentable(presented)'
    <2>1. Presentable(presented)
      BY <1>2 DEF SignInInv, TokensKnown, Presentable
    <2>2. QED
      BY <1>4, <2>1, PresentableStays
  <1>6. /\ pending' = [g \in Flows |-> pending'[g]]
        /\ \A g \in Flows : pending'[g] \in {Null, pending[g]} \/ pending'[g] = entry
    <2>1. \A g \in Flows :
            [pending EXCEPT ![f] = entry][g] = IF g = f THEN entry ELSE pending[g]
      BY DEF SignInInv, TokensKnown
    <2>2. QED
      BY <1>3, <2>1 DEF Retained
  <1>7. TokensKnown'
    <2>1. PICK cookie : cookie = browser.cookie
      OBVIOUS
    <2>2. browser' = [cookie |-> cookie, transaction |-> f]
      BY <1>1, <2>1 DEF SignInInv, TokensKnown
    <2>3. \A g \in Flows : pending'[g] \in {Null, pending[g]} \/ pending'[g].previous \in {presented, Null}
      BY <1>3, <1>6
    <2>4. QED
      BY <1>4, <1>5, <1>6, <2>1, <2>2, <2>3, TokensMove DEF SignInInv
  <1>8. Begun(f, "oidc", i, << >>, Null, "redirected") /\ UNCHANGED calls
    BY <1>1
  <1>9. << >> \in Seq(SessionIds) /\ \A k \in DOMAIN << >> : FALSE
    OBVIOUS
  <1>10. QED
    BY <1>4, <1>7, <1>8, <1>9, BegunShape

LEMMA DevLoginKeeps ==
  ASSUME SignInInv, NEW f \in Flows, NEW i \in Stores, NEW subject \in Subjects,
         DevLogin(f, i, subject)
  PROVE  SignInInv'
  <1>1. /\ Begun(f, "dev", i, Named(browser.cookie), subject, "replacing")
        /\ UNCHANGED vars /\ UNCHANGED <<binding, pending, browser>>
    BY DEF DevLogin
  <1>2. OperatorStoreInv' /\ StoreMoves /\ TokensKnown' /\ UNCHANGED calls
    BY <1>1, StoreIdle, TokensStay DEF SignInInv, vars
  <1>3. PICK token, old : token = browser.cookie /\ old = Named(token)
    OBVIOUS
  <1>4. Presentable(token) /\ Begun(f, "dev", i, old, subject, "replacing")
    BY <1>1, <1>3 DEF SignInInv, TokensKnown
  <1>5. old \in Seq(SessionIds) /\ \A k \in DOMAIN old : Delivered(old[k])
    BY <1>3, <1>4, NamedTokens DEF Presentable
  <1>6. QED
    BY <1>2, <1>4, <1>5, BegunShape

LEMMA LogoutStartsKeeps ==
  ASSUME SignInInv, NEW f \in Flows, NEW i \in Stores, NEW now \in Readings,
         LogoutStarts(f, i, now)
  PROVE  SignInInv'
  <1>1. PICK token, old :
          /\ token = browser.cookie
          /\ old = IF CurrentSession(token, now) THEN Named(token) ELSE << >>
    OBVIOUS
  <1>2. /\ Reads(token, now) /\ Begun(f, "logout", i, old, Null, "replacing")
        /\ UNCHANGED <<calls, seen, failure, told, binding, pending, browser>>
    BY <1>1 DEF LogoutStarts
  <1>3. OperatorStoreInv' /\ StoreMoves
    BY <1>2, ReadsKeep DEF SignInInv
  <1>4. TokensKnown'
    BY <1>2, <1>3, TokensStay DEF SignInInv
  <1>5. Presentable(token)
    BY <1>1 DEF SignInInv, TokensKnown
  <1>6. old \in Seq(SessionIds) /\ \A k \in DOMAIN old : Delivered(old[k])
    BY <1>1, <1>5, NamedTokens DEF Presentable
  <1>7. QED
    BY <1>2, <1>3, <1>4, <1>6, BegunShape

(* A step that neither touches the store nor begins to wait for it.        *)
LEMMA IdleMoves ==
  ASSUME SignInInv, NEW f \in Flows, NEW flow, flows' = [flows EXCEPT ![f] = flow],
         UNCHANGED vars, UNCHANGED binding, TokensKnown', Sound(flow)', ~Awaits(flow)
  PROVE  SignInInv'
  <1>1. OperatorStoreInv' /\ StoreMoves /\ calls' = calls
    BY StoreIdle DEF SignInInv, vars
  <1>2. QED
    BY <1>1, FlowMoves

LEMMA AuthorizesKeeps ==
  ASSUME SignInInv, NEW f \in Flows, NEW subject \in Subjects, Authorizes(f, subject)
  PROVE  SignInInv'
  <1>1. PICK flow : flow = flows[f]
    OBVIOUS
  <1>2. Sound(flow) /\ flow.step = "redirected"
    BY <1>1 DEF SignInInv, FlowsSound, Authorizes, FlowAt
  <1> DEFINE new == [flow EXCEPT !.step = "authorized", !.subject = subject]
  <1>3. /\ new \in Flow /\ new.step = "authorized" /\ new.subject = subject
        /\ new.old = flow.old /\ new.replaced = flow.replaced
    BY <1>2 DEF Sound, Flow
  <1>4. flows' = [flows EXCEPT ![f] = new]
    BY <1>1 DEF Authorizes
  <1> HIDE DEF new
  <1>5. UNCHANGED vars /\ UNCHANGED <<binding, pending, browser>>
    BY DEF Authorizes
  <1>6. StoreMoves /\ TokensKnown'
    BY <1>5, StoreIdle, TokensStay DEF SignInInv
  <1>7. Sound(flow)'
    BY <1>2, <1>5, <1>6, SoundStays DEF SignInInv, vars
  <1>8. Sound(new)'
    BY <1>2, <1>3, <1>7 DEF Sound, Awaits, ToRevoke
  <1>9. ~Awaits(new)
    BY <1>3 DEF Awaits
  <1>10. QED
    BY <1>4, <1>5, <1>6, <1>8, <1>9, IdleMoves

(* A callback replaces the session it presents and the one its login was   *)
(* started with.                                                           *)
LEMMA CallbackTakenKeeps ==
  ASSUME SignInInv, NEW f \in Flows, CallbackTaken(f)
  PROVE  SignInInv'
  <1>1. PICK token \in {browser.cookie, Null} :
          flows' = [flows EXCEPT ![f].step = "exchanging", ![f].old = OldSessions(f, token),
                                 ![f].replaced = {token, pending[f].previous} \ {Null}]
    BY DEF CallbackTaken
  <1>2. PICK flow, presented, previous :
          flow = flows[f] /\ presented = token /\ previous = pending[f].previous
    OBVIOUS
  <1>3. Sound(flow) /\ flow.step = "authorized"
    BY <1>2 DEF SignInInv, FlowsSound, CallbackTaken, FlowAt
  <1>4. Presentable(presented) /\ Presentable(previous)
    BY <1>2 DEF SignInInv, TokensKnown, CallbackTaken, Presentable
  <1> DEFINE old == Named(presented) \o Named(previous)
             replaced == {presented, previous} \ {Null}
             new == [flow EXCEPT !.step = "exchanging", !.old = old, !.replaced = replaced]
  <1>5. flows' = [flows EXCEPT ![f] = new]
    BY <1>1, <1>2 DEF OldSessions
  <1>6. replaced \in SUBSET SessionIds /\ \A s \in replaced : Delivered(s)
    BY <1>4 DEF Presentable
  <1>7. /\ old \in Seq(SessionIds) /\ \A k \in DOMAIN old : old[k] \in replaced
        /\ \A s \in replaced : \E k \in DOMAIN old : old[k] = s
    <2>1. CASE presented = Null /\ previous = Null
      BY <2>1 DEF Named
    <2>2. CASE presented = Null /\ previous # Null
      BY <1>4, <2>2 DEF Named, Presentable
    <2>3. CASE presented # Null /\ previous = Null
      BY <1>4, <2>3 DEF Named, Presentable
    <2>4. CASE presented # Null /\ previous # Null
      <3>1. /\ old = <<presented>> \o <<previous>>
            /\ presented \in SessionIds /\ previous \in SessionIds
        BY <1>4, <2>4 DEF Named, Presentable
      <3> HIDE DEF old
      <3>2. old \in Seq(SessionIds) /\ DOMAIN old = 1 .. 2 /\ old[1] = presented /\ old[2] = previous
        <4>1. <<presented>> \in Seq(SessionIds) /\ <<previous>> \in Seq(SessionIds)
          BY <3>1
        <4>2. QED
          BY <3>1, <4>1, ConcatProperties
      <3>3. QED
        BY <2>4, <3>2 DEF replaced
    <2>5. QED
      BY <2>1, <2>2, <2>3, <2>4
  <1> HIDE DEF old, replaced
  <1>8. /\ new \in Flow /\ new.step = "exchanging" /\ new.subject = flow.subject
        /\ new.kind = flow.kind /\ new.old = old /\ new.replaced = replaced
    BY <1>3, <1>6, <1>7 DEF Sound, Flow
  <1> HIDE DEF new
  <1>9. UNCHANGED vars /\ UNCHANGED <<binding, browser>> /\ pending' = [pending EXCEPT ![f] = Null]
    BY DEF CallbackTaken
  <1>10. OperatorStoreInv' /\ StoreMoves
    BY <1>9, StoreIdle DEF SignInInv
  <1>11. TokensKnown'
    <2>1. PICK cookie, transaction :
            /\ cookie = browser.cookie /\ transaction = browser.transaction
            /\ transaction \in Flows \cup {Null}
            /\ browser' = [cookie |-> cookie, transaction |-> transaction]
      BY <1>9 DEF SignInInv, TokensKnown
    <2>2. /\ pending' = [g \in Flows |-> pending'[g]]
          /\ \A g \in Flows : pending'[g] \in {Null, pending[g]}
      BY <1>9 DEF SignInInv, TokensKnown
    <2>3. Presentable(Null)'
      BY DEF Presentable
    <2>4. QED
      BY <1>10, <2>1, <2>2, <2>3, TokensMove DEF SignInInv
  <1>12. Sound(new)'
    <2>1. \A s \in replaced : Delivered(s)'
      BY <1>6, <1>10, DeliveredStays
    <2>2. \A s \in replaced : ToRevoke(new, s)'
      BY <1>7, <1>8 DEF ToRevoke
    <2>3. QED
      BY <1>3, <1>7, <1>8, <2>1, <2>2 DEF Sound, Awaits
  <1>13. ~Awaits(new)
    BY <1>8 DEF Awaits
  <1>14. QED
    BY <1>5, <1>9, <1>11, <1>12, <1>13, IdleMoves

LEMMA CodeExchangedKeeps ==
  ASSUME SignInInv, NEW f \in Flows, CodeExchanged(f)
  PROVE  SignInInv'
  <1>1. UNCHANGED vars /\ UNCHANGED <<binding, pending>> /\ flows[f] # Null
    BY DEF CodeExchanged, FlowAt
  <1>2. OperatorStoreInv' /\ StoreMoves /\ calls' = calls
    BY <1>1, StoreIdle DEF SignInInv, vars
  <1>3. CASE SignInFails(f)
    BY <1>1, <1>2, <1>3, SignInFailsKeeps
  <1>4. CASE flows' = [flows EXCEPT ![f].step = "replacing"] /\ browser' = browser
    <2>1. PICK flow : flow = flows[f]
      OBVIOUS
    <2>2. Sound(flow) /\ flow.step = "exchanging"
      BY <2>1 DEF SignInInv, FlowsSound, CodeExchanged, FlowAt
    <2> DEFINE new == [flow EXCEPT !.step = "replacing"]
    <2>3. /\ new \in Flow /\ new.step = "replacing" /\ new.subject = flow.subject
          /\ new.kind = flow.kind /\ new.old = flow.old /\ new.replaced = flow.replaced
      BY <2>2 DEF Sound, Flow
    <2>4. flows' = [flows EXCEPT ![f] = new]
      BY <1>4, <2>1
    <2> HIDE DEF new
    <2>5. TokensKnown'
      BY <1>1, <1>2, <1>4, TokensStay DEF SignInInv
    <2>6. Sound(flow)'
      BY <1>2, <2>2, SoundStays DEF SignInInv
    <2>7. Sound(new)'
      BY <2>2, <2>3, <2>6 DEF Sound, Awaits, ToRevoke
    <2>8. ~Awaits(new)
      BY <2>3 DEF Awaits
    <2>9. QED
      BY <1>1, <2>4, <2>5, <2>7, <2>8, IdleMoves
  <1>5. QED
    BY <1>3, <1>4 DEF CodeExchanged

(* A logout that has revoked its session answers.                          *)
LEMMA LoggedOutKeeps ==
  ASSUME SignInInv, NEW f \in Flows, LoggedOut(f)
  PROVE  SignInInv'
  <1>1. PICK flow : flow = flows[f]
    OBVIOUS
  <1>2. Sound(flow) /\ flow.step = "replacing" /\ flow.old = << >>
    BY <1>1 DEF SignInInv, FlowsSound, LoggedOut, FlowAt
  <1> DEFINE new == [flow EXCEPT !.step = "done"]
  <1>3. /\ new \in Flow /\ new.step = "done" /\ new.subject = flow.subject
        /\ new.kind = flow.kind /\ new.old = flow.old /\ new.replaced = flow.replaced
    BY <1>2 DEF Sound, Flow
  <1>4. flows' = [flows EXCEPT ![f] = new]
    BY <1>1 DEF LoggedOut
  <1> HIDE DEF new
  <1>5. /\ UNCHANGED vars /\ UNCHANGED <<binding, pending>>
        /\ browser' = [browser EXCEPT !.cookie = Null]
    BY DEF LoggedOut
  <1>6. OperatorStoreInv' /\ StoreMoves /\ calls' = calls
    BY <1>5, StoreIdle DEF SignInInv, vars
  <1>7. TokensKnown'
    <2>1. PICK transaction \in Flows \cup {Null} :
            browser' = [cookie |-> Null, transaction |-> transaction]
      BY <1>5 DEF SignInInv, TokensKnown
    <2>2. pending' = [g \in Flows |-> pending'[g]]
      BY <1>5 DEF SignInInv, TokensKnown
    <2>3. Presentable(Null)'
      BY DEF Presentable
    <2>4. QED
      BY <1>5, <1>6, <2>1, <2>2, <2>3, TokensMove DEF SignInInv
  <1>8. Sound(flow)'
    BY <1>2, <1>6, SoundStays DEF SignInInv
  <1>9. Sound(new)'
    BY <1>2, <1>3, <1>8 DEF Sound, Awaits, ToRevoke
  <1>10. ~Awaits(new)
    BY <1>3 DEF Awaits
  <1>11. QED
    BY <1>4, <1>5, <1>7, <1>9, <1>10, IdleMoves

(* Steps of the issuer, of the memory of an instance or of the browser.    *)
LEMMA TokensDropKeeps ==
  ASSUME SignInInv, NEW f \in Flows,
         CodeExpires(f) \/ PendingExpires(f) \/ CallbackRepeated(f)
  PROVE  SignInInv'
  <1>1. UNCHANGED vars /\ UNCHANGED <<binding, flows>>
    BY DEF CodeExpires, PendingExpires, CallbackRepeated
  <1>2. OperatorStoreInv' /\ StoreMoves
    BY <1>1, StoreIdle DEF SignInInv
  <1>3. PICK cookie, transaction :
          /\ cookie = browser.cookie /\ transaction \in Flows \cup {Null}
          /\ browser' = [cookie |-> cookie, transaction |-> transaction]
    BY DEF CodeExpires, PendingExpires, CallbackRepeated, SignInInv, TokensKnown
  <1>4. /\ pending' = [g \in Flows |-> pending'[g]]
        /\ \A g \in Flows : pending'[g] \in {Null, pending[g]}
    BY DEF CodeExpires, PendingExpires, CallbackRepeated, SignInInv, TokensKnown
  <1>5. Presentable(Null)'
    BY DEF Presentable
  <1>6. TokensKnown'
    BY <1>2, <1>3, <1>4, <1>5, TokensMove DEF SignInInv
  <1>7. FlowsSound' /\ WaitingAlone'
    BY <1>1 DEF SignInInv, FlowsSound, WaitingAlone, Sound, Delivered, Issuing, ToRevoke,
                Awaits, vars
  <1>8. QED
    BY <1>2, <1>6, <1>7 DEF SignInInv

(* While a flow waits for its store the store is busy, and for it alone.   *)
LEMMA IdleStoreServes ==
  ASSUME SignInInv, NEW i \in Stores, calls[i] = Null, NEW call, Called(i, call)
  PROVE  \A g \in Flows : flows[g] # Null /\ Awaits(flows[g])
           => calls'[flows[g].at] = calls[flows[g].at]
  BY DEF SignInInv, OperatorStoreInv, StoreInv, MapsTyped, FlowsSound, Sound, Flow, Called

LEMMA OthersWait ==
  ASSUME SignInInv, NEW f \in Flows, NEW i \in Stores, Waiting(f, i), CallOver(i)
  PROVE  \A g \in Flows \ {f} : flows[g] # Null /\ Awaits(flows[g])
           => calls'[flows[g].at] = calls[flows[g].at]
  <1>1. \A g \in Flows \ {f} : flows[g] # Null /\ Awaits(flows[g])
          => flows[g].at \in Stores /\ flows[g].at # i
    BY DEF SignInInv, FlowsSound, Sound, Flow, WaitingAlone, Waiting, Awaits
  <1>2. QED
    BY <1>1 DEF CallOver

LEMMA ReplacesKeeps ==
  ASSUME SignInInv, NEW f \in Flows, NEW now \in Readings, Replaces(f, now)
  PROVE  SignInInv'
  <1>1. PICK flow : flow = flows[f]
    OBVIOUS
  <1>2. Sound(flow) /\ flow.step = "replacing" /\ flow.old # << >> /\ flows[f] # Null
    BY <1>1 DEF SignInInv, FlowsSound, Replaces, FlowAt
  <1> DEFINE i == flow.at
             old == Head(flow.old)
             rest == Tail(flow.old)
  <1>3. /\ i \in Stores /\ old \in SessionIds /\ old \in flow.replaced /\ Delivered(old)
        /\ rest \in Seq(SessionIds)
        /\ \A k \in DOMAIN rest : rest[k] \in flow.replaced
        /\ \A k \in DOMAIN flow.old :
             flow.old[k] = old \/ \E l \in DOMAIN rest : rest[l] = flow.old[k]
    <2>1. flow.old \in Seq(SessionIds) /\ i \in Stores
      BY <1>2 DEF Sound, Flow
    <2>2. /\ old = flow.old[1] /\ 1 \in DOMAIN flow.old /\ rest \in Seq(SessionIds)
          /\ \A k \in DOMAIN rest : k + 1 \in DOMAIN flow.old /\ rest[k] = flow.old[k + 1]
          /\ \A k \in DOMAIN flow.old : k # 1 => k - 1 \in DOMAIN rest /\ rest[k - 1] = flow.old[k]
      BY <1>2, <2>1
    <2> HIDE DEF old, rest
    <2>3. \A k \in DOMAIN flow.old :
            flow.old[k] \in flow.replaced /\ Delivered(flow.old[k])
      BY <1>2 DEF Sound
    <2>4. old \in flow.replaced /\ Delivered(old) /\ old \in SessionIds
      BY <1>2, <2>2, <2>3 DEF Sound, Flow
    <2>5. \A k \in DOMAIN rest : rest[k] \in flow.replaced
      BY <2>2, <2>3
    <2>6. \A k \in DOMAIN flow.old :
             flow.old[k] = old \/ \E l \in DOMAIN rest : rest[l] = flow.old[k]
      BY <2>2
    <2>7. QED
      BY <2>1, <2>2, <2>4, <2>5, <2>6
  <1>4. UNCHANGED <<binding, pending>>
    BY DEF Replaces
  <1>5. ASSUME Called(i, [kind |-> "revoke", id |-> old, now |-> now]), UNCHANGED <<told, browser>>,
               flows' = [flows EXCEPT ![f].step = "revoking", ![f].old = Tail(@)]
        PROVE  SignInInv'
    <2> DEFINE new == [flow EXCEPT !.step = "revoking", !.old = rest]
               call == [kind |-> "revoke", id |-> old, now |-> now]
    <2>1. /\ new \in Flow /\ new.step = "revoking" /\ new.subject = flow.subject /\ new.at = i
          /\ new.kind = flow.kind /\ new.old = rest /\ new.replaced = flow.replaced
      BY <1>2, <1>3 DEF Sound, Flow
    <2>2. flows' = [flows EXCEPT ![f] = new]
      BY <1>1, <1>5
    <2>3. now \in Instants
      BY SignInAssumption
    <2>4. OperatorStoreInv' /\ StoreMoves
      BY <1>3, <1>4, <1>5, <2>3, RevokeCallKeeps DEF SignInInv
    <2>5. call # Null /\ call.kind = "revoke" /\ call.id = old
      BY <1>3, SignInAssumption
    <2> HIDE DEF new, call
    <2>6. calls'[i] = call /\ calls[i] = Null
      BY <1>3, <1>5 DEF Called, call, SignInInv, OperatorStoreInv, StoreInv, MapsTyped
    <2>7. TokensKnown'
      BY <1>4, <1>5, <2>4, TokensStay DEF SignInInv
    <2>8. Sound(new)'
      <3>1. \A s \in flow.replaced : Delivered(s)' /\ (IsActive(rows'[s]) => IsActive(rows[s]))
        BY <1>2, <2>4, DeliveredStays DEF Sound, Flow
      <3>2. \A s \in flow.replaced : IsActive(rows[s]) => \E k \in DOMAIN flow.old : flow.old[k] = s
        BY <1>2 DEF Sound, ToRevoke
      <3>3. \A s \in flow.replaced : IsActive(rows'[s]) => ToRevoke(new, s)'
        BY <1>3, <2>1, <2>5, <2>6, <3>1, <3>2 DEF ToRevoke
      <3>4. QED
        BY <1>2, <1>3, <2>1, <2>5, <2>6, <3>1, <3>3 DEF Sound, Awaits
    <2>9. \A g \in Flows \ {f} : flows[g] # Null /\ Awaits(flows[g])
            => calls'[flows[g].at] = calls[flows[g].at]
      BY <1>3, <1>5, <2>6, IdleStoreServes
    <2>10. QED
      BY <2>1, <2>2, <2>4, <2>6, <2>7, <2>8, <2>9, FlowMoves
  <1>6. ASSUME ~Resolves(old, now), Reads(old, now), UNCHANGED <<calls, seen, failure, told, browser>>,
               flows' = [flows EXCEPT ![f].old = Tail(@)]
        PROVE  SignInInv'
    <2> DEFINE new == [flow EXCEPT !.old = rest]
    <2>1. /\ new \in Flow /\ new.step = "replacing" /\ new.subject = flow.subject
          /\ new.kind = flow.kind /\ new.old = rest /\ new.replaced = flow.replaced
      BY <1>2, <1>3 DEF Sound, Flow
    <2>2. flows' = [flows EXCEPT ![f] = new]
      BY <1>1, <1>6
    <2> HIDE DEF new
    <2>3. OperatorStoreInv' /\ StoreMoves /\ ~IsActive(rows'[old])
      BY <1>3, <1>4, <1>6, ReadsKeep DEF SignInInv
    <2>4. TokensKnown'
      BY <1>4, <1>6, <2>3, TokensStay DEF SignInInv
    <2>5. Sound(new)'
      <3>1. \A s \in flow.replaced : Delivered(s)' /\ (IsActive(rows'[s]) => IsActive(rows[s]))
        BY <1>2, <2>3, DeliveredStays DEF Sound, Flow
      <3>2. \A s \in flow.replaced : IsActive(rows[s]) => \E k \in DOMAIN flow.old : flow.old[k] = s
        BY <1>2 DEF Sound, ToRevoke
      <3>3. \A s \in flow.replaced : IsActive(rows'[s]) => ToRevoke(new, s)'
        BY <1>3, <2>1, <2>3, <3>1, <3>2 DEF ToRevoke
      <3>4. QED
        BY <1>2, <1>3, <2>1, <3>1, <3>3 DEF Sound, Awaits
    <2>6. ~Awaits(new)
      BY <2>1 DEF Awaits
    <2>7. QED
      BY <1>6, <2>2, <2>3, <2>4, <2>5, <2>6, FlowMoves
  <1>7. ASSUME UNCHANGED vars, SignInFails(f)
        PROVE  SignInInv'
    <2>1. OperatorStoreInv' /\ StoreMoves /\ calls' = calls
      BY <1>4, <1>7, StoreIdle DEF SignInInv, vars
    <2>2. QED
      BY <1>2, <1>4, <1>7, <2>1, SignInFailsKeeps
  <1>8. QED
    BY <1>1, <1>5, <1>6, <1>7 DEF Replaces

LEMMA IssuesKeeps ==
  ASSUME SignInInv, NEW f \in Flows, NEW now \in Readings, Issues(f, now)
  PROVE  SignInInv'
  <1>1. PICK flow : flow = flows[f]
    OBVIOUS
  <1>2. /\ Sound(flow) /\ flow.step = "replacing" /\ flow.old = << >> /\ flows[f] # Null
        /\ flow.kind # "logout"
    BY <1>1 DEF SignInInv, FlowsSound, Issues, FlowAt
  <1> DEFINE i == flow.at
  <1>3. i \in Stores /\ flow.subject \in Subjects
    BY <1>2 DEF Sound, Flow
  <1>4. UNCHANGED <<binding, pending>>
    BY DEF Issues
  <1>5. ASSUME NEW s \in SessionIds, told[s] = "unminted",
               Called(i, [kind |-> "issue", id |-> s, subject |-> flow.subject,
                          device |-> binding, now |-> now]),
               told' = [told EXCEPT ![s] = "minted"], browser' = browser,
               flows' = [flows EXCEPT ![f].step = "issuing", ![f].session = s]
        PROVE  SignInInv'
    <2> DEFINE new == [flow EXCEPT !.step = "issuing", !.session = s]
    <2>1. /\ new \in Flow /\ new.step = "issuing" /\ new.session = s /\ new.at = i
          /\ new.kind = flow.kind /\ new.old = flow.old /\ new.replaced = flow.replaced
      BY <1>2, <1>3 DEF Sound, Flow
    <2>2. flows' = [flows EXCEPT ![f] = new]
      BY <1>1, <1>5
    <2>3. PICK bound : bound = binding
      OBVIOUS
    <2> DEFINE call == [kind |-> "issue", id |-> s, subject |-> flow.subject,
                        device |-> bound, now |-> now]
    <2>4. /\ call # Null /\ call.kind = "issue" /\ call.id = s /\ call.device = binding
          /\ WellFormed(call)
      <3>1. call \in [kind : {"issue"}, id : SessionIds, subject : Subjects,
                      device : {Device, Null}, now : Readings]
        BY <1>3, <1>5, <2>3 DEF SignInInv, OperatorStoreInv
      <3>2. QED
        BY <1>3, <2>3, <3>1, SignInAssumption DEF WellFormed
    <2>5. Called(i, call)
      BY <1>5, <2>3
    <2> HIDE DEF new, call
    <2>6. OperatorStoreInv' /\ StoreMoves
      BY <1>3, <1>4, <1>5, <2>4, <2>5, IssueCallKeeps DEF SignInInv
    <2>7. calls'[i] = call /\ calls[i] = Null
      BY <1>3, <2>5 DEF Called, SignInInv, OperatorStoreInv, StoreInv, MapsTyped
    <2>8. TokensKnown'
      BY <1>4, <1>5, <2>6, TokensStay DEF SignInInv
    <2>9. Sound(new)'
      <3>1. \A r \in flow.replaced : Delivered(r)' /\ (IsActive(rows'[r]) => IsActive(rows[r]))
        BY <1>2, <2>6, DeliveredStays DEF Sound, Flow
      <3>2. \A r \in flow.replaced : ~IsActive(rows[r])
        BY <1>2 DEF Sound, ToRevoke
      <3>3. QED
        BY <1>2, <2>1, <2>4, <2>7, <3>1, <3>2 DEF Sound, Awaits
    <2>10. \A g \in Flows \ {f} : flows[g] # Null /\ Awaits(flows[g])
             => calls'[flows[g].at] = calls[flows[g].at]
      BY <1>3, <2>5, <2>7, IdleStoreServes
    <2>11. QED
      BY <2>1, <2>2, <2>6, <2>7, <2>8, <2>9, <2>10, FlowMoves
  <1>6. ASSUME UNCHANGED vars, SignInFails(f)
        PROVE  SignInInv'
    <2>1. OperatorStoreInv' /\ StoreMoves /\ calls' = calls
      BY <1>4, <1>6, StoreIdle DEF SignInInv, vars
    <2>2. QED
      BY <1>2, <1>4, <1>6, <2>1, SignInFailsKeeps
  <1>7. QED
    BY <1>1, <1>5, <1>6 DEF Issues

(* The answer of a revocation, which leaves nothing live behind, or of the *)
(* issue that ends a sign-in.                                              *)
LEMMA StatementEndsKeeps ==
  ASSUME SignInInv, NEW i \in Stores, StatementEnds(i)
  PROVE  SignInInv'
  <1>1. PICK f \in Flows :
          /\ Waiting(f, i) /\ Running(i)
          /\ \/ FlowAt(f, "revoking") /\ Commit(i)
             \/ /\ FlowAt(f, "issuing")
                /\ rows' = SignedIn(i) /\ Settled(i, "none") /\ UNCHANGED told
          /\ IF FlowAt(f, "revoking") /\ ~Raises(i)
             THEN flows' = [flows EXCEPT ![f].step = "replacing"] /\ UNCHANGED browser
             ELSE IF FlowAt(f, "revoking") THEN SignInFails(f)
             ELSE /\ flows' = [flows EXCEPT ![f].step = "done"]
                  /\ \/ UNCHANGED browser
                     \/ browser' = [cookie |-> flows[f].session, transaction |->
                          IF flows[f].kind = "oidc" THEN Null ELSE browser.transaction]
    BY DEF StatementEnds
  <1>2. UNCHANGED <<binding, pending>>
    BY DEF StatementEnds
  <1>3. PICK flow : flow = flows[f]
    OBVIOUS
  <1>4. /\ Sound(flow) /\ flow.at = i /\ Awaits(flow) /\ flows[f] # Null
        /\ ~Raises(i) /\ OperatorStoreInv
    BY <1>1, <1>3, NeverRaises DEF SignInInv, FlowsSound, Waiting, Awaits, OperatorStoreInv
  <1>5. calls[i] # Null /\ StoreInv
    BY <1>4 DEF Sound, OperatorStoreInv
  <1>6. CASE flow.step = "revoking"
    <2> DEFINE new == [flow EXCEPT !.step = "replacing"]
    <2>1. /\ new \in Flow /\ new.step = "replacing" /\ new.subject = flow.subject
          /\ new.kind = flow.kind /\ new.old = flow.old /\ new.replaced = flow.replaced
      BY <1>4 DEF Sound, Flow
    <2>2. flows' = [flows EXCEPT ![f] = new] /\ browser' = browser /\ Commit(i)
      BY <1>1, <1>3, <1>4, <1>6 DEF FlowAt
    <2> HIDE DEF new
    <2>3. calls[i].kind = "revoke"
      BY <1>4, <1>6 DEF Sound
    <2>4. rows' = Result(i) /\ told' = Answered(i) /\ Settled(i, "none")
      BY <1>4, <2>2 DEF Commit
    <2>5. /\ OperatorStoreInv' /\ StoreMoves /\ CallOver(i)
          /\ ~IsActive(rows'[calls[i].id])
      BY <1>1, <1>2, <1>4, <2>3, <2>4, RevokeEnds
    <2>6. TokensKnown'
      BY <1>2, <2>2, <2>5, TokensStay DEF SignInInv
    <2>7. Sound(new)'
      <3>1. \A s \in flow.replaced : Delivered(s)' /\ (IsActive(rows'[s]) => IsActive(rows[s]))
        BY <1>4, <2>5, DeliveredStays DEF Sound, Flow
      <3>2. \A s \in flow.replaced : IsActive(rows[s]) =>
              s = calls[i].id \/ \E k \in DOMAIN flow.old : flow.old[k] = s
        BY <1>4, <1>6 DEF Sound, ToRevoke
      <3>3. \A s \in flow.replaced : IsActive(rows'[s]) => ToRevoke(new, s)'
        BY <2>1, <2>5, <3>1, <3>2 DEF ToRevoke
      <3>4. QED
        BY <1>4, <1>6, <2>1, <3>1, <3>3 DEF Sound, Awaits
    <2>8. ~Awaits(new)
      BY <2>1 DEF Awaits
    <2>9. \A g \in Flows \ {f} : flows[g] # Null /\ Awaits(flows[g])
            => calls'[flows[g].at] = calls[flows[g].at]
      BY <1>1, <2>5, OthersWait
    <2>10. QED
      BY <2>2, <2>5, <2>6, <2>7, <2>8, <2>9, FlowMoves
  <1>7. CASE flow.step = "issuing"
    <2> DEFINE new == [flow EXCEPT !.step = "done"]
    <2>1. /\ new \in Flow /\ new.step = "done" /\ new.subject = flow.subject
          /\ new.kind = flow.kind /\ new.old = flow.old /\ new.replaced = flow.replaced
      BY <1>4 DEF Sound, Flow
    <2>2. /\ flows' = [flows EXCEPT ![f] = new]
          /\ rows' = SignedIn(i) /\ Settled(i, "none") /\ told' = told
          /\ \/ UNCHANGED browser
             \/ browser' = [cookie |-> flow.session, transaction |->
                  IF flow.kind = "oidc" THEN Null ELSE browser.transaction]
      BY <1>1, <1>3, <1>7 DEF FlowAt
    <2> HIDE DEF new
    <2>3. Issuing(i) /\ calls[i].id = flow.session /\ flow.old = << >>
      BY <1>4, <1>5, <1>7 DEF Sound, Issuing
    <2>4. OperatorStoreInv' /\ StoreMoves /\ CallOver(i)
      BY <1>1, <1>2, <1>4, <2>2, <2>3, IssueEnds
    <2>5. Presentable(flow.session)'
      <3>1. /\ told[flow.session] = "minted" /\ flow.session \in SessionIds
            /\ \A j \in Stores : Issuing(j) /\ calls[j].id = flow.session => j = i
        BY <1>5, <2>3 DEF StoreInv, IssuesFresh, CallsTyped, WellFormed, Issuing
      <3>2. \A j \in Stores : Issuing(j)' => Issuing(j) /\ calls'[j] = calls[j] /\ j # i
        BY <2>4 DEF CallOver, Issuing
      <3>3. QED
        BY <2>2, <3>1, <3>2 DEF Presentable, Delivered
    <2>6. TokensKnown'
      <3>1. PICK cookie \in {browser.cookie, flow.session}, transaction \in Flows \cup {Null} :
              browser' = [cookie |-> cookie, transaction |-> transaction]
        <4>1. /\ browser = [cookie |-> browser.cookie, transaction |-> browser.transaction]
              /\ browser.transaction \in Flows \cup {Null}
          BY DEF SignInInv, TokensKnown
        <4>2. CASE UNCHANGED browser
          BY <4>1, <4>2
        <4>3. CASE browser' = [cookie |-> flow.session, transaction |->
                     IF flow.kind = "oidc" THEN Null ELSE browser.transaction]
          <5>1. PICK transaction : transaction = IF flow.kind = "oidc" THEN Null
                                                 ELSE browser.transaction
            OBVIOUS
          <5>2. transaction \in Flows \cup {Null}
            BY <4>1, <5>1
          <5>3. browser' = [cookie |-> flow.session, transaction |-> transaction]
            BY <4>3, <5>1
          <5>4. flow.session \in {browser.cookie, flow.session}
            OBVIOUS
          <5>5. QED
            BY <5>2, <5>3, <5>4
        <4>4. QED
          BY <2>2, <4>2, <4>3
      <3>2. pending' = [g \in Flows |-> pending'[g]]
        BY <1>2 DEF SignInInv, TokensKnown
      <3>3. QED
        BY <1>2, <2>4, <2>5, <3>1, <3>2, TokensMove DEF SignInInv
    <2>7. Sound(new)'
      <3>1. \A s \in flow.replaced : Delivered(s)' /\ (IsActive(rows'[s]) => IsActive(rows[s]))
        BY <1>4, <2>4, DeliveredStays DEF Sound, Flow
      <3>2. \A s \in flow.replaced : ~IsActive(rows[s])
        BY <1>4, <1>7, <2>3 DEF Sound, ToRevoke
      <3>3. QED
        BY <1>4, <2>1, <2>3, <3>1, <3>2 DEF Sound, Awaits
    <2>8. ~Awaits(new)
      BY <2>1 DEF Awaits
    <2>9. \A g \in Flows \ {f} : flows[g] # Null /\ Awaits(flows[g])
            => calls'[flows[g].at] = calls[flows[g].at]
      BY <1>1, <2>4, OthersWait
    <2>10. QED
      BY <2>2, <2>4, <2>6, <2>7, <2>8, <2>9, FlowMoves
  <1>8. QED
    BY <1>4, <1>6, <1>7 DEF Awaits

LEMMA StatementFailsKeeps ==
  ASSUME SignInInv, NEW i \in Stores, StatementFails(i)
  PROVE  SignInInv'
  <1>1. PICK f \in Flows :
          /\ Waiting(f, i)
          /\ \/ RollBack(i)
             \/ FlowAt(f, "revoking") /\ CommitUnanswered(i)
             \/ /\ FlowAt(f, "issuing") /\ Running(i)
                /\ rows' = SignedIn(i) /\ Settled(i, "lost") /\ UNCHANGED told
          /\ SignInFails(f) /\ UNCHANGED <<binding, pending>>
    BY DEF StatementFails
  <1>2. Sound(flows[f]) /\ flows[f].at = i /\ flows[f] # Null /\ OperatorStoreInv
    BY <1>1 DEF SignInInv, FlowsSound, Waiting
  <1>3. OperatorStoreInv' /\ StoreMoves /\ CallOver(i)
    <2>1. CASE RollBack(i)
      BY <1>1, <1>2, <2>1, RollBackKeeps
    <2>2. CASE FlowAt(f, "revoking") /\ CommitUnanswered(i)
      <3>1. calls[i].kind = "revoke"
        BY <1>2, <2>2 DEF Sound, FlowAt
      <3>2. Running(i) /\ rows' = Result(i) /\ told' = told /\ Settled(i, "lost")
        BY <2>2 DEF CommitUnanswered
      <3>3. QED
        BY <1>1, <1>2, <3>1, <3>2, RevokeEnds
    <2>3. CASE /\ FlowAt(f, "issuing") /\ Running(i)
               /\ rows' = SignedIn(i) /\ Settled(i, "lost") /\ UNCHANGED told
      <3>1. Issuing(i)
        BY <1>2, <2>3 DEF Sound, FlowAt, Issuing, Awaits
      <3>2. QED
        BY <1>1, <1>2, <2>3, <3>1, IssueEnds
    <2>4. QED
      BY <1>1, <2>1, <2>2, <2>3
  <1>4. QED
    BY <1>1, <1>2, <1>3, OthersWait, SignInFailsKeeps

LEMMA RestartsKeeps ==
  ASSUME SignInInv, NEW i \in Stores, Restarts(i)
  PROVE  SignInInv'
  <1>1. /\ failure' = [failure EXCEPT ![i] = "none"]
        /\ UNCHANGED <<rows, calls, seen, told, binding, browser>>
        /\ pending' = [g \in Flows |->
             IF flows[g] # Null /\ flows[g].at = i THEN Null ELSE pending[g]]
        /\ flows' = [g \in Flows |->
             IF flows[g] # Null /\ flows[g].at = i /\ flows[g].step \in {"exchanging", "replacing"}
             THEN [flows[g] EXCEPT !.step = "failed"] ELSE flows[g]]
    BY DEF Restarts
  <1>2. TableShrinks
    BY <1>1 DEF SignInInv, OperatorStoreInv, StoreInv, MapsTyped, TableShrinks
  <1>3. OperatorStoreInv' /\ StoreMoves
    BY <1>1, <1>2, LookupKeeps DEF SignInInv
  <1>4. TokensKnown'
    <2>1. PICK cookie, transaction :
            /\ cookie = browser.cookie /\ transaction \in Flows \cup {Null}
            /\ browser' = [cookie |-> cookie, transaction |-> transaction]
      BY <1>1 DEF SignInInv, TokensKnown
    <2>2. /\ pending' = [g \in Flows |-> pending'[g]]
          /\ \A g \in Flows : pending'[g] \in {Null, pending[g]}
      BY <1>1
    <2>3. Presentable(Null)'
      BY DEF Presentable
    <2>4. QED
      BY <1>3, <2>1, <2>2, <2>3, TokensMove DEF SignInInv
  <1>5. ASSUME NEW g \in Flows, flows[g] # Null
        PROVE  Sound(flows[g])' /\ (Awaits(flows'[g]) => flows'[g] = flows[g])
    <2>1. PICK flow : flow = flows[g]
      OBVIOUS
    <2>2. Sound(flow)
      BY <1>5, <2>1 DEF SignInInv, FlowsSound
    <2>3. Sound(flow)'
      BY <1>1, <1>3, <2>2, SoundStays DEF SignInInv
    <2> DEFINE failed == [flow EXCEPT !.step = "failed"]
    <2>4. /\ failed \in Flow /\ failed.step = "failed" /\ failed.old = flow.old
          /\ failed.replaced = flow.replaced
      BY <2>2 DEF Sound, Flow
    <2> HIDE DEF failed
    <2>5. Sound(failed)' /\ ~Awaits(failed)
      BY <2>3, <2>4 DEF Sound, Awaits
    <2>6. flows'[g] \in {flow, failed}
      BY <1>1, <2>1 DEF failed
    <2>7. Sound(flows[g])'
      <3>1. CASE flows'[g] = flow
        BY <2>3, <3>1 DEF Sound, Delivered, Issuing, IsActive, ToRevoke, Awaits
      <3>2. CASE flows'[g] = failed
        BY <2>5, <3>2 DEF Sound, Delivered, Issuing, IsActive, ToRevoke, Awaits
      <3>3. QED
        BY <2>6, <3>1, <3>2
    <2>8. QED
      BY <2>1, <2>5, <2>6, <2>7
  <1>6. \A g \in Flows : flows'[g] # Null => flows[g] # Null
    BY <1>1
  <1>7. FlowsSound'
    BY <1>1, <1>5, <1>6 DEF FlowsSound
  <1>8. WaitingAlone'
    BY <1>5, <1>6 DEF SignInInv, WaitingAlone, Awaits
  <1>9. QED
    BY <1>3, <1>4, <1>7, <1>8 DEF SignInInv

LEMMA CallbackRefusedKeeps ==
  ASSUME SignInInv, NEW f \in Flows, CallbackRefused(f)
  PROVE  SignInInv'
  <1>1. UNCHANGED vars /\ UNCHANGED <<binding, pending>> /\ flows[f] # Null /\ SignInFails(f)
    BY DEF CallbackRefused, FlowAt
  <1>2. OperatorStoreInv' /\ StoreMoves /\ calls' = calls
    BY <1>1, StoreIdle DEF SignInInv, vars
  <1>3. QED
    BY <1>1, <1>2, SignInFailsKeeps

LEMMA SignInInitHolds == SignInInit => SignInInv
  <1> SUFFICES ASSUME SignInInit
               PROVE  SignInInv
    OBVIOUS
  <1>1. /\ binding \in {Device, Null} /\ calls = [i \in Stores |-> Null]
        /\ seen = [i \in Stores |-> Null] /\ failure = [i \in Stores |-> "none"]
        /\ pending = [f \in Flows |-> Null] /\ flows = [f \in Flows |-> Null]
    BY DEF SignInInit
  <1>2. \A i \in Stores : ~Issuing(i) /\ ~Running(i) /\ calls[i] = Null
    BY <1>1 DEF Issuing, Running
  <1>3. PICK row :
          /\ row = Null \/ (row \in Row /\ row.revoked_at = Null)
          /\ rows = [s \in SessionIds |-> IF s = 1 THEN row ELSE Null]
          /\ told = [s \in SessionIds |-> IF s = 1 /\ browser.cookie = 1 THEN "minted" ELSE "unminted"]
          /\ browser = [cookie |-> browser.cookie, transaction |-> Null]
          /\ browser.cookie \in {1, Null}
          /\ browser.cookie = Null => row = Null
    <2>1. CASE /\ rows = [s \in SessionIds |-> Null]
               /\ told = [s \in SessionIds |-> "unminted"]
               /\ browser = [cookie |-> Null, transaction |-> Null]
      BY <2>1, SignInAssumption
    <2>2. ASSUME NEW subject \in Subjects, NEW now \in Readings,
                 rows = [s \in SessionIds |-> IF s = 1
                   THEN [IssuedRow([subject |-> subject, now |-> now]) EXCEPT !.device = binding]
                   ELSE Null],
                 told = [s \in SessionIds |-> IF s = 1 THEN "minted" ELSE "unminted"],
                 browser = [cookie |-> 1, transaction |-> Null]
          PROVE  \E row :
            /\ row = Null \/ (row \in Row /\ row.revoked_at = Null)
            /\ rows = [s \in SessionIds |-> IF s = 1 THEN row ELSE Null]
            /\ told = [s \in SessionIds |-> IF s = 1 /\ browser.cookie = 1 THEN "minted" ELSE "unminted"]
            /\ browser = [cookie |-> browser.cookie, transaction |-> Null]
            /\ browser.cookie \in {1, Null}
            /\ browser.cookie = Null => row = Null
      <3> DEFINE row == [IssuedRow([subject |-> subject, now |-> now]) EXCEPT !.device = binding]
      <3>1. row = [subject |-> subject, device |-> binding, issued_at |-> now,
                   expires_at |-> now + Ttl, revoked_at |-> Null]
        BY DEF IssuedRow
      <3>2. now \in Instants /\ binding \in Devices \cup {Null}
        BY <1>1, SignInAssumption
      <3>3. now + Ttl \in Int
        BY <3>2, LivesEnd
      <3>4. row \in Row /\ row.revoked_at = Null
        BY <3>1, <3>2, <3>3 DEF Row
      <3> HIDE DEF row
      <3>5. rows = [s \in SessionIds |-> IF s = 1 THEN row ELSE Null]
        BY <2>2 DEF row
      <3>6. browser.cookie = 1 /\ 1 # Null
        BY <2>2, SignInAssumption
      <3>7. QED
        BY <2>2, <3>4, <3>5, <3>6
    <2>3. QED
      BY <2>1, <2>2 DEF SignInInit
  <1>4. StoreInv
    <2>1. MapsTyped /\ StatementsNeverRaise
      BY <1>1, <1>3 DEF MapsTyped, StatementsNeverRaise
    <2>2. RowsTyped /\ AckedRevocationsHold
      BY <1>3 DEF RowsTyped, AckedRevocationsHold
    <2>3. CallsTyped /\ IssuesFresh
      BY <1>2, <1>3 DEF CallsTyped, IssuesFresh
    <2>4. QED
      BY <2>1, <2>2, <2>3 DEF StoreInv
  <1>5. RevocationsFind /\ IssuesDisplace /\ LocksExclude /\ OneSessionPerOperator
    BY <1>2, <1>3 DEF RevocationsFind, IssuesDisplace, LocksExclude, OneSessionPerOperator,
                      IsActive
  <1>6. TokensKnown
    <2>1. Presentable(browser.cookie)
      BY <1>2, <1>3, SignInAssumption DEF Presentable, Delivered
    <2>2. browser \in [cookie : SessionIds \cup {Null}, transaction : Flows \cup {Null}]
      BY <1>3, SignInAssumption
    <2>3. QED
      BY <1>1, <2>1, <2>2 DEF TokensKnown
  <1>7. FlowsSound /\ WaitingAlone
    BY <1>1 DEF FlowsSound, WaitingAlone
  <1>8. QED
    BY <1>1, <1>4, <1>5, <1>6, <1>7 DEF SignInInv, OperatorStoreInv

LEMMA SignInInvKept ==
  ASSUME SignInInv, [SignInNext]_<<vars, signInVars>>
  PROVE  SignInInv'
  <1>1. CASE UNCHANGED <<vars, signInVars>>
    <2>1. OperatorStoreInv'
      BY <1>1, StoreIdle DEF SignInInv, signInVars
    <2>2. QED
      BY <1>1, <2>1 DEF vars, signInVars, SignInInv, TokensKnown, Presentable, FlowsSound,
           WaitingAlone, Sound, Delivered, Issuing, ToRevoke, Awaits
  <1>2. ASSUME NEW f \in Flows, NEW i \in Stores, NEW now \in Readings,
               LoginStarts(f, i, now) \/ LogoutStarts(f, i, now)
        PROVE  SignInInv'
    BY <1>2, LoginStartsKeeps, LogoutStartsKeeps
  <1>3. ASSUME NEW f \in Flows, NEW subject \in Subjects,
               Authorizes(f, subject) \/ \E i \in Stores : DevLogin(f, i, subject)
        PROVE  SignInInv'
    BY <1>3, AuthorizesKeeps, DevLoginKeeps
  <1>4. ASSUME NEW f \in Flows,
               \/ CodeExpires(f) \/ PendingExpires(f) \/ CallbackRepeated(f)
               \/ CallbackTaken(f) \/ CallbackRefused(f) \/ CodeExchanged(f) \/ LoggedOut(f)
        PROVE  SignInInv'
    BY <1>4, TokensDropKeeps, CallbackTakenKeeps, CallbackRefusedKeeps, CodeExchangedKeeps,
       LoggedOutKeeps
  <1>5. ASSUME NEW f \in Flows, NEW now \in Readings, Replaces(f, now) \/ Issues(f, now)
        PROVE  SignInInv'
    BY <1>5, ReplacesKeeps, IssuesKeeps
  <1>6. ASSUME NEW i \in Stores, StatementBegins(i)
        PROVE  SignInInv'
    <2>1. OperatorStoreInv' /\ StoreMoves
      BY <1>6, StatementBeginsKeeps DEF SignInInv
    <2>2. UNCHANGED signInVars /\ UNCHANGED <<rows, calls, told>>
      BY <1>6 DEF StatementBegins, Begin
    <2>3. QED
      BY <2>1, <2>2 DEF signInVars, SignInInv, TokensKnown, Presentable, FlowsSound,
           WaitingAlone, Sound, Delivered, Issuing, ToRevoke, Awaits
  <1>7. ASSUME NEW i \in Stores, StatementEnds(i) \/ StatementFails(i) \/ Restarts(i)
        PROVE  SignInInv'
    BY <1>7, StatementEndsKeeps, StatementFailsKeeps, RestartsKeeps
  <1>8. QED
    BY <1>1, <1>2, <1>3, <1>4, <1>5, <1>6, <1>7 DEF SignInNext

LEMMA SoundSignInsReplace == SignInInv => SignInsReplaceSessions
  <1> SUFFICES ASSUME SignInInv
               PROVE  SignInsReplaceSessions
    OBVIOUS
  <1>1. ASSUME NEW f \in Flows, FlowAt(f, "done"), NEW s \in flows[f].replaced
        PROVE  ~IsActive(rows[s])
    <2>1. Sound(flows[f]) /\ flows[f].step = "done"
      BY <1>1 DEF SignInInv, FlowsSound, FlowAt
    <2>2. flows[f].old = << >>
      BY <2>1 DEF Sound
    <2>3. ~ToRevoke(flows[f], s)
      BY <2>1, <2>2 DEF ToRevoke
    <2>4. QED
      BY <2>1, <2>3 DEF Sound
  <1>2. OneSessionPerOperator
    BY DEF SignInInv, OperatorStoreInv
  <1>3. QED
    BY <1>1, <1>2 DEF SignInsReplaceSessions, OneSessionPerOperator

(* A sign-in that is answered has ended the sessions it replaces, and an   *)
(* operator has one live session on a bound device (createSession of the   *)
(* BFF and ISSUE_SQL of its store), whatever logins, logouts and restarts  *)
(* overlap at any number of instances.                                     *)
THEOREM SignInsReplace == SignInSpec => []SignInsReplaceSessions
  <1>1. SignInSpec => []SignInInv
    <2>1. SignInInit => SignInInv
      BY SignInInitHolds
    <2>2. SignInInv /\ [SignInNext]_<<vars, signInVars>> => SignInInv'
      BY SignInInvKept
    <2>3. QED
      BY <2>1, <2>2, PTL DEF SignInSpec
  <1>2. QED
    BY <1>1, SoundSignInsReplace, PTL
-----------------------------------------------------------------------------
(* The store of the Mini App.                                              *)
CustomerRecord ==
  [subject : Subjects, kyc : {"kyc-gated", "verified"}, issued_at : Instants,
   expires_at : Int, last_used : Instants, seq : Nat, revoked_at : Instants \cup {Null}]

CustomerRowsTyped == \A s \in SessionIds : rows[s] # Null => rows[s] \in CustomerRecord

CustomerCall(c) ==
  /\ c.kind \in {"issue", "touch", "verify", "revoke", "drop", "sweep"}
  /\ c.kind # "drop" => c.now \in Instants
  /\ c.kind # "sweep" => c.id \in SessionIds
  /\ c.kind = "issue" => c.subject \in Subjects /\ c.kyc \in {"kyc-gated", "verified"}

CustomerCallsTyped ==
  \A i \in Stores :
    /\ calls[i] # Null => CustomerCall(calls[i])
    /\ Running(i) => calls[i] # Null

(* What a call names was issued, so it never comes back: what a statement  *)
(* did not find it will not find later.                                    *)
Naming(i) == calls[i] # Null /\ calls[i].kind \in {"touch", "verify", "revoke", "drop"}

NamesGiven ==
  \A i \in Stores : Naming(i) =>
    /\ told[calls[i].id] # "unminted"
    /\ \A j \in Stores : Issuing(j) => calls[j].id # calls[i].id
    /\ Running(i) /\ seen[i].target = Null => rows[calls[i].id] = Null

(* store_seq orders the rows totally.                                      *)
SequenceDistinct ==
  \A s, t \in SessionIds :
    rows[s] # Null /\ rows[t] # Null /\ rows[s].seq = rows[t].seq => s = t

CustomerInv ==
  /\ MapsTyped /\ CustomerRowsTyped /\ CustomerCallsTyped /\ IssuesFresh
  /\ NamesGiven /\ SequenceDistinct
  /\ AckedRevocationsHold /\ StatementsNeverRaise

LEMMA CustomerInit == Init => CustomerInv
  BY DEF Init, CustomerInv, MapsTyped, CustomerRowsTyped, CustomerCallsTyped, IssuesFresh,
         Issuing, Naming, NamesGiven, SequenceDistinct, Running, AckedRevocationsHold,
         StatementsNeverRaise, IsActive

(* The next store_seq is above every row's.                                *)
LEMMA NextSeqAbove ==
  ASSUME CustomerInv
  PROVE  /\ NextSeq \in Nat
         /\ \A s \in SessionIds : rows[s] # Null => rows[s].seq \in Nat /\ NextSeq > rows[s].seq
  <1> DEFINE live == {r \in SessionIds : rows[r] # Null}
             used(ids) == {0} \cup {rows[s].seq : s \in ids}
             Good == {ids \in SUBSET live : \E m \in used(ids) : \A n \in used(ids) : m >= n}
  <1>1. IsFiniteSet(live)
    BY SessionsFinite
  <1>2. \A s \in live : rows[s].seq \in Nat
    BY DEF CustomerInv, CustomerRowsTyped, CustomerRecord
  <1>3. ASSUME NEW ids \in SUBSET live, \A r \in SUBSET ids : r # ids => r \in Good
        PROVE  ids \in Good
    <2>1. CASE ids = {}
      BY <2>1
    <2>2. CASE ids # {}
      <3>1. PICK s \in ids : TRUE
        BY <2>2
      <3>2. ids \ {s} \in Good
        BY <1>3, <3>1
      <3>3. PICK m \in used(ids \ {s}) : \A n \in used(ids \ {s}) : m >= n
        BY <3>2
      <3>4. m \in Nat /\ rows[s].seq \in Nat
        BY <1>2
      <3>5. used(ids) = used(ids \ {s}) \cup {rows[s].seq}
        BY <3>1
      <3>6. \A n \in used(ids) : n \in Nat
        BY <1>2
      <3> HIDE DEF used
      <3>7. CASE m >= rows[s].seq
        BY <3>3, <3>5, <3>7
      <3>8. CASE ~(m >= rows[s].seq)
        <4>1. \A n \in used(ids) : rows[s].seq >= n
          BY <3>3, <3>4, <3>5, <3>6, <3>8
        <4>2. QED
          BY <3>5, <4>1
      <3>9. QED
        BY <3>7, <3>8
    <2>3. QED
      BY <2>1, <2>2
  <1>4. live \in Good
    <2> HIDE DEF Good, live
    <2>1. SUBSET live \subseteq Good
      BY <1>1, <1>3, SubsetInduction
    <2>2. QED
      BY <2>1
  <1>5. PICK m \in used(live) : \A n \in used(live) : m >= n
    BY <1>4
  <1>6. Max(used(live)) \in used(live) /\ \A n \in used(live) : Max(used(live)) >= n
    BY <1>5 DEF Max
  <1>7. NextSeq = 1 + Max(used(live))
    BY DEF NextSeq
  <1>8. \A n \in used(live) : n \in Nat
    BY <1>2
  <1>9. \A s \in live : rows[s].seq \in used(live)
    OBVIOUS
  <1> HIDE DEF used
  <1>10. QED
    BY <1>2, <1>6, <1>7, <1>8, <1>9
-----------------------------------------------------------------------------
(* A row that a statement changes is live, and it may.                     *)
LEMMA ChangesLive ==
  ASSUME CustomerInv, NEW i \in Stores, Running(i), Transitions(i)
  PROVE  LET old == rows[calls[i].id]
             new == CustomerUpdate(calls[i], old)
         IN  /\ calls[i].id \in SessionIds /\ seen[i].target # Null
             /\ old # Null /\ IsActive(old) /\ old \in CustomerRecord
             /\ new \in CustomerRecord /\ new.subject = old.subject
             /\ CustomerMutationAllowed(old, new)
             /\ calls[i].kind = "revoke" => new.revoked_at \in Instants /\ new.seq = NextSeq
             /\ calls[i].kind # "revoke" => new.revoked_at = Null /\ new.seq = old.seq
  <1> DEFINE c == calls[i]
             old == rows[c.id]
             new == CustomerUpdate(c, old)
  <1>1. c.kind \in {"touch", "verify", "revoke"} /\ IsActive(Target(i))
    BY DEF Transitions
  <1>2. c.id \in SessionIds /\ c.now \in Instants
    BY <1>1 DEF CustomerInv, CustomerCallsTyped, CustomerCall
  <1>3. seen[i].target # Null /\ Target(i) = old
    BY <1>1 DEF Target, IsActive
  <1>4. IsActive(old) /\ old # Null /\ old.revoked_at = Null
    BY <1>1, <1>3 DEF IsActive
  <1>5. old \in CustomerRecord
    BY <1>2, <1>4 DEF CustomerInv, CustomerRowsTyped
  <1>6. /\ old.last_used \in Int /\ c.now \in Int /\ old.issued_at \in Instants
        /\ old.expires_at \in Int /\ old.last_used \in Instants
    BY ClockAssumption, <1>2, <1>5 DEF CustomerRecord
  <1>7. CASE c.kind = "touch"
    <2>1. new = [old EXCEPT !.last_used = Later(c.now, @)]
      BY <1>7 DEF CustomerUpdate
    <2>2. Later(c.now, old.last_used) \in Instants /\ Later(c.now, old.last_used) >= old.last_used
      BY <1>2, <1>6 DEF Later
    <2>3. QED
      BY <1>2, <1>3, <1>4, <1>5, <1>6, <1>7, <2>1, <2>2 DEF CustomerRecord, CustomerMutationAllowed
  <1>8. CASE c.kind = "verify"
    <2>1. new = [old EXCEPT !.kyc = "verified"]
      BY <1>8 DEF CustomerUpdate
    <2>2. QED
      BY <1>2, <1>3, <1>4, <1>5, <1>6, <1>8, <2>1 DEF CustomerRecord, CustomerMutationAllowed
  <1>9. CASE c.kind = "revoke"
    <2>1. new = [old EXCEPT !.revoked_at = Later(c.now, old.issued_at), !.seq = NextSeq]
      BY <1>9 DEF CustomerUpdate
    <2>2. Later(c.now, old.issued_at) \in Instants
      BY <1>2, <1>6 DEF Later
    <2>3. NextSeq \in Nat
      BY NextSeqAbove
    <2> DEFINE at == Later(c.now, old.issued_at)
    <2> HIDE DEF new
    <2>4. /\ new = [old EXCEPT !.revoked_at = at, !.seq = NextSeq]
          /\ at \in Instants /\ old \in CustomerRecord
      BY <1>5, <2>1, <2>2
    <2> HIDE DEF at, old
    <2>5. /\ new \in CustomerRecord /\ new.revoked_at = at /\ new.seq = NextSeq
          /\ new.subject = old.subject /\ new.kyc = old.kyc
          /\ new.expires_at = old.expires_at /\ new.last_used = old.last_used
      BY <2>3, <2>4 DEF CustomerRecord
    <2>6. CustomerMutationAllowed(old, new)
      BY <1>4, <1>6, <2>5 DEF CustomerMutationAllowed
    <2>7. QED
      BY <1>2, <1>3, <1>4, <1>9, <2>4, <2>5, <2>6 DEF old, new
  <1>10. QED
    BY <1>1, <1>7, <1>8, <1>9

LEMMA CustomersNeverRaise ==
  ASSUME CustomerInv, NEW i \in Stores, Running(i)
  PROVE  ~CustomerRaises(i)
  BY ChangesLive DEF CustomerRaises

(* What a statement leaves of the table.                                   *)
LEMMA CustomerLeaves ==
  ASSUME CustomerInv, NEW i \in Stores, Running(i), NEW result \in CustomerResults(i)
  PROVE  LET c == calls[i]
         IN  \E gone :
               /\ result.rows =
                    [s \in SessionIds |->
                       IF s = c.id /\ c.kind = "issue" THEN CustomerRow(c)
                       ELSE IF s = c.id /\ Transitions(i) THEN CustomerUpdate(c, rows[s])
                       ELSE IF s \in gone THEN Null ELSE rows[s]]
               /\ c.kind = "issue" \/ (c.kind = "revoke" /\ Transitions(i))
                    => seen[i].doomed \subseteq gone
               /\ c.kind = "drop" => c.id \in gone
               /\ c.kind = "revoke" /\ Expired(Target(i), c.now) => c.id \in gone
  <1> DEFINE c == calls[i]
             stale == {s \in {c.id} : Expired(Target(i), c.now)}
             Moved(table) ==
               IF Transitions(i)
               THEN LET row == CustomerUpdate(c, rows[c.id])
                    IN  Leaves([table EXCEPT ![c.id] = row], row)
               ELSE Leaves(table, Null)
             left(gone) ==
               [s \in SessionIds |->
                  IF s = c.id /\ c.kind = "issue" THEN CustomerRow(c)
                  ELSE IF s = c.id /\ Transitions(i) THEN CustomerUpdate(c, rows[s])
                  ELSE IF s \in gone THEN Null ELSE rows[s]]
  <1>1. CustomerCall(c)
    BY DEF CustomerInv, CustomerCallsTyped
  <1>2. c.kind # "sweep" => c.id \in SessionIds
    BY <1>1 DEF CustomerCall
  <1>3. \A t, a : Leaves(t, a).rows = t
    BY DEF Leaves
  <1>4. Transitions(i) => c.kind \in {"touch", "verify", "revoke"} /\ ~Expired(Target(i), c.now)
    BY DEF Transitions
  <1>5. CASE c.kind = "issue"
    <2>1. CustomerResults(i) =
            {Leaves([Without(seen[i].doomed) EXCEPT ![c.id] = CustomerRow(c)], CustomerRow(c))}
      BY <1>5 DEF CustomerResults
    <2>2. result.rows = [Without(seen[i].doomed) EXCEPT ![c.id] = CustomerRow(c)]
      BY <1>3, <2>1
    <2>3. result.rows = left(seen[i].doomed)
      BY <1>2, <1>4, <1>5, <2>2 DEF Without
    <2>4. QED
      BY <1>5, <2>3
  <1>6. CASE c.kind = "sweep"
    <2> DEFINE gone == {s \in seen[i].doomed : Expired(rows[s], c.now)}
    <2>1. CustomerResults(i) =
            {Leaves(Swept(i), Cardinality({s \in seen[i].doomed : Expired(rows[s], c.now)}))}
      BY <1>6 DEF CustomerResults
    <2>2. result.rows = Without(gone)
      BY <1>3, <2>1 DEF Swept
    <2>3. result.rows = left(gone)
      BY <1>4, <1>6, <2>2 DEF Without
    <2>4. QED
      BY <1>4, <1>6, <2>3
  <1>7. CASE c.kind = "drop"
    <2>1. CustomerResults(i) = {Leaves(Without({c.id}), Target(i))}
      BY <1>7 DEF CustomerResults
    <2>2. result.rows = Without({c.id})
      BY <1>3, <2>1
    <2>3. result.rows = left({c.id})
      BY <1>4, <1>7, <2>2 DEF Without
    <2>4. QED
      BY <1>4, <1>7, <2>3
  <1>8. ASSUME c.kind \in {"touch", "verify", "revoke"}, NEW gone, result = Moved(Without(gone))
        PROVE  result.rows = left(gone)
    <2>1. CASE Transitions(i)
      <3>1. result.rows = [Without(gone) EXCEPT ![c.id] = CustomerUpdate(c, rows[c.id])]
        BY <1>3, <1>8, <2>1
      <3>2. QED
        BY <1>2, <1>8, <2>1, <3>1 DEF Without
    <2>2. CASE ~Transitions(i)
      <3>1. result.rows = Without(gone)
        BY <1>3, <1>8, <2>2
      <3>2. QED
        BY <1>8, <2>2, <3>1 DEF Without
    <2>3. QED
      BY <2>1, <2>2
  <1>9. CASE c.kind \in {"touch", "verify"}
    <2> DEFINE gone == IF Transitions(i) THEN seen[i].doomed ELSE stale
    <2>1. CustomerResults(i) = {Moved(Without(gone))}
      BY <1>9 DEF CustomerResults
    <2> HIDE DEF gone, Moved
    <2>2. result.rows = left(gone)
      BY <1>8, <1>9, <2>1
    <2>3. QED
      BY <1>9, <2>2
  <1>10. CASE c.kind = "revoke"
    <2> DEFINE gone(evicts) == stale \cup IF evicts THEN seen[i].doomed ELSE {}
    <2>1. CustomerResults(i) = {Moved(Without(gone(evicts))) : evicts \in RevokeEvicts(i)}
      BY <1>10 DEF CustomerResults
    <2>2. PICK evicts \in RevokeEvicts(i) : result = Moved(Without(gone(evicts)))
      BY <2>1
    <2>3. Transitions(i) => evicts
      <3>1. Transitions(i) => Target(i) # Null /\ ~Expired(Target(i), c.now)
        BY DEF Transitions, IsActive
      <3>2. QED
        BY <3>1 DEF RevokeEvicts
    <2>4. Expired(Target(i), c.now) => c.id \in gone(evicts)
      OBVIOUS
    <2>5. Transitions(i) => seen[i].doomed \subseteq gone(evicts)
      BY <2>3
    <2> HIDE DEF gone, Moved
    <2>6. result.rows = left(gone(evicts))
      BY <1>8, <1>10, <2>2
    <2>7. QED
      BY <1>10, <2>4, <2>5, <2>6
  <1>11. QED
    BY <1>1, <1>5, <1>6, <1>7, <1>9, <1>10 DEF CustomerCall

(* A statement that commits keeps the invariant, answered or not.          *)
LEMMA CustomerCommitKeeps ==
  ASSUME CustomerInv, NEW i \in Stores, Running(i), NEW result \in CustomerResults(i),
         rows' = result.rows, told' \in {told, CustomerAnswered(i)},
         NEW outcome \in {"none", "lost"}, Settled(i, outcome)
  PROVE  CustomerInv'
  <1> DEFINE c == calls[i]
             new == CustomerUpdate(c, rows[c.id])
  <1>1. CustomerCall(c) /\ c # Null
    BY DEF CustomerInv, CustomerCallsTyped
  <1>2. PICK gone :
          /\ result.rows =
               [s \in SessionIds |->
                  IF s = c.id /\ c.kind = "issue" THEN CustomerRow(c)
                  ELSE IF s = c.id /\ Transitions(i) THEN CustomerUpdate(c, rows[s])
                  ELSE IF s \in gone THEN Null ELSE rows[s]]
          /\ c.kind = "drop" => c.id \in gone
          /\ c.kind = "revoke" /\ Expired(Target(i), c.now) => c.id \in gone
    BY CustomerLeaves
  <1>3. Transitions(i) => c.kind \in {"touch", "verify", "revoke"}
    BY DEF Transitions
  <1>4. \A s \in SessionIds :
          \/ rows'[s] \in {Null, rows[s]} /\ ~(s = c.id /\ (c.kind = "issue" \/ Transitions(i)))
          \/ s = c.id /\ c.kind = "issue" /\ rows'[s] = CustomerRow(c)
          \/ s = c.id /\ Transitions(i) /\ rows'[s] = new
    BY <1>2, <1>3
  <1>5. /\ rows' = [s \in SessionIds |-> rows'[s]]
        /\ c.kind = "drop" => c.id \in SessionIds /\ rows'[c.id] = Null
        /\ c.kind = "revoke" /\ Expired(Target(i), c.now) /\ ~Transitions(i)
             => c.id \in SessionIds /\ rows'[c.id] = Null
    BY <1>1, <1>2, <1>3 DEF CustomerCall
  <1>6. \A j \in Stores : /\ calls'[j] = (IF j = i THEN Null ELSE calls[j])
                          /\ seen'[j] = (IF j = i THEN Null ELSE seen[j])
    BY DEF Settled, CustomerInv, MapsTyped
  <1>7. \A s \in SessionIds :
          told'[s] = told[s] \/ (s = c.id /\ told'[s] = "revoked" /\ c.kind \in {"revoke", "drop"})
    BY <1>1 DEF CustomerAnswered, CustomerInv, MapsTyped, CustomerCall
  <1>8. MapsTyped'
    <2>1. told' \in [SessionIds -> {"unminted", "minted", "revoked"}]
      BY DEF CustomerInv, MapsTyped, CustomerAnswered
    <2>2. QED
      BY <1>5, <2>1 DEF CustomerInv, MapsTyped, Settled
  <1>9. c.kind = "issue" =>
          /\ CustomerRow(c) \in CustomerRecord /\ CustomerRow(c).seq = NextSeq
          /\ told[c.id] = "minted" /\ rows[c.id] = Null
          /\ \A j \in Stores : Issuing(j) /\ calls[j].id = c.id => j = i
          /\ \A j \in Stores : Naming(j) => calls[j].id # c.id
    <2> SUFFICES ASSUME c.kind = "issue"
                 PROVE  /\ CustomerRow(c) \in CustomerRecord /\ CustomerRow(c).seq = NextSeq
                        /\ told[c.id] = "minted" /\ rows[c.id] = Null
                        /\ \A j \in Stores : Issuing(j) /\ calls[j].id = c.id => j = i
                        /\ \A j \in Stores : Naming(j) => calls[j].id # c.id
      OBVIOUS
    <2>1. /\ c.now \in Instants /\ c.now + Ttl \in Int
          /\ c.subject \in Subjects /\ c.kyc \in {"kyc-gated", "verified"}
      BY <1>1, LivesEnd DEF CustomerCall
    <2>2. NextSeq \in Nat
      BY NextSeqAbove
    <2>3. CustomerRow(c) \in CustomerRecord /\ CustomerRow(c).seq = NextSeq
      BY <2>1, <2>2 DEF CustomerRow, CustomerRecord
    <2>4. Issuing(i)
      BY <1>1 DEF Issuing
    <2>5. QED
      BY <2>3, <2>4 DEF CustomerInv, IssuesFresh, NamesGiven
  <1>10. CustomerRowsTyped'
    BY <1>4, <1>9, ChangesLive DEF CustomerInv, CustomerRowsTyped
  <1>11. CustomerCallsTyped'
    BY <1>6 DEF CustomerInv, CustomerCallsTyped, Running, CustomerCall
  <1>12. \A j \in Stores :
           /\ Issuing(j)' => j # i /\ Issuing(j) /\ calls'[j] = calls[j]
           /\ Naming(j)' => /\ j # i /\ Naming(j) /\ calls'[j] = calls[j] /\ seen'[j] = seen[j]
                            /\ calls[j].id \in SessionIds
    BY <1>6 DEF Issuing, Naming, CustomerInv, CustomerCallsTyped, CustomerCall
  <1>13. Transitions(i) => c.id \in SessionIds /\ IsActive(rows[c.id]) /\ rows[c.id] # Null
    BY ChangesLive
  <1>14. IssuesFresh'
    <2>1. ASSUME NEW j \in Stores, Issuing(j)'
          PROVE  /\ told'[calls'[j].id] = "minted" /\ rows'[calls'[j].id] = Null
                 /\ \A k \in Stores : Issuing(k)' /\ calls'[k].id = calls'[j].id => k = j
      <3>1. j # i /\ Issuing(j) /\ calls'[j] = calls[j] /\ calls[j].id \in SessionIds
        BY <1>12, <2>1 DEF Issuing, CustomerInv, CustomerCallsTyped, CustomerCall
      <3>2. told[calls[j].id] = "minted" /\ rows[calls[j].id] = Null
        BY <3>1 DEF CustomerInv, IssuesFresh
      <3>3. c.kind = "issue" => calls[j].id # c.id
        BY <1>9, <3>1
      <3>4. c.kind \in {"revoke", "drop"} => calls[j].id # c.id
        <4>1. c.kind \in {"revoke", "drop"} => Naming(i)
          BY <1>1 DEF Naming
        <4>2. QED
          BY <3>1, <4>1 DEF CustomerInv, NamesGiven
      <3>5. rows'[calls[j].id] = Null
        BY <1>4, <1>13, <3>1, <3>2, <3>3
      <3>6. told'[calls[j].id] = "minted"
        BY <1>7, <3>1, <3>2, <3>4
      <3>7. QED
        BY <1>12, <3>1, <3>5, <3>6 DEF CustomerInv, IssuesFresh
    <2>2. ASSUME NEW s \in SessionIds, told'[s] = "unminted"
          PROVE  rows'[s] = Null
      <3>1. told[s] = "unminted" /\ rows[s] = Null
        BY <1>7, <2>2 DEF CustomerInv, IssuesFresh
      <3>2. QED
        BY <1>4, <1>9, <1>13, <3>1
    <2>3. QED
      BY <2>1, <2>2 DEF IssuesFresh
  <1>15. NamesGiven'
    <2> SUFFICES ASSUME NEW j \in Stores, Naming(j)'
                 PROVE  /\ told'[calls'[j].id] # "unminted"
                        /\ \A k \in Stores : Issuing(k)' => calls'[k].id # calls'[j].id
                        /\ Running(j)' /\ seen'[j].target = Null => rows'[calls'[j].id] = Null
      BY DEF NamesGiven
    <2>1. /\ Naming(j) /\ calls'[j] = calls[j] /\ seen'[j] = seen[j] /\ calls[j].id \in SessionIds
      BY <1>12
    <2>2. /\ told[calls[j].id] # "unminted"
          /\ \A k \in Stores : Issuing(k) => calls[k].id # calls[j].id
          /\ Running(j) /\ seen[j].target = Null => rows[calls[j].id] = Null
      BY <2>1 DEF CustomerInv, NamesGiven
    <2>3. rows[calls[j].id] = Null => rows'[calls[j].id] = Null
      BY <1>4, <1>9, <1>13, <2>1
    <2>4. QED
      BY <1>7, <1>12, <2>1, <2>2, <2>3 DEF Running
  <1>16. SequenceDistinct'
    <2> SUFFICES ASSUME NEW s \in SessionIds, NEW t \in SessionIds, s # t,
                        rows'[s] # Null, rows'[t] # Null
                 PROVE  rows'[s].seq # rows'[t].seq
      BY DEF SequenceDistinct
    <2>1. \A x \in SessionIds : rows'[x] # Null =>
             \/ rows[x] # Null /\ rows'[x].seq = rows[x].seq
             \/ x = c.id /\ rows'[x].seq = NextSeq
      BY <1>4, <1>9, ChangesLive
    <2>2. \A x \in SessionIds : rows[x] # Null => rows[x].seq \in Nat /\ rows[x].seq # NextSeq
      BY NextSeqAbove
    <2>3. rows[s] # Null /\ rows[t] # Null => rows[s].seq # rows[t].seq
      BY DEF CustomerInv, SequenceDistinct
    <2>4. QED
      BY <2>1, <2>2, <2>3
  <1>17. AckedRevocationsHold'
    <2> SUFFICES ASSUME NEW s \in SessionIds, told'[s] = "revoked"
                 PROVE  ~IsActive(rows'[s])
      BY DEF AckedRevocationsHold
    <2>1. CASE told[s] = "revoked"
      <3>1. ~IsActive(rows[s])
        BY <2>1 DEF CustomerInv, AckedRevocationsHold
      <3>2. QED
        BY <1>4, <1>9, <1>13, <2>1, <3>1 DEF IsActive
    <2>2. CASE s = c.id /\ c.kind = "drop"
      BY <1>5, <2>2 DEF IsActive
    <2>3. CASE s = c.id /\ c.kind = "revoke" /\ Transitions(i)
      <3>1. rows'[s].revoked_at \in Instants
        BY <1>4, <2>3, ChangesLive
      <3>2. QED
        BY ClockAssumption, <3>1 DEF IsActive
    <2>4. CASE s = c.id /\ c.kind = "revoke" /\ ~Transitions(i)
      <3>1. Expired(Target(i), c.now) \/ ~IsActive(Target(i))
        BY <2>4 DEF Transitions
      <3>2. CASE Expired(Target(i), c.now)
        BY <1>5, <2>4, <3>2 DEF IsActive
      <3>3. CASE ~IsActive(Target(i))
        <4>1. Naming(i)
          BY <1>1, <2>4 DEF Naming
        <4>2. ~IsActive(rows[s])
          <5>1. CASE seen[i].target = Null
            BY <2>4, <4>1, <5>1 DEF CustomerInv, NamesGiven, IsActive
          <5>2. CASE seen[i].target # Null
            BY <2>4, <3>3, <5>2 DEF Target
          <5>3. QED
            BY <5>1, <5>2
        <4>3. QED
          BY <1>4, <2>4, <4>2 DEF IsActive
      <3>4. QED
        BY <3>1, <3>2, <3>3
    <2>5. QED
      BY <1>7, <2>1, <2>2, <2>3, <2>4
  <1>18. StatementsNeverRaise'
    BY DEF Settled, CustomerInv, MapsTyped, StatementsNeverRaise
  <1>19. QED
    BY <1>8, <1>10, <1>11, <1>14, <1>15, <1>16, <1>17, <1>18 DEF CustomerInv

(* A call handed to an instance: of a session that is there.               *)
LEMMA CustomerCalledKeeps ==
  ASSUME CustomerInv, NEW i \in Stores, NEW call, Called(i, call), CustomerCall(call),
         told' = told, call.kind # "issue", call.kind # "sweep" => rows[call.id] # Null
  PROVE  CustomerInv'
  <1>1. \A j \in Stores : calls'[j] = (IF j = i THEN call ELSE calls[j])
    BY DEF Called, CustomerInv, MapsTyped
  <1>2. rows' = rows /\ seen' = seen /\ calls[i] = Null /\ ~Running(i)
    BY DEF Called, CustomerInv, CustomerCallsTyped
  <1>3. /\ MapsTyped' /\ CustomerRowsTyped' /\ SequenceDistinct'
        /\ AckedRevocationsHold' /\ StatementsNeverRaise'
    BY DEF Called, CustomerInv, MapsTyped, CustomerRowsTyped, SequenceDistinct,
           AckedRevocationsHold, StatementsNeverRaise
  <1>4. CustomerCallsTyped'
    BY <1>1, <1>2 DEF CustomerInv, CustomerCallsTyped, Running, CustomerCall
  <1>5. \A j \in Stores : Issuing(j)' => Issuing(j) /\ calls'[j] = calls[j]
    BY <1>1 DEF Issuing
  <1>6. IssuesFresh'
    BY <1>2, <1>5 DEF CustomerInv, IssuesFresh
  <1>7. NamesGiven'
    <2> SUFFICES ASSUME NEW j \in Stores, Naming(j)'
                 PROVE  /\ told[calls'[j].id] # "unminted"
                        /\ \A k \in Stores : Issuing(k)' => calls'[k].id # calls'[j].id
                        /\ Running(j)' /\ seen'[j].target = Null => rows'[calls'[j].id] = Null
      BY DEF NamesGiven
    <2>1. CASE j # i
      <3>1. Naming(j) /\ calls'[j] = calls[j] /\ seen'[j] = seen[j]
        BY <1>1, <1>2, <2>1 DEF Naming
      <3>2. QED
        BY <1>2, <1>5, <3>1 DEF CustomerInv, NamesGiven, Running
    <2>2. CASE j = i
      <3>1. call.kind # "sweep" /\ call.id \in SessionIds /\ rows[call.id] # Null
        BY <1>1, <2>2 DEF Naming, CustomerCall
      <3>2. told[call.id] # "unminted" /\ \A k \in Stores : Issuing(k) => calls[k].id # call.id
        BY <3>1 DEF CustomerInv, IssuesFresh
      <3>3. QED
        BY <1>1, <1>2, <1>5, <2>2, <3>2 DEF Running
    <2>3. QED
      BY <2>1, <2>2
  <1>8. QED
    BY <1>3, <1>4, <1>6, <1>7 DEF CustomerInv

LEMMA CustomerIssueKeeps ==
  ASSUME CustomerInv, NEW i \in Stores, NEW subject \in Subjects,
         NEW kyc \in {"kyc-gated", "verified"}, NEW now \in Instants,
         CustomerIssueCalled(i, subject, kyc, now)
  PROVE  CustomerInv'
  <1> DEFINE issue(x) ==
               [kind |-> "issue", id |-> x, subject |-> subject, kyc |-> kyc, now |-> now]
  <1>1. PICK s \in SessionIds :
          /\ told[s] = "unminted" /\ Called(i, issue(s))
          /\ told' = [told EXCEPT ![s] = "minted"]
    BY DEF CustomerIssueCalled
  <1> DEFINE call == issue(s)
  <1>2. CustomerCall(call) /\ call.kind = "issue" /\ call.id = s
    BY DEF CustomerCall
  <1> HIDE DEF call
  <1>3. \A j \in Stores : calls'[j] = (IF j = i THEN call ELSE calls[j])
    BY <1>1 DEF Called, CustomerInv, MapsTyped, call
  <1>4. rows' = rows /\ seen' = seen /\ failure' = failure /\ calls[i] = Null /\ ~Running(i)
    BY <1>1 DEF Called, CustomerInv, CustomerCallsTyped
  <1>5. \A r \in SessionIds : told'[r] = (IF r = s THEN "minted" ELSE told[r])
    BY <1>1 DEF CustomerInv, MapsTyped
  <1>6. MapsTyped' /\ CustomerRowsTyped' /\ SequenceDistinct' /\ StatementsNeverRaise'
    BY <1>1, <1>4, SMTT(30) DEF Called, CustomerInv, MapsTyped, CustomerRowsTyped, SequenceDistinct,
                      StatementsNeverRaise
  <1>7. AckedRevocationsHold'
    BY <1>4, <1>5 DEF CustomerInv, AckedRevocationsHold
  <1>8. CustomerCallsTyped'
    BY <1>2, <1>3, <1>4 DEF CustomerInv, CustomerCallsTyped, Running, CustomerCall
  <1>9. /\ rows[s] = Null
        /\ \A j \in Stores : Issuing(j) \/ Naming(j) => calls[j].id \in SessionIds \ {s}
    BY <1>1 DEF CustomerInv, IssuesFresh, NamesGiven, CustomerCallsTyped, CustomerCall, Issuing, Naming
  <1>10. \A j \in Stores :
           Issuing(j)' => \/ j = i /\ calls'[j].id = s
                          \/ j # i /\ Issuing(j) /\ calls'[j] = calls[j]
    BY <1>2, <1>3 DEF Issuing
  <1>11. \A j \in Stores : Naming(j)' => j # i /\ Naming(j) /\ calls'[j] = calls[j]
    BY <1>2, <1>3 DEF Naming
  <1>12. IssuesFresh'
    BY <1>1, <1>4, <1>5, <1>9, <1>10 DEF CustomerInv, IssuesFresh
  <1>13. NamesGiven'
    <2> SUFFICES ASSUME NEW j \in Stores, Naming(j)'
                 PROVE  /\ told'[calls'[j].id] # "unminted"
                        /\ \A k \in Stores : Issuing(k)' => calls'[k].id # calls'[j].id
                        /\ Running(j)' /\ seen'[j].target = Null => rows'[calls'[j].id] = Null
      BY DEF NamesGiven
    <2>1. /\ Naming(j) /\ calls'[j] = calls[j] /\ calls[j].id \in SessionIds /\ calls[j].id # s
      BY <1>9, <1>11
    <2>2. QED
      BY <1>4, <1>5, <1>10, <2>1 DEF CustomerInv, NamesGiven, Running
  <1>14. QED
    BY <1>6, <1>7, <1>8, <1>12, <1>13 DEF CustomerInv

(* The steps that take no effect on the table but an eviction.             *)
LEMMA CustomerQuietKeeps ==
  ASSUME CustomerInv, NEW i \in Stores,
         \/ CustomerBegin(i) \/ RollBack(i) \/ Initialize(i)
         \/ \E s \in SessionIds, now \in Instants : Get(i, s, now)
  PROVE  CustomerInv'
  <1>1. told' = told /\ \A s \in SessionIds : rows'[s] \in {Null, rows[s]}
    BY DEF CustomerBegin, RollBack, Initialize, Get, CustomerInv, MapsTyped
  <1>2. \A j \in Stores : calls'[j] = calls[j] \/ (calls'[j] = Null /\ seen'[j] = Null)
    BY DEF CustomerBegin, RollBack, Initialize, Get, Settled, CustomerInv, MapsTyped
  <1>3. \A j \in Stores : seen'[j] # Null => (seen[j] # Null \/ calls'[j] # Null)
    BY DEF CustomerBegin, RollBack, Initialize, Get, Settled, CustomerInv, MapsTyped
  <1>4. MapsTyped' /\ StatementsNeverRaise'
    BY DEF CustomerBegin, RollBack, Initialize, Get, Settled, CustomerInv, MapsTyped,
           StatementsNeverRaise
  <1>5. CustomerRowsTyped' /\ AckedRevocationsHold' /\ SequenceDistinct'
    BY <1>1 DEF CustomerInv, CustomerRowsTyped, AckedRevocationsHold, SequenceDistinct, IsActive
  <1>6. CustomerCallsTyped'
    BY <1>2, <1>3 DEF CustomerInv, CustomerCallsTyped, Running, CustomerCall
  <1>7. \A j \in Stores :
          /\ Issuing(j)' => Issuing(j) /\ calls'[j] = calls[j] /\ calls[j].id \in SessionIds
          /\ Naming(j)' => Naming(j) /\ calls'[j] = calls[j] /\ calls[j].id \in SessionIds
    BY <1>2 DEF Issuing, Naming, CustomerInv, CustomerCallsTyped, CustomerCall
  <1>8. IssuesFresh'
    BY <1>1, <1>7 DEF CustomerInv, IssuesFresh
  <1>9. NamesGiven'
    <2> SUFFICES ASSUME NEW j \in Stores, Naming(j)'
                 PROVE  /\ told[calls'[j].id] # "unminted"
                        /\ \A k \in Stores : Issuing(k)' => calls'[k].id # calls'[j].id
                        /\ Running(j)' /\ seen'[j].target = Null => rows'[calls'[j].id] = Null
      BY <1>1 DEF NamesGiven
    <2>1. Naming(j) /\ calls'[j] = calls[j] /\ calls[j].id \in SessionIds
      BY <1>7
    <2>2. /\ told[calls[j].id] # "unminted"
          /\ \A k \in Stores : Issuing(k) => calls[k].id # calls[j].id
          /\ Running(j) /\ seen[j].target = Null => rows[calls[j].id] = Null
      BY <2>1 DEF CustomerInv, NamesGiven
    <2>3. Running(j)' /\ seen'[j].target = Null =>
            (Running(j) /\ seen[j].target = Null) \/ rows[calls[j].id] = Null
      <3>1. CASE CustomerBegin(i)
        <4>1. Found(calls[j]) = rows[calls[j].id]
          BY <2>1 DEF Naming, Found
        <4>2. j # i => seen'[j] = seen[j]
          BY <3>1 DEF CustomerBegin, CustomerInv, MapsTyped
        <4>3. j = i => seen'[j].target = Found(calls[j])
          BY <3>1 DEF CustomerBegin, CustomerInv, MapsTyped
        <4>4. QED
          BY <4>1, <4>2, <4>3 DEF Running
      <3>2. CASE ~CustomerBegin(i)
        <4>1. seen'[j] \in {Null, seen[j]}
          BY <3>2 DEF RollBack, Initialize, Get, Settled, CustomerInv, MapsTyped
        <4>2. QED
          BY <4>1 DEF Running
      <3>3. QED
        BY <3>1, <3>2
    <2>4. QED
      BY <1>1, <1>7, <2>1, <2>2, <2>3
  <1>10. QED
    BY <1>4, <1>5, <1>6, <1>8, <1>9 DEF CustomerInv

LEMMA CustomerInvKept ==
  ASSUME CustomerInv, [CustomersNext]_vars
  PROVE  CustomerInv'
  <1>1. CASE UNCHANGED vars
    BY <1>1 DEF vars, CustomerInv, MapsTyped, CustomerRowsTyped, CustomerCallsTyped, Running,
                IssuesFresh, Issuing, Naming, NamesGiven, SequenceDistinct,
                AckedRevocationsHold, StatementsNeverRaise, CustomerCall
  <1>2. CASE CustomersNext
    <2> SUFFICES ASSUME NEW i \in Stores,
                        \/ \E now \in Instants :
                             \/ \E subject \in Subjects, kyc \in {"kyc-gated", "verified"} :
                                  CustomerIssueCalled(i, subject, kyc, now)
                             \/ SweepCalled(i, now)
                             \/ \E s \in SessionIds :
                                  \/ \E kind \in {"touch", "verify"} :
                                       CurrentSessionCalled(i, s, kind, now)
                                  \/ RevokeCalled(i, s, now) \/ Get(i, s, now)
                        \/ \E s \in SessionIds : DropCalled(i, s)
                        \/ CustomerBegin(i) \/ CustomerCommit(i) \/ CustomerCommitUnanswered(i)
                        \/ RollBack(i) \/ Initialize(i)
                 PROVE  CustomerInv'
      BY <1>2 DEF CustomersNext
    <2>1. ASSUME NEW now \in Instants, NEW subject \in Subjects,
                 NEW kyc \in {"kyc-gated", "verified"},
                 CustomerIssueCalled(i, subject, kyc, now)
          PROVE  CustomerInv'
      BY <2>1, CustomerIssueKeeps
    <2>2. ASSUME NEW now \in Instants, SweepCalled(i, now)
          PROVE  CustomerInv'
      <3> DEFINE call == [kind |-> "sweep", now |-> now]
      <3>1. CustomerCall(call) /\ call.kind = "sweep"
        BY DEF CustomerCall
      <3>2. QED
        BY <2>2, <3>1, CustomerCalledKeeps DEF SweepCalled
    <2>3. ASSUME NEW now \in Instants, NEW s \in SessionIds,
                 NEW kind \in {"touch", "verify", "revoke"}, rows[s] # Null,
                 Called(i, [kind |-> kind, id |-> s, now |-> now]), told' = told
          PROVE  CustomerInv'
      <3> DEFINE call == [kind |-> kind, id |-> s, now |-> now]
      <3>1. CustomerCall(call) /\ call.kind # "issue" /\ call.id = s
        BY DEF CustomerCall
      <3>2. QED
        BY <2>3, <3>1, CustomerCalledKeeps
    <2>4. ASSUME NEW now \in Instants, NEW s \in SessionIds,
                 \/ \E kind \in {"touch", "verify"} : CurrentSessionCalled(i, s, kind, now)
                 \/ RevokeCalled(i, s, now)
          PROVE  CustomerInv'
      BY <2>3, <2>4 DEF CurrentSessionCalled, RevokeCalled, IsActive, Known
    <2>5. ASSUME NEW s \in SessionIds, DropCalled(i, s)
          PROVE  CustomerInv'
      <3> DEFINE call == [kind |-> "drop", id |-> s, now |-> 0]
      <3>1. CustomerCall(call) /\ call.kind # "issue" /\ call.id = s
        BY DEF CustomerCall
      <3>2. QED
        BY <2>5, <3>1, CustomerCalledKeeps DEF DropCalled, Known
    <2>6. CASE CustomerCommit(i)
      <3>1. Running(i) /\ ~CustomerRaises(i)
        BY <2>6, CustomersNeverRaise DEF CustomerCommit
      <3>2. PICK result \in CustomerResults(i) : rows' = result.rows
        BY <2>6, <3>1 DEF CustomerCommit
      <3>3. told' = CustomerAnswered(i) /\ Settled(i, "none")
        BY <2>6, <3>1 DEF CustomerCommit
      <3>4. QED
        BY <3>1, <3>2, <3>3, CustomerCommitKeeps
    <2>7. CASE CustomerCommitUnanswered(i)
      <3>1. Running(i) /\ told' = told /\ Settled(i, "lost")
        BY <2>7 DEF CustomerCommitUnanswered
      <3>2. PICK result \in CustomerResults(i) : rows' = result.rows
        BY <2>7 DEF CustomerCommitUnanswered
      <3>3. QED
        BY <3>1, <3>2, CustomerCommitKeeps
    <2>8. QED
      BY <2>1, <2>2, <2>4, <2>5, <2>6, <2>7, CustomerQuietKeeps
  <1>3. QED
    BY <1>1, <1>2

(* A customer who was told that a session is revoked, or who logged out of *)
(* it, never sees it live again, whatever the store found, whatever other  *)
(* instances do, over lost answers and retries (revoke and drop of         *)
(* postgres-session-store.ts).                                             *)
THEOREM CustomerRevocationsHold == CustomerSpec => []AckedRevocationsHold
  <1>1. CustomerInv => AckedRevocationsHold
    BY DEF CustomerInv
  <1>2. CustomerInv /\ [CustomersNext]_vars => CustomerInv'
    BY CustomerInvKept
  <1>3. QED
    BY <1>1, <1>2, CustomerInit, PTL DEF CustomerSpec

(* No interleaving makes a statement write what reject_session_mutation of *)
(* 0001_customer_sessions.sql refuses.                                     *)
THEOREM NoCustomerStatementRaises == CustomerSpec => []StatementsNeverRaise
  <1>1. CustomerInv => StatementsNeverRaise
    BY DEF CustomerInv
  <1>2. CustomerInv /\ [CustomersNext]_vars => CustomerInv'
    BY CustomerInvKept
  <1>3. QED
    BY <1>1, <1>2, CustomerInit, PTL DEF CustomerSpec
-----------------------------------------------------------------------------
(* The bounds of the Mini App's store.  A revocation leaves one tombstone  *)
(* less beside its own than that of customer-api; a second revocation of   *)
(* the same session therefore evicts nothing, as in memory.                *)
KeptBeside == IF MaxRevoked = 0 THEN 0 ELSE MaxRevoked - 1

CustomerBoundsInv ==
  CustomerInv /\ Bounded(KeptBeside) /\ RoomLeft(KeptBeside) /\ LocksExclude

LEMMA KeptBesideTyped ==
  /\ KeptBeside \in Nat /\ KeptBeside + 1 <= MaxRevoked + 1 /\ MaxRevoked - 1 <= KeptBeside
  /\ MaxRevoked - 1 \in Int /\ MaxRevoked \in Int
  /\ MaxRevoked # 0 => MaxRevoked - 1 \in Nat /\ KeptBeside = MaxRevoked - 1
  /\ MaxRevoked = 0 => KeptBeside = 0 /\ MaxRevoked - 1 = -1
  BY BoundsAssumption DEF KeptBeside

LEMMA CustomerStoreBounds ==
  ASSUME CustomerBoundsInv
  PROVE  TableBounds(KeptBeside)
  BY DEF CustomerBoundsInv, CustomerInv, CustomerCallsTyped, CustomerCall, Issuing,
         TableBounds, CallsNamed

LEMMA NewestKeep ==
  ASSUME CustomerInv, NEW ids \in SUBSET SessionIds, \A s \in ids : rows[s] # Null,
         NEW keep \in Nat
  PROVE  Cardinality(ids \ BeyondNewest(ids, keep)) <= keep
  <1> DEFINE value == [s \in ids |-> rows[s].seq]
  <1>1. value \in [ids -> Int]
    BY NextSeqAbove
  <1>2. IsFiniteSet(ids) /\ ids \subseteq Int
    BY BoundsAssumption, FS_Subset
  <1>3. \A t \in ids : RankedBefore(value, ids, t) = {s \in ids : rows[s].seq > rows[t].seq}
    <2> SUFFICES ASSUME NEW t \in ids, NEW s \in ids
                 PROVE  (\/ value[s] > value[t]
                         \/ value[s] = value[t] /\ s < t) <=> rows[s].seq > rows[t].seq
      BY DEF RankedBefore
    <2>1. value[s] = rows[s].seq /\ value[t] = rows[t].seq
      OBVIOUS
    <2>2. rows[s].seq = rows[t].seq => s = t
      BY DEF CustomerInv, SequenceDistinct
    <2>3. ~(s < s)
      BY <1>2
    <2> HIDE DEF value
    <2>4. QED
      BY <2>1, <2>2, <2>3
  <1> HIDE DEF value
  <1>4. PastOffset(value, ids, keep) = BeyondNewest(ids, keep)
    BY <1>3 DEF PastOffset, BeyondNewest
  <1>5. QED
    BY <1>1, <1>2, <1>4, OffsetOfRanks

LEMMA FewAreNewest ==
  ASSUME CustomerInv, NEW ids \in SUBSET SessionIds, \A s \in ids : rows[s] # Null,
         NEW keep \in Int, ids = {} \/ Cardinality(ids) <= keep
  PROVE  BeyondNewest(ids, keep) = {}
  <1> SUFFICES ASSUME NEW t \in ids,
                      Cardinality({s \in ids : rows[s].seq > rows[t].seq}) >= keep
               PROVE  FALSE
    BY DEF BeyondNewest
  <1> DEFINE ahead == {s \in ids : rows[s].seq > rows[t].seq}
  <1>1. IsFiniteSet(ids) /\ IsFiniteSet(ahead) /\ Cardinality(ids) \in Nat
    BY SessionsFinite
  <1>2. t \in ids /\ t \notin ahead /\ ahead \subseteq ids
    BY NextSeqAbove
  <1>3. Cardinality(ahead) \in Nat /\ Cardinality(ahead) < Cardinality(ids)
    <2> HIDE DEF ahead
    <2>1. Cardinality(ahead) <= Cardinality(ids) /\ Cardinality(ahead) # Cardinality(ids)
      BY <1>1, <1>2, FS_Subset
    <2>2. QED
      BY <1>1, <2>1, FS_CardinalityType
  <1>4. QED
    BY <1>1, <1>3

LEMMA CustomerBeginLeavesRoom ==
  ASSUME CustomerBoundsInv, NEW i \in Stores, CustomerBegin(i)
  PROVE  Bounded(KeptBeside)' /\ RoomLeft(KeptBeside)' /\ LocksExclude'
  <1> DEFINE c == calls[i]
             doomed == CustomerDoomed(c)
  <1>1. CustomerInv /\ c # Null /\ CustomerCall(c) /\ ~Running(i)
    BY DEF CustomerBoundsInv, CustomerInv, CustomerCallsTyped, CustomerBegin
  <1>2. TableBounds(KeptBeside)
    BY CustomerStoreBounds
  <1>3. ASSUME c.kind = "issue"
        PROVE  Cardinality(Actives(c.subject) \ doomed) <= MaxPerSubject - 1
    <2> DEFINE mine == ActivesOf(c.subject, c.now)
               over == BeyondNewest(mine, MaxPerSubject - 1)
    <2>1. doomed = AllExpired(c.now) \cup over
      BY <1>3 DEF CustomerDoomed
    <2>2. Actives(c.subject) \ doomed \subseteq mine \ over
      BY <2>1 DEF Actives, ActivesOf, AllExpired
    <2>3. MaxPerSubject - 1 \in Nat
      BY BoundsAssumption
    <2>4. mine \in SUBSET SessionIds /\ \A s \in mine : rows[s] # Null
      BY DEF ActivesOf, IsActive
    <2>5. Cardinality(mine \ over) <= MaxPerSubject - 1
      <3> HIDE DEF mine
      <3>1. QED
        BY <1>1, <2>3, <2>4, NewestKeep
    <2>6. IsFiniteSet(mine \ over)
      BY SessionsFinite DEF ActivesOf
    <2> HIDE DEF mine, over, doomed
    <2>7. QED
      BY <2>2, <2>3, <2>5, <2>6, SubsetBounded
  <1>4. ASSUME c.kind = "revoke", rows[c.id] # Null
        PROVE  /\ rows[c.id].subject \in Subjects /\ told[c.id] # "unminted"
               /\ \A j \in Stores : Issuing(j) => calls[j].id # c.id
               /\ Cardinality(Tombstones(rows[c.id].subject) \ (doomed \cup {c.id})) <= KeptBeside
    <2> DEFINE mine == TombstonesBeside(c.id)
               over == BeyondNewest(mine, MaxRevoked - 1)
    <2>1. c.id \in SessionIds
      BY <1>1, <1>4 DEF CustomerCall
    <2>2. doomed = over
      BY <1>4 DEF CustomerDoomed
    <2>3. rows[c.id].subject \in Subjects
      BY <1>1, <1>4, <2>1 DEF CustomerInv, CustomerRowsTyped, CustomerRecord
    <2>4. told[c.id] # "unminted" /\ \A j \in Stores : Issuing(j) => calls[j].id # c.id
      BY <1>1, <1>4, <2>1 DEF CustomerInv, IssuesFresh
    <2>5. Tombstones(rows[c.id].subject) \ (doomed \cup {c.id}) \subseteq mine \ over
      BY <2>2 DEF Tombstones, TombstonesBeside
    <2>6. mine \in SUBSET SessionIds /\ \A s \in mine : rows[s] # Null
      BY DEF TombstonesBeside, IsRevoked
    <2>7. IsFiniteSet(mine \ over) /\ IsFiniteSet(mine)
      BY SessionsFinite DEF TombstonesBeside
    <2>8. Cardinality(mine \ over) <= KeptBeside
      <3>1. CASE MaxRevoked # 0
        <4> HIDE DEF mine
        <4>1. QED
          BY <1>1, <2>6, <3>1, KeptBesideTyped, NewestKeep
      <3>2. CASE MaxRevoked = 0
        <4>1. \A t \in mine : Cardinality({s \in mine : rows[s].seq > rows[t].seq}) >= -1
          BY SessionsFinite DEF TombstonesBeside
        <4>2. mine \ over = {}
          BY <3>2, <4>1, KeptBesideTyped DEF BeyondNewest
        <4> HIDE DEF mine, over
        <4>3. QED
          BY <3>2, <4>2, KeptBesideTyped, FS_EmptySet
      <3>3. QED
        BY <3>1, <3>2
    <2> HIDE DEF mine, over, doomed
    <2>9. QED
      BY <2>3, <2>4, <2>5, <2>7, <2>8, KeptBesideTyped, SubsetBounded
  <1>5. /\ SubjectFree(i) /\ UNCHANGED <<rows, calls, told>>
        /\ seen' = [seen EXCEPT ![i] = [locked |-> LockedSubject(c), doomed |-> doomed,
                                        target |-> Found(c)]]
    BY DEF CustomerBegin
  <1> HIDE DEF doomed
  <1>6. QED
    BY <1>1, <1>2, <1>3, <1>4, <1>5, KeptBesideTyped, SnapshotBounds

(* A statement that commits, answered or not.                              *)
LEMMA CustomerCommitBounds ==
  ASSUME CustomerBoundsInv, NEW i \in Stores, Running(i),
         NEW result \in CustomerResults(i), rows' = result.rows,
         told' \in {told, CustomerAnswered(i)}, NEW outcome, Settled(i, outcome)
  PROVE  Bounded(KeptBeside)' /\ RoomLeft(KeptBeside)' /\ LocksExclude'
  <1> DEFINE c == calls[i]
             new == CustomerUpdate(c, rows[c.id])
  <1>1. TableBounds(KeptBeside) /\ KeptBeside \in Nat
    BY CustomerStoreBounds, KeptBesideTyped
  <1>2. CustomerInv /\ CustomerCall(c) /\ c # Null
    BY DEF CustomerBoundsInv, CustomerInv, CustomerCallsTyped
  <1>3. PICK gone :
          /\ result.rows =
               [s \in SessionIds |->
                  IF s = c.id /\ c.kind = "issue" THEN CustomerRow(c)
                  ELSE IF s = c.id /\ Transitions(i) THEN CustomerUpdate(c, rows[s])
                  ELSE IF s \in gone THEN Null ELSE rows[s]]
          /\ c.kind = "issue" \/ (c.kind = "revoke" /\ Transitions(i))
               => seen[i].doomed \subseteq gone
    BY <1>2, CustomerLeaves
  <1>4. \A s \in SessionIds : told[s] # "unminted" => told'[s] # "unminted"
    BY <1>2 DEF CustomerAnswered, CustomerInv, MapsTyped
  <1>5. CASE c.kind = "issue"
    <2>1. told' = told /\ c.id \in SessionIds
      BY <1>2, <1>5 DEF CustomerAnswered, CustomerCall
    <2>2. CustomerRow(c).subject = c.subject /\ ~IsRevoked(CustomerRow(c))
      BY DEF CustomerRow, IsRevoked
    <2>3. \A s \in SessionIds :
            IF s = c.id THEN rows'[s] = CustomerRow(c)
            ELSE rows'[s] = Null \/ (s \notin seen[i].doomed /\ rows'[s] = rows[s])
      BY <1>3, <1>5
    <2>4. QED
      BY <1>1, <1>5, <2>1, <2>2, <2>3, IssuedBounds
  <1>6. CASE c.kind = "revoke" /\ Transitions(i)
    <2>1. /\ c.id \in SessionIds /\ seen[i].target # Null /\ IsActive(rows[c.id])
          /\ new.subject = rows[c.id].subject /\ new.revoked_at \in Instants
      BY <1>2, <1>6, ChangesLive
    <2>2. ~IsActive(new)
      BY ClockAssumption, <2>1 DEF IsActive
    <2>3. \A s \in SessionIds :
            IF s = c.id THEN rows'[s] = new
            ELSE rows'[s] = Null \/ (s \notin seen[i].doomed /\ rows'[s] = rows[s])
      BY <1>3, <1>6
    <2> HIDE DEF new
    <2>4. QED
      BY <1>1, <1>4, <1>6, <2>1, <2>2, <2>3, RevokedBounds
  <1>7. CASE c.kind # "issue" /\ ~(c.kind = "revoke" /\ Transitions(i))
    <2>1. ASSUME NEW s \in SessionIds, rows'[s] # Null
          PROVE  /\ rows[s] # Null /\ rows'[s].subject = rows[s].subject
                 /\ IsActive(rows'[s]) => IsActive(rows[s])
                 /\ IsRevoked(rows'[s]) => IsRevoked(rows[s])
      <3>1. CASE s = c.id /\ Transitions(i)
        <4>1. rows'[s] = new
          BY <1>3, <1>7, <3>1
        <4>2. /\ rows[s] # Null /\ IsActive(rows[s])
              /\ new.subject = rows[s].subject /\ new.revoked_at = Null
          BY <1>2, <1>7, <3>1, ChangesLive
        <4>3. QED
          BY <4>1, <4>2 DEF IsActive, IsRevoked
      <3>2. CASE ~(s = c.id /\ Transitions(i))
        BY <1>3, <1>7, <2>1, <3>2
      <3>3. QED
        BY <3>1, <3>2
    <2>2. \A j \in Stores : /\ seen'[j] = (IF j = i THEN Null ELSE seen[j])
                            /\ calls'[j] = (IF j = i THEN Null ELSE calls[j])
      BY <1>2 DEF Settled, CustomerInv, MapsTyped
    <2>3. \A j \in Stores : Issuing(j)' => Issuing(j) /\ calls'[j].id = calls[j].id
      BY <2>2 DEF Issuing
    <2>4. QED
      BY <1>1, <1>4, <2>1, <2>2, <2>3, ShrinkKeeps
  <1>8. QED
    BY <1>5, <1>6, <1>7

(* Calls, failures, restarts and the eviction of a get.                    *)
LEMMA CustomerQuietBounds ==
  ASSUME CustomerBoundsInv, NEW i \in Stores,
         \/ \E call : Called(i, call) /\ told' = told /\ call.kind # "issue"
         \/ \E subject, kyc, now : CustomerIssueCalled(i, subject, kyc, now)
         \/ RollBack(i) \/ Initialize(i)
         \/ \E s \in SessionIds, now \in Instants : Get(i, s, now)
  PROVE  Bounded(KeptBeside)' /\ RoomLeft(KeptBeside)' /\ LocksExclude'
  <1>1. CustomerInv
    BY DEF CustomerBoundsInv
  <1>2. \A s \in SessionIds : rows'[s] \in {Null, rows[s]}
    BY <1>1 DEF Called, CustomerIssueCalled, RollBack, Initialize, Get, CustomerInv, MapsTyped
  <1>3. \A s \in SessionIds : told[s] # "unminted" => told'[s] # "unminted"
    BY <1>1 DEF Called, CustomerIssueCalled, RollBack, Initialize, Get, CustomerInv, MapsTyped
  <1>4. \A j \in Stores : seen'[j] # Null => seen'[j] = seen[j] /\ calls'[j] = calls[j]
    <2>1. \A j \in Stores : seen[j] # Null => calls[j] # Null
      BY <1>1 DEF CustomerInv, CustomerCallsTyped, Running
    <2>2. QED
      BY <1>1, <2>1 DEF Called, CustomerIssueCalled, RollBack, Initialize, Get, Settled,
                        CustomerInv, MapsTyped
  <1>5. \A j \in Stores : Issuing(j)' =>
          \/ Issuing(j) /\ calls'[j].id = calls[j].id
          \/ calls'[j].id \in SessionIds /\ told[calls'[j].id] = "unminted"
    BY <1>1 DEF Issuing, Called, CustomerIssueCalled, RollBack, Initialize, Get, Settled,
                CustomerInv, MapsTyped
  <1>6. \A s \in SessionIds : rows'[s] # Null => rows'[s] = rows[s] /\ rows[s] # Null
    BY <1>2
  <1>7. TableBounds(KeptBeside) /\ KeptBeside \in Nat
    BY CustomerStoreBounds, KeptBesideTyped
  <1>8. QED
    BY <1>3, <1>4, <1>5, <1>6, <1>7, ShrinkKeeps

LEMMA CustomerBoundsKept ==
  ASSUME CustomerBoundsInv, [CustomersNext]_vars
  PROVE  CustomerBoundsInv'
  <1>1. CustomerInv'
    BY CustomerInvKept DEF CustomerBoundsInv
  <1>2. CASE UNCHANGED vars
    BY <1>1, <1>2 DEF vars, CustomerBoundsInv, Bounded, Actives, Tombstones, RoomLeft,
                     LocksExclude, Running, IssueLeavesRoom, RevokeLeavesRoom, Issuing
  <1>3. CASE CustomersNext
    <2>1. PICK i \in Stores :
            \/ \E now \in Instants :
                 \/ \E subject \in Subjects, kyc \in {"kyc-gated", "verified"} :
                      CustomerIssueCalled(i, subject, kyc, now)
                 \/ SweepCalled(i, now)
                 \/ \E s \in SessionIds :
                      \/ \E kind \in {"touch", "verify"} : CurrentSessionCalled(i, s, kind, now)
                      \/ RevokeCalled(i, s, now) \/ Get(i, s, now)
            \/ \E s \in SessionIds : DropCalled(i, s)
            \/ CustomerBegin(i) \/ CustomerCommit(i) \/ CustomerCommitUnanswered(i)
            \/ RollBack(i) \/ Initialize(i)
      BY <1>3 DEF CustomersNext
    <2>2. CASE CustomerCommit(i) \/ CustomerCommitUnanswered(i)
      <3>1. CustomerInv /\ Running(i)
        BY <2>2 DEF CustomerCommit, CustomerCommitUnanswered, CustomerBoundsInv
      <3>2. ~CustomerRaises(i)
        BY <3>1, CustomersNeverRaise
      <3>3. PICK result \in CustomerResults(i) : rows' = result.rows
        BY <2>2, <3>2 DEF CustomerCommit, CustomerCommitUnanswered
      <3>4. /\ told' \in {told, CustomerAnswered(i)}
            /\ \E outcome : Settled(i, outcome)
        BY <2>2, <3>2 DEF CustomerCommit, CustomerCommitUnanswered
      <3>5. QED
        BY <1>1, <3>1, <3>3, <3>4, CustomerCommitBounds DEF CustomerBoundsInv
    <2>3. CASE CustomerBegin(i)
      BY <1>1, <2>3, CustomerBeginLeavesRoom DEF CustomerBoundsInv
    <2>4. ASSUME NEW call, Called(i, call), told' = told, call.kind # "issue"
          PROVE  CustomerBoundsInv'
      BY <1>1, <2>4, CustomerQuietBounds DEF CustomerBoundsInv
    <2>5. CASE \E now \in Instants : SweepCalled(i, now)
      <3>1. \A now : [kind |-> "sweep", now |-> now].kind # "issue"
        OBVIOUS
      <3>2. QED
        BY <2>4, <2>5, <3>1 DEF SweepCalled
    <2>6. CASE \/ \E now \in Instants, s \in SessionIds :
                    \/ \E kind \in {"touch", "verify"} : CurrentSessionCalled(i, s, kind, now)
                    \/ RevokeCalled(i, s, now)
               \/ \E s \in SessionIds : DropCalled(i, s)
      <3>1. PICK kind \in {"touch", "verify", "revoke", "drop"}, s \in SessionIds,
                 now \in Instants \cup {0} :
              Called(i, [kind |-> kind, id |-> s, now |-> now]) /\ told' = told
        BY <2>6 DEF CurrentSessionCalled, RevokeCalled, DropCalled
      <3>2. [kind |-> kind, id |-> s, now |-> now].kind # "issue"
        OBVIOUS
      <3>3. QED
        BY <2>4, <3>1, <3>2
    <2>7. CASE \/ \E now \in Instants :
                    \/ \E subject \in Subjects, kyc \in {"kyc-gated", "verified"} :
                         CustomerIssueCalled(i, subject, kyc, now)
                    \/ \E s \in SessionIds : Get(i, s, now)
               \/ RollBack(i) \/ Initialize(i)
      BY <1>1, <2>7, CustomerQuietBounds DEF CustomerBoundsInv
    <2>8. QED
      BY <2>1, <2>2, <2>3, <2>5, <2>6, <2>7
  <1>4. QED
    BY <1>2, <1>3

LEMMA CustomerBoundsInit == Init => CustomerBoundsInv
  <1> SUFFICES ASSUME Init PROVE CustomerBoundsInv
    OBVIOUS
  <1>1. \A subject : Actives(subject) = {} /\ Tombstones(subject) = {}
    BY DEF Init, Actives, Tombstones, IsActive, IsRevoked
  <1>2. Bounded(KeptBeside)
    <2>1. Cardinality({}) = 0
      BY FS_EmptySet
    <2>2. 0 <= MaxPerSubject /\ 0 <= KeptBeside + 1
      BY BoundsAssumption, KeptBesideTyped
    <2>3. QED
      BY <1>1, <2>1, <2>2 DEF Bounded
  <1>3. RoomLeft(KeptBeside) /\ LocksExclude
    BY DEF Init, RoomLeft, LocksExclude, Running
  <1>4. QED
    BY <1>2, <1>3, CustomerInit DEF CustomerBoundsInv

LEMMA CustomerBoundsAlways == CustomerSpec => []CustomerBoundsInv
  BY CustomerBoundsInit, CustomerBoundsKept, PTL DEF CustomerSpec

(* However instances interleave, a customer keeps at most the bound of     *)
(* sessions and no more than one revoked session above its bound (ISSUE    *)
(* and REVOKE of miniapp/src/server/postgres-session-store.ts, under the   *)
(* advisory lock of their subject).                                        *)
THEOREM CustomerBoundsHold == CustomerSpec => []SubjectsBounded
  <1>1. CustomerBoundsInv => SubjectsBounded
    <2> SUFFICES ASSUME CustomerBoundsInv, NEW subject \in Subjects
                 PROVE  LET mine == {s \in SessionIds :
                                       rows[s] # Null /\ rows[s].subject = subject}
                        IN  /\ Cardinality({s \in mine : IsActive(rows[s])}) <= MaxPerSubject
                            /\ Cardinality({s \in mine : IsRevoked(rows[s])}) <= MaxRevoked + 1
      BY DEF SubjectsBounded
    <2> DEFINE mine == {s \in SessionIds : rows[s] # Null /\ rows[s].subject = subject}
    <2>1. /\ {s \in mine : IsActive(rows[s])} = Actives(subject)
          /\ {s \in mine : IsRevoked(rows[s])} = Tombstones(subject)
      BY DEF Actives, Tombstones, IsActive, IsRevoked
    <2>2. /\ Cardinality(Actives(subject)) <= MaxPerSubject
          /\ Cardinality(Tombstones(subject)) <= KeptBeside + 1
      BY DEF CustomerBoundsInv, Bounded
    <2>3. Cardinality(Tombstones(subject)) \in Nat
      BY SessionsFinite DEF Tombstones
    <2>4. Cardinality(Tombstones(subject)) <= MaxRevoked + 1
      BY <2>2, <2>3, KeptBesideTyped
    <2> HIDE DEF mine
    <2>5. QED
      BY ONLY <2>1, <2>2, <2>4 DEF mine
  <1>2. QED
    BY <1>1, CustomerBoundsAlways, PTL
-----------------------------------------------------------------------------
(* The statements of the Mini App's store and its memory backend.          *)
CustomerAlike(i) == CustomerResults(i) = {MemoryAnswers(calls[i])}

LEMMA CustomerIssuesAlike ==
  ASSUME CustomerInv, NEW i \in Stores, Undisturbed(i), calls[i].kind = "issue"
  PROVE  CustomerAlike(i)
  <1> DEFINE c == calls[i]
             swept == Without(AllExpired(c.now))
             actives == {s \in SessionIds : IsActive(swept[s]) /\ swept[s].subject = c.subject}
             over == BeyondNewest(actives, MaxPerSubject - 1)
             kept == [s \in SessionIds |-> IF s \in over THEN Null ELSE swept[s]]
  <1>1. seen[i].doomed = CustomerDoomed(c)
    BY DEF Undisturbed
  <1>2. actives = ActivesOf(c.subject, c.now)
    BY DEF ActivesOf, AllExpired, Without, IsActive
  <1>3. CustomerDoomed(c) = AllExpired(c.now) \cup over
    BY <1>2 DEF CustomerDoomed
  <1> HIDE DEF over
  <1>4. Without(seen[i].doomed) = kept
    BY <1>1, <1>3 DEF Without
  <1>5. MemoryIssue(c) = Leaves([kept EXCEPT ![c.id] = CustomerRow(c)], CustomerRow(c))
    BY DEF MemoryIssue, over
  <1>6. CustomerResults(i) =
          {Leaves([Without(seen[i].doomed) EXCEPT ![c.id] = CustomerRow(c)], CustomerRow(c))}
    BY DEF CustomerResults
  <1>7. MemoryAnswers(c) = MemoryIssue(c)
    BY DEF MemoryAnswers
  <1> HIDE DEF kept
  <1>8. QED
    BY <1>4, <1>5, <1>6, <1>7 DEF CustomerAlike

LEMMA CustomerSweepsAlike ==
  ASSUME CustomerInv, NEW i \in Stores, Undisturbed(i), calls[i].kind = "sweep"
  PROVE  CustomerAlike(i)
  <1> DEFINE expired == AllExpired(calls[i].now)
  <1>1. seen[i].doomed = expired
    BY DEF Undisturbed, CustomerDoomed
  <1>2. {s \in seen[i].doomed : Expired(rows[s], calls[i].now)} = expired
    BY <1>1 DEF AllExpired
  <1>3. CustomerResults(i) =
          {Leaves(Swept(i), Cardinality({s \in seen[i].doomed : Expired(rows[s], calls[i].now)}))}
    BY DEF CustomerResults
  <1>4. MemoryAnswers(calls[i]) = Leaves(Without(expired), Cardinality(expired))
    BY DEF MemoryAnswers, MemorySweep
  <1> HIDE DEF expired
  <1>5. QED
    BY <1>2, <1>3, <1>4 DEF Swept, CustomerAlike

LEMMA CustomerDropsAlike ==
  ASSUME CustomerInv, NEW i \in Stores, Undisturbed(i), calls[i].kind = "drop"
  PROVE  CustomerAlike(i)
  <1>1. Target(i) = rows[calls[i].id]
    BY DEF Undisturbed, Found, Target
  <1>2. CustomerResults(i) = {Leaves(Without({calls[i].id}), Target(i))}
    BY DEF CustomerResults
  <1>3. MemoryAnswers(calls[i]) = Leaves(Without({calls[i].id}), rows[calls[i].id])
    BY DEF MemoryAnswers, MemoryDrop
  <1>4. QED
    BY <1>1, <1>2, <1>3 DEF CustomerAlike

(* A second revocation of a session evicts nothing.                        *)
LEMMA RevokedAgainEvictsNothing ==
  ASSUME CustomerBoundsInv, NEW id \in SessionIds, IsRevoked(rows[id])
  PROVE  BeyondNewest(TombstonesBeside(id), MaxRevoked - 1) = {}
  <1> DEFINE subject == rows[id].subject
             beside == TombstonesBeside(id)
  <1>1. CustomerInv /\ rows[id] # Null
    BY DEF CustomerBoundsInv, IsRevoked
  <1>2. subject \in Subjects
    BY <1>1 DEF CustomerInv, CustomerRowsTyped, CustomerRecord
  <1>3. Cardinality(Tombstones(subject)) <= KeptBeside + 1
    BY <1>2 DEF CustomerBoundsInv, Bounded
  <1>4. beside = Tombstones(subject) \ {id} /\ id \in Tombstones(subject)
    BY DEF Tombstones, TombstonesBeside
  <1>5. IsFiniteSet(Tombstones(subject)) /\ Cardinality(Tombstones(subject)) \in Nat
    BY SessionsFinite DEF Tombstones
  <1>6. beside \in SUBSET SessionIds /\ \A s \in beside : rows[s] # Null
    BY DEF TombstonesBeside, IsRevoked
  <1> HIDE DEF subject, beside
  <1>7. Cardinality(beside) = Cardinality(Tombstones(subject)) - 1 /\ IsFiniteSet(beside)
    BY <1>4, <1>5, FS_RemoveElement
  <1>8. Cardinality(beside) \in Nat /\ Cardinality(beside) <= KeptBeside
    BY <1>3, <1>5, <1>7, KeptBesideTyped, FS_CardinalityType
  <1>9. beside = {} \/ Cardinality(beside) <= MaxRevoked - 1
    <2>1. CASE MaxRevoked = 0
      BY <1>7, <1>8, <2>1, KeptBesideTyped, FS_EmptySet
    <2>2. CASE MaxRevoked # 0
      BY <1>8, <2>2, KeptBesideTyped
    <2>3. QED
      BY <2>1, <2>2
  <1>10. QED
    BY <1>1, <1>6, <1>9, KeptBesideTyped, FewAreNewest DEF beside

LEMMA CustomerChangesAlike ==
  ASSUME CustomerBoundsInv, NEW i \in Stores, Undisturbed(i), ~RevokesExpired(i),
         calls[i].kind \in {"touch", "verify", "revoke"}
  PROVE  CustomerAlike(i)
  <1> DEFINE c == calls[i]
             record == rows[c.id]
             stale == {s \in {c.id} : Expired(record, c.now)}
             new == CustomerUpdate(c, record)
             beyond == BeyondNewest(TombstonesBeside(c.id), MaxRevoked - 1)
             Moved(table) == IF Transitions(i) THEN Leaves([table EXCEPT ![c.id] = new], new)
                             ELSE Leaves(table, Null)
  <1>1. CustomerInv /\ c # Null /\ c.id \in SessionIds
    BY DEF CustomerBoundsInv, CustomerInv, CustomerCallsTyped, CustomerCall, Undisturbed, Running
  <1>2. /\ Target(i) = record /\ seen[i].doomed = CustomerDoomed(c)
        /\ rows = [s \in SessionIds |-> rows[s]]
    BY <1>1 DEF Undisturbed, Found, Target, CustomerInv, MapsTyped
  <1>3. /\ Transitions(i) <=> IsActive(record) /\ ~Expired(record, c.now)
        /\ c.kind = "revoke" => ~Expired(record, c.now)
        /\ Without({}) = rows
        /\ IsActive(record) => record # Null /\ ~IsRevoked(record)
        /\ Expired(record, c.now) => IsActive(record)
        /\ record # Null /\ ~IsActive(record) => IsRevoked(record)
    BY <1>2 DEF Transitions, RevokesExpired, Without, IsActive, IsRevoked, Expired
  <1>4. CustomerDoomed(c) = IF c.kind = "revoke" /\ record # Null THEN beyond ELSE {}
    BY DEF CustomerDoomed
  <1>6. MemoryAnswers(c) = MemoryTransition(c)
    BY DEF MemoryAnswers
  <1>7. IsActive(record) /\ c.kind = "revoke" =>
          BeyondNewest({s \in SessionIds : IsRevoked(rows[s])
                          /\ rows[s].subject = record.subject}, MaxRevoked - 1) = beyond
    BY <1>3 DEF TombstonesBeside
  <1>8. /\ MemoryTransition(c) = IF record = Null THEN Leaves(rows, Null)
                                 ELSE IF Expired(record, c.now) THEN Leaves(Without({c.id}), Null)
                                 ELSE IF IsRevoked(record) THEN Leaves(rows, Null)
                                 ELSE Leaves([Without(CustomerDoomed(c)) EXCEPT ![c.id] = new], new)
    BY <1>3, <1>4, <1>7 DEF MemoryTransition
  <1>9. IsRevoked(record) => beyond = {}
    BY <1>1, RevokedAgainEvictsNothing
  <1>10. stale = IF Expired(record, c.now) THEN {c.id} ELSE {}
    OBVIOUS
  <1>11. CASE c.kind # "revoke"
    <2>1. CustomerResults(i) =
            {Moved(IF Transitions(i) THEN Without(seen[i].doomed) ELSE Without(stale))}
      BY <1>2, <1>11 DEF CustomerResults
    <2>2. CustomerDoomed(c) = {}
      BY <1>4, <1>11
    <2> HIDE DEF new, stale
    <2>3. Moved(IF Transitions(i) THEN Without(seen[i].doomed) ELSE Without(stale))
            = MemoryTransition(c)
      BY <1>2, <1>3, <1>8, <1>10, <2>2
    <2> HIDE DEF Moved
    <2>4. QED
      BY <1>6, <2>1, <2>3 DEF CustomerAlike
  <1>12. CASE c.kind = "revoke"
    <2>1. stale = {}
      BY <1>3, <1>10, <1>12
    <2>2. CustomerResults(i) =
            {Moved(Without(stale \cup IF evicts THEN seen[i].doomed ELSE {})) :
               evicts \in RevokeEvicts(i)}
      BY <1>2, <1>12 DEF CustomerResults
    <2>3. RevokeEvicts(i) = {record # Null}
      BY <1>2, <1>3, <1>12 DEF RevokeEvicts
    <2>4. CustomerResults(i) = {Moved(IF record # Null THEN Without(seen[i].doomed) ELSE rows)}
      <3> HIDE DEF Moved, stale
      <3>1. CustomerResults(i) =
              {Moved(Without(stale \cup IF record # Null THEN seen[i].doomed ELSE {}))}
        BY <2>2, <2>3
      <3>2. Without(stale \cup IF record # Null THEN seen[i].doomed ELSE {})
              = IF record # Null THEN Without(seen[i].doomed) ELSE rows
        BY <1>3, <2>1
      <3>3. QED
        BY <3>1, <3>2
    <2> HIDE DEF new, stale, beyond
    <2>5. Moved(IF record # Null THEN Without(seen[i].doomed) ELSE rows) = MemoryTransition(c)
      BY <1>2, <1>3, <1>4, <1>8, <1>9, <1>12
    <2> HIDE DEF Moved
    <2>6. QED
      BY <1>6, <2>4, <2>5 DEF CustomerAlike
  <1>13. QED
    BY <1>11, <1>12

(* "Each statement reproduces the memory model exactly" (the head of       *)
(* postgres-session-store.ts): over every table the store can reach, a     *)
(* statement whose snapshot still is the table leaves and answers what the *)
(* memory backend leaves and answers, a revocation of an expired session   *)
(* excepted.                                                               *)
THEOREM CustomerStatementsReproduceMemory == CustomerSpec => []CustomersMatchMemory
  <1>1. CustomerBoundsInv => CustomersMatchMemory
    <2> SUFFICES ASSUME CustomerBoundsInv, NEW i \in Stores, Undisturbed(i), ~RevokesExpired(i)
                 PROVE  CustomerAlike(i)
      BY DEF CustomersMatchMemory, CustomerAlike
    <2>1. CustomerInv /\ calls[i].kind \in {"issue", "touch", "verify", "revoke", "drop", "sweep"}
      BY DEF CustomerBoundsInv, CustomerInv, CustomerCallsTyped, CustomerCall, Undisturbed, Running
    <2>2. QED
      BY <2>1, CustomerIssuesAlike, CustomerSweepsAlike, CustomerDropsAlike, CustomerChangesAlike
  <1>2. QED
    BY <1>1, CustomerBoundsAlways, PTL
=============================================================================
