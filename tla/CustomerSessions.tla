--------------------------- MODULE CustomerSessions ---------------------------
(***************************************************************************)
(* The customer-session store of the Mini App's BFF, as several instances  *)
(* sharing one database (miniapp/src/server/postgres-session-store.ts over *)
(* migrations/0001_customer_sessions.sql), called as server.ts calls its   *)
(* directory, next to the memory backend it stands in for                  *)
(* (session-store.ts): "Every backend answers bit-for-bit identically: the *)
(* same command gets the same record, the same null and the same rejection *)
(* on every implementation."                                               *)
(*                                                                         *)
(* The write queue, the transaction around a statement, the advisory lock  *)
(* of the subject and the latch are those of AuthSessions, which both      *)
(* stores were ported with; the statements are this store's own.  A bearer *)
(* token stands for its session.  store_seq is a rank: only the order of   *)
(* its values is ever read.                                                *)
(***************************************************************************)
EXTENDS AuthSessions, FiniteSetsExt

(* reject_session_mutation of the miniapp.                                 *)
CustomerMutationAllowed(old, new) ==
  /\ old.revoked_at = Null
  /\ new.expires_at >= old.expires_at /\ new.last_used >= old.last_used
  /\ old.kyc = "verified" => new.kyc = "verified"

(* nextval, or ++storeSequence.                                            *)
NextSeq == 1 + Max({0} \cup {rows[s].seq : s \in {r \in SessionIds : rows[r] # Null}})

(* ORDER BY store_seq DESC OFFSET keep.                                    *)
BeyondNewest(ids, keep) ==
  {t \in ids : Cardinality({s \in ids : rows[s].seq > rows[t].seq}) >= keep}

CustomerRow(c) ==
  [subject |-> c.subject, kyc |-> c.kyc, issued_at |-> c.now, expires_at |-> c.now + Ttl,
   last_used |-> c.now, seq |-> NextSeq, revoked_at |-> Null]

CustomerUpdate(c, row) ==
  CASE c.kind = "touch"  -> [row EXCEPT !.last_used = Later(c.now, @)]
    [] c.kind = "verify" -> [row EXCEPT !.kyc = "verified"]
    [] c.kind = "revoke" -> [row EXCEPT !.revoked_at = Later(c.now, row.issued_at),
                                        !.seq = NextSeq]
-----------------------------------------------------------------------------
(* What the handlers ask the directory for: a login or a development       *)
(* session; currentSession, which reads the session of the cookie first;   *)
(* the revocation of a session that was listed; a logout, or a login that  *)
(* replaces a cookie, which drop the session.                              *)
CustomerIssueCalled(i, subject, kyc, now) ==
  \E s \in SessionIds :
    /\ told[s] = "unminted" /\ \A r \in SessionIds : r < s => told[r] # "unminted"
    /\ Called(i, [kind |-> "issue", id |-> s, subject |-> subject, kyc |-> kyc, now |-> now])
    /\ told' = [told EXCEPT ![s] = "minted"]

CurrentSessionCalled(i, s, kind, now) ==
  /\ IsActive(rows[s]) /\ ~Expired(rows[s], now)
  /\ kind = "verify" => rows[s].kyc = "kyc-gated"
  /\ kind = "touch" => now > rows[s].last_used
  /\ Called(i, [kind |-> kind, id |-> s, now |-> now])
  /\ UNCHANGED told

DropCalled(i, s) ==
  Known(s) /\ Called(i, [kind |-> "drop", id |-> s, now |-> 0]) /\ UNCHANGED told
-----------------------------------------------------------------------------
CustomerDoomed(c) ==
  CASE c.kind = "issue"  -> AllExpired(c.now) \cup
         BeyondNewest(ActivesOf(c.subject, c.now), MaxPerSubject - 1)
    [] c.kind = "revoke" /\ rows[c.id] # Null ->
         BeyondNewest(TombstonesBeside(c.id), MaxRevoked - 1)
    [] c.kind = "sweep"  -> AllExpired(c.now)
    [] OTHER -> {}

CustomerBegin(i) ==
  /\ calls[i] # Null /\ ~Running(i)
  /\ SubjectFree(i)
  /\ seen' = [seen EXCEPT ![i] = [locked |-> LockedSubject(calls[i]),
                                  doomed |-> CustomerDoomed(calls[i]),
                                  target |-> Found(calls[i])]]
  /\ UNCHANGED <<rows, calls, failure, told>>

(* Mutant of Transitions: without "target.revoked_at_ms IS NULL".          *)
TransitionsOfAnyRow(i) ==
  /\ calls[i].kind \in {"touch", "verify", "revoke"}
  /\ Target(i) # Null /\ ~Expired(Target(i), calls[i].now)

(* touch, verifyKyc and revoke: the UPDATE asks for a target that is live. *)
Transitions(i) ==
  /\ calls[i].kind \in {"touch", "verify", "revoke"}
  /\ IsActive(Target(i)) /\ ~Expired(Target(i), calls[i].now)

(* The evicted part of a revocation is not gated on the transition: it     *)
(* runs whenever target found a row.  Whether target still finds an        *)
(* expired one depends on the unspecified order of target and stale.       *)
RevokeEvicts(i) ==
  IF Target(i) = Null THEN {FALSE}
  ELSE IF Expired(Target(i), calls[i].now) THEN BOOLEAN
  ELSE {TRUE}

(* What a statement can leave and answer.                                  *)
Leaves(table, answer) == [rows |-> table, answer |-> answer]

CustomerResults(i) ==
  LET c     == calls[i]
      stale == {s \in {c.id} : Expired(Target(i), c.now)}
      plain == IF Transitions(i) THEN Without(seen[i].doomed) ELSE Without(stale)
      moved(table) ==
        IF Transitions(i)
        THEN LET row == CustomerUpdate(c, rows[c.id])
             IN  Leaves([table EXCEPT ![c.id] = row], row)
        ELSE Leaves(table, Null)
  IN  CASE c.kind = "issue" ->
             {Leaves([Without(seen[i].doomed) EXCEPT ![c.id] = CustomerRow(c)], CustomerRow(c))}
        [] c.kind = "sweep" ->
             {Leaves(Swept(i), Cardinality({s \in seen[i].doomed : Expired(rows[s], c.now)}))}
        [] c.kind = "drop" -> {Leaves(Without({c.id}), Target(i))}
        [] c.kind = "revoke" ->
             {moved(Without(stale \cup IF evicts THEN seen[i].doomed ELSE {})) :
                evicts \in RevokeEvicts(i)}
        [] OTHER -> {moved(plain)}

CustomerRaises(i) ==
  /\ Transitions(i)
  /\ ~CustomerMutationAllowed(rows[calls[i].id], CustomerUpdate(calls[i], rows[calls[i].id]))

(* A revocation and a logout answer 200 whatever the store found.          *)
CustomerAnswered(i) ==
  IF calls[i].kind \in {"revoke", "drop"}
  THEN [told EXCEPT ![calls[i].id] = "revoked"] ELSE told

CustomerCommit(i) ==
  /\ Running(i)
  /\ IF CustomerRaises(i) THEN UNCHANGED <<rows, told>>
     ELSE /\ \E result \in CustomerResults(i) : rows' = result.rows
          /\ told' = CustomerAnswered(i)
  /\ Settled(i, IF CustomerRaises(i) THEN "raised" ELSE "none")

CustomerCommitUnanswered(i) ==
  /\ Running(i) /\ ~CustomerRaises(i)
  /\ \E result \in CustomerResults(i) : rows' = result.rows
  /\ Settled(i, "lost")
  /\ UNCHANGED told

CustomersNext ==
  \E i \in Stores :
    \/ \E now \in Instants :
         \/ \E subject \in Subjects, kyc \in {"kyc-gated", "verified"} :
              CustomerIssueCalled(i, subject, kyc, now)
         \/ SweepCalled(i, now)
         \/ \E s \in SessionIds :
              \/ \E kind \in {"touch", "verify"} : CurrentSessionCalled(i, s, kind, now)
              \/ RevokeCalled(i, s, now) \/ Get(i, s, now)
    \/ \E s \in SessionIds : DropCalled(i, s)
    \/ CustomerBegin(i) \/ CustomerCommit(i) \/ CustomerCommitUnanswered(i) \/ RollBack(i)
    \/ Initialize(i)

CustomerSpec == Init /\ [][CustomersNext]_vars
-----------------------------------------------------------------------------
(* The memory backend: every operation is one synchronous pass.            *)
MemoryIssue(c) ==
  LET swept   == Without(AllExpired(c.now))
      actives == {s \in SessionIds : IsActive(swept[s]) /\ swept[s].subject = c.subject}
      evicted == BeyondNewest(actives, MaxPerSubject - 1)
      kept    == [s \in SessionIds |-> IF s \in evicted THEN Null ELSE swept[s]]
  IN  Leaves([kept EXCEPT ![c.id] = CustomerRow(c)], CustomerRow(c))

(* live: an expired record is dropped and reads as absent; a revoked one   *)
(* answers null.                                                           *)
MemoryTransition(c) ==
  LET record  == rows[c.id]
      evicted == IF c.kind = "revoke"
                 THEN BeyondNewest({s \in SessionIds : IsRevoked(rows[s])
                                      /\ rows[s].subject = record.subject}, MaxRevoked - 1)
                 ELSE {}
      row     == CustomerUpdate(c, record)
  IN  IF record = Null THEN Leaves(rows, Null)
      ELSE IF Expired(record, c.now) THEN Leaves(Without({c.id}), Null)
      ELSE IF IsRevoked(record) THEN Leaves(rows, Null)
      ELSE Leaves([Without(evicted) EXCEPT ![c.id] = row], row)

MemoryDrop(c) == Leaves(Without({c.id}), rows[c.id])
MemorySweep(c) == Leaves(Without(AllExpired(c.now)), Cardinality(AllExpired(c.now)))

MemoryAnswers(c) ==
  CASE c.kind = "issue" -> MemoryIssue(c)
    [] c.kind = "drop"  -> MemoryDrop(c)
    [] c.kind = "sweep" -> MemorySweep(c)
    [] OTHER            -> MemoryTransition(c)
-----------------------------------------------------------------------------
(* A statement whose snapshot is still the table.                          *)
Undisturbed(i) ==
  /\ Running(i)
  /\ seen[i].doomed = CustomerDoomed(calls[i]) /\ seen[i].target = Found(calls[i])

RevokesExpired(i) ==
  calls[i].kind = "revoke" /\ Expired(Target(i), calls[i].now)

(* "Each statement reproduces the memory model exactly" (the head of       *)
(* postgres-session-store.ts): over every table the store can reach, a     *)
(* statement nobody disturbs leaves what the memory backend leaves and     *)
(* answers what it answers.  The exception is a revocation of an expired   *)
(* session, the subject of the next property.                              *)
CustomersMatchMemory ==
  \A i \in Stores :
    Undisturbed(i) /\ ~RevokesExpired(i) => CustomerResults(i) = {MemoryAnswers(calls[i])}

(* "Every backend answers bit-for-bit identically: the same command gets   *)
(* the same record, the same null and the same rejection on every          *)
(* implementation" (session-store.ts:21), without exception.               *)
EveryBackendAnswersAlike ==
  \A i \in Stores : Undisturbed(i) => CustomerResults(i) = {MemoryAnswers(calls[i])}
=============================================================================
