----------------------------- MODULE CustodyOutbox -----------------------------
(***************************************************************************)
(* record_custody_projection of custody-core/migrations/0001: transactions *)
(* of several callers over one append-only outbox, at READ COMMITTED, one  *)
(* call each.  A statement sees the rows committed when it starts.         *)
(***************************************************************************)
EXTENDS Integers, FiniteSets

CONSTANTS Requests, Callers, None

VARIABLES
  outbox,   \* the committed rows
  calls,    \* the call each caller awaits: its request and where it stands
  answers   \* the last answer each caller had

outboxVars == <<outbox, calls, answers>>

OutboxInit ==
  /\ outbox = {}
  /\ calls = [c \in Callers |-> None]
  /\ answers = [c \in Callers |-> None]

At(c, step) == calls[c] # None /\ calls[c].step = step

Moves(c, step) ==
  /\ calls' = [calls EXCEPT ![c].step = step]
  /\ UNCHANGED <<outbox, answers>>

Call(c, r) ==
  /\ calls[c] = None
  /\ calls' = [calls EXCEPT ![c] = [request |-> r, step |-> "called"]]
  /\ UNCHANGED <<outbox, answers>>

OfKey(r) == {p \in outbox : p.key = r.key}

(* Another transaction holds the row, FOR UPDATE.                          *)
Locked(r) ==
  \E o \in Callers : At(o, "replays") /\ calls[o].request.key = r.key

(* The exception of a raise takes the transaction with it.                 *)
Raises(c, outcome) ==
  /\ answers' = [answers EXCEPT ![c] = [request |-> calls[c].request, outcome |-> outcome]]
  /\ calls' = [calls EXCEPT ![c] = None]
  /\ UNCHANGED outbox

FindsAny(c) ==
  /\ OfKey(calls[c].request) # {} /\ ~Locked(calls[c].request)
  /\ Moves(c, "replays")

(* SELECT ... FOR UPDATE by idempotency key, and what is done with a row.  *)
Finds(c) ==
  LET r == calls[c].request
  IN  /\ OfKey(r) # {} /\ ~Locked(r)
      /\ IF OfKey(r) = {r} THEN Moves(c, "replays") ELSE Raises(c, "key reused")

Select(c) ==
  /\ At(c, "called")
  /\ \/ Finds(c)
     \/ OfKey(calls[c].request) = {} /\ Moves(c, "absent")

(* The unique columns of the table.                                        *)
Collides(p, r) ==
  \/ p.key = r.key \/ p.event = r.event \/ p.approved = r.approved
  \/ p.withdrawal = r.withdrawal \/ p.intent = r.intent

Pending == {calls[o].request : o \in {x \in Callers : At(x, "inserted")}}

CollidesWithCommitted(r) == \E p \in outbox : Collides(p, r)

(* INSERT waits for the end of a transaction that inserted the same.       *)
Insert(c) ==
  LET r == calls[c].request
  IN  /\ At(c, "absent")
      /\ ~\E p \in Pending : Collides(p, r)
      /\ Moves(c, IF CollidesWithCommitted(r) THEN "violated" ELSE "inserted")

(* WHEN unique_violation: look again, whatever the first look said.        *)
Reselect(c) ==
  /\ At(c, "violated")
  /\ \/ Finds(c)
     \/ OfKey(calls[c].request) = {} /\ Raises(c, "identity taken")

Committed(c) ==
  IF At(c, "inserted") THEN outbox \cup {calls[c].request} ELSE outbox

Commit(c) ==
  /\ At(c, "inserted") \/ At(c, "replays")
  /\ outbox' = Committed(c)
  /\ answers' = [answers EXCEPT ![c] =
       [request |-> calls[c].request,
        outcome |-> IF At(c, "inserted") THEN "recorded" ELSE "replayed"]]
  /\ calls' = [calls EXCEPT ![c] = None]

(* The transaction commits and its answer is lost: the caller may retry.   *)
CommitUnanswered(c) ==
  /\ At(c, "inserted") \/ At(c, "replays")
  /\ outbox' = Committed(c)
  /\ calls' = [calls EXCEPT ![c] = None]
  /\ UNCHANGED answers

(* A crash, a lost connection, a timeout.                                  *)
RollBack(c) ==
  /\ calls[c] # None
  /\ calls' = [calls EXCEPT ![c] = None]
  /\ UNCHANGED <<outbox, answers>>

OutboxNext ==
  \E c \in Callers :
    \/ \E r \in Requests : Call(c, r)
    \/ Select(c) \/ Insert(c) \/ Reselect(c)
    \/ Commit(c) \/ CommitUnanswered(c) \/ RollBack(c)

OutboxSpec == OutboxInit /\ [][OutboxNext]_outboxVars
-----------------------------------------------------------------------------
Projection ==
  INSTANCE CustodyProjection WITH projected <- outbox, MaxEntries <- Cardinality(Requests) + 1

(* However calls overlap, fail or are repeated, every one of them is one   *)
(* atomic call of the registry: a lost race is answered with the event     *)
(* that won when it is the same request, and refused when it is not        *)
(* ("recognizes exact concurrent replays", custody-core/README.md).        *)
ImplementsProjection == Projection!Spec
=============================================================================
