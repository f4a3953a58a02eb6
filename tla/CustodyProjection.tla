--------------------------- MODULE CustodyProjection ---------------------------
(***************************************************************************)
(* What the projection of withdrawals into custody events promises:        *)
(* createCustodyProjectionRegistry of custody-core/src/custody-event.mjs,  *)
(* one call at a time.                                                     *)
(*                                                                         *)
(* A request stands for its verified envelope, its digest and the event    *)
(* made of them; an approval for its id, its step-up grant and the digest  *)
(* of its evidence.  A durable registry may lose the answer to a call.     *)
(***************************************************************************)
EXTENDS Integers, FiniteSets

CONSTANTS Requests, Callers, MaxEntries, None

VARIABLES
  projected,  \* the requests projected, one for each idempotency key
  answers     \* the last answer each caller had

(* Events and the approvals that caused them share one namespace.          *)
Identities(r) ==
  {<<"event", r.event>>, <<"event", r.approved>>,
   <<"withdrawal", r.withdrawal>>, <<"intent", r.intent>>}
    \cup {<<"approval", a>> : a \in r.approvals}

Prior(r) == {p \in projected : p.key = r.key}

Outcome(r) ==
  CASE Prior(r) = {r} -> "replayed"
    [] Prior(r) \notin {{}, {r}} -> "key reused"
    [] Prior(r) = {} /\ Cardinality(projected) >= MaxEntries -> "full"
    [] OTHER -> IF \E p \in projected : Identities(p) \cap Identities(r) # {}
                THEN "identity taken" ELSE "recorded"

Project(c, r) ==
  /\ projected' = IF Outcome(r) = "recorded" THEN projected \cup {r} ELSE projected
  /\ answers' \in {answers, [answers EXCEPT ![c] = [request |-> r, outcome |-> Outcome(r)]]}

Init == projected = {} /\ answers = [c \in Callers |-> None]

Next == \E c \in Callers, r \in Requests : Project(c, r)

Spec == Init /\ [][Next]_<<projected, answers>>
=============================================================================
