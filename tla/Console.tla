------------------------------- MODULE Console -------------------------------
(***************************************************************************)
(* The requests of the backoffice BFF that read the audit chain: audited   *)
(* views, step-up challenges, verifications and approval previews, with    *)
(* logins and logouts.  src/server/server.ts, postgres-audit-store.ts over *)
(* migrations/0001_append_only_audit.sql, controls.ts and step-up.ts.      *)
(*                                                                         *)
(* A handler is cut where it awaits: it resolves its session, reads the    *)
(* chain, then acts.  The hash of an event covers all the events before    *)
(* it, so a chain stands for its head hash; an event is the request that   *)
(* recorded it.  Ids, tokens and grants are random: each is the number of  *)
(* the request that minted it.  The command digest is fixed by the         *)
(* approval and the subject by the session.                                *)
(*                                                                         *)
(* An append is a SERIALIZABLE transaction whose first statement takes the *)
(* advisory lock, so its snapshot may be older than the lock: only the     *)
(* primary key on sequence stops a stale append.                           *)
(***************************************************************************)
EXTENDS Integers, Sequences, FiniteSets

CONSTANTS Sessions, Approvals, Requests, None, MaxAttempts

(* The step-up service, step-up.ts over the ExpiringStore of session.ts.   *)
(* Its methods are synchronous.  A challenge or a grant is named by the    *)
(* opaque value minted for it; a binding is a record, its digest the       *)
(* record itself.  A code is right or wrong.  An entry expires by leaving  *)
(* its store: get answers the same before and after the store drops it.    *)
VARIABLES
  challenges,          \* live challenges, by id: binding and attempts left
  challengeByBinding,  \* the challenge begun last for a binding
  grants,              \* live grants, by value: their binding
  grantByBinding       \* the grant issued last for a binding

stepUpVars == <<challenges, challengeByBinding, grants, grantByBinding>>

StepUpInit ==
  /\ challenges = << >> /\ challengeByBinding = << >>
  /\ grants = << >> /\ grantByBinding = << >>

Except(f, keys) == [k \in DOMAIN f \ keys |-> f[k]]

Stored(f, key, value) ==
  [k \in DOMAIN f \cup {key} |-> IF k = key THEN value ELSE f[k]]

(* pruneIndexes, which every method begins with.                           *)
Pruned(index, store) ==
  [b \in {k \in DOMAIN index : index[k] \in DOMAIN store} |-> index[b]]

PrunedChallenges == Pruned(challengeByBinding, challenges)
PrunedGrants == Pruned(grantByBinding, grants)

(* The entry an index holds for a binding, if any.                         *)
Current(index, binding) ==
  {index[b] : b \in {k \in DOMAIN index : k = binding}}

DeleteCurrent(index, binding, value) ==
  IF value \in Current(index, binding) THEN Except(index, {binding}) ELSE index

BeginChallenge(id, binding) ==
  /\ challenges' = Stored(Except(challenges, Current(PrunedChallenges, binding)), id,
                          [binding |-> binding, attemptsRemaining |-> MaxAttempts])
  /\ challengeByBinding' = Stored(PrunedChallenges, binding, id)
  /\ grantByBinding' = PrunedGrants
  /\ UNCHANGED grants

Matches(id, binding) == id \in DOMAIN challenges /\ challenges[id].binding = binding

(* challenge_unavailable, binding_mismatch.                                *)
VerifyRefused(id, binding) ==
  /\ ~Matches(id, binding)
  /\ challengeByBinding' = PrunedChallenges /\ grantByBinding' = PrunedGrants
  /\ UNCHANGED <<challenges, grants>>

(* invalid_code, attempts_exhausted.                                       *)
WrongCode(id, binding) ==
  /\ Matches(id, binding)
  /\ IF challenges[id].attemptsRemaining <= 1
     THEN /\ challenges' = Except(challenges, {id})
          /\ challengeByBinding' = DeleteCurrent(PrunedChallenges, binding, id)
     ELSE /\ challenges' = [challenges EXCEPT ![id].attemptsRemaining = @ - 1]
          /\ challengeByBinding' = PrunedChallenges
  /\ grantByBinding' = PrunedGrants
  /\ UNCHANGED grants

RightCode(id, grant, binding) ==
  /\ Matches(id, binding)
  /\ challenges' = Except(challenges, {id})
  /\ challengeByBinding' = DeleteCurrent(PrunedChallenges, binding, id)
  /\ grants' = Stored(Except(grants, Current(PrunedGrants, binding)), grant, binding)
  /\ grantByBinding' = Stored(PrunedGrants, binding, grant)

Accepts(grant, binding) == grant \in DOMAIN grants /\ grants[grant] = binding

ConsumeByGet(grant, binding) ==
  /\ challengeByBinding' = PrunedChallenges
  /\ grantByBinding' = IF Accepts(grant, binding)
                       THEN DeleteCurrent(PrunedGrants, binding, grant) ELSE PrunedGrants
  /\ UNCHANGED <<challenges, grants>>

(* The grant is taken before its binding is compared.                      *)
Consume(grant, binding) ==
  /\ challengeByBinding' = PrunedChallenges
  /\ grants' = Except(grants, {grant})
  /\ grantByBinding' = IF Accepts(grant, binding)
                       THEN DeleteCurrent(PrunedGrants, binding, grant) ELSE PrunedGrants
  /\ UNCHANGED challenges

ChallengeExpires(id) ==
  /\ id \in DOMAIN challenges
  /\ challenges' = Except(challenges, {id})
  /\ UNCHANGED <<challengeByBinding, grants, grantByBinding>>

GrantExpires(grant) ==
  /\ grant \in DOMAIN grants
  /\ grants' = Except(grants, {grant})
  /\ UNCHANGED <<challenges, challengeByBinding, grantByBinding>>
-----------------------------------------------------------------------------
(* The requests.                                                           *)
VARIABLES
  sessions,  \* the state of each session of the directory
  chain,     \* the committed audit events, by sequence
  requests   \* each request: what it asks, what it read, how it ended

consoleVars == <<challenges, challengeByBinding, grants, grantByBinding,
                 sessions, chain, requests>>

ConsoleInit ==
  /\ StepUpInit
  /\ sessions = [s \in Sessions |-> "unissued"]
  /\ chain = << >>
  /\ requests = [r \in Requests |-> None]

(* A login revokes the session the browser presents.                       *)
Login(s) ==
  /\ sessions[s] = "unissued"
  /\ \/ sessions' = [sessions EXCEPT ![s] = "live"]
     \/ \E old \in Sessions :
          /\ sessions[old] = "live"
          /\ sessions' = [sessions EXCEPT ![s] = "live", ![old] = "revoked"]
  /\ UNCHANGED <<stepUpVars, chain, requests>>

Logout(s) ==
  /\ sessions[s] = "live"
  /\ sessions' = [sessions EXCEPT ![s] = "revoked"]
  /\ UNCHANGED <<stepUpVars, chain, requests>>

Arrives(r, s, ask) ==
  /\ requests[r] = None /\ \A q \in Requests : q < r => requests[q] # None
  /\ sessions[s] = "live"
  /\ requests' = [requests EXCEPT ![r] =
       [step |-> "authorized", session |-> s, ask |-> ask, seen |-> None, read |-> None]]
  /\ UNCHANGED <<stepUpVars, sessions, chain>>

(* Opaque values callers can name: every request that minted one.          *)
Minted(kind) ==
  {r \in Requests : /\ requests[r] # None /\ requests[r].ask.kind = kind
                    /\ requests[r].step = "done"}

Asks ==
  [kind : {"view"}] \cup
  [kind : {"challenge"}, approval : Approvals] \cup
  [kind : {"verify"}, approval : Approvals, challenge : Minted("challenge"), right : BOOLEAN] \cup
  [kind : {"preview"}, approval : Approvals, grant : Minted("verify")]

At(r, step) == requests[r] # None /\ requests[r].step = step
Kind(r) == requests[r].ask.kind

(* auditStore.snapshot().                                                  *)
ReadsChain(r) ==
  /\ At(r, "authorized")
  /\ requests' = [requests EXCEPT ![r].step = "read", ![r].seen = chain]
  /\ UNCHANGED <<stepUpVars, sessions, chain>>

Binding(r) ==
  [session |-> requests[r].session, approval |-> requests[r].ask.approval,
   head |-> requests[r].seen]

Ends(r, step) == requests' = [requests EXCEPT ![r].step = step]

BeginsChallenge(r) ==
  /\ At(r, "read") /\ Kind(r) = "challenge"
  /\ BeginChallenge(r, Binding(r))
  /\ Ends(r, "done")
  /\ UNCHANGED <<sessions, chain>>

Verifies(r) ==
  LET challenge == requests[r].ask.challenge
  IN  /\ At(r, "read") /\ Kind(r) = "verify"
      /\ \/ /\ ~Matches(challenge, Binding(r))
            /\ VerifyRefused(challenge, Binding(r)) /\ Ends(r, "refused")
         \/ /\ ~requests[r].ask.right
            /\ WrongCode(challenge, Binding(r)) /\ Ends(r, "wrong")
         \/ /\ requests[r].ask.right
            /\ RightCode(challenge, r, Binding(r)) /\ Ends(r, "done")
      /\ UNCHANGED <<sessions, chain>>

(* A preview without a grant reads only; with one it is verified or 409.   *)
Previews(r) ==
  /\ At(r, "read") /\ Kind(r) = "preview"
  /\ Consume(requests[r].ask.grant, Binding(r))
  /\ Ends(r, IF Accepts(requests[r].ask.grant, Binding(r)) THEN "done" ELSE "refused")
  /\ UNCHANGED <<sessions, chain>>

(* BEGIN and the lock statement, which takes the snapshot and may wait.    *)
BeginsAppend(r) ==
  /\ At(r, "read") /\ Kind(r) = "view"
  /\ requests' = [requests EXCEPT ![r].step = "appending", ![r].read = chain]
  /\ UNCHANGED <<stepUpVars, sessions, chain>>

HeadUnchecked(r) == requests[r].seen # None

HeadUnchanged(r) == requests[r].read = requests[r].seen

(* The next sequence of the snapshot, if no row has it yet.                *)
SequenceFree(r) == Len(chain) = Len(requests[r].read)

Appends(r) ==
  /\ At(r, "appending")
  /\ HeadUnchanged(r) /\ SequenceFree(r)
  /\ chain' = Append(chain, r)
  /\ Ends(r, "done")
  /\ UNCHANGED <<stepUpVars, sessions>>

(* The COMMIT runs and its answer is lost: 503.                            *)
AppendsUnanswered(r) ==
  /\ At(r, "appending")
  /\ HeadUnchanged(r) /\ SequenceFree(r)
  /\ chain' = Append(chain, r)
  /\ Ends(r, "refused")
  /\ UNCHANGED <<stepUpVars, sessions>>

(* A head or sequence that moved, a serialization failure, no connection.  *)
AppendFails(r) ==
  /\ At(r, "appending")
  /\ Ends(r, "refused")
  /\ UNCHANGED <<stepUpVars, sessions, chain>>

(* The BFF dies and starts again: the step-up service starts empty.        *)
Restart ==
  /\ challenges' = << >> /\ challengeByBinding' = << >>
  /\ grants' = << >> /\ grantByBinding' = << >>
  /\ requests' = [r \in Requests |->
       IF requests[r] # None /\ requests[r].step \in {"authorized", "read", "appending"}
       THEN [requests[r] EXCEPT !.step = "refused"] ELSE requests[r]]
  /\ requests' # requests
  /\ UNCHANGED <<sessions, chain>>

Expires(id) ==
  /\ ChallengeExpires(id) \/ GrantExpires(id)
  /\ UNCHANGED <<sessions, chain, requests>>

ConsoleNext ==
  \/ \E s \in Sessions : Login(s) \/ Logout(s)
  \/ \E r \in Requests :
       \/ \E s \in Sessions : \E ask \in Asks : Arrives(r, s, ask)
       \/ ReadsChain(r)
       \/ BeginsChallenge(r) \/ Verifies(r) \/ Previews(r)
       \/ BeginsAppend(r) \/ Appends(r) \/ AppendsUnanswered(r) \/ AppendFails(r)
       \/ Expires(r)
  \/ Restart

ConsoleSpec == ConsoleInit /\ [][ConsoleNext]_consoleVars
-----------------------------------------------------------------------------
(* The indexes keep up with the stores through expiry, exhaustion and      *)
(* mismatches: a binding has at most one live challenge and one live       *)
(* grant, the one its index names, so a newer one always displaces it.     *)
OneLiveProofPerBinding ==
  /\ \A id \in DOMAIN challenges : id \in Current(challengeByBinding, challenges[id].binding)
  /\ \A g \in DOMAIN grants : g \in Current(grantByBinding, grants[g])

(* A step-up proof is good for one verified preview: of its own session,   *)
(* approval and audit head, after a right code.  Two verifications of one  *)
(* challenge, two previews of one grant and requests in flight across a    *)
(* logout, a restart or a view never make two out of it.                   *)
ChallengeOf(p) == requests[requests[p].ask.grant].ask.challenge

ProofsAreSingleUse ==
  LET verified == Minted("preview")
  IN  /\ \A p \in verified :
           /\ requests[requests[p].ask.grant].ask.right
           /\ Binding(p) = Binding(requests[p].ask.grant)
           /\ Binding(p) = Binding(ChallengeOf(p))
      /\ \A p, q \in verified : ChallengeOf(p) = ChallengeOf(q) => p = q
      /\ OneLiveProofPerBinding

(* A view that was answered is on the chain once, right after the chain    *)
(* its handler read, which a report shows; whatever views overlap, no      *)
(* event is lost, repeated or recorded out of its place.                   *)
ViewsAreAudited ==
  /\ \A r \in Minted("view") :
       \E k \in DOMAIN chain : chain[k] = r /\ SubSeq(chain, 1, k - 1) = requests[r].seen
  /\ \A j, k \in DOMAIN chain : chain[j] = chain[k] => j = k
=============================================================================
