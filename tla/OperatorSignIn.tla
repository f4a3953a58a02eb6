---------------------------- MODULE OperatorSignIn ----------------------------
(***************************************************************************)
(* How one browser of an operator signs in and out at several instances of *)
(* the backoffice BFF (src/server/server.ts) over one database of operator *)
(* sessions (postgres-session-store.ts, migrations/0002): the OIDC login   *)
(* with its callback, the development login and the logout, against the    *)
(* issuer of provider-simulators/src/oidc.mjs.                             *)
(*                                                                         *)
(* The operator store has the statements of AuthSessions but for issue,    *)
(* which also displaces the sessions of the device that signs in; the BFF  *)
(* never calls refresh, bindDevice or sweep.  A handler is cut where it    *)
(* awaits the issuer or the store.                                         *)
(*                                                                         *)
(* A flow is one sign-in or sign-out, from its first request on.  State,   *)
(* nonce, PKCE verifier and code of an OIDC login are random and made for  *)
(* it alone: the flow stands for all of them.  The session cookie is       *)
(* SameSite=Strict, so a request that comes from another site lacks it.    *)
(***************************************************************************)
EXTENDS AuthSessions, Sequences

CONSTANTS
  Flows,       \* numbers, in the order flows begin
  Device,      \* the digest of the browser's approved device
  MaxPending,  \* maxPendingLoginsPerInitiator
  Readings     \* the clock readings among which sign-ins take place

(* The browser may hold session 1 from earlier.                            *)
ASSUME SignInAssumption ==
  /\ Flows \subseteq Int /\ 1 \in SessionIds /\ Null \notin SessionIds
  /\ Device \in Devices /\ Readings \subseteq Instants
  /\ Null \notin [kind : {"revoke"}, id : SessionIds, now : Readings]
  /\ Null \notin [kind : {"issue"}, id : SessionIds, subject : Subjects,
                   device : {Device, Null}, now : Readings]

VARIABLES
  binding,  \* config.deviceBinding: Device to enforce, Null for off
  pending,  \* pendingLogins: what each started OIDC login left at its instance
  codes,    \* the flows whose authorization code the issuer still takes
  browser,  \* its session and transaction cookies
  flows     \* how far each flow has come

signInVars == <<binding, pending, codes, browser, flows>>

SignInInit ==
  /\ binding \in {Device, Null}
  /\ pending = [f \in Flows |-> Null]
  /\ codes = {}
  /\ flows = [f \in Flows |-> Null]
  /\ calls = [i \in Stores |-> Null] /\ seen = [i \in Stores |-> Null]
  /\ failure = [i \in Stores |-> "none"]
  /\ \/ /\ rows = [s \in SessionIds |-> Null]
        /\ told = [s \in SessionIds |-> "unminted"]
        /\ browser = [cookie |-> Null, transaction |-> Null]
     \/ \E subject \in Subjects, now \in Readings :
          /\ rows = [s \in SessionIds |-> IF s = 1
               THEN [IssuedRow([subject |-> subject, now |-> now]) EXCEPT !.device = binding]
               ELSE Null]
          /\ told = [s \in SessionIds |-> IF s = 1 THEN "minted" ELSE "unminted"]
          /\ browser = [cookie |-> 1, transaction |-> Null]

FlowAt(f, step) == flows[f] # Null /\ flows[f].step = step

Begun(f, kind, i, old, subject, step) ==
  /\ flows[f] = Null /\ \A g \in Flows : g < f => flows[g] # Null
  /\ flows' = [flows EXCEPT ![f] =
       [kind |-> kind, at |-> i, subject |-> subject, session |-> Null, step |-> step,
        old |-> old, replaced |-> {old[k] : k \in DOMAIN old}]]

Named(token) == IF token = Null THEN << >> ELSE <<token>>

(* Every failed login answers one redirect that clears the transaction.    *)
SignInFails(f) ==
  /\ flows' = [flows EXCEPT ![f].step = "failed"]
  /\ browser' = IF flows[f].kind = "oidc" THEN [browser EXCEPT !.transaction = Null] ELSE browser
-----------------------------------------------------------------------------
(* resolve: a read behind the queued writes, which drops what it finds     *)
(* expired.                                                                *)
Readable(i) == failure[i] = "none" /\ calls[i] = Null

Resolves(token, now) ==
  token # Null /\ IsActive(rows[token]) /\ ~Expired(rows[token], now)

Reads(token, now) ==
  rows' = IF token # Null /\ Expired(rows[token], now) THEN Without({token}) ELSE rows

(* currentSession.                                                         *)
CurrentSession(token, now) ==
  Resolves(token, now) /\ (binding # Null => rows[token].device = binding)

(* The outstanding logins are bounded per live subject, or per chain of    *)
(* transaction cookies.                                                    *)
Initiator(f, i, token, now) ==
  LET prior == browser.transaction
  IN  IF CurrentSession(token, now) THEN [session |-> rows[token].subject]
      ELSE IF prior # Null /\ pending[prior] # Null /\ flows[prior].at = i
           THEN pending[prior].initiator
           ELSE [flow |-> f]

(* retainNewest over the logins of one instance.                           *)
Retained(logins, i, initiator) ==
  LET Mine(g) == /\ logins[g] # Null /\ logins[g].initiator = initiator
                 /\ flows'[g].at = i
  IN  [g \in Flows |->
        IF Mine(g) /\ Cardinality({h \in Flows : h > g /\ Mine(h)}) >= MaxPending
        THEN Null ELSE logins[g]]

(* GET /bff/auth/login.                                                    *)
LoginStarts(f, i, now) ==
  \E token \in {browser.cookie, Null} :
    LET entry == [initiator |-> Initiator(f, i, token, now), previous |-> token]
    IN  /\ Readable(i)
        /\ Begun(f, "oidc", i, << >>, Null, "redirected")
        /\ Reads(token, now)
        /\ pending' = Retained([pending EXCEPT ![f] = entry], i, entry.initiator)
        /\ browser' = [browser EXCEPT !.transaction = f]
        /\ UNCHANGED <<binding, codes, calls, seen, failure, told>>

(* authorize: the operator signs in at the issuer.                         *)
Authorizes(f, subject) ==
  /\ FlowAt(f, "redirected")
  /\ codes' = codes \cup {f}
  /\ flows' = [flows EXCEPT ![f].step = "authorized", ![f].subject = subject]
  /\ UNCHANGED <<vars, binding, pending, browser>>

(* Past its lifetime, or the oldest of too many.                           *)
CodeExpires(f) ==
  /\ codes' = codes \ {f} /\ codes' # codes
  /\ UNCHANGED <<vars, binding, pending, browser, flows>>

PendingExpires(f) ==
  /\ pending[f] # Null
  /\ pending' = [pending EXCEPT ![f] = Null]
  /\ UNCHANGED <<vars, binding, codes, browser, flows>>

PresentedSession(f, token) == Named(token)

(* createSession revokes the session the request presents, then the one    *)
(* the login was started with.                                             *)
OldSessions(f, token) == Named(token) \o Named(pending[f].previous)

(* GET /bff/auth/callback, with the transaction cookie of this very login. *)
CallbackTaken(f) ==
  /\ FlowAt(f, "authorized")
  /\ browser.transaction = f /\ pending[f] # Null
  /\ \E token \in {browser.cookie, Null} :
       flows' = [flows EXCEPT ![f].step = "exchanging", ![f].old = OldSessions(f, token),
                              ![f].replaced = {token, pending[f].previous} \ {Null}]
  /\ pending' = [pending EXCEPT ![f] = Null]
  /\ UNCHANGED <<vars, binding, codes, browser>>

(* A later login took the cookie over, or the pending entry is gone.       *)
CallbackRefused(f) ==
  /\ FlowAt(f, "authorized")
  /\ browser.transaction # f \/ pending[f] = Null
  /\ SignInFails(f)
  /\ UNCHANGED <<vars, binding, pending, codes>>

(* A callback opened again clears the transaction of whatever login.       *)
CallbackRepeated(f) ==
  /\ flows[f] # Null /\ flows[f].kind = "oidc"
  /\ flows[f].step \notin {"redirected", "authorized"}
  /\ browser.transaction # Null
  /\ browser' = [browser EXCEPT !.transaction = Null]
  /\ UNCHANGED <<vars, binding, pending, codes, flows>>

(* exchangeAuthorizationCode and verifyIdToken: the code is spent by its   *)
(* first presentation, whatever the outcome.                               *)
CodeExchanged(f) ==
  /\ FlowAt(f, "exchanging")
  /\ codes' = codes \ {f}
  /\ \/ /\ f \in codes
        /\ flows' = [flows EXCEPT ![f].step = "replacing"]
        /\ UNCHANGED browser
     \/ SignInFails(f)
  /\ UNCHANGED <<vars, binding, pending>>

(* POST /bff/auth/dev-session.                                             *)
DevLogin(f, i, subject) ==
  /\ Begun(f, "dev", i, Named(browser.cookie), subject, "replacing")
  /\ UNCHANGED <<vars, binding, pending, codes, browser>>

(* POST /bff/auth/logout.                                                  *)
LogoutStarts(f, i, now) ==
  /\ Readable(i)
  /\ Reads(browser.cookie, now)
  /\ Begun(f, "logout", i,
           IF CurrentSession(browser.cookie, now) THEN Named(browser.cookie) ELSE << >>,
           Null, "replacing")
  /\ UNCHANGED <<calls, seen, failure, told, binding, pending, codes, browser>>
-----------------------------------------------------------------------------
(* revokeByToken of the next old session; a logout revokes the one it read *)
(* by its id.                                                              *)
Replaces(f, now) ==
  LET i == flows[f].at
      old == Head(flows[f].old)
      named == flows[f].kind = "logout" \/ Resolves(old, now)
  IN  /\ FlowAt(f, "replacing") /\ flows[f].old # << >>
      /\ \/ /\ Readable(i) /\ named
            /\ Called(i, [kind |-> "revoke", id |-> old, now |-> now])
            /\ flows' = [flows EXCEPT ![f].step = "revoking", ![f].old = Tail(@)]
            /\ UNCHANGED <<told, browser>>
         \/ /\ Readable(i) /\ ~named
            /\ Reads(old, now)
            /\ flows' = [flows EXCEPT ![f].old = Tail(@)]
            /\ UNCHANGED <<calls, seen, failure, told, browser>>
         \/ /\ failure[i] # "none" /\ SignInFails(f)
            /\ UNCHANGED vars
      /\ UNCHANGED <<binding, pending, codes>>

Issues(f, now) ==
  LET i == flows[f].at
  IN  /\ FlowAt(f, "replacing") /\ flows[f].old = << >> /\ flows[f].kind # "logout"
      /\ \/ \E s \in SessionIds :
              /\ told[s] = "unminted" /\ \A r \in SessionIds : r < s => told[r] # "unminted"
              /\ Called(i, [kind |-> "issue", id |-> s, subject |-> flows[f].subject,
                            device |-> binding, now |-> now])
              /\ told' = [told EXCEPT ![s] = "minted"]
              /\ flows' = [flows EXCEPT ![f].step = "issuing", ![f].session = s]
              /\ UNCHANGED browser
         \/ /\ failure[i] # "none" /\ SignInFails(f)
            /\ UNCHANGED vars
      /\ UNCHANGED <<binding, pending, codes>>

(* The answer of a logout clears the cookie.                               *)
LoggedOut(f) ==
  /\ FlowAt(f, "replacing") /\ flows[f].old = << >> /\ flows[f].kind = "logout"
  /\ flows' = [flows EXCEPT ![f].step = "done"]
  /\ browser' = [browser EXCEPT !.cookie = Null]
  /\ UNCHANGED <<vars, binding, pending, codes>>

(* What ISSUE_SQL deletes: the expired, the live ones of the device, and   *)
(* what is then over the bound of the subject.                             *)
OnDevice(device) ==
  {s \in SessionIds : device # Null /\ IsActive(rows[s]) /\ rows[s].device = device}

Displaced(c) ==
  AllExpired(c.now) \cup OnDevice(c.device) \cup
  Overflow(ActivesOf(c.subject, c.now) \ OnDevice(c.device), "issued_at", MaxPerSubject - 1)

StatementBegins(i) ==
  /\ \/ calls[i] # Null /\ calls[i].kind # "issue" /\ Begin(i)
     \/ /\ calls[i] # Null /\ calls[i].kind = "issue"
        /\ ~Running(i) /\ SubjectFree(i)
        /\ seen' = [seen EXCEPT ![i] = [locked |-> LockedSubject(calls[i]),
                                        doomed |-> Displaced(calls[i]), target |-> Null]]
        /\ UNCHANGED <<rows, calls, failure, told>>
  /\ UNCHANGED signInVars

SignedIn(i) ==
  [Without(seen[i].doomed) EXCEPT ![calls[i].id] =
     [IssuedRow(calls[i]) EXCEPT !.device = calls[i].device]]

Waiting(f, i) ==
  flows[f] # Null /\ flows[f].at = i /\ flows[f].step \in {"revoking", "issuing"}

(* The answer of a revocation lets the handler go on; that of an issue     *)
(* sets the cookie, unless the browser no longer waits for it.             *)
StatementEnds(i) ==
  \E f \in Flows :
    /\ Waiting(f, i) /\ Running(i)
    /\ \/ FlowAt(f, "revoking") /\ Commit(i)
       \/ /\ FlowAt(f, "issuing")
          /\ rows' = SignedIn(i) /\ Settled(i, "none") /\ UNCHANGED told
    /\ IF FlowAt(f, "revoking") /\ ~Raises(i)
       THEN flows' = [flows EXCEPT ![f].step = "replacing"] /\ UNCHANGED browser
       ELSE IF FlowAt(f, "revoking") THEN SignInFails(f)
       ELSE /\ flows' = [flows EXCEPT ![f].step = "done"]
            /\ \/ UNCHANGED browser
               \/ browser' = [cookie |-> flows[f].session, transaction |->
                    IF flows[f].kind = "oidc" THEN Null ELSE browser.transaction]
    /\ UNCHANGED <<binding, pending, codes>>

(* The statement fails, or it commits and its answer is lost.              *)
StatementFails(i) ==
  \E f \in Flows :
    /\ Waiting(f, i)
    /\ \/ RollBack(i)
       \/ FlowAt(f, "revoking") /\ CommitUnanswered(i)
       \/ /\ FlowAt(f, "issuing") /\ Running(i)
          /\ rows' = SignedIn(i) /\ Settled(i, "lost") /\ UNCHANGED told
    /\ SignInFails(f)
    /\ UNCHANGED <<binding, pending, codes>>

(* An instance starts again, with a fresh store and no pending login.      *)
Restarts(i) ==
  /\ failure[i] # "none"
  /\ failure' = [failure EXCEPT ![i] = "none"]
  /\ pending' = [f \in Flows |-> IF flows[f] # Null /\ flows[f].at = i THEN Null ELSE pending[f]]
  /\ flows' = [f \in Flows |->
       IF flows[f] # Null /\ flows[f].at = i /\ flows[f].step \in {"exchanging", "replacing"}
       THEN [flows[f] EXCEPT !.step = "failed"] ELSE flows[f]]
  /\ UNCHANGED <<rows, calls, seen, told, binding, codes, browser>>

SignInNext ==
  \/ \E f \in Flows :
       \/ \E i \in Stores :
            \/ \E now \in Readings : LoginStarts(f, i, now) \/ LogoutStarts(f, i, now)
            \/ \E subject \in Subjects : DevLogin(f, i, subject)
       \/ \E subject \in Subjects : Authorizes(f, subject)
       \/ CodeExpires(f) \/ PendingExpires(f)
       \/ CallbackTaken(f) \/ CallbackRefused(f) \/ CallbackRepeated(f)
       \/ CodeExchanged(f)
       \/ \E now \in Readings : Replaces(f, now) \/ Issues(f, now)
       \/ LoggedOut(f)
  \/ \E i \in Stores :
       StatementBegins(i) \/ StatementEnds(i) \/ StatementFails(i) \/ Restarts(i)

SignInSpec == SignInInit /\ [][SignInNext]_<<vars, signInVars>>
-----------------------------------------------------------------------------
(* A sign-in replaces: once it is answered, neither the session its        *)
(* requests presented nor the one it was started with is live, although    *)
(* the callback comes from another site without the cookie; and whatever   *)
(* sign-ins overlap, at one instance or two, a bound device has one live   *)
(* session of an operator ("a fresh login on a bound device also evicts    *)
(* the device's other live sessions", session-store.ts).                   *)
SignInsReplaceSessions ==
  /\ \A f \in Flows : FlowAt(f, "done") =>
       \A s \in flows[f].replaced : ~IsActive(rows[s])
  /\ binding # Null => \A s, t \in SessionIds :
       /\ IsActive(rows[s]) /\ IsActive(rows[t])
       /\ rows[s].device = rows[t].device /\ rows[s].subject = rows[t].subject
       => s = t

(* "A fresh login on a bound device also evicts the device's other live    *)
(* sessions", and every backend answers identically (session-store.ts,     *)
(* lines 18 to 20): a device has one live session, whoever signs in on it. *)
OneSessionPerDevice ==
  \A s, t \in SessionIds :
    /\ IsActive(rows[s]) /\ IsActive(rows[t])
    /\ rows[s].device # Null /\ rows[s].device = rows[t].device
    => s = t
=============================================================================
