---------------------------- MODULE MCServerStores ----------------------------
(***************************************************************************)
(* Small instances, for TLC, of what the servers keep.  A run is about one *)
(* part, picked in the initial state: the session store of customer-api,   *)
(* its bounds over three sessions or the devices of one; that of the Mini  *)
(* App; the rate limiter; the step-up proofs and audited views of the      *)
(* backoffice; the sign-ins of its operators.                              *)
(***************************************************************************)
EXTENDS OperatorSignIn, RateLimit, Console, TLC

CONSTANTS
  Scripts,       \* the kinds of the console's requests, in the order they arrive
  SignInScripts  \* those of the sign-ins

VARIABLES
  script,  \* of the console or the sign-ins
  part     \* the part in use

Customers == INSTANCE CustomerSessions

sessionVars == vars
allVars == <<sessionVars, limiterVars, consoleVars, script, signInVars, part>>

(* Where the names of the subjects do not matter.                          *)
OneSubject == CHOOSE subject \in Subjects : TRUE

NobodySignsIn ==
  /\ binding = Null /\ codes = {}
  /\ pending = [f \in Flows |-> Null] /\ flows = [f \in Flows |-> Null]
  /\ browser = [cookie |-> Null, transaction |-> Null]

MCInit ==
  /\ LimiterInit /\ ConsoleInit
  /\ \/ /\ part \in {"bounds", "devices", "customers", "limiter", "console"}
        /\ script \in IF part = "console" THEN Scripts ELSE {<< >>}
        /\ Init /\ NobodySignsIn
     \/ /\ part = "sign-ins"
        /\ script \in SignInScripts
        /\ SignInInit
        /\ rows[1] # Null => rows[1].subject = OneSubject

(* Devices double the states of every session, so one session binds them.  *)
SessionsInUse == IF part = "devices" THEN {1} ELSE SessionIds

(* In the Mini App's store only issues and revocations meet; every other   *)
(* write runs alone, and so does one that latches its store.               *)
RunsAlone(i) ==
  \/ calls'[i] # Null /\ calls'[i].kind \notin {"issue", "revoke"}
  \/ failure'[i] # failure[i]

(* The session that is issued first, and evicted first, is the one that is *)
(* used.                                                                   *)
WithinPart ==
  /\ \A i \in Stores :
       calls'[i] # Null /\ calls'[i].kind = "issue" => calls'[i].subject = OneSubject
  /\ \A s \in SessionIds : told'[s] # "unminted" => s \in SessionsInUse
  /\ \A i \in Stores :
       calls'[i] # Null /\ calls'[i].kind \in {"refresh", "touch", "verify"}
         => calls'[i].id = 1
  /\ part = "customers" => \A i \in Stores :
         /\ RunsAlone(i) => \A j \in Stores \ {i} : calls'[j] = Null
         /\ calls'[i] # Null /\ calls'[i].kind = "issue" => calls'[i].kyc = "kyc-gated"
  /\ part # "devices" => \A i \in Stores : calls'[i] # Null => calls'[i].kind # "bind"

(* The sessions, the arguments and the interleaving of the console's       *)
(* requests stay free.                                                     *)
Scripted ==
  \A r \in Requests :
    requests'[r] # None => r \in DOMAIN script /\ requests'[r].ask.kind = script[r]

(* The script is over, or nobody is logged in to go on with it.            *)
ScriptEnded ==
  /\ \A r \in Requests :
       requests[r] # None => requests[r].step \notin {"authorized", "read", "appending"}
  /\ \A s \in Sessions : sessions[s] = "revoked"
  /\ UNCHANGED consoleVars

SignInScripted ==
  \A f \in Flows : flows'[f] # Null => f \in DOMAIN script /\ flows'[f].kind = script[f]

SignInsEnded ==
  /\ \A f \in DOMAIN script : flows[f] # Null /\ flows[f].step \in {"done", "failed"}
  /\ UNCHANGED <<sessionVars, signInVars>>

MCNext ==
  /\ UNCHANGED <<script, part>>
  /\ \/ /\ part \in {"bounds", "devices"} /\ Next /\ WithinPart
        /\ UNCHANGED <<limiterVars, consoleVars, signInVars>>
     \/ /\ part = "customers" /\ Customers!CustomersNext /\ WithinPart
        /\ UNCHANGED <<limiterVars, consoleVars, signInVars>>
     \/ /\ part = "limiter" /\ LimiterNext
        /\ UNCHANGED <<sessionVars, consoleVars, signInVars>>
     \/ /\ part = "console" /\ UNCHANGED <<sessionVars, limiterVars, signInVars>>
        /\ (ConsoleNext /\ Scripted) \/ ScriptEnded
     \/ /\ part = "sign-ins" /\ UNCHANGED <<limiterVars, consoleVars>>
        /\ (SignInNext /\ SignInScripted) \/ SignInsEnded

MCSpec == MCInit /\ [][MCNext]_allVars

CustomersSpec == MCInit /\ part = "customers" /\ [][MCNext]_allVars

OperatorsSpec == MCInit /\ part = "sign-ins" /\ [][MCNext]_allVars

(* The instances of the session store are alike; so are the sessions of    *)
(* the console and the callers of the limiter.                             *)
Interchangeable == Permutations(Stores) \cup Permutations(Sessions) \cup Permutations(Callers)

MCScripts ==
  {<<"view", "view", "view">>,
   <<"challenge", "view", "verify", "preview">>,
   <<"challenge", "challenge", "verify", "verify">>,
   <<"challenge", "verify", "verify", "preview", "preview">>}

MCSignInScripts == {<<"oidc", "oidc">>, <<"oidc", "dev">>, <<"oidc", "logout">>}

(* Either session store against the memory backend it stands in for.  The  *)
(* bounds, the revocations and the trigger are judged of both, which share *)
(* rows, told and failure.                                                 *)
StoresMatchMemory ==
  /\ part \in {"bounds", "devices"} => StatementsMatchMemory
  /\ part = "customers" => Customers!CustomersMatchMemory

EveryBackendAnswersAlike == Customers!EveryBackendAnswersAlike
=============================================================================
