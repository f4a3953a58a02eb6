------------------------------- MODULE Ledger -------------------------------
(***************************************************************************)
(* The double-entry ledger of packages/financial-core: src/ledger.mjs.     *)
(*                                                                         *)
(* post() is synchronous: it accepts a command as a journal, answers a     *)
(* command it accepted before with that journal, or throws; the last two   *)
(* change nothing.  A command stands for its canonical digest, an amount   *)
(* is in minor units of its asset, and the entries are a set: an entry     *)
(* listed twice is refused for its repeated entry id.                      *)
(***************************************************************************)
EXTENDS PostingRules

Sides == {"DEBIT", "CREDIT"}

VARIABLES
  journals,        \* the accepted journals
  postedEntryIds,  \* the entry ids they took
  idempotency      \* the journal each idempotency key was answered with

ledgerVars == <<journals, postedEntryIds, idempotency>>

LedgerInit ==
  /\ journals = {}
  /\ postedEntryIds = {}
  /\ idempotency = << >>

Balanced(entries) ==
  \A asset \in Assets(entries) :
    LET legs == OfAsset(entries, asset)
    IN  Total(legs, "DEBIT") = Total(legs, "CREDIT")

(* A pattern repeats no signature, so neither do the entries of an asset.  *)
FollowsRule(entries, rule) ==
  \A asset \in Assets(entries) :
    LET legs == OfAsset(entries, asset)
    IN  /\ {Signature(e) : e \in legs} = rule.entry_pattern
        /\ \A e, f \in legs : Signature(e) = Signature(f) => e = f

WithinBoundary(c) ==
  \A e \in c.entries :
    /\ e.account_id \in Accounts
    /\ AccountOf[e.account_id].legal_entity_id = c.legal_entity_id
    /\ AccountOf[e.account_id].asset_code = e.asset_code

DistinctEntries(entries) ==
  \A e, f \in entries : e.entry_id = f.entry_id => e = f

ValidCommand(c) ==
  /\ c.journal_type \in DOMAIN Rules
  /\ c.actor_type \in Rules[c.journal_type].allowed_actor_types
  /\ Cardinality(c.entries) \in 2 .. MaxEntries
  /\ DistinctEntries(c.entries)
  /\ WithinBoundary(c)
  /\ \A e \in c.entries : e.amount > 0
  /\ Balanced(c.entries)
  /\ FollowsRule(c.entries, Rules[c.journal_type])

Identity(c) == <<c.legal_entity_id, c.idempotency_key>>

EntryIds(c) == {e.entry_id : e \in c.entries}

Accepted(c, at) == [command |-> c, accepted_at |-> at]

IsReplay(c) ==
  /\ ValidCommand(c)
  /\ Identity(c) \in DOMAIN idempotency
  /\ idempotency[Identity(c)].command = c

Acceptable(c) ==
  /\ ValidCommand(c)
  /\ Identity(c) \notin DOMAIN idempotency
  /\ \A j \in journals : j.command.journal_id # c.journal_id
  /\ EntryIds(c) \cap postedEntryIds = {}
  /\ Cardinality(journals) < MaxJournals

Accept(c, at) ==
  /\ Acceptable(c)
  /\ journals' = journals \cup {Accepted(c, at)}
  /\ postedEntryIds' = postedEntryIds \cup EntryIds(c)
  /\ idempotency' = Put(idempotency, Identity(c), Accepted(c, at))

(* What ledger.post does for a caller that goes on when it returns.        *)
Post(c) ==
  \/ \E at \in Instants : Accept(c, at)
  \/ IsReplay(c) /\ UNCHANGED ledgerVars

(* The ledger as a specification: it only ever accepts one more command.   *)
AcceptsOne == \E j \in journals' : Accept(j.command, j.accepted_at)

LedgerSpec == LedgerInit /\ [][AcceptsOne]_ledgerVars

(* getProjection: the balance of an account on its normal side.            *)
Entries == UNION {j.command.entries : j \in journals}

NormalBalance(account) ==
  LET legs == {e \in Entries : e.account_id = account}
      debits == Total(legs, "DEBIT")
      credits == Total(legs, "CREDIT")
  IN  IF AccountOf[account].definition_code \in CreditNormal
      THEN credits - debits ELSE debits - credits
=============================================================================
