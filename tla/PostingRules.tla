---------------------------- MODULE PostingRules ----------------------------
(***************************************************************************)
(* What the in-memory ledger and its PostgreSQL schema are both given, and *)
(* what both compute of the entries of a journal: sums of one side of one  *)
(* asset, and the signature a posting rule names an entry by.              *)
(***************************************************************************)
EXTENDS Integers, FiniteSets, FiniteSetsExt, TLC

CONSTANTS
  Accounts,      \* the registered accounts, by id
  AccountOf,     \* the entity, asset and definition of each
  CreditNormal,  \* the definitions whose normal side is CREDIT
  Rules,         \* the posting rules, by journal type
  Instants,      \* readings of the clock
  MaxEntries,    \* entries of one journal
  MaxJournals    \* capacity

Assets(entries) == {e.asset_code : e \in entries}

OfAsset(entries, asset) == {e \in entries : e.asset_code = asset}

Amounts(entries) == MapThenSumSet(LAMBDA e : e.amount, entries)

Total(entries, side) == Amounts({e \in entries : e.side = side})

Signature(e) == <<AccountOf[e.account_id].definition_code, e.side>>

(* A map after set(key, value).                                            *)
Put(f, key, value) ==
  [k \in DOMAIN f \cup {key} |-> IF k = key THEN value ELSE f[k]]
=============================================================================
