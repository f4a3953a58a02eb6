------------------------------- MODULE MCFinance -------------------------------
(***************************************************************************)
(* Small instances, for TLC, of what keeps the books: the in-memory ledger *)
(* with the operations of Session D, the ledger schema in PostgreSQL, the  *)
(* custody outbox, and custody signing with its watcher.  A run is about   *)
(* one part, picked in the initial state.                                  *)
(***************************************************************************)
EXTENDS SessionDLedger, LedgerSchema, CustodyOutbox, CustodySigning

VARIABLE part \* the part in use

MCRequests ==
  {[key |-> "k1", event |-> "e1", approved |-> "a1", withdrawal |-> "w1",
    intent |-> "i1", approvals |-> {"p1", "p2"}],
   \* the same call made again with a new event
   [key |-> "k1", event |-> "e2", approved |-> "a1", withdrawal |-> "w1",
    intent |-> "i1", approvals |-> {"p1", "p2"}],
   \* another key for the same approval
   [key |-> "k2", event |-> "e3", approved |-> "a1", withdrawal |-> "w2",
    intent |-> "i2", approvals |-> {"p1", "p2"}]}

(* Approvals are not reused by another withdrawal, nor an event id as the  *)
(* id of an approval event: the table has no column for either.            *)
ASSUME \A p, r \in Requests :
  (Projection!Identities(p) \cap Projection!Identities(r) # {})
    <=> Collides(p, r) \/ p.key = r.key

memoryVars == vars

MCInit ==
  /\ DraftInit /\ SchemaInit /\ OutboxInit /\ SigningInit
  /\ part \in {"memory", "postgres", "outbox", "signing"}

(* Only the hot module is frozen: a tier's freeze says nothing of another. *)
WarmServes == ~modules'["warm"].frozen

MCNext ==
  /\ UNCHANGED part
  /\ \/ /\ part = "memory" /\ DraftNext
        /\ UNCHANGED <<schemaVars, outboxVars, signingVars>>
     \/ /\ part = "postgres" /\ SchemaNext
        /\ UNCHANGED <<memoryVars, outboxVars, signingVars>>
     \/ /\ part = "outbox" /\ OutboxNext
        /\ UNCHANGED <<memoryVars, schemaVars, signingVars>>
     \/ /\ part = "signing" /\ SigningNext /\ WarmServes
        /\ UNCHANGED <<memoryVars, schemaVars, outboxVars>>

MCSpec ==
  MCInit /\ [][MCNext]_<<memoryVars, schemaVars, outboxVars, signingVars, part>>

-----------------------------------------------------------------------------
(* Two withdrawals alike but for their expiry.                             *)
Intent(id, expires) ==
  [id |-> id, network |-> "TON", transfer |-> "USDT", amount |-> 2,
   created_at |-> 0, expires_at |-> expires]

MCLiveIntents == <<Intent(1, 2), Intent(2, 4)>>

Payment == [network |-> "TON", transfer |-> "USDT", amount |-> 2]

MCWires == {Payment @@ [sequence |-> 1, expiry |-> 2], Payment @@ [sequence |-> 2, expiry |-> 4]}

MCForeign == {Payment}

DailyMaximumOf == [hot |-> 2, warm |-> 4]
PerTransactionMaximumOf == [hot |-> 2, warm |-> 4]
TimeDelayOf == [hot |-> 0, warm |-> 1]

-----------------------------------------------------------------------------
(* The ledgers: accounts, rules and commands.                              *)
Account(definition) ==
  [legal_entity_id |-> "dev", asset_code |-> "USDT", definition_code |-> definition]

MCAccountOf ==
  [settled |-> Account("CUSTOMER_SETTLED_LIABILITY"),
   held |-> Account("CUSTOMER_HELD_LIABILITY"),
   receivable |-> Account("PROVIDER_RECEIVABLE_ASSET"),
   payable |-> Account("PROVIDER_PAYABLE_LIABILITY"),
   treasury |-> Account("TREASURY_ASSET"),
   suspense |-> Account("SUSPENSE_ASSET"),
   abroad |-> [Account("TREASURY_ASSET") EXCEPT !.legal_entity_id = "other"],
   coins |-> [Account("TREASURY_ASSET") EXCEPT !.asset_code = "TON"],
   owed |-> [Account("PROVIDER_PAYABLE_LIABILITY") EXCEPT !.asset_code = "TON"]]

MCCreditNormal ==
  {"CUSTOMER_SETTLED_LIABILITY", "CUSTOMER_HELD_LIABILITY", "PROVIDER_PAYABLE_LIABILITY",
   "SUSPENSE_LIABILITY"}

Rule(debit, credit) ==
  [allowed_actor_types |-> {"SERVICE"},
   entry_pattern |-> {<<debit, "DEBIT">>, <<credit, "CREDIT">>}]

MCRules ==
  [SYNTHETIC_PROVIDER_POSITION |-> Rule("TREASURY_ASSET", "PROVIDER_PAYABLE_LIABILITY"),
   SYNTHETIC_PROVIDER_POSITION_REVERSAL |->
     Rule("PROVIDER_PAYABLE_LIABILITY", "TREASURY_ASSET"),
   SYNTHETIC_CUSTOMER_CREDIT |->
     Rule("PROVIDER_RECEIVABLE_ASSET", "CUSTOMER_SETTLED_LIABILITY"),
   SYNTHETIC_HOLD_CREATE |->
     Rule("CUSTOMER_SETTLED_LIABILITY", "CUSTOMER_HELD_LIABILITY"),
   SYNTHETIC_HOLD_RELEASE |->
     Rule("CUSTOMER_HELD_LIABILITY", "CUSTOMER_SETTLED_LIABILITY"),
   SYNTHETIC_SUSPENSE_PARK_IN |-> Rule("SUSPENSE_ASSET", "CUSTOMER_SETTLED_LIABILITY"),
   SYNTHETIC_SUSPENSE_CLEAR_IN |-> Rule("TREASURY_ASSET", "SUSPENSE_ASSET")]

MCDirect == {"SYNTHETIC_PROVIDER_POSITION", "SYNTHETIC_CUSTOMER_CREDIT"}

Entry(id, account, side, amount) ==
  [entry_id |-> id, account_id |-> account, side |-> side, amount |-> amount,
   asset_code |-> MCAccountOf[account].asset_code]

(* A command with ids derived from n.                                      *)
Command(n, type, debit, credit, amount, cause, source, ref) ==
  [journal_id |-> n, journal_type |-> type, legal_entity_id |-> "dev",
   idempotency_key |-> n, actor_type |-> "SERVICE", causation_id |-> cause,
   source_type |-> source, reference |-> ref,
   entries |-> {Entry(<<n, 1>>, debit, "DEBIT", amount),
                Entry(<<n, 2>>, credit, "CREDIT", amount)}]

Credit == Command(1, "SYNTHETIC_CUSTOMER_CREDIT", "receivable", "settled", 3, Null, "rail", "c1")
Hold == Command(2, "SYNTHETIC_HOLD_CREATE", "settled", "held", 1, Null, "reservation", "r1")
HoldAgain == Command(3, "SYNTHETIC_HOLD_CREATE", "settled", "held", 2, Null, "reservation", "r1")
OtherHold == Command(4, "SYNTHETIC_HOLD_CREATE", "settled", "held", 2, Null, "reservation", "r2")
Release == Command(5, "SYNTHETIC_HOLD_RELEASE", "held", "settled", 1, 2, "reservation", "r1")
ReleaseAgain == Command(6, "SYNTHETIC_HOLD_RELEASE", "held", "settled", 1, 2, "reservation", "r1")
ReleaseMore == Command(7, "SYNTHETIC_HOLD_RELEASE", "held", "settled", 2, 2, "reservation", "r1")
ReleaseOther == Command(8, "SYNTHETIC_HOLD_RELEASE", "held", "settled", 2, 4, "reservation", "r2")
Position == Command(9, "SYNTHETIC_PROVIDER_POSITION", "treasury", "payable", 2, Null, "rail", "p1")
Reversal == Command(10, "SYNTHETIC_PROVIDER_POSITION_REVERSAL", "payable", "treasury", 2, 9, "journal_reversal", 9)
ReversalAgain == Command(11, "SYNTHETIC_PROVIDER_POSITION_REVERSAL", "payable", "treasury", 2, 9, "journal_reversal", 9)
Park == Command(12, "SYNTHETIC_SUSPENSE_PARK_IN", "suspense", "settled", 1, Null, "reconciliation_break", "b1")
ParkAgain == Command(13, "SYNTHETIC_SUSPENSE_PARK_IN", "suspense", "settled", 2, Null, "reconciliation_break", "b1")
Clear == Command(14, "SYNTHETIC_SUSPENSE_CLEAR_IN", "treasury", "suspense", 1, 12, "review", "v1")
ClearAgain == Command(15, "SYNTHETIC_SUSPENSE_CLEAR_IN", "treasury", "suspense", 1, 12, "review", "v2")

(* The key of one command, the journal id or an entry id of another.       *)
KeyReused == [Position EXCEPT !.idempotency_key = 1]
JournalReused == [OtherHold EXCEPT !.journal_id = 9, !.idempotency_key = 16]
EntryReused == [Park EXCEPT !.journal_id = 17, !.idempotency_key = 17,
                            !.entries = {Entry(<<2, 1>>, "suspense", "DEBIT", 1),
                                         Entry(<<17, 2>>, "settled", "CREDIT", 1)}]
Unbalanced == [Position EXCEPT !.entries = {Entry(<<18, 1>>, "treasury", "DEBIT", 2),
                                            Entry(<<18, 2>>, "payable", "CREDIT", 1)}]
Abroad == [Position EXCEPT !.entries = {Entry(<<19, 1>>, "abroad", "DEBIT", 2),
                                         Entry(<<19, 2>>, "payable", "CREDIT", 2)}]

MCCommands ==
  {Credit, Hold, HoldAgain, OtherHold, Release, ReleaseAgain, ReleaseMore,
   ReleaseOther, Position, Reversal, ReversalAgain, Park, ParkAgain, Clear,
   ClearAgain, KeyReused, JournalReused, EntryReused, Unbalanced, Abroad}
-----------------------------------------------------------------------------
(* The rows of a posting that seals count entries at an instant.           *)
JournalRow(c, at) ==
  [table |-> "journal", journal_id |-> c.journal_id, journal_type |-> c.journal_type,
   legal_entity_id |-> c.legal_entity_id, idempotency_key |-> c.idempotency_key,
   command_digest |-> <<c.journal_id, c.idempotency_key>>,
   actor_type |-> c.actor_type, accepted_at |-> at, at |-> at]

EntryRow(c, e, seq, at) ==
  [table |-> "entry", journal_id |-> c.journal_id, entry_id |-> e.entry_id,
   sequence_number |-> seq, account_id |-> e.account_id,
   legal_entity_id |-> c.legal_entity_id, asset_code |-> e.asset_code,
   side |-> e.side, amount |-> e.amount, at |-> at]

EntryRows(c, at) ==
  {EntryRow(c, e, IF e.side = "DEBIT" THEN 1 ELSE 2, at) : e \in c.entries}

IdempotencyRow(c, at) ==
  [table |-> "idempotency", journal_id |-> c.journal_id,
   legal_entity_id |-> c.legal_entity_id, idempotency_key |-> c.idempotency_key,
   command_digest |-> JournalRow(c, at).command_digest, at |-> at]

OutboxRow(c, at) ==
  [table |-> "outbox", journal_id |-> c.journal_id, outbox_id |-> c.journal_id,
   payload |-> [journal_id |-> c.journal_id,
                command_digest |-> JournalRow(c, at).command_digest], at |-> at]

SealRow(c, count, at) ==
  [table |-> "seal", journal_id |-> c.journal_id,
   command_digest |-> JournalRow(c, at).command_digest, entry_count |-> count, at |-> at]

Posting(c, count, at) ==
  <<{JournalRow(c, at)}, EntryRows(c, at), {IdempotencyRow(c, at)},
    {OutboxRow(c, at)}, {SealRow(c, count, at)}>>

(* The pair of a second asset the concurrency test adds to a journal.      *)
LateEntries ==
  {EntryRow(Position, Entry(<<20, 1>>, "coins", "DEBIT", 1), 3, 1),
   EntryRow(Position, Entry(<<20, 2>>, "owed", "CREDIT", 1), 4, 1)}

SameKey == [Reversal EXCEPT !.idempotency_key = 9]
SameEntry == [Reversal EXCEPT !.entries = {Entry(<<9, 1>>, "payable", "DEBIT", 2),
                                           Entry(<<10, 2>>, "treasury", "CREDIT", 2)}]

MCPostings ==
  {Posting(Position, 2, 1),                          \* a position
   Posting(Position, 2, 2),                          \* retried at another instant
   Posting(Position, 4, 1),                          \* sealed for entries to come
   SubSeq(Posting(Position, 2, 1), 1, 4),            \* not sealed
   <<LateEntries>>,                                  \* late entries alone
   <<{SealRow(Position, 4, 1)}>>,                    \* a seal alone
   Posting(Reversal, 2, 1),                          \* another journal
   Posting(SameKey, 2, 1), Posting(SameEntry, 2, 1), \* its ids reused
   Posting(Unbalanced, 2, 1)}
=============================================================================
