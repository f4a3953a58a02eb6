---------------------------- MODULE LedgerSchema ----------------------------
(***************************************************************************)
(* The PostgreSQL schema of packages/financial-core under concurrent       *)
(* transactions: migrations/0001_ledger_foundation.sql as amended by       *)
(* 0003, 0007, 0008, 0009 and 0012.                                        *)
(*                                                                         *)
(* A posting is the sequence of INSERT statements one client sends in one  *)
(* READ COMMITTED transaction, right or wrong: any rows, in any order, for *)
(* its own journal or another's.  An INSERT waits while another open       *)
(* transaction holds one of its unique keys.  The deferred triggers run at *)
(* COMMIT, before the rows become visible, so another transaction may      *)
(* commit in between.  With session_replication_role = replica foreign     *)
(* keys are not checked; the triggers are, being ENABLE ALWAYS.            *)
(***************************************************************************)
EXTENDS PostingRules, Sequences

CONSTANTS
  Clients,       \* the sessions that post
  Postings       \* the statement sequences they may send

VARIABLES
  rows,   \* the committed rows of every table
  tx      \* the transaction of each client

schemaVars == <<rows, tx>>

NoTransaction == [status |-> "idle", replica |-> FALSE, todo |-> << >>, own |-> {}]

SchemaInit ==
  /\ rows = {}
  /\ tx = [p \in Clients |-> NoTransaction]

In(view, table) == {r \in view : r.table = table}

Of(view, table, id) == {r \in In(view, table) : r.journal_id = id}

(* The unique keys a row takes.                                            *)
JournalKeys(r) ==
  {<<"journal", "id", r.journal_id>>,
   <<"journal", "key", r.legal_entity_id, r.idempotency_key>>,
   <<"journal", "digest", r.command_digest>>}

EntryKeysOfJournal(r) == {<<"entry", "sequence", r.journal_id, r.sequence_number>>}

EntryKeys(r) ==
  {<<"entry", "id", r.entry_id>>,
   <<"entry", "sequence", r.journal_id, r.sequence_number>>}

IdempotencyKeys(r) ==
  {<<"idempotency", "key", r.legal_entity_id, r.idempotency_key>>,
   <<"idempotency", "journal", r.journal_id>>,
   <<"idempotency", "digest", r.command_digest>>}

OutboxKeys(r) ==
  {<<"outbox", "id", r.outbox_id>>, <<"outbox", "journal", r.journal_id>>,
   <<"outbox", "digest", r.payload.command_digest>>}

SealKeys(r) ==
  {<<"seal", "journal", r.journal_id>>, <<"seal", "digest", r.command_digest>>}

Keys(r) ==
  CASE r.table = "journal"     -> JournalKeys(r)
    [] r.table = "entry"       -> EntryKeys(r)
    [] r.table = "idempotency" -> IdempotencyKeys(r)
    [] r.table = "outbox"      -> OutboxKeys(r)
    [] r.table = "seal"        -> SealKeys(r)

KeysOf(view) == UNION {Keys(r) : r \in view}

Unique(view) == \A r, s \in view : Keys(r) \cap Keys(s) # {} => r = s

View(p) == rows \cup tx[p].own

(* The foreign keys of a row, against what its transaction sees.           *)
References(r, view) ==
  \/ r.table = "journal" /\ r.journal_type \in DOMAIN Rules
  \/ /\ r.table = "entry"
     /\ \E j \in Of(view, "journal", r.journal_id) : j.legal_entity_id = r.legal_entity_id
     /\ r.account_id \in Accounts
     /\ AccountOf[r.account_id].legal_entity_id = r.legal_entity_id
     /\ AccountOf[r.account_id].asset_code = r.asset_code
  \/ /\ r.table = "idempotency"
     /\ Of(view, "journal", r.journal_id) # {}
     /\ \E j \in In(view, "journal") :
          /\ j.legal_entity_id = r.legal_entity_id
          /\ j.idempotency_key = r.idempotency_key
  \/ r.table = "outbox" /\ Of(view, "journal", r.journal_id) # {}
  \/ /\ r.table = "seal"
     /\ \E j \in Of(view, "journal", r.journal_id) : j.command_digest = r.command_digest

(* validate_entry_amount and reject_sealed_journal_entry.                  *)
EntryAdmitted(r, view) == r.amount > 0 /\ Of(view, "seal", r.journal_id) = {}

(* validate_acceptance_artifact_timestamp.                                 *)
ArtifactAdmitted(r, view) ==
  \E j \in Of(view, "journal", r.journal_id) : r.at = j.accepted_at

BeforeInsert(r, view) ==
  /\ r.table = "entry" => EntryAdmitted(r, view)
  /\ r.table \in {"idempotency", "outbox"} => ArtifactAdmitted(r, view)

BalancedPerAsset(entries) ==
  \A asset \in Assets(entries) :
    LET legs == OfAsset(entries, asset)
    IN  Total(legs, "DEBIT") = Total(legs, "CREDIT")

MatchesPattern(entries, rule) ==
  \A asset \in Assets(entries) :
    LET legs == OfAsset(entries, asset)
    IN  /\ {Signature(e) : e \in legs} = rule.entry_pattern
        /\ \A e, f \in legs : Signature(e) = Signature(f) => e = f

ReferencesHold(j, entries) ==
  \A e \in entries :
    /\ e.legal_entity_id = j.legal_entity_id
    /\ e.account_id \in Accounts
    /\ AccountOf[e.account_id].legal_entity_id = e.legal_entity_id
    /\ AccountOf[e.account_id].asset_code = e.asset_code

Sealed(j, entries, seals) ==
  \E s \in seals :
    /\ s.command_digest = j.command_digest
    /\ s.entry_count = Cardinality(entries)
    /\ s.at = j.accepted_at

(* assert_journal_complete, as migration 0009 leaves it.                   *)
JournalComplete(j, view) ==
  LET entries == Of(view, "entry", j.journal_id)
  IN  /\ j.at = j.accepted_at
      /\ \A e \in entries : e.at = j.accepted_at
      /\ j.journal_type \in DOMAIN Rules
      /\ j.actor_type \in Rules[j.journal_type].allowed_actor_types
      /\ ReferencesHold(j, entries)
      /\ Cardinality(entries) \in 2 .. MaxEntries
      /\ BalancedPerAsset(entries)
      /\ MatchesPattern(entries, Rules[j.journal_type])
      /\ \E r \in Of(view, "idempotency", j.journal_id) :
           /\ r.legal_entity_id = j.legal_entity_id
           /\ r.idempotency_key = j.idempotency_key
           /\ r.command_digest = j.command_digest
      /\ \E r \in Of(view, "outbox", j.journal_id) :
           /\ r.payload.journal_id = j.journal_id
           /\ r.payload.command_digest = j.command_digest
      /\ Sealed(j, entries, Of(view, "seal", j.journal_id))

AssertJournalComplete(id, view) ==
  \E j \in Of(view, "journal", id) : JournalComplete(j, view)

Begin(p, posting, replica) ==
  /\ tx[p].status = "idle"
  /\ tx' = [tx EXCEPT ![p] = [status |-> "open", replica |-> replica,
                              todo |-> posting, own |-> {}]]
  /\ UNCHANGED rows

(* Another open transaction holds a unique key of the statement.           *)
Waits(p) ==
  \E q \in Clients \ {p} : KeysOf(tx[q].own) \cap KeysOf(Head(tx[p].todo)) # {}

Admitted(p) ==
  LET stmt == Head(tx[p].todo)
      view == View(p)
  IN  /\ Unique(stmt)
      /\ KeysOf(stmt) \cap KeysOf(view) = {}
      /\ \A r \in stmt : BeforeInsert(r, view)
      /\ ~tx[p].replica => \A r \in stmt : References(r, view \cup stmt)

InsertStatement(p) ==
  /\ tx[p].status = "open" /\ tx[p].todo # << >>
  /\ ~Waits(p) /\ Admitted(p)
  /\ tx' = [tx EXCEPT ![p].own = @ \cup Head(tx[p].todo), ![p].todo = Tail(@)]
  /\ UNCHANGED rows

(* A refused statement fails its transaction.                              *)
InsertFails(p) ==
  /\ tx[p].status = "open" /\ tx[p].todo # << >>
  /\ ~Waits(p) /\ ~Admitted(p)
  /\ tx' = [tx EXCEPT ![p] = NoTransaction]
  /\ UNCHANGED rows

DeferredTriggersPassOnJournals(p) ==
  \A r \in In(tx[p].own, "journal") : AssertJournalComplete(r.journal_id, View(p))

DeferredTriggersPass(p) ==
  \A r \in tx[p].own : AssertJournalComplete(r.journal_id, View(p))

RunsTriggers(p) ==
  /\ tx[p].status = "open" /\ tx[p].todo = << >>
  /\ DeferredTriggersPass(p)
  /\ tx' = [tx EXCEPT ![p].status = "checked"]
  /\ UNCHANGED rows

TriggersFail(p) ==
  /\ tx[p].status = "open" /\ tx[p].todo = << >>
  /\ ~DeferredTriggersPass(p)
  /\ tx' = [tx EXCEPT ![p] = NoTransaction]
  /\ UNCHANGED rows

CommitTransaction(p) ==
  /\ tx[p].status = "checked"
  /\ rows' = rows \cup tx[p].own
  /\ tx' = [tx EXCEPT ![p] = NoTransaction]

(* The client disconnects, times out or is the victim of a deadlock.       *)
Abort(p) ==
  /\ tx[p].status # "idle"
  /\ tx' = [tx EXCEPT ![p] = NoTransaction]
  /\ UNCHANGED rows

SchemaNext ==
  \E p \in Clients :
    \/ \E posting \in Postings, replica \in BOOLEAN : Begin(p, posting, replica)
    \/ InsertStatement(p) \/ InsertFails(p)
    \/ RunsTriggers(p) \/ TriggersFail(p)
    \/ CommitTransaction(p) \/ Abort(p)

SchemaSpec == SchemaInit /\ [][SchemaNext]_schemaVars
-----------------------------------------------------------------------------
(* Every committed row belongs to a committed journal that is complete:    *)
(* whatever two transactions interleave, no reader ever sees a journal     *)
(* unbalanced, unsealed or without its idempotency and outbox rows, and    *)
(* none gains a row after its acceptance ("late-entry race").              *)
CommittedJournalsComplete ==
  \A r \in rows : AssertJournalComplete(r.journal_id, rows)

(* The schema implements post() of the in-memory ledger: every commit is   *)
(* one more command that ledger would accept in the same state, under a    *)
(* journal id, an idempotency key and entry ids nothing has used.          *)
EntryOf(e) ==
  [entry_id |-> e.entry_id, account_id |-> e.account_id, asset_code |-> e.asset_code,
   side |-> e.side, amount |-> e.amount]

CommandOf(j) ==
  [journal_id |-> j.journal_id, journal_type |-> j.journal_type,
   legal_entity_id |-> j.legal_entity_id, idempotency_key |-> j.idempotency_key,
   actor_type |-> j.actor_type,
   entries |-> {EntryOf(e) : e \in Of(rows, "entry", j.journal_id)}]

AcceptedOf(j) == [command |-> CommandOf(j), accepted_at |-> j.accepted_at]

KeyOf(j) == <<j.legal_entity_id, j.idempotency_key>>

Memory == INSTANCE Ledger WITH
  journals <- {AcceptedOf(j) : j \in In(rows, "journal")},
  postedEntryIds <- {e.entry_id : e \in In(rows, "entry")},
  idempotency <- [k \in {KeyOf(j) : j \in In(rows, "journal")} |->
                    AcceptedOf(CHOOSE j \in In(rows, "journal") : KeyOf(j) = k)]

ImplementsMemoryLedger == Memory!LedgerSpec
=============================================================================
