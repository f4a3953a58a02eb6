----------------------------- MODULE Ledgers_proofs -----------------------------
(***************************************************************************)
(* The two ledgers of packages/financial-core, for every chart of accounts *)
(* and set of commands or statements.                                      *)
(*                                                                         *)
(* In PostgreSQL no reader ever sees an incomplete journal.                *)
(* CommittedJournalsComplete is not inductive: the deferred triggers judge *)
(* a transaction before its rows become visible, and another one may       *)
(* commit in between.  What they found stays true because a row that       *)
(* belongs to the same journal would come with the journal's one seal, and *)
(* the unique keys of open transactions and of the table never meet.       *)
(*                                                                         *)
(* A commit of one journal is one post() of the memory ledger, under the   *)
(* mapping of LedgerSchema: MappedNow and MappedAfter name the ledger a    *)
(* table stands for, Adds what a commit changes in it.                     *)
(*                                                                         *)
(* In memory the control accounts of Session D reconcile with its records. *)
(* Its operations record what they did also when the ledger only replayed  *)
(* the command, so DraftInv says what every accepted journal left behind:  *)
(* a hold, a released hold, a resolved break or a reversed journal, which  *)
(* the operation's own check then finds before it posts again.             *)
(***************************************************************************)
EXTENDS SessionDLedger, LedgerSchema, SetSums, FiniteSetTheorems, SequenceTheorems, TLAPS

KeysHeldOnce ==
  /\ Unique(rows)
  /\ \A p \in Clients : Unique(tx[p].own) /\ KeysOf(tx[p].own) \cap KeysOf(rows) = {}
  /\ \A p, q \in Clients : p # q => KeysOf(tx[p].own) \cap KeysOf(tx[q].own) = {}

RowsFinite ==
  IsFiniteSet(rows) /\ \A p \in Clients : IsFiniteSet(tx[p].own)

CheckedComplete ==
  \A p \in Clients : tx[p].status = "checked" =>
    \A r \in tx[p].own : AssertJournalComplete(r.journal_id, rows \cup tx[p].own)

(* What a client still has to send are statements of its posting.          *)
TransactionsTyped(Statements) ==
  /\ tx = [p \in Clients |-> tx[p]]
  /\ \A p \in Clients :
       tx[p] \in [status : {"idle", "open", "checked"}, replica : BOOLEAN,
                  todo : Seq(Statements), own : SUBSET UNION Statements]

SchemaInv(Statements) ==
  /\ TransactionsTyped(Statements)
  /\ KeysHeldOnce /\ RowsFinite /\ CheckedComplete /\ CommittedJournalsComplete
-----------------------------------------------------------------------------
(* A key in common is a key of a row of each side.                         *)
LEMMA KeysMeet ==
  ASSUME NEW A, NEW B, KeysOf(A) \cap KeysOf(B) = {},
         NEW r \in A, NEW s \in B
  PROVE  Keys(r) \cap Keys(s) = {}
  BY DEF KeysOf

LEMMA EntriesHaveKeys ==
  ASSUME NEW r, r.table = "entry"
  PROVE  Keys(r) # {}
  <1>1. Keys(r) = EntryKeys(r)
    BY DEF Keys
  <1>2. QED
    BY <1>1 DEF EntryKeys

LEMMA SealsShareKeys ==
  ASSUME NEW r, NEW s, r.table = "seal", s.table = "seal", r.journal_id = s.journal_id
  PROVE  Keys(r) \cap Keys(s) # {}
  <1>1. Keys(r) = SealKeys(r) /\ Keys(s) = SealKeys(s)
    BY DEF Keys
  <1>2. QED
    BY <1>1 DEF SealKeys

LEMMA UniqueUnion ==
  ASSUME NEW A, NEW B, Unique(A), Unique(B), KeysOf(A) \cap KeysOf(B) = {}
  PROVE  Unique(A \cup B)
  BY KeysMeet DEF Unique

LEMMA KeysOfUnion ==
  ASSUME NEW A, NEW B
  PROVE  KeysOf(A \cup B) = KeysOf(A) \cup KeysOf(B)
  BY DEF KeysOf

LEMMA NoKeys == KeysOf({}) = {} /\ Unique({})
  BY DEF KeysOf, Unique

(* A complete journal stays complete as long as it gains no entry.         *)
LEMMA CompleteStays ==
  ASSUME NEW A, NEW B, A \subseteq B, NEW id,
         Of(B, "entry", id) = Of(A, "entry", id),
         AssertJournalComplete(id, A)
  PROVE  AssertJournalComplete(id, B)
  <1>1. PICK j \in Of(A, "journal", id) : JournalComplete(j, A)
    BY DEF AssertJournalComplete
  <1>2. j \in Of(B, "journal", id) /\ j.journal_id = id
    BY <1>1 DEF Of, In
  <1>3. \A table : Of(A, table, id) \subseteq Of(B, table, id)
    BY DEF Of, In
  <1>4. JournalComplete(j, B)
    BY <1>1, <1>2, <1>3 DEF JournalComplete, Sealed
  <1>5. QED
    BY <1>2, <1>4 DEF AssertJournalComplete

(* A complete journal has a seal that counts its entries.                  *)
LEMMA CompleteSealed ==
  ASSUME NEW A, NEW id, AssertJournalComplete(id, A)
  PROVE  \E s \in A :
           /\ s.table = "seal" /\ s.journal_id = id
           /\ s.entry_count = Cardinality(Of(A, "entry", id))
  BY DEF AssertJournalComplete, JournalComplete, Sealed, Of, In

(* Two transactions passed by the triggers: neither has an entry of a      *)
(* journal the other wrote to.                                             *)
LEMMA NoSharedJournal ==
  ASSUME NEW R, NEW A, NEW B, IsFiniteSet(R), IsFiniteSet(B), Unique(R), KeysOf(A) \cap KeysOf(R) = {}, KeysOf(B) \cap KeysOf(R) = {},
         KeysOf(A) \cap KeysOf(B) = {},
         \A r \in R : AssertJournalComplete(r.journal_id, R),
         \A r \in B : AssertJournalComplete(r.journal_id, R \cup B),
         NEW id, AssertJournalComplete(id, R \cup A)
  PROVE  Of(B, "entry", id) = {}
  <1> SUFFICES ASSUME NEW e \in Of(B, "entry", id) PROVE FALSE
    OBVIOUS
  <1>1. e \in B /\ e.table = "entry" /\ e.journal_id = id
    BY DEF Of, In
  <1>2. PICK s \in R \cup A : s.table = "seal" /\ s.journal_id = id
    BY CompleteSealed
  <1>3. AssertJournalComplete(id, R \cup B)
    BY <1>1
  <1>4. PICK t \in R \cup B :
          /\ t.table = "seal" /\ t.journal_id = id
          /\ t.entry_count = Cardinality(Of(R \cup B, "entry", id))
    BY <1>3, CompleteSealed
  <1>5. Keys(s) \cap Keys(t) # {}
    BY <1>2, <1>4, SealsShareKeys
  <1>6. s \in R
    BY <1>4, <1>5, KeysMeet
  <1>7. t \in R
    BY <1>5, <1>6, KeysMeet
  <1>8. AssertJournalComplete(id, R)
    BY <1>2, <1>6
  <1>9. PICK u \in R :
          /\ u.table = "seal" /\ u.journal_id = id
          /\ u.entry_count = Cardinality(Of(R, "entry", id))
    BY <1>8, CompleteSealed
  <1>10. u = t
    BY <1>4, <1>7, <1>9, SealsShareKeys DEF Unique
  <1>11. Of(R, "entry", id) = Of(R \cup B, "entry", id)
    <2>1. IsFiniteSet(R \cup B)
      BY FS_Union
    <2>2. IsFiniteSet(Of(R \cup B, "entry", id))
      BY <2>1, FS_Subset DEF Of, In
    <2>3. Of(R, "entry", id) \subseteq Of(R \cup B, "entry", id)
      BY DEF Of, In
    <2>4. Cardinality(Of(R, "entry", id)) = Cardinality(Of(R \cup B, "entry", id))
      BY <1>4, <1>9, <1>10
    <2>5. QED
      BY <2>2, <2>3, <2>4, FS_Subset
  <1>12. e \in R
    BY <1>1, <1>11 DEF Of, In
  <1>13. Keys(e) = {}
    BY <1>1, <1>12, KeysMeet
  <1>14. QED
    BY <1>1, <1>13, EntriesHaveKeys
-----------------------------------------------------------------------------
LEMMA InitHolds ==
  ASSUME NEW Statements, SchemaInit
  PROVE  SchemaInv(Statements)
  <1>1. TransactionsTyped(Statements)
    BY EmptySeq DEF SchemaInit, TransactionsTyped, NoTransaction
  <1>2. KeysHeldOnce
    BY NoKeys DEF SchemaInit, KeysHeldOnce, NoTransaction
  <1>3. RowsFinite
    BY FS_EmptySet DEF SchemaInit, RowsFinite, NoTransaction
  <1>4. CheckedComplete /\ CommittedJournalsComplete
    BY DEF SchemaInit, CheckedComplete, CommittedJournalsComplete, NoTransaction
  <1>5. QED
    BY <1>1, <1>2, <1>3, <1>4 DEF SchemaInv

(* A transaction that begins or ends without a commit.                     *)
Empties(p, Statements) ==
  /\ \E t \in [status : {"idle", "open"}, replica : BOOLEAN,
               todo : Seq(Statements), own : {{}}] : tx' = [tx EXCEPT ![p] = t]
  /\ UNCHANGED rows

LEMMA EmptyHolds ==
  ASSUME NEW Statements, SchemaInv(Statements), NEW p \in Clients, Empties(p, Statements)
  PROVE  SchemaInv(Statements)'
  <1>1. PICK t \in [status : {"idle", "open"}, replica : BOOLEAN,
                    todo : Seq(Statements), own : {{}}] : tx' = [tx EXCEPT ![p] = t]
    BY DEF Empties
  <1>2. rows' = rows
    BY DEF Empties
  <1>3. TransactionsTyped(Statements)'
    BY <1>1 DEF SchemaInv, TransactionsTyped
  <1>4. /\ tx'[p].own = {} /\ tx'[p].status # "checked"
        /\ \A q \in Clients \ {p} : tx'[q] = tx[q]
    BY <1>1 DEF SchemaInv, TransactionsTyped
  <1>5. KeysHeldOnce'
    <2>1. KeysOf(tx'[p].own) = {} /\ Unique(tx'[p].own)
      BY <1>4, NoKeys
    <2>2. \A q \in Clients : Unique(tx'[q].own) /\ KeysOf(tx'[q].own) \cap KeysOf(rows) = {}
      BY <1>4, <2>1 DEF SchemaInv, KeysHeldOnce
    <2>3. \A q, o \in Clients : q # o => KeysOf(tx'[q].own) \cap KeysOf(tx'[o].own) = {}
      BY <1>4, <2>1 DEF SchemaInv, KeysHeldOnce
    <2>4. QED
      BY <1>2, <2>2, <2>3 DEF SchemaInv, KeysHeldOnce
  <1>6. RowsFinite'
    BY <1>2, <1>4, FS_EmptySet DEF SchemaInv, RowsFinite
  <1>7. CheckedComplete'
    BY <1>2, <1>4 DEF SchemaInv, CheckedComplete
  <1>8. CommittedJournalsComplete'
    BY <1>2 DEF SchemaInv, CommittedJournalsComplete
  <1>9. QED
    BY <1>3, <1>5, <1>6, <1>7, <1>8 DEF SchemaInv

(* An INSERT takes keys no transaction and no row holds.                   *)
LEMMA InsertHolds ==
  ASSUME NEW Statements, \A stmt \in Statements : IsFiniteSet(stmt),
         SchemaInv(Statements), NEW p \in Clients, InsertStatement(p)
  PROVE  SchemaInv(Statements)'
  <1> DEFINE stmt == Head(tx[p].todo)
  <1>1. /\ tx[p].status = "open" /\ tx[p].todo # << >> /\ rows' = rows
        /\ tx' = [tx EXCEPT ![p].own = @ \cup stmt, ![p].todo = Tail(@)]
        /\ ~Waits(p) /\ Admitted(p)
    BY DEF InsertStatement
  <1>2. /\ tx[p] \in [status : {"idle", "open", "checked"}, replica : BOOLEAN,
                      todo : Seq(Statements), own : SUBSET UNION Statements]
        /\ tx = [q \in Clients |-> tx[q]]
    BY DEF SchemaInv, TransactionsTyped
  <1>3. stmt \in Statements /\ Tail(tx[p].todo) \in Seq(Statements)
    BY <1>1, <1>2, HeadTailProperties
  <1> HIDE DEF stmt
  <1>4. /\ tx'[p] = [tx[p] EXCEPT !.own = @ \cup stmt, !.todo = Tail(@)]
        /\ \A q \in Clients \ {p} : tx'[q] = tx[q]
    BY <1>1, <1>2
  <1>5. tx'[p].own = tx[p].own \cup stmt /\ tx'[p].status = "open"
    BY <1>1, <1>2, <1>4
  <1>6. TransactionsTyped(Statements)'
    <2>1. tx'[p] \in [status : {"idle", "open", "checked"}, replica : BOOLEAN,
                      todo : Seq(Statements), own : SUBSET UNION Statements]
      BY <1>2, <1>3, <1>4
    <2>2. tx' = [q \in Clients |-> tx'[q]]
      BY <1>1, <1>2
    <2>3. QED
      BY <1>4, <2>1, <2>2 DEF SchemaInv, TransactionsTyped
  <1>7. /\ Unique(stmt) /\ KeysOf(stmt) \cap KeysOf(rows) = {}
        /\ KeysOf(stmt) \cap KeysOf(tx[p].own) = {}
    BY <1>1, KeysOfUnion DEF Admitted, View, stmt
  <1>8. \A q \in Clients \ {p} : KeysOf(tx[q].own) \cap KeysOf(stmt) = {}
    BY <1>1 DEF Waits, stmt
  <1>9. KeysHeldOnce'
    <2>1. KeysOf(tx'[p].own) = KeysOf(tx[p].own) \cup KeysOf(stmt)
      BY <1>5, KeysOfUnion
    <2>2. Unique(tx'[p].own)
      BY <1>5, <1>7, UniqueUnion DEF SchemaInv, KeysHeldOnce
    <2>3. \A q \in Clients : Unique(tx'[q].own) /\ KeysOf(tx'[q].own) \cap KeysOf(rows) = {}
      BY <1>4, <1>7, <2>1, <2>2 DEF SchemaInv, KeysHeldOnce
    <2>4. \A q, o \in Clients : q # o => KeysOf(tx'[q].own) \cap KeysOf(tx'[o].own) = {}
      <3> SUFFICES ASSUME NEW q \in Clients, NEW o \in Clients, q # o
                   PROVE  KeysOf(tx'[q].own) \cap KeysOf(tx'[o].own) = {}
        OBVIOUS
      <3>1. KeysOf(tx[q].own) \cap KeysOf(tx[o].own) = {}
        BY DEF SchemaInv, KeysHeldOnce
      <3>2. CASE q = p
        BY <3>1, <3>2, <1>4, <1>8, <2>1
      <3>3. CASE o = p
        BY <3>1, <3>3, <1>4, <1>8, <2>1
      <3>4. CASE q # p /\ o # p
        BY <3>1, <3>4, <1>4
      <3>5. QED
        BY <3>2, <3>3, <3>4
    <2>5. QED
      BY <1>1, <2>3, <2>4 DEF SchemaInv, KeysHeldOnce
  <1>10. RowsFinite'
    <2>1. IsFiniteSet(rows) /\ \A q \in Clients : IsFiniteSet(tx[q].own)
      BY DEF SchemaInv, RowsFinite
    <2>2. IsFiniteSet(tx'[p].own)
      BY <1>3, <1>5, <2>1, FS_Union
    <2>3. QED
      BY <1>1, <1>4, <2>1, <2>2 DEF RowsFinite
  <1>11. CheckedComplete'
    BY <1>1, <1>4, <1>5 DEF SchemaInv, CheckedComplete
  <1>12. CommittedJournalsComplete'
    BY <1>1 DEF SchemaInv, CommittedJournalsComplete
  <1>13. QED
    BY <1>6, <1>9, <1>10, <1>11, <1>12 DEF SchemaInv

LEMMA CheckHolds ==
  ASSUME NEW Statements, SchemaInv(Statements), NEW p \in Clients, RunsTriggers(p)
  PROVE  SchemaInv(Statements)'
  <1>1. /\ rows' = rows /\ tx' = [tx EXCEPT ![p].status = "checked"]
        /\ \A r \in tx[p].own : AssertJournalComplete(r.journal_id, rows \cup tx[p].own)
    BY DEF RunsTriggers, DeferredTriggersPass, View
  <1>2. TransactionsTyped(Statements)'
    BY <1>1 DEF SchemaInv, TransactionsTyped
  <1>3. \A q \in Clients : /\ tx'[q].own = tx[q].own
                           /\ q # p => tx'[q].status = tx[q].status
    BY <1>1 DEF SchemaInv, TransactionsTyped
  <1>4. KeysHeldOnce'
    BY <1>1, <1>3 DEF SchemaInv, KeysHeldOnce
  <1>5. RowsFinite'
    BY <1>1, <1>3 DEF SchemaInv, RowsFinite
  <1>6. CheckedComplete'
    BY <1>1, <1>3 DEF SchemaInv, CheckedComplete
  <1>7. CommittedJournalsComplete'
    BY <1>1 DEF SchemaInv, CommittedJournalsComplete
  <1>8. QED
    BY <1>2, <1>4, <1>5, <1>6, <1>7 DEF SchemaInv

(* What is committed between the triggers of a transaction and its own     *)
(* commit leaves its journals and those of every row as they were judged.  *)
LEMMA CommitHolds ==
  ASSUME NEW Statements, SchemaInv(Statements), NEW q \in Clients, CommitTransaction(q)
  PROVE  SchemaInv(Statements)'
  <1> DEFINE own == tx[q].own
  <1>1. /\ tx[q].status = "checked" /\ rows' = rows \cup own
        /\ tx' = [tx EXCEPT ![q] = NoTransaction]
    BY DEF CommitTransaction
  <1>2. TransactionsTyped(Statements)'
    BY <1>1, EmptySeq DEF SchemaInv, TransactionsTyped, NoTransaction
  <1>3. /\ tx'[q].own = {} /\ tx'[q].status = "idle"
        /\ \A p \in Clients \ {q} : tx'[p] = tx[p]
    BY <1>1 DEF SchemaInv, TransactionsTyped, NoTransaction
  <1>4. /\ Unique(rows) /\ Unique(own) /\ KeysOf(own) \cap KeysOf(rows) = {}
        /\ \A p \in Clients \ {q} :
             /\ KeysOf(tx[p].own) \cap KeysOf(rows) = {}
             /\ KeysOf(tx[p].own) \cap KeysOf(own) = {}
    BY DEF SchemaInv, KeysHeldOnce
  <1>5. KeysHeldOnce'
    <2>1. KeysOf(rows') = KeysOf(rows) \cup KeysOf(own)
      BY <1>1, KeysOfUnion
    <2>2. Unique(rows')
      BY <1>1, <1>4, UniqueUnion
    <2>3. KeysOf(tx'[q].own) = {} /\ Unique(tx'[q].own)
      BY <1>3, NoKeys
    <2>4. \A p \in Clients : Unique(tx'[p].own) /\ KeysOf(tx'[p].own) \cap KeysOf(rows') = {}
      BY <1>3, <1>4, <2>1, <2>3 DEF SchemaInv, KeysHeldOnce
    <2>5. \A p, o \in Clients : p # o => KeysOf(tx'[p].own) \cap KeysOf(tx'[o].own) = {}
      BY <1>3, <2>3 DEF SchemaInv, KeysHeldOnce
    <2>6. QED
      BY <2>2, <2>4, <2>5 DEF KeysHeldOnce
  <1>6. RowsFinite'
    BY <1>1, <1>3, FS_Union, FS_EmptySet DEF SchemaInv, RowsFinite
  <1>7. /\ \A r \in rows : AssertJournalComplete(r.journal_id, rows)
        /\ \A r \in own : AssertJournalComplete(r.journal_id, rows \cup own)
    BY <1>1 DEF SchemaInv, CheckedComplete, CommittedJournalsComplete
  <1>8. CommittedJournalsComplete'
    <2> SUFFICES ASSUME NEW r \in rows \cup own
                 PROVE  AssertJournalComplete(r.journal_id, rows \cup own)
      BY <1>1 DEF CommittedJournalsComplete
    <2>1. CASE \E e \in own : e.journal_id = r.journal_id
      BY <2>1, <1>7
    <2>2. CASE ~\E e \in own : e.journal_id = r.journal_id
      <3>1. r \in rows
        BY <2>2
      <3>2. Of(rows \cup own, "entry", r.journal_id) = Of(rows, "entry", r.journal_id)
        BY <2>2 DEF Of, In
      <3>3. QED
        BY <3>1, <3>2, <1>7, CompleteStays
    <2>3. QED
      BY <2>1, <2>2
  <1>9. CheckedComplete'
    <2> SUFFICES ASSUME NEW p \in Clients, tx'[p].status = "checked", NEW r \in tx'[p].own
                 PROVE  AssertJournalComplete(r.journal_id, rows' \cup tx'[p].own)
      BY DEF CheckedComplete
    <2>1. p # q /\ tx'[p] = tx[p]
      BY <1>3
    <2>2. AssertJournalComplete(r.journal_id, rows \cup tx[p].own)
      BY <2>1 DEF SchemaInv, CheckedComplete
    <2>3. IsFiniteSet(rows) /\ IsFiniteSet(own)
      BY DEF SchemaInv, RowsFinite
    <2>4. Of(own, "entry", r.journal_id) = {}
      BY <2>1, <2>2, <2>3, <1>4, <1>7, NoSharedJournal
    <2>5. Of(rows' \cup tx[p].own, "entry", r.journal_id)
            = Of(rows \cup tx[p].own, "entry", r.journal_id)
      BY <1>1, <2>4 DEF Of, In
    <2>6. rows \cup tx[p].own \subseteq rows' \cup tx[p].own
      BY <1>1
    <2>7. AssertJournalComplete(r.journal_id, rows' \cup tx[p].own)
      BY <2>2, <2>5, <2>6, CompleteStays
    <2>8. QED
      BY <2>1, <2>7
  <1>10. QED
    BY <1>2, <1>5, <1>6, <1>8, <1>9 DEF SchemaInv

LEMMA SchemaStep ==
  ASSUME NEW Statements, \A stmt \in Statements : IsFiniteSet(stmt),
         Postings \subseteq Seq(Statements), SchemaInv(Statements), SchemaNext
  PROVE  SchemaInv(Statements)'
  <1>1. ASSUME NEW p \in Clients, NEW posting \in Postings, NEW replica \in BOOLEAN,
               Begin(p, posting, replica)
        PROVE  SchemaInv(Statements)'
    BY <1>1, EmptyHolds DEF Begin, Empties
  <1>2. ASSUME NEW p \in Clients, InsertFails(p) \/ TriggersFail(p) \/ Abort(p)
        PROVE  SchemaInv(Statements)'
    <2>1. Empties(p, Statements)
      BY <1>2, EmptySeq DEF InsertFails, TriggersFail, Abort, Empties, NoTransaction
    <2>2. QED
      BY <2>1, EmptyHolds
  <1>3. QED
    BY <1>1, <1>2, InsertHolds, CheckHolds, CommitHolds DEF SchemaNext

LEMMA SchemaStays ==
  ASSUME NEW Statements, SchemaInv(Statements), rows' = rows, tx' = tx
  PROVE  SchemaInv(Statements)'
  BY DEF SchemaInv, TransactionsTyped, KeysHeldOnce, RowsFinite, CheckedComplete,
         CommittedJournalsComplete

(* However transactions interleave, whatever they insert and whenever they *)
(* fail, every committed row belongs to a committed journal that balances, *)
(* matches its posting rule, is sealed and has its idempotency and outbox  *)
(* rows (the deferred triggers and unique keys of migrations 0001 to 0012).*)
THEOREM JournalsCommitComplete ==
  ASSUME NEW Statements, \A stmt \in Statements : IsFiniteSet(stmt),
         Postings \subseteq Seq(Statements)
  PROVE  SchemaSpec => []CommittedJournalsComplete
  <1>1. SchemaInit => SchemaInv(Statements)
    BY InitHolds
  <1>2. SchemaInv(Statements) /\ [SchemaNext]_schemaVars => SchemaInv(Statements)'
    BY SchemaStep, SchemaStays DEF schemaVars
  <1>3. SchemaInv(Statements) => CommittedJournalsComplete
    BY DEF SchemaInv
  <1>4. QED
    BY <1>1, <1>2, <1>3, PTL DEF SchemaSpec
-----------------------------------------------------------------------------
Legs(S) == IsFiniteSet(S) /\ \A e \in S : e.amount \in Int

LEMMA AmountsSum ==
  ASSUME NEW S, IsFiniteSet(S), NEW w \in [S -> Int], \A e \in S : w[e] = e.amount
  PROVE  \E f : Sums(f, w, S) /\ Amounts(S) = f[S]
  <1> DEFINE Body(f) == [s \in SUBSET S |->
               IF s = {} THEN 0
               ELSE (CHOOSE e \in s : TRUE).amount + f[s \ {CHOOSE e \in s : TRUE}]]
             chosen == CHOOSE f : f = Body(f)
  <1>1. Amounts(S) = chosen[S]
    BY DEF Amounts, MapThenSumSet, MapThenFoldSet
  <1>2. ASSUME NEW f
        PROVE  Body(f) = [s \in SUBSET S |-> IF s = {} THEN 0 ELSE w[Some(s)] + f[s \ {Some(s)}]]
    <2>1. \A s \in SUBSET S : s # {} => w[Some(s)] = Some(s).amount
      BY SomeIn
    <2>2. QED
      BY <2>1 DEF Some
  <1> HIDE DEF Body
  <1>3. \A f : f = Body(f) <=> Sums(f, w, S)
    BY <1>2 DEF Sums
  <1>4. \E f : f = Body(f)
    BY <1>3, SumsExist
  <1>5. chosen = Body(chosen)
    BY <1>4
  <1> HIDE DEF chosen
  <1>6. QED
    BY <1>1, <1>3, <1>5

(* The amounts of the entries of a set are read from one function.         *)
LEMMA AmountsOf ==
  ASSUME NEW T, Legs(T), NEW v, v = [e \in T |-> e.amount], NEW g, Sums(g, v, T),
         NEW S \in SUBSET T
  PROVE  Amounts(S) = g[S]
  <1> DEFINE w == [e \in S |-> e.amount]
  <1>1. IsFiniteSet(S)
    BY FS_Subset DEF Legs
  <1>2. w \in [S -> Int] /\ (\A e \in S : w[e] = e.amount) /\ (\A e \in S : w[e] = v[e])
    BY DEF Legs
  <1> HIDE DEF w
  <1>3. PICK f : Sums(f, w, S) /\ Amounts(S) = f[S]
    BY <1>1, <1>2, AmountsSum
  <1>4. IsFiniteSet(T)
    BY DEF Legs
  <1>5. \A s \in SUBSET S : f[s] = g[s]
    BY ONLY <1>2, <1>3, <1>4, Sums(g, v, T), S \in SUBSET T, SumsAgree
  <1>6. QED
    BY <1>3, <1>5

LEMMA AmountsUnion ==
  ASSUME NEW A, NEW B, Legs(A), Legs(B), A \cap B = {}
  PROVE  /\ Amounts(A \cup B) = Amounts(A) + Amounts(B)
         /\ Amounts(A) \in Int /\ Amounts(B) \in Int
  <1> DEFINE T == A \cup B
             v == [e \in T |-> e.amount]
  <1>1. Legs(T)
    BY FS_Union DEF Legs
  <1>2. v \in [T -> Int] /\ v = [e \in T |-> e.amount]
    BY <1>1 DEF Legs
  <1>3. A \in SUBSET T /\ B \in SUBSET T /\ T \in SUBSET T /\ A \cup B = T
    OBVIOUS
  <1> HIDE DEF T, v
  <1>4. PICK g : Sums(g, v, T)
    BY <1>1, <1>2, SumsExist DEF Legs
  <1>5. Amounts(A) = g[A] /\ Amounts(B) = g[B] /\ Amounts(T) = g[T]
    BY ONLY <1>1, <1>2, <1>3, <1>4, AmountsOf
  <1>6. IsFiniteSet(T)
    BY <1>1 DEF Legs
  <1>7. g[A \cup B] = g[A] + g[B]
    BY ONLY <1>2, <1>3, <1>4, <1>6, A \cap B = {}, SumsUnion
  <1>8. g[A] \in Int /\ g[B] \in Int
    BY ONLY <1>2, <1>3, <1>4, <1>6, SumsInt
  <1>9. QED
    BY <1>3, <1>5, <1>7, <1>8

LEMMA AmountsNone == Amounts({}) = 0
  <1> DEFINE w == [e \in {} |-> e.amount]
  <1>1. IsFiniteSet({})
    BY FS_EmptySet
  <1>2. w \in [{} -> Int] /\ \A e \in {} : w[e] = e.amount
    OBVIOUS
  <1> HIDE DEF w
  <1>3. PICK f : Sums(f, w, {}) /\ Amounts({}) = f[{}]
    BY <1>1, <1>2, AmountsSum
  <1>4. f[{}] = 0
    BY <1>3 DEF Sums
  <1>5. QED
    BY <1>3, <1>4

LEMMA AmountsOne ==
  ASSUME NEW e, e.amount \in Int
  PROVE  Amounts({e}) = e.amount
  <1> DEFINE S == {e}
             w == [x \in S |-> x.amount]
  <1>1. IsFiniteSet(S)
    BY FS_Singleton
  <1>2. w \in [S -> Int] /\ \A x \in S : w[x] = x.amount
    OBVIOUS
  <1>3. S \in SUBSET S /\ e \in S /\ S \ {e} = {} /\ {} \in SUBSET S
    OBVIOUS
  <1> HIDE DEF w, S
  <1>4. PICK f : Sums(f, w, S) /\ Amounts(S) = f[S]
    BY <1>1, <1>2, AmountsSum
  <1>5. f[S] = w[e] + f[S \ {e}]
    BY ONLY <1>1, <1>2, <1>3, <1>4, SumsAny
  <1>6. f[{}] = 0
    BY <1>3, <1>4, SumsAt
  <1>7. f[S] = w[e] + 0 /\ w[e] = e.amount
    BY <1>2, <1>3, <1>5, <1>6
  <1>8. QED
    BY <1>4, <1>7 DEF S

LEMMA LegsSubset ==
  ASSUME NEW A, Legs(A), NEW B \in SUBSET A
  PROVE  Legs(B)
  BY FS_Subset DEF Legs

LEMMA LegsUnion ==
  ASSUME NEW A, NEW B, Legs(A), Legs(B)
  PROVE  Legs(A \cup B)
  BY FS_Union DEF Legs

(* The two sides of a set of entries.                                      *)
LEMMA TotalsUnion ==
  ASSUME NEW A, NEW B, Legs(A), Legs(B), A \cap B = {}, NEW side
  PROVE  /\ Total(A \cup B, side) = Total(A, side) + Total(B, side)
         /\ Total(A, side) \in Int /\ Total(B, side) \in Int
  <1> DEFINE On1(S) == {e \in S : e.side = side}
  <1>1. \A S : Total(S, side) = Amounts(On1(S))
    BY DEF Total
  <1>2. On1(A \cup B) = On1(A) \cup On1(B) /\ On1(A) \cap On1(B) = {}
    OBVIOUS
  <1>3. Legs(On1(A)) /\ Legs(On1(B))
    BY LegsSubset
  <1> HIDE DEF On1
  <1>4. /\ Amounts(On1(A) \cup On1(B)) = Amounts(On1(A)) + Amounts(On1(B))
        /\ Amounts(On1(A)) \in Int /\ Amounts(On1(B)) \in Int
    BY ONLY <1>2, <1>3, AmountsUnion
  <1>5. QED
    BY <1>1, <1>2, <1>4

LEMMA TotalsNone == \A side : Total({}, side) = 0
  <1> TAKE side
  <1>1. {e \in {} : e.side = side} = {}
    OBVIOUS
  <1>2. Total({}, side) = Amounts({e \in {} : e.side = side})
    BY DEF Total
  <1>3. QED
    BY <1>1, <1>2, AmountsNone
-----------------------------------------------------------------------------
LegsOn(S, a) == {e \in S : e.account_id = a}

BalanceOf(S, a) ==
  IF AccountOf[a].definition_code \in CreditNormal
  THEN Total(LegsOn(S, a), "CREDIT") - Total(LegsOn(S, a), "DEBIT")
  ELSE Total(LegsOn(S, a), "DEBIT") - Total(LegsOn(S, a), "CREDIT")

LEMMA BalancesAreOfEntries == \A a : NormalBalance(a) = BalanceOf(Entries, a)
  BY DEF NormalBalance, BalanceOf, LegsOn

LEMMA BalanceUnion ==
  ASSUME NEW A, NEW B, Legs(A), Legs(B), A \cap B = {}, NEW a
  PROVE  /\ BalanceOf(A \cup B, a) = BalanceOf(A, a) + BalanceOf(B, a)
         /\ BalanceOf(A, a) \in Int /\ BalanceOf(B, a) \in Int
  <1>1. LegsOn(A \cup B, a) = LegsOn(A, a) \cup LegsOn(B, a)
    BY DEF LegsOn
  <1>2. LegsOn(A, a) \in SUBSET A /\ LegsOn(B, a) \in SUBSET B
    BY DEF LegsOn
  <1>3. Legs(LegsOn(A, a)) /\ Legs(LegsOn(B, a)) /\ LegsOn(A, a) \cap LegsOn(B, a) = {}
    BY <1>2, LegsSubset
  <1>4. \A side :
          /\ Total(LegsOn(A, a) \cup LegsOn(B, a), side) =
               Total(LegsOn(A, a), side) + Total(LegsOn(B, a), side)
          /\ Total(LegsOn(A, a), side) \in Int /\ Total(LegsOn(B, a), side) \in Int
    BY ONLY <1>3, TotalsUnion
  <1> DEFINE t(S, side) == Total(S, side)
  <1>5. /\ t(LegsOn(A \cup B, a), "DEBIT") = t(LegsOn(A, a), "DEBIT") + t(LegsOn(B, a), "DEBIT")
        /\ t(LegsOn(A \cup B, a), "CREDIT") = t(LegsOn(A, a), "CREDIT") + t(LegsOn(B, a), "CREDIT")
        /\ t(LegsOn(A, a), "DEBIT") \in Int /\ t(LegsOn(B, a), "DEBIT") \in Int
        /\ t(LegsOn(A, a), "CREDIT") \in Int /\ t(LegsOn(B, a), "CREDIT") \in Int
    BY <1>1, <1>4
  <1>6. QED
    BY <1>5 DEF BalanceOf

LEMMA BalanceNone ==
  ASSUME NEW S, NEW a, LegsOn(S, a) = {}
  PROVE  BalanceOf(S, a) = 0
  BY TotalsNone DEF BalanceOf

(* Legs on one side of an account move its balance that way.               *)
NormalSide(a) == IF AccountOf[a].definition_code \in CreditNormal THEN "CREDIT" ELSE "DEBIT"

LEMMA OneSided ==
  ASSUME NEW S, NEW side, \A e \in S : e.side = side
  PROVE  /\ Total(S, side) = Amounts(S)
         /\ \A other : other # side => Total(S, other) = 0
  <1>1. {e \in S : e.side = side} = S
    OBVIOUS
  <1>2. \A other : Total(S, other) = Amounts({e \in S : e.side = other})
    BY DEF Total
  <1>3. \A other : other # side => {e \in S : e.side = other} = {}
    OBVIOUS
  <1>4. QED
    BY <1>1, <1>2, <1>3, AmountsNone

LEMMA BalanceGrows ==
  ASSUME NEW S, NEW a, \A e \in LegsOn(S, a) : e.side = NormalSide(a),
         Amounts(LegsOn(S, a)) \in Int
  PROVE  BalanceOf(S, a) = Amounts(LegsOn(S, a))
  <1>1. /\ Total(LegsOn(S, a), NormalSide(a)) = Amounts(LegsOn(S, a))
        /\ \A other : other # NormalSide(a) => Total(LegsOn(S, a), other) = 0
    BY OneSided
  <1>2. CASE AccountOf[a].definition_code \in CreditNormal
    BY <1>1, <1>2 DEF BalanceOf, NormalSide
  <1>3. CASE AccountOf[a].definition_code \notin CreditNormal
    BY <1>1, <1>3 DEF BalanceOf, NormalSide
  <1>4. QED
    BY <1>2, <1>3

LEMMA BalanceShrinks ==
  ASSUME NEW S, NEW a, \A e \in LegsOn(S, a) : e.side = Opposite(NormalSide(a)),
         Amounts(LegsOn(S, a)) \in Int
  PROVE  BalanceOf(S, a) = 0 - Amounts(LegsOn(S, a))
  <1>1. /\ Total(LegsOn(S, a), Opposite(NormalSide(a))) = Amounts(LegsOn(S, a))
        /\ \A other : other # Opposite(NormalSide(a)) => Total(LegsOn(S, a), other) = 0
    BY OneSided
  <1>2. CASE AccountOf[a].definition_code \in CreditNormal
    BY <1>1, <1>2 DEF BalanceOf, NormalSide, Opposite
  <1>3. CASE AccountOf[a].definition_code \notin CreditNormal
    BY <1>1, <1>3 DEF BalanceOf, NormalSide, Opposite
  <1>4. QED
    BY <1>2, <1>3

(* A leg on a control account is the one its posting rule names.           *)
LEMMA ControlLegs ==
  ASSUME NEW c, ValidCommand(c), NEW e \in c.entries,
         AccountOf[e.account_id].definition_code \in Control
  PROVE  /\ c.journal_type \in DOMAIN ControlLegOf
         /\ ControlLegOf[c.journal_type] = Signature(e)
  <1> DEFINE rule == Rules[c.journal_type]
             legs == OfAsset(c.entries, e.asset_code)
  <1>1. e.asset_code \in Assets(c.entries) /\ e \in legs
    BY DEF Assets, OfAsset
  <1>2. {Signature(f) : f \in legs} = rule.entry_pattern
    BY <1>1 DEF ValidCommand, FollowsRule
  <1>3. Signature(e) \in rule.entry_pattern
    BY <1>1, <1>2
  <1>4. Signature(e)[1] \in Control
    BY DEF Signature
  <1>5. Signature(e) \in {leg \in rule.entry_pattern : leg[1] \in Control}
    BY <1>3, <1>4
  <1>6. c.journal_type \in DOMAIN Rules
    BY DEF ValidCommand
  <1> HIDE DEF rule
  <1>7. {leg \in rule.entry_pattern : leg[1] \in Control} =
          IF c.journal_type \in DOMAIN ControlLegOf THEN {ControlLegOf[c.journal_type]} ELSE {}
    BY <1>6, DraftConstants DEF rule
  <1>8. QED
    BY <1>5, <1>7

(* Where a journal type moves a control account, and which way.            *)
LEMMA ControlLegCases ==
  ASSUME NEW type, type \in DOMAIN ControlLegOf
  PROVE  \/ type = "SYNTHETIC_HOLD_CREATE" /\ ControlLegOf[type] = <<"CUSTOMER_HELD_LIABILITY", "CREDIT">>
         \/ type = "SYNTHETIC_HOLD_RELEASE" /\ ControlLegOf[type] = <<"CUSTOMER_HELD_LIABILITY", "DEBIT">>
         \/ type = "SYNTHETIC_SUSPENSE_PARK_IN" /\ ControlLegOf[type] = <<"SUSPENSE_ASSET", "DEBIT">>
         \/ type = "SYNTHETIC_SUSPENSE_PARK_OUT" /\ ControlLegOf[type] = <<"SUSPENSE_LIABILITY", "CREDIT">>
         \/ type = "SYNTHETIC_SUSPENSE_CLEAR_IN" /\ ControlLegOf[type] = <<"SUSPENSE_ASSET", "CREDIT">>
         \/ type = "SYNTHETIC_SUSPENSE_CLEAR_OUT" /\ ControlLegOf[type] = <<"SUSPENSE_LIABILITY", "DEBIT">>
  BY DEF ControlLegOf

LEMMA ControlSides ==
  ASSUME NEW c, ValidCommand(c), NEW e \in c.entries
  PROVE  /\ AccountOf[e.account_id].definition_code = "CUSTOMER_HELD_LIABILITY" =>
              \/ c.journal_type = "SYNTHETIC_HOLD_CREATE" /\ e.side = "CREDIT"
              \/ c.journal_type = "SYNTHETIC_HOLD_RELEASE" /\ e.side = "DEBIT"
         /\ AccountOf[e.account_id].definition_code = "SUSPENSE_ASSET" =>
              \/ c.journal_type = "SYNTHETIC_SUSPENSE_PARK_IN" /\ e.side = "DEBIT"
              \/ c.journal_type = "SYNTHETIC_SUSPENSE_CLEAR_IN" /\ e.side = "CREDIT"
         /\ AccountOf[e.account_id].definition_code = "SUSPENSE_LIABILITY" =>
              \/ c.journal_type = "SYNTHETIC_SUSPENSE_PARK_OUT" /\ e.side = "CREDIT"
              \/ c.journal_type = "SYNTHETIC_SUSPENSE_CLEAR_OUT" /\ e.side = "DEBIT"
  <1> DEFINE code == AccountOf[e.account_id].definition_code
             type == c.journal_type
  <1> SUFFICES ASSUME code \in Control
               PROVE  /\ code = "CUSTOMER_HELD_LIABILITY" =>
                           \/ type = "SYNTHETIC_HOLD_CREATE" /\ e.side = "CREDIT"
                           \/ type = "SYNTHETIC_HOLD_RELEASE" /\ e.side = "DEBIT"
                      /\ code = "SUSPENSE_ASSET" =>
                           \/ type = "SYNTHETIC_SUSPENSE_PARK_IN" /\ e.side = "DEBIT"
                           \/ type = "SYNTHETIC_SUSPENSE_CLEAR_IN" /\ e.side = "CREDIT"
                      /\ code = "SUSPENSE_LIABILITY" =>
                           \/ type = "SYNTHETIC_SUSPENSE_PARK_OUT" /\ e.side = "CREDIT"
                           \/ type = "SYNTHETIC_SUSPENSE_CLEAR_OUT" /\ e.side = "DEBIT"
    BY DEF Control
  <1>1. type \in DOMAIN ControlLegOf /\ ControlLegOf[type] = <<code, e.side>>
    BY ControlLegs DEF Signature
  <1> HIDE DEF code, type
  <1>2. QED
    BY <1>1, ControlLegCases

LEMMA NormalSides ==
  ASSUME NEW a
  PROVE  /\ AccountOf[a].definition_code = "CUSTOMER_HELD_LIABILITY" => NormalSide(a) = "CREDIT"
         /\ AccountOf[a].definition_code = "SUSPENSE_ASSET" => NormalSide(a) = "DEBIT"
         /\ AccountOf[a].definition_code = "SUSPENSE_LIABILITY" => NormalSide(a) = "CREDIT"
  BY DraftConstants DEF NormalSide, Control
-----------------------------------------------------------------------------
JournalsInv ==
  /\ IsFiniteSet(Entries)
  /\ \A j \in journals :
       /\ j.command \in Commands /\ ValidCommand(j.command)
  /\ IndexesAgree

LEMMA CommandLegs ==
  ASSUME NEW c \in Commands
  PROVE  Legs(c.entries)
  BY DraftConstants DEF Legs

LEMMA LedgerLegs ==
  ASSUME JournalsInv
  PROVE  Legs(Entries)
  <1>1. \A e \in Entries : e.amount \in Int
    BY CommandLegs DEF JournalsInv, Entries, Legs
  <1>2. QED
    BY <1>1 DEF JournalsInv, Legs

(* What one more command adds.                                             *)
LEMMA AcceptAdds ==
  ASSUME JournalsInv, NEW c \in Commands, NEW at \in Instants, Accept(c, at)
  PROVE  /\ ValidCommand(c)
         /\ journals' = journals \cup {Accepted(c, at)}
         /\ Accepted(c, at).command = c
         /\ Entries' = Entries \cup c.entries
         /\ Entries \cap c.entries = {}
         /\ Legs(Entries) /\ Legs(c.entries)
         /\ \A j \in journals : j.command.journal_id # c.journal_id
  <1>1. /\ ValidCommand(c) /\ journals' = journals \cup {Accepted(c, at)}
        /\ \A j \in journals : j.command.journal_id # c.journal_id
        /\ EntryIds(c) \cap postedEntryIds = {}
    BY DEF Accept, Acceptable
  <1>2. Accepted(c, at).command = c
    BY DEF Accepted
  <1>3. Entries' = Entries \cup c.entries
    BY <1>1, <1>2 DEF Entries
  <1>4. Entries \cap c.entries = {}
    <2>1. postedEntryIds = {e.entry_id : e \in Entries}
      BY DEF JournalsInv, IndexesAgree
    <2>2. QED
      BY <1>1, <2>1 DEF EntryIds
  <1>5. Legs(Entries) /\ Legs(c.entries)
    BY LedgerLegs, CommandLegs
  <1>6. QED
    BY <1>1, <1>2, <1>3, <1>4, <1>5
-----------------------------------------------------------------------------
(* The rows of the trial balance an account belongs to.                    *)
RowOf(S, a) ==
  {e \in S :
     /\ AccountOf[e.account_id].legal_entity_id = AccountOf[a].legal_entity_id
     /\ e.asset_code = AccountOf[a].asset_code}

(* A command is balanced in every row.                                     *)
LEMMA RowsBalance ==
  ASSUME NEW c, ValidCommand(c), NEW a
  PROVE  Total(RowOf(c.entries, a), "DEBIT") = Total(RowOf(c.entries, a), "CREDIT")
  <1> DEFINE asset == AccountOf[a].asset_code
  <1>1. \A e \in c.entries : AccountOf[e.account_id].legal_entity_id = c.legal_entity_id
    BY DEF ValidCommand, WithinBoundary
  <1>2. CASE RowOf(c.entries, a) = {}
    BY <1>2, TotalsNone
  <1>3. CASE RowOf(c.entries, a) # {}
    <2>1. PICK f \in c.entries :
            /\ AccountOf[f.account_id].legal_entity_id = AccountOf[a].legal_entity_id
            /\ f.asset_code = asset
      BY <1>3 DEF RowOf
    <2>2. AccountOf[a].legal_entity_id = c.legal_entity_id
      BY <1>1, <2>1
    <2>3. RowOf(c.entries, a) = OfAsset(c.entries, asset)
      BY <1>1, <2>2 DEF RowOf, OfAsset
    <2>4. asset \in Assets(c.entries)
      BY <2>1 DEF Assets
    <2>5. Balanced(c.entries)
      BY DEF ValidCommand
    <2>6. QED
      BY <2>3, <2>4, <2>5 DEF Balanced
  <1>4. QED
    BY <1>2, <1>3

LEMMA AcceptKeepsJournals ==
  ASSUME JournalsInv, NEW c \in Commands, NEW at \in Instants, Accept(c, at)
  PROVE  JournalsInv'
  <1>1. /\ ValidCommand(c)
        /\ journals' = journals \cup {Accepted(c, at)}
        /\ Accepted(c, at).command = c
        /\ Entries' = Entries \cup c.entries
        /\ Entries \cap c.entries = {}
        /\ Legs(Entries) /\ Legs(c.entries)
        /\ \A j \in journals : j.command.journal_id # c.journal_id
    BY AcceptAdds
  <1>2. IsFiniteSet(Entries')
    BY <1>1, FS_Union DEF Legs
  <1>3. \A j \in journals' : j.command \in Commands /\ ValidCommand(j.command)
    BY <1>1 DEF JournalsInv
  <1>4. IndexesAgree'
    <2> DEFINE new == Accepted(c, at)
    <2>0. /\ IndexesAgree /\ idempotency' = Put(idempotency, Identity(c), new)
          /\ Identity(c) \notin DOMAIN idempotency
          /\ postedEntryIds' = postedEntryIds \cup EntryIds(c)
          /\ EntryIds(c) \cap postedEntryIds = {}
      BY DEF JournalsInv, Accept, Acceptable
    <2>1. /\ DOMAIN idempotency' = DOMAIN idempotency \cup {Identity(c)}
          /\ idempotency'[Identity(c)] = new
          /\ \A k \in DOMAIN idempotency : idempotency'[k] = idempotency[k]
      BY <2>0 DEF Put
    <2>2. {idempotency[k] : k \in DOMAIN idempotency} = journals
      BY <2>0 DEF IndexesAgree
    <2>3. {idempotency'[k] : k \in DOMAIN idempotency'} = journals'
      BY <1>1, <2>1, <2>2
    <2>4. \A k \in DOMAIN idempotency' : Identity(idempotency'[k].command) = k
      <3>1. \A k \in DOMAIN idempotency : Identity(idempotency[k].command) = k
        BY <2>0 DEF IndexesAgree
      <3>2. Identity(new.command) = Identity(c)
        BY <1>1
      <3> HIDE DEF new
      <3>3. QED
        BY <2>1, <3>1, <3>2
    <2>5. postedEntryIds' = {e.entry_id : e \in Entries'}
      <3>1. postedEntryIds = {e.entry_id : e \in Entries}
        BY <2>0 DEF IndexesAgree
      <3>2. QED
        BY <1>1, <2>0, <3>1 DEF EntryIds
    <2>6. \A j, k \in journals' :
            (\/ j.command.journal_id = k.command.journal_id
             \/ EntryIds(j.command) \cap EntryIds(k.command) # {}) => j = k
      <3>1. \A j, k \in journals :
              (\/ j.command.journal_id = k.command.journal_id
               \/ EntryIds(j.command) \cap EntryIds(k.command) # {}) => j = k
        BY <2>0 DEF IndexesAgree
      <3>2. \A j \in journals : EntryIds(j.command) \cap EntryIds(c) = {}
        <4>1. \A j \in journals : EntryIds(j.command) \subseteq {e.entry_id : e \in Entries}
          BY DEF EntryIds, Entries
        <4>2. postedEntryIds = {e.entry_id : e \in Entries}
          BY <2>0 DEF IndexesAgree
        <4>3. QED
          BY <2>0, <4>1, <4>2
      <3> HIDE DEF new
      <3>3. \A j \in journals :
              /\ j.command.journal_id # c.journal_id
              /\ EntryIds(j.command) \cap EntryIds(c) = {}
              /\ EntryIds(c) \cap EntryIds(j.command) = {}
        BY <1>1, <3>2
      <3>4. \A j \in journals' : j \in journals \/ (j = new /\ j.command = c)
        BY <1>1 DEF new
      <3>5. QED
        BY <3>1, <3>3, <3>4
    <2>7. \A a \in Accounts : Total(RowOf(Entries', a), "DEBIT") = Total(RowOf(Entries', a), "CREDIT")
      <3> TAKE a \in Accounts
      <3>1. Total(RowOf(Entries, a), "DEBIT") = Total(RowOf(Entries, a), "CREDIT")
        BY <2>0 DEF IndexesAgree, RowOf
      <3>2. Total(RowOf(c.entries, a), "DEBIT") = Total(RowOf(c.entries, a), "CREDIT")
        BY <1>1, RowsBalance
      <3>3. RowOf(Entries', a) = RowOf(Entries, a) \cup RowOf(c.entries, a)
        BY <1>1 DEF RowOf
      <3>4. RowOf(Entries, a) \in SUBSET Entries /\ RowOf(c.entries, a) \in SUBSET c.entries
        BY DEF RowOf
      <3>5. /\ Legs(RowOf(Entries, a)) /\ Legs(RowOf(c.entries, a))
            /\ RowOf(Entries, a) \cap RowOf(c.entries, a) = {}
        BY <1>1, <3>4, LegsSubset
      <3>6. \A side : Total(RowOf(Entries, a) \cup RowOf(c.entries, a), side) =
                        Total(RowOf(Entries, a), side) + Total(RowOf(c.entries, a), side)
        BY ONLY <3>5, TotalsUnion
      <3>7. QED
        BY <3>1, <3>2, <3>3, <3>6
    <2>8. QED
      BY <2>3, <2>4, <2>5, <2>6, <2>7 DEF IndexesAgree, RowOf
  <1>5. QED
    BY <1>2, <1>3, <1>4 DEF JournalsInv

(* A command the ledger replays is one of its journals.                    *)
LEMMA ReplayIsKnown ==
  ASSUME JournalsInv, NEW c, IsReplay(c)
  PROVE  \E j \in journals : j.command = c
  <1>1. {idempotency[k] : k \in DOMAIN idempotency} = journals
    BY DEF JournalsInv, IndexesAgree
  <1>2. QED
    BY <1>1 DEF IsReplay

(* What post() does to the books of an account.                            *)
LEMMA AcceptMoves ==
  ASSUME JournalsInv, NEW c \in Commands, NEW at \in Instants, Accept(c, at), NEW a
  PROVE  /\ NormalBalance(a)' = NormalBalance(a) + BalanceOf(c.entries, a)
         /\ NormalBalance(a) \in Int /\ BalanceOf(c.entries, a) \in Int
  <1>1. /\ Entries' = Entries \cup c.entries
        /\ Entries \cap c.entries = {}
        /\ Legs(Entries) /\ Legs(c.entries)
    BY AcceptAdds
  <1>2. /\ BalanceOf(Entries \cup c.entries, a) = BalanceOf(Entries, a) + BalanceOf(c.entries, a)
        /\ BalanceOf(Entries, a) \in Int /\ BalanceOf(c.entries, a) \in Int
    BY ONLY <1>1, BalanceUnion
  <1>3. NormalBalance(a) = BalanceOf(Entries, a)
    BY BalancesAreOfEntries
  <1>4. NormalBalance(a)' = BalanceOf(Entries', a)
    BY DEF NormalBalance, BalanceOf, LegsOn
  <1>5. QED
    BY <1>1, <1>2, <1>3, <1>4
-----------------------------------------------------------------------------
LEMMA ReservedSum ==
  ASSUME NEW hs, NEW S, IsFiniteSet(S), NEW w \in [S -> Int], \A r \in S : w[r] = hs[r].amount
  PROVE  \E f : Sums(f, w, S) /\ Reserved(hs, S) = f[S]
  <1> DEFINE Body(f) == [s \in SUBSET S |->
               IF s = {} THEN 0
               ELSE hs[CHOOSE r \in s : TRUE].amount + f[s \ {CHOOSE r \in s : TRUE}]]
             chosen == CHOOSE f : f = Body(f)
  <1>1. Reserved(hs, S) = chosen[S]
    BY DEF Reserved, MapThenSumSet, MapThenFoldSet
  <1>2. ASSUME NEW f
        PROVE  Body(f) = [s \in SUBSET S |-> IF s = {} THEN 0 ELSE w[Some(s)] + f[s \ {Some(s)}]]
    <2>1. \A s \in SUBSET S : s # {} => w[Some(s)] = hs[Some(s)].amount
      BY SomeIn
    <2>2. QED
      BY <2>1 DEF Some
  <1> HIDE DEF Body
  <1>3. \A f : f = Body(f) <=> Sums(f, w, S)
    BY <1>2 DEF Sums
  <1>4. \E f : f = Body(f)
    BY <1>3, SumsExist
  <1>5. chosen = Body(chosen)
    BY <1>4
  <1> HIDE DEF chosen
  <1>6. QED
    BY <1>1, <1>3, <1>5

LEMMA ReservedAlike ==
  ASSUME NEW hs, NEW ks, NEW S, IsFiniteSet(S),
         \A r \in S : hs[r].amount = ks[r].amount /\ hs[r].amount \in Int
  PROVE  Reserved(hs, S) = Reserved(ks, S) /\ Reserved(hs, S) \in Int
  <1> DEFINE w == [r \in S |-> hs[r].amount]
  <1>1. /\ w \in [S -> Int] /\ \A r \in S : w[r] = hs[r].amount
        /\ \A r \in S : w[r] = ks[r].amount
    OBVIOUS
  <1> HIDE DEF w
  <1>2. PICK f : Sums(f, w, S) /\ Reserved(hs, S) = f[S]
    BY <1>1, ReservedSum
  <1>3. PICK g : Sums(g, w, S) /\ Reserved(ks, S) = g[S]
    BY <1>1, ReservedSum
  <1>4. f[S] = g[S]
    BY <1>1, <1>2, <1>3, SumsAgree
  <1>5. f[S] \in Int
    BY <1>1, <1>2, SumsInt
  <1>6. QED
    BY <1>2, <1>3, <1>4, <1>5

LEMMA ReservedAdd ==
  ASSUME NEW hs, NEW S, IsFiniteSet(S), NEW n, n \notin S,
         \A r \in S \cup {n} : hs[r].amount \in Int
  PROVE  Reserved(hs, S \cup {n}) = Reserved(hs, S) + hs[n].amount
  <1> DEFINE T == S \cup {n}
             w == [r \in S |-> hs[r].amount]
             v == [r \in T |-> hs[r].amount]
  <1>1. IsFiniteSet(T)
    BY FS_AddElement
  <1>2. /\ w \in [S -> Int] /\ \A r \in S : w[r] = hs[r].amount
        /\ v \in [T -> Int] /\ \A r \in T : v[r] = hs[r].amount
        /\ \A r \in S : w[r] = v[r]
        /\ v[n] = hs[n].amount
        /\ S \in SUBSET T /\ n \in T /\ T \ {n} = S /\ T \in SUBSET T
    OBVIOUS
  <1> HIDE DEF T, w, v
  <1>3. PICK f : Sums(f, w, S) /\ Reserved(hs, S) = f[S]
    BY <1>2, ReservedSum
  <1>4. PICK g : Sums(g, v, T) /\ Reserved(hs, T) = g[T]
    BY <1>1, <1>2, ReservedSum
  <1>5. g[T] = v[n] + g[T \ {n}]
    BY ONLY <1>1, <1>2, <1>4, SumsAny
  <1>6. \A s \in SUBSET S : f[s] = g[s]
    <2>1. /\ IsFiniteSet(T) /\ Sums(g, v, T) /\ S \in SUBSET T /\ Sums(f, w, S)
          /\ \A x \in S : w[x] = v[x]
      BY <1>1, <1>2, <1>3, <1>4
    <2>2. QED
      BY ONLY <2>1, SumsAgree
  <1>7. f[S] \in Int
    BY <1>2, <1>3, SumsInt
  <1>8. f[S] = g[S] /\ hs[n].amount \in Int
    BY <1>6
  <1>9. g[T] = hs[n].amount + f[S]
    BY <1>2, <1>5, <1>8
  <1>10. g[T] = f[S] + hs[n].amount
    BY <1>7, <1>8, <1>9
  <1>11. QED
    BY <1>3, <1>4, <1>10 DEF T
-----------------------------------------------------------------------------
HoldsInv ==
  /\ IsFiniteSet(DOMAIN holds)
  /\ \A r \in DOMAIN holds :
       /\ {"held_account_id", "amount", "state"} \subseteq DOMAIN holds[r]
       /\ holds[r].amount \in Int
  /\ \A j \in journals :
       /\ j.command.journal_type = "SYNTHETIC_HOLD_CREATE" =>
            j.command.reference \in DOMAIN holds
       /\ j.command.journal_type = "SYNTHETIC_HOLD_RELEASE" =>
            /\ j.command.reference \in DOMAIN holds
            /\ holds[j.command.reference].state = "released"
  /\ HeldIsOpenHolds

LEMMA OneLegOf ==
  ASSUME NEW c, IsFiniteSet(c.entries), NEW accounts, Cardinality(On(c, accounts)) = 1,
         NEW h, h = CHOOSE e \in On(c, accounts) : TRUE
  PROVE  /\ h \in c.entries /\ h.account_id \in accounts
         /\ \A a \in accounts : LegsOn(c.entries, a) = IF a = h.account_id THEN {h} ELSE {}
  <1>1. IsFiniteSet(On(c, accounts))
    BY FS_Subset DEF On
  <1>2. PICK x : On(c, accounts) = {x}
    BY <1>1, FS_Singleton
  <1>3. h = x
    BY <1>2
  <1>4. QED
    BY <1>2, <1>3 DEF On, LegsOn

LEMMA HoldMoves ==
  ASSUME NEW c \in Commands, ValidCommand(c), Cardinality(On(c, HeldAccounts)) = 1,
         NEW a \in HeldAccounts
  PROVE  /\ HeldLeg(c).amount \in Int /\ HeldLeg(c).account_id \in HeldAccounts
         /\ c.journal_type = "SYNTHETIC_HOLD_CREATE" =>
              BalanceOf(c.entries, a) =
                IF a = HeldLeg(c).account_id THEN HeldLeg(c).amount ELSE 0
         /\ c.journal_type = "SYNTHETIC_HOLD_RELEASE" =>
              BalanceOf(c.entries, a) =
                IF a = HeldLeg(c).account_id THEN 0 - HeldLeg(c).amount ELSE 0
  <1> DEFINE h == HeldLeg(c)
             legs == LegsOn(c.entries, a)
  <1>1. Legs(c.entries)
    BY CommandLegs
  <1>2. /\ h \in c.entries /\ h.account_id \in HeldAccounts
        /\ legs = IF a = h.account_id THEN {h} ELSE {}
    BY <1>1, OneLegOf, ZenonT(30) DEF HeldLeg, Legs
  <1>3. h.amount \in Int
    BY <1>1, <1>2 DEF Legs
  <1>4. AccountOf[a].definition_code = "CUSTOMER_HELD_LIABILITY"
    BY DEF HeldAccounts, AccountsDefined
  <1>5. NormalSide(a) = "CREDIT" /\ Opposite(NormalSide(a)) = "DEBIT"
    BY <1>4, NormalSides DEF Opposite
  <1>6. \A e \in legs : e \in c.entries /\ AccountOf[e.account_id].definition_code = "CUSTOMER_HELD_LIABILITY"
    BY <1>4 DEF LegsOn
  <1>7. Amounts(legs) = IF a = h.account_id THEN h.amount ELSE 0
    BY <1>2, <1>3, AmountsOne, AmountsNone
  <1>8. Amounts(legs) \in Int
    BY <1>3, <1>7
  <1> HIDE DEF h
  <1>9. ASSUME c.journal_type = "SYNTHETIC_HOLD_CREATE"
        PROVE  BalanceOf(c.entries, a) = Amounts(legs)
    <2>1. \A e \in legs : e.side = NormalSide(a)
      BY <1>5, <1>6, <1>9, ControlSides
    <2>2. QED
      BY <1>8, <2>1, BalanceGrows
  <1>10. ASSUME c.journal_type = "SYNTHETIC_HOLD_RELEASE"
         PROVE  BalanceOf(c.entries, a) = 0 - Amounts(legs)
    <2>1. \A e \in legs : e.side = Opposite(NormalSide(a))
      BY <1>5, <1>6, <1>10, ControlSides
    <2>2. QED
      BY <1>8, <2>1, BalanceShrinks
  <1> HIDE DEF legs
  <1>11. QED
    BY <1>2, <1>3, <1>7, <1>9, <1>10 DEF h
-----------------------------------------------------------------------------
LEMMA OpenHoldsReserve ==
  ASSUME HoldsInv, NEW a
  PROVE  /\ IsFiniteSet(OpenOn(holds, a)) /\ Reserved(holds, OpenOn(holds, a)) \in Int
         /\ \A r \in OpenOn(holds, a) : r \in DOMAIN holds /\ holds[r].amount \in Int
  <1>1. OpenOn(holds, a) \in SUBSET DOMAIN holds
    BY DEF OpenOn
  <1>2. IsFiniteSet(OpenOn(holds, a)) /\ \A r \in OpenOn(holds, a) : holds[r].amount \in Int
    BY <1>1, FS_Subset DEF HoldsInv
  <1>3. Reserved(holds, OpenOn(holds, a)) \in Int
    BY <1>2, ReservedAlike
  <1>4. QED
    BY <1>1, <1>2, <1>3

(* A journal that is no hold's moves no held account.                      *)
LEMMA HoldsFrame ==
  ASSUME JournalsInv, HoldsInv, NEW c \in Commands, NEW at \in Instants, Accept(c, at),
         c.journal_type \notin {"SYNTHETIC_HOLD_CREATE", "SYNTHETIC_HOLD_RELEASE"},
         holds' = holds
  PROVE  HoldsInv'
  <1>1. /\ ValidCommand(c) /\ journals' = journals \cup {Accepted(c, at)}
        /\ Accepted(c, at).command = c
    BY AcceptAdds
  <1>2. ASSUME NEW a \in HeldAccounts
        PROVE  NormalBalance(a)' = NormalBalance(a)
    <2>1. AccountOf[a].definition_code = "CUSTOMER_HELD_LIABILITY"
      BY DEF HeldAccounts, AccountsDefined
    <2>2. LegsOn(c.entries, a) = {}
      BY <1>1, <2>1, ControlSides DEF LegsOn
    <2>3. BalanceOf(c.entries, a) = 0
      BY <2>2, BalanceNone
    <2>4. NormalBalance(a)' = NormalBalance(a) + BalanceOf(c.entries, a) /\ NormalBalance(a) \in Int
      BY AcceptMoves
    <2>5. QED
      BY <2>3, <2>4
  <1>3. HeldIsOpenHolds'
    BY <1>2 DEF HoldsInv, HeldIsOpenHolds
  <1>4. \A j \in journals' : j \in journals \/ j.command = c
    BY <1>1
  <1>5. QED
    BY <1>3, <1>4 DEF HoldsInv

LEMMA HoldCreated ==
  ASSUME JournalsInv, HoldsInv, NEW c \in Commands, CreateHold(c)
  PROVE  /\ HoldsInv'
         /\ \E at \in Instants : Accept(c, at)
  <1> DEFINE r == c.reference
             h == HeldLeg(c)
  <1>1. /\ c.journal_type = "SYNTHETIC_HOLD_CREATE" /\ r \notin DOMAIN holds
        /\ Cardinality(On(c, HeldAccounts)) = 1 /\ Post(c)
    BY DEF CreateHold, HoldShaped
  <1>2. ~IsReplay(c)
    BY <1>1, ReplayIsKnown DEF HoldsInv
  <1>3. PICK at \in Instants : Accept(c, at)
    BY <1>1, <1>2 DEF Post
  <1>4. /\ ValidCommand(c) /\ journals' = journals \cup {Accepted(c, at)}
        /\ Accepted(c, at).command = c
    BY <1>3, AcceptAdds
  <1>5. /\ DOMAIN holds' = DOMAIN holds \cup {r}
        /\ \A k \in DOMAIN holds : holds'[k] = holds[k]
        /\ holds'[r].held_account_id = h.account_id /\ holds'[r].amount = h.amount
        /\ holds'[r].state = "open"
        /\ {"held_account_id", "amount", "state"} \subseteq DOMAIN holds'[r]
    <2>1. holds' = Put(holds, r,
            [create_journal_id |-> c.journal_id, held_account_id |-> h.account_id,
             settled_account_id |-> SettledLeg(c).account_id, asset_code |-> h.asset_code,
             amount |-> h.amount, state |-> "open"])
      BY DEF CreateHold
    <2> HIDE DEF h, r
    <2>2. QED
      BY <1>1, <2>1 DEF Put
  <1> HIDE DEF h, r
  <1>6. ASSUME NEW a \in HeldAccounts
        PROVE  NormalBalance(a)' = Reserved(holds', OpenOn(holds', a)) /\ h.amount \in Int
    <2> DEFINE S == OpenOn(holds, a)
    <2>1. NormalBalance(a) = Reserved(holds, S)
      BY DEF HoldsInv, HeldIsOpenHolds
    <2>2. /\ IsFiniteSet(S) /\ Reserved(holds, S) \in Int
          /\ \A k \in S : k \in DOMAIN holds /\ holds[k].amount \in Int
      BY OpenHoldsReserve
    <2>3. NormalBalance(a)' = NormalBalance(a) + BalanceOf(c.entries, a)
      BY <1>3, AcceptMoves
    <2>4. h.amount \in Int /\ BalanceOf(c.entries, a) = IF a = h.account_id THEN h.amount ELSE 0
      BY <1>1, <1>4, HoldMoves DEF h
    <2>5. OpenOn(holds', a) = IF a = h.account_id THEN S \cup {r} ELSE S
      BY <1>1, <1>5 DEF OpenOn
    <2>6. \A k \in S : k # r /\ holds'[k].amount = holds[k].amount /\ holds'[k].amount \in Int
      BY <1>1, <1>5, <2>2
    <2> HIDE DEF S
    <2>7. Reserved(holds', S) = Reserved(holds, S)
      BY <2>2, <2>6, ReservedAlike
    <2>8. CASE a = h.account_id
      <3>1. IsFiniteSet(S) /\ r \notin S /\ \A k \in S \cup {r} : holds'[k].amount \in Int
        BY <1>5, <2>2, <2>4, <2>6
      <3>2. Reserved(holds', S \cup {r}) = Reserved(holds', S) + holds'[r].amount
        BY ONLY <3>1, ReservedAdd
      <3>3. QED
        BY <1>5, <2>1, <2>3, <2>4, <2>5, <2>7, <2>8, <3>2
    <2>9. CASE a # h.account_id
      <3>1. NormalBalance(a)' = NormalBalance(a)
        BY <2>1, <2>2, <2>3, <2>4, <2>9
      <3>2. QED
        BY <2>1, <2>4, <2>5, <2>7, <2>9, <3>1
    <2>10. QED
      BY <2>8, <2>9
  <1>7. h.amount \in Int
    <2>1. h.account_id \in HeldAccounts
      <3>1. IsFiniteSet(c.entries)
        BY CommandLegs DEF Legs
      <3>2. QED
        BY <1>1, <3>1, OneLegOf DEF h, HeldLeg
    <2>2. QED
      BY <1>6, <2>1
  <1>8. HoldsInv'
    <2>1. IsFiniteSet(DOMAIN holds')
      BY <1>5, FS_AddElement DEF HoldsInv
    <2>2. \A k \in DOMAIN holds' :
            /\ {"held_account_id", "amount", "state"} \subseteq DOMAIN holds'[k]
            /\ holds'[k].amount \in Int
      BY <1>5, <1>7 DEF HoldsInv
    <2>3. \A j \in journals' :
            /\ j.command.journal_type = "SYNTHETIC_HOLD_CREATE" =>
                 j.command.reference \in DOMAIN holds'
            /\ j.command.journal_type = "SYNTHETIC_HOLD_RELEASE" =>
                 /\ j.command.reference \in DOMAIN holds'
                 /\ holds'[j.command.reference].state = "released"
      <3>1. \A j \in journals' : j \in journals \/ j.command = c
        BY <1>4
      <3>2. QED
        BY <1>1, <1>5, <3>1 DEF HoldsInv, r
    <2>4. HeldIsOpenHolds'
      BY <1>6 DEF HeldIsOpenHolds
    <2>5. QED
      BY <2>1, <2>2, <2>3, <2>4 DEF HoldsInv
  <1>9. QED
    BY <1>3, <1>8

LEMMA HoldReleased ==
  ASSUME JournalsInv, HoldsInv, NEW c \in Commands, ReleaseHold(c)
  PROVE  /\ HoldsInv'
         /\ \E at \in Instants : Accept(c, at)
  <1> DEFINE r == c.reference
             h == HeldLeg(c)
  <1>1. /\ c.journal_type = "SYNTHETIC_HOLD_RELEASE"
        /\ r \in DOMAIN holds /\ holds[r].state = "open"
        /\ Cardinality(On(c, HeldAccounts)) = 1 /\ Post(c)
        /\ h.account_id = holds[r].held_account_id /\ h.amount = holds[r].amount
        /\ holds' = [holds EXCEPT ![r].state = "released"]
    BY DEF ReleaseHold, HoldShaped, MirrorsHold
  <1>2. ~IsReplay(c)
    BY <1>1, ReplayIsKnown DEF HoldsInv
  <1>3. PICK at \in Instants : Accept(c, at)
    BY <1>1, <1>2 DEF Post
  <1>4. /\ ValidCommand(c) /\ journals' = journals \cup {Accepted(c, at)}
        /\ Accepted(c, at).command = c
    BY <1>3, AcceptAdds
  <1> HIDE DEF h
  <1>5. /\ DOMAIN holds' = DOMAIN holds
        /\ \A k \in DOMAIN holds : k # r => holds'[k] = holds[k]
        /\ holds'[r] = [holds[r] EXCEPT !.state = "released"]
    BY <1>1
  <1>6. {"held_account_id", "amount", "state"} \subseteq DOMAIN holds[r]
    BY <1>1 DEF HoldsInv
  <1>7. /\ DOMAIN holds'[r] = DOMAIN holds[r]
        /\ holds'[r].held_account_id = holds[r].held_account_id
        /\ holds'[r].amount = holds[r].amount
        /\ holds'[r].state = "released"
    BY <1>5, <1>6
  <1> HIDE DEF r
  <1>8. \A k \in DOMAIN holds : holds'[k].amount = holds[k].amount /\ holds[k].amount \in Int
    BY <1>5, <1>7 DEF HoldsInv
  <1>9. ASSUME NEW a \in HeldAccounts
        PROVE  NormalBalance(a)' = Reserved(holds', OpenOn(holds', a))
    <2> DEFINE S == OpenOn(holds, a)
               T == OpenOn(holds', a)
    <2>1. NormalBalance(a) = Reserved(holds, S)
      BY DEF HoldsInv, HeldIsOpenHolds
    <2>2. /\ IsFiniteSet(S) /\ Reserved(holds, S) \in Int
          /\ \A k \in S : k \in DOMAIN holds /\ holds[k].amount \in Int
      BY OpenHoldsReserve
    <2>3. NormalBalance(a)' = NormalBalance(a) + BalanceOf(c.entries, a)
      BY <1>3, AcceptMoves
    <2>4. h.amount \in Int /\ BalanceOf(c.entries, a) = IF a = h.account_id THEN 0 - h.amount ELSE 0
      BY <1>1, <1>4, HoldMoves DEF h
    <2>5. /\ a = h.account_id => S = T \cup {r} /\ r \notin T
          /\ a # h.account_id => S = T
      BY <1>1, <1>5, <1>7 DEF OpenOn
    <2>6. T \in SUBSET S
      BY <2>5
    <2>7. IsFiniteSet(T)
      BY <2>2, <2>6, FS_Subset
    <2>8. \A k \in T : holds'[k].amount = holds[k].amount /\ holds'[k].amount \in Int
      BY <1>8, <2>2, <2>6
    <2> HIDE DEF S, T
    <2>9. Reserved(holds', T) = Reserved(holds, T) /\ Reserved(holds', T) \in Int
      BY <2>7, <2>8, ReservedAlike
    <2>10. CASE a = h.account_id
      <3>1. IsFiniteSet(T) /\ r \notin T /\ \A k \in T \cup {r} : holds[k].amount \in Int
        BY <1>8, <2>2, <2>5, <2>7, <2>10
      <3>2. Reserved(holds, T \cup {r}) = Reserved(holds, T) + holds[r].amount
        BY ONLY <3>1, ReservedAdd
      <3>3. holds[r].amount = h.amount
        BY <1>1
      <3>4. NormalBalance(a) = Reserved(holds', T) + h.amount
        BY <2>1, <2>5, <2>9, <2>10, <3>2, <3>3
      <3>5. QED
        BY <2>3, <2>4, <2>9, <2>10, <3>4 DEF T
    <2>11. CASE a # h.account_id
      <3>1. NormalBalance(a)' = NormalBalance(a)
        BY <2>1, <2>2, <2>3, <2>4, <2>11
      <3>2. QED
        BY <2>1, <2>5, <2>9, <2>11, <3>1 DEF T
    <2>12. QED
      BY <2>10, <2>11
  <1>10. HoldsInv'
    <2>1. IsFiniteSet(DOMAIN holds')
      BY <1>5 DEF HoldsInv
    <2>2. \A k \in DOMAIN holds' :
            /\ {"held_account_id", "amount", "state"} \subseteq DOMAIN holds'[k]
            /\ holds'[k].amount \in Int
      BY <1>5, <1>7, <1>8 DEF HoldsInv
    <2>3. \A j \in journals' :
            /\ j.command.journal_type = "SYNTHETIC_HOLD_CREATE" =>
                 j.command.reference \in DOMAIN holds'
            /\ j.command.journal_type = "SYNTHETIC_HOLD_RELEASE" =>
                 /\ j.command.reference \in DOMAIN holds'
                 /\ holds'[j.command.reference].state = "released"
      <3>1. \A j \in journals' : j \in journals \/ j.command = c
        BY <1>4
      <3>2. \A k \in DOMAIN holds : holds[k].state = "released" => holds'[k].state = "released"
        BY <1>5, <1>7
      <3>3. c.reference = r
        BY DEF r
      <3>4. QED
        BY <1>1, <1>5, <1>7, <3>1, <3>2, <3>3 DEF HoldsInv
    <2>4. HeldIsOpenHolds'
      BY <1>9 DEF HeldIsOpenHolds
    <2>5. QED
      BY <2>1, <2>2, <2>3, <2>4 DEF HoldsInv
  <1>11. QED
    BY <1>3, <1>10
-----------------------------------------------------------------------------
Suspense == SuspenseAccounts("IN") \cup SuspenseAccounts("OUT")

Parking(r, j) ==
  /\ breaks[r].park_journal_id = j.command.journal_id
  /\ j.command.journal_type \in Parks /\ j.command.reference = r
  /\ Direction(j.command) = breaks[r].direction

BreaksInv ==
  /\ \A r \in DOMAIN breaks :
       /\ {"park_journal_id", "direction", "state"} \subseteq DOMAIN breaks[r]
       /\ \E j \in journals : Parking(r, j)
  /\ \A j \in journals :
       /\ j.command.journal_type \in Parks => j.command.reference \in DOMAIN breaks
       /\ j.command.journal_type \in Clears =>
            \E r \in DOMAIN breaks :
              /\ breaks[r].park_journal_id = j.command.causation_id
              /\ breaks[r].state = "resolved"
  /\ SuspenseIsOpenBreaks

LEMMA SuspenseCodes ==
  ASSUME NEW a
  PROVE  /\ a \in Suspense =>
              AccountOf[a].definition_code \in {"SUSPENSE_ASSET", "SUSPENSE_LIABILITY"}
         /\ a \in SuspenseAccounts("IN") => AccountOf[a].definition_code = "SUSPENSE_ASSET"
         /\ a \in SuspenseAccounts("OUT") => AccountOf[a].definition_code = "SUSPENSE_LIABILITY"
         /\ \A d \in {"IN", "OUT"} : a \in SuspenseAccounts(d) => a \in Suspense
  BY DEF Suspense, SuspenseAccounts, AccountsDefined

LEMMA Directions == \A c : Direction(c) \in {"IN", "OUT"}
  BY DEF Direction

LEMMA JournalsById ==
  ASSUME JournalsInv
  PROVE  \A j, k \in journals :
           (\/ j.command.journal_id = k.command.journal_id
            \/ EntryIds(j.command) \cap EntryIds(k.command) # {}) => j = k
  BY DEF JournalsInv, IndexesAgree

(* A park is booked by a journal, and by one only.                         *)
LEMMA ParksAreJournals ==
  ASSUME BreaksInv
  PROVE  \A id \in OpenParks : \E j \in journals : j.command.journal_id = id
  BY DEF BreaksInv, Parking, OpenParks

LEMMA ParksDiffer ==
  ASSUME JournalsInv, BreaksInv, NEW q \in DOMAIN breaks, NEW r \in DOMAIN breaks,
         breaks[q].park_journal_id = breaks[r].park_journal_id
  PROVE  q = r
  <1>1. PICK j \in journals : Parking(q, j)
    BY DEF BreaksInv
  <1>2. PICK k \in journals : Parking(r, k)
    BY DEF BreaksInv
  <1>3. j = k
    BY <1>1, <1>2, JournalsById DEF Parking
  <1>4. QED
    BY <1>1, <1>2, <1>3 DEF Parking

LEMMA ParkedAreEntries ==
  ASSUME NEW a
  PROVE  Parked(a) \in SUBSET Entries
  BY DEF Parked, On, Entries

(* Which journals a suspense account is moved by, and which way.           *)
LEMMA SuspenseSides ==
  ASSUME NEW c, ValidCommand(c), NEW a \in Suspense, NEW e \in LegsOn(c.entries, a)
  PROVE  /\ c.journal_type \in Parks \cup Clears
         /\ c.journal_type \in Parks => e.side = NormalSide(a)
         /\ c.journal_type \in Clears => e.side = Opposite(NormalSide(a))
  <1>1. e \in c.entries /\ e.account_id = a
    BY DEF LegsOn
  <1>2. AccountOf[a].definition_code \in {"SUSPENSE_ASSET", "SUSPENSE_LIABILITY"}
    BY SuspenseCodes
  <1>3. CASE AccountOf[a].definition_code = "SUSPENSE_ASSET"
    <2>1. NormalSide(a) = "DEBIT" /\ Opposite(NormalSide(a)) = "CREDIT"
      BY <1>3, NormalSides DEF Opposite
    <2>2. \/ c.journal_type = "SYNTHETIC_SUSPENSE_PARK_IN" /\ e.side = "DEBIT"
          \/ c.journal_type = "SYNTHETIC_SUSPENSE_CLEAR_IN" /\ e.side = "CREDIT"
      BY <1>1, <1>3, ControlSides
    <2>3. QED
      BY <2>1, <2>2 DEF Parks, Clears
  <1>4. CASE AccountOf[a].definition_code = "SUSPENSE_LIABILITY"
    <2>1. NormalSide(a) = "CREDIT" /\ Opposite(NormalSide(a)) = "DEBIT"
      BY <1>4, NormalSides DEF Opposite
    <2>2. \/ c.journal_type = "SYNTHETIC_SUSPENSE_PARK_OUT" /\ e.side = "CREDIT"
          \/ c.journal_type = "SYNTHETIC_SUSPENSE_CLEAR_OUT" /\ e.side = "DEBIT"
      BY <1>1, <1>4, ControlSides
    <2>3. QED
      BY <2>1, <2>2 DEF Parks, Clears
  <1>5. QED
    BY <1>2, <1>3, <1>4

LEMMA OneControlLeg ==
  ASSUME NEW c \in Commands, ValidCommand(c), c.journal_type \in Parks \cup Clears,
         NEW e \in c.entries, AccountOf[e.account_id].definition_code \in Control,
         NEW f \in c.entries, AccountOf[f.account_id].definition_code \in Control
  PROVE  e = f
  <1>1. Signature(e) = Signature(f)
    BY ControlLegs
  <1>2. e.asset_code = f.asset_code
    BY DraftConstants
  <1>3. e \in OfAsset(c.entries, e.asset_code) /\ f \in OfAsset(c.entries, e.asset_code)
        /\ e.asset_code \in Assets(c.entries)
    BY <1>2 DEF OfAsset, Assets
  <1>4. FollowsRule(c.entries, Rules[c.journal_type])
    BY DEF ValidCommand
  <1>5. QED
    BY <1>1, <1>3, <1>4 DEF FollowsRule

LEMMA OneSuspenseLeg ==
  ASSUME NEW c \in Commands, ValidCommand(c), c.journal_type \in Parks \cup Clears,
         NEW e \in c.entries, e.account_id \in Suspense, NEW a \in Suspense
  PROVE  LegsOn(c.entries, a) = IF a = e.account_id THEN {e} ELSE {}
  <1>1. \A b \in Suspense : AccountOf[b].definition_code \in Control
    BY SuspenseCodes DEF Control
  <1>2. \A f \in LegsOn(c.entries, a) : f \in c.entries /\ f.account_id = a
    BY DEF LegsOn
  <1>3. \A f \in LegsOn(c.entries, a) : f = e
    BY <1>1, <1>2, OneControlLeg
  <1>4. QED
    BY <1>2, <1>3 DEF LegsOn

(* A journal that parks and clears nothing moves no suspense account.      *)
LEMMA BreaksFrame ==
  ASSUME JournalsInv, BreaksInv, NEW c \in Commands, NEW at \in Instants, Accept(c, at),
         c.journal_type \notin Parks \cup Clears, breaks' = breaks
  PROVE  BreaksInv'
  <1>1. /\ ValidCommand(c) /\ journals' = journals \cup {Accepted(c, at)}
        /\ Accepted(c, at).command = c
        /\ \A j \in journals : j.command.journal_id # c.journal_id
    BY AcceptAdds
  <1>2. ASSUME NEW a \in Suspense
        PROVE  NormalBalance(a)' = Amounts(Parked(a)')
    <2>1. LegsOn(c.entries, a) = {}
      BY <1>1, SuspenseSides
    <2>2. BalanceOf(c.entries, a) = 0
      BY <2>1, BalanceNone
    <2>3. NormalBalance(a)' = NormalBalance(a) + BalanceOf(c.entries, a) /\ NormalBalance(a) \in Int
      BY AcceptMoves
    <2>4. OpenParks' = OpenParks
      BY DEF OpenParks
    <2>5. c.journal_id \notin OpenParks
      BY <1>1, ParksAreJournals
    <2>6. {k \in journals' : k.command.journal_id \in OpenParks} =
            {k \in journals : k.command.journal_id \in OpenParks}
      BY <1>1, <2>5
    <2>7. Parked(a)' = Parked(a)
      BY <2>4, <2>6 DEF Parked, On
    <2>8. NormalBalance(a) = Amounts(Parked(a))
      BY DEF BreaksInv, SuspenseIsOpenBreaks, Suspense
    <2>9. QED
      BY <2>2, <2>3, <2>7, <2>8
  <1>3. SuspenseIsOpenBreaks'
    BY <1>2 DEF SuspenseIsOpenBreaks, Suspense
  <1>4. \A j \in journals' : j \in journals \/ j.command = c
    BY <1>1
  <1>5. \A r \in DOMAIN breaks' :
          /\ {"park_journal_id", "direction", "state"} \subseteq DOMAIN breaks'[r]
          /\ \E j \in journals' : Parking(r, j)'
    BY <1>1 DEF BreaksInv, Parking
  <1>6. \A j \in journals' :
          /\ j.command.journal_type \in Parks => j.command.reference \in DOMAIN breaks'
          /\ j.command.journal_type \in Clears =>
               \E r \in DOMAIN breaks' :
                 /\ breaks'[r].park_journal_id = j.command.causation_id
                 /\ breaks'[r].state = "resolved"
    BY <1>4 DEF BreaksInv
  <1>7. QED
    BY <1>3, <1>5, <1>6 DEF BreaksInv
-----------------------------------------------------------------------------
LEMMA ParkedAmounts ==
  ASSUME JournalsInv, NEW a
  PROVE  Legs(Parked(a)) /\ Amounts(Parked(a)) \in Int
  <1>1. Legs(Entries)
    BY LedgerLegs
  <1>2. Legs(Parked(a))
    BY <1>1, ParkedAreEntries, LegsSubset
  <1>3. Legs({}) /\ Parked(a) \cap {} = {}
    BY FS_EmptySet DEF Legs
  <1>4. Amounts(Parked(a)) \in Int
    BY ONLY <1>2, <1>3, AmountsUnion
  <1>5. QED
    BY <1>2, <1>4

LEMMA BreakParked ==
  ASSUME JournalsInv, BreaksInv, NEW c \in Commands, ParkSuspense(c)
  PROVE  /\ BreaksInv'
         /\ \E at \in Instants : Accept(c, at)
  <1> DEFINE r == c.reference
  <1>1. /\ c.journal_type \in Parks /\ r \notin DOMAIN breaks /\ Post(c)
        /\ breaks' = Put(breaks, r,
             [park_journal_id |-> c.journal_id, direction |-> Direction(c), state |-> "open"])
    BY DEF ParkSuspense
  <1>2. ~IsReplay(c)
    BY <1>1, ReplayIsKnown DEF BreaksInv
  <1>3. PICK at \in Instants : Accept(c, at)
    BY <1>1, <1>2 DEF Post
  <1>4. /\ ValidCommand(c) /\ journals' = journals \cup {Accepted(c, at)}
        /\ Accepted(c, at).command = c
        /\ \A j \in journals : j.command.journal_id # c.journal_id
        /\ Entries \cap c.entries = {} /\ Legs(Entries) /\ Legs(c.entries)
    BY <1>3, AcceptAdds
  <1> DEFINE new == Accepted(c, at)
  <1> HIDE DEF r, new
  <1>5. /\ DOMAIN breaks' = DOMAIN breaks \cup {r}
        /\ \A k \in DOMAIN breaks : breaks'[k] = breaks[k]
        /\ breaks'[r] = [park_journal_id |-> c.journal_id, direction |-> Direction(c),
                         state |-> "open"]
    BY <1>1 DEF Put
  <1>6. OpenParks' = OpenParks \cup {c.journal_id}
    <2>1. {b \in DOMAIN breaks' : breaks'[b].state = "open"} =
            {b \in DOMAIN breaks : breaks[b].state = "open"} \cup {r}
      BY <1>1, <1>5
    <2> DEFINE open == {b \in DOMAIN breaks : breaks[b].state = "open"}
    <2>2. OpenParks' = {breaks'[b].park_journal_id : b \in open \cup {r}}
      BY <2>1 DEF OpenParks
    <2>3. \A b \in open : breaks'[b] = breaks[b]
      BY <1>5
    <2>4. breaks'[r].park_journal_id = c.journal_id
      BY <1>5
    <2>5. OpenParks = {breaks[b].park_journal_id : b \in open}
      BY DEF OpenParks
    <2> HIDE DEF open
    <2>6. QED
      BY <2>2, <2>3, <2>4, <2>5
  <1>7. ASSUME NEW a \in Suspense
        PROVE  NormalBalance(a)' = Amounts(Parked(a)')
    <2> DEFINE legs == LegsOn(c.entries, a)
    <2>1. Parked(a)' = Parked(a) \cup legs
      <3>1. c.journal_id \notin OpenParks
        BY <1>4, ParksAreJournals
      <3>2. {k \in journals' : k.command.journal_id \in OpenParks'} =
              {k \in journals : k.command.journal_id \in OpenParks} \cup {new}
        BY <1>4, <1>6, <3>1 DEF new
      <3>3. new.command = c
        BY <1>4 DEF new
      <3> HIDE DEF legs
      <3>4. legs = On(c, {a})
        BY DEF legs, LegsOn, On
      <3> DEFINE open == {k \in journals : k.command.journal_id \in OpenParks}
      <3>5. Parked(a)' = UNION {On(k.command, {a}) : k \in open \cup {new}}
        BY <3>2 DEF Parked, On
      <3>6. Parked(a) = UNION {On(k.command, {a}) : k \in open}
        BY DEF Parked
      <3> HIDE DEF open
      <3>7. QED
        BY <3>3, <3>4, <3>5, <3>6
    <2>2. legs \in SUBSET c.entries
      BY DEF LegsOn
    <2>3. Legs(legs) /\ Legs(Parked(a)) /\ Parked(a) \cap legs = {}
      BY <1>4, <2>2, LegsSubset, ParkedAmounts, ParkedAreEntries
    <2>4. Amounts(Parked(a) \cup legs) = Amounts(Parked(a)) + Amounts(legs) /\ Amounts(legs) \in Int
      BY ONLY <2>3, AmountsUnion
    <2>5. \A e \in legs : e.side = NormalSide(a)
      BY <1>1, <1>4, SuspenseSides
    <2>6. BalanceOf(c.entries, a) = Amounts(legs)
      BY <2>4, <2>5, BalanceGrows
    <2>7. NormalBalance(a)' = NormalBalance(a) + BalanceOf(c.entries, a)
      BY <1>3, AcceptMoves
    <2>8. NormalBalance(a) = Amounts(Parked(a))
      BY DEF BreaksInv, SuspenseIsOpenBreaks, Suspense
    <2> HIDE DEF legs
    <2>9. QED
      BY <2>1, <2>4, <2>6, <2>7, <2>8
  <1>8. SuspenseIsOpenBreaks'
    BY <1>7 DEF SuspenseIsOpenBreaks, Suspense
  <1>9. \A k \in DOMAIN breaks' :
          /\ {"park_journal_id", "direction", "state"} \subseteq DOMAIN breaks'[k]
          /\ \E j \in journals' : Parking(k, j)'
    <2>1. ASSUME NEW k \in DOMAIN breaks
          PROVE  /\ {"park_journal_id", "direction", "state"} \subseteq DOMAIN breaks'[k]
                 /\ \E j \in journals' : Parking(k, j)'
      BY <1>4, <1>5 DEF BreaksInv, Parking
    <2>2. Parking(r, new)' /\ new \in journals'
      BY <1>1, <1>4, <1>5 DEF Parking, new, r
    <2>3. {"park_journal_id", "direction", "state"} \subseteq DOMAIN breaks'[r]
      BY <1>5
    <2>4. QED
      BY <1>5, <2>1, <2>2, <2>3
  <1>10. \A j \in journals' :
           /\ j.command.journal_type \in Parks => j.command.reference \in DOMAIN breaks'
           /\ j.command.journal_type \in Clears =>
                \E k \in DOMAIN breaks' :
                  /\ breaks'[k].park_journal_id = j.command.causation_id
                  /\ breaks'[k].state = "resolved"
    <2>1. ASSUME NEW j \in journals
          PROVE  /\ j.command.journal_type \in Parks => j.command.reference \in DOMAIN breaks'
                 /\ j.command.journal_type \in Clears =>
                      \E k \in DOMAIN breaks' :
                        /\ breaks'[k].park_journal_id = j.command.causation_id
                        /\ breaks'[k].state = "resolved"
      BY <1>5 DEF BreaksInv
    <2>2. c.journal_type \notin Clears /\ c.reference \in DOMAIN breaks'
      BY <1>1, <1>5 DEF Parks, Clears, r
    <2>3. \A j \in journals' : j \in journals \/ j.command = c
      BY <1>4
    <2>4. QED
      BY <2>1, <2>2, <2>3
  <1>11. QED
    BY <1>3, <1>8, <1>9, <1>10 DEF BreaksInv

LEMMA BreakCleared ==
  ASSUME JournalsInv, BreaksInv, NEW c \in Commands, ClearSuspense(c)
  PROVE  /\ BreaksInv'
         /\ \E at \in Instants : Accept(c, at)
  <1>1. /\ c.journal_type \in Clears /\ Post(c)
    BY DEF ClearSuspense
  <1>2. PICK r \in DOMAIN breaks, j \in journals :
          /\ breaks[r].park_journal_id = c.causation_id
          /\ breaks[r].state = "open"
          /\ Direction(c) = breaks[r].direction
          /\ j.command.journal_id = c.causation_id
          /\ ReusesPark(c, j.command)
          /\ breaks' = [breaks EXCEPT ![r].state = "resolved"]
    BY DEF ClearSuspense
  <1>3. Parking(r, j)
    <2>1. PICK k \in journals : Parking(r, k)
      BY DEF BreaksInv
    <2>2. k = j
      BY <1>2, <2>1, JournalsById DEF Parking
    <2>3. QED
      BY <2>1, <2>2
  <1>4. ~IsReplay(c)
    <2> SUFFICES ASSUME IsReplay(c) PROVE FALSE
      OBVIOUS
    <2>1. PICK k \in journals : k.command = c
      BY ReplayIsKnown
    <2>2. PICK q \in DOMAIN breaks :
            breaks[q].park_journal_id = c.causation_id /\ breaks[q].state = "resolved"
      BY <1>1, <2>1 DEF BreaksInv
    <2>3. q = r
      BY <1>2, <2>2, ParksDiffer
    <2>4. QED
      BY <1>2, <2>2, <2>3
  <1>5. PICK at \in Instants : Accept(c, at)
    BY <1>1, <1>4 DEF Post
  <1>6. /\ ValidCommand(c) /\ journals' = journals \cup {Accepted(c, at)}
        /\ Accepted(c, at).command = c
        /\ \A k \in journals : k.command.journal_id # c.journal_id
        /\ Legs(c.entries)
    BY <1>5, AcceptAdds
  <1>7. /\ DOMAIN breaks' = DOMAIN breaks
        /\ \A k \in DOMAIN breaks : k # r => breaks'[k] = breaks[k]
        /\ breaks'[r].park_journal_id = breaks[r].park_journal_id
        /\ breaks'[r].direction = breaks[r].direction
        /\ breaks'[r].state = "resolved"
        /\ DOMAIN breaks'[r] = DOMAIN breaks[r]
    <2>1. {"park_journal_id", "direction", "state"} \subseteq DOMAIN breaks[r]
      BY DEF BreaksInv
    <2>2. breaks'[r] = [breaks[r] EXCEPT !.state = "resolved"]
      BY <1>2
    <2>3. QED
      BY <1>2, <2>1, <2>2
  <1>8. OpenParks' = OpenParks \ {c.causation_id}
    <2>1. \A k \in DOMAIN breaks : k # r => breaks[k].park_journal_id # c.causation_id
      BY <1>2, ParksDiffer
    <2>2. \A k \in DOMAIN breaks : breaks'[k].state = "open" <=> k # r /\ breaks[k].state = "open"
      BY <1>7
    <2>3. OpenParks' = {breaks'[k].park_journal_id : k \in {b \in DOMAIN breaks : breaks'[b].state = "open"}}
      BY <1>7 DEF OpenParks
    <2>4. \A k \in DOMAIN breaks : breaks'[k].park_journal_id = breaks[k].park_journal_id
      BY <1>7
    <2>5. OpenParks = {breaks[k].park_journal_id : k \in {b \in DOMAIN breaks : breaks[b].state = "open"}}
      BY DEF OpenParks
    <2>6. \A id : id \in OpenParks' <=> \E k \in DOMAIN breaks :
                    breaks[k].state = "open" /\ k # r /\ breaks[k].park_journal_id = id
      BY <2>2, <2>3, <2>4
    <2>7. \A id : id \in OpenParks <=> \E k \in DOMAIN breaks :
                    breaks[k].state = "open" /\ breaks[k].park_journal_id = id
      BY <2>5
    <2>8. \A id : id \in OpenParks' <=> id \in OpenParks /\ id # c.causation_id
      BY <1>2, <2>1, <2>6, <2>7
    <2>9. QED
      BY <2>8
  <1>9. PICK e \in c.entries, f \in j.command.entries :
          /\ e.account_id \in Suspense /\ f.account_id \in Suspense
          /\ e.account_id = f.account_id /\ e.amount = f.amount
    <2>1. PICK e \in On(c, SuspenseAccounts(Direction(j.command))),
               f \in On(j.command, SuspenseAccounts(Direction(j.command))) :
            Leg(e, "DEBIT") = Leg(f, "DEBIT")
      BY <1>2 DEF ReusesPark
    <2>2. e.account_id = f.account_id /\ e.amount = f.amount
      BY <2>1 DEF Leg
    <2>3. /\ e \in c.entries /\ f \in j.command.entries
          /\ e.account_id \in Suspense /\ f.account_id \in Suspense
      BY Directions, SuspenseCodes DEF On
    <2>4. QED
      BY <2>2, <2>3
  <1>10. ASSUME NEW a \in Suspense
         PROVE  NormalBalance(a)' = Amounts(Parked(a)')
    <2> DEFINE mine == LegsOn(c.entries, a)
               theirs == LegsOn(j.command.entries, a)
    <2>1. j.command \in Commands /\ ValidCommand(j.command) /\ j.command.journal_type \in Parks
      BY <1>3 DEF JournalsInv, Parking
    <2>2. /\ mine = IF a = e.account_id THEN {e} ELSE {}
          /\ theirs = IF a = e.account_id THEN {f} ELSE {}
      BY <1>1, <1>6, <1>9, <2>1, OneSuspenseLeg, ZenonT(30)
    <2>3. e.amount \in Int
      BY <1>6 DEF Legs
    <2>4. Amounts(mine) = Amounts(theirs) /\ Amounts(mine) \in Int
      BY <1>9, <2>2, <2>3, AmountsOne, AmountsNone
    <2>5. \A x \in mine : x.side = Opposite(NormalSide(a))
      BY <1>1, <1>6, SuspenseSides
    <2>6. BalanceOf(c.entries, a) = 0 - Amounts(mine)
      BY <2>4, <2>5, BalanceShrinks
    <2>7. NormalBalance(a)' = NormalBalance(a) + BalanceOf(c.entries, a)
      BY <1>5, AcceptMoves
    <2>8. NormalBalance(a) = Amounts(Parked(a))
      BY DEF BreaksInv, SuspenseIsOpenBreaks, Suspense
    <2>9. Parked(a) = Parked(a)' \cup theirs /\ Parked(a)' \cap theirs = {}
      <3> DEFINE left == {k \in journals : k.command.journal_id \in OpenParks /\ k # j}
      <3>1. c.journal_id \notin OpenParks
        BY <1>6, ParksAreJournals
      <3>2. \A k \in journals : k.command.journal_id = c.causation_id <=> k = j
        BY <1>2, JournalsById
      <3>3. {k \in journals' : k.command.journal_id \in OpenParks'} = left
        BY <1>6, <1>8, <3>1, <3>2
      <3>4. j.command.journal_id \in OpenParks
        BY <1>2 DEF OpenParks
      <3>5. {k \in journals : k.command.journal_id \in OpenParks} = left \cup {j}
        BY <3>4
      <3>6. \A k \in left : k \in journals /\ k # j
        OBVIOUS
      <3> HIDE DEF left, theirs
      <3>7. theirs = On(j.command, {a})
        BY DEF theirs, LegsOn, On
      <3>8. Parked(a)' = UNION {On(k.command, {a}) : k \in left}
        BY <3>3 DEF Parked, On
      <3>9. Parked(a) = UNION {On(k.command, {a}) : k \in left \cup {j}}
        BY <3>5 DEF Parked
      <3>10. \A k \in left : On(k.command, {a}) \cap theirs = {}
        <4>1. \A k \in left : EntryIds(k.command) \cap EntryIds(j.command) = {}
          BY <3>6, JournalsById
        <4>2. QED
          BY <3>7, <4>1 DEF EntryIds, On
      <3>11. Parked(a) = Parked(a)' \cup theirs
        BY <3>7, <3>8, <3>9
      <3>12. Parked(a)' \cap theirs = {}
        BY <3>8, <3>10
      <3>13. QED
        BY <3>11, <3>12
    <2>10. Legs(Parked(a))
      BY ParkedAmounts
    <2> HIDE DEF mine, theirs
    <2>11. Legs(Parked(a)') /\ Legs(theirs)
      BY <2>9, <2>10, LegsSubset
    <2>12. /\ Amounts(Parked(a)' \cup theirs) = Amounts(Parked(a)') + Amounts(theirs)
           /\ Amounts(Parked(a)') \in Int /\ Amounts(theirs) \in Int
      BY ONLY <2>9, <2>11, AmountsUnion
    <2>13. QED
      BY <2>4, <2>6, <2>7, <2>8, <2>9, <2>12
  <1>11. SuspenseIsOpenBreaks'
    BY <1>10 DEF SuspenseIsOpenBreaks, Suspense
  <1>12. \A k \in DOMAIN breaks' :
           /\ {"park_journal_id", "direction", "state"} \subseteq DOMAIN breaks'[k]
           /\ \E i \in journals' : Parking(k, i)'
    <2> TAKE k \in DOMAIN breaks'
    <2>1. /\ {"park_journal_id", "direction", "state"} \subseteq DOMAIN breaks[k]
          /\ \E i \in journals : Parking(k, i)
      BY <1>7 DEF BreaksInv
    <2>2. /\ breaks'[k].park_journal_id = breaks[k].park_journal_id
          /\ breaks'[k].direction = breaks[k].direction
          /\ DOMAIN breaks'[k] = DOMAIN breaks[k]
      BY <1>7
    <2>3. \A i : Parking(k, i) => Parking(k, i)'
      BY <2>2 DEF Parking
    <2>4. QED
      BY <1>6, <2>1, <2>2, <2>3
  <1>13. \A i \in journals' :
           /\ i.command.journal_type \in Parks => i.command.reference \in DOMAIN breaks'
           /\ i.command.journal_type \in Clears =>
                \E k \in DOMAIN breaks' :
                  /\ breaks'[k].park_journal_id = i.command.causation_id
                  /\ breaks'[k].state = "resolved"
    <2>1. ASSUME NEW i \in journals
          PROVE  /\ i.command.journal_type \in Parks => i.command.reference \in DOMAIN breaks'
                 /\ i.command.journal_type \in Clears =>
                      \E k \in DOMAIN breaks' :
                        /\ breaks'[k].park_journal_id = i.command.causation_id
                        /\ breaks'[k].state = "resolved"
      <3>1. \A k \in DOMAIN breaks : breaks[k].state = "resolved" => breaks'[k].state = "resolved"
        BY <1>7
      <3>2. \A k \in DOMAIN breaks : breaks'[k].park_journal_id = breaks[k].park_journal_id
        BY <1>7
      <3>3. QED
        BY <1>7, <3>1, <3>2 DEF BreaksInv
    <2>2. c.journal_type \notin Parks
      BY <1>1 DEF Parks, Clears
    <2>3. \A i \in journals' : i \in journals \/ i.command = c
      BY <1>6
    <2>4. QED
      BY <1>2, <1>7, <2>1, <2>2, <2>3
  <1>14. QED
    BY <1>5, <1>11, <1>12, <1>13 DEF BreaksInv
-----------------------------------------------------------------------------
ReversalsInv ==
  /\ \A j \in journals :
       j.command.journal_type \in Reversals => j.command.causation_id \in reversedJournalIds
  /\ \A id \in reversedJournalIds : \E j, k \in journals :
       /\ j.command.journal_id = id
       /\ k.command.journal_type \in Reversals /\ k.command.causation_id = id
       /\ Mirrors(k.command, j.command)
       /\ \A m \in journals :
            (m.command.journal_type \in Reversals /\ m.command.causation_id = id) => m = k

(* A journal that reverses nothing leaves every correction as it was.      *)
LEMMA ReversalsFrame ==
  ASSUME JournalsInv, ReversalsInv, NEW c \in Commands, NEW at \in Instants, Accept(c, at),
         c.journal_type \notin Reversals, reversedJournalIds' = reversedJournalIds
  PROVE  ReversalsInv'
  <1>1. journals' = journals \cup {Accepted(c, at)} /\ Accepted(c, at).command = c
    BY AcceptAdds
  <1>2. \A j \in journals' : j \in journals \/ j.command.journal_type \notin Reversals
    BY <1>1
  <1>3. journals \subseteq journals'
    BY <1>1
  <1>4. ASSUME NEW id \in reversedJournalIds
        PROVE  \E j, k \in journals' :
                 /\ j.command.journal_id = id
                 /\ k.command.journal_type \in Reversals /\ k.command.causation_id = id
                 /\ Mirrors(k.command, j.command)
                 /\ \A m \in journals' :
                      (m.command.journal_type \in Reversals /\ m.command.causation_id = id) => m = k
    <2>1. PICK j, k \in journals :
            /\ j.command.journal_id = id
            /\ k.command.journal_type \in Reversals /\ k.command.causation_id = id
            /\ Mirrors(k.command, j.command)
            /\ \A m \in journals :
                 (m.command.journal_type \in Reversals /\ m.command.causation_id = id) => m = k
      BY DEF ReversalsInv
    <2>2. j \in journals' /\ k \in journals'
      BY <1>3
    <2>3. \A m \in journals' :
            (m.command.journal_type \in Reversals /\ m.command.causation_id = id) => m = k
      BY <1>2, <2>1
    <2>4. QED
      BY <2>1, <2>2, <2>3
  <1>5. \A j \in journals' :
          j.command.journal_type \in Reversals => j.command.causation_id \in reversedJournalIds
    BY <1>2 DEF ReversalsInv
  <1>6. QED
    BY <1>4, <1>5 DEF ReversalsInv

LEMMA JournalReversed ==
  ASSUME JournalsInv, ReversalsInv, NEW c \in Commands, ReverseJournal(c)
  PROVE  /\ ReversalsInv' /\ c.journal_type \in Reversals
         /\ \E at \in Instants : Accept(c, at)
  <1>1. /\ Post(c)
        /\ reversedJournalIds' = reversedJournalIds \cup {c.causation_id}
    BY DEF ReverseJournal
  <1>2. PICK j \in journals :
          /\ j.command.journal_id = c.causation_id
          /\ j.command.journal_type \in DOMAIN ReversalOf
          /\ c.journal_type = ReversalOf[j.command.journal_type]
          /\ c.causation_id \notin reversedJournalIds
          /\ Mirrors(c, j.command)
    BY DEF ReverseJournal
  <1>3. c.journal_type \in Reversals
    BY <1>2 DEF Reversals
  <1>4. ~IsReplay(c)
    BY <1>2, <1>3, ReplayIsKnown DEF ReversalsInv
  <1>5. PICK at \in Instants : Accept(c, at)
    BY <1>1, <1>4 DEF Post
  <1>6. journals' = journals \cup {Accepted(c, at)} /\ Accepted(c, at).command = c
    BY <1>5, AcceptAdds
  <1> DEFINE new == Accepted(c, at)
  <1> HIDE DEF new
  <1>7. \A i \in journals' : i \in journals \/ (i = new /\ i.command = c)
    BY <1>6 DEF new
  <1>8. new \in journals' /\ new.command = c /\ journals \subseteq journals'
    BY <1>6 DEF new
  <1>9. ASSUME NEW id \in reversedJournalIds'
        PROVE  \E i, k \in journals' :
                 /\ i.command.journal_id = id
                 /\ k.command.journal_type \in Reversals /\ k.command.causation_id = id
                 /\ Mirrors(k.command, i.command)
                 /\ \A m \in journals' :
                      (m.command.journal_type \in Reversals /\ m.command.causation_id = id) => m = k
    <2>1. CASE id = c.causation_id
      <3>1. \A m \in journals : m.command.journal_type \in Reversals => m.command.causation_id # id
        BY <1>2, <2>1 DEF ReversalsInv
      <3>2. \A m \in journals' :
              (m.command.journal_type \in Reversals /\ m.command.causation_id = id) => m = new
        BY <1>7, <3>1
      <3>3. j \in journals' /\ j.command.journal_id = id /\ Mirrors(new.command, j.command)
        BY <1>2, <1>8, <2>1
      <3>4. new.command.journal_type \in Reversals /\ new.command.causation_id = id
        BY <1>3, <1>8, <2>1
      <3>5. QED
        BY <1>8, <3>2, <3>3, <3>4
    <2>2. CASE id # c.causation_id
      <3>1. id \in reversedJournalIds
        BY <1>1, <2>2
      <3>2. PICK i, k \in journals :
              /\ i.command.journal_id = id
              /\ k.command.journal_type \in Reversals /\ k.command.causation_id = id
              /\ Mirrors(k.command, i.command)
              /\ \A m \in journals :
                   (m.command.journal_type \in Reversals /\ m.command.causation_id = id) => m = k
        BY <3>1 DEF ReversalsInv
      <3>3. \A m \in journals' :
              (m.command.journal_type \in Reversals /\ m.command.causation_id = id) => m = k
        BY <1>7, <2>2, <3>2
      <3>4. i \in journals' /\ k \in journals'
        BY <1>8
      <3>5. QED
        BY <3>2, <3>3, <3>4
    <2>3. QED
      BY <2>1, <2>2
  <1>10. \A i \in journals' :
           i.command.journal_type \in Reversals => i.command.causation_id \in reversedJournalIds'
    BY <1>1, <1>7 DEF ReversalsInv
  <1>11. QED
    BY <1>3, <1>5, <1>9, <1>10 DEF ReversalsInv

LEMMA ReversedOnceHolds ==
  ASSUME JournalsInv, ReversalsInv
  PROVE  ReversedOnce
  <1> SUFFICES ASSUME NEW id \in reversedJournalIds
               PROVE  LET original == {j \in journals : j.command.journal_id = id}
                          reversal == {j \in journals : j.command.journal_type \in Reversals
                                                        /\ j.command.causation_id = id}
                      IN  /\ Cardinality(original) = 1 /\ Cardinality(reversal) = 1
                          /\ \A j \in original, k \in reversal : Mirrors(k.command, j.command)
    BY DEF ReversedOnce
  <1>1. PICK j, k \in journals :
          /\ j.command.journal_id = id
          /\ k.command.journal_type \in Reversals /\ k.command.causation_id = id
          /\ Mirrors(k.command, j.command)
          /\ \A m \in journals :
               (m.command.journal_type \in Reversals /\ m.command.causation_id = id) => m = k
    BY DEF ReversalsInv
  <1> DEFINE original == {i \in journals : i.command.journal_id = id}
             reversal == {i \in journals : i.command.journal_type \in Reversals
                                           /\ i.command.causation_id = id}
  <1>2. original = {j}
    BY <1>1, JournalsById
  <1>3. reversal = {k}
    BY <1>1
  <1> HIDE DEF original, reversal
  <1>4. Cardinality(original) = 1 /\ Cardinality(reversal) = 1
    BY <1>2, <1>3, FS_Singleton
  <1>5. \A i \in original, m \in reversal : Mirrors(m.command, i.command)
    BY <1>1, <1>2, <1>3
  <1>6. QED
    BY <1>4, <1>5 DEF original, reversal
-----------------------------------------------------------------------------
DraftInv == JournalsInv /\ HoldsInv /\ BreaksInv /\ ReversalsInv

LEMMA OperationsApart ==
  /\ "SYNTHETIC_HOLD_CREATE" \notin Parks \cup Clears \cup Reversals
  /\ "SYNTHETIC_HOLD_RELEASE" \notin Parks \cup Clears \cup Reversals
  /\ \A type \in Reversals :
       type \notin Parks \cup Clears \cup {"SYNTHETIC_HOLD_CREATE", "SYNTHETIC_HOLD_RELEASE"}
  /\ \A type \in Parks \cup Clears :
       type \notin Reversals \cup {"SYNTHETIC_HOLD_CREATE", "SYNTHETIC_HOLD_RELEASE"}
  /\ \A type \in Direct :
       type \notin Parks \cup Clears \cup Reversals
                     \cup {"SYNTHETIC_HOLD_CREATE", "SYNTHETIC_HOLD_RELEASE"}
  <1>1. Reversals = {"SYNTHETIC_PROVIDER_POSITION_REVERSAL"}
    BY DEF Reversals, ReversalOf
  <1>2. Parks \cup Clears \cup {"SYNTHETIC_HOLD_CREATE", "SYNTHETIC_HOLD_RELEASE"}
          \subseteq DOMAIN ControlLegOf
    BY DEF Parks, Clears, ControlLegOf
  <1>3. Direct \cap (DOMAIN ControlLegOf \cup Reversals) = {}
    BY DraftConstants
  <1>4. QED
    BY <1>1, <1>2, <1>3 DEF Parks, Clears

LEMMA DraftStart == DraftInit => DraftInv
  <1> SUFFICES ASSUME DraftInit PROVE DraftInv
    OBVIOUS
  <1>1. /\ journals = {} /\ postedEntryIds = {} /\ idempotency = << >>
        /\ holds = << >> /\ breaks = << >> /\ reversedJournalIds = {}
    BY DEF DraftInit, LedgerInit
  <1>2. Entries = {}
    BY <1>1 DEF Entries
  <1>3. DOMAIN idempotency = {} /\ DOMAIN holds = {} /\ DOMAIN breaks = {}
    BY <1>1
  <1>4. JournalsInv
    <2>1. \A a : Total(RowOf(Entries, a), "DEBIT") = Total(RowOf(Entries, a), "CREDIT")
      <3>1. \A a : RowOf(Entries, a) = {}
        BY <1>2 DEF RowOf
      <3>2. QED
        BY <3>1, TotalsNone
    <2>2. IndexesAgree
      BY <1>1, <1>2, <1>3, <2>1 DEF IndexesAgree, RowOf
    <2>3. QED
      BY <1>1, <1>2, <2>2, FS_EmptySet DEF JournalsInv
  <1>5. \A a : NormalBalance(a) = 0
    <2>1. \A a : LegsOn(Entries, a) = {}
      BY <1>2 DEF LegsOn
    <2>2. QED
      BY <2>1, BalanceNone, BalancesAreOfEntries
  <1>6. HoldsInv
    <2>1. \A a : OpenOn(holds, a) = {}
      BY <1>3 DEF OpenOn
    <2>2. \A hs : Reserved(hs, {}) = 0
      <3> TAKE hs
      <3> DEFINE w == [r \in {} |-> 0]
      <3>1. IsFiniteSet({}) /\ w \in [{} -> Int] /\ \A r \in {} : w[r] = hs[r].amount
        BY FS_EmptySet
      <3> HIDE DEF w
      <3>2. PICK f : Sums(f, w, {}) /\ Reserved(hs, {}) = f[{}]
        BY <3>1, ReservedSum
      <3>3. f[{}] = 0
        BY <3>2 DEF Sums
      <3>4. QED
        BY <3>2, <3>3
    <2>3. HeldIsOpenHolds
      BY <1>5, <2>1, <2>2 DEF HeldIsOpenHolds
    <2>4. QED
      BY <1>1, <1>3, <2>3, FS_EmptySet DEF HoldsInv
  <1>7. BreaksInv
    <2>1. \A a : Parked(a) = {}
      BY <1>1 DEF Parked
    <2>2. SuspenseIsOpenBreaks
      BY <1>5, <2>1, AmountsNone DEF SuspenseIsOpenBreaks
    <2>3. QED
      BY <1>1, <1>3, <2>2 DEF BreaksInv
  <1>8. ReversalsInv
    BY <1>1 DEF ReversalsInv
  <1>9. QED
    BY <1>4, <1>6, <1>7, <1>8 DEF DraftInv

LEMMA DraftStutters ==
  ASSUME DraftInv, UNCHANGED vars
  PROVE  DraftInv'
  <1>1. /\ journals' = journals /\ postedEntryIds' = postedEntryIds
        /\ idempotency' = idempotency /\ holds' = holds /\ breaks' = breaks
        /\ reversedJournalIds' = reversedJournalIds
    BY DEF vars
  <1>2. Entries' = Entries
    BY <1>1 DEF Entries
  <1>3. JournalsInv'
    BY <1>1, <1>2 DEF DraftInv, JournalsInv, IndexesAgree
  <1>4. \A a : NormalBalance(a)' = NormalBalance(a)
    BY <1>2 DEF NormalBalance
  <1>5. HoldsInv'
    BY <1>1, <1>4 DEF DraftInv, HoldsInv, HeldIsOpenHolds
  <1>6. \A a : Parked(a)' = Parked(a)
    BY <1>1 DEF Parked, OpenParks, On
  <1>7. BreaksInv'
    BY <1>1, <1>4, <1>6 DEF DraftInv, BreaksInv, SuspenseIsOpenBreaks, Parking
  <1>8. ReversalsInv'
    BY <1>1 DEF DraftInv, ReversalsInv
  <1>9. QED
    BY <1>3, <1>5, <1>7, <1>8 DEF DraftInv

LEMMA DraftStep ==
  ASSUME DraftInv, DraftNext
  PROVE  DraftInv'
  <1>0. JournalsInv /\ HoldsInv /\ BreaksInv /\ ReversalsInv
    BY DEF DraftInv
  <1>1. PICK c \in Commands :
          \/ PostDirectly(c) \/ CreateHold(c) \/ ReleaseHold(c)
          \/ ReverseJournal(c) \/ ParkSuspense(c) \/ ClearSuspense(c)
    BY DEF DraftNext
  <1>2. CASE PostDirectly(c)
    <2>1. /\ c.journal_type \in Direct /\ Post(c)
          /\ holds' = holds /\ breaks' = breaks /\ reversedJournalIds' = reversedJournalIds
      BY <1>2 DEF PostDirectly
    <2>2. CASE UNCHANGED ledgerVars
      <3>1. UNCHANGED vars
        BY <2>1, <2>2 DEF vars, ledgerVars
      <3>2. QED
        BY <3>1, DraftStutters
    <2>3. ASSUME NEW at \in Instants, Accept(c, at)
          PROVE  DraftInv'
      <3>1. JournalsInv'
        BY <1>0, <2>3, AcceptKeepsJournals
      <3>2. HoldsInv'
        BY <1>0, <2>1, <2>3, OperationsApart, HoldsFrame
      <3>3. BreaksInv'
        BY <1>0, <2>1, <2>3, OperationsApart, BreaksFrame
      <3>4. ReversalsInv'
        BY <1>0, <2>1, <2>3, OperationsApart, ReversalsFrame
      <3>5. QED
        BY <3>1, <3>2, <3>3, <3>4 DEF DraftInv
    <2>4. QED
      BY <2>1, <2>2, <2>3 DEF Post
  <1>3. CASE CreateHold(c)
    <2>1. HoldsInv' /\ \E at \in Instants : Accept(c, at)
      BY <1>0, <1>3, HoldCreated
    <2>2. PICK at \in Instants : Accept(c, at)
      BY <2>1
    <2>3. /\ c.journal_type \notin Parks \cup Clears \cup Reversals
          /\ breaks' = breaks /\ reversedJournalIds' = reversedJournalIds
      BY <1>3, OperationsApart DEF CreateHold
    <2>4. JournalsInv' /\ BreaksInv' /\ ReversalsInv'
      BY <1>0, <2>2, <2>3, AcceptKeepsJournals, BreaksFrame, ReversalsFrame
    <2>5. QED
      BY <2>1, <2>4 DEF DraftInv
  <1>4. CASE ReleaseHold(c)
    <2>1. HoldsInv' /\ \E at \in Instants : Accept(c, at)
      BY <1>0, <1>4, HoldReleased
    <2>2. PICK at \in Instants : Accept(c, at)
      BY <2>1
    <2>3. /\ c.journal_type \notin Parks \cup Clears \cup Reversals
          /\ breaks' = breaks /\ reversedJournalIds' = reversedJournalIds
      BY <1>4, OperationsApart DEF ReleaseHold
    <2>4. JournalsInv' /\ BreaksInv' /\ ReversalsInv'
      BY <1>0, <2>2, <2>3, AcceptKeepsJournals, BreaksFrame, ReversalsFrame
    <2>5. QED
      BY <2>1, <2>4 DEF DraftInv
  <1>5. CASE ReverseJournal(c)
    <2>1. /\ ReversalsInv' /\ c.journal_type \in Reversals
          /\ \E at \in Instants : Accept(c, at)
      BY <1>0, <1>5, JournalReversed
    <2>2. PICK at \in Instants : Accept(c, at)
      BY <2>1
    <2>3. /\ c.journal_type \notin Parks \cup Clears
          /\ c.journal_type \notin {"SYNTHETIC_HOLD_CREATE", "SYNTHETIC_HOLD_RELEASE"}
          /\ breaks' = breaks /\ holds' = holds
      BY <1>5, <2>1, OperationsApart DEF ReverseJournal
    <2>4. JournalsInv' /\ BreaksInv' /\ HoldsInv'
      BY <1>0, <2>2, <2>3, AcceptKeepsJournals, BreaksFrame, HoldsFrame
    <2>5. QED
      BY <2>1, <2>4 DEF DraftInv
  <1>6. CASE ParkSuspense(c)
    <2>1. BreaksInv' /\ \E at \in Instants : Accept(c, at)
      BY <1>0, <1>6, BreakParked
    <2>2. PICK at \in Instants : Accept(c, at)
      BY <2>1
    <2>3. /\ c.journal_type \notin Reversals
          /\ c.journal_type \notin {"SYNTHETIC_HOLD_CREATE", "SYNTHETIC_HOLD_RELEASE"}
          /\ holds' = holds /\ reversedJournalIds' = reversedJournalIds
      BY <1>6, OperationsApart DEF ParkSuspense
    <2>4. JournalsInv' /\ HoldsInv' /\ ReversalsInv'
      BY <1>0, <2>2, <2>3, AcceptKeepsJournals, HoldsFrame, ReversalsFrame
    <2>5. QED
      BY <2>1, <2>4 DEF DraftInv
  <1>7. CASE ClearSuspense(c)
    <2>1. BreaksInv' /\ \E at \in Instants : Accept(c, at)
      BY <1>0, <1>7, BreakCleared
    <2>2. PICK at \in Instants : Accept(c, at)
      BY <2>1
    <2>3. /\ c.journal_type \notin Reversals
          /\ c.journal_type \notin {"SYNTHETIC_HOLD_CREATE", "SYNTHETIC_HOLD_RELEASE"}
          /\ holds' = holds /\ reversedJournalIds' = reversedJournalIds
      BY <1>7, OperationsApart DEF ClearSuspense
    <2>4. JournalsInv' /\ HoldsInv' /\ ReversalsInv'
      BY <1>0, <2>2, <2>3, AcceptKeepsJournals, HoldsFrame, ReversalsFrame
    <2>5. QED
      BY <2>1, <2>4 DEF DraftInv
  <1>8. QED
    BY <1>1, <1>2, <1>3, <1>4, <1>5, <1>6, <1>7

LEMMA DraftReconciles == DraftInv => ControlAccountsReconcile
  BY ReversedOnceHolds
     DEF DraftInv, ControlAccountsReconcile, JournalsInv, HoldsInv, BreaksInv

(* Whatever callers send, the control accounts of the draft reconcile with *)
(* its records, over journals whose indexes agree.                         *)
THEOREM DraftReconcilesItsAccounts == DraftSpec => []ControlAccountsReconcile
  <1>1. DraftInit => DraftInv
    BY DraftStart
  <1>2. DraftInv /\ [DraftNext]_vars => DraftInv'
    BY DraftStep, DraftStutters
  <1>3. DraftInv => ControlAccountsReconcile
    BY DraftReconciles
  <1>4. QED
    BY <1>1, <1>2, <1>3, PTL DEF DraftSpec
-----------------------------------------------------------------------------
(* Entries as the memory ledger would hold them: no two of them agree.     *)
EntriesOf(S) == {EntryOf(e) : e \in S}

LEMMA EntriesAlike ==
  ASSUME NEW S, Legs(S), \A e, f \in S : EntryOf(e) = EntryOf(f) => e = f
  PROVE  /\ IsFiniteSet(EntriesOf(S))
         /\ Cardinality(EntriesOf(S)) = Cardinality(S)
         /\ Amounts(EntriesOf(S)) = Amounts(S)
  <1> DEFINE Good == {s \in SUBSET S :
                        /\ IsFiniteSet(EntriesOf(s))
                        /\ Cardinality(EntriesOf(s)) = Cardinality(s)
                        /\ Amounts(EntriesOf(s)) = Amounts(s)}
  <1>1. ASSUME NEW s \in SUBSET S, \A r \in SUBSET s : r # s => r \in Good
        PROVE  s \in Good
    <2>1. CASE s = {}
      <3>1. EntriesOf(s) = s
        BY <2>1 DEF EntriesOf
      <3>2. IsFiniteSet(s)
        BY <2>1, FS_EmptySet
      <3>3. QED
        BY <3>1, <3>2
    <2>2. CASE s # {}
      <3>1. PICK x \in s : TRUE
        BY <2>2
      <3> DEFINE r == s \ {x}
      <3>2. r \in Good
        BY <1>1
      <3>3. EntriesOf(s) = EntriesOf(r) \cup {EntryOf(x)} /\ EntryOf(x) \notin EntriesOf(r)
        BY DEF EntriesOf
      <3>4. Legs(r) /\ x.amount \in Int /\ x \notin r /\ s = r \cup {x}
        BY LegsSubset DEF Legs
      <3>5. EntryOf(x).amount = x.amount /\ \A e \in EntriesOf(r) : e.amount \in Int
        BY <3>4 DEF EntryOf, EntriesOf, Legs
      <3>6. Legs(EntriesOf(r))
        BY <3>2, <3>5 DEF Legs
      <3> HIDE DEF r, Good
      <3>7. /\ IsFiniteSet(EntriesOf(r)) /\ Cardinality(EntriesOf(r)) = Cardinality(r)
            /\ Amounts(EntriesOf(r)) = Amounts(r)
        BY <3>2 DEF Good
      <3>8. Legs({x}) /\ Legs({EntryOf(x)})
        BY <3>4, <3>5, FS_Singleton DEF Legs
      <3>9. r \cap {x} = {} /\ EntriesOf(r) \cap {EntryOf(x)} = {}
        BY <3>3, <3>4
      <3>10. Amounts(r \cup {x}) = Amounts(r) + Amounts({x})
        BY ONLY <3>4, <3>8, <3>9, AmountsUnion
      <3>11. Amounts(EntriesOf(r) \cup {EntryOf(x)}) = Amounts(EntriesOf(r)) + Amounts({EntryOf(x)})
        BY ONLY <3>6, <3>8, <3>9, AmountsUnion
      <3>12. Amounts({x}) = x.amount /\ Amounts({EntryOf(x)}) = x.amount
        BY <3>4, <3>5, AmountsOne
      <3>13. Amounts(EntriesOf(s)) = Amounts(s)
        BY <3>3, <3>4, <3>7, <3>10, <3>11, <3>12
      <3>14. IsFiniteSet(r)
        BY <3>4 DEF Legs
      <3>15. Cardinality(r \cup {x}) = Cardinality(r) + 1
        BY <3>4, <3>14, FS_AddElement
      <3>16. /\ IsFiniteSet(EntriesOf(r) \cup {EntryOf(x)})
             /\ Cardinality(EntriesOf(r) \cup {EntryOf(x)}) = Cardinality(EntriesOf(r)) + 1
        BY <3>3, <3>7, FS_AddElement
      <3>17. QED
        BY <3>3, <3>4, <3>7, <3>13, <3>15, <3>16 DEF Good
    <2>3. QED
      BY <2>1, <2>2
  <1> HIDE DEF Good
  <1>2. IsFiniteSet(S)
    BY DEF Legs
  <1>3. SUBSET S \subseteq Good
    BY <1>1, <1>2, SubsetInduction
  <1>4. QED
    BY <1>3 DEF Good

(* The operators of the ledger, as the schema's module instantiates them.  *)
LEMMA MemoryOperators ==
  /\ \A S : Memory!Cardinality(S) = Cardinality(S)
  /\ \A S, side : Memory!Total(S, side) = Total(S, side)
  /\ \A e : Memory!Signature(e) = Signature(e)
  /\ \A S : Memory!Assets(S) = Assets(S)
  /\ \A S, asset : Memory!OfAsset(S, asset) = OfAsset(S, asset)
  /\ \A f, k, v : Memory!Put(f, k, v) = Put(f, k, v)
  <1>1. \A S : Memory!Cardinality(S) = Cardinality(S)
    BY DEF Memory!Cardinality, Cardinality
  <1>2. \A S : Memory!Amounts(S) = Amounts(S)
    BY DEF Memory!Amounts, Amounts, Memory!MapThenSumSet, MapThenSumSet,
           Memory!MapThenFoldSet, MapThenFoldSet
  <1>3. \A S, side : Memory!Total(S, side) = Total(S, side)
    BY <1>2 DEF Memory!Total, Total
  <1>4. /\ \A e : Memory!Signature(e) = Signature(e)
        /\ \A S : Memory!Assets(S) = Assets(S)
        /\ \A S, asset : Memory!OfAsset(S, asset) = OfAsset(S, asset)
        /\ \A f, k, v : Memory!Put(f, k, v) = Put(f, k, v)
    BY DEF Memory!Signature, Signature, Memory!Assets, Assets, Memory!OfAsset, OfAsset,
           Memory!Put, Put
  <1>5. QED
    BY <1>1, <1>3, <1>4
-----------------------------------------------------------------------------
(* A journal as a command, with the entries given.                         *)
CommandWith(j, entries) ==
  [journal_id |-> j.journal_id, journal_type |-> j.journal_type,
   legal_entity_id |-> j.legal_entity_id, idempotency_key |-> j.idempotency_key,
   actor_type |-> j.actor_type, entries |-> EntriesOf(entries)]

DistinctRows(E) == \A e, f \in E : e.entry_id = f.entry_id => e = f

LEMMA EntryFields ==
  ASSUME NEW e
  PROVE  /\ EntryOf(e).entry_id = e.entry_id /\ EntryOf(e).account_id = e.account_id
         /\ EntryOf(e).asset_code = e.asset_code /\ EntryOf(e).side = e.side
         /\ EntryOf(e).amount = e.amount
  BY DEF EntryOf

(* Sums of some of the entries, as rows and as entries of a command.       *)
LEMMA TotalsAlike ==
  ASSUME NEW E, Legs(E), DistinctRows(E), NEW asset, NEW side
  PROVE  Total(OfAsset(EntriesOf(E), asset), side) = Total(OfAsset(E, asset), side)
  <1> DEFINE S == {e \in OfAsset(E, asset) : e.side = side}
  <1>1. S \in SUBSET E
    BY DEF OfAsset
  <1>2. {e \in OfAsset(EntriesOf(E), asset) : e.side = side} = EntriesOf(S)
    BY EntryFields DEF OfAsset, EntriesOf
  <1>3. Legs(S)
    BY <1>1, LegsSubset
  <1>4. \A e, f \in S : EntryOf(e) = EntryOf(f) => e = f
    <2> SUFFICES ASSUME NEW e \in S, NEW f \in S, EntryOf(e) = EntryOf(f) PROVE e = f
      OBVIOUS
    <2>1. e.entry_id = f.entry_id
      BY EntryFields
    <2>2. QED
      BY <1>1, <2>1 DEF DistinctRows
  <1>5. Total(OfAsset(E, asset), side) = Amounts(S)
    BY DEF Total
  <1>6. Total(OfAsset(EntriesOf(E), asset), side) = Amounts(EntriesOf(S))
    BY <1>2 DEF Total
  <1> HIDE DEF S
  <1>7. Amounts(EntriesOf(S)) = Amounts(S)
    BY <1>3, <1>4, EntriesAlike
  <1>8. QED
    BY <1>5, <1>6, <1>7

(* A complete journal is a command the memory ledger finds valid.          *)
LEMMA CompleteIsValid ==
  ASSUME NEW j, NEW view, JournalComplete(j, view),
         NEW E, E = Of(view, "entry", j.journal_id),
         Legs(E), DistinctRows(E), \A e \in E : e.amount > 0
  PROVE  Memory!ValidCommand(CommandWith(j, E))
  <1> DEFINE c == CommandWith(j, E)
  <1>1. /\ c.journal_type = j.journal_type /\ c.actor_type = j.actor_type
        /\ c.legal_entity_id = j.legal_entity_id /\ c.entries = EntriesOf(E)
    BY DEF CommandWith
  <1>2. /\ j.journal_type \in DOMAIN Rules
        /\ j.actor_type \in Rules[j.journal_type].allowed_actor_types
        /\ ReferencesHold(j, E)
        /\ Cardinality(E) \in 2 .. MaxEntries
        /\ BalancedPerAsset(E)
        /\ MatchesPattern(E, Rules[j.journal_type])
    BY DEF JournalComplete
  <1>3. \A e, f \in E : EntryOf(e) = EntryOf(f) => e = f
    <2> SUFFICES ASSUME NEW e \in E, NEW f \in E, EntryOf(e) = EntryOf(f) PROVE e = f
      OBVIOUS
    <2>1. e.entry_id = f.entry_id
      BY EntryFields
    <2>2. QED
      BY <2>1 DEF DistinctRows
  <1>4. Memory!Cardinality(c.entries) \in 2 .. MaxEntries
    <2>1. Cardinality(EntriesOf(E)) = Cardinality(E)
      BY <1>3, EntriesAlike
    <2>2. QED
      BY <1>1, <1>2, <2>1, MemoryOperators
  <1> HIDE DEF c
  <1>5. \A x \in c.entries : \E e \in E : x = EntryOf(e)
    BY <1>1 DEF EntriesOf
  <1>6. Memory!DistinctEntries(c.entries)
    <2> SUFFICES ASSUME NEW x \in c.entries, NEW y \in c.entries, x.entry_id = y.entry_id
                 PROVE  x = y
      BY DEF Memory!DistinctEntries
    <2>1. PICK e \in E, f \in E : x = EntryOf(e) /\ y = EntryOf(f)
      BY <1>5
    <2>2. e.entry_id = f.entry_id
      BY <2>1, EntryFields
    <2>3. QED
      BY <2>1, <2>2 DEF DistinctRows
  <1>7. Memory!WithinBoundary(c)
    <2> SUFFICES ASSUME NEW x \in c.entries
                 PROVE  /\ x.account_id \in Accounts
                        /\ AccountOf[x.account_id].legal_entity_id = c.legal_entity_id
                        /\ AccountOf[x.account_id].asset_code = x.asset_code
      BY DEF Memory!WithinBoundary
    <2>1. PICK e \in E : x = EntryOf(e)
      BY <1>5
    <2>2. QED
      BY <1>1, <1>2, <2>1, EntryFields DEF ReferencesHold
  <1>8. \A x \in c.entries : x.amount > 0
    BY <1>5, EntryFields
  <1>9. Assets(EntriesOf(E)) = Assets(E)
    BY EntryFields DEF Assets, EntriesOf
  <1>10. Memory!Balanced(c.entries)
    <2> SUFFICES ASSUME NEW asset \in Assets(EntriesOf(E))
                 PROVE  Total(OfAsset(EntriesOf(E), asset), "DEBIT") =
                          Total(OfAsset(EntriesOf(E), asset), "CREDIT")
      BY <1>1, MemoryOperators DEF Memory!Balanced
    <2>1. Total(OfAsset(E, asset), "DEBIT") = Total(OfAsset(E, asset), "CREDIT")
      BY <1>2, <1>9 DEF BalancedPerAsset
    <2>2. QED
      BY <2>1, TotalsAlike
  <1>11. Memory!FollowsRule(c.entries, Rules[c.journal_type])
    <2> DEFINE rule == Rules[j.journal_type]
    <2> HIDE DEF rule
    <2>1. \A e : Signature(EntryOf(e)) = Signature(e)
      BY EntryFields DEF Signature
    <2>2. \A asset : OfAsset(EntriesOf(E), asset) = EntriesOf(OfAsset(E, asset))
      BY EntryFields DEF OfAsset, EntriesOf
    <2>3. ASSUME NEW asset \in Assets(E)
          PROVE  /\ {Signature(x) : x \in EntriesOf(OfAsset(E, asset))} = rule.entry_pattern
                 /\ \A x, y \in EntriesOf(OfAsset(E, asset)) : Signature(x) = Signature(y) => x = y
      <3>1. /\ {Signature(e) : e \in OfAsset(E, asset)} = rule.entry_pattern
            /\ \A e, f \in OfAsset(E, asset) : Signature(e) = Signature(f) => e = f
        BY <1>2 DEF MatchesPattern, rule
      <3>2. {Signature(x) : x \in EntriesOf(OfAsset(E, asset))} =
              {Signature(e) : e \in OfAsset(E, asset)}
        BY <2>1 DEF EntriesOf
      <3>3. ASSUME NEW x \in EntriesOf(OfAsset(E, asset)), NEW y \in EntriesOf(OfAsset(E, asset)),
                   Signature(x) = Signature(y)
            PROVE  x = y
        <4>1. PICK e \in OfAsset(E, asset), f \in OfAsset(E, asset) : x = EntryOf(e) /\ y = EntryOf(f)
          BY DEF EntriesOf
        <4>2. QED
          BY <2>1, <3>1, <3>3, <4>1
      <3>4. QED
        BY <3>1, <3>2, <3>3
    <2>4. Rules[c.journal_type] = rule
      BY <1>1 DEF rule
    <2>5. QED
      BY <1>1, <1>9, <2>2, <2>3, <2>4, MemoryOperators DEF Memory!FollowsRule
  <1>12. QED
    BY <1>1, <1>2, <1>4, <1>6, <1>7, <1>8, <1>10, <1>11 DEF Memory!ValidCommand, c
-----------------------------------------------------------------------------
Sent(posting) == UNION {posting[i] : i \in 1 .. Len(posting)}

OneJournal(S) == \A r, s \in S : r.table = "journal" /\ s.table = "journal" => r = s

Positive(S) == \A r \in S : r.table = "entry" => r.amount > 0

(* What the transactions under way bring is one journal each, if any.      *)
PostingInv(Statements) ==
  /\ SchemaInv(Statements)
  /\ rows \subseteq UNION Statements
  /\ Positive(rows)
  /\ \A p \in Clients : Positive(tx[p].own) /\ OneJournal(tx[p].own \cup Sent(tx[p].todo))

LEMMA NothingSent == Sent(<< >>) = {}
  <1>1. 1 .. Len(<< >>) = {}
    BY EmptySeq
  <1>2. QED
    BY <1>1 DEF Sent

LEMMA SentParts ==
  ASSUME NEW S, NEW s \in Seq(S), s # << >>
  PROVE  Head(s) \subseteq Sent(s) /\ Sent(Tail(s)) \subseteq Sent(s)
  <1>1. Len(s) \in Nat /\ Len(s) >= 1 /\ Head(s) = s[1]
    BY HeadTailProperties, EmptySeq
  <1>2. Len(Tail(s)) = Len(s) - 1 /\ \A i \in 1 .. Len(Tail(s)) : Tail(s)[i] = s[i + 1]
    BY HeadTailProperties
  <1>3. Head(s) \subseteq Sent(s)
    BY <1>1 DEF Sent
  <1>4. \A i \in 1 .. Len(Tail(s)) : i + 1 \in 1 .. Len(s)
    BY <1>1, <1>2
  <1>5. Sent(Tail(s)) \subseteq Sent(s)
    BY <1>2, <1>4 DEF Sent
  <1>6. QED
    BY <1>3, <1>5

LEMMA PostingStart ==
  ASSUME NEW Statements, SchemaInit
  PROVE  PostingInv(Statements)
  <1>1. SchemaInv(Statements)
    BY InitHolds
  <1>2. \A p \in Clients : tx[p].own = {} /\ tx[p].todo = << >>
    BY DEF SchemaInit, NoTransaction
  <1>3. rows = {}
    BY DEF SchemaInit
  <1>4. QED
    BY <1>1, <1>2, <1>3, NothingSent DEF PostingInv, Positive, OneJournal

(* The step that changes nothing but one transaction.                      *)
LEMMA PostingMoves ==
  ASSUME NEW Statements, PostingInv(Statements), SchemaInv(Statements)', NEW p \in Clients,
         rows' = rows, \A q \in Clients \ {p} : tx'[q] = tx[q],
         Positive(tx'[p].own), OneJournal(tx'[p].own \cup Sent(tx'[p].todo))
  PROVE  PostingInv(Statements)'
  BY DEF PostingInv

LEMMA PostingStep ==
  ASSUME NEW Statements, \A stmt \in Statements : IsFiniteSet(stmt),
         Postings \subseteq Seq(Statements),
         \A posting \in Postings : OneJournal(Sent(posting)),
         PostingInv(Statements), SchemaNext
  PROVE  PostingInv(Statements)'
  <1>1. SchemaInv(Statements)'
    BY SchemaStep DEF PostingInv
  <1>2. /\ tx = [p \in Clients |-> tx[p]]
        /\ \A p \in Clients :
             tx[p] \in [status : {"idle", "open", "checked"}, replica : BOOLEAN,
                        todo : Seq(Statements), own : SUBSET UNION Statements]
    BY DEF PostingInv, SchemaInv, TransactionsTyped
  <1>3. ASSUME NEW p \in Clients, NEW posting \in Postings, NEW replica \in BOOLEAN,
               Begin(p, posting, replica)
        PROVE  PostingInv(Statements)'
    <2>1. /\ rows' = rows /\ \A q \in Clients \ {p} : tx'[q] = tx[q]
          /\ tx'[p].own = {} /\ tx'[p].todo = posting
      BY <1>2, <1>3 DEF Begin
    <2>2. Positive(tx'[p].own) /\ OneJournal(tx'[p].own \cup Sent(tx'[p].todo))
      BY <2>1 DEF Positive
    <2>3. QED
      BY <1>1, <2>1, <2>2, PostingMoves
  <1>4. ASSUME NEW p \in Clients, InsertFails(p) \/ TriggersFail(p) \/ Abort(p)
        PROVE  PostingInv(Statements)'
    <2>1. /\ rows' = rows /\ \A q \in Clients \ {p} : tx'[q] = tx[q]
          /\ tx'[p].own = {} /\ tx'[p].todo = << >>
      BY <1>2, <1>4 DEF InsertFails, TriggersFail, Abort, NoTransaction
    <2>2. Positive(tx'[p].own) /\ OneJournal(tx'[p].own \cup Sent(tx'[p].todo))
      BY <2>1, NothingSent DEF Positive, OneJournal
    <2>3. QED
      BY <1>1, <2>1, <2>2, PostingMoves
  <1>5. ASSUME NEW p \in Clients, InsertStatement(p)
        PROVE  PostingInv(Statements)'
    <2> DEFINE stmt == Head(tx[p].todo)
    <2>1. /\ rows' = rows /\ tx[p].todo # << >> /\ \A q \in Clients \ {p} : tx'[q] = tx[q]
          /\ tx'[p].own = tx[p].own \cup stmt /\ tx'[p].todo = Tail(tx[p].todo)
          /\ \A r \in stmt : BeforeInsert(r, View(p))
      BY <1>2, <1>5 DEF InsertStatement, Admitted
    <2>2. tx[p].todo \in Seq(Statements)
      BY <1>2
    <2>3. stmt \subseteq Sent(tx[p].todo) /\ Sent(Tail(tx[p].todo)) \subseteq Sent(tx[p].todo)
      BY <2>1, <2>2, SentParts
    <2> HIDE DEF stmt
    <2>4. Positive(stmt)
      BY <2>1 DEF Positive, BeforeInsert, EntryAdmitted
    <2>5. Positive(tx'[p].own) /\ OneJournal(tx'[p].own \cup Sent(tx'[p].todo))
      BY <2>1, <2>3, <2>4 DEF PostingInv, Positive, OneJournal
    <2>6. QED
      BY <1>1, <2>1, <2>5, PostingMoves
  <1>6. ASSUME NEW p \in Clients, RunsTriggers(p)
        PROVE  PostingInv(Statements)'
    <2>1. /\ rows' = rows /\ \A q \in Clients \ {p} : tx'[q] = tx[q]
          /\ tx'[p].own = tx[p].own /\ tx'[p].todo = tx[p].todo
      BY <1>2, <1>6 DEF RunsTriggers
    <2>2. QED
      BY <1>1, <2>1, PostingMoves DEF PostingInv
  <1>7. ASSUME NEW p \in Clients, CommitTransaction(p)
        PROVE  PostingInv(Statements)'
    <2>1. /\ rows' = rows \cup tx[p].own /\ \A q \in Clients \ {p} : tx'[q] = tx[q]
          /\ tx'[p].own = {} /\ tx'[p].todo = << >>
      BY <1>2, <1>7 DEF CommitTransaction, NoTransaction
    <2>2. Positive(tx'[p].own) /\ OneJournal(tx'[p].own \cup Sent(tx'[p].todo))
      BY <2>1, NothingSent DEF Positive, OneJournal
    <2>3. rows' \subseteq UNION Statements /\ Positive(rows')
      BY <1>2, <2>1 DEF PostingInv, Positive
    <2>4. QED
      BY <1>1, <2>1, <2>2, <2>3 DEF PostingInv
  <1>8. QED
    BY <1>3, <1>4, <1>5, <1>6, <1>7 DEF SchemaNext
-----------------------------------------------------------------------------
(* The keys of two rows of one table that name the same thing meet.        *)
LEMMA JournalsShareKeys ==
  ASSUME NEW i, NEW j, i.table = "journal", j.table = "journal",
         i.journal_id = j.journal_id \/ KeyOf(i) = KeyOf(j)
  PROVE  Keys(i) \cap Keys(j) # {}
  <1>1. Keys(i) = JournalKeys(i) /\ Keys(j) = JournalKeys(j)
    BY DEF Keys
  <1>2. CASE i.journal_id = j.journal_id
    BY <1>1, <1>2 DEF JournalKeys
  <1>3. CASE KeyOf(i) = KeyOf(j)
    <2>1. i.legal_entity_id = j.legal_entity_id /\ i.idempotency_key = j.idempotency_key
      BY <1>3 DEF KeyOf
    <2>2. QED
      BY <1>1, <2>1 DEF JournalKeys
  <1>4. QED
    BY <1>2, <1>3

LEMMA EntriesShareKeys ==
  ASSUME NEW e, NEW f, e.table = "entry", f.table = "entry", e.entry_id = f.entry_id
  PROVE  Keys(e) \cap Keys(f) # {}
  <1>1. Keys(e) = EntryKeys(e) /\ Keys(f) = EntryKeys(f)
    BY DEF Keys
  <1>2. QED
    BY <1>1 DEF EntryKeys

(* What a commit adds to the table: nothing of a journal that was there,   *)
(* and nothing without a journal row of its own.                           *)
LEMMA OwnBelongsToNew ==
  ASSUME NEW R, NEW own, IsFiniteSet(R), IsFiniteSet(own), Unique(R),
         KeysOf(own) \cap KeysOf(R) = {},
         \A r \in R : AssertJournalComplete(r.journal_id, R),
         \A r \in own : AssertJournalComplete(r.journal_id, R \cup own),
         NEW e \in In(own, "entry")
  PROVE  \E j \in In(own, "journal") : j.journal_id = e.journal_id
  <1>1. e \in own /\ e.table = "entry"
    BY DEF In
  <1>2. PICK j \in Of(R \cup own, "journal", e.journal_id) : TRUE
    BY <1>1 DEF AssertJournalComplete
  <1>3. CASE j \in own
    BY <1>2, <1>3 DEF Of, In
  <1>4. CASE j \in R
    <2>1. AssertJournalComplete(e.journal_id, R)
      BY <1>2, <1>4 DEF Of, In
    <2>2. R \cup {} = R /\ KeysOf({}) = {}
      BY NoKeys
    <2>3. /\ KeysOf({}) \cap KeysOf(R) = {} /\ KeysOf({}) \cap KeysOf(own) = {}
          /\ AssertJournalComplete(e.journal_id, R \cup {})
      BY <2>1, <2>2
    <2>4. Of(own, "entry", e.journal_id) = {}
      BY ONLY IsFiniteSet(R), IsFiniteSet(own), Unique(R), KeysOf(own) \cap KeysOf(R) = {},
              \A r \in R : AssertJournalComplete(r.journal_id, R),
              \A r \in own : AssertJournalComplete(r.journal_id, R \cup own),
              <2>3, NoSharedJournal
    <2>5. QED
      BY <1>1, <2>4 DEF Of, In
  <1>5. QED
    BY <1>2, <1>3, <1>4 DEF Of, In

(* The ledger the rows of a table stand for.                               *)
AcceptedIn(R, j) ==
  [command |-> CommandWith(j, Of(R, "entry", j.journal_id)), accepted_at |-> j.accepted_at]

LEMMA AcceptedInRows == \A j : AcceptedOf(j) = AcceptedIn(rows, j)
  BY DEF AcceptedOf, CommandOf, AcceptedIn, CommandWith, EntriesOf

LEMMA AcceptedInRowsAfter == \A j : AcceptedOf(j)' = AcceptedIn(rows', j)
  BY DEF AcceptedOf, CommandOf, AcceptedIn, CommandWith, EntriesOf, Of, In, EntryOf
-----------------------------------------------------------------------------
(* A table R of complete journals, and what a transaction adds to it.      *)
Commits(R, own) ==
  /\ IsFiniteSet(R) /\ IsFiniteSet(own)
  /\ Unique(R) /\ Unique(own) /\ KeysOf(own) \cap KeysOf(R) = {}
  /\ \A r \in R : AssertJournalComplete(r.journal_id, R)
  /\ \A r \in own : AssertJournalComplete(r.journal_id, R \cup own)

Adds(R, own, j) ==
  /\ In(R \cup own, "journal") = In(R, "journal") \cup {j}
  /\ In(R \cup own, "entry") = In(R, "entry") \cup In(own, "entry")
  /\ \A i \in In(R, "journal") : /\ i.journal_id # j.journal_id
                                 /\ KeyOf(i) # KeyOf(j)
                                 /\ Of(R \cup own, "entry", i.journal_id) =
                                      Of(R, "entry", i.journal_id)
  /\ Of(R \cup own, "entry", j.journal_id) = In(own, "entry")
  /\ DistinctRows(In(own, "entry"))
  /\ \A e \in In(own, "entry"), f \in In(R, "entry") : e.entry_id # f.entry_id
  /\ JournalComplete(j, R \cup own)

(* A commit with a journal adds that journal, and entries of no other.     *)
LEMMA OneMore ==
  ASSUME NEW R, NEW own, Commits(R, own), OneJournal(own), NEW j \in In(own, "journal")
  PROVE  Adds(R, own, j)
  <1>1. j \in own /\ j.table = "journal"
    BY DEF In
  <1>2. In(own, "journal") = {j}
    BY <1>1 DEF In, OneJournal
  <1>3. /\ In(R \cup own, "journal") = In(R, "journal") \cup {j}
        /\ In(R \cup own, "entry") = In(R, "entry") \cup In(own, "entry")
    BY <1>2 DEF In
  <1>4. ASSUME NEW i \in In(R, "journal")
        PROVE  i.journal_id # j.journal_id /\ KeyOf(i) # KeyOf(j)
    <2>1. i \in R /\ i.table = "journal"
      BY DEF In
    <2>2. Keys(j) \cap Keys(i) = {}
      BY <1>1, <2>1, KeysMeet DEF Commits
    <2>3. QED
      BY <1>1, <2>1, <2>2, JournalsShareKeys
  <1>5. ASSUME NEW e \in In(own, "entry")
        PROVE  e.journal_id = j.journal_id
    <2>1. /\ IsFiniteSet(R) /\ IsFiniteSet(own) /\ Unique(R)
          /\ KeysOf(own) \cap KeysOf(R) = {}
          /\ \A r \in R : AssertJournalComplete(r.journal_id, R)
          /\ \A r \in own : AssertJournalComplete(r.journal_id, R \cup own)
          /\ e \in In(own, "entry")
      BY DEF Commits
    <2>2. \E i \in In(own, "journal") : i.journal_id = e.journal_id
      BY ONLY <2>1, OwnBelongsToNew
    <2>3. QED
      BY <1>2, <2>2
  <1>6. ASSUME NEW f \in In(R, "entry")
        PROVE  \E i \in In(R, "journal") : i.journal_id = f.journal_id
    <2>1. AssertJournalComplete(f.journal_id, R)
      BY DEF Commits, In
    <2>2. QED
      BY <2>1 DEF AssertJournalComplete, Of
  <1>7. Of(R \cup own, "entry", j.journal_id) = In(own, "entry")
    <2>1. \A f \in In(R, "entry") : f.journal_id # j.journal_id
      BY <1>4, <1>6
    <2>2. QED
      BY <1>3, <1>5, <2>1 DEF Of
  <1>8. \A i \in In(R, "journal") :
          Of(R \cup own, "entry", i.journal_id) = Of(R, "entry", i.journal_id)
    BY <1>3, <1>4, <1>5 DEF Of
  <1>9. DistinctRows(In(own, "entry"))
    <2> SUFFICES ASSUME NEW e \in In(own, "entry"), NEW f \in In(own, "entry"),
                        e.entry_id = f.entry_id
                 PROVE  e = f
      BY DEF DistinctRows
    <2>1. e \in own /\ f \in own /\ e.table = "entry" /\ f.table = "entry"
      BY DEF In
    <2>2. Keys(e) \cap Keys(f) # {}
      BY <2>1, EntriesShareKeys
    <2>3. QED
      BY <2>1, <2>2 DEF Commits, Unique
  <1>10. ASSUME NEW e \in In(own, "entry"), NEW f \in In(R, "entry")
         PROVE  e.entry_id # f.entry_id
    <2>1. e \in own /\ f \in R /\ e.table = "entry" /\ f.table = "entry"
      BY DEF In
    <2>2. Keys(e) \cap Keys(f) = {}
      BY <2>1, KeysMeet DEF Commits
    <2>3. QED
      BY <2>1, <2>2, EntriesShareKeys
  <1>11. JournalComplete(j, R \cup own)
    <2>1. PICK k \in Of(R \cup own, "journal", j.journal_id) : JournalComplete(k, R \cup own)
      BY <1>1 DEF Commits, AssertJournalComplete
    <2>2. k \in In(R, "journal") \cup {j} /\ k.journal_id = j.journal_id
      BY <1>3 DEF Of
    <2>3. QED
      BY <1>4, <2>1, <2>2
  <1>12. QED
    BY <1>3, <1>4, <1>7, <1>8, <1>9, <1>10, <1>11 DEF Adds

(* A commit without a journal adds no entry either.                        *)
LEMMA NoneMore ==
  ASSUME NEW R, NEW own, Commits(R, own), In(own, "journal") = {}
  PROVE  /\ In(R \cup own, "journal") = In(R, "journal")
         /\ In(R \cup own, "entry") = In(R, "entry")
  <1>1. In(own, "entry") = {}
    <2> SUFFICES ASSUME NEW e \in In(own, "entry") PROVE FALSE
      OBVIOUS
    <2>1. /\ IsFiniteSet(R) /\ IsFiniteSet(own) /\ Unique(R)
          /\ KeysOf(own) \cap KeysOf(R) = {}
          /\ \A r \in R : AssertJournalComplete(r.journal_id, R)
          /\ \A r \in own : AssertJournalComplete(r.journal_id, R \cup own)
          /\ e \in In(own, "entry")
      BY DEF Commits
    <2>2. \E i \in In(own, "journal") : i.journal_id = e.journal_id
      BY ONLY <2>1, OwnBelongsToNew
    <2>3. QED
      BY <2>2
  <1>2. QED
    BY <1>1 DEF In

(* The ledger a table stands for.                                          *)
JournalsIn(R) == {AcceptedIn(R, i) : i \in In(R, "journal")}

EntryIdsIn(R) == {e.entry_id : e \in In(R, "entry")}

IdempotencyIn(R) ==
  [k \in {KeyOf(i) : i \in In(R, "journal")} |->
     AcceptedIn(R, CHOOSE i \in In(R, "journal") : KeyOf(i) = k)]

(* The mapped variables, before and after a step.                          *)
LEMMA MappedNow ==
  /\ {AcceptedOf(j) : j \in In(rows, "journal")} = JournalsIn(rows)
  /\ {e.entry_id : e \in In(rows, "entry")} = EntryIdsIn(rows)
  /\ [k \in {KeyOf(j) : j \in In(rows, "journal")} |->
        AcceptedOf(CHOOSE j \in In(rows, "journal") : KeyOf(j) = k)] = IdempotencyIn(rows)
  BY AcceptedInRows DEF JournalsIn, EntryIdsIn, IdempotencyIn

LEMMA MappedAfter ==
  /\ {AcceptedOf(j) : j \in In(rows, "journal")}' = JournalsIn(rows')
  /\ {e.entry_id : e \in In(rows, "entry")}' = EntryIdsIn(rows')
  /\ [k \in {KeyOf(j) : j \in In(rows, "journal")} |->
        AcceptedOf(CHOOSE j \in In(rows, "journal") : KeyOf(j) = k)]' = IdempotencyIn(rows')
  BY DEF JournalsIn, EntryIdsIn, IdempotencyIn, AcceptedOf, CommandOf, AcceptedIn,
         CommandWith, EntriesOf, Of, In, EntryOf, KeyOf

LEMMA KeysTell ==
  ASSUME NEW R, Unique(R), NEW i \in In(R, "journal"), NEW j \in In(R, "journal"),
         i.journal_id = j.journal_id \/ KeyOf(i) = KeyOf(j)
  PROVE  i = j
  <1>1. i \in R /\ j \in R /\ i.table = "journal" /\ j.table = "journal"
    BY DEF In
  <1>2. Keys(i) \cap Keys(j) # {}
    BY <1>1, JournalsShareKeys
  <1>3. QED
    BY <1>1, <1>2 DEF Unique

LEMMA ChosenByKey ==
  ASSUME NEW R, Unique(R), NEW i \in In(R, "journal")
  PROVE  (CHOOSE j \in In(R, "journal") : KeyOf(j) = KeyOf(i)) = i
  <1>1. \A j \in In(R, "journal") : KeyOf(j) = KeyOf(i) => j = i
    BY KeysTell
  <1>2. QED
    BY <1>1

LEMMA AnsweredIn ==
  ASSUME NEW R, Unique(R), NEW i \in In(R, "journal")
  PROVE  /\ KeyOf(i) \in DOMAIN IdempotencyIn(R)
         /\ IdempotencyIn(R)[KeyOf(i)] = AcceptedIn(R, i)
  <1> DEFINE f == IdempotencyIn(R)
  <1>1. DOMAIN f = {KeyOf(k) : k \in In(R, "journal")}
    BY DEF IdempotencyIn
  <1>2. KeyOf(i) \in {KeyOf(k) : k \in In(R, "journal")}
    OBVIOUS
  <1>3. f[KeyOf(i)] = AcceptedIn(R, CHOOSE j \in In(R, "journal") : KeyOf(j) = KeyOf(i))
    BY <1>2 DEF IdempotencyIn
  <1>4. QED
    BY <1>1, <1>2, <1>3, ChosenByKey
-----------------------------------------------------------------------------
(* The three variables after a commit with a journal.                      *)
LEMMA JournalsGrow ==
  ASSUME NEW R, NEW own, Commits(R, own), OneJournal(own), NEW j \in In(own, "journal"),
         NEW c, c = CommandWith(j, In(own, "entry"))
  PROVE  JournalsIn(R \cup own) =
           JournalsIn(R) \cup {[command |-> c, accepted_at |-> j.accepted_at]}
  <1>0. Adds(R, own, j)
    BY OneMore
  <1> DEFINE N == R \cup own
  <1>1. /\ In(N, "journal") = In(R, "journal") \cup {j}
        /\ \A i \in In(R, "journal") : Of(N, "entry", i.journal_id) = Of(R, "entry", i.journal_id)
        /\ Of(N, "entry", j.journal_id) = In(own, "entry")
    BY <1>0 DEF Adds, N
  <1> HIDE DEF N
  <1>2. \A i \in In(R, "journal") : AcceptedIn(N, i) = AcceptedIn(R, i)
    BY <1>1 DEF AcceptedIn
  <1>3. AcceptedIn(N, j) = [command |-> c, accepted_at |-> j.accepted_at]
    BY <1>1 DEF AcceptedIn
  <1>4. JournalsIn(N) = JournalsIn(R) \cup {[command |-> c, accepted_at |-> j.accepted_at]}
    BY <1>1, <1>2, <1>3 DEF JournalsIn
  <1>5. QED
    BY <1>4 DEF N

LEMMA EntryIdsGrow ==
  ASSUME NEW R, NEW own, Commits(R, own), OneJournal(own), NEW j \in In(own, "journal"),
         NEW c, c = CommandWith(j, In(own, "entry"))
  PROVE  /\ EntryIdsIn(R \cup own) = EntryIdsIn(R) \cup {x.entry_id : x \in c.entries}
         /\ EntryIdsIn(R) \cap {x.entry_id : x \in c.entries} = {}
  <1>1. /\ In(R \cup own, "entry") = In(R, "entry") \cup In(own, "entry")
        /\ \A e \in In(own, "entry"), f \in In(R, "entry") : e.entry_id # f.entry_id
    BY OneMore DEF Adds
  <1>2. c.entries = EntriesOf(In(own, "entry"))
    BY DEF CommandWith
  <1>3. {x.entry_id : x \in c.entries} = {e.entry_id : e \in In(own, "entry")}
    BY <1>2, EntryFields DEF EntriesOf
  <1>4. QED
    BY <1>1, <1>3 DEF EntryIdsIn

LEMMA IdempotencyGrows ==
  ASSUME NEW R, NEW own, Commits(R, own), OneJournal(own), NEW j \in In(own, "journal"),
         NEW c, c = CommandWith(j, In(own, "entry"))
  PROVE  /\ IdempotencyIn(R \cup own) =
              Put(IdempotencyIn(R), KeyOf(j), [command |-> c, accepted_at |-> j.accepted_at])
         /\ KeyOf(j) \notin DOMAIN IdempotencyIn(R)
  <1>0. Adds(R, own, j)
    BY OneMore
  <1> DEFINE N == R \cup own
             new == [command |-> c, accepted_at |-> j.accepted_at]
             f == IdempotencyIn(R)
             g == IdempotencyIn(N)
  <1>1. /\ In(N, "journal") = In(R, "journal") \cup {j}
        /\ \A i \in In(R, "journal") :
             KeyOf(i) # KeyOf(j) /\ Of(N, "entry", i.journal_id) = Of(R, "entry", i.journal_id)
        /\ Of(N, "entry", j.journal_id) = In(own, "entry")
    BY <1>0 DEF Adds, N
  <1>2. Unique(R) /\ Unique(N)
    BY UniqueUnion DEF Commits
  <1> HIDE DEF N
  <1>3. /\ DOMAIN f = {KeyOf(k) : k \in In(R, "journal")}
        /\ DOMAIN g = {KeyOf(k) : k \in In(N, "journal")}
        /\ g = [k \in DOMAIN g |-> g[k]]
    BY DEF IdempotencyIn
  <1>4. DOMAIN g = DOMAIN f \cup {KeyOf(j)} /\ KeyOf(j) \notin DOMAIN f
    BY <1>1, <1>3
  <1>5. g[KeyOf(j)] = new
    <2>1. g[KeyOf(j)] = AcceptedIn(N, j)
      BY <1>1, <1>2, AnsweredIn
    <2>2. QED
      BY <1>1, <2>1 DEF AcceptedIn
  <1>6. ASSUME NEW k \in DOMAIN f
        PROVE  g[k] = f[k] /\ k # KeyOf(j)
    <2>1. PICK i \in In(R, "journal") : k = KeyOf(i)
      BY <1>3
    <2>2. f[KeyOf(i)] = AcceptedIn(R, i)
      BY <1>2, AnsweredIn
    <2>3. g[KeyOf(i)] = AcceptedIn(N, i)
      BY <1>1, <1>2, AnsweredIn
    <2>4. AcceptedIn(N, i) = AcceptedIn(R, i)
      BY <1>1 DEF AcceptedIn
    <2>5. QED
      BY <1>4, <2>1, <2>2, <2>3, <2>4
  <1> HIDE DEF f, g, new
  <1>7. g = [k \in DOMAIN f \cup {KeyOf(j)} |-> IF k = KeyOf(j) THEN new ELSE f[k]]
    BY <1>3, <1>4, <1>5, <1>6
  <1>8. QED
    BY <1>4, <1>7 DEF Put, f, g, new, N

(* The journals committed so far are as many as their ids, and fewer than  *)
(* the ids the transactions may bring.                                     *)
JournalIds(Statements) == {r.journal_id : r \in In(UNION Statements, "journal")}

LEMMA RoomForOne ==
  ASSUME NEW Statements, NEW R, R \subseteq UNION Statements, Unique(R),
         IsFiniteSet(JournalIds(Statements)), MaxJournals \in Nat,
         Cardinality(JournalIds(Statements)) <= MaxJournals,
         NEW j \in In(UNION Statements, "journal"),
         \A i \in In(R, "journal") : i.journal_id # j.journal_id
  PROVE  Cardinality(JournalsIn(R)) < MaxJournals
  <1> DEFINE ids == JournalIds(Statements) \ {j.journal_id}
             id == [x \in JournalsIn(R) |-> x.command.journal_id]
  <1>1. j.journal_id \in JournalIds(Statements)
    BY DEF JournalIds
  <1>2. IsFiniteSet(ids) /\ Cardinality(ids) < MaxJournals
    <2>1. /\ IsFiniteSet(ids)
          /\ Cardinality(ids) = Cardinality(JournalIds(Statements)) - 1
      BY <1>1, FS_RemoveElement
    <2>2. Cardinality(JournalIds(Statements)) \in Nat
      BY FS_CardinalityType
    <2>3. QED
      BY <2>1, <2>2
  <1>3. ASSUME NEW x \in JournalsIn(R)
        PROVE  \E i \in In(R, "journal") : x = AcceptedIn(R, i) /\ x.command.journal_id = i.journal_id
    <2>1. PICK i \in In(R, "journal") : x = AcceptedIn(R, i)
      BY DEF JournalsIn
    <2>2. x.command.journal_id = i.journal_id
      BY <2>1 DEF AcceptedIn, CommandWith
    <2>3. QED
      BY <2>1, <2>2
  <1>4. \A i \in In(R, "journal") : i.journal_id \in ids
    BY DEF JournalIds, In
  <1>5. id \in Injection(JournalsIn(R), ids)
    <2>1. \A x \in JournalsIn(R) : x.command.journal_id \in ids
      BY <1>3, <1>4
    <2>2. id \in [JournalsIn(R) -> ids]
      BY <2>1
    <2>3. \A x, y \in JournalsIn(R) : id[x] = id[y] => x = y
      <3> SUFFICES ASSUME NEW x \in JournalsIn(R), NEW y \in JournalsIn(R),
                          x.command.journal_id = y.command.journal_id
                   PROVE  x = y
        OBVIOUS
      <3>1. PICK i \in In(R, "journal") : x = AcceptedIn(R, i) /\ x.command.journal_id = i.journal_id
        BY <1>3
      <3>2. PICK k \in In(R, "journal") : y = AcceptedIn(R, k) /\ y.command.journal_id = k.journal_id
        BY <1>3
      <3>3. i = k
        BY <3>1, <3>2, KeysTell
      <3>4. QED
        BY <3>1, <3>2, <3>3
    <2>4. QED
      BY <2>2, <2>3 DEF Injection, IsInjective
  <1> HIDE DEF ids, id
  <1>6. IsFiniteSet(JournalsIn(R)) /\ Cardinality(JournalsIn(R)) <= Cardinality(ids)
    BY <1>2, <1>5, FS_Injection
  <1>7. QED
    BY <1>2, <1>6, FS_CardinalityType
-----------------------------------------------------------------------------
(* What the statements may be for the memory ledger to follow them: whole  *)
(* minor units, and no more journals than it has room for.                 *)
Followed(Statements) ==
  /\ \A stmt \in Statements : \A r \in stmt : r.table = "entry" => r.amount \in Int
  /\ IsFiniteSet(JournalIds(Statements)) /\ MaxJournals \in Nat
  /\ Cardinality(JournalIds(Statements)) <= MaxJournals

LEMMA CommitsOf ==
  ASSUME NEW Statements, PostingInv(Statements), NEW q \in Clients, CommitTransaction(q)
  PROVE  Commits(rows, tx[q].own) /\ OneJournal(tx[q].own)
  <1>1. tx[q].status = "checked"
    BY DEF CommitTransaction
  <1>2. RowsFinite /\ KeysHeldOnce /\ CheckedComplete /\ CommittedJournalsComplete
    BY DEF PostingInv, SchemaInv
  <1>3. OneJournal(tx[q].own)
    BY DEF PostingInv, OneJournal
  <1>4. IsFiniteSet(rows) /\ IsFiniteSet(tx[q].own)
    BY <1>2 DEF RowsFinite
  <1>5. Unique(rows) /\ Unique(tx[q].own) /\ KeysOf(tx[q].own) \cap KeysOf(rows) = {}
    BY <1>2 DEF KeysHeldOnce
  <1>6. /\ \A r \in rows : AssertJournalComplete(r.journal_id, rows)
        /\ \A r \in tx[q].own : AssertJournalComplete(r.journal_id, rows \cup tx[q].own)
    BY <1>1, <1>2 DEF CheckedComplete, CommittedJournalsComplete
  <1>7. QED
    BY <1>3, <1>4, <1>5, <1>6 DEF Commits

LEMMA CommandParts ==
  ASSUME NEW j, NEW E, NEW c, c = CommandWith(j, E)
  PROVE  /\ c.journal_id = j.journal_id
         /\ <<c.legal_entity_id, c.idempotency_key>> = KeyOf(j)
  BY DEF CommandWith, KeyOf

(* The command a journal of the transaction stands for is acceptable.      *)
LEMMA CommandAcceptable ==
  ASSUME NEW Statements, Followed(Statements), PostingInv(Statements),
         NEW q \in Clients, CommitTransaction(q), NEW j \in In(tx[q].own, "journal"),
         NEW c, c = CommandWith(j, In(tx[q].own, "entry"))
  PROVE  Memory!Acceptable(c)
  <1> DEFINE own == tx[q].own
             E == In(own, "entry")
  <1>1. Commits(rows, own) /\ OneJournal(own)
    BY CommitsOf
  <1>2. own \subseteq UNION Statements /\ rows \subseteq UNION Statements
    BY DEF PostingInv, SchemaInv, TransactionsTyped
  <1>3. \A e \in E : e.amount > 0 /\ e.amount \in Int
    <2>1. \A e \in E : e \in own /\ e.table = "entry"
      BY DEF In
    <2>2. \A e \in E : e.amount > 0
      BY <2>1 DEF PostingInv, Positive
    <2>3. \A e \in E : e.amount \in Int
      BY <1>2, <2>1 DEF Followed
    <2>4. QED
      BY <2>2, <2>3
  <1>4. Legs(E)
    <2>1. IsFiniteSet(own)
      BY <1>1 DEF Commits
    <2>2. E \in SUBSET own
      BY DEF In
    <2>3. IsFiniteSet(E)
      BY <2>1, <2>2, FS_Subset
    <2>4. QED
      BY <1>3, <2>3 DEF Legs
  <1>5. j \in In(own, "journal") /\ c = CommandWith(j, E)
    OBVIOUS
  <1>6. j \in In(UNION Statements, "journal")
    BY <1>2 DEF In
  <1> HIDE DEF own
  <1>7. Adds(rows, own, j)
    BY ONLY <1>1, <1>5, OneMore
  <1>8. /\ EntryIdsIn(rows) \cap {x.entry_id : x \in c.entries} = {}
        /\ KeyOf(j) \notin DOMAIN IdempotencyIn(rows)
    BY ONLY <1>1, <1>5, EntryIdsGrow, IdempotencyGrows
  <1> HIDE DEF E
  <1>9. Memory!ValidCommand(c)
    <2>1. /\ JournalComplete(j, rows \cup own) /\ E = Of(rows \cup own, "entry", j.journal_id)
          /\ Legs(E) /\ DistinctRows(E) /\ \A e \in E : e.amount > 0
      BY <1>3, <1>4, <1>7 DEF Adds, E
    <2>2. Memory!ValidCommand(CommandWith(j, E))
      BY ONLY <2>1, CompleteIsValid
    <2>3. QED
      BY <1>5, <2>2
  <1>10. \A x \in JournalsIn(rows) : x.command.journal_id # c.journal_id
    <2> SUFFICES ASSUME NEW x \in JournalsIn(rows) PROVE x.command.journal_id # j.journal_id
      BY <1>5, CommandParts
    <2>1. PICK i \in In(rows, "journal") : x = AcceptedIn(rows, i)
      BY DEF JournalsIn
    <2>2. x.command.journal_id = i.journal_id
      BY <2>1 DEF AcceptedIn, CommandWith
    <2>3. QED
      BY <1>7, <2>2 DEF Adds
  <1>11. Cardinality(JournalsIn(rows)) < MaxJournals
    <2>1. /\ rows \subseteq UNION Statements /\ Unique(rows)
          /\ IsFiniteSet(JournalIds(Statements)) /\ MaxJournals \in Nat
          /\ Cardinality(JournalIds(Statements)) <= MaxJournals
          /\ j \in In(UNION Statements, "journal")
          /\ \A i \in In(rows, "journal") : i.journal_id # j.journal_id
      BY <1>1, <1>2, <1>6, <1>7 DEF Commits, Followed, Adds
    <2>2. QED
      BY ONLY <2>1, RoomForOne
  <1>12. <<c.legal_entity_id, c.idempotency_key>> = KeyOf(j)
    BY <1>5, CommandParts
  <1>13. Memory!Cardinality(JournalsIn(rows)) < MaxJournals
    BY <1>11, MemoryOperators
  <1>14. QED
    BY <1>8, <1>9, <1>10, <1>12, <1>13, MappedNow
       DEF Memory!Acceptable, Memory!Identity, Memory!EntryIds

(* A commit is one more command the memory ledger accepts.                 *)
LEMMA CommitAccepts ==
  ASSUME NEW Statements, Followed(Statements), PostingInv(Statements),
         NEW q \in Clients, CommitTransaction(q), NEW j \in In(tx[q].own, "journal")
  PROVE  Memory!AcceptsOne
  <1>1. Commits(rows, tx[q].own) /\ OneJournal(tx[q].own)
    BY CommitsOf
  <1>2. rows' = rows \cup tx[q].own
    BY DEF CommitTransaction
  <1>3. PICK c : c = CommandWith(j, In(tx[q].own, "entry"))
    OBVIOUS
  <1>4. PICK new : new = [command |-> c, accepted_at |-> j.accepted_at]
    OBVIOUS
  <1>5. Memory!Acceptable(c)
    BY <1>3, CommandAcceptable
  <1>6. <<c.legal_entity_id, c.idempotency_key>> = KeyOf(j)
    BY <1>3, CommandParts
  <1>7. new.command = c /\ new.accepted_at = j.accepted_at
    BY <1>4
  <1>8. j \in In(tx[q].own, "journal")
    OBVIOUS
  <1>9. JournalsIn(rows') = JournalsIn(rows) \cup {new}
    BY ONLY <1>1, <1>2, <1>3, <1>8, <1>4, JournalsGrow
  <1>10. EntryIdsIn(rows') = EntryIdsIn(rows) \cup {x.entry_id : x \in c.entries}
    BY ONLY <1>1, <1>2, <1>3, <1>8, EntryIdsGrow
  <1>11. IdempotencyIn(rows') = Put(IdempotencyIn(rows), KeyOf(j), new)
    BY ONLY <1>1, <1>2, <1>3, <1>8, <1>4, IdempotencyGrows
  <1>12. Memory!Accept(c, j.accepted_at)
    BY <1>5, <1>6, <1>4, <1>9, <1>10, <1>11, MappedNow, MappedAfter
       DEF Memory!Accept, Memory!Accepted, Memory!EntryIds, Memory!Put, Put, Memory!Identity
  <1>13. new \in {AcceptedOf(i) : i \in In(rows, "journal")}'
    BY <1>9, MappedAfter
  <1>14. Memory!Accept(new.command, new.accepted_at)
    BY <1>7, <1>12
  <1>15. QED
    BY <1>13, <1>14 DEF Memory!AcceptsOne
-----------------------------------------------------------------------------
(* A step that leaves the journals and entries leaves the memory ledger.   *)
LEMMA NothingPosted ==
  ASSUME In(rows', "journal") = In(rows, "journal"), In(rows', "entry") = In(rows, "entry")
  PROVE  UNCHANGED Memory!ledgerVars
  <1>1. \A j : AcceptedIn(rows', j) = AcceptedIn(rows, j)
    BY DEF AcceptedIn, Of
  <1>2. /\ JournalsIn(rows') = JournalsIn(rows) /\ EntryIdsIn(rows') = EntryIdsIn(rows)
        /\ IdempotencyIn(rows') = IdempotencyIn(rows)
    BY <1>1 DEF JournalsIn, EntryIdsIn, IdempotencyIn
  <1>3. QED
    BY <1>2, MappedNow, MappedAfter DEF Memory!ledgerVars

LEMMA EmptyTable ==
  ASSUME SchemaInit
  PROVE  Memory!LedgerInit
  <1>1. In(rows, "journal") = {} /\ In(rows, "entry") = {}
    BY DEF SchemaInit, In
  <1>2. JournalsIn(rows) = {} /\ EntryIdsIn(rows) = {}
    BY <1>1 DEF JournalsIn, EntryIdsIn
  <1>3. IdempotencyIn(rows) = << >>
    BY <1>1 DEF IdempotencyIn
  <1>4. QED
    BY <1>2, <1>3, MappedNow DEF Memory!LedgerInit

LEMMA OnlyCommitsPost ==
  ASSUME NEW Statements, Followed(Statements), PostingInv(Statements), SchemaNext
  PROVE  [Memory!AcceptsOne]_(Memory!ledgerVars)
  <1>1. CASE rows' = rows
    BY <1>1, NothingPosted
  <1>2. ASSUME NEW q \in Clients, CommitTransaction(q)
        PROVE  [Memory!AcceptsOne]_(Memory!ledgerVars)
    <2>1. CASE In(tx[q].own, "journal") = {}
      <3>1. Commits(rows, tx[q].own) /\ rows' = rows \cup tx[q].own
        BY <1>2, CommitsOf DEF CommitTransaction
      <3>2. In(rows', "journal") = In(rows, "journal") /\ In(rows', "entry") = In(rows, "entry")
        BY <2>1, <3>1, NoneMore
      <3>3. QED
        BY <3>2, NothingPosted
    <2>2. CASE In(tx[q].own, "journal") # {}
      <3>1. PICK j \in In(tx[q].own, "journal") : TRUE
        BY <2>2
      <3>2. Memory!AcceptsOne
        BY <1>2, CommitAccepts
      <3>3. QED
        BY <3>2
    <2>3. QED
      BY <2>1, <2>2
  <1>3. QED
    BY <1>1, <1>2 DEF SchemaNext, Begin, InsertStatement, InsertFails, RunsTriggers,
                      TriggersFail, Abort

(* The schema does what post() of the in-memory ledger does: whatever      *)
(* transactions of at most one journal each interleave, every commit is    *)
(* one command that ledger would accept in the same state (validation,     *)
(* fresh journal id, idempotency key and entry ids), as long as the        *)
(* journals that may be sent fit its capacity.                             *)
THEOREM CommitsImplementPost ==
  ASSUME NEW Statements, \A stmt \in Statements : IsFiniteSet(stmt),
         Postings \subseteq Seq(Statements),
         \A posting \in Postings : OneJournal(Sent(posting)),
         Followed(Statements)
  PROVE  SchemaSpec => ImplementsMemoryLedger
  <1>1. SchemaInit => PostingInv(Statements) /\ Memory!LedgerInit
    BY PostingStart, EmptyTable
  <1>2. PostingInv(Statements) /\ [SchemaNext]_schemaVars => PostingInv(Statements)'
    <2> SUFFICES ASSUME PostingInv(Statements), [SchemaNext]_schemaVars
                 PROVE  PostingInv(Statements)'
      OBVIOUS
    <2>1. CASE UNCHANGED schemaVars
      <3>1. rows' = rows /\ tx' = tx
        BY <2>1 DEF schemaVars
      <3>2. SchemaInv(Statements)'
        BY <3>1, SchemaStays DEF PostingInv
      <3>3. QED
        BY <3>1, <3>2 DEF PostingInv
    <2>2. CASE SchemaNext
      BY <2>2, PostingStep
    <2>3. QED
      BY <2>1, <2>2
  <1>3. PostingInv(Statements) /\ [SchemaNext]_schemaVars => [Memory!AcceptsOne]_(Memory!ledgerVars)
    <2> SUFFICES ASSUME PostingInv(Statements), [SchemaNext]_schemaVars
                 PROVE  [Memory!AcceptsOne]_(Memory!ledgerVars)
      OBVIOUS
    <2>1. CASE UNCHANGED schemaVars
      BY <2>1, NothingPosted DEF schemaVars
    <2>2. CASE SchemaNext
      BY <2>2, OnlyCommitsPost
    <2>3. QED
      BY <2>1, <2>2
  <1>4. QED
    BY <1>1, <1>2, <1>3, PTL DEF SchemaSpec, ImplementsMemoryLedger, Memory!LedgerSpec
=============================================================================
