------------------------ MODULE JournalStore_proofs ------------------------
(***************************************************************************)
(* Proofs about the durable journal store, for every set of events and     *)
(* batches, every bound and any number of crashes.                         *)
(***************************************************************************)
EXTENDS JournalStore, SequenceTheorems, TLAPS

LEMMA StatementFacts ==
  ASSUME NEW st \in Statement
  PROVE  /\ st.first \in Nat \ {0}
         /\ st.events \in Batches
         /\ st.events \in Seq(Events)
         /\ Len(st.events) \in Nat \ {0}
         /\ LastSeq(st) \in Nat
         /\ LastSeq(st) >= st.first
  <1>1. st.first \in Nat \ {0} /\ st.events \in Batches
    BY DEF Statement
  <1>2. st.events \in Seq(Events) /\ st.events # << >>
    BY <1>1, BatchGrammar
  <1>3. Len(st.events) \in Nat \ {0}
    BY <1>2
  <1>4. QED
    BY <1>1, <1>2, <1>3 DEF LastSeq

(* The part of a statement the table lacks, appended or not, leaves a      *)
(* well-typed table.                                                       *)
LEMMA AppendTyped ==
  ASSUME db \in Seq(Events), NEW st \in Statement, AppendMatchingJournal(st)
  PROVE  /\ db' \in Seq(Events)
         /\ Len(db') >= Len(db)
         /\ \A k \in 1 .. Len(db) : db'[k] = db[k]
  <1>1. CASE Appendable(st) /\ LastSeq(st) > Len(db)
    <2>1. Len(db) - st.first + 2 \in 1 .. Len(st.events)
      BY <1>1, StatementFacts DEF Appendable, LastSeq
    <2>2. Unrecorded(st) \in Seq(Events)
      BY <2>1, StatementFacts DEF Unrecorded
    <2>3. db' = db \o Unrecorded(st)
      BY <1>1 DEF AppendMatchingJournal
    <2>4. QED
      BY <2>2, <2>3
  <1>2. CASE ~(Appendable(st) /\ LastSeq(st) > Len(db))
    BY <1>2 DEF AppendMatchingJournal
  <1>3. QED
    BY <1>1, <1>2

-----------------------------------------------------------------------------
(* Type correctness.                                                       *)

LEMMA FreshCallsTyped ==
  /\ NoLoad \in [phase : LoadPhases, left : Nat, covers : Nat,
                 rows : Seq(Events)]
  /\ NoClose \in [phase : ClosePhases, left : Nat, covers : Nat]
  <1>1. << >> \in Seq(Events) /\ "idle" \in LoadPhases /\ "open" \in ClosePhases
    BY DEF LoadPhases, ClosePhases
  <1>2. QED
    BY <1>1 DEF NoLoad, NoClose

LEMMA TypeInit == Init => TypeOK
  <1> SUFFICES ASSUME Init PROVE TypeOK
    OBVIOUS
  <1>1. /\ pool \in BOOLEAN /\ ready \in BOOLEAN /\ closed \in BOOLEAN
        /\ failure \in BOOLEAN /\ engine \in BOOLEAN
    BY Zenon DEF Init
  <1>2. db \in Seq(Events) /\ queue \in Seq(Statement) /\ journal \in Seq(Events)
    BY DEF Init
  <1>3. init \in InitStates
    BY DEF Init, InitStates
  <1>4. QED
    BY <1>1, <1>2, <1>3, FreshCallsTyped DEF Init, TypeOK

LEMMA OneLessTyped ==
  ASSUME TypeOK, OneWriteSettled
  PROVE  /\ load' \in [phase : LoadPhases, left : Nat, covers : Nat,
                       rows : Seq(Events)]
         /\ close' \in [phase : ClosePhases, left : Nat, covers : Nat]
  <1> DEFINE less(n) == IF n = 0 THEN 0 ELSE n - 1
  <1>1. \A n \in Nat : less(n) \in Nat
    OBVIOUS
  <1>2. load.left \in Nat /\ close.left \in Nat
    BY DEF TypeOK
  <1>3. /\ load' = [load EXCEPT !.left = less(load.left)]
        /\ close' = [close EXCEPT !.left = less(close.left)]
    BY DEF OneWriteSettled, OneLess
  <1> HIDE DEF less
  <1>4. QED
    BY <1>1, <1>2, <1>3 DEF TypeOK

LEMMA TypeNext == TypeOK /\ [Next]_vars => TypeOK'
  <1> SUFFICES ASSUME TypeOK, [Next]_vars
               PROVE  TypeOK'
    OBVIOUS
  <1> USE DEF TypeOK, InitStates, server, startup, tail, writer, calls
  <1>1. CASE InitializeStarts
    BY <1>1 DEF InitializeStarts
  <1>2. CASE AttachFreshEngine
    BY <1>2 DEF AttachFreshEngine
  <1>3. ASSUME NEW events \in Batches, AppendBatch(events)
        PROVE  TypeOK'
    <2>1. events \in Seq(Events)
      BY BatchGrammar
    <2>2. [first |-> Len(journal) + 1, events |-> events] \in Statement
      BY DEF Statement
    <2>3. queue' \in Seq(Statement) /\ journal' \in Seq(Events)
      BY <1>3, <2>1, <2>2 DEF AppendBatch
    <2>4. QED
      BY <1>3, <2>3 DEF AppendBatch
  <1>4. CASE LoadCalled
    <2>1. Pending \in Nat
      BY DEF Pending
    <2>2. "waiting" \in LoadPhases /\ Len(journal) \in Nat
      BY DEF LoadPhases
    <2>3. load' = [load EXCEPT !.phase = "waiting", !.left = Pending,
                               !.covers = Len(journal)]
      BY <1>4 DEF LoadCalled
    <2>4. load' \in [phase : LoadPhases, left : Nat, covers : Nat,
                     rows : Seq(Events)]
      BY <2>1, <2>2, <2>3
    <2>5. QED
      BY <1>4, <2>4 DEF LoadCalled
  <1>5. CASE CloseCalled
    <2>1. Pending \in Nat
      BY DEF Pending
    <2>2. QED
      BY <1>5, <2>1 DEF CloseCalled, ClosePhases
  <1>6. CASE Send
    <2>1. sent' \in Statement /\ queue' \in Seq(Statement)
      BY <1>6 DEF Send
    <2>2. QED
      BY <1>6, <2>1, StoreConstants DEF Send
  <1>7. CASE SendFails
    BY <1>7, OneLessTyped DEF SendFails
  <1>8. CASE ServerRuns
    BY <1>8, AppendTyped DEF ServerRuns
  <1>9. CASE ServerAborts
    BY <1>9 DEF ServerAborts
  <1>10. CASE Settle
    BY <1>10, OneLessTyped DEF Settle
  <1>11. CASE TimesOut
    BY <1>11, OneLessTyped DEF TimesOut, Unanswered
  <1>12. CASE CloseTakesPool
    BY <1>12 DEF CloseTakesPool, ClosePhases
  <1>13. CASE CloseSettles
    BY <1>13 DEF CloseSettles, ClosePhases
  <1>14. CASE InitializeCreatesPool
    BY <1>14 DEF InitializeCreatesPool
  <1>15. CASE InitializeEnds
    BY <1>15 DEF InitializeEnds
  <1>16. CASE InitializeFails
    BY <1>16 DEF InitializeFails
  <1>17. CASE OrphanRuns
    BY <1>17, AppendTyped DEF OrphanRuns
  <1>18. CASE OrphanDies
    BY <1>18 DEF OrphanDies
  <1>19. CASE LoadChecks
    BY <1>19 DEF LoadChecks, LoadPhases
  <1>20. CASE LoadReturns
    BY <1>20 DEF LoadReturns, LoadPhases
  <1>21. CASE LoadFails
    BY <1>21 DEF LoadFails, LoadPhases
  <1>22. CASE Crash
    <2>1. /\ load' \in [phase : LoadPhases, left : Nat, covers : Nat,
                        rows : Seq(Events)]
          /\ close' \in [phase : ClosePhases, left : Nat, covers : Nat]
      BY <1>22, FreshCallsTyped DEF Crash
    <2>2. orphans' \subseteq Statement /\ crashes' \in Nat
      BY <1>22 DEF Crash, Unanswered
    <2>3. /\ pool' \in BOOLEAN /\ ready' \in BOOLEAN /\ closed' \in BOOLEAN
          /\ failure' \in BOOLEAN /\ engine' \in BOOLEAN
      BY <1>22, Zenon DEF Crash
    <2>4. queue' \in Seq(Statement) /\ journal' \in Seq(Events)
      BY <1>22 DEF Crash
    <2>5. QED
      BY <1>22, <2>1, <2>2, <2>3, <2>4 DEF Crash
  <1>23. CASE UNCHANGED vars
    BY <1>23 DEF vars
  <1>24. QED
    BY <1>1, <1>2, <1>3, <1>4, <1>5, <1>6, <1>7, <1>8, <1>9, <1>10, <1>11,
       <1>12, <1>13, <1>14, <1>15, <1>16, <1>17, <1>18, <1>19, <1>20, <1>21,
       <1>22, <1>23 DEF Next, Calls, Progress

(* Every reachable state of the store is well typed.                       *)
THEOREM TypeCorrect == Spec => []TypeOK
  BY TypeInit, TypeNext, PTL DEF Spec

-----------------------------------------------------------------------------
(* Whole operations.  The strengthening: an event that can open an         *)
(* operation never stands in the table without the rest of its batch.      *)

BeginsBatch(k, b) ==
  /\ k + Len(b) - 1 <= Len(db)
  /\ \A j \in 1 .. Len(b) : db[k + j - 1] = b[j]

OpenersBeginBatches ==
  \A k \in 1 .. Len(db) :
    db[k] \in Openers => \E b \in Batches : BeginsBatch(k, b)

(* A statement that agrees with what is recorded and reaches past it       *)
(* starts right behind it: were its first event recorded, so would be a    *)
(* whole batch, and no batch continues another one.                        *)
LEMMA NoPartialOverlap ==
  ASSUME db \in Seq(Events), OpenersBeginBatches,
         NEW st \in Statement, Appendable(st), LastSeq(st) > Len(db)
  PROVE  st.first = Len(db) + 1 /\ Unrecorded(st) = st.events
  <1>1. CASE st.first <= Len(db)
    <2>1. db[st.first] = st.events[1] /\ st.events[1] \in Openers
      BY <1>1, StatementFacts, BatchGrammar DEF Appendable
    <2>2. PICK b \in Batches : BeginsBatch(st.first, b)
      BY <1>1, <2>1, StatementFacts DEF OpenersBeginBatches
    <2>3. b \in Seq(Events) /\ Len(b) \in Nat
      BY BatchGrammar
    <2>4. Len(b) < Len(st.events)
      BY <2>2, <2>3, StatementFacts DEF BeginsBatch, LastSeq
    <2>5. \A j \in 1 .. Len(b) : st.events[j] = b[j]
      <3> TAKE j \in 1 .. Len(b)
      <3>1. j \in 1 .. Len(st.events) /\ st.first + j - 1 <= Len(db)
        BY <2>2, <2>3, <2>4, StatementFacts DEF BeginsBatch
      <3>2. db[st.first + j - 1] = st.events[j]
        BY <3>1 DEF Appendable
      <3>3. QED
        BY <2>2, <3>2 DEF BeginsBatch
    <2>6. IsPrefixOf(b, st.events)
      BY <2>3, <2>4, <2>5, StatementFacts DEF IsPrefixOf
    <2>7. b = st.events
      BY <2>6, StatementFacts, BatchGrammar
    <2>8. QED
      BY <2>4, <2>7, StatementFacts
  <1>2. CASE st.first = Len(db) + 1
    BY <1>2, StatementFacts DEF Unrecorded
  <1>3. QED
    BY <1>1, <1>2, StatementFacts DEF Appendable

(* The append function records a whole batch or nothing.                   *)
LEMMA AppendIsWhole ==
  ASSUME db \in Seq(Events), OpenersBeginBatches,
         NEW st \in Statement, AppendMatchingJournal(st)
  PROVE  db' = db \/ db' = db \o st.events
  BY NoPartialOverlap DEF AppendMatchingJournal

LEMMA WholeBatchKeepsOpeners ==
  ASSUME db \in Seq(Events), OpenersBeginBatches,
         NEW events \in Batches, db' = db \o events
  PROVE  OpenersBeginBatches'
  <1>1. events \in Seq(Events) /\ Len(events) \in Nat \ {0}
    BY BatchGrammar
  <1>2. /\ Len(db') = Len(db) + Len(events)
        /\ \A k \in 1 .. Len(db) : db'[k] = db[k]
        /\ \A k \in 1 .. Len(events) : db'[Len(db) + k] = events[k]
    BY <1>1
  <1>3. SUFFICES ASSUME NEW k \in 1 .. Len(db'), db'[k] \in Openers
                 PROVE  \E b \in Batches : BeginsBatch(k, b)'
    BY DEF OpenersBeginBatches
  <1>4. CASE k <= Len(db)
    <2>1. PICK b \in Batches : BeginsBatch(k, b)
      BY <1>2, <1>3, <1>4 DEF OpenersBeginBatches
    <2>2. b \in Seq(Events) /\ Len(b) \in Nat
      BY BatchGrammar
    <2>3. BeginsBatch(k, b)'
      BY <1>2, <1>4, <2>1, <2>2 DEF BeginsBatch
    <2>4. QED
      BY <2>3
  <1>5. CASE k > Len(db)
    <2>1. k - Len(db) \in 1 .. Len(events) /\ db'[k] = events[k - Len(db)]
      BY <1>1, <1>2, <1>5
    <2>2. k = Len(db) + 1
      BY <1>1, <1>3, <1>5, <2>1, BatchGrammar
    <2>3. BeginsBatch(k, events)'
      BY <1>1, <1>2, <2>2 DEF BeginsBatch
    <2>4. QED
      BY <2>3
  <1>6. QED
    BY <1>4, <1>5

(* Only the append function ever writes to the table.                      *)
LEMMA DbSteps ==
  ASSUME TypeOK, [Next]_vars
  PROVE  \/ db' = db
         \/ \E st \in Statement : AppendMatchingJournal(st)
  <1> USE DEF server
  <1>1. CASE ServerRuns
    <2>1. sent \in Statement
      BY <1>1 DEF ServerRuns, TypeOK
    <2>2. QED
      BY <1>1, <2>1 DEF ServerRuns
  <1>2. CASE OrphanRuns
    BY <1>2 DEF OrphanRuns, TypeOK
  <1>3. CASE Calls
    BY <1>3 DEF Calls, InitializeStarts, AttachFreshEngine, AppendBatch,
                LoadCalled, CloseCalled
  <1>4. CASE \/ Send \/ SendFails \/ ServerAborts \/ Settle \/ TimesOut
             \/ CloseTakesPool \/ CloseSettles
    BY <1>4 DEF Send, SendFails, ServerAborts, Settle, TimesOut,
                CloseTakesPool, CloseSettles
  <1>5. CASE \/ InitializeCreatesPool \/ InitializeEnds \/ InitializeFails
             \/ OrphanDies \/ LoadChecks \/ LoadReturns \/ LoadFails \/ Crash
    BY <1>5 DEF InitializeCreatesPool, InitializeEnds, InitializeFails,
                OrphanDies, LoadChecks, LoadReturns, LoadFails, Crash
  <1>6. CASE UNCHANGED vars
    BY <1>6 DEF vars
  <1>7. QED
    BY <1>1, <1>2, <1>3, <1>4, <1>5, <1>6 DEF Next, Progress

LEMMA LogStep ==
  ASSUME TypeOK, OpenersBeginBatches, [Next]_vars
  PROVE  db' = db \/ \E batch \in Batches : db' = db \o batch
  <1>1. CASE \E st \in Statement : AppendMatchingJournal(st)
    BY <1>1, AppendIsWhole, StatementFacts DEF TypeOK
  <1>2. QED
    BY <1>1, DbSteps

LEMMA OpenersNext ==
  ASSUME TypeOK, OpenersBeginBatches, [Next]_vars
  PROVE  OpenersBeginBatches'
  <1>1. CASE db' = db
    BY <1>1 DEF OpenersBeginBatches, BeginsBatch
  <1>2. CASE \E batch \in Batches : db' = db \o batch
    BY <1>2, WholeBatchKeepsOpeners DEF TypeOK
  <1>3. QED
    BY <1>1, <1>2, LogStep

LEMMA OpenersAlways == Spec => []OpenersBeginBatches
  <1>1. Init => OpenersBeginBatches
    BY DEF Init, OpenersBeginBatches
  <1>2. TypeOK /\ OpenersBeginBatches /\ [Next]_vars => OpenersBeginBatches'
    BY OpenersNext
  <1>3. QED
    BY <1>1, <1>2, TypeCorrect, PTL DEF Spec

(* No interleaving of appends, redeliveries, timeouts, late statements and *)
(* crashes records a part of a batch, or changes or drops an event: the    *)
(* table is a log of whole operations.                                     *)
THEOREM TableLogsWholeOperations == Spec => RecordsWholeOperations
  <1>1. Init => Log!Init
    BY DEF Init, Log!Init
  <1>2. TypeOK /\ OpenersBeginBatches /\ [Next]_vars => [Log!Next]_db
    BY LogStep DEF Log!Next, Log!Record
  <1>3. QED
    BY <1>1, <1>2, TypeCorrect, OpenersAlways, PTL
       DEF Spec, RecordsWholeOperations, Log!Spec

-----------------------------------------------------------------------------
(* Durability.  The strengthening: the server answers "recorded" only of a *)
(* statement whose every event stands in the table.                        *)

AnswersAreTrue == reply = "recorded" => Recorded(sent)

DurableInv == ResolvedAppendsAreDurable /\ AnswersAreTrue

LEMMA RecordedStays ==
  ASSUME TypeOK, [Next]_vars, NEW st \in Statement, Recorded(st)
  PROVE  Recorded(st)'
  <1>1. /\ Len(db') >= Len(db) /\ Len(db') \in Nat /\ Len(db) \in Nat
        /\ \A k \in 1 .. Len(db) : db'[k] = db[k]
    BY DbSteps, AppendTyped DEF TypeOK
  <1>2. \A k \in 1 .. Len(st.events) : st.first + k - 1 \in 1 .. Len(db)
    BY <1>1, StatementFacts DEF Recorded, LastSeq
  <1>3. \A k \in 1 .. Len(st.events) : db'[st.first + k - 1] = st.events[k]
    BY <1>1, <1>2 DEF Recorded
  <1>4. LastSeq(st) <= Len(db')
    BY <1>1, StatementFacts DEF Recorded
  <1>5. QED
    BY <1>3, <1>4 DEF Recorded, LastSeq

LEMMA ConcatFacts ==
  ASSUME NEW S, NEW s \in Seq(S), NEW t \in Seq(S)
  PROVE  /\ s \o t \in Seq(S)
         /\ Len(s \o t) = Len(s) + Len(t)
         /\ \A k \in 1 .. Len(s) : (s \o t)[k] = s[k]
         /\ \A k \in 1 .. Len(t) : (s \o t)[Len(s) + k] = t[k]
  OBVIOUS

LEMMA AcceptedIsRecorded ==
  ASSUME db \in Seq(Events), OpenersBeginBatches,
         NEW st \in Statement, Appendable(st), AppendMatchingJournal(st)
  PROVE  Recorded(st)'
  <1>1. CASE LastSeq(st) <= Len(db)
    <2>1. db' = db
      BY <1>1, StatementFacts DEF AppendMatchingJournal
    <2>2. \A k \in 1 .. Len(st.events) : st.first + k - 1 <= Len(db)
      BY <1>1, StatementFacts DEF LastSeq
    <2>3. QED
      BY <1>1, <2>1, <2>2 DEF Appendable, Recorded, LastSeq
  <1>2. CASE LastSeq(st) > Len(db)
    <2>1. db' = db \o st.events /\ st.first = Len(db) + 1
      BY <1>2, NoPartialOverlap DEF AppendMatchingJournal
    <2>2. /\ Len(db') = LastSeq(st)
          /\ \A k \in 1 .. Len(st.events) : db'[Len(db) + k] = st.events[k]
      <3>1. st.events \in Seq(Events)
        BY StatementFacts
      <3>2. /\ Len(db') = Len(db) + Len(st.events)
            /\ \A k \in 1 .. Len(st.events) : db'[Len(db) + k] = st.events[k]
        BY <2>1, <3>1, ConcatFacts
      <3>3. Len(db) \in Nat /\ Len(st.events) \in Nat
        BY <3>1
      <3>4. LastSeq(st) = Len(db) + Len(st.events)
        <4>1. st.first = Len(db) + 1
          BY <2>1
        <4>2. \A m, n \in Nat : (m + 1) + n - 1 = m + n
          OBVIOUS
        <4>3. QED
          BY <3>3, <4>1, <4>2 DEF LastSeq
      <3>5. QED
        BY <3>2, <3>4
    <2>3. \A k \in 1 .. Len(st.events) : st.first + k - 1 = Len(db) + k
      BY <2>1, StatementFacts
    <2>4. \A k \in 1 .. Len(st.events) : db'[st.first + k - 1] = st.events[k]
      BY <2>2, <2>3
    <2>5. LastSeq(st) <= Len(db')
      BY <2>2, StatementFacts
    <2>6. QED
      BY <2>4, <2>5 DEF Recorded, LastSeq
  <1>3. QED
    BY <1>1, <1>2, StatementFacts

LEMMA DurableNext ==
  ASSUME TypeOK, OpenersBeginBatches, DurableInv, [Next]_vars
  PROVE  DurableInv'
  <1> USE DEF DurableInv, ResolvedAppendsAreDurable, AnswersAreTrue
  <1>1. acked \subseteq Statement /\ sent \in Statement \cup {Null}
        /\ (sent = Null => reply = Null) /\ Null # "recorded"
    BY StoreConstants DEF TypeOK
  <1>2. ASSUME reply = "recorded"
        PROVE  sent \in Statement /\ \A st \in {sent} : Recorded(st)'
    <2>1. sent \in Statement /\ Recorded(sent)
      BY <1>1, <1>2
    <2>2. \A st \in {sent} : Recorded(st)'
      BY <2>1, RecordedStays
    <2>3. QED
      BY <2>1, <2>2
  <1>3. \A st \in acked : Recorded(st)'
    BY <1>1, RecordedStays
  <1>4. CASE ServerRuns
    <2>1. sent \in Statement /\ sent' = sent /\ acked' = acked
      BY <1>1, <1>4 DEF ServerRuns, calls
    <2>2. ASSUME reply' = "recorded"
          PROVE  \A st \in {sent} : Recorded(st)'
      BY <1>4, <2>1, <2>2, AcceptedIsRecorded DEF ServerRuns, TypeOK
    <2>3. QED
      BY <1>3, <2>1, <2>2
  <1>5. CASE ServerAborts
    BY <1>3, <1>5 DEF ServerAborts
  <1>6. CASE Settle
    BY <1>1, <1>2, <1>3, <1>6 DEF Settle
  <1>7. CASE TimesOut \/ Crash
    BY <1>1, <1>3, <1>7 DEF TimesOut, Crash
  <1>8. CASE UNCHANGED <<sent, reply, acked>>
    BY <1>2, <1>3, <1>8
  <1>9. CASE Send
    BY <1>1, <1>3, <1>9 DEF Send
  <1>10. CASE \/ Calls \/ SendFails \/ CloseTakesPool \/ CloseSettles
              \/ InitializeCreatesPool \/ InitializeEnds \/ InitializeFails
              \/ OrphanRuns \/ OrphanDies \/ LoadChecks \/ LoadReturns
              \/ LoadFails \/ UNCHANGED vars
    <2>1. UNCHANGED <<sent, reply, acked>>
      BY <1>10 DEF Calls, InitializeStarts, AttachFreshEngine, AppendBatch,
                   LoadCalled, CloseCalled, SendFails, CloseTakesPool,
                   CloseSettles, InitializeCreatesPool, InitializeEnds,
                   InitializeFails, OrphanRuns, OrphanDies, LoadChecks,
                   LoadReturns, LoadFails, vars, tail
    <2>2. QED
      BY <1>8, <2>1
  <1>11. QED
    BY <1>4, <1>5, <1>6, <1>7, <1>9, <1>10 DEF Next, Progress

(* An append that resolved stays recorded at its seq, whatever crashes,    *)
(* redeliveries and late statements follow.                                *)
THEOREM ResolvedAppendsStayDurable == Spec => []ResolvedAppendsAreDurable
  <1>1. Init => DurableInv
    BY StoreConstants DEF Init, DurableInv, ResolvedAppendsAreDurable, AnswersAreTrue
  <1>2. TypeOK /\ OpenersBeginBatches /\ DurableInv /\ [Next]_vars => DurableInv'
    BY DurableNext
  <1>3. DurableInv => ResolvedAppendsAreDurable
    BY DEF DurableInv
  <1>4. QED
    BY <1>1, <1>2, <1>3, TypeCorrect, OpenersAlways, PTL DEF Spec
-----------------------------------------------------------------------------
(* Nothing lost in silence.  The strengthening: as long as the store is    *)
(* not latched, the writes left to settle cover, one after the other, the  *)
(* end of the journal, and what comes before them is recorded.             *)

Unsettled == IF sent = Null THEN queue ELSE <<sent>> \o queue

JournaledIn(s, st) ==
  /\ LastSeq(st) <= Len(s)
  /\ \A k \in 1 .. Len(st.events) : s[st.first + k - 1] = st.events[k]

(* The first seq whose write has not settled.                              *)
FirstLeft == IF Unsettled = << >> THEN Len(journal) + 1 ELSE Unsettled[1].first

RecordedUpTo(n) ==
  /\ n <= Len(db) /\ n <= Len(journal)
  /\ \A k \in 1 .. n : db[k] = journal[k]

WritesCoverTheEnd ==
  /\ \A j \in 1 .. Len(Unsettled) :
       /\ JournaledIn(journal, Unsettled[j])
       /\ LastSeq(Unsettled[j]) =
            IF j = Len(Unsettled) THEN Len(journal) ELSE Unsettled[j + 1].first - 1
  /\ RecordedUpTo(FirstLeft - 1)

StreamInv ==
  /\ ~failure => WritesCoverTheEnd
  /\ ~engine => journal = << >> /\ queue = << >> /\ sent = Null

(* A barrier waits for every write that covers what it covers.             *)
AwaitsEnough(call) ==
  \A j \in 1 .. Len(Unsettled) : j > call.left => Unsettled[j].first > call.covers

CloseInv ==
  /\ close.covers <= Len(journal)
  /\ ~failure /\ close.phase = "waiting" => AwaitsEnough(close)
  /\ ~failure /\ close.phase = "ending" => RecordedUpTo(close.covers)
  /\ close.phase = "resolved" => RecordedUpTo(close.covers)

LoadInv ==
  /\ load.covers <= Len(journal)
  /\ ~failure /\ load.phase = "waiting" => AwaitsEnough(load)
  /\ load.phase = "reading" => RecordedUpTo(load.covers)
  /\ load.phase = "returned" =>
       /\ load.covers <= Len(load.rows)
       /\ \A k \in 1 .. load.covers : load.rows[k] = journal[k]

LEMMA UnsettledTyped ==
  ASSUME TypeOK
  PROVE  /\ Unsettled \in Seq(Statement)
         /\ Len(Unsettled) = Pending
         /\ \A j \in 1 .. Len(Unsettled) : Unsettled[j] \in Statement
  <1>1. CASE sent = Null
    BY <1>1 DEF TypeOK, Unsettled, Pending
  <1>2. CASE sent # Null
    <2>1. <<sent>> \in Seq(Statement) /\ queue \in Seq(Statement) /\ Len(<<sent>>) = 1
      BY <1>2 DEF TypeOK
    <2>2. /\ <<sent>> \o queue \in Seq(Statement)
          /\ Len(<<sent>> \o queue) = 1 + Len(queue)
      BY <2>1, ConcatFacts
    <2>3. Len(queue) \in Nat
      BY <2>1
    <2>4. QED
      BY <1>2, <2>2, <2>3 DEF Unsettled, Pending
  <1>3. QED
    BY <1>1, <1>2

LEMMA TableGrows ==
  ASSUME TypeOK, [Next]_vars
  PROVE  /\ Len(db') >= Len(db) /\ Len(db') \in Nat /\ Len(db) \in Nat
         /\ \A k \in 1 .. Len(db) : db'[k] = db[k]
  BY DbSteps, AppendTyped DEF TypeOK

LEMMA PrefixStays ==
  ASSUME TypeOK, TypeOK', [Next]_vars, NEW n \in Int, RecordedUpTo(n),
         Len(journal') >= Len(journal),
         \A k \in 1 .. Len(journal) : journal'[k] = journal[k]
  PROVE  RecordedUpTo(n)'
  <1>1. Len(journal) \in Nat /\ Len(journal') \in Nat
    BY SMTT(30) DEF TypeOK
  <1>2. n <= Len(db') /\ n <= Len(journal')
    BY <1>1, TableGrows DEF RecordedUpTo
  <1>3. ASSUME NEW k \in 1 .. n
        PROVE  db'[k] = journal'[k]
    <2>1. k \in 1 .. Len(db) /\ k \in 1 .. Len(journal) /\ db[k] = journal[k]
      BY <1>1, TableGrows DEF RecordedUpTo
    <2>2. QED
      BY <2>1, TableGrows
  <1>4. QED
    BY <1>2, <1>3 DEF RecordedUpTo

(* A step after which the same writes are left and the journal is the same.*)
LEMMA QuietStream ==
  ASSUME TypeOK, TypeOK', [Next]_vars, WritesCoverTheEnd,
         journal' = journal, Unsettled' = Unsettled
  PROVE  WritesCoverTheEnd'
  <1>1. FirstLeft' = FirstLeft
    BY DEF FirstLeft
  <1>2. FirstLeft - 1 \in Int
    <2>1. CASE Unsettled = << >>
      BY <2>1 DEF FirstLeft, TypeOK
    <2>2. CASE Unsettled # << >>
      <3>1. Unsettled[1] \in Statement
        BY <2>2, UnsettledTyped
      <3>2. QED
        BY <2>2, <3>1, StatementFacts DEF FirstLeft
    <2>3. QED
      BY <2>1, <2>2
  <1>3. Len(journal) \in Nat
    BY DEF TypeOK
  <1>4. RecordedUpTo(FirstLeft - 1)'
    BY <1>1, <1>2, <1>3, PrefixStays DEF WritesCoverTheEnd
  <1>5. QED
    BY <1>4 DEF WritesCoverTheEnd, LastSeq

(* append(): one more write, which covers the new end of the journal.      *)
LEMMA AppendStream ==
  ASSUME TypeOK, TypeOK', NEW events \in Batches, AppendBatch(events)
  PROVE  /\ Unsettled' = Append(Unsettled, [first |-> Len(journal) + 1,
                                            events |-> events])
         /\ Len(Unsettled') = Len(Unsettled) + 1
         /\ Unsettled'[Len(Unsettled) + 1] =
              [first |-> Len(journal) + 1, events |-> events]
         /\ \A j \in 1 .. Len(Unsettled) : Unsettled'[j] = Unsettled[j]
         /\ Len(journal') = Len(journal) + Len(events)
         /\ \A k \in 1 .. Len(journal) : journal'[k] = journal[k]
         /\ \A k \in 1 .. Len(events) : journal'[Len(journal) + k] = events[k]
  <1> DEFINE st == [first |-> Len(journal) + 1, events |-> events]
  <1>1. events \in Seq(Events) /\ journal \in Seq(Events)
    BY BatchGrammar DEF TypeOK
  <1>2. st \in Statement
    BY <1>1 DEF Statement
  <1>3. queue' = Append(queue, st) /\ sent' = sent /\ journal' = journal \o events
    BY DEF AppendBatch
  <1> HIDE DEF st
  <1>4. queue \in Seq(Statement)
    BY DEF TypeOK
  <1>5. Unsettled' = Append(Unsettled, st)
    <2>1. CASE sent = Null
      BY <1>3, <2>1 DEF Unsettled
    <2>2. CASE sent # Null
      <3>1. <<sent>> \in Seq(Statement)
        BY <2>2 DEF TypeOK
      <3>2. <<sent>> \o Append(queue, st) = Append(<<sent>> \o queue, st)
        BY <1>2, <1>4, <3>1
      <3>3. QED
        BY <1>3, <2>2, <3>2 DEF Unsettled
    <2>3. QED
      BY <2>1, <2>2
  <1>6. Unsettled \in Seq(Statement)
    BY UnsettledTyped
  <1>7. /\ Len(Unsettled') = Len(Unsettled) + 1
        /\ Unsettled'[Len(Unsettled) + 1] = st
        /\ \A j \in 1 .. Len(Unsettled) : Unsettled'[j] = Unsettled[j]
    BY <1>2, <1>5, <1>6
  <1>8. QED
    BY <1>1, <1>3, <1>5, <1>7, ConcatFacts DEF st

(* What was journaled stays journaled while the journal grows.             *)
LEMMA JournaledStays ==
  ASSUME NEW st \in Statement, NEW s \in Seq(Events), NEW t \in Seq(Events),
         JournaledIn(s, st), Len(t) >= Len(s), \A k \in 1 .. Len(s) : t[k] = s[k]
  PROVE  JournaledIn(t, st)
  <1>1. \A k \in 1 .. Len(st.events) : st.first + k - 1 \in 1 .. Len(s)
    BY StatementFacts DEF JournaledIn, LastSeq
  <1>2. LastSeq(st) <= Len(t)
    BY StatementFacts DEF JournaledIn
  <1>3. QED
    BY <1>1, <1>2 DEF JournaledIn, LastSeq

LEMMA FirstLeftTyped ==
  ASSUME TypeOK
  PROVE  FirstLeft \in Int
  <1>1. CASE Unsettled = << >>
    BY <1>1 DEF FirstLeft, TypeOK
  <1>2. CASE Unsettled # << >>
    <2>1. Unsettled[1] \in Statement
      BY <1>2, UnsettledTyped
    <2>2. QED
      BY <1>2, <2>1, StatementFacts DEF FirstLeft
  <1>3. QED
    BY <1>1, <1>2

LEMMA AppendCovers ==
  ASSUME TypeOK, TypeOK', [Next]_vars, WritesCoverTheEnd,
         NEW events \in Batches, AppendBatch(events)
  PROVE  WritesCoverTheEnd'
  <1> DEFINE new == [first |-> Len(journal) + 1, events |-> events]
             n == Len(Unsettled)
  <1>1. /\ n \in Nat /\ Len(Unsettled') = n + 1 /\ Unsettled'[n + 1] = new
        /\ \A j \in 1 .. n : Unsettled'[j] = Unsettled[j] /\ Unsettled[j] \in Statement
    BY AppendStream, UnsettledTyped
  <1>2. /\ journal \in Seq(Events) /\ journal' \in Seq(Events)
        /\ Len(journal) \in Nat
    BY DEF TypeOK
  <1>3. events \in Seq(Events) /\ Len(events) \in Nat \ {0}
    BY BatchGrammar
  <1>4. /\ Len(journal') = Len(journal) + Len(events)
        /\ \A k \in 1 .. Len(journal) : journal'[k] = journal[k]
        /\ \A k \in 1 .. Len(events) : journal'[Len(journal) + k] = events[k]
    BY AppendStream
  <1>5. new \in Statement /\ new.first = Len(journal) + 1 /\ new.events = events
    BY <1>2, <1>3 DEF Statement
  <1> HIDE DEF new, n
  <1>6. LastSeq(new) = Len(journal')
    BY <1>2, <1>3, <1>4, <1>5 DEF LastSeq
  <1>7. JournaledIn(journal', new)
    <2>1. \A k \in 1 .. Len(events) : (Len(journal) + 1) + k - 1 = Len(journal) + k
      BY <1>2, <1>3
    <2>2. \A k \in 1 .. Len(new.events) : journal'[new.first + k - 1] = new.events[k]
      BY <1>4, <1>5, <2>1
    <2>3. LastSeq(new) <= Len(journal')
      BY <1>2, <1>6
    <2>4. QED
      BY <2>2, <2>3 DEF JournaledIn
  <1>8. ASSUME NEW j \in 1 .. n + 1
        PROVE  /\ JournaledIn(journal', Unsettled'[j])
               /\ LastSeq(Unsettled'[j]) =
                    IF j = n + 1 THEN Len(journal') ELSE Unsettled'[j + 1].first - 1
    <2>1. CASE j = n + 1
      BY <1>1, <1>6, <1>7, <2>1
    <2>2. CASE j \in 1 .. n
      <3>1. /\ JournaledIn(journal, Unsettled[j])
            /\ LastSeq(Unsettled[j]) =
                 IF j = n THEN Len(journal) ELSE Unsettled[j + 1].first - 1
        BY <1>1, <2>2 DEF WritesCoverTheEnd, n
      <3>2. JournaledIn(journal', Unsettled[j])
        <4>1. Len(journal') >= Len(journal)
          BY <1>2, <1>3, <1>4
        <4>2. QED
          BY <1>1, <1>2, <1>4, <2>2, <3>1, <4>1, JournaledStays
      <3>3. CASE j = n
        BY <1>1, <1>2, <1>5, <2>2, <3>1, <3>2, <3>3
      <3>4. CASE j # n
        <4>1. j + 1 \in 1 .. n /\ j # n + 1
          BY <1>1, <2>2, <3>4
        <4>2. QED
          BY <1>1, <2>2, <3>1, <3>2, <3>4, <4>1
      <3>5. QED
        BY <3>3, <3>4
    <2>3. QED
      BY <1>1, <2>1, <2>2
  <1>9. FirstLeft' = FirstLeft
    <2>1. CASE n = 0
      <3>1. Unsettled = << >>
        BY <2>1, UnsettledTyped DEF n
      <3>2. FirstLeft = Len(journal) + 1
        BY <3>1 DEF FirstLeft
      <3>3. Unsettled' # << >> /\ Unsettled'[1] = new
        BY <1>1, <2>1
      <3>4. QED
        BY <1>5, <3>2, <3>3 DEF FirstLeft
    <2>2. CASE n # 0
      <3>1. Unsettled # << >> /\ Unsettled' # << >> /\ Unsettled'[1] = Unsettled[1]
        BY <1>1, <2>2 DEF n
      <3>2. QED
        BY <3>1 DEF FirstLeft
    <2>3. QED
      BY <2>1, <2>2
  <1>10. RecordedUpTo(FirstLeft - 1)'
    <2>1. Len(journal') >= Len(journal)
      BY <1>2, <1>3, <1>4
    <2>2. FirstLeft - 1 \in Int /\ RecordedUpTo(FirstLeft - 1)
      BY FirstLeftTyped DEF WritesCoverTheEnd
    <2>3. \A m \in Int : RecordedUpTo(m) => RecordedUpTo(m)'
      BY <1>4, <2>1, PrefixStays
    <2>4. QED
      BY <1>9, <2>2, <2>3 DEF RecordedUpTo
  <1>11. QED
    BY <1>1, <1>8, <1>10 DEF WritesCoverTheEnd

(* Once the write at the head is recorded, so is all it covers.            *)
LEMMA HeadIsRecorded ==
  ASSUME TypeOK, WritesCoverTheEnd, sent # Null, Recorded(sent)
  PROVE  /\ sent \in Statement /\ RecordedUpTo(LastSeq(sent))
         /\ Len(Unsettled) = Len(queue) + 1 /\ Unsettled[1] = sent
         /\ \A j \in 1 .. Len(queue) : Unsettled[j + 1] = queue[j]
  <1>1. sent \in Statement /\ queue \in Seq(Statement) /\ <<sent>> \in Seq(Statement)
    BY DEF TypeOK
  <1>2. Unsettled = <<sent>> \o queue /\ Len(<<sent>>) = 1 /\ <<sent>>[1] = sent
    BY DEF Unsettled
  <1>3. /\ Len(Unsettled) = Len(queue) + 1 /\ Unsettled[1] = sent
        /\ \A j \in 1 .. Len(queue) : Unsettled[j + 1] = queue[j]
    <2>1. /\ Len(<<sent>> \o queue) = 1 + Len(queue)
          /\ (<<sent>> \o queue)[1] = sent
          /\ \A j \in 1 .. Len(queue) : (<<sent>> \o queue)[1 + j] = queue[j]
      BY <1>1, <1>2, ConcatFacts
    <2>2. Len(queue) \in Nat
      BY <1>1
    <2>3. \A j \in 1 .. Len(queue) : 1 + j = j + 1
      OBVIOUS
    <2>4. QED
      BY <1>2, <2>1, <2>2, <2>3
  <1>4. JournaledIn(journal, sent) /\ RecordedUpTo(sent.first - 1)
    <2>1. 1 \in 1 .. Len(Unsettled) /\ Unsettled # << >>
      BY <1>1, <1>3
    <2>2. QED
      BY <1>3, <2>1 DEF WritesCoverTheEnd, FirstLeft
  <1>5. RecordedUpTo(LastSeq(sent))
    <2>1. LastSeq(sent) <= Len(db) /\ LastSeq(sent) <= Len(journal)
      BY <1>4 DEF Recorded, JournaledIn
    <2>2. ASSUME NEW k \in 1 .. LastSeq(sent)
          PROVE  db[k] = journal[k]
      <3>1. CASE k <= sent.first - 1
        BY <1>1, <1>4, <3>1, StatementFacts DEF RecordedUpTo
      <3>2. CASE k > sent.first - 1
        <4>1. k - sent.first + 1 \in 1 .. Len(sent.events)
          BY <1>1, <2>2, <3>2, StatementFacts DEF LastSeq
        <4>2. sent.first + (k - sent.first + 1) - 1 = k
          BY <1>1, StatementFacts
        <4>3. db[k] = sent.events[k - sent.first + 1]
          BY <4>1, <4>2 DEF Recorded
        <4>4. journal[k] = sent.events[k - sent.first + 1]
          BY <1>4, <4>1, <4>2 DEF JournaledIn
        <4>5. QED
          BY <4>3, <4>4
      <3>3. QED
        BY <1>1, <3>1, <3>2, StatementFacts
    <2>3. QED
      BY <2>1, <2>2 DEF RecordedUpTo
  <1>6. QED
    BY <1>1, <1>3, <1>5

LEMMA SettleCovers ==
  ASSUME TypeOK, TypeOK', [Next]_vars, WritesCoverTheEnd, AnswersAreTrue,
         Settle, reply = "recorded"
  PROVE  WritesCoverTheEnd'
  <1>1. /\ sent # Null /\ sent' = Null /\ queue' = queue /\ journal' = journal
        /\ db' = db
    BY StoreConstants DEF Settle, TypeOK, writer, server
  <1>2. Recorded(sent)
    BY DEF AnswersAreTrue
  <1>3. /\ sent \in Statement /\ RecordedUpTo(LastSeq(sent))
        /\ Len(Unsettled) = Len(queue) + 1 /\ Unsettled[1] = sent
        /\ \A j \in 1 .. Len(queue) : Unsettled[j + 1] = queue[j]
    BY <1>1, <1>2, HeadIsRecorded
  <1>4. Unsettled' = queue
    BY <1>1 DEF Unsettled
  <1>5. Len(queue) \in Nat /\ queue \in Seq(Statement) /\ Len(journal) \in Nat
    BY SMTT(30) DEF TypeOK
  <1>6. ASSUME NEW j \in 1 .. Len(queue)
        PROVE  /\ JournaledIn(journal, queue[j])
               /\ LastSeq(queue[j]) =
                    IF j = Len(queue) THEN Len(journal) ELSE queue[j + 1].first - 1
    <2>1. j + 1 \in 1 .. Len(Unsettled) /\ Unsettled[j + 1] = queue[j]
      BY <1>3, <1>5
    <2>2. /\ JournaledIn(journal, queue[j])
          /\ LastSeq(queue[j]) =
               IF j + 1 = Len(Unsettled) THEN Len(journal)
               ELSE Unsettled[(j + 1) + 1].first - 1
      BY <2>1 DEF WritesCoverTheEnd
    <2>3. CASE j = Len(queue)
      BY <1>3, <2>2, <2>3
    <2>4. CASE j # Len(queue)
      <3>1. j + 1 \in 1 .. Len(queue) /\ j + 1 # Len(Unsettled)
        BY <1>3, <1>5, <2>4
      <3>2. Unsettled[(j + 1) + 1] = queue[j + 1]
        BY <1>3, <3>1
      <3>3. QED
        BY <2>2, <2>4, <3>1, <3>2
    <2>5. QED
      BY <2>3, <2>4
  <1>7. FirstLeft' - 1 = LastSeq(sent)
    <2>1. 1 \in 1 .. Len(Unsettled)
      BY <1>3, <1>5
    <2>2. LastSeq(sent) = IF 1 = Len(Unsettled) THEN Len(journal)
                          ELSE Unsettled[1 + 1].first - 1
      BY <1>3, <2>1 DEF WritesCoverTheEnd
    <2>3. CASE Len(queue) = 0
      <3>1. queue = << >> /\ FirstLeft' = Len(journal) + 1
        BY <1>1, <1>4, <1>5, <2>3 DEF FirstLeft
      <3>2. QED
        BY <1>3, <1>5, <2>2, <2>3, <3>1
    <2>4. CASE Len(queue) # 0
      <3>1. queue # << >> /\ FirstLeft' = queue[1].first /\ Unsettled[1 + 1] = queue[1]
        BY <1>3, <1>4, <1>5, <2>4 DEF FirstLeft
      <3>2. 1 # Len(Unsettled)
        BY <1>3, <1>5, <2>4
      <3>3. QED
        BY <2>2, <3>1, <3>2
    <2>5. QED
      BY <2>3, <2>4
  <1>8. RecordedUpTo(FirstLeft - 1)'
    BY <1>1, <1>3, <1>7 DEF RecordedUpTo
  <1>9. QED
    BY <1>1, <1>4, <1>6, <1>8 DEF WritesCoverTheEnd

(* replayMatchingJournalStore: the new engine goes on from the table.      *)
LEMMA AttachCovers ==
  ASSUME TypeOK, Unsettled' = << >>, db' = db, journal' = db
  PROVE  WritesCoverTheEnd'
  <1>1. Len(db) \in Nat
    BY DEF TypeOK
  <1>2. FirstLeft' - 1 = Len(db)
    BY <1>1 DEF FirstLeft
  <1>3. RecordedUpTo(FirstLeft - 1)'
    BY <1>1, <1>2 DEF RecordedUpTo
  <1>4. QED
    BY <1>3 DEF WritesCoverTheEnd

(* The steps that neither journal nor settle a write.                      *)
StreamRests ==
  /\ journal' = journal /\ Unsettled' = Unsettled /\ failure' = failure
  /\ engine' = engine \/ engine'
  /\ (queue = << >> /\ sent = Null) => (queue' = << >> /\ sent' = Null)

LEMMA SendKeepsUnsettled ==
  ASSUME TypeOK, Send
  PROVE  Unsettled' = Unsettled
  <1>1. queue \in Seq(Statement) /\ queue # << >> /\ sent = Null
    BY DEF TypeOK, Send
  <1>2. sent' = Head(queue) /\ queue' = Tail(queue) /\ Head(queue) \in Statement
    BY <1>1 DEF Send
  <1>3. sent' # Null
    BY <1>2, StoreConstants
  <1>4. <<Head(queue)>> \o Tail(queue) = queue
    BY <1>1
  <1>5. QED
    BY <1>1, <1>2, <1>3, <1>4 DEF Unsettled

LEMMA StreamSteps ==
  ASSUME TypeOK, [Next]_vars
  PROVE  \/ StreamRests
         \/ \E events \in Batches : AppendBatch(events)
         \/ SendFails \/ Settle \/ TimesOut
         \/ LoadReturns \/ Crash
  <1> USE DEF server, startup, tail, writer, calls
  <1>1. CASE Send
    BY <1>1, SendKeepsUnsettled DEF Send, StreamRests
  <1>2. CASE \/ InitializeStarts \/ AttachFreshEngine \/ LoadCalled \/ CloseCalled
    BY <1>2 DEF InitializeStarts, AttachFreshEngine, LoadCalled, CloseCalled,
                StreamRests, Unsettled
  <1>3. CASE ServerRuns \/ ServerAborts \/ CloseTakesPool \/ CloseSettles
    BY <1>3 DEF ServerRuns, ServerAborts, CloseTakesPool, CloseSettles,
                StreamRests, Unsettled
  <1>4. CASE \/ InitializeCreatesPool \/ InitializeEnds \/ InitializeFails
             \/ OrphanRuns \/ OrphanDies
    BY <1>4 DEF InitializeCreatesPool, InitializeEnds, InitializeFails,
                OrphanRuns, OrphanDies, StreamRests, Unsettled
  <1>5. CASE LoadChecks \/ LoadFails
    BY <1>5 DEF LoadChecks, LoadFails, StreamRests, Unsettled
  <1>6. CASE UNCHANGED vars
    BY <1>6 DEF vars, StreamRests, Unsettled
  <1>7. QED
    BY <1>1, <1>2, <1>3, <1>4, <1>5, <1>6 DEF Next, Calls, Progress

LEMMA StreamNext ==
  ASSUME TypeOK, TypeOK', AnswersAreTrue, StreamInv, [Next]_vars
  PROVE  StreamInv'
  <1> USE DEF StreamInv
  <1>1. CASE StreamRests
    BY <1>1, QuietStream DEF StreamRests
  <1>2. ASSUME NEW events \in Batches, AppendBatch(events)
        PROVE  StreamInv'
    <2>1. WritesCoverTheEnd /\ engine'
      BY <1>2 DEF AppendBatch
    <2>2. WritesCoverTheEnd'
      BY <1>2, <2>1, AppendCovers
    <2>3. QED
      BY <2>1, <2>2
  <1>3. CASE SendFails \/ TimesOut
    BY <1>3 DEF SendFails, TimesOut, writer
  <1>4. CASE Settle
    <2>1. sent # Null /\ engine' = engine /\ journal' = journal /\ queue' = queue
      BY <1>4 DEF Settle, TypeOK, writer
    <2>2. ASSUME ~failure'
          PROVE  WritesCoverTheEnd'
      <3>1. reply = "recorded" /\ ~failure
        BY <1>4, <2>2 DEF Settle
      <3>2. QED
        BY <1>4, <3>1, SettleCovers
    <2>3. QED
      BY <2>1, <2>2
  <1>5. CASE LoadReturns
    <2>1. CASE UNCHANGED writer
      <3>1. StreamRests
        BY <1>5, <2>1 DEF LoadReturns, writer, tail, StreamRests, Unsettled
      <3>2. QED
        BY <1>1, <3>1
    <2>2. CASE ~engine /\ engine' = TRUE /\ journal' = db
      <3>1. queue' = << >> /\ sent' = Null /\ db' = db
        BY <1>5, <2>2 DEF LoadReturns, tail, server
      <3>2. WritesCoverTheEnd'
        BY <2>2, <3>1, AttachCovers DEF Unsettled
      <3>3. QED
        BY <2>2, <3>2
    <2>3. QED
      BY <1>5, <2>1, <2>2 DEF LoadReturns
  <1>6. CASE Crash
    <2>1. /\ journal' = << >> /\ queue' = << >> /\ sent' = Null /\ db' = db
          /\ Unsettled' = << >>
      BY <1>6 DEF Crash, Unsettled
    <2>2. FirstLeft' - 1 = 0 /\ Len(db) \in Nat
      BY <2>1 DEF FirstLeft, TypeOK
    <2>3. RecordedUpTo(FirstLeft - 1)'
      BY <2>1, <2>2 DEF RecordedUpTo
    <2>4. WritesCoverTheEnd'
      BY <2>1, <2>3 DEF WritesCoverTheEnd
    <2>5. QED
      BY <2>1, <2>4
  <1>7. QED
    BY <1>1, <1>2, <1>3, <1>4, <1>5, <1>6, StreamSteps

LEMMA StreamInit == Init => StreamInv
  <1> SUFFICES ASSUME Init PROVE StreamInv
    OBVIOUS
  <1>1. journal = << >> /\ queue = << >> /\ sent = Null /\ db = << >>
    BY DEF Init
  <1>2. Unsettled = << >> /\ FirstLeft - 1 = 0
    BY <1>1 DEF Unsettled, FirstLeft
  <1>3. RecordedUpTo(FirstLeft - 1)
    BY <1>1, <1>2 DEF RecordedUpTo
  <1>4. WritesCoverTheEnd
    BY <1>2, <1>3 DEF WritesCoverTheEnd
  <1>5. QED
    BY <1>1, <1>4 DEF StreamInv

LEMMA StreamAlways == Spec => [](DurableInv /\ StreamInv)
  <1>1. Init => DurableInv
    BY StoreConstants DEF Init, DurableInv, ResolvedAppendsAreDurable, AnswersAreTrue
  <1>2. TypeOK /\ OpenersBeginBatches /\ DurableInv /\ [Next]_vars => DurableInv'
    BY DurableNext
  <1>3. TypeOK /\ TypeOK' /\ DurableInv /\ StreamInv /\ [Next]_vars => StreamInv'
    BY StreamNext DEF DurableInv
  <1>4. QED
    BY <1>1, <1>2, <1>3, StreamInit, TypeCorrect, OpenersAlways, PTL DEF Spec

(* A writer with nothing pending on an unlatched store has its whole       *)
(* stream recorded, whatever a dead process still writes.                  *)
THEOREM UnlatchedWritersAreRecorded == Spec => []UnlatchedWriterIsRecorded
  <1>1. ASSUME TypeOK, StreamInv
        PROVE  UnlatchedWriterIsRecorded
    <2>1. SUFFICES ASSUME ~failure, Pending = 0
                   PROVE  IsPrefixOf(journal, db)
      BY DEF UnlatchedWriterIsRecorded
    <2>2. Unsettled = << >>
      BY <2>1, UnsettledTyped, <1>1
    <2>3. RecordedUpTo(Len(journal))
      <3>1. Len(journal) \in Nat
        BY <1>1 DEF TypeOK
      <3>2. FirstLeft - 1 = Len(journal)
        BY <2>2, <3>1 DEF FirstLeft
      <3>3. QED
        BY <1>1, <2>1, <3>2 DEF StreamInv, WritesCoverTheEnd
    <2>4. QED
      BY <2>3 DEF RecordedUpTo, IsPrefixOf
  <1>2. QED
    BY <1>1, StreamAlways, TypeCorrect, PTL

-----------------------------------------------------------------------------
(* The barriers, from the same strengthening.                              *)

(* All a barrier covers is recorded once it need not wait any longer.      *)
LEMMA BarrierReached ==
  ASSUME TypeOK, WritesCoverTheEnd, NEW call,
         call.covers \in Nat, call.covers <= Len(journal), call.left = 0,
         AwaitsEnough(call)
  PROVE  RecordedUpTo(call.covers)
  <1>1. call.covers <= FirstLeft - 1
    <2>1. CASE Unsettled = << >>
      BY <2>1 DEF FirstLeft, TypeOK
    <2>2. CASE Unsettled # << >>
      <3>1. 1 \in 1 .. Len(Unsettled) /\ Unsettled[1] \in Statement
        BY <2>2, UnsettledTyped
      <3>2. Unsettled[1].first > call.covers
        BY <3>1 DEF AwaitsEnough
      <3>3. QED
        BY <2>2, <3>1, <3>2, StatementFacts DEF FirstLeft
    <2>3. QED
      BY <2>1, <2>2
  <1>2. FirstLeft \in Int /\ RecordedUpTo(FirstLeft - 1)
    BY FirstLeftTyped DEF WritesCoverTheEnd
  <1>3. Len(db) \in Nat /\ Len(journal) \in Nat
    BY DEF TypeOK
  <1>4. QED
    BY <1>1, <1>2, <1>3 DEF RecordedUpTo

LEMMA WaitsForAll ==
  ASSUME TypeOK, NEW call, call.left = Pending
  PROVE  AwaitsEnough(call)
  BY UnsettledTyped DEF AwaitsEnough

(* A settled write leaves the barriers that waited for it one less.        *)
LEMMA OneLessAwaits ==
  ASSUME TypeOK, sent # Null, sent' = Null, queue' = queue,
         NEW call, NEW next, AwaitsEnough(call), call.left \in Nat,
         next.covers = call.covers,
         next.left = IF call.left = 0 THEN 0 ELSE call.left - 1
  PROVE  \A j \in 1 .. Len(Unsettled') :
           j > next.left => Unsettled'[j].first > next.covers
  <1>1. /\ Unsettled' = queue /\ Len(queue) \in Nat
        /\ Len(Unsettled) = Len(queue) + 1
        /\ \A j \in 1 .. Len(queue) : Unsettled[j + 1] = queue[j]
    <2>1. <<sent>> \in Seq(Statement) /\ queue \in Seq(Statement) /\ Len(<<sent>>) = 1
      BY DEF TypeOK
    <2>2. /\ Len(<<sent>> \o queue) = 1 + Len(queue)
          /\ \A j \in 1 .. Len(queue) : (<<sent>> \o queue)[1 + j] = queue[j]
      BY <2>1, ConcatFacts
    <2>3. \A j \in 1 .. Len(queue) : 1 + j = j + 1
      OBVIOUS
    <2>4. Len(queue) \in Nat
      BY <2>1
    <2>5. QED
      BY <2>2, <2>3, <2>4 DEF Unsettled
  <1>2. ASSUME NEW j \in 1 .. Len(queue), j > next.left
        PROVE  queue[j].first > next.covers
    <2>1. j + 1 \in 1 .. Len(Unsettled) /\ j + 1 > call.left
      BY <1>1, <1>2
    <2>2. QED
      BY <1>1, <2>1 DEF AwaitsEnough
  <1>3. QED
    BY <1>1, <1>2

(* Appends journal past what a barrier already covers.                     *)
LEMMA AppendAwaits ==
  ASSUME TypeOK, TypeOK', NEW events \in Batches, AppendBatch(events),
         NEW call, AwaitsEnough(call), call.covers \in Nat, call.left \in Nat,
         call.covers <= Len(journal)
  PROVE  \A j \in 1 .. Len(Unsettled') :
           j > call.left => Unsettled'[j].first > call.covers
  <1>1. /\ Len(Unsettled') = Len(Unsettled) + 1 /\ Len(Unsettled) \in Nat
        /\ Unsettled'[Len(Unsettled) + 1].first = Len(journal) + 1
        /\ \A j \in 1 .. Len(Unsettled) : Unsettled'[j] = Unsettled[j]
    <2>1. /\ Len(Unsettled') = Len(Unsettled) + 1
          /\ Unsettled'[Len(Unsettled) + 1] =
               [first |-> Len(journal) + 1, events |-> events]
          /\ \A j \in 1 .. Len(Unsettled) : Unsettled'[j] = Unsettled[j]
      BY AppendStream
    <2>2. Len(Unsettled) \in Nat
      BY UnsettledTyped
    <2>3. QED
      BY <2>1, <2>2
  <1>2. Len(journal) \in Nat
    BY DEF TypeOK
  <1>3. TAKE j \in 1 .. Len(Unsettled')
  <1>4. CASE j = Len(Unsettled) + 1
    BY <1>1, <1>2, <1>4
  <1>5. CASE j \in 1 .. Len(Unsettled)
    BY <1>1, <1>5 DEF AwaitsEnough
  <1>6. QED
    BY <1>1, <1>4, <1>5

JournalKept ==
  /\ Len(journal') >= Len(journal)
  /\ \A k \in 1 .. Len(journal) : journal'[k] = journal[k]

(* But for a crash, the journal only grows, and so does what is recorded   *)
(* of it; a latched store stays latched.                                   *)
LEMMA JournalGrows ==
  ASSUME TypeOK, TypeOK', StreamInv, [Next]_vars, ~Crash
  PROVE  /\ JournalKept
         /\ failure => failure'
         /\ \A n \in Int : RecordedUpTo(n) => RecordedUpTo(n)'
  <1>1. JournalKept /\ (failure => failure')
    <2>1. CASE StreamRests
      BY <2>1 DEF StreamRests, JournalKept, TypeOK
    <2>2. ASSUME NEW events \in Batches, AppendBatch(events)
          PROVE  JournalKept /\ (failure => failure')
      <3>1. Len(journal) \in Nat /\ Len(events) \in Nat
        BY BatchGrammar, SMTT(30) DEF TypeOK
      <3>2. JournalKept
        <4>1. /\ Len(journal') = Len(journal) + Len(events)
              /\ \A k \in 1 .. Len(journal) : journal'[k] = journal[k]
          BY <2>2, AppendStream
        <4>2. QED
          BY <3>1, <4>1 DEF JournalKept
      <3>3. QED
        BY <2>2, <3>2 DEF AppendBatch
    <2>3. CASE SendFails \/ Settle \/ TimesOut
      BY <2>3, SMTT(30) DEF SendFails, Settle, TimesOut, writer, JournalKept, TypeOK
    <2>4. CASE LoadReturns
      BY <2>4, SMTT(30) DEF LoadReturns, StreamInv, writer, tail, JournalKept, TypeOK
    <2>5. QED
      BY <2>1, <2>2, <2>3, <2>4, StreamSteps
  <1>2. \A n \in Int : RecordedUpTo(n) => RecordedUpTo(n)'
    BY <1>1, PrefixStays DEF JournalKept
  <1>3. QED
    BY <1>1, <1>2

(* A barrier that no step touched still waits for enough.                  *)
LEMMA AwaitsStays ==
  ASSUME TypeOK, TypeOK', StreamInv, [Next]_vars, ~Crash, ~Settle, ~failure',
         NEW call, AwaitsEnough(call), call.covers \in Nat, call.left \in Nat,
         call.covers <= Len(journal)
  PROVE  \A j \in 1 .. Len(Unsettled') :
           j > call.left => Unsettled'[j].first > call.covers
  <1>1. CASE Unsettled' = Unsettled
    BY <1>1 DEF AwaitsEnough
  <1>2. CASE \E events \in Batches : AppendBatch(events)
    BY <1>2, AppendAwaits
  <1>3. CASE SendFails \/ TimesOut
    BY <1>3 DEF SendFails, TimesOut
  <1>4. CASE LoadReturns
    BY <1>1, <1>4 DEF LoadReturns, tail, Unsettled
  <1>5. QED
    BY <1>1, <1>2, <1>3, <1>4, StreamSteps DEF StreamRests

CloseSteps == CloseCalled \/ CloseTakesPool \/ CloseSettles

WaitSteps == SendFails \/ Settle \/ TimesOut

LEMMA CloseChanges ==
  ASSUME [Next]_vars
  PROVE  Crash \/ CloseSteps \/ WaitSteps \/ close' = close
  <1>1. CASE Calls
    BY <1>1 DEF Calls, InitializeStarts, AttachFreshEngine, AppendBatch,
                LoadCalled, CloseSteps, calls
  <1>2. CASE Send \/ ServerRuns \/ ServerAborts
    BY <1>2 DEF Send, ServerRuns, ServerAborts, calls
  <1>3. CASE \/ InitializeCreatesPool \/ InitializeEnds \/ InitializeFails
             \/ OrphanRuns \/ OrphanDies \/ LoadChecks \/ LoadReturns
             \/ LoadFails \/ UNCHANGED vars
    BY <1>3 DEF InitializeCreatesPool, InitializeEnds, InitializeFails,
                OrphanRuns, OrphanDies, LoadChecks, LoadReturns, LoadFails,
                vars, calls
  <1>4. QED
    BY <1>1, <1>2, <1>3 DEF Next, Progress, CloseSteps, WaitSteps

LEMMA CloseNext ==
  ASSUME TypeOK, TypeOK', StreamInv, CloseInv, [Next]_vars
  PROVE  CloseInv'
  <1> USE DEF CloseInv
  <1>1. /\ close \in [phase : ClosePhases, left : Nat, covers : Nat]
        /\ Len(journal) \in Nat /\ Len(journal') \in Nat
    BY SMTT(30) DEF TypeOK
  <1>2. CASE Crash
    BY <1>2 DEF Crash, NoClose
  <1>3. ASSUME ~Crash
        PROVE  /\ JournalKept /\ (failure => failure')
               /\ \A n \in Nat : n <= Len(journal) => n <= Len(journal')
               /\ \A n \in Int : RecordedUpTo(n) => RecordedUpTo(n)'
    <2>1. JournalKept
      BY <1>3, JournalGrows
    <2>2. QED
      BY <1>1, <1>3, <2>1, JournalGrows DEF JournalKept
  <1>4. CASE ~Crash /\ close' = close /\ ~WaitSteps
    <2>1. /\ close'.covers <= Len(journal')
          /\ close.phase = "resolved" => RecordedUpTo(close.covers)'
          /\ ~failure /\ close.phase = "ending" => RecordedUpTo(close.covers)'
      BY <1>1, <1>3, <1>4 DEF RecordedUpTo
    <2>2. ASSUME ~failure', close.phase = "waiting"
          PROVE  AwaitsEnough(close)'
      <3>1. \A j \in 1 .. Len(Unsettled') :
              j > close.left => Unsettled'[j].first > close.covers
        BY <1>1, <1>3, <1>4, <2>2, AwaitsStays DEF WaitSteps
      <3>2. QED
        BY <1>4, <3>1 DEF AwaitsEnough
    <2>3. QED
      BY <1>3, <1>4, <2>1, <2>2
  <1>5. CASE ~Crash /\ WaitSteps
    <2>1. close' = OneLess(close)
      BY <1>5 DEF WaitSteps, SendFails, Settle, TimesOut, OneWriteSettled
    <2>2. /\ close'.phase = close.phase /\ close'.covers = close.covers
          /\ close'.left = IF close.left = 0 THEN 0 ELSE close.left - 1
      BY <1>1, <2>1 DEF OneLess
    <2>3. /\ close'.covers <= Len(journal')
          /\ close.phase = "resolved" => RecordedUpTo(close.covers)'
          /\ ~failure /\ close.phase = "ending" => RecordedUpTo(close.covers)'
      BY <1>1, <1>3, <1>5, <2>2
    <2>4. ASSUME ~failure', close.phase = "waiting"
          PROVE  AwaitsEnough(close)'
      <3>1. Settle /\ ~failure
        BY <1>3, <1>5, <2>4 DEF WaitSteps, SendFails, TimesOut
      <3>2. sent # Null /\ sent' = Null /\ queue' = queue
        BY <3>1 DEF Settle, TypeOK
      <3>3. AwaitsEnough(close)
        BY <2>4, <3>1
      <3>4. \A j \in 1 .. Len(Unsettled') :
              j > close'.left => Unsettled'[j].first > close'.covers
        BY <1>1, <2>2, <3>2, <3>3, OneLessAwaits
      <3>5. QED
        BY <3>4 DEF AwaitsEnough
    <2>5. QED
      BY <1>3, <1>5, <2>2, <2>3, <2>4 DEF RecordedUpTo
  <1>6. CASE ~Crash /\ CloseCalled
    <2>1. /\ close'.phase = "waiting" /\ close'.left = Pending
          /\ close'.covers = Len(journal) /\ Unsettled' = Unsettled
          /\ journal' = journal
      BY <1>6 DEF CloseCalled, Unsettled, tail, writer
    <2>2. AwaitsEnough(close)'
      BY <2>1, UnsettledTyped DEF AwaitsEnough
    <2>3. QED
      BY <1>1, <2>1, <2>2
  <1>7. CASE ~Crash /\ CloseTakesPool
    <2>1. /\ close.phase = "waiting" /\ close.left = 0
          /\ close'.phase = "ending" /\ close'.covers = close.covers
          /\ failure' = failure /\ journal' = journal /\ db' = db
      BY <1>1, <1>7 DEF CloseTakesPool, CloseIsDue, tail, writer, server
    <2>2. ~failure => RecordedUpTo(close.covers)
      BY <1>1, <2>1, BarrierReached DEF StreamInv
    <2>3. QED
      BY <2>1, <2>2 DEF RecordedUpTo
  <1>8. CASE ~Crash /\ CloseSettles
    <2>1. /\ close.phase = "ending" /\ close'.covers = close.covers
          /\ close'.phase = IF failure THEN "rejected" ELSE "resolved"
          /\ failure' = failure /\ journal' = journal /\ db' = db
      BY <1>1, <1>8 DEF CloseSettles, tail, writer, server
    <2>2. QED
      BY <2>1 DEF RecordedUpTo
  <1>9. QED
    BY <1>2, <1>4, <1>5, <1>6, <1>7, <1>8, CloseChanges DEF CloseSteps

LoadSteps == LoadCalled \/ LoadChecks \/ LoadReturns \/ LoadFails

LEMMA LoadChanges ==
  ASSUME [Next]_vars
  PROVE  Crash \/ LoadSteps \/ WaitSteps \/ load' = load
  <1>1. CASE Calls
    BY <1>1 DEF Calls, InitializeStarts, AttachFreshEngine, AppendBatch,
                CloseCalled, LoadSteps, calls
  <1>2. CASE Send \/ ServerRuns \/ ServerAborts \/ CloseTakesPool \/ CloseSettles
    BY <1>2 DEF Send, ServerRuns, ServerAborts, CloseTakesPool, CloseSettles, calls
  <1>3. CASE \/ InitializeCreatesPool \/ InitializeEnds \/ InitializeFails
             \/ OrphanRuns \/ OrphanDies \/ UNCHANGED vars
    BY <1>3 DEF InitializeCreatesPool, InitializeEnds, InitializeFails,
                OrphanRuns, OrphanDies, vars, calls
  <1>4. QED
    BY <1>1, <1>2, <1>3 DEF Next, Progress, LoadSteps, WaitSteps

LEMMA LoadNext ==
  ASSUME TypeOK, TypeOK', StreamInv, LoadInv, [Next]_vars
  PROVE  LoadInv'
  <1> USE DEF LoadInv
  <1>1. /\ load \in [phase : LoadPhases, left : Nat, covers : Nat,
                     rows : Seq(Events)]
        /\ Len(journal) \in Nat /\ Len(journal') \in Nat
    BY SMTT(30) DEF TypeOK
  <1>2. CASE Crash
    BY <1>2 DEF Crash, NoLoad
  <1>3. ASSUME ~Crash
        PROVE  /\ JournalKept /\ (failure => failure')
               /\ \A n \in Nat : n <= Len(journal) => n <= Len(journal')
               /\ \A n \in Int : RecordedUpTo(n) => RecordedUpTo(n)'
    <2>1. JournalKept
      BY <1>3, JournalGrows
    <2>2. QED
      BY <1>1, <1>3, <2>1, JournalGrows DEF JournalKept
  <1>4. ASSUME ~Crash, load.phase = "returned", load'.covers = load.covers,
               load'.rows = load.rows
        PROVE  /\ load'.covers <= Len(load'.rows)
               /\ \A k \in 1 .. load'.covers : load'.rows[k] = journal'[k]
    <2>1. \A k \in 1 .. load.covers : k \in 1 .. Len(journal)
      BY <1>1
    <2>2. \A k \in 1 .. load.covers : journal'[k] = journal[k]
      BY <1>3, <1>4, <2>1 DEF JournalKept
    <2>3. QED
      BY <1>4, <2>2
  <1>5. CASE ~Crash /\ load' = load /\ ~WaitSteps
    <2>1. /\ load'.covers <= Len(journal')
          /\ load.phase = "reading" => RecordedUpTo(load.covers)'
      BY <1>1, <1>3, <1>5 DEF RecordedUpTo
    <2>2. ASSUME ~failure', load.phase = "waiting"
          PROVE  AwaitsEnough(load)'
      <3>1. \A j \in 1 .. Len(Unsettled') :
              j > load.left => Unsettled'[j].first > load.covers
        BY <1>1, <1>3, <1>5, <2>2, AwaitsStays DEF WaitSteps
      <3>2. QED
        BY <1>5, <3>1 DEF AwaitsEnough
    <2>3. QED
      BY <1>4, <1>5, <2>1, <2>2
  <1>6. CASE ~Crash /\ WaitSteps
    <2>1. load' = OneLess(load)
      BY <1>6 DEF WaitSteps, SendFails, Settle, TimesOut, OneWriteSettled
    <2>2. /\ load'.phase = load.phase /\ load'.covers = load.covers
          /\ load'.rows = load.rows
          /\ load'.left = IF load.left = 0 THEN 0 ELSE load.left - 1
      BY <1>1, <2>1 DEF OneLess
    <2>3. /\ load'.covers <= Len(journal')
          /\ load.phase = "reading" => RecordedUpTo(load.covers)'
      BY <1>1, <1>3, <1>6, <2>2
    <2>4. ASSUME ~failure', load.phase = "waiting"
          PROVE  AwaitsEnough(load)'
      <3>1. Settle /\ ~failure
        BY <1>3, <1>6, <2>4 DEF WaitSteps, SendFails, TimesOut
      <3>2. sent # Null /\ sent' = Null /\ queue' = queue
        BY <3>1 DEF Settle, TypeOK
      <3>3. AwaitsEnough(load)
        BY <2>4, <3>1
      <3>4. \A j \in 1 .. Len(Unsettled') :
              j > load'.left => Unsettled'[j].first > load'.covers
        BY <1>1, <2>2, <3>2, <3>3, OneLessAwaits
      <3>5. QED
        BY <3>4 DEF AwaitsEnough
    <2>5. QED
      BY <1>4, <1>6, <2>2, <2>3, <2>4 DEF RecordedUpTo
  <1>7. CASE ~Crash /\ LoadCalled
    <2>1. /\ load'.phase = "waiting" /\ load'.left = Pending
          /\ load'.covers = Len(journal) /\ Unsettled' = Unsettled
          /\ journal' = journal
      BY <1>1, <1>7 DEF LoadCalled, Unsettled, tail, writer
    <2>2. AwaitsEnough(load)'
      BY <2>1, UnsettledTyped DEF AwaitsEnough
    <2>3. QED
      BY <1>1, <2>1, <2>2
  <1>8. CASE ~Crash /\ LoadChecks
    <2>1. /\ load.phase = "waiting" /\ load.left = 0
          /\ load'.phase \in {"reading", "refused"} /\ load'.covers = load.covers
          /\ load'.phase = "reading" => ~failure
          /\ journal' = journal /\ db' = db
      BY <1>1, <1>8 DEF LoadChecks, tail, writer, server
    <2>2. ~failure => RecordedUpTo(load.covers)
      BY <1>1, <2>1, BarrierReached DEF StreamInv
    <2>3. QED
      BY <2>1, <2>2 DEF RecordedUpTo
  <1>9. CASE ~Crash /\ LoadReturns
    <2>1. /\ load.phase = "reading" /\ RecordedUpTo(load.covers)
          /\ load' = [load EXCEPT !.phase = "returned", !.rows = db]
      BY <1>9 DEF LoadReturns
    <2>2. /\ load'.phase = "returned" /\ load'.covers = load.covers
          /\ load'.rows = db
      BY <1>1, <2>1
    <2>3. \A k \in 1 .. load.covers : db[k] = journal[k] /\ k \in 1 .. Len(journal)
      BY <1>1, <2>1 DEF RecordedUpTo
    <2>4. \A k \in 1 .. load.covers : journal'[k] = journal[k]
      BY <1>3, <1>9, <2>3 DEF JournalKept
    <2>5. load.covers <= Len(db) /\ load.covers <= Len(journal')
      BY <1>1, <1>3, <1>9, <2>1 DEF RecordedUpTo
    <2>6. QED
      BY <2>2, <2>3, <2>4, <2>5
  <1>10. CASE ~Crash /\ LoadFails
    BY <1>1, <1>10 DEF LoadFails, writer
  <1>11. QED
    BY <1>2, <1>5, <1>6, <1>7, <1>8, <1>9, <1>10, LoadChanges DEF LoadSteps

(* close() resolves only when all that was accepted before the call is     *)
(* recorded, and load() returns it or refuses.                             *)
THEOREM BarriersHold == Spec => []BarriersSeeAppends
  <1>1. Init => CloseInv /\ LoadInv
    BY DEF Init, CloseInv, LoadInv, NoClose, NoLoad
  <1>2. TypeOK /\ TypeOK' /\ StreamInv /\ CloseInv /\ [Next]_vars => CloseInv'
    BY CloseNext
  <1>3. TypeOK /\ TypeOK' /\ StreamInv /\ LoadInv /\ [Next]_vars => LoadInv'
    BY LoadNext
  <1>4. ASSUME TypeOK, CloseInv, LoadInv
        PROVE  BarriersSeeAppends
    <2>1. /\ close.covers \in Nat /\ load.covers \in Nat /\ load.rows \in Seq(Events)
          /\ journal \in Seq(Events) /\ db \in Seq(Events)
      BY <1>4 DEF TypeOK
    <2>2. ASSUME NEW n \in Nat, n <= Len(journal)
          PROVE  /\ Len(SubSeq(journal, 1, n)) = n
                 /\ \A k \in 1 .. n : SubSeq(journal, 1, n)[k] = journal[k]
      BY <2>1, <2>2
    <2>3. ASSUME close.phase = "resolved"
          PROVE  IsPrefixOf(SubSeq(journal, 1, close.covers), db)
      BY <1>4, <2>1, <2>2, <2>3 DEF CloseInv, RecordedUpTo, IsPrefixOf
    <2>4. ASSUME load.phase = "returned"
          PROVE  IsPrefixOf(SubSeq(journal, 1, load.covers), load.rows)
      BY <1>4, <2>1, <2>2, <2>4 DEF LoadInv, IsPrefixOf
    <2>5. QED
      BY <2>3, <2>4 DEF BarriersSeeAppends
  <1>5. QED
    BY <1>1, <1>2, <1>3, <1>4, StreamAlways, TypeCorrect, PTL DEF Spec
=============================================================================
