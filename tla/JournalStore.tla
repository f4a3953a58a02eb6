---------------------------- MODULE JournalStore ----------------------------
(***************************************************************************)
(* The durable journal store of the matching engine (packages/             *)
(* matching-core, src/postgres-journal-store.mjs) over the table and the   *)
(* append function of its migrations, for one namespace.                   *)
(*                                                                         *)
(* A process holds one store: its appends queue on a serialized tail and   *)
(* are sent one statement at a time, over a connection that may fail       *)
(* before, while or after the server runs the statement.  The process may  *)
(* crash and a new one restore from the table; what the old one sent and   *)
(* nobody awaits any more may still run.                                   *)
(*                                                                         *)
(* An append that throws synchronously (a latched or closed store, one not *)
(* initialized) changes nothing here, so it is no step.                    *)
(***************************************************************************)
EXTENDS Integers, Sequences

CONSTANTS
  Events,      \* event payloads, their seq aside
  Openers,     \* the events that can open an operation
  Batches,     \* the batches an operation can emit
  Null,
  MaxLen,      \* bound: events one process journals
  MaxCrashes   \* bound: crashes of the process

IsPrefixOf(s, t) == Len(s) <= Len(t) /\ \A k \in 1 .. Len(s) : t[k] = s[k]

(* An operation opens with `accepted`, `amended`, `cancelled` or a         *)
(* rejection that carries no quantity, and with nothing else later on; its *)
(* last event settles it, so no batch continues another one.               *)
ASSUME BatchGrammar ==
  /\ Openers \subseteq Events
  /\ Batches \subseteq Seq(Events) \ {<< >>}
  /\ \A b \in Batches : /\ b[1] \in Openers
                        /\ \A k \in 2 .. Len(b) : b[k] \notin Openers
  /\ \A b, c \in Batches : IsPrefixOf(b, c) => b = c

Statement == [first : Nat \ {0}, events : Batches]

ASSUME StoreConstants ==
  /\ MaxLen \in Nat
  /\ MaxCrashes \in Nat
  /\ Null \notin Statement \cup {"recorded", "refused"}

VARIABLES
  db,       \* matching_journal: the recorded events in seq order
  orphans,  \* statements on the server that nobody awaits any more
  init,     \* where initialize() stands
  pool,     \* is there a connection pool?
  ready, closed,
  failure,  \* is the store latched?
  queue,    \* appends waiting on the tail
  sent,     \* the statement awaited, or Null
  reply,    \* what the server answered to it
  engine,   \* has an engine been attached?
  journal,  \* the stream of the attached engine, restored prefix included
  load,     \* one load() of the process
  close,    \* its close()
  acked,    \* history: statements whose append resolved
  crashes

server  == <<db, orphans>>
startup == <<init, pool, ready, closed>>
tail    == <<failure, queue, sent, reply>>
writer  == <<engine, journal>>
calls   == <<load, close>>
vars    == <<server, startup, tail, writer, calls, acked, crashes>>

(* A call that waits out the tail, as `await tail` does: the writes left   *)
(* to settle, and how much of the journal they cover.                      *)
NoLoad  == [phase |-> "idle", left |-> 0, covers |-> 0, rows |-> << >>]
NoClose == [phase |-> "open", left |-> 0, covers |-> 0]

Init ==
  /\ db = << >> /\ orphans = {} /\ acked = {} /\ crashes = 0
  /\ init = "none" /\ pool = FALSE /\ ready = FALSE /\ closed = FALSE
  /\ failure = FALSE /\ queue = << >> /\ sent = Null /\ reply = Null
  /\ engine = FALSE /\ journal = << >>
  /\ load = NoLoad /\ close = NoClose

-----------------------------------------------------------------------------
(* The append function of the database: one statement, one transaction,    *)
(* under the advisory lock of the namespace.                               *)

LastSeq(st) == st.first + Len(st.events) - 1

(* Mutant of Appendable: recorded seq numbers are skipped, not compared.   *)
AppendableBySeq(st) == st.first <= Len(db) + 1

Appendable(st) ==
  /\ st.first <= Len(db) + 1
  /\ \A k \in 1 .. Len(st.events) :
       st.first + k - 1 <= Len(db) => db[st.first + k - 1] = st.events[k]

Unrecorded(st) ==
  SubSeq(st.events, Len(db) - st.first + 2, Len(st.events))

AppendMatchingJournal(st) ==
  db' = IF Appendable(st) /\ LastSeq(st) > Len(db)
        THEN db \o Unrecorded(st)
        ELSE db

-----------------------------------------------------------------------------
(* initialize(), once per store.                                           *)

(* The driver is loaded first.                                             *)
InitializeStarts ==
  /\ init = "none"
  /\ init' = "importing"
  /\ UNCHANGED <<server, pool, ready, closed, tail, writer, calls, acked,
                 crashes>>

InitializeCreatesPool ==
  /\ init = "importing"
  /\ init' = "checking"
  /\ pool' = TRUE
  /\ UNCHANGED <<server, ready, closed, tail, writer, calls, acked, crashes>>

(* The schema checks out; a store closed meanwhile is not revived.         *)
InitializeEnds ==
  /\ init = "checking"
  /\ IF closed
     THEN init' = "failed" /\ pool' = FALSE /\ ready' = ready
     ELSE init' = "done" /\ pool' = pool /\ ready' = TRUE
  /\ UNCHANGED <<server, closed, tail, writer, calls, acked, crashes>>

(* The pool of a failed check stays: nothing but close() ends it.          *)
InitializeFails ==
  /\ init \in {"importing", "checking"}
  /\ init' = "failed"
  /\ UNCHANGED <<server, pool, ready, closed, tail, writer, calls, acked,
                 crashes>>

-----------------------------------------------------------------------------
(* The engine and its appends.                                             *)

(* createMatchingEngine over the store, without reading it.                *)
AttachFreshEngine ==
  /\ ~engine
  /\ engine' = TRUE
  /\ UNCHANGED <<server, startup, tail, journal, calls, acked, crashes>>

(* append(): queued, and journaled by the engine at once.                  *)
AppendBatch(events) ==
  /\ engine /\ ready /\ ~failure
  /\ Len(journal) + Len(events) <= MaxLen
  /\ queue' = Append(queue, [first |-> Len(journal) + 1, events |-> events])
  /\ journal' = journal \o events
  /\ UNCHANGED <<server, startup, failure, sent, reply, engine, calls, acked,
                 crashes>>

Pending == Len(queue) + (IF sent = Null THEN 0 ELSE 1)

OneLess(call) == [call EXCEPT !.left = IF @ = 0 THEN 0 ELSE @ - 1]

(* Mutant of OneWriteSettled: close() is not woken.                        *)
OneWriteSettledForLoad == load' = OneLess(load) /\ close' = close

(* One more write settled; load() and close() wait for one less.           *)
OneWriteSettled == load' = OneLess(load) /\ close' = OneLess(close)

(* close() queued up on the tail before any later append did.              *)
CloseIsDue == close.phase = "waiting" /\ close.left = 0

Send ==
  /\ queue # << >> /\ sent = Null /\ ~CloseIsDue
  /\ pool
  /\ sent' = Head(queue)
  /\ queue' = Tail(queue)
  /\ UNCHANGED <<server, startup, failure, reply, writer, calls, acked, crashes>>

(* No pool any more, or no connection from it in time.                     *)
SendFails ==
  /\ queue # << >> /\ sent = Null /\ ~CloseIsDue
  /\ queue' = Tail(queue)
  /\ failure' = TRUE
  /\ OneWriteSettled
  /\ UNCHANGED <<server, startup, sent, reply, writer, acked, crashes>>

ServerRuns ==
  /\ sent # Null /\ reply = Null
  /\ AppendMatchingJournal(sent)
  /\ reply' = IF Appendable(sent) THEN "recorded" ELSE "refused"
  /\ UNCHANGED <<orphans, startup, failure, queue, sent, writer, calls, acked,
                 crashes>>

(* lock_timeout, or a server that goes down before it commits.             *)
ServerAborts ==
  /\ sent # Null /\ reply = Null
  /\ reply' = "refused"
  /\ UNCHANGED <<server, startup, failure, queue, sent, writer, calls, acked,
                 crashes>>

(* Mutant of Settle: a refused write does not latch the store.             *)
SettleUnlatched ==
  /\ reply # Null
  /\ acked' = IF reply = "recorded" THEN acked \cup {sent} ELSE acked
  /\ sent' = Null /\ reply' = Null
  /\ OneWriteSettled
  /\ UNCHANGED <<server, startup, failure, queue, writer, crashes>>

Settle ==
  /\ reply # Null
  /\ IF reply = "recorded"
     THEN acked' = acked \cup {sent} /\ failure' = failure
     ELSE failure' = TRUE /\ acked' = acked
  /\ sent' = Null /\ reply' = Null
  /\ OneWriteSettled
  /\ UNCHANGED <<server, startup, queue, writer, crashes>>

Unanswered == IF sent # Null /\ reply = Null THEN {sent} ELSE {}

(* Mutant of TimesOut: the caller is told the write went through.          *)
TimesOutResolved ==
  /\ sent # Null
  /\ orphans' = orphans \cup Unanswered
  /\ acked' = acked \cup {sent}
  /\ failure' = TRUE
  /\ sent' = Null /\ reply' = Null
  /\ OneWriteSettled
  /\ UNCHANGED <<db, startup, queue, writer, crashes>>

(* query_timeout, or a connection lost with the answer on it.              *)
TimesOut ==
  /\ sent # Null
  /\ orphans' = orphans \cup Unanswered
  /\ failure' = TRUE
  /\ sent' = Null /\ reply' = Null
  /\ OneWriteSettled
  /\ UNCHANGED <<db, startup, queue, writer, acked, crashes>>

(* The set does not count copies: running one may leave another.           *)
OrphanRuns ==
  \E st \in orphans :
    /\ AppendMatchingJournal(st)
    /\ orphans' \in {orphans, orphans \ {st}}
    /\ UNCHANGED <<startup, tail, writer, calls, acked, crashes>>

OrphanDies ==
  \E st \in orphans :
    /\ orphans' = orphans \ {st}
    /\ UNCHANGED <<db, startup, tail, writer, calls, acked, crashes>>

-----------------------------------------------------------------------------
(* load() and close().                                                     *)

LoadCalled ==
  /\ load.phase = "idle"
  /\ load' = [load EXCEPT !.phase = "waiting", !.left = Pending,
                          !.covers = Len(journal)]
  /\ UNCHANGED <<server, startup, tail, writer, close, acked, crashes>>

(* Mutant of LoadChecks: load() reads without waiting the tail out.        *)
LoadChecksAtOnce ==
  /\ load.phase = "waiting"
  /\ load' = [load EXCEPT !.phase =
                IF failure \/ ~pool \/ ~ready THEN "refused" ELSE "reading"]
  /\ UNCHANGED <<server, startup, tail, writer, close, acked, crashes>>

LoadChecks ==
  /\ load.phase = "waiting" /\ load.left = 0
  /\ load' = [load EXCEPT !.phase =
                IF failure \/ ~pool \/ ~ready THEN "refused" ELSE "reading"]
  /\ UNCHANGED <<server, startup, tail, writer, close, acked, crashes>>

(* The rows; replayMatchingJournalStore attaches the engine they fold to.  *)
LoadReturns ==
  /\ load.phase = "reading"
  /\ load' = [load EXCEPT !.phase = "returned", !.rows = db]
  /\ \/ ~engine /\ engine' = TRUE /\ journal' = db
     \/ UNCHANGED writer
  /\ UNCHANGED <<server, startup, tail, close, acked, crashes>>

LoadFails ==
  /\ load.phase = "reading"
  /\ load' = [load EXCEPT !.phase = "refused"]
  /\ UNCHANGED <<server, startup, tail, writer, close, acked, crashes>>

CloseCalled ==
  /\ close.phase = "open"
  /\ closed' = TRUE
  /\ close' = [phase |-> "waiting", left |-> Pending, covers |-> Len(journal)]
  /\ UNCHANGED <<server, init, pool, ready, tail, writer, load, acked, crashes>>

CloseTakesPool ==
  /\ CloseIsDue
  /\ pool' = FALSE /\ ready' = FALSE
  /\ close' = [close EXCEPT !.phase = "ending"]
  /\ UNCHANGED <<server, init, closed, tail, writer, load, acked, crashes>>

CloseSettles ==
  /\ close.phase = "ending"
  /\ close' = [close EXCEPT !.phase = IF failure THEN "rejected" ELSE "resolved"]
  /\ UNCHANGED <<server, startup, tail, writer, load, acked, crashes>>

(* The process dies; a new one starts with a store of its own.             *)
Crash ==
  /\ crashes < MaxCrashes
  /\ crashes' = crashes + 1
  /\ orphans' = orphans \cup Unanswered
  /\ init' = "none" /\ pool' = FALSE /\ ready' = FALSE /\ closed' = FALSE
  /\ failure' = FALSE /\ queue' = << >> /\ sent' = Null /\ reply' = Null
  /\ engine' = FALSE /\ journal' = << >>
  /\ load' = NoLoad /\ close' = NoClose
  /\ UNCHANGED <<db, acked>>

-----------------------------------------------------------------------------
Calls ==
  \/ InitializeStarts \/ AttachFreshEngine
  \/ \E events \in Batches : AppendBatch(events)
  \/ LoadCalled \/ CloseCalled

Progress ==
  \/ Send \/ SendFails \/ ServerRuns \/ ServerAborts \/ Settle \/ TimesOut
  \/ CloseTakesPool \/ CloseSettles

Next ==
  \/ Calls \/ Progress
  \/ InitializeCreatesPool \/ InitializeEnds \/ InitializeFails
  \/ OrphanRuns \/ OrphanDies
  \/ LoadChecks \/ LoadReturns \/ LoadFails
  \/ Crash

Spec == Init /\ [][Next]_vars

(* What was started goes on: the event loop runs the queued callbacks, and *)
(* connectionTimeoutMillis, lock_timeout and query_timeout bound every     *)
(* wait for the server.  Nothing obliges an orphan to run.                 *)
FairSpec ==
  /\ Spec
  /\ WF_vars(Send \/ SendFails)
  /\ WF_vars(Settle \/ TimesOut)
  /\ WF_vars(CloseTakesPool)
  /\ WF_vars(CloseSettles)
-----------------------------------------------------------------------------
InitStates  == {"none", "importing", "checking", "done", "failed"}
LoadPhases  == {"idle", "waiting", "reading", "returned", "refused"}
ClosePhases == {"open", "waiting", "ending", "resolved", "rejected"}

(* Type invariant; an answer always belongs to the statement awaited.      *)
TypeOK ==
  /\ db \in Seq(Events)
  /\ orphans \subseteq Statement
  /\ init \in InitStates
  /\ pool \in BOOLEAN /\ ready \in BOOLEAN /\ closed \in BOOLEAN
  /\ failure \in BOOLEAN /\ engine \in BOOLEAN
  /\ queue \in Seq(Statement)
  /\ sent \in Statement \cup {Null}
  /\ reply \in {Null, "recorded", "refused"}
  /\ sent = Null => reply = Null
  /\ journal \in Seq(Events)
  /\ load \in [phase : LoadPhases, left : Nat, covers : Nat, rows : Seq(Events)]
  /\ close \in [phase : ClosePhases, left : Nat, covers : Nat]
  /\ acked \subseteq Statement
  /\ crashes \in Nat

Recorded(st) ==
  /\ LastSeq(st) <= Len(db)
  /\ \A k \in 1 .. Len(st.events) : db[st.first + k - 1] = st.events[k]

(* append() resolves "once the batch is durable": a resolved append stays  *)
(* recorded at its seq, through crashes, restarts and whatever statement   *)
(* of a dead process lands later.                                          *)
ResolvedAppendsAreDurable == \A st \in acked : Recorded(st)

(* The table is a log of whole operations: no interleaving of appends,     *)
(* redeliveries, timeouts and late statements records a part of a batch,   *)
(* or changes or drops an event (the append function "inserts atomically", *)
(* the table is append-only).                                              *)
Log == INSTANCE JournalLog WITH log <- db

RecordsWholeOperations == Log!Spec

(* Nothing is lost in silence: while the store is not latched, a writer    *)
(* with nothing pending has its whole stream recorded, also when a late    *)
(* statement of a dead process took the seq numbers it was about to use.   *)
UnlatchedWriterIsRecorded ==
  engine /\ ~failure /\ Pending = 0 => IsPrefixOf(journal, db)

(* Both barriers hold: close() resolves only when every append accepted    *)
(* before the call is recorded, load() returns every append accepted       *)
(* before the call or refuses.  Each waits the tail out and then looks at  *)
(* the latch.                                                              *)
BarriersSeeAppends ==
  /\ close.phase = "resolved" =>
       IsPrefixOf(SubSeq(journal, 1, close.covers), db)
  /\ load.phase = "returned" =>
       IsPrefixOf(SubSeq(journal, 1, load.covers), load.rows)

(* "No write may hang": a close() that waits on the tail settles, unless   *)
(* the process dies first.                                                 *)
CloseSettlesInTheEnd ==
  close.phase = "waiting" ~> close.phase \in {"resolved", "rejected", "open"}
=============================================================================
