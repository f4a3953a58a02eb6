--------------------------- MODULE MCJournalStore ---------------------------
(* Small instances of the durable journal store for TLC. *)
EXTENDS JournalStore

CONSTANTS
  reject,  \* a refused call
  accept,  \* an order accepted ...
  rests,   \* ... that rests
  fills    \* ... after an execution

MCEvents  == {reject, accept, rests, fills}
MCOpeners == {reject, accept}
MCBatches == {<<reject>>, <<accept, rests>>, <<accept, fills, rests>>}
=============================================================================
