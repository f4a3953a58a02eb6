----------------------------- MODULE JournalLog -----------------------------
(***************************************************************************)
(* What a durable matching journal promises whoever restores from it: a    *)
(* log that only ever grows, and only by the whole batch of one operation. *)
(***************************************************************************)
EXTENDS Sequences

CONSTANT Batches  \* the event batches an operation can emit

VARIABLE log

Init == log = << >>

Record(batch) == log' = log \o batch

Next == \E batch \in Batches : Record(batch)

Spec == Init /\ [][Next]_log
=============================================================================
