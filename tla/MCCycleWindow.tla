---------------------------- MODULE MCCycleWindow ----------------------------
(* The calendar from December of one year to March of the second year       *)
(* after it: a February of 28 days, one of 29, and every pair of lengths.   *)
EXTENDS CycleWindow, Sequences, SequencesExt

Lengths == <<31, 31, 28, 31, 30, 31, 30, 31, 31, 30, 31, 30, 31, 31, 29, 31>>

CalendarDays == [m \in 0 .. Len(Lengths) |-> FoldSeq(+, 0, SubSeq(Lengths, 1, m))]
=============================================================================
