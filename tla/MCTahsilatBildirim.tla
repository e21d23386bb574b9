------------------------- MODULE MCTahsilatBildirim -------------------------
(* Small instances of the reminder pipeline for TLC.                       *)
EXTENDS TahsilatBildirim, TLC

\* Jobs are due in the order of their numbers.
Sira == [j \in Is |-> j]

\* Overlapping runs and concurrent planners are interchangeable.
Simetri == Permutations(Isci) \cup Permutations(Planci)
=============================================================================
