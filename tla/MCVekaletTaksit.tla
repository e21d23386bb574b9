-------------------------- MODULE MCVekaletTaksit --------------------------
(* Instalments for TLC: payments and requests are interchangeable,         *)
(* instalments are not (they fall due in order).                           *)
EXTENDS VekaletTaksit, TLC

Simetri == Permutations(Odeme) \cup Permutations(Istek)
=============================================================================
