---------------------------- MODULE MCPaketTalep ----------------------------
(* Purchase requests for TLC: administrators, users and requests are       *)
(* interchangeable; a job spends credit meanwhile.                         *)
EXTENDS PaketTalep, TLC

Simetri == Permutations(Yonetici) \cup Permutations(Buro) \cup Permutations(TalepId)
=============================================================================
