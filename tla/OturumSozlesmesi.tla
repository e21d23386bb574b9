-------------------------- MODULE OturumSozlesmesi --------------------------
(***************************************************************************)
(* What a sign-in promises, whatever requests overlap.  A session (a       *)
(* family of refresh tokens) is open while one of its tokens is valid.  A  *)
(* renewal takes the token and hands out the next one; in between the      *)
(* session hangs on that one renewal.  A session that has ended never      *)
(* comes back.  Oturum is shown to implement this.                         *)
(***************************************************************************)
CONSTANT Aile

VARIABLE oturum   \* per family: "yok", "acik", "askida" or "bitti"

Baslangic == oturum = [f \in Aile |-> "yok"]

Gecis(f, once, sonra) ==
  /\ oturum[f] = once
  /\ oturum' = [oturum EXCEPT ![f] = sonra]

Ac(f) == Gecis(f, "yok", "acik")          \* sign-in
Al(f) == Gecis(f, "acik", "askida")       \* a renewal takes the token
Ver(f) == Gecis(f, "askida", "acik")      \* ... and hands out the next
Dusur(f) == Gecis(f, "askida", "bitti")   \* ... or is lost

\* Sign-out, one session or all that are open: hanging ones are not reached.
Kapat ==
  /\ oturum' \in [Aile -> {"yok", "acik", "askida", "bitti"}]
  /\ \A f \in Aile : oturum'[f] # oturum[f] => oturum[f] = "acik" /\ oturum'[f] = "bitti"

Adim == Kapat \/ \E f \in Aile : Ac(f) \/ Al(f) \/ Ver(f) \/ Dusur(f)

Sozlesme == Baslangic /\ [][Adim]_oturum
=============================================================================
