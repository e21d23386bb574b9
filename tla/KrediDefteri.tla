---------------------------- MODULE KrediDefteri ----------------------------
(***************************************************************************)
(* What the WhatsApp message credit wallet of one tenant promises,         *)
(* independently of who calls it and of how calls interleave: a balance    *)
(* that is never negative and a ledger of movements that only grows.  A    *)
(* movement is written together with the balance it leaves, a movement     *)
(* that carries a reference (a job, a licence period, a payment) is        *)
(* written at most once per type, and a refund follows the charge it       *)
(* returns.  WhatsAppMesajKredi is shown to implement this.                *)
(***************************************************************************)
EXTENDS Integers, Sequences

CONSTANTS
  Referans,  \* jobs, licence periods and payments
  Yok        \* a movement without a reference

Tip == {"PAKET_SATIN_ALMA", "YILLIK_DAHIL", "MANUEL_DUZELTME",
        "MESAJ_GONDERIM", "IADE"}

VARIABLES bakiye, defter

Kaydedildi(tip, ref) ==
  \E i \in 1..Len(defter) : defter[i].tip = tip /\ defter[i].ref = ref

Baslangic == bakiye = 0 /\ defter = << >>

Kaydet(tip, ref, miktar) ==
  /\ bakiye + miktar >= 0
  /\ ref # Yok => ~Kaydedildi(tip, ref)
  /\ tip = "IADE" => Kaydedildi("MESAJ_GONDERIM", ref)
  /\ bakiye' = bakiye + miktar
  /\ defter' = Append(defter, [tip |-> tip, ref |-> ref, miktar |-> miktar,
                               onceki |-> bakiye, sonraki |-> bakiye + miktar])

\* The amount is whatever the balance moved by.
Adim == \E tip \in Tip, ref \in Referans \cup {Yok} :
          Kaydet(tip, ref, bakiye' - bakiye)

Sozlesme == Baslangic /\ [][Adim]_<<bakiye, defter>>
=============================================================================
