------------------------- MODULE WhatsAppMesajKredi -------------------------
(***************************************************************************)
(* The WhatsApp message credit wallet of one tenant                        *)
(* (src/tahsilatBildirim/whatsappMesajKredi.service.ts).                   *)
(*                                                                         *)
(* Every operation is one READ COMMITTED transaction.  The section between *)
(* SELECT .. FOR UPDATE on the wallet row and the commit excludes every    *)
(* other writer, so it is one step.  addCreditInTx and refundForJob read   *)
(* the ledger BEFORE they take that lock: those reads are steps of their   *)
(* own, other callers may commit in between, and the unique indexes of     *)
(* whatsapp_mesaj_kredi_hareketi (schema.prisma:1478-1508) are what is     *)
(* left to stop a duplicate (error P2002, which rolls the caller back).    *)
(***************************************************************************)
EXTENDS Ortak, Sequences, FiniteSetsExt

CONSTANTS
  Cagiran,     \* concurrent requests that call the wallet
  Is,          \* notification jobs
  Donem,       \* licence periods
  TalepId,     \* payments: the ids of package purchase requests
  YillikMiktar,    \* WHATSAPP_YILLIK_DAHIL_KREDI
  ManuelMiktar,    \* amounts an administrator adds or takes
  MaxManuel        \* bound: manual corrections in a behaviour

Referans == Is \cup Donem \cup TalepId

ASSUME MiktarVarsayimi ==
  /\ YillikMiktar \in Nat \ {0}
  /\ ManuelMiktar \subseteq Nat \ {0}
  /\ MaxManuel \in Nat

ASSUME ReferansVarsayimi ==
  /\ Yok \notin Referans
  /\ Is \cap Donem = {} /\ Is \cap TalepId = {} /\ Donem \cap TalepId = {}

VARIABLES
  bakiye,   \* whatsapp_mesaj_kredisi.bakiye
  defter,   \* whatsapp_mesaj_kredi_hareketi, in commit order
  cagri     \* what each caller has read before locking the wallet

krediVars == <<bakiye, defter, cagri>>

-----------------------------------------------------------------------------
(* Types *)

HareketTipi == {"PAKET_SATIN_ALMA", "YILLIK_DAHIL", "MANUEL_DUZELTME",
                "MESAJ_GONDERIM", "IADE"}

Hareket == [tip : HareketTipi, ref : Referans \cup {Yok}, miktar : Int,
            onceki : Int, sonraki : Int]

\* "tuketim": refundForJob has found no refund yet; "kilit": the reads before
\* the lock are done and the caller is about to lock and write this movement.
Cagri == [adim : {"bosta", "tuketim", "kilit"}, tip : HareketTipi \cup {Yok},
          ref : Referans \cup {Yok}, miktar : Int]

Bosta == [adim |-> "bosta", tip |-> Yok, ref |-> Yok, miktar |-> 0]

KrediTypeOK ==
  /\ bakiye \in Int
  /\ defter \in Seq(Hareket)
  /\ cagri \in [Cagiran -> Cagri]

-----------------------------------------------------------------------------
(* The ledger *)

Kayitli(tip, ref) ==
  \E i \in 1..Len(defter) : defter[i].tip = tip /\ defter[i].ref = ref

\* The unique indexes; a null column never collides.
CakisirMutant(tip, ref) == FALSE   \* mutant: the unique index is missing
Cakisir(tip, ref) == ref # Yok /\ Kayitli(tip, ref)

SonrakiHareketMutant(tip, ref, n) ==   \* mutant: a debit keeps its positive amount
  [tip |-> tip, ref |-> ref, miktar |-> IF n < 0 THEN -n ELSE n,
   onceki |-> bakiye, sonraki |-> bakiye + n]
SonrakiHareket(tip, ref, n) ==
  [tip |-> tip, ref |-> ref, miktar |-> n,
   onceki |-> bakiye, sonraki |-> bakiye + n]

\* The locked section: the balance read under the lock, the new balance and
\* the movement, in one commit.
HareketYaz(tip, ref, n) ==
  /\ bakiye' = bakiye + n
  /\ defter' = Append(defter, SonrakiHareket(tip, ref, n))

Manuel == {i \in 1..Len(defter) : defter[i].tip = "MANUEL_DUZELTME"}

-----------------------------------------------------------------------------
(* Operations *)

KrediInit ==
  /\ bakiye = 0
  /\ defter = << >>
  /\ cagri = [c \in Cagiran |-> Bosta]

\* The lookup of addCreditInTx: an existing movement for this payment or
\* period answers alreadyApplied and changes nothing, so only a call that
\* found none goes on to the lock.
AddCreditInTx(c, tip, ref, n) ==
  /\ cagri[c] = Bosta
  /\ ~Cakisir(tip, ref)
  /\ cagri' = [cagri EXCEPT ![c] = [adim |-> "kilit", tip |-> tip,
                                    ref |-> ref, miktar |-> n]]
  /\ UNCHANGED <<bakiye, defter>>

\* adjustManuelCredit, yon = EKLE.
ManuelEkle(c) ==
  /\ Cardinality(Manuel) < MaxManuel
  /\ \E n \in ManuelMiktar : AddCreditInTx(c, "MANUEL_DUZELTME", Yok, n)

\* adjustManuelCredit, yon = DUS: everything happens under the lock.
ManuelDus ==
  /\ Cardinality(Manuel) < MaxManuel
  /\ \E n \in ManuelMiktar : n <= bakiye /\ HareketYaz("MANUEL_DUZELTME", Yok, -n)
  /\ UNCHANGED cagri

\* grantAnnualIncludedCredits, after a licence period starts.
GrantAnnual(c) == \E d \in Donem : AddCreditInTx(c, "YILLIK_DAHIL", d, YillikMiktar)

\* consumeForJob: locks first, then looks for the job's charge.
BakiyeYeterMutant == TRUE   \* mutant: the balance check is dropped
BakiyeYeter == bakiye >= 1
ConsumeForJobMutant(j) ==   \* mutant: a movement type the enum does not have
  /\ ~Kayitli("MESAJ_GONDERIM", j)
  /\ BakiyeYeter
  /\ HareketYaz("GONDERIM", j, -1)
ConsumeForJob(j) ==
  /\ ~Kayitli("MESAJ_GONDERIM", j)
  /\ BakiyeYeter
  /\ HareketYaz("MESAJ_GONDERIM", j, -1)

\* refundForJob: is there a refund yet?
RefundForJob(c, j) ==
  /\ cagri[c] = Bosta
  /\ ~Kayitli("IADE", j)
  /\ cagri' = [cagri EXCEPT ![c] = [adim |-> "tuketim", tip |-> "IADE",
                                    ref |-> j, miktar |-> 1]]
  /\ UNCHANGED <<bakiye, defter>>

\* refundForJob: was the job charged?  If not the call is a no-op.
RefundTuketimMutant(c) ==   \* mutant: the charge is not looked up
  /\ cagri[c].adim = "tuketim"
  /\ cagri' = [cagri EXCEPT ![c].adim = "kilit"]
  /\ UNCHANGED <<bakiye, defter>>
RefundTuketim(c) ==
  /\ cagri[c].adim = "tuketim"
  /\ cagri' = IF Kayitli("MESAJ_GONDERIM", cagri[c].ref)
              THEN [cagri EXCEPT ![c].adim = "kilit"]
              ELSE [cagri EXCEPT ![c] = Bosta]
  /\ UNCHANGED <<bakiye, defter>>

\* The locked tail of addCreditInTx and refundForJob.  A unique index refuses
\* a movement that someone else wrote in the meantime (P2002): the caller
\* rolls back and answers alreadyApplied / alreadyRefunded.
KilitliYazMutant(c) ==   \* mutant: the balance is updated outside the transaction
  /\ cagri[c].adim = "kilit"
  /\ IF Cakisir(cagri[c].tip, cagri[c].ref)
     THEN bakiye' = bakiye + cagri[c].miktar /\ UNCHANGED defter
     ELSE HareketYaz(cagri[c].tip, cagri[c].ref, cagri[c].miktar)
  /\ cagri' = [cagri EXCEPT ![c] = Bosta]
KilitliYaz(c) ==
  /\ cagri[c].adim = "kilit"
  /\ IF Cakisir(cagri[c].tip, cagri[c].ref)
     THEN UNCHANGED <<bakiye, defter>>
     ELSE HareketYaz(cagri[c].tip, cagri[c].ref, cagri[c].miktar)
  /\ cagri' = [cagri EXCEPT ![c] = Bosta]

\* The connection or the process is lost before the commit.
CagriDuser(c) ==
  /\ cagri[c] # Bosta
  /\ cagri' = [cagri EXCEPT ![c] = Bosta]
  /\ UNCHANGED <<bakiye, defter>>

CagriAdimi(c) ==
  \/ ManuelEkle(c)
  \/ GrantAnnual(c)
  \/ \E j \in Is : RefundForJob(c, j)
  \/ RefundTuketim(c)
  \/ KilitliYaz(c)
  \/ CagriDuser(c)

KrediNext ==
  \/ ManuelDus
  \/ \E j \in Is : ConsumeForJob(j) /\ UNCHANGED cagri
  \/ \E c \in Cagiran : CagriAdimi(c)

KrediSpec == KrediInit /\ [][KrediNext]_krediVars

\* getWhatsAppMesajKrediOzet: what was added, corrections downwards aside, and
\* what messages took, those refunded since included.
Miktarlar == [i \in 1..Len(defter) |-> defter[i].miktar]
KrediToplami(S) == MapThenSumSet(LAMBDA i : Miktarlar[i], S)
Tipte(T) == {i \in 1..Len(defter) : defter[i].tip \in T}
Verilen == Tipte({"PAKET_SATIN_ALMA", "YILLIK_DAHIL", "MANUEL_DUZELTME"})
Eklenen == {i \in Verilen : defter[i].miktar > 0}
KrediOzeti ==
  LET k == KrediToplami(Tipte({"MESAJ_GONDERIM"})) IN
  [bakiye |-> bakiye, eklenen |-> KrediToplami(Eklenen), kullanilan |-> IF k < 0 THEN -k ELSE k]

-----------------------------------------------------------------------------
(* Properties *)

BakiyeDefterinSonucu ==
  /\ \A i \in 1..Len(defter) :
       /\ defter[i].onceki = IF i = 1 THEN 0 ELSE defter[i - 1].sonraki
       /\ defter[i].sonraki = defter[i].onceki + defter[i].miktar
  /\ bakiye = IF defter = << >> THEN 0 ELSE defter[Len(defter)].sonraki

BakiyeEksiyeDusmez ==
  /\ bakiye >= 0
  /\ \A i \in 1..Len(defter) : defter[i].sonraki >= 0

\* The figures of the overview explain the balance, once refunds and the
\* corrections downwards are known, which it does not show.
OzetBakiyeyeUyar ==
  KrediOzeti.bakiye = KrediOzeti.eklenen - KrediOzeti.kullanilan
                      + KrediToplami(Tipte({"IADE"})) + KrediToplami(Verilen \ Eklenen)

(* The balance can be recomputed from the ledger: every movement starts    *)
(* from the balance the previous one left, adds its amount, and the wallet *)
(* row holds what the last one left (a lost update between two callers,    *)
(* whose reads before the lock are lines 201-275 and 410-473, would break  *)
(* the chain); and no interleaving of corrections, charges and refunds     *)
(* leaves it negative, "Bakiye 0 altina inemez" (line 117); and the totals *)
(* of the overview (line 565), all read at one moment, add up to it.       *)
BakiyeSaglam == BakiyeDefterinSonucu /\ BakiyeEksiyeDusmez /\ OzetBakiyeyeUyar

(* A job is charged once and refunded once, a licence period and a payment *)
(* credited once, although two callers may both have found nothing before  *)
(* either wrote.                                                           *)
TekHareket ==
  \A i, k \in 1..Len(defter) :
    /\ i # k
    /\ defter[i].tip = defter[k].tip
    /\ defter[i].ref = defter[k].ref
    => defter[i].ref = Yok

(* A refund returns a charge made before it: no job earns credit from a    *)
(* message that was never paid for (refundForJob, line 438).               *)
IadeTuketimdenSonra ==
  \A i \in 1..Len(defter) :
    defter[i].tip = "IADE" =>
      \E k \in 1..(i - 1) : /\ defter[k].tip = "MESAJ_GONDERIM"
                            /\ defter[k].ref = defter[i].ref

Defter == INSTANCE KrediDefteri

(* The wallet keeps the ledger's contract: movements are appended with the *)
(* balance they leave, never edited or removed, whatever callers read      *)
(* before they took the lock ("Immutable ... hareket defteri",             *)
(* schema.prisma:1481).                                                    *)
DefterSozlesmesi == Defter!Sozlesme
=============================================================================
