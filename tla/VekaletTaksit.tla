--------------------------- MODULE VekaletTaksit ---------------------------
(***************************************************************************)
(* The instalments of one attorney fee (vekalet ucreti), the payments      *)
(* taken against them and the office cash income row each payment creates. *)
(* Every handler reads, decides and writes; some lock the instalment row   *)
(* first, some only the payment row, some nothing at all.  A request that  *)
(* decides outside the lock is two actions, "...Oku" (what it read) and    *)
(* "...Yaz" (its commit), and other requests run between them.             *)
(*                                                                         *)
(* One currency: an income row has the amount of its payment.  Instalments *)
(* are numbered in the order they fall due.  Row locks are kept in the     *)
(* request that holds them: an advance payment locks instalments, a        *)
(* cancellation its payment.                                               *)
(***************************************************************************)
EXTENDS Ortak, FiniteSetsExt, Functions

CONSTANTS
  Taksit,        \* instalments, numbered in due order
  Odeme,         \* payments that can be recorded (bounds the run)
  Istek,         \* requests, each served once (bounds the run)
  IlkTutar,      \* the amount of every instalment in the plan
  TutarSecenek,  \* amounts an instalment can be edited to (bounds the run)
  MaxTutar       \* the largest share of a payment (bounds the run)

ASSUME TaksitAssumption == Taksit \subseteq Nat
ASSUME OdemeAssumption == IsFiniteSet(Odeme)
ASSUME TutarAssumption == /\ IlkTutar \in Nat \ {0}
                          /\ TutarSecenek \subseteq Nat \ {0}
                          /\ MaxTutar \in Nat

VARIABLES
  ucret,    \* the fee: AKTIF or IPTAL
  taksit,   \* per instalment: odemeDurumu and tutar
  odeme,    \* per payment: its instalment, amount, iptalAt and SMM mark
  gelir,    \* per payment: the income row of the office cash
  istek,    \* requests in flight
  gecmis    \* history only, read by no action: see Cakisan, Sonradan, Yaris

vars == <<ucret, taksit, odeme, gelir, istek, gecmis>>

TaksitDurum == {"ODENMEDI", "KISMI_ODENDI", "ODENDI", "IPTAL"}

(* Reading the tables. *)

\* isTahsilatOdemeAktif: not cancelled, and its income row, if it still has
\* one, not soft-deleted.  A hard delete (SILINDI) only clears the link.
Aktif(o) == odeme[o].durum = "GECERLI" /\ gelir[o].durum # "IPTAL"

Odemeleri(t) == {o \in Odeme : odeme[o].taksit = t}
Toplam(S) == MapThenSumSet(LAMBDA o : odeme[o].tutar, S)
Odenen(t, haric) == Toplam({o \in Odemeleri(t) \ haric : Aktif(o)})
Kalan(tutar, odenen) == Max({0, tutar - odenen})

\* The status syncTaksitOdemeDurumu derives from the active payments.
EsDurum(tutar, odenen) ==
  IF odenen = 0 THEN "ODENMEDI"
  ELSE IF odenen < tutar THEN "KISMI_ODENDI" ELSE "ODENDI"

\* ... and what it writes: nothing on a cancelled instalment.
Esle(t, odenen) ==
  IF taksit[t].durum = "IPTAL" THEN taksit[t]
  ELSE [taksit[t] EXCEPT !.durum = EsDurum(taksit[t].tutar, odenen)]

\* The same, read now and written later.
EsleOku(t, haric) ==
  IF taksit[t].durum = "IPTAL" THEN Yok
  ELSE EsDurum(taksit[t].tutar, Odenen(t, haric))

Acik(t) == taksit[t].durum \in {"ODENMEDI", "KISMI_ODENDI"}

(* Row locks held from one step of a request to its commit. *)

Kilitli(t) ==
  \E b \in Istek : istek[b].adim \in {"kilitli", "dagitti"} /\ t \in istek[b].kilit
OdemeKilitli(o) ==
  \E b \in Istek : istek[b].adim = "iptal" /\ istek[b].odeme = o

(* History. *)

Suren(adimlar, o) ==
  \E b \in Istek : istek[b].adim \in adimlar /\ istek[b].odeme = o

\* Instalments whose amount and payments were changed by overlapping requests.
Cakisan(T) == [gecmis EXCEPT !.cakisan = @ \cup T]
Duzenlenen(T) ==
  {t \in T : \E b \in Istek : /\ istek[b].adim = "duzenle" /\ istek[b].taksit = t
                              /\ istek[b].tutar # Yok}

\* Payments recorded while the fee was being cancelled, or later.
UcretSiliniyor == ucret = "IPTAL" \/ \E b \in Istek : istek[b].adim = "ucretSil"

----------------------------------------------------------------------------
Init ==
  /\ ucret = "AKTIF"
  /\ taksit = [t \in Taksit |-> [durum |-> "ODENMEDI", tutar |-> IlkTutar]]
  /\ odeme = [o \in Odeme |->
                [durum |-> "YOK", taksit |-> Yok, tutar |-> 0, smm |-> FALSE]]
  /\ gelir = [o \in Odeme |-> [durum |-> "YOK", tutar |-> 0, onayli |-> FALSE]]
  /\ istek = [a \in Istek |-> Bos]
  /\ gecmis = [cakisan |-> {}, sonradan |-> {}, yaris |-> {}]

Basla(a, yeni) == istek[a] = Bos /\ istek' = [istek EXCEPT ![a] = yeni]
Bitir(a) == istek' = [istek EXCEPT ![a] = Bitti]

Payi(plan) == {t \in Taksit : plan[t] > 0}

\* createVekaletOdemeInTx, for each instalment with a share in plan: the
\* payment, its unapproved income row, and the status of the instalment.
OdemeEkle(plan, cakisan) ==
  \E S \in SUBSET {o \in Odeme : odeme[o].durum = "YOK"} :
    \E g \in Bijection(S, Payi(plan)) :
      /\ odeme' = [o \in Odeme |->
           IF o \in S THEN [durum |-> "GECERLI", taksit |-> g[o],
                            tutar |-> plan[g[o]], smm |-> FALSE]
           ELSE odeme[o]]
      /\ gelir' = [o \in Odeme |->
           IF o \in S
           THEN [durum |-> "CANLI", tutar |-> plan[g[o]], onayli |-> FALSE]
           ELSE gelir[o]]
      /\ taksit' = [t \in Taksit |->
           IF t \in Payi(plan) THEN Esle(t, Odenen(t, {}) + plan[t]) ELSE taksit[t]]
      /\ gecmis' = [gecmis EXCEPT
           !.cakisan = @ \cup cakisan \cup Duzenlenen(Payi(plan)),
           !.sonradan = @ \cup (IF UcretSiliniyor THEN S ELSE {})]

(* A payment on one instalment: decided and written under its row lock. *)

TekOdeMutant(t, n) ==   \* mutant: SELECT ... FOR UPDATE is missing
  /\ taksit[t].durum # "IPTAL"
  /\ n <= Kalan(taksit[t].tutar, Odenen(t, {}))
  /\ OdemeEkle([u \in Taksit |-> IF u = t THEN n ELSE 0], {})
  /\ UNCHANGED <<ucret, istek>>

TekOde(t, n) ==
  /\ ~Kilitli(t)
  /\ taksit[t].durum # "IPTAL"
  /\ n <= Kalan(taksit[t].tutar, Odenen(t, {}))
  /\ OdemeEkle([u \in Taksit |-> IF u = t THEN n ELSE 0], {})
  /\ UNCHANGED <<ucret, istek>>

(* An advance payment, spread over the open instalments in due order.  It  *)
(* locks the open instalments, then reads the open instalments again.      *)

PesinBasla(a) ==
  /\ ucret = "AKTIF"
  /\ \E t \in Taksit : Acik(t)
  /\ Basla(a, [adim |-> "pesin"])
  /\ UNCHANGED <<ucret, taksit, odeme, gelir, gecmis>>

PesinKilitle(a) ==
  LET aciklar == {t \in Taksit : Acik(t)} IN
  /\ istek[a].adim = "pesin"
  /\ \A t \in aciklar : ~Kilitli(t)
  /\ istek' = [istek EXCEPT ![a] = [adim |-> "kilitli", kilit |-> aciklar]]
  /\ UNCHANGED <<ucret, taksit, odeme, gelir, gecmis>>

\* A plan spreads an advance over the open instalments in due order: an
\* instalment gets a share only when the ones due before it are filled.
SiraylaDagitir(plan) ==
  LET kalan(t) == IF Acik(t) THEN Kalan(taksit[t].tutar, Odenen(t, {})) ELSE 0 IN
  /\ Payi(plan) # {}
  /\ \A t \in Taksit : plan[t] <= kalan(t)
  /\ \A t \in Payi(plan) : \A u \in Taksit : u < t => plan[u] = kalan(u)

PesinOku(a, plan) ==
  /\ istek[a].adim = "kilitli"
  /\ SiraylaDagitir(plan)
  /\ istek' = [istek EXCEPT ![a] =
       [adim |-> "dagitti", kilit |-> istek[a].kilit, plan |-> plan]]
  /\ UNCHANGED <<ucret, taksit, odeme, gelir, gecmis>>

PesinYaz(a) ==
  LET plan     == istek[a].plan
      kilitsiz == Payi(plan) \ istek[a].kilit IN
  /\ istek[a].adim = "dagitti"
  /\ \A t \in kilitsiz : ~Kilitli(t)
  /\ OdemeEkle(plan, kilitsiz)
  /\ Bitir(a)
  /\ UNCHANGED ucret

(* Editing a payment: the instalment's status and amount and the approval  *)
(* of the income are read before the lock, the other payments after it.    *)

GuncelleOkuMutant(a, o) ==   \* mutant: the approval of the income is not tested
  /\ odeme[o].durum # "YOK" /\ taksit[odeme[o].taksit].durum # "IPTAL"
  /\ Basla(a, [adim |-> "guncelle", odeme |-> o, bagli |-> gelir[o].durum # "SILINDI",
               tutar |-> taksit[odeme[o].taksit].tutar])
  /\ UNCHANGED <<ucret, taksit, odeme, gelir, gecmis>>

GuncelleOku(a, o) ==
  /\ odeme[o].durum # "YOK"
  /\ taksit[odeme[o].taksit].durum # "IPTAL"
  /\ gelir[o].durum # "SILINDI" => ~gelir[o].onayli
  /\ Basla(a, [adim |-> "guncelle", odeme |-> o, bagli |-> gelir[o].durum # "SILINDI",
               tutar |-> taksit[odeme[o].taksit].tutar])
  /\ UNCHANGED <<ucret, taksit, odeme, gelir, gecmis>>

GuncelleYaz(a, n) ==
  LET o == istek[a].odeme
      t == odeme[o].taksit
      digerleri == Odenen(t, {o}) IN
  /\ istek[a].adim = "guncelle"
  /\ ~Kilitli(t) /\ ~OdemeKilitli(o)
  /\ n <= Kalan(istek[a].tutar, digerleri)
  /\ istek[a].bagli => gelir[o].durum # "SILINDI"
  /\ odeme' = [odeme EXCEPT ![o].tutar = n]
  /\ gelir' = [gelir EXCEPT ![o].tutar = IF istek[a].bagli THEN n ELSE @]
  /\ taksit' = [taksit EXCEPT ![t] =
       Esle(t, digerleri + (IF Aktif(o) THEN n ELSE 0))]
  /\ gecmis' = Cakisan(Duzenlenen({t}))
  /\ Bitir(a)
  /\ UNCHANGED ucret

(* Cancelling a payment: only the payment row is locked, and the status of *)
(* the instalment is computed before its row can be waited for.  Repeating *)
(* it on a cancelled payment changes nothing but writes the status again.  *)

IptalOku(a, o) ==
  /\ odeme[o].durum # "YOK"
  /\ ~OdemeKilitli(o)
  /\ Basla(a, [adim |-> "iptal", odeme |-> o,
               durum |-> EsleOku(odeme[o].taksit, {o})])
  /\ UNCHANGED <<ucret, taksit, odeme, gelir, gecmis>>

DurumYaz(t, durum) ==
  /\ durum # Yok => ~Kilitli(t)
  /\ taksit' = [taksit EXCEPT ![t].durum = IF durum = Yok THEN @ ELSE durum]

GelirKapatMutant(S) ==   \* mutant: an approved income row is left alone
  gelir' = [o \in Odeme |-> IF o \in S /\ gelir[o].durum = "CANLI" /\ ~gelir[o].onayli
                            THEN [gelir[o] EXCEPT !.durum = "IPTAL"] ELSE gelir[o]]

GelirKapat(S) ==
  gelir' = [o \in Odeme |-> IF o \in S /\ gelir[o].durum = "CANLI"
                            THEN [gelir[o] EXCEPT !.durum = "IPTAL"] ELSE gelir[o]]

IptalYaz(a) ==
  LET o == istek[a].odeme IN
  /\ istek[a].adim = "iptal"
  /\ odeme' = [odeme EXCEPT ![o].durum = "IPTAL"]
  /\ GelirKapat({o})
  /\ DurumYaz(odeme[o].taksit, istek[a].durum)
  /\ Bitir(a)
  /\ UNCHANGED <<ucret, gecmis>>

(* Marking a payment's SMM invoice: the status is synchronised afterwards, *)
(* from what was read, with no lock.                                       *)

SmmOku(a, o) ==
  /\ odeme[o].durum # "YOK" /\ ~odeme[o].smm
  /\ ~OdemeKilitli(o)
  /\ odeme' = [odeme EXCEPT ![o].smm = TRUE]
  /\ Basla(a, [adim |-> "esle", odeme |-> o, durum |-> EsleOku(odeme[o].taksit, {})])
  /\ UNCHANGED <<ucret, taksit, gelir, gecmis>>

EsleYaz(a) ==
  /\ istek[a].adim = "esle"
  /\ DurumYaz(odeme[istek[a].odeme].taksit, istek[a].durum)
  /\ Bitir(a)
  /\ UNCHANGED <<ucret, odeme, gelir, gecmis>>

(* Editing an instalment: checked against what was read, written by id.    *)

DuzenleOku(a, t, m, d) ==
  /\ taksit[t].durum # "IPTAL"
  /\ m # Yok => /\ m >= Toplam(Odemeleri(t))
                /\ taksit[t].durum = "ODENDI" => m = taksit[t].tutar
  /\ Basla(a, [adim |-> "duzenle", taksit |-> t, tutar |-> m, durum |-> d])
  /\ UNCHANGED <<ucret, taksit, odeme, gelir, gecmis>>

DuzenleYazMutant(a) ==   \* mutant: an amount that was not given is written
  /\ istek[a].adim = "duzenle"
  /\ ~Kilitli(istek[a].taksit)
  /\ taksit' = [taksit EXCEPT ![istek[a].taksit].tutar = istek[a].tutar]
  /\ Bitir(a)
  /\ UNCHANGED <<ucret, odeme, gelir, gecmis>>

DuzenleYaz(a) ==
  LET t == istek[a].taksit IN
  /\ istek[a].adim = "duzenle"
  /\ ~Kilitli(t)
  /\ taksit' = [taksit EXCEPT
       ![t].tutar = IF istek[a].tutar = Yok THEN @ ELSE istek[a].tutar,
       ![t].durum = IF istek[a].durum = Yok THEN @ ELSE istek[a].durum]
  /\ gecmis' = Cakisan({u \in {t} : /\ istek[a].tutar # Yok
                                    /\ \E o \in Odemeleri(u) : Suren({"guncelle"}, o)})
  /\ Bitir(a)
  /\ UNCHANGED <<ucret, odeme, gelir>>

(* Safe deletion of an instalment: "has no payment" is checked before the  *)
(* transaction, and the transaction cancels the row by its id.             *)

TaksitSilOku(a, t) ==
  /\ taksit[t].durum # "IPTAL"
  /\ \A o \in Odemeleri(t) : ~Aktif(o)
  /\ Basla(a, [adim |-> "taksitSil", taksit |-> t])
  /\ UNCHANGED <<ucret, taksit, odeme, gelir, gecmis>>

TaksitSilYaz(a) ==
  /\ istek[a].adim = "taksitSil"
  /\ ~Kilitli(istek[a].taksit)
  /\ taksit' = [taksit EXCEPT ![istek[a].taksit].durum = "IPTAL"]
  /\ Bitir(a)
  /\ UNCHANGED <<ucret, odeme, gelir, gecmis>>

(* Cancelling the fee.  The owner confirms an impact analysis, whose       *)
(* fingerprint lists the active payments of instalments not cancelled; the *)
(* transaction locks the fee, compares with all active payments, and       *)
(* cancels those, every instalment and the fee.                            *)

UcretAnaliz(a) ==
  /\ ucret = "AKTIF"
  /\ Basla(a, [adim |-> "analiz",
       goren |-> {<<o, odeme[o].tutar>> : o \in
         {p \in Odeme : Aktif(p) /\ taksit[odeme[p].taksit].durum # "IPTAL"}}])
  /\ UNCHANGED <<ucret, taksit, odeme, gelir, gecmis>>

UcretSilOkuMutant1(a) ==   \* mutant: payments of cancelled instalments are skipped
  LET aktifler == {o \in Odeme : Aktif(o) /\ taksit[odeme[o].taksit].durum # "IPTAL"} IN
  /\ istek[a].adim = "analiz" /\ ucret = "AKTIF"
  /\ {<<o, odeme[o].tutar>> : o \in aktifler} = istek[a].goren
  /\ istek' = [istek EXCEPT ![a] =
       [adim |-> "ucretSil", goren |-> @.goren, silinecek |-> aktifler]]
  /\ UNCHANGED <<ucret, taksit, odeme, gelir, gecmis>>

UcretSilOkuMutant2(a) ==   \* mutant: the fingerprint is not compared again
  /\ istek[a].adim = "analiz" /\ ucret = "AKTIF"
  /\ istek' = [istek EXCEPT ![a] = [adim |-> "ucretSil", goren |-> @.goren,
                                    silinecek |-> {o \in Odeme : Aktif(o)}]]
  /\ UNCHANGED <<ucret, taksit, odeme, gelir, gecmis>>

UcretSilOku(a) ==
  LET aktifler == {o \in Odeme : Aktif(o)} IN
  /\ istek[a].adim = "analiz"
  /\ ucret = "AKTIF"
  /\ \A b \in Istek : istek[b].adim # "ucretSil"
  /\ {<<o, odeme[o].tutar>> : o \in aktifler} = istek[a].goren
  /\ istek' = [istek EXCEPT ![a] =
       [adim |-> "ucretSil", goren |-> @.goren, silinecek |-> aktifler]]
  /\ UNCHANGED <<ucret, taksit, odeme, gelir, gecmis>>

UcretSilYaz(a) ==
  LET S == istek[a].silinecek IN
  /\ istek[a].adim = "ucretSil"
  /\ \A t \in Taksit : ~Kilitli(t)
  /\ \A o \in S : ~OdemeKilitli(o)
  /\ ucret' = "IPTAL"
  /\ odeme' = [o \in Odeme |-> IF o \in S THEN [odeme[o] EXCEPT !.durum = "IPTAL"]
                               ELSE odeme[o]]
  /\ GelirKapat(S)
  /\ taksit' = [t \in Taksit |-> [taksit[t] EXCEPT !.durum = "IPTAL"]]
  /\ Bitir(a)
  /\ UNCHANGED gecmis

(* The office cash: approving an income row, and deleting one that is not  *)
(* approved.  The foreign key clears the payment's link, so the payment    *)
(* stays active without an income.                                         *)

GelirOnayla(o) ==
  /\ gelir[o].durum = "CANLI" /\ ~gelir[o].onayli
  /\ ~OdemeKilitli(o)
  /\ gelir' = [gelir EXCEPT ![o].onayli = TRUE]
  /\ gecmis' = [gecmis EXCEPT !.yaris =
       @ \cup {p \in {o} : Suren({"guncelle", "gelirSil"}, p)}]
  /\ UNCHANGED <<ucret, taksit, odeme, istek>>

GelirSilOku(a, o) ==
  /\ gelir[o].durum = "CANLI" /\ ~gelir[o].onayli
  /\ Basla(a, [adim |-> "gelirSil", odeme |-> o])
  /\ UNCHANGED <<ucret, taksit, odeme, gelir, gecmis>>

GelirSilYaz(a) ==
  LET o == istek[a].odeme IN
  /\ istek[a].adim = "gelirSil"
  /\ gelir[o].durum # "SILINDI"
  /\ ~OdemeKilitli(o)
  /\ gelir' = [gelir EXCEPT ![o].durum = "SILINDI"]
  /\ Bitir(a)
  /\ UNCHANGED <<ucret, taksit, odeme, gecmis>>

\* A request dies before its commit: refused, timed out, or the victim of a
\* deadlock between a payment row and an instalment row.
IstekDuser(a) ==
  /\ istek[a] \notin {Bos, Bitti}
  /\ Bitir(a)
  /\ UNCHANGED <<ucret, taksit, odeme, gelir, gecmis>>

----------------------------------------------------------------------------
TekOdeAdim == \E t \in Taksit, n \in 1..MaxTutar : TekOde(t, n)
PesinOkuAdim(a) == \E plan \in [Taksit -> 0..MaxTutar] : PesinOku(a, plan)
GuncelleYazAdim(a) == \E n \in 1..MaxTutar : GuncelleYaz(a, n)
\* The status an edit asks for, or the one it read when it only gives a date.
DuzenleOkuAdim(a) ==
  \E t \in Taksit, m \in TutarSecenek \cup {Yok} :
    \E d \in {"ODENMEDI", "ODENDI", taksit[t].durum, Yok} : DuzenleOku(a, t, m, d)

Next ==
  \/ TekOdeAdim
  \/ \E o \in Odeme : GelirOnayla(o)
  \/ \E a \in Istek :
       \/ PesinBasla(a) \/ PesinKilitle(a) \/ PesinOkuAdim(a) \/ PesinYaz(a)
       \/ \E o \in Odeme : \/ GuncelleOku(a, o) \/ IptalOku(a, o)
                           \/ SmmOku(a, o)      \/ GelirSilOku(a, o)
       \/ GuncelleYazAdim(a) \/ IptalYaz(a) \/ EsleYaz(a) \/ GelirSilYaz(a)
       \/ DuzenleOkuAdim(a) \/ DuzenleYaz(a)
       \/ \E t \in Taksit : TaksitSilOku(a, t)
       \/ TaksitSilYaz(a)
       \/ UcretAnaliz(a) \/ UcretSilOku(a) \/ UcretSilYaz(a)
       \/ IstekDuser(a)

Spec == Init /\ [][Next]_vars

----------------------------------------------------------------------------
OdemeKaydi == [durum : {"YOK", "GECERLI", "IPTAL"}, taksit : Taksit \cup {Yok},
               tutar : Nat, smm : BOOLEAN]
GelirKaydi == [durum : {"YOK", "CANLI", "IPTAL", "SILINDI"}, tutar : Nat,
               onayli : BOOLEAN]
IstekKaydi ==
  {Bos, Bitti, [adim |-> "pesin"]}
  \cup [adim : {"kilitli"}, kilit : SUBSET Taksit]
  \cup [adim : {"dagitti"}, kilit : SUBSET Taksit, plan : [Taksit -> Nat]]
  \cup [adim : {"guncelle"}, odeme : Odeme, bagli : BOOLEAN, tutar : Nat]
  \cup [adim : {"iptal", "esle"}, odeme : Odeme, durum : TaksitDurum \cup {Yok}]
  \cup [adim : {"duzenle"}, taksit : Taksit, tutar : Nat \cup {Yok},
        durum : TaksitDurum \cup {Yok}]
  \cup [adim : {"taksitSil"}, taksit : Taksit]
  \cup [adim : {"gelirSil"}, odeme : Odeme]
  \cup [adim : {"analiz"}, goren : SUBSET (Odeme \X Nat)]
  \cup [adim : {"ucretSil"}, goren : SUBSET (Odeme \X Nat), silinecek : SUBSET Odeme]

\* The type invariant of the fee, its instalments, payments and requests.
TypeOK ==
  /\ ucret \in {"AKTIF", "IPTAL"}
  /\ taksit \in [Taksit -> [durum : TaksitDurum, tutar : Nat]]
  /\ odeme \in [Odeme -> OdemeKaydi]
  /\ gelir \in [Odeme -> GelirKaydi]
  /\ istek \in [Istek -> IstekKaydi]
  /\ gecmis \in [cakisan : SUBSET Taksit, sonradan : SUBSET Odeme, yaris : SUBSET Odeme]

\* Money in the office cash is money a client paid: a live income row has its
\* payment, not cancelled and of the same amount, whatever edits, cancellations
\* and deletions overlap (createVekaletOdemeInTx, updateVekaletTaksitOdeme,
\* applyVekaletTahsilatIptalInTx, guvenliVekaletUcretiSil).
GelirinOdemesiVar ==
  \A o \in Odeme : gelir[o].durum = "CANLI" =>
    odeme[o].durum = "GECERLI" /\ odeme[o].tutar = gelir[o].tutar

\* The active payments of an instalment exceed its amount only where two
\* requests overlapped: an edit of the amount with a payment, or an advance
\* payment on an instalment it had not locked.  Every other interleaving of
\* payments, edits and cancellations stays within the amount.
AsimCakismada ==
  \A t \in Taksit : Odenen(t, {}) > taksit[t].tutar => t \in gecmis.cakisan

\* Cancelling a fee cancels all its payments: the ones still active afterwards
\* were recorded while the cancellation ran, or later on an instalment that a
\* stale write had reopened (guvenliVekaletUcretiSil).
IptalUcretteOdemeSonradan ==
  ucret = "IPTAL" =>
    \A o \in Odeme : Aktif(o) => o \in gecmis.sonradan

\* An approved income keeps its amount and is not deleted, except by a request
\* that had read it before the approval (assertOfisHareketGuncellenebilir,
\* deleteOfisKasaHareketi).
OnayliGelirSabit ==
  [][\A o \in Odeme : gelir[o].durum = "CANLI" /\ gelir[o].onayli =>
       \/ gelir'[o].tutar = gelir[o].tutar /\ gelir'[o].durum # "SILINDI"
       \/ o \in gecmis.yaris]_vars

\* The fee cancellation cancels no payment that was missing from the impact
\* analysis its owner confirmed (assertVekaletSilFingerprintMatch).
GorulmeyenIptalOlmaz ==
  [][\A o \in Odeme :
       ucret # ucret' /\ Aktif(o) /\ ~Aktif(o)' =>
         \E a \in Istek : /\ istek[a].adim = "ucretSil"
                          /\ \E g \in istek[a].goren : g[1] = o]_vars

\* What the row locks are documented to give: active payments never exceed the
\* amount of their instalment.
OdemeAsmaz == \A t \in Taksit : Odenen(t, {}) <= taksit[t].tutar

\* What the safe deletion of an instalment says it refuses: a cancelled
\* instalment has no active payment.
IptalTaksitOdemesiz ==
  \A t \in Taksit : taksit[t].durum = "IPTAL" => \A o \in Odemeleri(t) : ~Aktif(o)
=============================================================================
