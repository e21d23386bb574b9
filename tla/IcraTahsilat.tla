---------------------------- MODULE IcraTahsilat ----------------------------
(***************************************************************************)
(* Enforcement collections (icraTahsilat.service.ts): one debt, its        *)
(* instalments and their payments.  Every operation reads the rows it      *)
(* checks before it writes and takes no lock; a payment and its income row *)
(* are one transaction.  The income row can be cancelled (guvenliOfis-     *)
(* HareketSil: the payment no longer counts) or, while unapproved, deleted *)
(* (the payment stays and counts).  Amounts are small integers in place of *)
(* cents.                                                                  *)
(***************************************************************************)
EXTENDS Ortak, FiniteSetsExt

CONSTANTS IToplam, IAdet, IOdeme, IIstek   \* amounts, most instalments, payments, requests

INo == 1..IAdet

\* Rows of a claim and of its payments.
IcraSatiri == [toplam : IToplam, pesinat : IToplam \cup {0}, iptal : BOOLEAN, elle : BOOLEAN]
IOdemeSatiri == [t : INo \cup {0, Yok}, tutar : IToplam, gelir : {"canli", "silindi", "yok"}, iptalde : BOOLEAN]
IDurumlar == {"IPTAL", "ODENDI", "GECIKTI", "KISMI_ODENDI", "ACIK"}

ASSUME IcraVarsayimi ==
  /\ IToplam \subseteq Nat \ {0} /\ IAdet \in Nat /\ IIstek \subseteq Nat
  /\ IOdeme \subseteq Nat /\ IsFiniteSet(IOdeme)
  /\ Yok \notin Int \cup IDurumlar \cup IcraSatiri \cup IOdemeSatiri

VARIABLES
  icra,        \* the debt: [toplam, pesinat, iptal, elle]; elle: history, instalments were edited
  icraTaksit,  \* per number, the amount of the instalment
  icraOdeme,   \* per id, [t, tutar, gelir, iptalde]; t = 0 without instalment, Yok when it was deleted
  iIstek,
  iSasan       \* history: instalments written on stale reads

icraVars == <<icra, icraTaksit, icraOdeme, iIstek, iSasan>>

IOdemeler == {o \in IOdeme : icraOdeme[o] # Yok}
ITutarlar == [o \in IOdemeler |-> icraOdeme[o].tutar]
ITopla(S) == MapThenSumSet(LAMBDA o : ITutarlar[o], S)
ITaksitte(t) == {o \in IOdemeler : icraOdeme[o].t = t}

\* isTahsilatOdemeAktif: the income row is not cancelled.
ISayilan == {o \in IOdemeler : icraOdeme[o].gelir # "silindi"}
TaksitOdenen(t)  == ITopla(ITaksitte(t))                \* cancelled ones too
TaksitGecerli(t) == ITopla(ITaksitte(t) \cap ISayilan)  \* enrichTaksit
AlacakOdenen     == ITopla(ISayilan)                    \* odenenToplamForAlacak

\* hesaplaAlacakDurum and hesaplaTaksitDurum, when the instalments in g are
\* past due: an instalment with no payment at all, also no cancelled one, is
\* late whatever its amount.
AlacakDurum(g) ==
  IF icra.iptal THEN "IPTAL" ELSE IF AlacakOdenen >= icra.toplam THEN "ODENDI"
  ELSE IF \E t \in g : icraTaksit[t] # Yok /\ (TaksitGecerli(t) < icraTaksit[t]
                          \/ ITaksitte(t) = {}) THEN "GECIKTI"
  ELSE IF AlacakOdenen > 0 THEN "KISMI_ODENDI" ELSE "ACIK"
TaksitDurum(t, g) ==
  IF TaksitGecerli(t) > 0 /\ TaksitGecerli(t) >= icraTaksit[t] THEN "ODENDI"
  ELSE IF t \in g /\ TaksitGecerli(t) < icraTaksit[t] THEN "GECIKTI"
  ELSE IF TaksitGecerli(t) > 0 THEN "KISMI_ODENDI" ELSE "ODENMEDI"

IKalan(x, y) == IF x > y THEN x - y ELSE 0
IPlan == {t \in INo : icraTaksit[t] # Yok}
IKalanlar == [t \in IPlan |-> IKalan(icraTaksit[t], TaksitGecerli(t))]
\* getIcraTahsilatOzet: the month counts every payment, whether it still
\* counts for the debt or not.
IOzet(g) ==
  [alacak |-> IF icra.iptal THEN 0 ELSE icra.toplam, tahsil |-> IF icra.iptal THEN 0 ELSE AlacakOdenen,
   ay |-> ITopla(IOdemeler),
   geciken |-> Cardinality({t \in IPlan \cap g : ~icra.iptal /\ TaksitGecerli(t) < icraTaksit[t]})]
\* listIcraTahsilat: whether the debt is listed under a status.
IListede(durum, g) ==
  /\ IF durum = "IPTAL" THEN icra.iptal ELSE ~icra.iptal
  /\ durum # "IPTAL" => AlacakDurum(g) = durum
\* getIcraTahsilatById: the difference that is not in the plan.
IFark ==
  IF IPlan = {} THEN IKalan(icra.toplam, AlacakOdenen)
  ELSE icra.toplam - icra.pesinat - MapThenSumSet(LAMBDA t : icraTaksit[t], IPlan)

\* buildIcraTahsilatReport: every payment counts, also one whose income was
\* cancelled; the status a debt is listed under, the payments and the totals.
IRaporDurum(g) ==
  LET odenen == ITopla(IOdemeler) IN
  IF icra.iptal THEN "IPTAL" ELSE IF odenen >= icra.toplam THEN "ODENDI"
  ELSE IF \E t \in IPlan \cap g : TaksitOdenen(t) < icraTaksit[t] THEN "GECIKTI"
  ELSE IF odenen > 0 THEN "KISMI_ODENDI" ELSE "ACIK"
IRaporda(durum, g) == IF durum = "IPTAL" THEN icra.iptal
                      ELSE ~icra.iptal /\ durum \in {Yok, IRaporDurum(g)}
IRaporOdemeler == IF icra.iptal THEN {} ELSE IOdemeler
IRapor(durum, g) ==
  LET tahsil == IF IRaporda(durum, g) THEN ITopla(IOdemeler) ELSE 0
      alacak == IF IRaporda(durum, g) THEN icra.toplam ELSE 0
  IN [alacak |-> alacak, tahsil |-> tahsil, kalan |-> IKalan(alacak, tahsil),
      geciken |-> Cardinality({t \in IPlan \cap g : ~icra.iptal /\ TaksitOdenen(t) < icraTaksit[t]})]

IcraInit ==
  /\ icra = Yok /\ icraTaksit = [n \in INo |-> Yok] /\ icraOdeme = [o \in IOdeme |-> Yok]
  /\ iIstek = [a \in IIstek |-> Bos] /\ iSasan = {}

Yuvarla(t, n) == (2 * t + n) \div (2 * n)

IBolMutant(t, n) == [i \in INo |-> IF i <= n THEN Yuvarla(t, n) ELSE Yok]   \* mutant: no remainder in the last
\* bolTaksitTutarlari: equal rounded amounts, the difference in the last.
IBol(t, n) ==
  [i \in INo |-> IF i < n THEN Yuvarla(t, n) ELSE IF i = n THEN t - (n - 1) * Yuvarla(t, n) ELSE Yok]

OdemeKaydi(t, x) == [t |-> t, tutar |-> x, gelir |-> "canli", iptalde |-> icra # Yok /\ icra.iptal]
YeniOdeme(t, x) == \E o \in Ilk({p \in IOdeme : icraOdeme[p] = Yok}) :
  icraOdeme' = [icraOdeme EXCEPT ![o] = OdemeKaydi(t, x)]

\* createIcraTahsilatAlacagi: the claim; paid at once; or in instalments, with
\* or without an advance.
IcraYeni(x, p) ==
  /\ icra = Yok /\ icra' = [toplam |-> x, pesinat |-> p, iptal |-> FALSE, elle |-> FALSE]
  /\ UNCHANGED <<iIstek, iSasan>>

IcraPesin == \E x \in IToplam : IcraYeni(x, 0) /\ YeniOdeme(0, x) /\ UNCHANGED icraTaksit

IcraTaksitli ==
  \E x \in IToplam, p \in {0} \cup IToplam, n \in 1..IAdet :
    /\ p < x /\ IcraYeni(x, p) /\ icraTaksit' = IBol(x - p, n)
    /\ IF p > 0 THEN YeniOdeme(0, p) ELSE UNCHANGED icraOdeme

IGelir(a, k) == a \in Ilk({b \in IIstek : iIstek[b] = Bos}) /\ icra # Yok /\ iIstek' = [iIstek EXCEPT ![a] = k]
ISonuc(a, t) ==
  /\ iIstek' = Bayatlat(iIstek, a, Bitti)
  /\ iSasan' = IF iIstek[a].bayat THEN iSasan \cup {t} ELSE iSasan
IOlmaz(a) == iIstek' = [iIstek EXCEPT ![a] = Bitti] /\ UNCHANGED <<icra, icraTaksit, icraOdeme, iSasan>>

\* createIcraTaksitOdeme: the remainder counts cancelled payments too.
IOdemeOku(a) ==
  /\ \E t \in INo, x \in IToplam :
       /\ icraTaksit[t] # Yok /\ ~icra.iptal /\ x <= icraTaksit[t] - TaksitOdenen(t)
       /\ IGelir(a, [adim |-> "ode", t |-> t, x |-> x, bayat |-> FALSE])
  /\ UNCHANGED <<icra, icraTaksit, icraOdeme, iSasan>>

\* icraOdemeKaydetInTx; the foreign key refuses a deleted instalment.
IOdemeYaz(a) ==
  LET r == iIstek[a] IN
  /\ r.adim = "ode"
  /\ \/ icraTaksit[r.t] # Yok /\ YeniOdeme(r.t, r.x) /\ ISonuc(a, r.t) /\ UNCHANGED <<icra, icraTaksit>>
     \/ icraTaksit[r.t] = Yok /\ IOlmaz(a)

\* patchIcraTahsilatTaksit.
ITutarOku(a) ==
  /\ \E t \in INo, y \in IToplam :
       /\ icraTaksit[t] \notin {Yok, y} /\ ~icra.iptal
       /\ TaksitOdenen(t) < icraTaksit[t] /\ (TaksitOdenen(t) > 0 => y >= TaksitOdenen(t))
       /\ IGelir(a, [adim |-> "tutar", t |-> t, x |-> y, bayat |-> FALSE])
  /\ UNCHANGED <<icra, icraTaksit, icraOdeme, iSasan>>

ITutarYaz(a) ==
  LET r == iIstek[a] IN
  /\ r.adim = "tutar"
  /\ \/ /\ icraTaksit[r.t] # Yok /\ icraTaksit' = [icraTaksit EXCEPT ![r.t] = r.x]
        /\ icra' = [icra EXCEPT !.elle = TRUE] /\ ISonuc(a, r.t) /\ UNCHANGED icraOdeme
     \/ icraTaksit[r.t] = Yok /\ IOlmaz(a)

\* deleteIcraTahsilatTaksit: refused while it has payments.
ISilOku(a) ==
  /\ \E t \in INo : /\ icraTaksit[t] # Yok /\ TaksitOdenen(t) = 0
                    /\ IGelir(a, [adim |-> "sil", t |-> t, bayat |-> FALSE])
  /\ UNCHANGED <<icra, icraTaksit, icraOdeme, iSasan>>

\* A payment booked meanwhile loses its instalment (SetNull).
ISilYaz(a) ==
  LET t == iIstek[a].t IN
  /\ iIstek[a].adim = "sil"
  /\ \/ /\ icraTaksit[t] # Yok /\ icraTaksit' = [icraTaksit EXCEPT ![t] = Yok]
        /\ icra' = [icra EXCEPT !.elle = TRUE] /\ ISonuc(a, t)
        /\ icraOdeme' = [o \in IOdeme |-> IF icraOdeme[o] # Yok /\ icraOdeme[o].t = t
                                          THEN [icraOdeme[o] EXCEPT !.t = Yok] ELSE icraOdeme[o]]
     \/ icraTaksit[t] = Yok /\ IOlmaz(a)

\* patchIcraTahsilatAlacagi with IPTAL: no way back.
AlacakIptal ==
  /\ icra # Yok /\ ~icra.iptal /\ icra' = [icra EXCEPT !.iptal = TRUE]
  /\ iIstek' = Bayatlat(iIstek, Yok, Bos)
  /\ UNCHANGED <<icraTaksit, icraOdeme, iSasan>>

\* guvenliOfisHareketSil ("silindi"), deleteOfisKasaHareketi ("yok").
IGelirSil(o, g) ==
  /\ icraOdeme[o] # Yok /\ icraOdeme[o].gelir = "canli"
  /\ icraOdeme' = [icraOdeme EXCEPT ![o].gelir = g]
  /\ UNCHANGED <<icra, icraTaksit, iIstek, iSasan>>

IcraNext ==
  \/ IcraPesin \/ IcraTaksitli \/ AlacakIptal
  \/ \E a \in IIstek : IOdemeOku(a) \/ IOdemeYaz(a) \/ ITutarOku(a) \/ ITutarYaz(a) \/ ISilOku(a) \/ ISilYaz(a)
  \/ \E o \in IOdeme, g \in {"silindi", "yok"} : IGelirSil(o, g)

IcraSpec == IcraInit /\ [][IcraNext]_icraVars

-----------------------------------------------------------------------------
(* Properties *)

\* The type invariant of enforcement collections.
IcraTypeOK ==
  /\ icra = Yok \/ icra \in IcraSatiri
  /\ \A t \in INo : icraTaksit[t] # Yok => icraTaksit[t] \in Int
  /\ \A o \in IOdeme : icraOdeme[o] # Yok => icraOdeme[o] \in
       IOdemeSatiri
  /\ iSasan \subseteq INo

\* No instalment is overpaid, no payment loses its instalment or is taken on
\* a cancelled debt unless requests overlapped.  Of a debt whose instalments
\* were not edited, whichever of them are past due: the plan sums up to it
\* whatever the rounding; the overview counts the instalments shown as late;
\* the list shows it under one status; the printed report says the same as
\* long as no income was cancelled, and never less collected; and unless the
\* rounding left a negative amount for the last instalment, what is left of
\* it is what is left of its instalments and of a cancelled advance, and it is
\* paid only with every instalment, and late when an instalment is
\* (icraTahsilat.service.ts:71, :244, :390, :520, :929, :964,
\* icraTahsilatReport.service.ts:34).
IcraTutarli ==
  /\ \A t \in INo \ iSasan : icraTaksit[t] # Yok /\ TaksitGecerli(t) > 0 => TaksitGecerli(t) <= icraTaksit[t]
  /\ \A o \in IOdeme : icraOdeme[o] # Yok =>
       /\ icraOdeme[o].t = Yok => iSasan # {}
       /\ icraOdeme[o].iptalde => iSasan # {}
  /\ icra # Yok /\ iSasan = {} /\ ~icra.elle => \A g \in SUBSET INo :
       LET ozet == IOzet(g)  durumlar == {d \in IDurumlar : IListede(d, g)}
            rapor == IRapor(Yok, g) IN
       /\ IPlan # {} => IFark = 0
       /\ durumlar = {AlacakDurum(g)}
       /\ ozet.ay >= ozet.tahsil
       /\ rapor.alacak = ozet.alacak /\ rapor.tahsil >= ozet.tahsil /\ rapor.geciken <= ozet.geciken
       /\ rapor.tahsil = ITopla(IRaporOdemeler)
       /\ {d \in IDurumlar : IRaporda(d, g)} = {IRaporDurum(g)}
       /\ IOdemeler \subseteq ISayilan =>
            /\ rapor.tahsil = ozet.tahsil /\ rapor.geciken = ozet.geciken
            /\ rapor.kalan = IKalan(ozet.alacak, ozet.tahsil)
            /\ IRaporDurum(g) = AlacakDurum({t \in IPlan \cap g : icraTaksit[t] > 0})
       /\ ozet.geciken = (IF icra.iptal THEN 0 ELSE Cardinality({t \in IPlan : TaksitDurum(t, g) = "GECIKTI"}))
       /\ ~icra.iptal /\ IPlan # {} /\ (\A t \in IPlan : icraTaksit[t] >= 0) =>
            /\ ozet.alacak - ozet.tahsil =
                 MapThenSumSet(LAMBDA t : IKalanlar[t], IPlan) + icra.pesinat - ITopla(ITaksitte(0) \cap ISayilan)
            /\ AlacakDurum(g) = "ODENDI" =>
                 ozet.geciken = 0 /\ \A t \in IPlan : icraTaksit[t] > 0 => TaksitDurum(t, g) = "ODENDI"
            /\ AlacakDurum(g) = "GECIKTI" <=>
                 ozet.geciken > 0 \/ (AlacakOdenen < icra.toplam /\ \E t \in IPlan \cap g : icraTaksit[t] = 0)
=============================================================================
