----------------------------- MODULE OfisProofs -----------------------------
(***************************************************************************)
(* Package requests: approval and credit go together for any number of     *)
(* administrators and users, since the wallet's invariant is kept by the   *)
(* requests as well, and what an administrator has read about the credit   *)
(* stays true because the ledger only grows and nobody else books a        *)
(* payment.  Exchange rates: today's bulletin reaches every answer soon    *)
(* after it comes, since what is kept or under way without it is young;    *)
(* and the form's fields agree for every amount.  Reports: they agree      *)
(* about whatever rows requests leave, since a payment and its income row  *)
(* name each other and are cancelled together.  Incoming messages: each is *)
(* accounted for, since a delivery holds what it has not recorded yet.     *)
(***************************************************************************)
EXTENDS MCOfis, WhatsAppMesajKrediProofs

Kredili(t) == Kayitli("PAKET_SATIN_ALMA", t)

\* The wallet's own callers book no purchase.
PaketsizCagri ==
  \A c \in Cagiran : cagri[c].adim # "bosta" => cagri[c].tip # "PAKET_SATIN_ALMA"

\* A request that was never made has no credit.
YokTalepKredisiz == \A t \in TalepId : talep[t].durum = "YOK" => ~Kredili(t)

\* A busy administrator has a request; one that was told of its credit was
\* told the truth.
YoneticiTutarli ==
  \A a \in Yonetici : yonetici[a].adim # "bosta" =>
    /\ yonetici[a].talep \in TalepId
    /\ yonetici[a].adim \in {"kredili", "iyilestir"} => Kredili(yonetici[a].talep)

TalepHesabi == OnayliTalepKredili /\ BekleyenTalepKredisiz /\ YokTalepKredisiz

TalepInv ==
  /\ KrediInv /\ PaketsizCagri
  /\ TalepTypeOK /\ YoneticiTutarli
  /\ TalepHesabi /\ TekBekleyenTalep

-----------------------------------------------------------------------------
(* What the locked section adds to the ledger, and nothing else.           *)
LEMMA KayitEkle ==
  ASSUME DefterTipi,
         NEW tip \in HareketTipi, NEW ref \in Referans \cup {Yok}, NEW n \in Int,
         HareketYaz(tip, ref, n), NEW u, NEW r
  PROVE  Kayitli(u, r)' <=> Kayitli(u, r) \/ (u = tip /\ r = ref)
<1> DEFINE L == Len(defter)
<1>1. /\ Len(defter') = L + 1
      /\ \A i \in 1..L : defter'[i] = defter[i]
      /\ defter'[L + 1].tip = tip /\ defter'[L + 1].ref = ref
  <2>1. defter'[L + 1] = SonrakiHareket(tip, ref, n)
    BY HareketEkle
  <2>2. Len(defter') = L + 1 /\ \A i \in 1..L : defter'[i] = defter[i]
    BY HareketEkle
  <2> QED BY <2>1, <2>2 DEF SonrakiHareket
<1>2. L \in Nat
  BY LenProperties DEF DefterTipi
<1>3. Kayitli(u, r)' <=> \E i \in 1..(L + 1) : defter'[i].tip = u /\ defter'[i].ref = r
  BY <1>1 DEF Kayitli
<1>4. Kayitli(u, r) <=> \E i \in 1..L : defter[i].tip = u /\ defter[i].ref = r
  BY DEF Kayitli
<1> HIDE DEF L
<1>5. 1..(L + 1) = (1..L) \cup {L + 1}
  BY <1>2
<1> QED BY <1>1, <1>3, <1>4, <1>5

(* The wallet's own callers leave the purchases alone.                     *)
LEMMA KrediPaketeDokunmaz ==
  ASSUME KrediInv, PaketsizCagri, KrediNext
  PROVE  /\ PaketsizCagri'
         /\ \A t : Kredili(t)' <=> Kredili(t)
<1>1. DefterTipi /\ cagri \in [Cagiran -> Cagri]
  BY DEF KrediInv, DefterInv
<1>2. ASSUME NEW tip \in HareketTipi \ {"PAKET_SATIN_ALMA"}, NEW ref \in Referans \cup {Yok},
             NEW n \in Int, HareketYaz(tip, ref, n)
      PROVE  \A t : Kredili(t)' <=> Kredili(t)
  BY <1>1, <1>2, KayitEkle DEF Kredili
<1>3. defter' = defter => \A t : Kredili(t)' <=> Kredili(t)
  BY DEF Kredili, Kayitli
<1>5. CASE ManuelDus
  <2>1. PICK n \in ManuelMiktar : HareketYaz("MANUEL_DUZELTME", Yok, -n)
    BY <1>5 DEF ManuelDus
  <2>2. -n \in Int /\ "MANUEL_DUZELTME" \in HareketTipi \ {"PAKET_SATIN_ALMA"}
    BY MiktarVarsayimi DEF HareketTipi
  <2> QED BY <1>2, <1>5, <2>1, <2>2 DEF ManuelDus, PaketsizCagri
<1>6. ASSUME NEW j \in Is, ConsumeForJob(j), UNCHANGED cagri
      PROVE  PaketsizCagri' /\ \A t : Kredili(t)' <=> Kredili(t)
  <2>1. /\ HareketYaz("MESAJ_GONDERIM", j, -1) /\ j \in Referans \cup {Yok}
        /\ "MESAJ_GONDERIM" \in HareketTipi \ {"PAKET_SATIN_ALMA"}
    BY <1>6 DEF ConsumeForJob, Referans, HareketTipi
  <2> QED BY <1>2, <1>6, <2>1 DEF PaketsizCagri
<1>7. ASSUME NEW c \in Cagiran, CagriAdimi(c)
      PROVE  PaketsizCagri' /\ \A t : Kredili(t)' <=> Kredili(t)
  <2>1. CASE ManuelEkle(c) \/ GrantAnnual(c)
    BY <1>1, <1>3, <2>1 DEF ManuelEkle, GrantAnnual, AddCreditInTx, PaketsizCagri
  <2>2. CASE \E j \in Is : RefundForJob(c, j)
    BY <1>1, <1>3, <2>2 DEF RefundForJob, PaketsizCagri
  <2>3. CASE RefundTuketim(c)
    <3>1. CASE cagri' = [cagri EXCEPT ![c].adim = "kilit"]
      BY <1>1, <1>3, <2>3, <3>1 DEF RefundTuketim, PaketsizCagri, Cagri
    <3>2. CASE cagri' = [cagri EXCEPT ![c] = Bosta]
      BY <1>1, <1>3, <2>3, <3>2 DEF RefundTuketim, PaketsizCagri, Bosta
    <3> QED BY <2>3, <3>1, <3>2 DEF RefundTuketim
  <2>4. CASE KilitliYaz(c)
    <3>1. CASE Cakisir(cagri[c].tip, cagri[c].ref)
      BY <1>1, <1>3, <2>4, <3>1 DEF KilitliYaz, PaketsizCagri, Bosta
    <3>2. CASE ~Cakisir(cagri[c].tip, cagri[c].ref)
      BY <1>1, <1>2, <2>4, <3>2 DEF KilitliYaz, PaketsizCagri, Bosta, KrediInv, CagriTutarli, Cagri
    <3> QED BY <3>1, <3>2
  <2>5. CASE CagriDuser(c)
    BY <1>1, <1>3, <2>5 DEF CagriDuser, PaketsizCagri, Bosta
  <2> QED BY <1>7, <2>1, <2>2, <2>3, <2>4, <2>5 DEF CagriAdimi
<1> QED BY <1>5, <1>6, <1>7 DEF KrediNext

(* A step that books no purchase and leaves the requests alone.            *)
LEMMA TalepDegismez ==
  ASSUME TalepInv, KrediInv', PaketsizCagri', UNCHANGED talepVars,
         \A t : Kredili(t)' <=> Kredili(t)
  PROVE  TalepInv'
BY DEF TalepInv, TalepTypeOK, YoneticiTutarli, TalepHesabi, OnayliTalepKredili,
   BekleyenTalepKredisiz, YokTalepKredisiz, TekBekleyenTalep, talepVars, Kredili

(* A step of the tables of requests: the wallet and its ledger stay.       *)
LEMMA KrediDegismedi ==
  ASSUME TalepInv, UNCHANGED krediVars
  PROVE  KrediInv' /\ PaketsizCagri' /\ \A t : Kredili(t)' <=> Kredili(t)
<1>1. KrediInv'
  BY DEF TalepInv, krediVars, KrediInv, DefterInv, DefterTipi, BakiyeDefterinSonucu,
     BakiyeEksiyeDusmez, TekHareket, IadeTuketimdenSonra, CagriTutarli, Kayitli
<1> QED BY <1>1 DEF TalepInv, krediVars, PaketsizCagri, Kredili, Kayitli

(* The record of an administrator is the only thing a read changes.        *)
LEMMA YoneticiOkur ==
  ASSUME TalepInv, NEW a \in Yonetici, NEW adim \in {"bosta"} \cup YoneticiAdimi,
         NEW t \in TalepId \cup {Yok}, Gec(a, adim, t), UNCHANGED <<talep, buro, krediVars>>,
         adim # "bosta" => t \in TalepId,
         adim \in {"kredili", "iyilestir"} => Kredili(t)
  PROVE  TalepInv'
<1>1. KrediInv' /\ PaketsizCagri' /\ \A u : Kredili(u)' <=> Kredili(u)
  BY KrediDegismedi
<1>2. yonetici' = [yonetici EXCEPT ![a] = [adim |-> adim, talep |-> t]]
  BY DEF Gec
<1>3. TalepTypeOK' /\ YoneticiTutarli'
  BY <1>1, <1>2 DEF TalepInv, TalepTypeOK, YoneticiTutarli, YoneticiAdimi
<1>4. TalepHesabi' /\ TekBekleyenTalep'
  BY <1>1 DEF TalepInv, TalepHesabi, TekBekleyenTalep, OnayliTalepKredili,
     BekleyenTalepKredisiz, YokTalepKredisiz, Kredili
<1> QED BY <1>1, <1>3, <1>4 DEF TalepInv

(* Writing a status to the request of an administrator, who is then done:  *)
(* not a pending one, and an approval only with its credit.                *)
LEMMA DurumYazKorur ==
  ASSUME TalepInv, KrediInv', PaketsizCagri', NEW a \in Yonetici,
         yonetici[a].adim # "bosta", NEW d \in {"ONAYLANDI", "REDDEDILDI"},
         NEW t, t = yonetici[a].talep,
         DurumYaz(a, d), Birak(a), UNCHANGED buro,
         d = "ONAYLANDI" => Kredili(t)',
         \A u : Kredili(u) => Kredili(u)',
         \A u \in TalepId \ {t} : Kredili(u)' => Kredili(u)
  PROVE  TalepInv'
<1>1. t \in TalepId
  BY DEF TalepInv, YoneticiTutarli
<1>2. talep' = [talep EXCEPT ![t].durum = d]
  BY DEF DurumYaz
<1>3. /\ talep' \in [TalepId -> [durum : Durum, paket : Paket \cup {Yok}]]
      /\ talep'[t].durum = d
      /\ \A u \in TalepId \ {t} : talep'[u] = talep[u]
  BY <1>1, <1>2 DEF TalepInv, TalepTypeOK, Durum
<1>4. yonetici' = [yonetici EXCEPT ![a] = BosYonetici]
  BY DEF Birak
<1>5. TalepTypeOK'
  BY <1>3, <1>4 DEF TalepInv, TalepTypeOK, BosYonetici
<1>6. YoneticiTutarli'
  BY <1>4 DEF TalepInv, TalepTypeOK, YoneticiTutarli, BosYonetici
<1>7. TalepHesabi'
  BY <1>3 DEF TalepInv, TalepHesabi, OnayliTalepKredili, BekleyenTalepKredisiz,
     YokTalepKredisiz, Kredili
<1>8. TekBekleyenTalep'
  BY <1>3 DEF TalepInv, TekBekleyenTalep
<1> QED BY <1>5, <1>6, <1>7, <1>8 DEF TalepInv

(* The credit of an approval is a step of the abstract ledger.             *)
LEMMA OnaylaYazKorur ==
  ASSUME TalepInv, NEW a \in Yonetici, OnaylaYaz(a)
  PROVE  TalepInv' /\ [Defter!Adim]_<<bakiye, defter>>
<1>0. PICK t : t = yonetici[a].talep
  OBVIOUS
<1>1. t \in TalepId
  BY <1>0 DEF TalepInv, YoneticiTutarli, OnaylaYaz
<1>2. CASE Cakisir("PAKET_SATIN_ALMA", t)
  <2>1. Gec(a, "iyilestir", t) /\ UNCHANGED <<talep, buro, krediVars>>
    BY <1>0, <1>2 DEF OnaylaYaz, krediVars
  <2>2. Kredili(t)
    BY <1>2 DEF Cakisir, Kredili
  <2>3. "iyilestir" \in {"bosta"} \cup YoneticiAdimi
    BY DEF YoneticiAdimi
  <2> QED BY <1>1, <2>1, <2>2, <2>3, YoneticiOkur DEF krediVars
<1>3. CASE ~Cakisir("PAKET_SATIN_ALMA", t)
  <2>1. /\ HareketYaz("PAKET_SATIN_ALMA", t, PaketMiktar)
        /\ DurumYaz(a, "ONAYLANDI") /\ Birak(a) /\ UNCHANGED <<buro, cagri>>
    BY <1>0, <1>3 DEF OnaylaYaz
  <2>2. KrediInv /\ DefterTipi /\ cagri \in [Cagiran -> Cagri] /\ PaketsizCagri
    BY DEF TalepInv, KrediInv, DefterInv
  <2>3. /\ "PAKET_SATIN_ALMA" \in HareketTipi /\ t \in Referans \cup {Yok}
        /\ PaketMiktar \in Int /\ bakiye + PaketMiktar >= 0
    BY <1>1, <2>2, PaketVarsayimi DEF HareketTipi, Referans, KrediInv, DefterInv, DefterTipi,
       BakiyeEksiyeDusmez
  <2>4. yonetici[a].adim # "bosta"
    BY DEF OnaylaYaz
  <2>5. PaketsizCagri'
    BY <2>1, <2>2 DEF PaketsizCagri
  <2>6. KrediInv' /\ Defter!Adim
    BY <1>3, <2>1, <2>2, <2>3, KilitliKorur
  <2>7. \A u : Kredili(u)' <=> Kredili(u) \/ u = t
    BY <2>1, <2>2, <2>3, KayitEkle DEF Kredili
  <2> QED BY <1>0, <2>1, <2>4, <2>5, <2>6, <2>7, DurumYazKorur
<1> QED BY <1>2, <1>3

LEMMA YoneticiKorur ==
  ASSUME TalepInv, NEW a \in Yonetici, YoneticiNext(a)
  PROVE  TalepInv' /\ [Defter!Adim]_<<bakiye, defter>>
<1>0. PICK t : t = yonetici[a].talep
  OBVIOUS
<1>1. {"onay", "tx", "kredi", "kredili", "iyilestir", "red"} \subseteq YoneticiAdimi
  BY DEF YoneticiAdimi
<1>2. yonetici[a].adim # "bosta" => t \in TalepId
  BY <1>0 DEF TalepInv, YoneticiTutarli
<1>3. Birak(a) => Gec(a, "bosta", Yok)
  BY DEF Birak, Gec, BosYonetici
<1>4. CASE \E u \in TalepId : OnaylaOku(a, u) \/ ReddetOku(a, u)
  BY <1>1, <1>4, YoneticiOkur DEF OnaylaOku, ReddetOku, krediVars
<1>5. CASE OnaylaTxOku(a)
  <2>1. t \in TalepId /\ UNCHANGED <<talep, buro, krediVars>>
    BY <1>2, <1>5 DEF OnaylaTxOku
  <2>2. Gec(a, "tx", t) \/ Gec(a, "bosta", Yok)
    BY <1>0, <1>3, <1>5 DEF OnaylaTxOku
  <2> QED BY <1>1, <2>1, <2>2, YoneticiOkur DEF krediVars
<1>6. CASE OnaylaDefterOku(a)
  <2>1. t \in TalepId /\ UNCHANGED <<talep, buro, krediVars>>
    BY <1>2, <1>6 DEF OnaylaDefterOku
  <2>2. (Gec(a, "kredili", t) /\ Kredili(t)) \/ Gec(a, "kredi", t)
    BY <1>0, <1>6 DEF OnaylaDefterOku, Kredili
  <2> QED BY <1>1, <2>1, <2>2, YoneticiOkur DEF krediVars
<1>7. CASE OnaylaYaz(a)
  BY <1>7, OnaylaYazKorur
<1>8. CASE YoneticiDuser(a)
  BY <1>3, <1>8, YoneticiOkur DEF YoneticiDuser, krediVars
<1>9. CASE Iyilestir(a) /\ UNCHANGED talep
  BY <1>3, <1>9, YoneticiOkur DEF Iyilestir, krediVars
<1>10. CASE OnaylaKrediliYaz(a) \/ ReddetYaz(a) \/ (Iyilestir(a) /\ DurumYaz(a, "ONAYLANDI"))
  <2>1. /\ yonetici[a].adim # "bosta" /\ Birak(a) /\ UNCHANGED <<buro, krediVars>>
        /\ \/ DurumYaz(a, "ONAYLANDI") /\ yonetici[a].adim \in {"kredili", "iyilestir"}
           \/ DurumYaz(a, "REDDEDILDI")
    BY <1>10 DEF OnaylaKrediliYaz, ReddetYaz, Iyilestir
  <2>2. yonetici[a].adim \in {"kredili", "iyilestir"} => Kredili(t)
    BY <1>0 DEF TalepInv, YoneticiTutarli
  <2>3. KrediInv' /\ PaketsizCagri' /\ \A u : Kredili(u)' <=> Kredili(u)
    BY <2>1, KrediDegismedi
  <2> QED BY <1>0, <2>1, <2>2, <2>3, DurumYazKorur DEF krediVars
<1> QED BY <1>4, <1>5, <1>6, <1>7, <1>8, <1>9, <1>10 DEF YoneticiNext, Iyilestir

(* Asking for a package: the new request is pending, not credited, and the *)
(* only one of its package.                                                *)
LEMMA BuroKorur ==
  ASSUME TalepInv, NEW b \in Buro, BuroNext(b)
  PROVE  TalepInv' /\ UNCHANGED <<bakiye, defter>>
<1>1. UNCHANGED <<yonetici, krediVars>>
  BY DEF BuroNext, TalepOku, TalepYaz, BuroDuser
<1>2. KrediInv' /\ PaketsizCagri' /\ \A u : Kredili(u)' <=> Kredili(u)
  BY <1>1, KrediDegismedi
<1>3. buro' \in [Buro -> Paket \cup {Yok}]
  BY DEF BuroNext, TalepOku, TalepYaz, BuroDuser, TalepInv, TalepTypeOK
<1>4. YoneticiTutarli'
  BY <1>1, <1>2 DEF TalepInv, YoneticiTutarli
<1>5. CASE UNCHANGED talep
  <2>1. TalepTypeOK'
    BY <1>1, <1>3, <1>5 DEF TalepInv, TalepTypeOK
  <2>2. TalepHesabi' /\ TekBekleyenTalep'
    BY <1>2, <1>5 DEF TalepInv, TalepHesabi, TekBekleyenTalep, OnayliTalepKredili,
       BekleyenTalepKredisiz, YokTalepKredisiz, Kredili
  <2> QED BY <1>1, <1>2, <1>4, <2>1, <2>2 DEF TalepInv, krediVars
<1>6. ASSUME NEW t \in TalepId, talep[t].durum = "YOK", ~BekleyenVar(buro[b]),
             talep' = [talep EXCEPT ![t] = [durum |-> "BEKLIYOR", paket |-> buro[b]]]
      PROVE  TalepInv' /\ UNCHANGED <<bakiye, defter>>
  <2>1. buro[b] \in Paket \cup {Yok}
    BY DEF TalepInv, TalepTypeOK
  <2>2. /\ talep' \in [TalepId -> [durum : Durum, paket : Paket \cup {Yok}]]
        /\ talep'[t].durum = "BEKLIYOR" /\ talep'[t].paket = buro[b]
        /\ \A u \in TalepId \ {t} : talep'[u] = talep[u]
    BY <1>6, <2>1 DEF TalepInv, TalepTypeOK, Durum
  <2>3. TalepTypeOK'
    BY <1>1, <1>3, <2>2 DEF TalepInv, TalepTypeOK
  <2>4. TalepHesabi'
    BY <1>2, <1>6, <2>2 DEF TalepInv, TalepHesabi, OnayliTalepKredili, BekleyenTalepKredisiz,
       YokTalepKredisiz, Kredili
  <2>5. TekBekleyenTalep'
    BY <1>6, <2>2 DEF TalepInv, TekBekleyenTalep, BekleyenVar
  <2> QED BY <1>1, <1>2, <1>4, <2>3, <2>4, <2>5 DEF TalepInv, krediVars
<1> QED BY <1>5, <1>6 DEF BuroNext, TalepOku, TalepYaz, BuroDuser

LEMMA TalepBaslangic ==
  ASSUME Init
  PROVE  TalepInv /\ Defter!Baslangic
<1>1. KrediInv /\ Defter!Baslangic
  BY KrediBaslangic DEF Init
<1>2. defter = << >> /\ \A c \in Cagiran : cagri[c].adim = "bosta"
  BY DEF Init, KrediInit, Bosta
<1>3. \A t : ~Kredili(t)
  BY <1>2 DEF Kredili, Kayitli
<1>4. TalepTypeOK
  BY DEF Init, TalepTypeOK, BosYonetici, Durum
<1>5. \A t \in TalepId : talep[t].durum = "YOK"
  BY DEF Init
<1>6. \A a \in Yonetici : yonetici[a].adim = "bosta"
  BY DEF Init, BosYonetici
<1> QED BY <1>1, <1>2, <1>3, <1>4, <1>5, <1>6 DEF TalepInv, PaketsizCagri, YoneticiTutarli,
     TalepHesabi, OnayliTalepKredili, BekleyenTalepKredisiz, YokTalepKredisiz, TekBekleyenTalep

LEMMA TalepAdimi ==
  ASSUME TalepInv, [Next]_vars
  PROVE  TalepInv' /\ [Defter!Adim]_<<bakiye, defter>>
<1>1. CASE KrediNext /\ UNCHANGED talepVars
  <2>1. KrediInv /\ PaketsizCagri
    BY DEF TalepInv
  <2>2. KrediInv' /\ [Defter!Adim]_<<bakiye, defter>>
    BY <1>1, <2>1, KrediAdimi
  <2>3. PaketsizCagri' /\ \A t : Kredili(t)' <=> Kredili(t)
    BY <1>1, <2>1, KrediPaketeDokunmaz
  <2> QED BY <1>1, <2>2, <2>3, TalepDegismez
<1>2. ASSUME NEW a \in Yonetici, YoneticiNext(a)
      PROVE  TalepInv' /\ [Defter!Adim]_<<bakiye, defter>>
  BY <1>2, YoneticiKorur
<1>3. ASSUME NEW b \in Buro, BuroNext(b)
      PROVE  TalepInv' /\ [Defter!Adim]_<<bakiye, defter>>
  BY <1>3, BuroKorur
<1>4. CASE UNCHANGED vars
  <2>1. UNCHANGED krediVars /\ UNCHANGED talepVars
    BY <1>4 DEF vars
  <2> QED BY <2>1, KrediDegismedi, TalepDegismez DEF krediVars
<1> QED BY <1>1, <1>2, <1>3, <1>4 DEF Next

-----------------------------------------------------------------------------
(* Theorems *)

(* The inductive invariant: status and credit of a request agree, and an   *)
(* administrator who goes on because the credit is there is right.         *)
THEOREM TalepHepDogru == Spec => []TalepInv
<1>1. Init => TalepInv
  BY TalepBaslangic
<1>2. TalepInv /\ [Next]_vars => TalepInv'
  BY TalepAdimi
<1> QED BY <1>1, <1>2, PTL DEF Spec

(* The requests, administrators, users and the wallet keep their types.    *)
THEOREM TalepTipi == Spec => []TypeOK
<1>1. TalepInv => TypeOK
  BY DEF TalepInv, TypeOK, KrediInv, DefterInv, DefterTipi, KrediTypeOK
<1> QED BY <1>1, TalepHepDogru, PTL

(* Status and credit agree, for any number of administrators, retries and  *)
(* lost requests: an approved request has its credit, and approving a      *)
(* pending one cannot pay twice; and a package has at most one pending     *)
(* request, for any number of users.                                       *)
THEOREM TalepTutarlidir == Spec => []TalepTutarli
<1>1. TalepInv => TalepTutarli
  BY DEF TalepInv, TalepHesabi, TalepKredisi, TalepTutarli
<1> QED BY <1>1, TalepHepDogru, PTL

(* Approvals keep the contract of the wallet's ledger too: requests and    *)
(* wallet together implement the abstract ledger.                          *)
THEOREM TalepSozlesmesi == Spec => DefterSozlesmesi
<1>1. Init => Defter!Baslangic
  BY TalepBaslangic
<1>2. TalepInv /\ [Next]_vars => [Defter!Adim]_<<bakiye, defter>>
  BY TalepAdimi
<1> QED BY <1>1, <1>2, TalepHepDogru, PTL DEF Spec, DefterSozlesmesi, Defter!Sozlesme

-----------------------------------------------------------------------------
(* Exchange rates: what the cache, a flight and a payment hold.            *)

QHit == [kur : Gunler0, kalan : 0..QTtl, ogleden : BOOLEAN, temiz : BOOLEAN]
QUcusKaydi == [an : [gun : QGun, saat : QSaat], yayim : SUBSET QGun]

QDegerler == Gunler0 \cup {Yok, Bir, Elle, Kasadan, Uygulanan}
QOdemeKaydi ==
  [adim : {"meta", "meta_bekler", "matrah", "matrah_bekler", "yazildi", "red"}, tur : QTur, gun : QSorulan,
   bayat : BOOLEAN, matrah : QDegerler, kaynak : QKaynak \cup {Yok, "MANUEL", "TCMB"}, ref : QDegerler, tarih : QDegerler]

QTipler ==
  /\ qAn \in [gun : QGun, saat : QSaat] /\ qYayim \subseteq QGun /\ qYas \in 0..(QTtl + QKisaTtl)
  /\ qOnbellek \in [QSorulan -> QHit \cup {Yok}] /\ qUcus \in [QSorulan -> QUcusKaydi \cup {Yok}]
  /\ qSon \in Gunler0 \cup {Yok} /\ qOgleBakildi \in QGun \cup {Yok} /\ qOgleKim \in BOOLEAN /\ qZorlandi \in BOOLEAN
  /\ qSayac \in 0..QEnCok

\* Bulletins are of days that have come, and today's comes late enough.
QYayimDogru ==
  /\ \A d \in qYayim : d <= qAn.gun
  /\ qAn.gun \in qYayim => qAn.saat >= QTtl

\* A fetch began in this tick or the one before; if today's bulletin came since,
\* it is as young as that.
QUcusDogru(u) ==
  /\ u.yayim \subseteq qYayim
  /\ \/ /\ u.an.gun = qAn.gun /\ qAn.saat - 1 <= u.an.saat /\ u.an.saat <= qAn.saat
        /\ qAn.gun \in qYayim /\ qAn.gun \notin u.yayim => qYas <= qAn.saat - u.an.saat
     \/ u.an.gun + 1 = qAn.gun /\ qAn.saat = 0
QUcuslarDogru == \A g \in QSorulan : qUcus[g] # Yok => QUcusDogru(qUcus[g])

\* An answer for today without today's bulletin expires soon after it.
QHitDogru(g, e) ==
  /\ e.kur \in qYayim \cup {0} /\ e.kur <= g
  /\ g = qAn.gun /\ e.kur # g /\ e.temiz /\ e.kalan > 0 =>
       IF g \in qYayim THEN qYas + e.kalan <= QKisaTtl + 1
       ELSE e.kalan <= QKisaTtl \/ e.kalan + qAn.saat <= QTtl
QHitlerDogru == \A g \in QSorulan : qOnbellek[g] # Yok => QHitDogru(g, qOnbellek[g])

\* Whoever finds today's bulletin notes it.
QNotDogru ==
  /\ qSon \in qYayim \cup {0, Yok}
  /\ qOgleBakildi # Yok => qOgleBakildi <= qAn.gun
  /\ qSon = qAn.gun \/ (\E g \in QSorulan : qOnbellek[g] # Yok /\ qOnbellek[g].kur = qAn.gun) => qOgleBakildi = qAn.gun

\* After a good look for today, what is kept for today or under way for it has
\* the bulletin or was looked up after 16:35 as well.
QBakisDogru ==
  qOgleBakildi = qAn.gun /\ qOgleKim =>
    /\ qAn.gun \in qYayim \/ OgledenSonra(qAn)
    /\ \A g \in QSorulan : g = qAn.gun =>
         /\ qUcus[g] # Yok => /\ qUcus[g].an.gun = g
                              /\ g \in qUcus[g].yayim \/ OgledenSonra(qUcus[g].an)
         /\ qOnbellek[g] # Yok /\ qOnbellek[g].temiz => qOnbellek[g].kur = g \/ qOnbellek[g].ogleden

QOdemeDogru(o) ==
  \/ o = [adim |-> "yok"]
  \/ /\ o \in QOdemeKaydi
     /\ ~o.bayat => \A d \in {o.matrah, o.ref, o.tarih} \cap Gunler0 : d <= o.gun

QBankaInv == QTipler /\ QYayimDogru /\ QUcuslarDogru /\ QHitlerDogru /\ QNotDogru /\ QBakisDogru
KurInv == QBankaInv /\ QOdemeDogru(qOdeme) /\ BultenGecikmez

QYanitDogru(y) ==
  y # Yok /\ y.gun = y.an.gun /\ ~y.bayat /\ y.temiz =>
    /\ y.gecikme > QKisaTtl => y.kur = y.gun
    /\ y.onbellek /\ OgledenSonra(y.an) => y.kur = y.gun \/ y.ogleden \/ y.baskasi

LEMMA QGorDogru == ASSUME NEW y, QYanitDogru(y), QGor(y) PROVE BultenGecikmez'
BY DEF QGor, QYanitDogru, BultenGecikmez

LEMMA QKalirDogru == ASSUME BultenGecikmez, UNCHANGED qYanit PROVE BultenGecikmez'
BY DEF BultenGecikmez

(* A bounded set of numbers has a greatest.                                *)
LEMMA QEnBuyuk ==
  ASSUME NEW S \in SUBSET Nat, S # {}, NEW b \in Nat, \A x \in S : x <= b
  PROVE  Max(S) \in S /\ \A y \in S : y <= Max(S)
<1> DEFINE N == {b - x : x \in S}
           R == OpToRel(<, Nat)
<1>1. N \subseteq Nat /\ N # {}
  <2>1. \A x \in S : b - x \in Nat
    OBVIOUS
  <2> QED BY <2>1
<1>2. IsWellFoundedOn(R, Nat)
  BY NatLessThanWellFounded
<1>3. \A x, y \in Nat : y < x => <<y, x>> \in R
  BY DEF OpToRel
<1> HIDE DEF R
<1>4. PICK n \in N : \A m \in N : ~(<<m, n>> \in R)
  <2> HIDE DEF N
  <2> QED BY <1>1, <1>2, WFMin
<1>5. PICK x \in S : n = b - x
  BY <1>4
<1>6. ASSUME NEW y \in S PROVE x >= y
  <2>1. b - y \in N /\ b - y \in Nat /\ n \in Nat
    BY <1>1, <1>4
  <2>2. ~(b - y < n)
    BY <1>3, <1>4, <2>1
  <2>3. x \in Nat /\ y \in Nat
    OBVIOUS
  <2> QED BY <1>5, <2>2, <2>3
<1>7. Max(S) \in S /\ \A y \in S : Max(S) >= y
  BY <1>6 DEF Max
<1> QED BY <1>7

LEMMA QIkiSayi ==
  ASSUME NEW a \in Nat, NEW b \in Nat
  PROVE  /\ Max({0, a - 1}) = IF a > 0 THEN a - 1 ELSE 0
         /\ Min({a, b}) = IF a <= b THEN a ELSE b
<1>1. \E x \in {0, a - 1} : \A y \in {0, a - 1} : x >= y
  BY a > 0 \/ a = 0
<1>2. \E x \in {a, b} : \A y \in {a, b} : x =< y
  BY a <= b \/ b <= a
<1> QED BY <1>1, <1>2 DEF Max, Min

LEMMA QSayilar ==
  /\ QTtl \in Nat /\ QKisaTtl \in Nat /\ QKisaTtl > 0 /\ QTtl >= QKisaTtl /\ QTtl > 0 /\ QOgle \in Nat /\ QSonSaat \in Nat
  /\ QEnCok \in Nat /\ QSaat \subseteq Nat /\ Yok \notin Int
  /\ QGun \subseteq Nat /\ 0 \notin QGun /\ Gunler0 \subseteq Nat /\ QSorulan \subseteq QGun /\ QIsGunu \subseteq QGun /\ QBugun \in QGun
  /\ \A s \in QYayimSaat : s \in Nat /\ s >= QTtl
<1>1. QTtl \in Nat /\ QKisaTtl \in Nat /\ QOgle \in Nat /\ QEnCok \in Nat /\ QSonSaat \in Nat /\ QYayimSaat \subseteq Nat
  BY KurVarsayimi
<1>2. QGun \subseteq Nat /\ 0 \notin QGun /\ QSorulan \subseteq QGun /\ QIsGunu \subseteq QGun /\ QBugun \in QGun /\ Yok \notin Int
  BY KurVarsayimi
<1>3. QKisaTtl > 0 /\ QTtl >= QKisaTtl /\ \A s \in QYayimSaat : s >= QTtl
  BY KurVarsayimi
<1>4. QSaat \subseteq Nat /\ Gunler0 \subseteq Nat
  BY <1>1, <1>2 DEF QSaat, Gunler0
<1> QED BY <1>1, <1>2, <1>3, <1>4

(* The bulletin a fetch comes back with.                                   *)
LEMMA QBultenBiri ==
  ASSUME QBankaInv, NEW g \in QSorulan, qUcus[g] # Yok, NEW Y \in {qUcus[g].yayim, qYayim}, NEW hata,
         QUygun(g, qUcus[g], Y, hata) # {}
  PROVE  /\ QBulten(g, qUcus[g], Y, hata) \in Y \cup {0} /\ QBulten(g, qUcus[g], Y, hata) <= g
         /\ hata = {} /\ g = qUcus[g].an.gun /\ g \in Y => QBulten(g, qUcus[g], Y, hata) = g
<1>1. PICK u : u = qUcus[g]
  OBVIOUS
<1>2. u \in QUcusKaydi /\ QUcusDogru(u)
  BY <1>1 DEF QBankaInv, QTipler, QUcuslarDogru
<1>3. g \in Nat /\ g > 0 /\ g \in QGun /\ u.an.gun \in Nat /\ qAn.gun \in Nat /\ qAn.saat \in Nat /\ QTtl \in Nat /\ QTtl > 0
  <2>1. u.an.gun \in QGun /\ qAn.gun \in QGun /\ qAn.saat \in QSaat
    BY <1>2 DEF QUcusKaydi, QBankaInv, QTipler
  <2>2. g \in QGun /\ QGun \subseteq Nat /\ 0 \notin QGun /\ QSaat \subseteq Nat /\ QTtl \in Nat /\ QTtl > 0
    BY QSayilar
  <2>3. u.an.gun \in Nat /\ qAn.gun \in Nat
    BY <2>1, <2>2
  <2>4. qAn.saat \in Nat
    BY <2>1, <2>2
  <2>5. g \in Nat /\ g # 0
    BY <2>2
  <2>6. g > 0
    BY <2>5
  <2> QED BY <2>2, <2>3, <2>4, <2>5, <2>6
<1>4. Y \subseteq qYayim /\ Y \subseteq Nat
  BY <1>1, <1>2, QSayilar DEF QUcusDogru, QBankaInv, QTipler
<1>5. \A d \in Y : d <= u.an.gun
  <2>1. \A d \in Y : d <= qAn.gun /\ d \in Nat
    BY <1>4 DEF QBankaInv, QYayimDogru
  <2>2. u.an.gun = qAn.gun \/ (u.an.gun + 1 = qAn.gun /\ qAn.gun \notin qYayim)
    BY <1>2, <1>3 DEF QUcusDogru, QBankaInv, QYayimDogru
  <2> QED BY <1>3, <1>4, <2>1, <2>2
<1>6. PICK S : S = QUygun(g, u, Y, hata)
  OBVIOUS
<1>7. S \subseteq Nat /\ S # {} /\ \A c \in S : c <= g /\ (c \in Y \cup {0} \/ (c = g /\ g = u.an.gun))
  <2>1. S # {}
    BY <1>1, <1>6
  <2>2. S \subseteq Gunler0 /\ \A c \in S : c <= g /\ (c \in Y \cup {0} \/ (c = g /\ g = u.an.gun))
    BY <1>6 DEF QUygun
  <2> QED BY <2>1, <2>2, QSayilar
<1>8. Max(S) \in S /\ \A y \in S : y <= Max(S)
  BY <1>3, <1>7, QEnBuyuk
<1>9. PICK x : x = Max(Y \cup {0})
  OBVIOUS
<1>10. x \in Y \cup {0} /\ x \in Nat /\ \A y \in Y \cup {0} : y <= x
  <2>1. PICK T : T = Y \cup {0}
    OBVIOUS
  <2>2. T \in SUBSET Nat /\ T # {} /\ \A d \in T : d <= u.an.gun
    BY <1>3, <1>4, <1>5, <2>1
  <2>3. Max(T) \in T /\ \A d \in T : d <= Max(T)
    BY <1>3, <2>2, QEnBuyuk
  <2>4. x = Max(T)
    BY <1>9, <2>1
  <2>5. x \in T /\ \A d \in T : d <= x
    BY <2>3, <2>4
  <2> QED BY <2>1, <2>2, <2>5
<1>11. CASE Max(S) = g /\ g = u.an.gun
  <2>1. QBulten(g, u, Y, hata) = x
    BY <1>6, <1>9, <1>11 DEF QBulten
  <2>2. x <= g
    BY <1>3, <1>5, <1>10, <1>11
  <2>3. g \in Y => x = g
    BY <1>3, <1>10, <2>2
  <2> QED BY <1>1, <1>10, <1>11, <2>1, <2>2, <2>3
<1>12. CASE ~(Max(S) = g /\ g = u.an.gun)
  <2>1. Max(S) \in Y \cup {0} /\ Max(S) <= g
    BY <1>7, <1>8, <1>12
  <2>2. hata = {} /\ g = u.an.gun => Max(S) = g
    <3> SUFFICES ASSUME hata = {}, g = u.an.gun PROVE Max(S) = g
      OBVIOUS
    <3>1. g \in S
      BY <1>3, <1>6 DEF QUygun, Gunler0
    <3>2. PICK z : z = Max(S)
      OBVIOUS
    <3>3. z \in Nat /\ z <= g /\ g <= z
      BY <1>7, <1>8, <3>1, <3>2
    <3> QED BY <1>3, <3>2, <3>3
  <2>3. QBulten(g, u, Y, hata) = Max(S)
    BY <1>6, <1>12 DEF QBulten
  <2> QED BY <1>1, <1>12, <2>1, <2>2, <2>3
<1> QED BY <1>11, <1>12

(* The types of what is kept for a date.                                   *)
LEMMA QTipleri ==
  ASSUME QBankaInv
  PROVE  /\ qAn.gun \in QGun /\ qAn.gun \in Nat /\ qAn.saat \in Nat /\ qAn.saat <= QSonSaat /\ qYas \in Nat
         /\ qYayim \subseteq QGun
         /\ \A g \in QSorulan : qOnbellek[g] # Yok => qOnbellek[g] \in QHit
         /\ \A g \in QSorulan : qUcus[g] # Yok => qUcus[g] \in QUcusKaydi
<1>1. qAn.gun \in QGun /\ qAn.saat \in QSaat /\ qAn.saat \in 0..QSonSaat
  BY DEF QBankaInv, QTipler, QSaat
<1>2. QGun \subseteq Nat /\ QSonSaat \in Nat /\ QTtl \in Nat /\ QKisaTtl \in Nat
  BY QSayilar
<1>3. qYas \in Nat
  BY <1>2 DEF QBankaInv, QTipler
<1>4. qAn.gun \in Nat
  BY <1>1, <1>2
<1>5. qAn.saat \in Nat /\ qAn.saat <= QSonSaat
  BY <1>1, <1>2
<1> QED BY <1>1, <1>3, <1>4, <1>5 DEF QBankaInv, QTipler

(* The day's question: answered from the cache, with the fetch there is or *)
(* with a new one.  It never has to note today's bulletin: whoever found it*)
(* has noted it.                                                           *)
LEMMA QSorBiri ==
  ASSUME QBankaInv, NEW g \in QSorulan, NEW zorla \in BOOLEAN, QSor(g, zorla)
  PROVE  /\ UNCHANGED <<qAn, qYayim, qYas, qOnbellek, qSon, qOgleBakildi, qOgleKim>>
         /\ qSayac' \in 0..QEnCok /\ qZorlandi' \in BOOLEAN
         /\ \/ UNCHANGED qUcus
            \/ qUcus[g] = Yok /\ qUcus' = [qUcus EXCEPT ![g] = [an |-> qAn, yayim |-> qYayim]]
<1>1. qSayac < QEnCok /\ qSayac' = qSayac + 1 /\ qZorlandi' = (qZorlandi \/ zorla)
  BY DEF QSor
<1>2. qSayac' \in 0..QEnCok
  <2>1. qSayac \in 0..QEnCok /\ QEnCok \in Nat
    BY QSayilar DEF QBankaInv, QTipler
  <2> QED BY <1>1, <2>1
<1>3. qZorlandi' \in BOOLEAN
  BY <1>1
<1>4. ~(QOgleSorulur(g) /\ QEldeki(g) = qAn.gun)
  BY DEF QOgleSorulur, QEldeki, QBankaInv, QNotDogru
<1>5. UNCHANGED <<qOgleBakildi, qOgleKim>>
  BY <1>4 DEF QSor
<1>6. UNCHANGED qUcus \/ (qUcus[g] = Yok /\ qUcus' = [qUcus EXCEPT ![g] = [an |-> qAn, yayim |-> qYayim]])
  BY DEF QSor
<1> QED BY <1>2, <1>3, <1>5, <1>6 DEF QSor

(* An answer from the cache.                                               *)
LEMMA QHitYaniti ==
  ASSUME QBankaInv, NEW g \in QSorulan, ~QCanli(g, FALSE)
  PROVE  /\ qOnbellek[g] # Yok
         /\ QYanitDogru(Yanit(g, qOnbellek[g].kur, FALSE, qOnbellek[g].temiz, TRUE, qOnbellek[g].ogleden))
<1>1. qOnbellek[g] # Yok /\ qOnbellek[g].kalan > 0 /\ ~QOgleGerek(g)
  BY DEF QCanli, QGecerli
<1>2. PICK e : e = qOnbellek[g]
  OBVIOUS
<1>3. e \in QHit /\ QHitDogru(g, e)
  BY <1>1, <1>2, QTipleri DEF QBankaInv, QHitlerDogru
<1>4. e.kalan \in Nat /\ e.kalan > 0 /\ QKisaTtl \in Nat /\ qYas \in Nat
  <2>1. e.kalan \in 0..QTtl /\ QTtl \in Nat /\ QKisaTtl \in Nat
    BY <1>3, QSayilar DEF QHit
  <2> QED BY <1>1, <1>2, <2>1, QTipleri
<1>5. PICK y : y = Yanit(g, e.kur, FALSE, e.temiz, TRUE, e.ogleden)
  OBVIOUS
<1>6. /\ y.gun = g /\ y.kur = e.kur /\ y.temiz = e.temiz /\ y.ogleden = e.ogleden /\ y.an = qAn
      /\ y.gecikme = (IF qAn.gun \in qYayim THEN qYas ELSE 0)
      /\ y.baskasi = (qOgleBakildi = qAn.gun /\ ~qOgleKim)
  BY <1>5 DEF Yanit
<1>7. ASSUME g = qAn.gun, e.temiz, y.gecikme > QKisaTtl PROVE e.kur = g
  <2>1. g \in qYayim /\ qYas > QKisaTtl
    BY <1>4, <1>6, <1>7
  <2>2. e.kur # g => qYas + e.kalan <= QKisaTtl + 1
    BY <1>3, <1>4, <1>7, <2>1 DEF QHitDogru
  <2> QED BY <1>4, <2>1, <2>2
<1>8. ASSUME g = qAn.gun, e.temiz, OgledenSonra(qAn), e.kur # g PROVE e.ogleden \/ (qOgleBakildi = qAn.gun /\ ~qOgleKim)
  <2>1. QEldeki(g) # qAn.gun
    BY <1>1, <1>2, <1>8 DEF QEldeki
  <2>2. qOgleBakildi = qAn.gun
    BY <1>1, <1>8, <2>1 DEF QOgleGerek, QOgleSorulur
  <2>3. qOgleKim => e.ogleden
    BY <1>1, <1>2, <1>8, <2>2 DEF QBankaInv, QBakisDogru
  <2> QED BY <2>2, <2>3
<1>9. QYanitDogru(y)
  BY <1>6, <1>7, <1>8 DEF QYanitDogru
<1> QED BY <1>1, <1>2, <1>5, <1>9

LEMMA QSorKorur ==
  ASSUME QBankaInv, BultenGecikmez, NEW g \in QSorulan, NEW zorla \in BOOLEAN, QSor(g, zorla)
  PROVE  QBankaInv' /\ BultenGecikmez'
<1>1. /\ qAn' = qAn /\ qYayim' = qYayim /\ qYas' = qYas /\ qOnbellek' = qOnbellek /\ qSon' = qSon
      /\ qOgleBakildi' = qOgleBakildi /\ qOgleKim' = qOgleKim
      /\ qSayac' \in 0..QEnCok /\ qZorlandi' \in BOOLEAN
  BY QSorBiri
<1>2. PICK u : u = [an |-> qAn, yayim |-> qYayim]
  OBVIOUS
<1>3. qUcus' = qUcus \/ (qUcus[g] = Yok /\ qUcus' = [qUcus EXCEPT ![g] = u])
  BY <1>2, QSorBiri
<1>4. /\ qUcus' \in [QSorulan -> QUcusKaydi \cup {Yok}]
      /\ \A h \in QSorulan : qUcus'[h] = qUcus[h] \/ (h = g /\ qUcus'[h] = u)
  <2>1. u \in QUcusKaydi /\ qUcus \in [QSorulan -> QUcusKaydi \cup {Yok}]
    BY <1>2 DEF QUcusKaydi, QBankaInv, QTipler
  <2> QED BY <1>3, <2>1
<1>5. QTipler' /\ QYayimDogru' /\ QNotDogru'
  BY <1>1, <1>4 DEF QBankaInv, QTipler, QYayimDogru, QNotDogru
<1>6. QHitlerDogru'
  BY <1>1 DEF QBankaInv, QHitlerDogru, QHitDogru
<1>7. QUcuslarDogru'
  <2>1. QUcusDogru(u)
    BY <1>2, QTipleri DEF QUcusDogru
  <2>2. \A h \in QSorulan : qUcus'[h] # Yok => QUcusDogru(qUcus'[h])
    BY <1>4, <2>1 DEF QBankaInv, QUcuslarDogru
  <2> QED BY <1>1, <2>2 DEF QUcuslarDogru, QUcusDogru
<1>8. QBakisDogru'
  <2> SUFFICES ASSUME qOgleBakildi = qAn.gun, qOgleKim PROVE QBakisDogru'
    BY <1>1 DEF QBakisDogru
  <2>1. qAn.gun \in qYayim \/ OgledenSonra(qAn)
    BY DEF QBankaInv, QBakisDogru
  <2>2. ASSUME NEW h \in QSorulan, h = qAn.gun, qUcus'[h] # Yok
        PROVE  qUcus'[h].an.gun = h /\ (h \in qUcus'[h].yayim \/ OgledenSonra(qUcus'[h].an))
    <3>1. CASE qUcus'[h] = qUcus[h]
      BY <2>2, <3>1 DEF QBankaInv, QBakisDogru
    <3>2. CASE qUcus'[h] = u
      BY <1>2, <2>1, <2>2, <3>2
    <3> QED BY <1>4, <3>1, <3>2
  <2>3. ASSUME NEW h \in QSorulan, h = qAn.gun, qOnbellek[h] # Yok, qOnbellek[h].temiz
        PROVE  qOnbellek[h].kur = h \/ qOnbellek[h].ogleden
    BY <2>3 DEF QBankaInv, QBakisDogru
  <2> QED BY <1>1, <2>1, <2>2, <2>3 DEF QBakisDogru
<1>9. BultenGecikmez'
  <2>1. CASE QCanli(g, zorla)
    BY <2>1, QKalirDogru DEF QSor
  <2>2. CASE ~QCanli(g, zorla)
    <3>1. ~QCanli(g, FALSE)
      BY <2>2 DEF QCanli
    <3>2. QGor(Yanit(g, qOnbellek[g].kur, FALSE, qOnbellek[g].temiz, TRUE, qOnbellek[g].ogleden))
      BY <2>2 DEF QSor
    <3> QED BY <3>1, <3>2, QHitYaniti, QGorDogru
  <2> QED BY <2>1, <2>2
<1> QED BY <1>5, <1>6, <1>7, <1>8, <1>9 DEF QBankaInv

(* A bulletin is published.                                                *)
LEMMA QYayimlaKorur == ASSUME QBankaInv, QYayimla PROVE QBankaInv'
<1>1. /\ qAn' = qAn /\ qYayim' = qYayim \cup {qAn.gun} /\ qYas' = 0 /\ qOnbellek' = qOnbellek /\ qSon' = qSon
      /\ qUcus' = qUcus /\ qOgleBakildi' = qOgleBakildi /\ qOgleKim' = qOgleKim /\ qZorlandi' = qZorlandi /\ qSayac' = qSayac
      /\ qAn.gun \notin qYayim /\ qAn.saat \in QYayimSaat
  BY DEF QYayimla
<1>2. qAn.saat >= QTtl /\ QTtl \in Nat /\ QTtl > 0 /\ QKisaTtl \in Nat /\ qAn.saat \in Nat /\ qAn.gun \in Nat /\ qAn.gun \in QGun
  BY <1>1, QSayilar, QTipleri
<1>3. QTipler'
  BY <1>1, <1>2 DEF QBankaInv, QTipler
<1>4. QYayimDogru'
  BY <1>1, <1>2 DEF QBankaInv, QYayimDogru
<1>5. QUcuslarDogru'
  <2> SUFFICES ASSUME NEW g \in QSorulan, qUcus[g] # Yok PROVE QUcusDogru(qUcus[g])'
    BY <1>1 DEF QUcuslarDogru
  <2>1. PICK u : u = qUcus[g]
    OBVIOUS
  <2>2. QUcusDogru(u) /\ u \in QUcusKaydi
    BY <2>1, QTipleri DEF QBankaInv, QUcuslarDogru
  <2>3. u.an.saat \in Nat
    BY <2>2, QSayilar DEF QUcusKaydi
  <2>4. /\ u.yayim \subseteq qYayim /\ u.an.gun = qAn.gun /\ qAn.saat - 1 <= u.an.saat /\ u.an.saat <= qAn.saat
    BY <1>2, <2>2 DEF QUcusDogru
  <2>5. QUcusDogru(u)'
    BY <1>1, <1>2, <2>3, <2>4 DEF QUcusDogru
  <2> QED BY <1>1, <2>1, <2>5 DEF QUcusDogru
<1>6. QHitlerDogru'
  <2> SUFFICES ASSUME NEW g \in QSorulan, qOnbellek[g] # Yok PROVE QHitDogru(g, qOnbellek[g])'
    BY <1>1 DEF QHitlerDogru
  <2>1. PICK e : e = qOnbellek[g]
    OBVIOUS
  <2>2. QHitDogru(g, e) /\ e \in QHit
    BY <2>1, QTipleri DEF QBankaInv, QHitlerDogru
  <2>3. e.kalan \in Nat
    BY <2>2, QSayilar DEF QHit
  <2>4. e.kur \in qYayim' \cup {0} /\ e.kur <= g
    BY <1>1, <2>2 DEF QHitDogru
  <2>5. ASSUME g = qAn.gun, e.kur # g, e.temiz, e.kalan > 0 PROVE e.kalan <= QKisaTtl
    <3>1. e.kalan <= QKisaTtl \/ e.kalan + qAn.saat <= QTtl
      BY <1>1, <2>2, <2>5 DEF QHitDogru
    <3> QED BY <1>2, <2>3, <2>5, <3>1
  <2>6. QHitDogru(g, e)'
    BY <1>1, <1>2, <2>3, <2>4, <2>5 DEF QHitDogru
  <2> QED BY <1>1, <2>1, <2>6 DEF QHitDogru
<1>7. QNotDogru'
  BY <1>1 DEF QBankaInv, QNotDogru
<1>8. QBakisDogru'
  BY <1>1 DEF QBankaInv, QBakisDogru
<1> QED BY <1>3, <1>4, <1>5, <1>6, <1>7, <1>8 DEF QBankaInv

(* The clock.                                                              *)
LEMMA QIlerleBiri ==
  ASSUME QBankaInv, QIlerle
  PROVE  /\ \A g \in QSorulan : qUcus[g] # Yok => qUcus[g].an = qAn
         /\ \/ qAn.saat # QSonSaat /\ qAn'.gun = qAn.gun /\ qAn'.saat = qAn.saat + 1
            \/ qAn'.gun = qAn.gun + 1 /\ qAn'.saat = 0
         /\ qAn' \in [gun : QGun, saat : QSaat] /\ qYas' \in 0..(QTtl + QKisaTtl) /\ qYas' <= qYas + 1
         /\ DOMAIN qOnbellek' = QSorulan
         /\ \A g \in QSorulan : qOnbellek[g] = Yok => qOnbellek'[g] = Yok
         /\ \A g \in QSorulan : qOnbellek[g] # Yok =>
              /\ qOnbellek'[g] \in QHit
              /\ qOnbellek'[g].kur = qOnbellek[g].kur /\ qOnbellek'[g].temiz = qOnbellek[g].temiz
              /\ qOnbellek'[g].kalan > 0 => qOnbellek'[g].kalan = qOnbellek[g].kalan - 1
              /\ qAn'.gun = qAn.gun => qOnbellek'[g].ogleden = qOnbellek[g].ogleden
<1>0. qAn \in [gun : QGun, saat : QSaat] /\ qAn.gun \in Nat /\ qAn.saat \in 0..QSonSaat /\ QSonSaat \in Nat
  BY QSayilar DEF QBankaInv, QTipler, QSaat
<1>1. PICK ayni \in BOOLEAN :
        /\ QEskit(ayni)
        /\ \/ ayni /\ qAn.saat # QSonSaat /\ qAn' = [qAn EXCEPT !.saat = @ + 1]
           \/ ~ayni /\ qAn.gun + 1 \in QGun /\ qAn' = [gun |-> qAn.gun + 1, saat |-> 0]
  BY DEF QIlerle
<1>2. \/ ayni /\ qAn.saat # QSonSaat /\ qAn'.gun = qAn.gun /\ qAn'.saat = qAn.saat + 1 /\ qAn' = [gun |-> qAn.gun, saat |-> qAn.saat + 1]
      \/ ~ayni /\ qAn'.gun = qAn.gun + 1 /\ qAn'.saat = 0 /\ qAn.gun + 1 \in QGun /\ qAn' = [gun |-> qAn.gun + 1, saat |-> 0]
  BY <1>0, <1>1
<1>3. qAn' \in [gun : QGun, saat : QSaat]
  <2>1. qAn.saat # QSonSaat => qAn.saat + 1 \in 0..QSonSaat
    BY <1>0
  <2>2. 0 \in 0..QSonSaat /\ qAn.gun \in QGun
    BY <1>0
  <2> QED BY <1>2, <2>1, <2>2 DEF QSaat
<1>4. qYas' \in 0..(QTtl + QKisaTtl) /\ qYas' <= qYas + 1
  <2>1. qYas \in Nat /\ QTtl \in Nat /\ QKisaTtl \in Nat
    BY QSayilar, QTipleri
  <2>2. qYas' = Min({qYas + 1, QTtl + QKisaTtl})
    BY DEF QIlerle
  <2>3. qYas + 1 \in Nat /\ QTtl + QKisaTtl \in Nat
    BY <2>1
  <2>4. qYas' = IF qYas + 1 <= QTtl + QKisaTtl THEN qYas + 1 ELSE QTtl + QKisaTtl
    BY <2>2, <2>3, QIkiSayi
  <2> QED BY <2>1, <2>4
<1>5. DOMAIN qOnbellek = QSorulan
  BY DEF QBankaInv, QTipler
<1>6. /\ DOMAIN qOnbellek' = QSorulan
      /\ \A g \in QSorulan : qOnbellek'[g] = IF qOnbellek[g] = Yok THEN Yok
           ELSE [qOnbellek[g] EXCEPT !.kalan = Max({0, @ - 1}), !.ogleden = @ /\ ayni]
  BY <1>1, <1>5 DEF QEskit
<1>7. ASSUME NEW g \in QSorulan, qOnbellek[g] # Yok
      PROVE  /\ qOnbellek'[g] \in QHit
             /\ qOnbellek'[g].kur = qOnbellek[g].kur /\ qOnbellek'[g].temiz = qOnbellek[g].temiz
             /\ qOnbellek'[g].kalan > 0 => qOnbellek'[g].kalan = qOnbellek[g].kalan - 1
             /\ qAn'.gun = qAn.gun => qOnbellek'[g].ogleden = qOnbellek[g].ogleden
  <2>1. PICK e : e = qOnbellek[g]
    OBVIOUS
  <2>2. PICK x : x = qOnbellek'[g]
    OBVIOUS
  <2>3. e \in QHit /\ e.kalan \in 0..QTtl /\ QTtl \in Nat
    BY <1>7, <2>1, QTipleri, QSayilar DEF QHit
  <2>4. PICK kalir : kalir = Max({0, e.kalan - 1})
    OBVIOUS
  <2>5. kalir = IF e.kalan > 0 THEN e.kalan - 1 ELSE 0
    <3>1. e.kalan \in Nat
      BY <2>3
    <3> QED BY <2>4, <3>1, QIkiSayi
  <2>6. kalir \in 0..QTtl /\ (kalir > 0 => kalir = e.kalan - 1)
    BY <2>3, <2>5
  <2>7. x = [e EXCEPT !.kalan = kalir, !.ogleden = @ /\ ayni]
    BY <1>6, <1>7, <2>1, <2>2, <2>4
  <2>8. x.kur = e.kur /\ x.temiz = e.temiz /\ x.kalan = kalir /\ x.ogleden = (e.ogleden /\ ayni)
    BY <2>3, <2>7 DEF QHit
  <2>9. x \in QHit
    BY <2>3, <2>6, <2>7 DEF QHit
  <2>10. qAn'.gun = qAn.gun => x.ogleden = e.ogleden
    <3>1. e.ogleden \in BOOLEAN
      BY <2>3 DEF QHit
    <3>2. qAn'.gun = qAn.gun => ayni
      BY <1>0, <1>2
    <3> QED BY <2>8, <3>1, <3>2
  <2> QED BY <2>1, <2>2, <2>6, <2>8, <2>9, <2>10
<1>8. \A g \in QSorulan : qUcus[g] # Yok => qUcus[g].an = qAn
  BY DEF QIlerle
<1> QED BY <1>2, <1>3, <1>4, <1>6, <1>7, <1>8

LEMMA QIlerleKorur == ASSUME QBankaInv, QIlerle PROVE QBankaInv'
<1>1. /\ qYayim' = qYayim /\ qSon' = qSon /\ qUcus' = qUcus /\ qOgleBakildi' = qOgleBakildi /\ qOgleKim' = qOgleKim
      /\ qSayac' = qSayac /\ qZorlandi' = FALSE
  BY DEF QIlerle
<1>2. \/ qAn.saat # QSonSaat /\ qAn'.gun = qAn.gun /\ qAn'.saat = qAn.saat + 1
      \/ qAn'.gun = qAn.gun + 1 /\ qAn'.saat = 0
  BY QIlerleBiri
<1>3. /\ qAn.gun \in Nat /\ qAn.saat \in Nat /\ QTtl \in Nat /\ QKisaTtl \in Nat /\ qYas \in Nat /\ qYas' \in Nat /\ qYas' <= qYas + 1
      /\ QTtl > 0 /\ qAn'.gun \in Nat /\ qAn'.saat \in Nat
  <2>1. qYas' \in 0..(QTtl + QKisaTtl) /\ QTtl \in Nat /\ QKisaTtl \in Nat /\ qYas' <= qYas + 1 /\ QTtl > 0
    BY QSayilar, QIlerleBiri
  <2>2. qYas' \in Nat
    BY <2>1
  <2>3. qAn.gun \in Nat /\ qAn.saat \in Nat /\ qYas \in Nat
    BY QTipleri
  <2>4. qAn'.gun \in Nat /\ qAn'.saat \in Nat
    BY <1>2, <2>3
  <2> QED BY <2>1, <2>2, <2>3, <2>4
<1>4. QTipler'
  <2>1. \A g \in QSorulan : qOnbellek'[g] \in QHit \cup {Yok}
    BY QIlerleBiri
  <2>2. qOnbellek' \in [QSorulan -> QHit \cup {Yok}]
    <3>1. qOnbellek' = [g \in QSorulan |-> qOnbellek'[g]]
      BY DEF QIlerle, QEskit, QBankaInv, QTipler
    <3> QED BY <2>1, <3>1
  <2> QED BY <1>1, <2>2, QIlerleBiri DEF QBankaInv, QTipler
<1>5. \A d \in qYayim : d <= qAn.gun /\ d \in Nat
  BY QSayilar DEF QBankaInv, QTipler, QYayimDogru
<1>6. QYayimDogru'
  BY <1>1, <1>2, <1>3, <1>5 DEF QBankaInv, QYayimDogru
<1>7. QUcuslarDogru'
  <2> SUFFICES ASSUME NEW g \in QSorulan, qUcus[g] # Yok PROVE QUcusDogru(qUcus[g])'
    BY <1>1 DEF QUcuslarDogru
  <2>1. PICK u : u = qUcus[g]
    OBVIOUS
  <2>2. QUcusDogru(u) /\ u.an = qAn
    BY <2>1, QIlerleBiri DEF QBankaInv, QUcuslarDogru
  <2>3. QUcusDogru(u)'
    BY <1>1, <1>2, <1>3, <2>2 DEF QUcusDogru
  <2> QED BY <1>1, <2>1, <2>3 DEF QUcusDogru
<1>8. QHitlerDogru'
  <2> SUFFICES ASSUME NEW g \in QSorulan, qOnbellek'[g] # Yok PROVE QHitDogru(g, qOnbellek[g])'
    BY DEF QHitlerDogru
  <2>1. PICK e : e = qOnbellek[g]
    OBVIOUS
  <2>2. PICK x : x = qOnbellek'[g]
    OBVIOUS
  <2>3. /\ e # Yok /\ x \in QHit /\ x.kur = e.kur /\ x.temiz = e.temiz
        /\ x.kalan > 0 => x.kalan = e.kalan - 1
    BY <2>1, <2>2, QIlerleBiri
  <2>4. QHitDogru(g, e) /\ e \in QHit
    BY <2>1, <2>3, QTipleri DEF QBankaInv, QHitlerDogru
  <2>5. e.kalan \in Nat /\ x.kalan \in Nat /\ e.kalan <= QTtl
    <3>1. e.kalan \in 0..QTtl /\ x.kalan \in 0..QTtl
      BY <2>3, <2>4 DEF QHit
    <3> QED BY <1>3, <3>1
  <2>6. x.kur \in qYayim' \cup {0} /\ x.kur <= g
    BY <1>1, <2>3, <2>4 DEF QHitDogru
  <2>7. ASSUME g = qAn'.gun, x.kur # g, x.temiz, x.kalan > 0
        PROVE  IF g \in qYayim' THEN qYas' + x.kalan <= QKisaTtl + 1
               ELSE x.kalan <= QKisaTtl \/ x.kalan + qAn'.saat <= QTtl
    <3>1. CASE qAn'.gun = qAn.gun /\ qAn'.saat = qAn.saat + 1
      <4>1. IF g \in qYayim THEN qYas + e.kalan <= QKisaTtl + 1
            ELSE e.kalan <= QKisaTtl \/ e.kalan + qAn.saat <= QTtl
        BY <2>3, <2>4, <2>5, <2>7, <3>1 DEF QHitDogru
      <4> QED BY <1>1, <1>3, <2>3, <2>5, <2>7, <3>1, <4>1
    <3>2. CASE qAn'.gun = qAn.gun + 1 /\ qAn'.saat = 0
      <4>1. g \notin qYayim
        BY <1>3, <1>5, <2>7, <3>2
      <4> QED BY <1>1, <1>3, <2>3, <2>5, <2>7, <3>2, <4>1
    <3> QED BY <1>2, <3>1, <3>2
  <2>8. QHitDogru(g, x)'
    BY <2>6, <2>7 DEF QHitDogru
  <2> QED BY <2>2, <2>8 DEF QHitDogru
<1>9. QNotDogru'
  <2>1. qOgleBakildi # Yok => qOgleBakildi \in Nat /\ qOgleBakildi <= qAn.gun
    BY QSayilar DEF QBankaInv, QTipler, QNotDogru
  <2>2. CASE qAn'.gun = qAn.gun
    <3>1. \A g \in QSorulan : qOnbellek'[g] # Yok => qOnbellek[g] # Yok /\ qOnbellek'[g].kur = qOnbellek[g].kur
      BY QIlerleBiri
    <3> QED BY <1>1, <2>2, <3>1 DEF QBankaInv, QNotDogru
  <2>3. CASE qAn'.gun = qAn.gun + 1
    <3>1. qAn'.gun \notin qYayim \cup {0, Yok}
      <4>1. qAn'.gun \notin qYayim
        BY <1>3, <1>5, <2>3
      <4>2. qAn'.gun # 0 /\ qAn'.gun # Yok
        BY <1>3, <2>3, QSayilar
      <4> QED BY <4>1, <4>2
    <3>2. \A g \in QSorulan : qOnbellek'[g] # Yok => qOnbellek'[g].kur \in qYayim \cup {0}
      BY QIlerleBiri DEF QBankaInv, QHitlerDogru, QHitDogru
    <3>3. qOgleBakildi # Yok => qOgleBakildi <= qAn'.gun
      BY <1>3, <2>1, <2>3
    <3> QED BY <1>1, <3>1, <3>2, <3>3 DEF QBankaInv, QNotDogru
  <2> QED BY <1>2, <2>2, <2>3
<1>10. QBakisDogru'
  <2> SUFFICES ASSUME qOgleBakildi = qAn'.gun, qOgleKim PROVE QBakisDogru'
    BY <1>1 DEF QBakisDogru
  <2>1. qAn'.gun = qAn.gun /\ qAn'.saat = qAn.saat + 1
    <3>1. qOgleBakildi # Yok => qOgleBakildi \in Nat /\ qOgleBakildi <= qAn.gun
      BY QSayilar DEF QBankaInv, QTipler, QNotDogru
    <3>2. qAn'.gun # Yok
      BY <1>3, QSayilar
    <3> QED BY <1>2, <1>3, <3>1, <3>2
  <2>2. qAn.gun \in qYayim \/ OgledenSonra(qAn)
    BY <2>1 DEF QBankaInv, QBakisDogru
  <2>3. OgledenSonra(qAn) => OgledenSonra(qAn')
    BY <1>3, <2>1, QSayilar DEF OgledenSonra
  <2>4. ASSUME NEW h \in QSorulan, h = qAn.gun, qUcus[h] # Yok
        PROVE  qUcus[h].an.gun = h /\ (h \in qUcus[h].yayim \/ OgledenSonra(qUcus[h].an))
    BY <2>1, <2>4 DEF QBankaInv, QBakisDogru
  <2>5. ASSUME NEW h \in QSorulan, h = qAn.gun, qOnbellek'[h] # Yok, qOnbellek'[h].temiz
        PROVE  qOnbellek'[h].kur = h \/ qOnbellek'[h].ogleden
    <3>1. /\ qOnbellek[h] # Yok /\ qOnbellek'[h].kur = qOnbellek[h].kur /\ qOnbellek'[h].temiz = qOnbellek[h].temiz
          /\ qOnbellek'[h].ogleden = qOnbellek[h].ogleden
      BY <2>1, <2>5, QIlerleBiri
    <3> QED BY <2>1, <2>5, <3>1 DEF QBankaInv, QBakisDogru
  <2> QED BY <1>1, <2>1, <2>2, <2>3, <2>4, <2>5 DEF QBakisDogru
<1> QED BY <1>4, <1>6, <1>7, <1>8, <1>9, <1>10 DEF QBankaInv

(* A fetch comes back: what it found and how the notes change.  `iyi': the *)
(* page was reached and the answer is kept.                                *)
QVarisi(g, u, Y, hata, kur, bulundu) ==
  /\ u = qUcus[g] /\ u # Yok /\ u \in QUcusKaydi /\ QUcusDogru(u) /\ Y \in {u.yayim, qYayim}
  /\ bulundu \in BOOLEAN
  /\ bulundu => /\ kur \in Y \cup {0} /\ kur <= g
                /\ hata = {} /\ g = u.an.gun /\ g \in Y => kur = g
                /\ QSakla(g, u, kur, hata)
  /\ ~bulundu => kur = qSon /\ UNCHANGED <<qOnbellek, qSon>>
  /\ QOgleNot(g, u, kur, bulundu /\ (hata = {} \/ kur = g))
  /\ IF kur = Yok THEN UNCHANGED qYanit ELSE QGor(Yanit(g, kur, ~bulundu, hata = {}, FALSE, OgledenSonra(u.an)))
  /\ qOdeme' = QOdemeAlir(g, kur, ~bulundu)
  /\ qUcus' = [qUcus EXCEPT ![g] = Yok]
  /\ UNCHANGED <<qAn, qYayim, qYas, qZorlandi, qSayac>>

LEMMA QVarirBiri ==
  ASSUME QBankaInv, NEW g \in QSorulan, QVarir(g)
  PROVE  \E u, Y, hata, kur, bulundu : QVarisi(g, u, Y, hata, kur, bulundu)
<1>1. qUcus[g] # Yok
  BY DEF QVarir
<1>2. PICK Y \in {qUcus[g].yayim, qYayim}, hata \in {{}, {g}, Gunler0} :
       LET u == qUcus[g]
           bulundu == QUygun(g, u, Y, hata) # {}
           kur == IF bulundu THEN QBulten(g, u, Y, hata) ELSE qSon
       IN /\ IF bulundu THEN QSakla(g, u, kur, hata) ELSE UNCHANGED <<qOnbellek, qSon>>
          /\ QOgleNot(g, u, kur, bulundu /\ (hata = {} \/ kur = g))
          /\ IF kur = Yok THEN UNCHANGED qYanit ELSE QGor(Yanit(g, kur, ~bulundu, hata = {}, FALSE, OgledenSonra(u.an)))
          /\ qOdeme' = QOdemeAlir(g, kur, ~bulundu)
  BY DEF QVarir
<1>3. PICK u : u = qUcus[g]
  OBVIOUS
<1>4. PICK bulundu : bulundu = (QUygun(g, u, Y, hata) # {})
  OBVIOUS
<1>5. PICK kur : kur = IF bulundu THEN QBulten(g, u, Y, hata) ELSE qSon
  OBVIOUS
<1>6. /\ IF bulundu THEN QSakla(g, u, kur, hata) ELSE UNCHANGED <<qOnbellek, qSon>>
      /\ QOgleNot(g, u, kur, bulundu /\ (hata = {} \/ kur = g))
      /\ IF kur = Yok THEN UNCHANGED qYanit ELSE QGor(Yanit(g, kur, ~bulundu, hata = {}, FALSE, OgledenSonra(u.an)))
      /\ qOdeme' = QOdemeAlir(g, kur, ~bulundu)
  BY <1>2, <1>3, <1>4, <1>5
<1>7. bulundu \in BOOLEAN
  BY <1>4
<1>8. bulundu => kur \in Y \cup {0} /\ kur <= g /\ (hata = {} /\ g = u.an.gun /\ g \in Y => kur = g)
  BY <1>1, <1>2, <1>3, <1>4, <1>5, QBultenBiri
<1>9. u \in QUcusKaydi /\ QUcusDogru(u)
  BY <1>1, <1>3, QTipleri DEF QBankaInv, QUcuslarDogru
<1>10. qUcus' = [qUcus EXCEPT ![g] = Yok] /\ UNCHANGED <<qAn, qYayim, qYas, qZorlandi, qSayac>>
  BY DEF QVarir
<1>11. QVarisi(g, u, Y, hata, kur, bulundu)
  BY <1>1, <1>2, <1>3, <1>5, <1>6, <1>7, <1>8, <1>9, <1>10 DEF QVarisi
<1> QED BY <1>11

(* Facts of such a step that the rest uses.                                *)
LEMMA QVarisTipi ==
  ASSUME QBankaInv, NEW g \in QSorulan, NEW u, NEW Y, NEW hata, NEW kur, NEW bulundu, QVarisi(g, u, Y, hata, kur, bulundu)
  PROVE  /\ g \in Nat /\ g \in QGun /\ qAn.gun \in Nat /\ qAn.saat \in Nat /\ qYas \in Nat
         /\ u.an.gun \in Nat /\ u.an.gun \in QGun /\ u.an.saat \in Nat
         /\ Y \subseteq qYayim /\ kur \in qYayim \cup {0, Yok} /\ (bulundu => kur \in Nat /\ kur \in Gunler0)
         /\ kur \in Gunler0 \cup {Yok}
         /\ \/ u.an.gun = qAn.gun
            \/ u.an.gun + 1 = qAn.gun /\ qAn.saat = 0 /\ qAn.gun \notin qYayim
<1>1. u \in QUcusKaydi /\ QUcusDogru(u) /\ Y \in {u.yayim, qYayim} /\ bulundu \in BOOLEAN
  BY DEF QVarisi
<1>2. u.an.gun \in QGun /\ u.an.saat \in QSaat
  BY <1>1 DEF QUcusKaydi
<1>3. u.an.gun \in Nat /\ u.an.saat \in Nat /\ g \in QGun /\ g \in Nat
  BY <1>2, QSayilar
<1>4. Y \subseteq qYayim /\ qYayim \subseteq QGun /\ QGun \subseteq Nat
  BY <1>1, QSayilar, QTipleri DEF QUcusDogru
<1>5. bulundu => kur \in Y \cup {0}
  BY DEF QVarisi
<1>6. ~bulundu => kur \in qYayim \cup {0, Yok}
  BY DEF QVarisi, QBankaInv, QNotDogru
<1>7. kur \in qYayim \cup {0, Yok} /\ (bulundu => kur \in Nat /\ kur \in Gunler0)
  <2>1. bulundu => kur \in qYayim \cup {0}
    BY <1>4, <1>5
  <2>2. kur \in qYayim => kur \in QGun /\ kur \in Nat
    BY <1>4
  <2>3. kur = 0 => kur \in Nat
    OBVIOUS
  <2>4. bulundu => kur \in Nat
    BY <2>1, <2>2, <2>3
  <2>5. bulundu => kur \in Gunler0
    BY <2>1, <2>2 DEF Gunler0
  <2>6. bulundu \/ ~bulundu
    BY <1>1
  <2> QED BY <1>6, <2>1, <2>4, <2>5, <2>6
<1>8. kur \in Gunler0 \cup {Yok}
  BY <1>4, <1>7 DEF Gunler0
<1>9. u.an.gun = qAn.gun \/ (u.an.gun + 1 = qAn.gun /\ qAn.saat = 0)
  BY <1>1 DEF QUcusDogru
<1>10. qAn.saat = 0 => qAn.gun \notin qYayim
  <2>1. qAn.gun \in qYayim => qAn.saat >= QTtl
    BY DEF QBankaInv, QYayimDogru
  <2>2. QTtl \in Nat /\ QTtl > 0
    BY QSayilar
  <2> QED BY <2>1, <2>2
<1> QED BY <1>2, <1>3, <1>4, <1>7, <1>8, <1>9, <1>10, QTipleri

(* The answer that is kept is as it should be.                             *)
QSaklanan(g, u, kur, hata, e) ==
  /\ qOnbellek' = [qOnbellek EXCEPT ![g] = e] /\ qSon' = kur
  /\ e \in QHit /\ QHitDogru(g, e) /\ e.kur = kur
  /\ e.temiz <=> hata = {}
  /\ e.ogleden <=> OgledenSonra(u.an) /\ g = u.an.gun

LEMMA QSaklaDogru ==
  ASSUME QBankaInv, NEW g \in QSorulan, NEW u, NEW Y, NEW hata, NEW kur, NEW bulundu, QVarisi(g, u, Y, hata, kur, bulundu),
         bulundu
  PROVE  \E e : QSaklanan(g, u, kur, hata, e)
<1>1. PICK e : e = QKayit(kur, IF g = u.an.gun /\ kur # g THEN QKisaTtl ELSE QTtl, OgledenSonra(u.an) /\ g = u.an.gun, hata = {})
  OBVIOUS
<1>2. /\ e = [kur |-> kur, kalan |-> IF g = u.an.gun /\ kur # g THEN QKisaTtl ELSE QTtl,
              ogleden |-> (OgledenSonra(u.an) /\ g = u.an.gun), temiz |-> (hata = {})]
      /\ e.kur = kur /\ e.kalan = (IF g = u.an.gun /\ kur # g THEN QKisaTtl ELSE QTtl)
      /\ (e.temiz <=> hata = {}) /\ (e.ogleden <=> OgledenSonra(u.an) /\ g = u.an.gun)
  BY <1>1 DEF QKayit
<1>3. qOnbellek' = [qOnbellek EXCEPT ![g] = e] /\ qSon' = kur
  BY <1>1 DEF QVarisi, QSakla
<1>4. QTtl \in Nat /\ QKisaTtl \in Nat /\ QKisaTtl > 0 /\ QTtl >= QKisaTtl
  BY QSayilar
<1>5. e \in QHit
  <2>1. e.kalan \in 0..QTtl
    BY <1>2, <1>4
  <2>2. (hata = {}) \in BOOLEAN /\ (OgledenSonra(u.an) /\ g = u.an.gun) \in BOOLEAN
    BY DEF OgledenSonra
  <2> QED BY <1>2, <2>1, <2>2, QVarisTipi DEF QHit
<1>6. kur \in Y \cup {0} /\ kur <= g /\ (hata = {} /\ g = u.an.gun /\ g \in Y => kur = g)
  BY DEF QVarisi
<1>7. /\ g \in Nat /\ qAn.saat \in Nat /\ qYas \in Nat /\ Y \subseteq qYayim /\ u.an.saat \in Nat
      /\ u.an.gun = qAn.gun \/ (u.an.gun + 1 = qAn.gun /\ qAn.saat = 0 /\ qAn.gun \notin qYayim)
  BY QVarisTipi
<1>8. ASSUME g = qAn.gun, kur # g, hata = {}
      PROVE  IF g \in qYayim THEN qYas + e.kalan <= QKisaTtl + 1
             ELSE e.kalan <= QKisaTtl \/ e.kalan + qAn.saat <= QTtl
  <2>1. CASE u.an.gun = qAn.gun
    <3>1. e.kalan = QKisaTtl /\ g \notin Y
      BY <1>2, <1>6, <1>8, <2>1
    <3>2. ASSUME g \in qYayim PROVE qYas <= 1
      <4>1. g \notin u.yayim
        BY <3>1, <3>2 DEF QVarisi
      <4>2. qYas <= qAn.saat - u.an.saat /\ qAn.saat - 1 <= u.an.saat
        <5>1. QUcusDogru(u)
          BY DEF QVarisi
        <5>2. u.an.gun + 1 # qAn.gun
          BY <1>7, <1>8, <2>1
        <5> QED BY <1>8, <3>2, <4>1, <5>1, <5>2 DEF QUcusDogru
      <4> QED BY <1>7, <4>2
    <3> QED BY <1>4, <1>7, <3>1, <3>2
  <2>2. CASE u.an.gun + 1 = qAn.gun /\ qAn.saat = 0 /\ qAn.gun \notin qYayim
    <3>1. e.kalan <= QTtl /\ e.kalan \in Nat
      BY <1>2, <1>4
    <3> QED BY <1>4, <1>8, <2>2, <3>1
  <2> QED BY <1>7, <2>1, <2>2
<1>9. QHitDogru(g, e)
  BY <1>2, <1>6, <1>7, <1>8 DEF QHitDogru
<1>10. QSaklanan(g, u, kur, hata, e)
  BY <1>2, <1>3, <1>5, <1>9 DEF QSaklanan
<1> QED BY <1>10

LEMMA QVarirTipler ==
  ASSUME QBankaInv, NEW g \in QSorulan, NEW u, NEW Y, NEW hata, NEW kur, NEW bulundu, QVarisi(g, u, Y, hata, kur, bulundu)
  PROVE  QTipler' /\ QYayimDogru' /\ QUcuslarDogru' /\ QHitlerDogru'
<1>1. /\ qAn' = qAn /\ qYayim' = qYayim /\ qYas' = qYas /\ qZorlandi' = qZorlandi /\ qSayac' = qSayac
      /\ qUcus' = [qUcus EXCEPT ![g] = Yok] /\ bulundu \in BOOLEAN
  BY DEF QVarisi
<1>2. qOgleBakildi' \in QGun \cup {Yok} /\ qOgleKim' \in BOOLEAN
  <2>1. qOgleBakildi \in QGun \cup {Yok} /\ qOgleKim \in BOOLEAN
    BY DEF QBankaInv, QTipler
  <2>2. u.an.gun \in QGun
    BY QVarisTipi
  <2>3. QOgleNot(g, u, kur, bulundu /\ (hata = {} \/ kur = g))
    BY DEF QVarisi
  <2>4. CASE kur = u.an.gun \/ (kur # Yok /\ OgledenSonra(u.an))
    <3>1. qOgleBakildi' = u.an.gun
      BY <2>3, <2>4 DEF QOgleNot
    <3>2. qOgleKim' = ((qOgleKim /\ qOgleBakildi = u.an.gun) \/ (g = u.an.gun /\ bulundu /\ (hata = {} \/ kur = g)))
      BY <2>3, <2>4 DEF QOgleNot
    <3>3. qOgleKim' \in BOOLEAN
      BY <3>2
    <3> QED BY <2>2, <3>1, <3>3
  <2>5. CASE ~(kur = u.an.gun \/ (kur # Yok /\ OgledenSonra(u.an)))
    <3>1. qOgleBakildi' = qOgleBakildi /\ qOgleKim' = qOgleKim
      BY <2>3, <2>5 DEF QOgleNot
    <3> QED BY <2>1, <3>1
  <2> QED BY <2>4, <2>5
<1>3. /\ qUcus' \in [QSorulan -> QUcusKaydi \cup {Yok}]
      /\ \A h \in QSorulan : qUcus'[h] = IF h = g THEN Yok ELSE qUcus[h]
  BY <1>1 DEF QBankaInv, QTipler
<1>4. /\ qOnbellek' \in [QSorulan -> QHit \cup {Yok}] /\ qSon' \in Gunler0 \cup {Yok}
      /\ \A h \in QSorulan : qOnbellek'[h] # Yok => QHitDogru(h, qOnbellek'[h])
  <2>1. CASE bulundu
    <3>1. PICK e : QSaklanan(g, u, kur, hata, e)
      BY <2>1, QSaklaDogru
    <3>2. kur \in Gunler0
      BY <2>1, QVarisTipi
    <3>3. \A h \in QSorulan : qOnbellek'[h] = IF h = g THEN e ELSE qOnbellek[h]
      BY <3>1 DEF QBankaInv, QTipler, QSaklanan
    <3>4. \A h \in QSorulan : qOnbellek[h] # Yok => QHitDogru(h, qOnbellek[h])
      BY DEF QBankaInv, QHitlerDogru
    <3>5. qOnbellek' \in [QSorulan -> QHit \cup {Yok}]
      BY <3>1 DEF QBankaInv, QTipler, QSaklanan
    <3> QED BY <3>1, <3>2, <3>3, <3>4, <3>5 DEF QSaklanan
  <2>2. CASE ~bulundu
    <3>1. qOnbellek' = qOnbellek /\ qSon' = qSon
      BY <2>2 DEF QVarisi
    <3> QED BY <3>1 DEF QBankaInv, QTipler, QHitlerDogru
  <2> QED BY <1>1, <2>1, <2>2
<1>5. QTipler' /\ QYayimDogru'
  BY <1>1, <1>2, <1>3, <1>4 DEF QBankaInv, QTipler, QYayimDogru
<1>6. QUcuslarDogru'
  <2>1. \A h \in QSorulan : qUcus'[h] # Yok => QUcusDogru(qUcus'[h])
    BY <1>3 DEF QBankaInv, QUcuslarDogru
  <2> QED BY <1>1, <2>1 DEF QUcuslarDogru, QUcusDogru
<1>7. QHitlerDogru'
  BY <1>1, <1>4 DEF QHitlerDogru, QHitDogru
<1> QED BY <1>5, <1>6, <1>7

LEMMA QVarirNot ==
  ASSUME QBankaInv, NEW g \in QSorulan, NEW u, NEW Y, NEW hata, NEW kur, NEW bulundu, QVarisi(g, u, Y, hata, kur, bulundu)
  PROVE  QNotDogru'
<1>1. qAn' = qAn /\ qYayim' = qYayim /\ bulundu \in BOOLEAN
  BY DEF QVarisi
<1>2. /\ u.an.gun \in Nat /\ qAn.gun \in Nat /\ kur \in qYayim \cup {0, Yok}
      /\ u.an.gun = qAn.gun \/ (u.an.gun + 1 = qAn.gun /\ qAn.gun \notin qYayim)
  BY QVarisTipi
<1>3. qAn.gun # 0 /\ qAn.gun # Yok
  <2>1. qAn.gun \in QGun /\ 0 \notin QGun /\ Yok \notin Int
    BY QSayilar, QTipleri
  <2> QED BY <1>2, <2>1
<1>4. qOgleBakildi' = qOgleBakildi \/ qOgleBakildi' = u.an.gun
  BY DEF QVarisi, QOgleNot
<1>5. qOgleBakildi' # Yok => qOgleBakildi' <= qAn.gun
  BY <1>2, <1>4 DEF QBankaInv, QNotDogru
<1>6. kur = qAn.gun => qOgleBakildi' = qAn.gun
  <2> SUFFICES ASSUME kur = qAn.gun PROVE qOgleBakildi' = qAn.gun
    OBVIOUS
  <2>1. kur = u.an.gun
    BY <1>2, <1>3
  <2> QED BY <2>1 DEF QVarisi, QOgleNot
<1>7. qSon' = kur \/ qSon' = qSon
  BY <1>1 DEF QVarisi, QSakla
<1>8. \A h \in QSorulan : qOnbellek'[h] # Yok => qOnbellek'[h].kur = kur \/ (qOnbellek[h] # Yok /\ qOnbellek'[h] = qOnbellek[h])
  <2>1. CASE bulundu
    <3>1. PICK e : QSaklanan(g, u, kur, hata, e)
      BY <2>1, QSaklaDogru
    <3> QED BY <3>1 DEF QBankaInv, QTipler, QSaklanan
  <2>2. CASE ~bulundu
    BY <2>2 DEF QVarisi
  <2> QED BY <1>1, <2>1, <2>2
<1>9. ASSUME qSon = qAn.gun \/ (\E h \in QSorulan : qOnbellek[h] # Yok /\ qOnbellek[h].kur = qAn.gun) PROVE qOgleBakildi' = qAn.gun
  <2>1. qOgleBakildi = qAn.gun
    BY <1>9 DEF QBankaInv, QNotDogru
  <2>2. qAn.gun \in qYayim
    BY <1>3, <1>9 DEF QBankaInv, QNotDogru, QHitlerDogru, QHitDogru
  <2> QED BY <1>2, <1>4, <2>1, <2>2
<1>10. qSon' \in qYayim \cup {0, Yok}
  BY <1>2, <1>7 DEF QBankaInv, QNotDogru
<1>11. qSon' = qAn.gun \/ (\E h \in QSorulan : qOnbellek'[h] # Yok /\ qOnbellek'[h].kur = qAn.gun) => qOgleBakildi' = qAn.gun
  BY <1>6, <1>7, <1>8, <1>9
<1> QED BY <1>1, <1>5, <1>10, <1>11 DEF QNotDogru

LEMMA QVarirBakis ==
  ASSUME QBankaInv, NEW g \in QSorulan, NEW u, NEW Y, NEW hata, NEW kur, NEW bulundu, QVarisi(g, u, Y, hata, kur, bulundu)
  PROVE  QBakisDogru'
<1>1. qAn' = qAn /\ qYayim' = qYayim /\ bulundu \in BOOLEAN /\ qUcus' = [qUcus EXCEPT ![g] = Yok] /\ u = qUcus[g] /\ u \in QUcusKaydi
  BY DEF QVarisi
<1>2. \A h \in QSorulan : qUcus'[h] = IF h = g THEN Yok ELSE qUcus[h]
  BY <1>1 DEF QBankaInv, QTipler
<1>3. SUFFICES ASSUME qOgleBakildi' = qAn.gun, qOgleKim' PROVE QBakisDogru'
  BY <1>1 DEF QBakisDogru
<1>4. /\ u.an.gun \in Nat /\ qAn.gun \in Nat /\ kur \in qYayim \cup {0, Yok} /\ Y \subseteq qYayim
      /\ qAn.saat \in Nat /\ u.an.saat \in Nat
      /\ u.an.gun = qAn.gun \/ (u.an.gun + 1 = qAn.gun /\ qAn.gun \notin qYayim)
  BY QVarisTipi
<1>5. qAn.gun # 0 /\ qAn.gun # Yok
  <2>1. qAn.gun \in QGun /\ 0 \notin QGun /\ Yok \notin Int
    BY QSayilar, QTipleri
  <2> QED BY <1>4, <2>1
\* The note stands from before, or this is the good look.
<1>6. \/ qOgleBakildi = qAn.gun /\ qOgleKim
      \/ /\ g = u.an.gun /\ u.an.gun = qAn.gun /\ bulundu /\ (hata = {} \/ kur = g)
         /\ kur = qAn.gun \/ OgledenSonra(u.an)
  BY <1>1, <1>3 DEF QVarisi, QOgleNot
<1>7. u.an.gun = qAn.gun /\ OgledenSonra(u.an) => OgledenSonra(qAn)
  <2>1. u.an.gun = qAn.gun => u.an.saat <= qAn.saat
    <3>1. QUcusDogru(u)
      BY DEF QVarisi
    <3> QED BY <1>4, <3>1 DEF QUcusDogru
  <2> QED BY <1>4, <2>1, QSayilar DEF OgledenSonra
<1>8. qAn.gun \in qYayim \/ OgledenSonra(qAn)
  <2>1. CASE qOgleBakildi = qAn.gun /\ qOgleKim
    BY <2>1 DEF QBankaInv, QBakisDogru
  <2>2. CASE u.an.gun = qAn.gun /\ (kur = qAn.gun \/ OgledenSonra(u.an))
    BY <1>4, <1>5, <1>7, <2>2
  <2> QED BY <1>6, <2>1, <2>2
<1>9. ASSUME NEW h \in QSorulan, h = qAn.gun, qUcus'[h] # Yok
      PROVE  qUcus'[h].an.gun = h /\ (h \in qUcus'[h].yayim \/ OgledenSonra(qUcus'[h].an))
  <2>1. h # g /\ qUcus'[h] = qUcus[h]
    BY <1>2, <1>9
  <2>2. qOgleBakildi = qAn.gun /\ qOgleKim
    BY <1>6, <1>9, <2>1
  <2> QED BY <1>9, <2>1, <2>2 DEF QBankaInv, QBakisDogru
<1>10. ASSUME NEW h \in QSorulan, h = qAn.gun, qOnbellek'[h] # Yok, qOnbellek'[h].temiz
       PROVE  qOnbellek'[h].kur = h \/ qOnbellek'[h].ogleden
  <2>1. CASE ~bulundu \/ h # g
    <3>1. qOnbellek'[h] = qOnbellek[h]
      <4>1. CASE ~bulundu
        BY <4>1 DEF QVarisi
      <4>2. CASE bulundu /\ h # g
        <5>1. PICK e : QSaklanan(g, u, kur, hata, e)
          BY <4>2, QSaklaDogru
        <5> QED BY <4>2, <5>1 DEF QBankaInv, QTipler, QSaklanan
      <4> QED BY <1>1, <2>1, <4>1, <4>2
    <3>2. qOgleBakildi = qAn.gun /\ qOgleKim
      BY <1>1, <1>6, <1>10, <2>1
    <3> QED BY <1>10, <3>1, <3>2 DEF QBankaInv, QBakisDogru
  <2>2. CASE bulundu /\ h = g
    <3>1. PICK e : QSaklanan(g, u, kur, hata, e)
      BY <2>2, QSaklaDogru
    <3>2. qOnbellek'[h] = e /\ hata = {}
      <4>1. qOnbellek'[h] = e
        BY <2>2, <3>1 DEF QBankaInv, QTipler, QSaklanan
      <4> QED BY <1>10, <3>1, <4>1 DEF QSaklanan
    <3>3. g = u.an.gun /\ (g \in u.yayim \/ kur = g \/ OgledenSonra(u.an))
      <4>1. CASE qOgleBakildi = qAn.gun /\ qOgleKim
        <5>1. u # Yok
          BY DEF QVarisi
        <5> QED BY <1>1, <1>10, <2>2, <4>1, <5>1 DEF QBankaInv, QBakisDogru, QSaklanan
      <4>2. CASE g = u.an.gun /\ u.an.gun = qAn.gun /\ (kur = qAn.gun \/ OgledenSonra(u.an))
        BY <4>2
      <4> QED BY <1>6, <4>1, <4>2
    <3>4. g \in u.yayim => kur = g
      <4>1. QUcusDogru(u) /\ Y \in {u.yayim, qYayim} /\ (hata = {} /\ g = u.an.gun /\ g \in Y => kur = g)
        BY <2>2 DEF QVarisi
      <4>2. u.yayim \subseteq qYayim
        BY <4>1 DEF QUcusDogru
      <4> QED BY <3>2, <3>3, <4>1, <4>2
    <3> QED BY <2>2, <3>1, <3>2, <3>3, <3>4 DEF QSaklanan
  <2> QED BY <1>1, <2>1, <2>2
<1> QED BY <1>1, <1>8, <1>9, <1>10 DEF QBakisDogru

(* The answer that goes out.                                               *)
LEMMA QVarirYanit ==
  ASSUME QBankaInv, BultenGecikmez, NEW g \in QSorulan, NEW u, NEW Y, NEW hata, NEW kur, NEW bulundu,
         QVarisi(g, u, Y, hata, kur, bulundu)
  PROVE  BultenGecikmez'
<1>1. CASE kur = Yok
  BY <1>1, QKalirDogru DEF QVarisi
<1>2. CASE kur # Yok
  <2>1. PICK y : y = Yanit(g, kur, ~bulundu, hata = {}, FALSE, OgledenSonra(u.an))
    OBVIOUS
  <2>2. /\ y.gun = g /\ y.kur = kur /\ y.bayat = ~bulundu /\ y.temiz = (hata = {}) /\ y.onbellek = FALSE /\ y.an = qAn
        /\ y.gecikme = (IF qAn.gun \in qYayim THEN qYas ELSE 0)
    BY <2>1 DEF Yanit
  <2>3. ASSUME g = qAn.gun, bulundu, hata = {}, y.gecikme > QKisaTtl PROVE kur = g
    <3>1. PICK e : QSaklanan(g, u, kur, hata, e)
      BY <2>3, QSaklaDogru
    <3>2. /\ qAn.gun \in Nat /\ qAn.saat \in Nat /\ u.an.saat \in Nat /\ qYas \in Nat /\ u.an.gun \in Nat
          /\ u.an.gun = qAn.gun \/ (u.an.gun + 1 = qAn.gun /\ qAn.gun \notin qYayim)
      BY QVarisTipi
    <3>3. QKisaTtl \in Nat /\ QKisaTtl > 0
      BY QSayilar
    <3>4. qAn.gun \in qYayim /\ qYas > 1
      BY <2>2, <2>3, <3>2, <3>3
    <3>5. u.an.gun = qAn.gun
      BY <3>2, <3>4
    <3>6. QUcusDogru(u) /\ Y \in {u.yayim, qYayim} /\ (g \in Y => kur = g)
      BY <2>3, <3>5 DEF QVarisi
    <3>7. g \in u.yayim
      <4>1. qAn.saat - 1 <= u.an.saat /\ (qAn.gun \notin u.yayim => qYas <= qAn.saat - u.an.saat)
        BY <3>2, <3>4, <3>5, <3>6 DEF QUcusDogru
      <4> QED BY <2>3, <3>2, <3>4, <4>1
    <3> QED BY <2>3, <3>4, <3>6, <3>7
  <2>4. QYanitDogru(y)
    <3>1. bulundu \in BOOLEAN
      BY DEF QVarisi
    <3> QED BY <2>2, <2>3, <3>1 DEF QYanitDogru, QSaklanan
  <2>5. QGor(y)
    BY <1>2, <2>1 DEF QVarisi
  <2> QED BY <2>4, <2>5, QGorDogru
<1> QED BY <1>1, <1>2

LEMMA QVarirKorur ==
  ASSUME QBankaInv, BultenGecikmez, NEW g \in QSorulan, QVarir(g)
  PROVE  QBankaInv' /\ BultenGecikmez'
<1>1. PICK u, Y, hata, kur, bulundu : QVarisi(g, u, Y, hata, kur, bulundu)
  BY QVarirBiri
<1>2. QTipler' /\ QYayimDogru' /\ QUcuslarDogru' /\ QHitlerDogru'
  BY <1>1, QVarirTipler
<1>3. QNotDogru' /\ QBakisDogru' /\ BultenGecikmez'
  BY <1>1, QVarirNot, QVarirBakis, QVarirYanit
<1> QED BY <1>2, <1>3 DEF QBankaInv

(* The payment.                                                            *)
QGecmisten(o, v) == v \in QDegerler /\ (~o.bayat /\ v \in Gunler0 => v <= o.gun)

LEMMA QOdemeBolunur ==
  ASSUME NEW o \in QOdemeKaydi
  PROVE  QOdemeDogru(o) <=> QGecmisten(o, o.matrah) /\ QGecmisten(o, o.ref) /\ QGecmisten(o, o.tarih)
<1>1. /\ o.matrah \in QDegerler /\ o.ref \in QDegerler /\ o.tarih \in QDegerler
      /\ o.bayat \in BOOLEAN /\ o.adim # "yok"
  BY DEF QOdemeKaydi
<1>2. o # [adim |-> "yok"]
  <2> SUFFICES ASSUME o = [adim |-> "yok"] PROVE FALSE
    OBVIOUS
  <2>1. o.adim = "yok"
    OBVIOUS
  <2> QED BY <1>1, <2>1
<1> QED BY <1>1, <1>2 DEF QOdemeDogru, QGecmisten

LEMMA QMetaYazDogru ==
  ASSUME NEW o \in QOdemeKaydi, QOdemeDogru(o), NEW kur \in QDegerler, NEW tarih \in QDegerler, NEW bayat \in BOOLEAN,
         ~bayat => /\ kur \in Gunler0 => kur <= o.gun
                   /\ tarih \in Gunler0 => tarih <= o.gun
  PROVE  QOdemeDogru(QMetaYaz(o, kur, tarih, bayat))
<1>1. PICK p : p = QMetaYaz(o, kur, tarih, bayat)
  OBVIOUS
<1>2. /\ o.bayat \in BOOLEAN /\ o.kaynak \in QKaynak \cup {Yok, "MANUEL", "TCMB"} /\ o.ref \in QDegerler
      /\ o.tarih \in QDegerler /\ o.matrah \in QDegerler /\ o.gun \in QSorulan /\ o.tur \in QTur
  BY DEF QOdemeKaydi
<1>3. p = [adim |-> "matrah", tur |-> o.tur, gun |-> o.gun, bayat |-> (o.bayat \/ bayat), matrah |-> o.matrah,
           kaynak |-> IF o.kaynak # Yok THEN o.kaynak ELSE IF kur = Yok THEN "MANUEL" ELSE "TCMB",
           ref |-> IF o.ref = Yok THEN kur ELSE o.ref, tarih |-> IF o.tarih = Yok THEN tarih ELSE o.tarih]
  BY <1>1 DEF QMetaYaz, QOdemeKaydi
<1>4. p \in QOdemeKaydi
  <2>1. (o.bayat \/ bayat) \in BOOLEAN
    OBVIOUS
  <2>2. (IF o.kaynak # Yok THEN o.kaynak ELSE IF kur = Yok THEN "MANUEL" ELSE "TCMB") \in QKaynak \cup {Yok, "MANUEL", "TCMB"}
    BY <1>2
  <2> QED BY <1>2, <1>3, <2>1, <2>2 DEF QOdemeKaydi
<1>5. /\ p.matrah = o.matrah /\ p.gun = o.gun /\ p.ref \in {kur, o.ref} /\ p.tarih \in {tarih, o.tarih}
      /\ ~p.bayat => ~o.bayat /\ ~bayat
  BY <1>3
<1>6. QGecmisten(o, o.matrah) /\ QGecmisten(o, o.ref) /\ QGecmisten(o, o.tarih)
  BY QOdemeBolunur
<1>7. QGecmisten(p, p.matrah) /\ QGecmisten(p, p.ref) /\ QGecmisten(p, p.tarih)
  BY <1>5, <1>6 DEF QGecmisten
<1> QED BY <1>1, <1>4, <1>7, QOdemeBolunur

LEMMA QMatrahYazDogru ==
  ASSUME NEW o \in QOdemeKaydi, QOdemeDogru(o), NEW kur \in Gunler0 \cup {Yok}, NEW bayat \in BOOLEAN,
         ~bayat /\ kur # Yok => kur <= o.gun
  PROVE  QOdemeDogru(QMatrahYaz(o, kur, bayat))
<1>1. PICK p : p = QMatrahYaz(o, kur, bayat)
  OBVIOUS
<1>2. /\ o.bayat \in BOOLEAN /\ o.ref \in QDegerler /\ o.tarih \in QDegerler /\ o.matrah \in QDegerler
      /\ o.gun \in QSorulan /\ o.tur \in QTur /\ o.kaynak \in QKaynak \cup {Yok, "MANUEL", "TCMB"} /\ kur \in QDegerler
  BY DEF QOdemeKaydi, QDegerler
<1>3. QGecmisten(o, o.matrah) /\ QGecmisten(o, o.ref) /\ QGecmisten(o, o.tarih)
  BY QOdemeBolunur
<1>4. CASE kur # Yok
  <2>1. p = [adim |-> "yazildi", tur |-> o.tur, gun |-> o.gun, bayat |-> (o.bayat \/ bayat), matrah |-> kur,
             kaynak |-> o.kaynak, ref |-> o.ref, tarih |-> IF o.tarih = Yok THEN kur ELSE o.tarih]
    BY <1>1, <1>4 DEF QMatrahYaz, QOdemeKaydi
  <2>2. p \in QOdemeKaydi
    <3>1. (o.bayat \/ bayat) \in BOOLEAN
      OBVIOUS
    <3> QED BY <1>2, <2>1, <3>1 DEF QOdemeKaydi
  <2>3. p.matrah = kur /\ p.gun = o.gun /\ p.ref = o.ref /\ p.tarih \in {kur, o.tarih} /\ (~p.bayat => ~o.bayat /\ ~bayat)
    BY <2>1
  <2>4. QGecmisten(p, p.matrah) /\ QGecmisten(p, p.ref) /\ QGecmisten(p, p.tarih)
    BY <1>2, <1>3, <1>4, <2>3 DEF QGecmisten
  <2> QED BY <1>1, <2>2, <2>4, QOdemeBolunur
<1>5. CASE kur = Yok /\ o.tur = "AYNI" /\ o.ref # Yok
  <2>1. p = [o EXCEPT !.adim = "yazildi", !.matrah = o.ref]
    BY <1>1, <1>5 DEF QMatrahYaz
  <2>2. p \in QOdemeKaydi
    BY <1>2, <2>1 DEF QOdemeKaydi
  <2>3. p.matrah = o.ref /\ p.gun = o.gun /\ p.ref = o.ref /\ p.tarih = o.tarih /\ p.bayat = o.bayat
    BY <2>1 DEF QOdemeKaydi
  <2>4. QGecmisten(p, p.matrah) /\ QGecmisten(p, p.ref) /\ QGecmisten(p, p.tarih)
    BY <1>3, <2>3 DEF QGecmisten
  <2> QED BY <1>1, <2>2, <2>4, QOdemeBolunur
<1>6. CASE kur = Yok /\ ~(o.tur = "AYNI" /\ o.ref # Yok)
  <2>1. p = [o EXCEPT !.adim = "red"]
    BY <1>1, <1>6 DEF QMatrahYaz
  <2>2. p \in QOdemeKaydi
    BY <2>1 DEF QOdemeKaydi
  <2>3. p.matrah = o.matrah /\ p.gun = o.gun /\ p.ref = o.ref /\ p.tarih = o.tarih /\ p.bayat = o.bayat
    BY <2>1 DEF QOdemeKaydi
  <2>4. QGecmisten(p, p.matrah) /\ QGecmisten(p, p.ref) /\ QGecmisten(p, p.tarih)
    BY <1>3, <2>3 DEF QGecmisten
  <2> QED BY <1>1, <2>2, <2>4, QOdemeBolunur
<1> QED BY <1>4, <1>5, <1>6

(* The rates that are no bulletin's are no days.                           *)
LEMMA QGunOlmayan ==
  /\ Yok \notin Gunler0 /\ Bir \notin Gunler0 /\ Elle \notin Gunler0 /\ Kasadan \notin Gunler0 /\ Uygulanan \notin Gunler0
  /\ \A g \in QSorulan : g \in Gunler0 /\ g <= g
<1>1. \A g \in Gunler0 : g \in Nat
  BY QSayilar
<1>2. Yok \notin Gunler0
  <2> SUFFICES ASSUME Yok \in Gunler0 PROVE FALSE
    OBVIOUS
  <2>1. Yok \in Nat
    BY <1>1
  <2>2. \A n \in Nat : n \in Int
    OBVIOUS
  <2>3. Yok \in Int
    BY <2>1, <2>2, Zenon
  <2> QED BY <2>3, QSayilar, Zenon
<1>3. Bir \notin Gunler0 /\ Elle \notin Gunler0 /\ Kasadan \notin Gunler0 /\ Uygulanan \notin Gunler0
  BY <1>1 DEF Bir, Elle, Kasadan, Uygulanan
<1>4. \A g \in QSorulan : g \in Gunler0
  BY QSayilar DEF Gunler0
<1>5. \A g \in QSorulan : g <= g
  BY <1>1, <1>4
<1> QED BY <1>2, <1>3, <1>4, <1>5

LEMMA QOdeBaslaKorur ==
  ASSUME QOdeBasla, QBankaInv PROVE QBankaInv' /\ QOdemeDogru(qOdeme') /\ BultenGecikmez'
<1>1. UNCHANGED <<qAn, qYayim, qYas, qOnbellek, qSon, qUcus, qOgleBakildi, qOgleKim, qZorlandi, qSayac>> /\ qYanit' = Yok
  BY DEF QOdeBasla
<1>2. QBankaInv'
  BY <1>1 DEF QBankaInv, QTipler, QYayimDogru, QUcuslarDogru, QUcusDogru, QHitlerDogru, QHitDogru, QNotDogru,
              QBakisDogru, OgledenSonra
<1>3. BultenGecikmez'
  BY <1>1 DEF BultenGecikmez
<1>4. PICK t \in QTur, g \in QSorulan, kaynak \in QKaynak, elle \in BOOLEAN :
       LET o == [adim |-> "matrah", tur |-> t, gun |-> g, bayat |-> FALSE, matrah |-> Yok,
                 kaynak |-> IF t = "TL" THEN Yok ELSE kaynak,
                 ref |-> IF t # "TL" /\ elle THEN Elle ELSE Yok,
                 tarih |-> IF t # "TL" /\ elle THEN g ELSE Yok]
       IN qOdeme' = IF ~QMetaIster(o) THEN o ELSE IF t = "AYNI" THEN QMetaAyni(o) ELSE [o EXCEPT !.adim = "meta"]
  BY DEF QOdeBasla
<1>5. PICK o : o = [adim |-> "matrah", tur |-> t, gun |-> g, bayat |-> FALSE, matrah |-> Yok,
                 kaynak |-> IF t = "TL" THEN Yok ELSE kaynak,
                 ref |-> IF t # "TL" /\ elle THEN Elle ELSE Yok,
                 tarih |-> IF t # "TL" /\ elle THEN g ELSE Yok]
  OBVIOUS
<1>6. qOdeme' = o \/ qOdeme' = QMetaAyni(o) \/ qOdeme' = [o EXCEPT !.adim = "meta"]
  BY <1>4, <1>5
<1>7. o \in QOdemeKaydi
  <2>1. (IF t = "TL" THEN Yok ELSE kaynak) \in QKaynak \cup {Yok, "MANUEL", "TCMB"}
    OBVIOUS
  <2>2. (IF t # "TL" /\ elle THEN Elle ELSE Yok) \in QDegerler /\ (IF t # "TL" /\ elle THEN g ELSE Yok) \in QDegerler /\ Yok \in QDegerler
    BY QGunOlmayan DEF QDegerler
  <2> QED BY <1>5, <2>1, <2>2 DEF QOdemeKaydi
<1>8. o.gun = g /\ o.matrah = Yok /\ o.ref \in {Elle, Yok} /\ o.tarih \in {g, Yok}
  BY <1>5
<1>9. Yok \in QDegerler /\ Elle \in QDegerler /\ g \in QDegerler /\ Bir \in QDegerler
  BY QGunOlmayan DEF QDegerler
<1>10. QGecmisten(o, o.matrah) /\ QGecmisten(o, o.ref) /\ QGecmisten(o, o.tarih)
  BY <1>8, <1>9, QGunOlmayan DEF QGecmisten
<1>11. QOdemeDogru(o)
  BY <1>7, <1>10, QOdemeBolunur
<1>12. QOdemeDogru(QMetaAyni(o))
  <2>1. QOdemeDogru(QMetaYaz(o, Bir, o.gun, FALSE))
    BY <1>7, <1>8, <1>9, <1>11, QGunOlmayan, QMetaYazDogru
  <2> QED BY <2>1 DEF QMetaAyni
<1>13. QOdemeDogru([o EXCEPT !.adim = "meta"])
  <2>1. PICK p : p = [o EXCEPT !.adim = "meta"]
    OBVIOUS
  <2>2. p \in QOdemeKaydi /\ p.matrah = o.matrah /\ p.ref = o.ref /\ p.tarih = o.tarih /\ p.gun = o.gun /\ p.bayat = o.bayat
    BY <1>7, <2>1 DEF QOdemeKaydi
  <2>3. QGecmisten(p, p.matrah) /\ QGecmisten(p, p.ref) /\ QGecmisten(p, p.tarih)
    BY <1>10, <2>2 DEF QGecmisten
  <2> QED BY <2>1, <2>2, <2>3, QOdemeBolunur
<1> QED BY <1>2, <1>3, <1>6, <1>11, <1>12, <1>13

LEMMA QAdimDegisir ==
  ASSUME NEW o \in QOdemeKaydi, QOdemeDogru(o),
         NEW a \in {"meta", "meta_bekler", "matrah", "matrah_bekler", "yazildi", "red"}
  PROVE  QOdemeDogru([o EXCEPT !.adim = a])
<1>1. PICK p : p = [o EXCEPT !.adim = a]
  OBVIOUS
<1>2. p \in QOdemeKaydi /\ p.matrah = o.matrah /\ p.ref = o.ref /\ p.tarih = o.tarih /\ p.gun = o.gun /\ p.bayat = o.bayat
  BY <1>1 DEF QOdemeKaydi
<1>3. QGecmisten(p, p.matrah) /\ QGecmisten(p, p.ref) /\ QGecmisten(p, p.tarih)
  BY <1>2, QOdemeBolunur DEF QGecmisten
<1> QED BY <1>1, <1>2, <1>3, QOdemeBolunur

LEMMA QOdeYazKorur ==
  ASSUME QOdeYaz, QBankaInv, QOdemeDogru(qOdeme), BultenGecikmez
  PROVE  QBankaInv' /\ QOdemeDogru(qOdeme') /\ BultenGecikmez'
<1>1. /\ UNCHANGED <<qAn, qYayim, qYas, qOnbellek, qSon, qUcus, qOgleBakildi, qOgleKim, qZorlandi, qYanit, qSayac>>
      /\ qOdeme.adim = "matrah" /\ qOdeme' = QMatrahHazir(qOdeme)
  BY DEF QOdeYaz
<1>2. QBankaInv'
  BY <1>1 DEF QBankaInv, QTipler, QYayimDogru, QUcuslarDogru, QUcusDogru, QHitlerDogru, QHitDogru, QNotDogru,
              QBakisDogru, OgledenSonra
<1>3. BultenGecikmez'
  BY <1>1, QKalirDogru
<1>4. PICK o : o = qOdeme
  OBVIOUS
<1>5. o \in QOdemeKaydi /\ QOdemeDogru(o)
  BY <1>1, <1>4 DEF QOdemeDogru
<1>6. PICK p : p = QMatrahHazir(o)
  OBVIOUS
<1>7. PICK v : v = IF o.tur = "TLDEN" THEN Uygulanan ELSE Kasadan
  OBVIOUS
<1>8. p = [o EXCEPT !.adim = "yazildi", !.matrah = v] /\ v \in {Uygulanan, Kasadan}
  BY <1>6, <1>7 DEF QMatrahHazir
<1>9. v \in QDegerler /\ v \notin Gunler0
  BY <1>8, QGunOlmayan DEF QDegerler
<1>10. p \in QOdemeKaydi /\ p.matrah = v /\ p.ref = o.ref /\ p.tarih = o.tarih /\ p.gun = o.gun /\ p.bayat = o.bayat
  BY <1>5, <1>8, <1>9 DEF QOdemeKaydi
<1>11. QGecmisten(p, p.matrah) /\ QGecmisten(p, p.ref) /\ QGecmisten(p, p.tarih)
  BY <1>5, <1>9, <1>10, QOdemeBolunur DEF QGecmisten
<1>12. QOdemeDogru(p)
  BY <1>10, <1>11, QOdemeBolunur
<1> QED BY <1>1, <1>2, <1>3, <1>4, <1>6, <1>12

LEMMA QOdeSorKorur ==
  ASSUME QOdeSor, QBankaInv, QOdemeDogru(qOdeme), BultenGecikmez
  PROVE  QBankaInv' /\ QOdemeDogru(qOdeme') /\ BultenGecikmez'
<1>1. PICK o : o = qOdeme
  OBVIOUS
<1>2. o.adim \in {"meta", "matrah"} /\ QSor(o.gun, FALSE)
  BY <1>1 DEF QOdeSor
<1>3. o \in QOdemeKaydi /\ QOdemeDogru(o) /\ o.gun \in QSorulan
  BY <1>1, <1>2 DEF QOdemeDogru, QOdemeKaydi
<1>4. QBankaInv' /\ BultenGecikmez'
  BY <1>2, <1>3, QSorKorur
<1>5. PICK h : h = qOnbellek[o.gun]
  OBVIOUS
<1>6. CASE QCanli(o.gun, FALSE)
  <2>1. qOdeme' = [o EXCEPT !.adim = IF @ = "meta" THEN "meta_bekler" ELSE "matrah_bekler"]
    BY <1>1, <1>6 DEF QOdeSor
  <2>2. PICK a \in {"meta_bekler", "matrah_bekler"} : a = IF o.adim = "meta" THEN "meta_bekler" ELSE "matrah_bekler"
    OBVIOUS
  <2>3. qOdeme' = [o EXCEPT !.adim = a]
    BY <2>1, <2>2
  <2> QED BY <1>3, <1>4, <2>3, QAdimDegisir
<1>7. CASE ~QCanli(o.gun, FALSE)
  <2>1. h # Yok
    BY <1>5, <1>7 DEF QCanli, QGecerli
  <2>2. h.kur \in Gunler0 /\ h.kur <= o.gun /\ h.kur \in QDegerler
    <3>1. h \in QHit /\ QHitDogru(o.gun, h)
      BY <1>3, <1>5, <2>1 DEF QBankaInv, QHitlerDogru, QTipler
    <3> QED BY <3>1 DEF QHit, QHitDogru, QDegerler
  <2>3. h.kur # Yok
    BY <2>2, QGunOlmayan
  <2>4. CASE o.adim = "meta"
    <3>1. qOdeme' = QMetaYaz(o, h.kur, h.kur, FALSE)
      BY <1>1, <1>5, <1>7, <2>4 DEF QOdeSor
    <3>2. QOdemeDogru(QMetaYaz(o, h.kur, h.kur, FALSE))
      BY <1>3, <2>2, QMetaYazDogru
    <3> QED BY <1>4, <3>1, <3>2
  <2>5. CASE o.adim # "meta"
    <3>1. qOdeme' = QMatrahYaz(o, h.kur, FALSE)
      BY <1>1, <1>5, <1>7, <2>5 DEF QOdeSor
    <3>2. QOdemeDogru(QMatrahYaz(o, h.kur, FALSE))
      BY <1>3, <2>2, <2>3, QMatrahYazDogru
    <3> QED BY <1>4, <3>1, <3>2
  <2> QED BY <2>4, <2>5
<1> QED BY <1>6, <1>7

LEMMA QVarirOdeme ==
  ASSUME QBankaInv, QOdemeDogru(qOdeme), NEW g \in QSorulan, QVarir(g)
  PROVE  QOdemeDogru(qOdeme')
<1>1. PICK u, Y, hata, kur, bulundu : QVarisi(g, u, Y, hata, kur, bulundu)
  BY QVarirBiri
<1>2. qOdeme' = QOdemeAlir(g, kur, ~bulundu) /\ bulundu \in BOOLEAN /\ (bulundu => kur <= g)
  BY <1>1 DEF QVarisi
<1>3. kur \in Gunler0 \cup {Yok} /\ kur \in QDegerler
  BY <1>1, QVarisTipi DEF QDegerler
<1>4. PICK o : o = qOdeme
  OBVIOUS
<1>5. PICK bayat \in BOOLEAN : bayat = ~bulundu
  BY <1>2
<1>6. ~bayat => kur <= g
  BY <1>2, <1>5
<1>7. CASE o.adim = "meta_bekler" /\ o.gun = g
  <2>1. o \in QOdemeKaydi
    BY <1>4, <1>7 DEF QOdemeDogru
  <2>2. qOdeme' = QMetaYaz(o, kur, kur, bayat)
    BY <1>2, <1>4, <1>5, <1>7 DEF QOdemeAlir
  <2>3. QOdemeDogru(QMetaYaz(o, kur, kur, bayat))
    BY <1>3, <1>4, <1>6, <1>7, <2>1, QMetaYazDogru
  <2> QED BY <2>2, <2>3
<1>8. CASE o.adim = "matrah_bekler" /\ o.gun = g
  <2>1. o \in QOdemeKaydi
    BY <1>4, <1>8 DEF QOdemeDogru
  <2>2. qOdeme' = QMatrahYaz(o, kur, bayat)
    BY <1>2, <1>4, <1>5, <1>8 DEF QOdemeAlir
  <2>3. QOdemeDogru(QMatrahYaz(o, kur, bayat))
    BY <1>3, <1>4, <1>6, <1>8, <2>1, QMatrahYazDogru
  <2> QED BY <2>2, <2>3
<1>9. CASE ~(o.adim \in {"meta_bekler", "matrah_bekler"} /\ o.gun = g)
  BY <1>2, <1>4, <1>9 DEF QOdemeAlir
<1> QED BY <1>7, <1>8, <1>9

LEMMA KurBaslangicta == ASSUME KurInit PROVE KurInv
<1>1. /\ qAn = [gun |-> QBugun, saat |-> QSonSaat] /\ qYayim = {g \in QGun : g < QBugun} /\ qYas = QTtl + QKisaTtl
      /\ qOnbellek = [g \in QSorulan |-> Yok] /\ qSon = Yok /\ qUcus = [g \in QSorulan |-> Yok]
      /\ qOgleBakildi = Yok /\ qOgleKim = FALSE /\ qZorlandi = FALSE
      /\ qYanit = Yok /\ qOdeme = [adim |-> "yok"] /\ qSayac = 0
  BY DEF KurInit
<1>2. QTtl \in Nat /\ QKisaTtl \in Nat /\ QSonSaat \in Nat /\ QEnCok \in Nat /\ QBugun \in QGun /\ QGun \subseteq Nat /\ Yok \notin Int
  BY QSayilar
<1>3. QBugun \in Nat /\ QBugun # Yok /\ QBugun \notin qYayim
  BY <1>1, <1>2
<1>4. QTipler
  <2>1. qAn \in [gun : QGun, saat : QSaat]
    BY <1>1, <1>2 DEF QSaat
  <2>2. qYas \in 0..(QTtl + QKisaTtl) /\ qSayac \in 0..QEnCok
    BY <1>1, <1>2
  <2> QED BY <1>1, <2>1, <2>2 DEF QTipler
<1>5. QYayimDogru
  <2>1. \A d \in qYayim : d <= QBugun
    BY <1>1, <1>2, <1>3
  <2> QED BY <1>1, <1>3, <2>1 DEF QYayimDogru
<1>6. QUcuslarDogru /\ QHitlerDogru
  BY <1>1 DEF QUcuslarDogru, QHitlerDogru
<1>7. QNotDogru /\ QBakisDogru
  BY <1>1, <1>3 DEF QNotDogru, QBakisDogru
<1>8. QOdemeDogru(qOdeme) /\ BultenGecikmez
  BY <1>1 DEF QOdemeDogru, BultenGecikmez
<1> QED BY <1>4, <1>5, <1>6, <1>7, <1>8 DEF KurInv, QBankaInv

(* The form's computation.  Rounding is off by half a unit of the divisor. *)
LEMMA YuvarlaYakin ==
  ASSUME NEW a \in Nat, NEW b \in Nat, b > 0
  PROVE  Yuvarla(a, b) \in Nat /\ 2 * (Yuvarla(a, b) * b - a) <= b /\ 2 * (a - Yuvarla(a, b) * b) <= b
<1>1. PICK n \in Nat : n = 2 * a + b
  OBVIOUS
<1>2. PICK d \in Nat : d = 2 * b
  OBVIOUS
<1>3. PICK q : q = n \div d
  OBVIOUS
<1>4. d > 0
  BY <1>2
<1>5. q \in Nat /\ q * d <= n /\ n < q * d + d
  BY <1>3, <1>4
<1>6. q * d = 2 * (q * b)
  BY <1>2, <1>5
<1>7. PICK p \in Nat : p = q * b
  BY <1>5
<1>8. 2 * p <= 2 * a + b /\ 2 * a + b < 2 * p + 2 * b
  BY <1>1, <1>2, <1>5, <1>6, <1>7
<1>9. 2 * (p - a) <= b /\ 2 * (a - p) <= b
  BY <1>8
<1>10. Yuvarla(a, b) = q
  BY <1>1, <1>2, <1>3 DEF Yuvarla
<1> QED BY <1>5, <1>7, <1>9, <1>10

\* Three fields that agree to half a unit of one of them.
Uyumlu(c) ==
  /\ c.mahsup \in Nat /\ c.kasa \in Nat /\ c.kur \in Nat
  /\ \E d \in {QOlcek, c.kur, c.mahsup} :
       2 * (c.kasa * QOlcek - c.mahsup * c.kur) <= d /\ 2 * (c.mahsup * c.kur - c.kasa * QOlcek) <= d

LEMMA KasayaUyumlu ==
  ASSUME NEW m \in Nat, NEW r \in Nat, NEW c, c.mahsup = m, c.kasa = Kasaya(m, r), c.kur = r PROVE Uyumlu(c)
<1>1. PICK a \in Nat : a = m * r
  OBVIOUS
<1>2. PICK k : k = Yuvarla(a, QOlcek)
  OBVIOUS
<1>3. QOlcek \in Nat /\ QOlcek > 0
  BY DEF QOlcek
<1>4. k \in Nat /\ 2 * (k * QOlcek - a) <= QOlcek /\ 2 * (a - k * QOlcek) <= QOlcek
  BY <1>2, <1>3, YuvarlaYakin
<1>5. c.kasa = k
  BY <1>1, <1>2 DEF Kasaya
<1> QED BY <1>1, <1>4, <1>5 DEF Uyumlu

LEMMA MahsubaUyumlu ==
  ASSUME NEW k \in Nat, NEW r \in Nat, r > 0, NEW c, c.mahsup = Mahsuba(k, r), c.kasa = k, c.kur = r PROVE Uyumlu(c)
<1>1. PICK a \in Nat : a = k * QOlcek
  BY DEF QOlcek
<1>2. PICK m : m = Yuvarla(a, r)
  OBVIOUS
<1>3. m \in Nat /\ 2 * (m * r - a) <= r /\ 2 * (a - m * r) <= r
  BY <1>2, YuvarlaYakin
<1>4. c.mahsup = m
  BY <1>1, <1>2 DEF Mahsuba
<1> QED BY <1>1, <1>3, <1>4 DEF Uyumlu

LEMMA KuraUyumlu ==
  ASSUME NEW k \in Nat, NEW m \in Nat, m > 0, NEW c, c.mahsup = m, c.kasa = k, c.kur = Kura(k, m) PROVE Uyumlu(c)
<1>1. PICK a \in Nat : a = k * QOlcek
  BY DEF QOlcek
<1>2. PICK r : r = Yuvarla(a, m)
  OBVIOUS
<1>3. r \in Nat /\ 2 * (r * m - a) <= m /\ 2 * (a - r * m) <= m
  BY <1>2, YuvarlaYakin
<1>4. c.kur = r /\ r * m = m * r
  BY <1>1, <1>2, <1>3 DEF Kura
<1> QED BY <1>1, <1>3, <1>4 DEF Uyumlu

LEMMA CaprazUyumlu ==
  ASSUME NEW son \in {"mahsup", "kasa", "kur"}, NEW m \in Nat, NEW k \in Nat, NEW r \in Nat, ~Capraz(son, m, k, r).hata
  PROVE  Uyumlu(Capraz(son, m, k, r))
<1>1. PICK c : c = Capraz(son, m, k, r)
  OBVIOUS
<1>2. ~c.hata
  BY <1>1
<1>3. CASE son = "mahsup"
  <2>1. c.mahsup = m /\ c.kasa = Kasaya(m, r) /\ c.kur = r
    BY <1>1, <1>2, <1>3 DEF Capraz
  <2> QED BY <1>1, <2>1, KasayaUyumlu
<1>4. CASE son = "kasa" /\ r = 0
  <2>1. m > 0 /\ c.mahsup = m /\ c.kasa = k /\ c.kur = Kura(k, m)
    BY <1>1, <1>2, <1>4 DEF Capraz
  <2> QED BY <1>1, <2>1, KuraUyumlu
<1>5. CASE son = "kasa" /\ r # 0
  <2>1. r > 0 /\ c.mahsup = Mahsuba(k, r) /\ c.kasa = k /\ c.kur = r
    BY <1>1, <1>2, <1>5 DEF Capraz
  <2> QED BY <1>1, <2>1, MahsubaUyumlu
<1>6. CASE son = "kur" /\ m > 0
  <2>1. c.mahsup = m /\ c.kasa = Kasaya(m, r) /\ c.kur = r
    BY <1>1, <1>2, <1>6 DEF Capraz
  <2> QED BY <1>1, <2>1, KasayaUyumlu
<1>7. CASE son = "kur" /\ ~(m > 0)
  <2>1. r > 0 /\ c.mahsup = Mahsuba(k, r) /\ c.kasa = k /\ c.kur = r
    BY <1>1, <1>2, <1>7 DEF Capraz
  <2> QED BY <1>1, <2>1, MahsubaUyumlu
<1> QED BY <1>3, <1>4, <1>5, <1>6, <1>7

LEMMA UyumluYeter ==
  ASSUME NEW c, Uyumlu(c)
  PROVE  /\ 2 * Fark(c.kasa * QOlcek - c.mahsup * c.kur) <= Max({QOlcek, c.kur, c.mahsup})
         /\ KayitliKur(c) > 0 => 2 * c.mahsup * Fark(KayitliKur(c) - c.kur) <= Max({QOlcek, c.kur, c.mahsup}) + c.mahsup
<1>1. PICK m \in Nat, k \in Nat, r \in Nat : m = c.mahsup /\ k = c.kasa /\ r = c.kur
  BY DEF Uyumlu
<1>2. PICK S : S = {QOlcek, r, m}
  OBVIOUS
<1>3. S \in SUBSET Nat /\ S # {} /\ \A x \in S : x <= QOlcek + r + m
  BY <1>1, <1>2 DEF QOlcek
<1>4. QOlcek + r + m \in Nat
  BY <1>1 DEF QOlcek
<1>5. PICK x : x = Max(S)
  OBVIOUS
<1>6. x \in Nat /\ \A y \in S : y <= x
  BY <1>3, <1>4, <1>5, QEnBuyuk
<1>7. PICK a \in Nat, b \in Nat : a = k * QOlcek /\ b = m * r
  BY <1>1 DEF QOlcek
<1>8. 2 * (a - b) <= x /\ 2 * (b - a) <= x
  <2>1. PICK d \in S : 2 * (a - b) <= d /\ 2 * (b - a) <= d
    BY <1>1, <1>2, <1>7 DEF Uyumlu
  <2>2. d \in Nat /\ d <= x
    BY <1>3, <1>6
  <2> QED BY <1>6, <1>7, <2>1, <2>2
<1>9. 2 * Fark(a - b) <= x
  BY <1>6, <1>7, <1>8 DEF Fark
<1>10. ASSUME KayitliKur(c) > 0 PROVE 2 * m * Fark(KayitliKur(c) - r) <= x + m
  <2>1. m # 0 /\ KayitliKur(c) = Yuvarla(a, m)
    BY <1>1, <1>7, <1>10 DEF KayitliKur, Kura
  <2>2. PICK q : q = Yuvarla(a, m)
    OBVIOUS
  <2>3. q \in Nat /\ 2 * (q * m - a) <= m /\ 2 * (a - q * m) <= m
    BY <1>7, <2>1, <2>2, YuvarlaYakin
  <2>4. PICK f \in Nat : f = Fark(q - r) /\ (f = q - r \/ f = r - q)
    <3>1. CASE q < r
      <4>1. q - r < 0 /\ -(q - r) = r - q /\ r - q \in Nat
        BY <2>3, <3>1
      <4>2. Fark(q - r) = r - q
        BY <4>1 DEF Fark
      <4> QED BY <4>1, <4>2
    <3>2. CASE ~(q < r)
      <4>1. ~(q - r < 0) /\ q - r \in Nat
        BY <2>3, <3>2
      <4>2. Fark(q - r) = q - r
        BY <4>1 DEF Fark
      <4> QED BY <4>1, <4>2
    <3> QED BY <3>1, <3>2
  <2>5. PICK e \in Int : e = q * m
    BY <2>3
  <2>6. m * f = e - b \/ m * f = b - e
    BY <1>7, <2>3, <2>4, <2>5
  <2>7. 2 * (m * f) <= x + m
    <3>1. PICK z \in Int : z = m * f
      BY <2>4
    <3>2. z = e - b \/ z = b - e
      BY <2>6, <3>1
    <3>3. 2 * (e - a) <= m /\ 2 * (a - e) <= m
      BY <2>3, <2>5
    <3>4. 2 * z <= x + m
      BY <1>6, <1>7, <1>8, <2>5, <3>1, <3>2, <3>3
    <3> QED BY <3>1, <3>4
  <2>8. 2 * m * f = 2 * (m * f)
    BY <2>4
  <2> QED BY <2>1, <2>2, <2>4, <2>7, <2>8
<1> QED BY <1>1, <1>2, <1>5, <1>7, <1>9, <1>10

\* The form's three fields agree for every amount and rate, not the small ones of
\* CaprazTutar only (lib/paraBirimi.ts, resolvePaymentAmounts).
THEOREM CaprazHerTutar ==
  \A son \in {"mahsup", "kasa", "kur"}, m \in Nat, k \in Nat, r \in Nat :
    LET c == Capraz(son, m, k, r) IN
      ~c.hata =>
        /\ 2 * Fark(c.kasa * QOlcek - c.mahsup * c.kur) <= Max({QOlcek, c.kur, c.mahsup})
        /\ KayitliKur(c) > 0 => 2 * c.mahsup * Fark(KayitliKur(c) - c.kur) <= Max({QOlcek, c.kur, c.mahsup}) + c.mahsup
<1> SUFFICES ASSUME NEW son \in {"mahsup", "kasa", "kur"}, NEW m \in Nat, NEW k \in Nat, NEW r \in Nat
             PROVE  LET c == Capraz(son, m, k, r) IN
                      ~c.hata =>
                        /\ 2 * Fark(c.kasa * QOlcek - c.mahsup * c.kur) <= Max({QOlcek, c.kur, c.mahsup})
                        /\ KayitliKur(c) > 0 =>
                             2 * c.mahsup * Fark(KayitliKur(c) - c.kur) <= Max({QOlcek, c.kur, c.mahsup}) + c.mahsup
  BY Zenon
<1>1. PICK d : d = Capraz(son, m, k, r)
  OBVIOUS
<1>2. ~d.hata => Uyumlu(d)
  BY <1>1, CaprazUyumlu
<1>3. ~d.hata =>
        /\ 2 * Fark(d.kasa * QOlcek - d.mahsup * d.kur) <= Max({QOlcek, d.kur, d.mahsup})
        /\ KayitliKur(d) > 0 => 2 * d.mahsup * Fark(KayitliKur(d) - d.kur) <= Max({QOlcek, d.kur, d.mahsup}) + d.mahsup
  BY <1>2, UyumluYeter
<1> QED BY <1>1, <1>3, Zenon

LEMMA CaprazTutarDogru == CaprazTutar
<1>1. ASSUME NEW son \in {"mahsup", "kasa", "kur"}, NEW m \in 0..8, NEW k \in 0..8, NEW r \in {0, 1, 7, 20, 33, 50}
      PROVE  LET c == Capraz(son, m, k, r) IN
               ~c.hata =>
                 /\ 2 * Fark(c.kasa * QOlcek - c.mahsup * c.kur) <= Max({QOlcek, c.kur, c.mahsup})
                 /\ KayitliKur(c) > 0 => 2 * c.mahsup * Fark(KayitliKur(c) - c.kur) <= Max({QOlcek, c.kur, c.mahsup}) + c.mahsup
  <2>1. m \in Nat /\ k \in Nat /\ r \in Nat
    OBVIOUS
  <2>2. PICK d : d = Capraz(son, m, k, r)
    OBVIOUS
  <2>3. ~d.hata => Uyumlu(d)
    BY <2>1, <2>2, CaprazUyumlu
  <2>4. ~d.hata =>
          /\ 2 * Fark(d.kasa * QOlcek - d.mahsup * d.kur) <= Max({QOlcek, d.kur, d.mahsup})
          /\ KayitliKur(d) > 0 => 2 * d.mahsup * Fark(KayitliKur(d) - d.kur) <= Max({QOlcek, d.kur, d.mahsup}) + d.mahsup
    BY <2>3, UyumluYeter
  <2> QED BY <2>2, <2>4, Zenon
<1> QED BY <1>1, Zenon DEF CaprazTutar

LEMMA KurAdimi == ASSUME KurInv, [KurNext]_kurVars PROVE KurInv'
<1>1. QBankaInv /\ QOdemeDogru(qOdeme) /\ BultenGecikmez
  BY DEF KurInv
<1>2. ASSUME NEW g \in QSorulan, QIste(g) PROVE KurInv'
  <2>1. PICK zorla \in BOOLEAN : QSor(g, zorla)
    BY <1>2 DEF QIste
  <2>2. qOdeme' = qOdeme
    BY <1>2 DEF QIste
  <2>3. QBankaInv' /\ BultenGecikmez'
    BY <1>1, <2>1, QSorKorur
  <2> QED BY <1>1, <2>2, <2>3 DEF KurInv
<1>3. ASSUME NEW g \in QSorulan, QVarir(g) PROVE KurInv'
  BY <1>1, <1>3, QVarirKorur, QVarirOdeme DEF KurInv
<1>4. CASE QOdeBasla
  BY <1>1, <1>4, QOdeBaslaKorur DEF KurInv
<1>5. CASE QOdeSor
  BY <1>1, <1>5, QOdeSorKorur DEF KurInv
<1>6. CASE QOdeYaz
  BY <1>1, <1>6, QOdeYazKorur DEF KurInv
<1>7. CASE QYayimla
  <2>1. qOdeme' = qOdeme /\ qYanit' = qYanit
    BY <1>7 DEF QYayimla
  <2> QED BY <1>1, <1>7, <2>1, QYayimlaKorur, QKalirDogru DEF KurInv
<1>8. CASE QIlerle
  <2>1. qOdeme' = qOdeme /\ qYanit' = qYanit
    BY <1>8 DEF QIlerle
  <2> QED BY <1>1, <1>8, <2>1, QIlerleKorur, QKalirDogru DEF KurInv
<1>9. CASE UNCHANGED kurVars
  <2>1. UNCHANGED <<qAn, qYayim, qYas, qOnbellek, qSon, qUcus, qOgleBakildi, qOgleKim, qZorlandi, qYanit, qOdeme, qSayac>>
    BY <1>9 DEF kurVars
  <2>2. QBankaInv'
    BY <1>1, <2>1 DEF QBankaInv, QTipler, QYayimDogru, QUcuslarDogru, QUcusDogru, QHitlerDogru, QHitDogru, QNotDogru,
                      QBakisDogru, OgledenSonra
  <2> QED BY <1>1, <2>1, <2>2, QKalirDogru DEF KurInv
<1> QED BY <1>2, <1>3, <1>4, <1>5, <1>6, <1>7, <1>8, <1>9 DEF KurNext

\* The rates' inductive invariant (lib/tcmbKur.service.ts, lib/kurSnapshot.ts): the
\* types; how old what is kept or under way can be since today's bulletin came;
\* who noted the look after 16:35; and that a payment has rates of its past only.
THEOREM KurDegismez == KurSpec => []KurInv
<1>1. KurInit => KurInv
  BY KurBaslangicta
<1>2. KurInv /\ [KurNext]_kurVars => KurInv'
  BY KurAdimi
<1> QED BY <1>1, <1>2, PTL DEF KurSpec

\* Types of the rates' cache, flights, notes and counters (lib/tcmbKur.service.ts).
THEOREM KurTipi == KurSpec => []KurTypeOK
<1>1. KurInv => KurTypeOK
  <2> SUFFICES ASSUME KurInv PROVE KurTypeOK
    OBVIOUS
  <2>1. QTipler
    BY DEF KurInv, QBankaInv
  <2>2. qOdeme.adim \in {"yok", "meta", "meta_bekler", "matrah", "matrah_bekler", "yazildi", "red"}
    BY DEF KurInv, QOdemeDogru, QOdemeKaydi
  <2>3. \A g \in QSorulan : qOnbellek[g] \in QHit \cup {Yok} /\ qUcus[g] \in QUcusKaydi \cup {Yok}
    BY <2>1 DEF QTipler
  <2> QED BY <2>1, <2>2, <2>3 DEF QTipler, KurTypeOK, QHit, QUcusKaydi
<1> QED BY <1>1, KurDegismez, PTL

\* A published bulletin reaches the screens, a payment's base and reference rate
\* come from no later day, and the form's three fields agree (lib/tcmbKur.service.ts,
\* lib/kurSnapshot.ts, lib/tcmbYaklasikTry.ts), for any days, ticks and kinds of payment.
THEOREM KurTutarlidir == KurSpec => []KurTutarli
<1>1. KurInv => KurGelecektenDegil
  <2> SUFFICES ASSUME KurInv, qOdeme.adim = "yazildi", ~qOdeme.bayat,
                      NEW d \in {qOdeme.matrah, qOdeme.ref, qOdeme.tarih} \cap Gunler0
               PROVE  d <= qOdeme.gun
    BY DEF KurGelecektenDegil
  <2> QED BY DEF KurInv, QOdemeDogru
<1>2. KurInv => KurTutarli
  BY <1>1, CaprazTutarDogru DEF KurInv, KurTutarli
<1> QED BY <1>2, KurDegismez, PTL

-----------------------------------------------------------------------------
(* Reports: what the tables hold.                                          *)

\* An open instalment is of an open fee, and only an open one has active payments.
MUcret ==
  \A c \in FDosya : /\ fDosya[c].taksit = "AKTIF" => fDosya[c].ucret = "AKTIF"
                    /\ FOdenenler(c) # {} => fDosya[c].taksit = "AKTIF"

\* Payment and income row name each other; a cancelled payment's row is deleted.
MBag ==
  /\ \A r \in FDolu(fOfis) :
       /\ fOfis[r].kim => fOfis[r].odeme = Yok
       /\ fOfis[r].odeme # Yok =>
            /\ fOfis[r].odeme \in FDolu(fOdeme) /\ fOdeme[fOfis[r].odeme].gelir = r
            /\ fOdeme[fOfis[r].odeme].iptal => fOfis[r].silindi
  /\ \A o \in FDolu(fOdeme) : fOdeme[o].gelir # Yok =>
       fOdeme[o].gelir \in FDolu(fOfis) /\ fOfis[fOdeme[o].gelir].odeme = o

MaliInv == MaliTypeOK /\ MUcret /\ MBag

\* The enforcement instalments; no other table refers to them.
MIcraTipi == fIcra \in [FIcra -> {"acik", "odendi", "yok"}]

\* A correction, and no other row, names a row it corrects: one that was approved.
MDuzeltme ==
  \A r \in FDolu(fOfis) :
    /\ fOfis[r].tur = "DUZELTME" <=> fOfis[r].bag # Yok
    /\ fOfis[r].bag # Yok => /\ fOfis[r].bag \in FDolu(fOfis) /\ fOfis[fOfis[r].bag].tur # "DUZELTME"
                            /\ fOfis[fOfis[r].bag].onay = "ONAYLI"

\* No more is paid than the fee.
MSinir == \A c \in FDosya : Cardinality(FOdenenler(c)) <= FUcret

\* Nothing is paid.
MAzalir == \A c \in FDosya : FOdenenler(c)' \subseteq FOdenenler(c)

MaliTamInv == MaliInv /\ MDuzeltme /\ MSinir

LEMMA MSatirlari ==
  ASSUME MaliTypeOK
  PROVE  /\ \A o \in FDolu(fOdeme) : o \in FSatir /\ fOdeme[o] \in FOdemeKaydi
         /\ \A r \in FDolu(fOfis) : r \in FSatir /\ fOfis[r] \in FOfisKaydi
         /\ \A k \in FDolu(fKasa) : k \in FSatir /\ fKasa[k] \in FKasaKaydi
         /\ FSatir \subseteq Nat /\ FUcret \in Nat
BY MaliVarsayimi DEF MaliTypeOK, FDolu

LEMMA MSonlu ==
  /\ IsFiniteSet(FDosya) /\ \A S \in SUBSET FSatir : IsFiniteSet(S) /\ Cardinality(S) \in Nat
  /\ FDolu(fOdeme) \subseteq FSatir /\ FDolu(fOfis) \subseteq FSatir /\ FDolu(fKasa) \subseteq FSatir
<1>1. \A S \in SUBSET FSatir : IsFiniteSet(S)
  BY MaliVarsayimi, FS_Subset
<1> QED BY <1>1, MaliVarsayimi, FS_CardinalityType DEF FDolu

LEMMA MDegerler ==
  ASSUME MaliTypeOK
  PROVE  /\ \A r \in FDolu(fOfis) : FOfisTutari[r] = fOfis[r].tutar /\ FOfisTutari[r] \in Int /\ FEkonomik(r) \in Ay
         /\ \A k \in FDolu(fKasa) : FKasaTutari[k] = fKasa[k].tutar /\ FKasaTutari[k] \in Int /\ FIsaretli[k] \in Int
<1>1. \A r \in FDolu(fOfis) : fOfis[r].tutar \in Int /\ fOfis[r].ay \in Ay
  BY MSatirlari DEF FOfisKaydi
<1>2. \A k \in FDolu(fKasa) : fKasa[k].tutar \in Int
  BY MSatirlari DEF FKasaKaydi
<1>3. \A r \in FDolu(fOfis) : FEkonomik(r) \in Ay
  BY <1>1 DEF FEkonomik
<1> QED BY <1>1, <1>2, <1>3 DEF FOfisTutari, FKasaTutari, FIsaretli

(* What is left, and what the office pays.                                 *)
LEMMA MIkisi ==
  ASSUME NEW b \in Int
  PROVE  /\ FKalan(b) = IF b > 0 THEN b ELSE 0
         /\ FBuro(b) = IF b < 0 THEN -b ELSE 0
<1>1. ASSUME NEW x \in Int PROVE Max({0, x}) = IF x > 0 THEN x ELSE 0
  <2>1. \E y \in {0, x} : \A z \in {0, x} : y >= z
    BY x > 0 \/ x <= 0
  <2> QED BY <2>1 DEF Max
<1>2. FKalan(b) = Max({0, b}) /\ FBuro(b) = Max({0, -b})
  BY DEF FKalan, FBuro
<1>3. -b \in Int /\ (-b > 0 <=> b < 0)
  OBVIOUS
<1> QED BY <1>1, <1>2, <1>3

(* The office cash.                                                        *)
LEMMA FTuruBirlesim ==
  ASSUME MaliTypeOK, NEW S \in SUBSET FDolu(fOfis), NEW T \in SUBSET FDolu(fOfis), S \cap T = {}, NEW tur
  PROVE  FTuru(S \cup T, tur) = FTuru(S, tur) + FTuru(T, tur) /\ FTuru(S, tur) \in Int /\ FTuru(T, tur) \in Int
<1> DEFINE P == {r \in S : fOfis[r].tur = tur}
           Q == {r \in T : fOfis[r].tur = tur}
<1>1. {r \in S \cup T : fOfis[r].tur = tur} = P \cup Q /\ P \cap Q = {}
  OBVIOUS
<1>2. IsFiniteSet(P) /\ IsFiniteSet(Q)
  <2>1. P \in SUBSET FSatir /\ Q \in SUBSET FSatir
    BY DEF FDolu
  <2> QED BY <2>1, MSonlu
<1>3. \A r \in P \cup Q : FOfisTutari[r] \in Int
  BY MDegerler
<1>4. FTuru(S \cup T, tur) = Topla(FOfisTutari, P \cup Q) /\ FTuru(S, tur) = Topla(FOfisTutari, P) /\ FTuru(T, tur) = Topla(FOfisTutari, Q)
  BY <1>1 DEF FTuru, FTop, Topla
<1> HIDE DEF P, Q
<1>5. Topla(FOfisTutari, P \cup Q) = Topla(FOfisTutari, P) + Topla(FOfisTutari, Q)
  BY <1>1, <1>2, <1>3, ToplaBirlesim
<1>6. Topla(FOfisTutari, P) \in Int /\ Topla(FOfisTutari, Q) \in Int
  BY <1>2, <1>3, ToplaTamSayi
<1> QED BY <1>4, <1>5, <1>6

LEMMA FNetBirlesim ==
  ASSUME MaliTypeOK, NEW S \in SUBSET FDolu(fOfis), NEW T \in SUBSET FDolu(fOfis), S \cap T = {}
  PROVE  /\ FNet(S \cup T) = FNet(S) + FNet(T) /\ FNet(S) \in Int /\ FNet(T) \in Int
         /\ FNet(T) = FTuru(T, "GELIR") - FTuru(T, "GIDER") + FTuru(T, "DUZELTME") - FTuru(T, "DOVIZ_CIKIS") + FTuru(T, "DOVIZ_GIRIS")
<1> DEFINE D(U, tur) == FTuru(U, tur)
<1>1. \A tur : FTuru(S \cup T, tur) = FTuru(S, tur) + FTuru(T, tur) /\ FTuru(S, tur) \in Int /\ FTuru(T, tur) \in Int
  BY FTuruBirlesim
<1>2. PICK a1 \in Int, a2 \in Int, a3 \in Int, a4 \in Int, a5 \in Int :
        a1 = FTuru(S, "GELIR") /\ a2 = FTuru(S, "GIDER") /\ a3 = FTuru(S, "DUZELTME") /\ a4 = FTuru(S, "DOVIZ_CIKIS") /\ a5 = FTuru(S, "DOVIZ_GIRIS")
  BY <1>1
<1>3. PICK b1 \in Int, b2 \in Int, b3 \in Int, b4 \in Int, b5 \in Int :
        b1 = FTuru(T, "GELIR") /\ b2 = FTuru(T, "GIDER") /\ b3 = FTuru(T, "DUZELTME") /\ b4 = FTuru(T, "DOVIZ_CIKIS") /\ b5 = FTuru(T, "DOVIZ_GIRIS")
  BY <1>1
<1>4. /\ FTuru(S \cup T, "GELIR") = a1 + b1 /\ FTuru(S \cup T, "GIDER") = a2 + b2 /\ FTuru(S \cup T, "DUZELTME") = a3 + b3
      /\ FTuru(S \cup T, "DOVIZ_CIKIS") = a4 + b4 /\ FTuru(S \cup T, "DOVIZ_GIRIS") = a5 + b5
  BY <1>1, <1>2, <1>3
<1>5. FNet(S \cup T) = (a1 + b1) - (a2 + b2) + (a3 + b3) - (a4 + b4) + (a5 + b5)
  BY <1>4 DEF FNet
<1>6. FNet(S) = a1 - a2 + a3 - a4 + a5 /\ FNet(T) = b1 - b2 + b3 - b4 + b5
  BY <1>2, <1>3 DEF FNet
<1>7. FNet(S \cup T) = FNet(S) + FNet(T) /\ FNet(S) \in Int /\ FNet(T) \in Int
  BY <1>5, <1>6
<1> QED BY <1>7 DEF FNet

\* A month's list holds the rows of its overview and those still to be approved.
LEMMA MListe ==
  ASSUME MaliTypeOK, MDuzeltme, NEW A
  PROVE  /\ {r \in FOfisSatirlari : FEkonomik(r) \in A} \subseteq FListe(A)
         /\ FOnaysiz(A) = {} => FListe(A) = {r \in FOfisSatirlari : FEkonomik(r) \in A}
<1> DEFINE bulunan == {r \in FDolu(fOfis) : ~fOfis[r].silindi /\ FEkonomik(r) \in A}
           asil == {IF fOfis[r].tur = "DUZELTME" /\ fOfis[r].bag # Yok THEN fOfis[r].bag ELSE r : r \in bulunan}
<1>1. FListe(A) = {r \in FDolu(fOfis) : ~fOfis[r].silindi /\ (r \in asil \cup bulunan \/ fOfis[r].bag \in asil)}
  BY DEF FListe
<1>2. ASSUME NEW r \in FDolu(fOfis)
      PROVE  FEkonomik(r) = IF fOfis[r].tur = "DUZELTME" THEN fOfis[fOfis[r].bag].ay ELSE fOfis[r].ay
  BY DEF FEkonomik, MDuzeltme
<1>3. ASSUME NEW r \in asil PROVE r \in FDolu(fOfis) /\ FEkonomik(r) \in A /\ fOfis[r].tur # "DUZELTME"
  <2>1. PICK q \in bulunan : r = IF fOfis[q].tur = "DUZELTME" /\ fOfis[q].bag # Yok THEN fOfis[q].bag ELSE q
    BY <1>3
  <2>2. CASE fOfis[q].tur = "DUZELTME"
    <3>1. r = fOfis[q].bag /\ r \in FDolu(fOfis) /\ fOfis[r].tur # "DUZELTME"
      BY <2>1, <2>2 DEF MDuzeltme
    <3>2. FEkonomik(r) = fOfis[r].ay /\ FEkonomik(q) = fOfis[r].ay
      BY <1>2, <2>1, <2>2, <3>1
    <3> QED BY <2>1, <3>1, <3>2
  <2>3. CASE fOfis[q].tur # "DUZELTME"
    BY <2>1, <2>3
  <2> QED BY <2>2, <2>3
<1>4. bulunan \subseteq FListe(A)
  BY <1>1
<1>5. ASSUME NEW r \in FListe(A) PROVE r \in bulunan
  <2>1. r \in FDolu(fOfis) /\ ~fOfis[r].silindi /\ (r \in asil \cup bulunan \/ fOfis[r].bag \in asil)
    BY <1>1
  <2>2. CASE fOfis[r].bag \in asil
    <3>1. PICK q : q = fOfis[r].bag
      OBVIOUS
    <3>2. q \in FDolu(fOfis) /\ FEkonomik(q) \in A /\ fOfis[q].tur # "DUZELTME"
      BY <1>3, <2>2, <3>1
    <3>3. q # Yok
      BY <3>2, MaliVarsayimi DEF FDolu
    <3>4. fOfis[r].tur = "DUZELTME"
      BY <2>1, <3>1, <3>3 DEF MDuzeltme
    <3>5. FEkonomik(r) = fOfis[q].ay /\ FEkonomik(q) = fOfis[q].ay
      BY <1>2, <2>1, <3>1, <3>2, <3>4
    <3> QED BY <2>1, <3>2, <3>5
  <2>3. CASE r \in asil
    BY <1>3, <2>1, <2>3
  <2> QED BY <2>1, <2>2, <2>3
<1>6. FListe(A) = bulunan
  BY <1>4, <1>5
<1>7. {r \in FOfisSatirlari : FEkonomik(r) \in A} \subseteq bulunan
  BY DEF FOfisSatirlari
<1>8. ASSUME FOnaysiz(A) = {}, NEW r \in bulunan PROVE r \in FOfisSatirlari
  <2>1. r \in FDolu(fOfis) /\ fOfis[r].onay \in {"ONAYSIZ", "ONAYLI"} /\ ~fOfis[r].silindi /\ FEkonomik(r) \in A
    BY MSatirlari DEF FOfisKaydi
  <2>2. fOfis[r].onay # "ONAYSIZ"
    BY <1>8, <2>1 DEF FOnaysiz
  <2> QED BY <2>1, <2>2 DEF FOfisSatirlari
<1> HIDE DEF asil
<1> QED BY <1>6, <1>7, <1>8

\* Tagged or not, as many.
LEMMA MEtiket ==
  ASSUME NEW S, IsFiniteSet(S), NEW t
  PROVE  Cardinality({<<t, x>> : x \in S}) = Cardinality(S)
<1> DEFINE T == {<<t, x>> : x \in S}
           f == [x \in S |-> <<t, x>>]
<1>1. f \in [S -> T] /\ \A x, y \in S : f[x] = f[y] => x = y
  OBVIOUS
<1>2. \A z \in T : \E x \in S : f[x] = z
  OBVIOUS
<1> HIDE DEF f, T
<1>3. f \in Bijection(S, T)
  BY <1>1, <1>2 DEF Bijection, Injection, Surjection, IsInjective
<1>4. ExistsBijection(S, T)
  BY <1>3 DEF ExistsBijection
<1>5. Cardinality(T) = Cardinality(S)
  BY <1>4, FS_Bijection
<1> QED BY <1>5 DEF T

LEMMA MOnaySayisi ==
  ASSUME MaliTypeOK
  PROVE  FPano.ofisOnay = Cardinality(FOnaysiz({0})) + Cardinality(FOnaysiz({1}))
<1>1. \A r \in FDolu(fOfis) : FEkonomik(r) \in {0, 1}
  BY MDegerler DEF Ay
<1>2. PICK a, b : a = FOnaysiz({0}) /\ b = FOnaysiz({1})
  OBVIOUS
<1>3. {r \in FDolu(fOfis) : fOfis[r].onay = "ONAYSIZ" /\ ~fOfis[r].silindi} = a \cup b
  BY <1>1, <1>2 DEF FOnaysiz
<1>4. (\A r \in a : FEkonomik(r) = 0) /\ (\A r \in b : FEkonomik(r) = 1)
  BY <1>2 DEF FOnaysiz
<1>5. a \cap b = {}
  <2> SUFFICES ASSUME NEW r \in a \cap b PROVE FALSE
    OBVIOUS
  <2>1. FEkonomik(r) = 0 /\ FEkonomik(r) = 1
    BY <1>4
  <2> QED BY <2>1
<1>6. a \in SUBSET FSatir /\ b \in SUBSET FSatir
  BY <1>2 DEF FOnaysiz, FDolu
<1>7. IsFiniteSet(a) /\ IsFiniteSet(b) /\ Cardinality(a) \in Nat /\ Cardinality(b) \in Nat
  BY <1>6, MSonlu
<1>8. Cardinality(a \cup b) = Cardinality(a) + Cardinality(b) - Cardinality(a \cap b)
  BY <1>7, FS_Union
<1>9. Cardinality(a \cap b) = 0
  BY <1>5, FS_EmptySet
<1>10. FPano.ofisOnay = Cardinality(a \cup b)
  BY <1>3 DEF FPano
<1> QED BY <1>2, <1>7, <1>8, <1>9, <1>10

LEMMA MOfisTutar == ASSUME MaliTamInv PROVE FOfisTutar
<1>0. MaliTypeOK /\ MBag /\ MDuzeltme
  BY DEF MaliTamInv, MaliInv
<1> DEFINE G == {r \in FOfisSatirlari : FEkonomik(r) < 1}
           D == {r \in FOfisSatirlari : FEkonomik(r) = 1}
<1>1. FOfisSatirlari \subseteq FDolu(fOfis) /\ \A r \in FOfisSatirlari : FEkonomik(r) \in {0, 1}
  BY <1>0, MDegerler DEF FOfisSatirlari, Ay
<1>2. G \cup D = FOfisSatirlari /\ G \cap D = {} /\ G \in SUBSET FDolu(fOfis) /\ D \in SUBSET FDolu(fOfis)
  BY <1>1
<1>3. {r \in FOfisSatirlari : FEkonomik(r) \in {0}} = G /\ {r \in FOfisSatirlari : FEkonomik(r) \in {1}} = D
  BY <1>1
<1> HIDE DEF G, D
<1>4. /\ FNet(FOfisSatirlari) = FNet(G) + FNet(D) /\ FNet(G) \in Int /\ FNet(D) \in Int
      /\ FNet(D) = FTuru(D, "GELIR") - FTuru(D, "GIDER") + FTuru(D, "DUZELTME") - FTuru(D, "DOVIZ_CIKIS") + FTuru(D, "DOVIZ_GIRIS")
  <2>1. FNet(G \cup D) = FNet(G) + FNet(D)
    BY <1>0, <1>2, FNetBirlesim
  <2> QED BY <1>0, <1>2, <2>1, FNetBirlesim
<1>5. \A tur : FTuru(D, tur) \in Int
  BY <1>0, <1>2, FTuruBirlesim
<1>6. /\ FAnaSayfa.devreden = FNet(G) /\ FAnaSayfa.bakiye = FNet(FOfisSatirlari)
      /\ FAnaSayfa.net = FTuru(D, "GELIR") - FTuru(D, "GIDER") + FTuru(D, "DUZELTME")
  BY DEF FAnaSayfa, G, D
<1>7. FAnaSayfa.devreden + FAnaSayfa.net - FTuru(D, "DOVIZ_CIKIS") + FTuru(D, "DOVIZ_GIRIS") = FAnaSayfa.bakiye
  <2>1. PICK b1 \in Int, b2 \in Int, b3 \in Int, b4 \in Int, b5 \in Int :
        b1 = FTuru(D, "GELIR") /\ b2 = FTuru(D, "GIDER") /\ b3 = FTuru(D, "DUZELTME") /\ b4 = FTuru(D, "DOVIZ_CIKIS") /\ b5 = FTuru(D, "DOVIZ_GIRIS")
    BY <1>5
  <2>2. PICK n \in Int, m \in Int : n = FNet(G) /\ m = FNet(D)
    BY <1>4
  <2>3. m = b1 - b2 + b3 - b4 + b5 /\ FAnaSayfa.devreden = n /\ FAnaSayfa.net = b1 - b2 + b3 /\ FAnaSayfa.bakiye = n + m
    BY <1>4, <1>6, <2>1, <2>2
  <2> QED BY <2>1, <2>3
<1>8. FOfisOzet({0}) + FOfisOzet({1}) = FAnaSayfa.bakiye
  BY <1>3, <1>4, <1>6 DEF FOfisOzet
<1>9. ASSUME NEW A \in {{0}, {1}, Ay}, NEW satir, satir = {r \in FOfisSatirlari : FEkonomik(r) \in A}
      PROVE  /\ satir \subseteq FListe(A)
             /\ FOnaysiz(A) = {} => FOfisRapor(A).net = FNet(satir) /\ (A = {1} => FOfisRapor(A).bas = FAnaSayfa.net)
  <2>1. satir \subseteq FListe(A) /\ (FOnaysiz(A) = {} => FListe(A) = satir)
    BY <1>0, <1>9, MListe
  <2>2. ASSUME FOnaysiz(A) = {} PROVE FOfisRapor(A).net = FNet(satir)
    BY <2>1, <2>2 DEF FOfisRapor
  <2>3. ASSUME FOnaysiz(A) = {}, A = {1} PROVE FOfisRapor(A).bas = FAnaSayfa.net
    <3>1. FListe(A) = D
      BY <1>3, <1>9, <2>1, <2>3
    <3> QED BY <1>6, <3>1 DEF FOfisRapor
  <2> QED BY <2>1, <2>2, <2>3
<1>10. ASSUME NEW r \in FDolu(fOfis), fOfis[r].odeme # Yok PROVE fOfis[r].silindi <=> ~FAktif(fOfis[r].odeme)
  <2>1. PICK o : o = fOfis[r].odeme
    OBVIOUS
  <2>2. fOdeme[o].gelir = r /\ (fOdeme[o].iptal => fOfis[r].silindi)
    BY <1>0, <1>10, <2>1 DEF MBag
  <2>3. r # Yok
    BY MaliVarsayimi DEF FDolu
  <2>4. FAktif(o) <=> ~fOdeme[o].iptal /\ ~fOfis[r].silindi
    BY <2>2, <2>3 DEF FAktif
  <2> QED BY <2>1, <2>2, <2>4
<1>11. \A g \in FGun : \A r \in FEkstreGelir(g) : fOfis[r].odeme = Yok /\ (~fOfis[r].silindi => r \in FOfisSatirlari)
  BY <1>0 DEF FEkstreGelir, MBag, FOfisSatirlari
<1>12. \A g \in FGun : {r \in FEkstreGelir(g) : ~fOfis[r].silindi} =
                         {r \in FDosyaDisiGelir : fOfis[r].onay = "ONAYLI" /\ fOfis[r].ay \in FKadar[g]}
  BY DEF FEkstreGelir, FDosyaDisiGelir
<1>13. FPano.bakiye = FAnaSayfa.bakiye /\ FPano.ofisOnay = Cardinality(FOnaysiz({0})) + Cardinality(FOnaysiz({1}))
  BY <1>0, <1>6, MOnaySayisi DEF FPano
<1> QED BY <1>7, <1>8, <1>9, <1>10, <1>11, <1>12, <1>13, Zenon DEF FOfisTutar, D

(* The client.                                                             *)

\* The advance of a case in the months A.
MBakiye(c, A) == FTop({k \in FKasaSatirlari(A) : fKasa[k].dosya = c}, FIsaretli)
MOdenen(c, A) == {o \in FOdenenler(c) : fOdeme[o].ay \in A}

LEMMA MBakiyeTam == ASSUME MaliTypeOK, NEW c, NEW A PROVE MBakiye(c, A) \in Int
<1> DEFINE S == {k \in FKasaSatirlari(A) : fKasa[k].dosya = c}
<1>1. S \in SUBSET FDolu(fKasa) /\ S \in SUBSET FSatir
  BY DEF FKasaSatirlari, FDolu
<1>2. IsFiniteSet(S) /\ \A k \in S : FIsaretli[k] \in Int
  BY <1>1, MSonlu, MDegerler
<1>3. Topla(FIsaretli, S) \in Int
  BY <1>2, ToplaTamSayi
<1> QED BY <1>3 DEF MBakiye, FTop, Topla

LEMMA MElleTam == ASSUME MaliTypeOK, NEW tur, NEW A PROVE FElle(tur, A) \in Int
<1> DEFINE sayilir(r) == fOfis[r].onay = "ONAYLI" /\ ~fOfis[r].silindi /\ fOfis[r].ay \in A
           satir == {r \in FDolu(fOfis) : fOfis[r].kim /\ fOfis[r].tur = tur /\ fOfis[r].odeme = Yok /\ sayilir(r)}
           S == satir \cup {d \in FDolu(fOfis) : fOfis[d].tur = "DUZELTME" /\ fOfis[d].bag \in satir /\ sayilir(d)}
<1>1. S \in SUBSET FDolu(fOfis) /\ S \in SUBSET FSatir
  BY DEF FDolu
<1>2. IsFiniteSet(S) /\ \A r \in S : FOfisTutari[r] \in Int
  BY <1>1, MSonlu, MDegerler
<1>3. Topla(FOfisTutari, S) \in Int
  BY <1>2, ToplaTamSayi
<1> QED BY <1>3 DEF FElle, FTop, Topla

\* The payments of the client are those of its cases.
LEMMA MTahsilat ==
  ASSUME MaliTypeOK, NEW A \in SUBSET Ay, NEW f, \A c \in FDosya : f[c] = Cardinality(MOdenen(c, A))
  PROVE  Topla(f, FDosya) = Cardinality({o \in FDolu(fOdeme) : FAktif(o) /\ fOdeme[o].ay \in A})
<1> DEFINE K == {o \in FDolu(fOdeme) : FAktif(o) /\ fOdeme[o].ay \in A}
           p == [o \in K |-> fOdeme[o].dosya]
           v == [c \in FDosya |-> MOdenen(c, A)]
<1>1. IsFiniteSet(K) /\ IsFiniteSet(FDosya)
  BY MSonlu DEF FDolu
<1>2. \A o \in K : p[o] \in FDosya
  BY MSatirlari DEF FOdemeKaydi
<1>3. \A c \in FDosya : f[c] = Cardinality(v[c]) /\ (\A o : o \in v[c] <=> o \in K /\ p[o] = c)
  BY DEF MOdenen, FOdenenler
<1> HIDE DEF K, p, v
<1>4. Topla(f, FDosya) = Cardinality(K)
  BY <1>1, <1>2, <1>3, ToplaParcalar
<1> QED BY <1>4 DEF K

LEMMA MMuvekkilNet ==
  ASSUME MaliTypeOK, NEW A \in SUBSET Ay
  PROVE  FMuvekkilOzet(A).net = FTop(FDosya, [c \in FDosya |-> FDosyaOzet(c, A).net]) + FElle("GELIR", A) - FElle("GIDER", A)
<1> DEFINE f == [c \in FDosya |-> Cardinality(MOdenen(c, A))]
           g == [c \in FDosya |-> FBuro(MBakiye(c, A))]
           h == [c \in FDosya |-> FDosyaOzet(c, A).net]
<1>1. \A c \in FDosya : f[c] \in Int /\ g[c] \in Int /\ h[c] = f[c] - g[c]
  <2> SUFFICES ASSUME NEW c \in FDosya PROVE f[c] \in Int /\ g[c] \in Int /\ h[c] = f[c] - g[c]
    OBVIOUS
  <2>1. MOdenen(c, A) \in SUBSET FSatir
    BY DEF MOdenen, FOdenenler, FDolu
  <2>2. Cardinality(MOdenen(c, A)) \in Int
    BY <2>1, MSonlu
  <2>3. FBuro(MBakiye(c, A)) \in Int
    BY MBakiyeTam, MIkisi
  <2>4. FDosyaOzet(c, A).net = Cardinality(MOdenen(c, A)) - FBuro(MBakiye(c, A))
    BY DEF FDosyaOzet, MOdenen, MBakiye
  <2> QED BY <2>2, <2>3, <2>4
<1>2. FMuvekkilOzet(A).net = Cardinality({o \in FDolu(fOdeme) : FAktif(o) /\ fOdeme[o].ay \in A}) + FElle("GELIR", A)
                             - (Topla(g, FDosya) + FElle("GIDER", A))
  BY DEF FMuvekkilOzet, FMuvekkilTahsil, MBakiye, FTop, Topla
<1>3. \A c \in FDosya : f[c] = Cardinality(MOdenen(c, A))
  OBVIOUS
<1>4. FTop(FDosya, h) = Topla(h, FDosya)
  BY DEF FTop, Topla
<1> HIDE DEF f, g, h
<1>5. Topla(f, FDosya) = Cardinality({o \in FDolu(fOdeme) : FAktif(o) /\ fOdeme[o].ay \in A})
  BY <1>3, MTahsilat
<1>6. Topla(h, FDosya) = Topla(f, FDosya) - Topla(g, FDosya)
  BY <1>1, MSonlu, ToplaFark
<1>7. Topla(f, FDosya) \in Int /\ Topla(g, FDosya) \in Int
  BY <1>1, MSonlu, ToplaTamSayi
<1>8. FElle("GELIR", A) \in Int /\ FElle("GIDER", A) \in Int
  BY MElleTam
<1>9. FMuvekkilOzet(A).net = FTop(FDosya, h) + FElle("GELIR", A) - FElle("GIDER", A)
  BY <1>2, <1>4, <1>5, <1>6, <1>7, <1>8
<1> QED BY <1>9 DEF h

\* The rows by hand of two months are those of the one and the other.
LEMMA MElleAyrilir ==
  ASSUME MaliTypeOK, NEW tur, \A d \in FDolu(fOfis) : fOfis[d].tur = "DUZELTME" => fOfis[d].ay = FEkonomik(d)
  PROVE  FElle(tur, Ay) = FElle(tur, {0}) + FElle(tur, {1})
<1> DEFINE sayilir(r, A) == fOfis[r].onay = "ONAYLI" /\ ~fOfis[r].silindi /\ fOfis[r].ay \in A
           satir(A) == {r \in FDolu(fOfis) : fOfis[r].kim /\ fOfis[r].tur = tur /\ fOfis[r].odeme = Yok /\ sayilir(r, A)}
           S(A) == satir(A) \cup {d \in FDolu(fOfis) : fOfis[d].tur = "DUZELTME" /\ fOfis[d].bag \in satir(A) /\ sayilir(d, A)}
<1>1. \A A : FElle(tur, A) = Topla(FOfisTutari, S(A))
  BY DEF FElle, FTop, Topla
<1>2. \A r \in FDolu(fOfis) : fOfis[r].ay = 0 \/ fOfis[r].ay = 1
  BY MSatirlari DEF FOfisKaydi, Ay
<1>3. ASSUME NEW d \in FDolu(fOfis), NEW A, fOfis[d].tur = "DUZELTME", fOfis[d].bag \in satir(A)
      PROVE  fOfis[d].ay = fOfis[fOfis[d].bag].ay
  BY <1>3 DEF FEkonomik
<1>4. satir(Ay) = satir({0}) \cup satir({1})
  BY <1>2 DEF Ay
<1>5. S(Ay) = S({0}) \cup S({1})
  <2>1. ASSUME NEW d \in FDolu(fOfis), fOfis[d].tur = "DUZELTME", fOfis[d].bag \in satir(Ay), sayilir(d, Ay)
        PROVE  d \in S({0}) \cup S({1})
    <3>1. fOfis[d].ay = fOfis[fOfis[d].bag].ay /\ fOfis[d].bag \in FDolu(fOfis)
      BY <1>3, <2>1
    <3>2. CASE fOfis[d].ay = 0
      <4>1. fOfis[d].bag \in satir({0}) /\ sayilir(d, {0})
        BY <2>1, <3>1, <3>2
      <4> QED BY <2>1, <4>1
    <3>3. CASE fOfis[d].ay = 1
      <4>1. fOfis[d].bag \in satir({1}) /\ sayilir(d, {1})
        BY <2>1, <3>1, <3>3
      <4> QED BY <2>1, <4>1
    <3> QED BY <1>2, <3>2, <3>3
  <2>2. S(Ay) \subseteq S({0}) \cup S({1})
    BY <1>4, <2>1
  <2>3. S({0}) \subseteq S(Ay) /\ S({1}) \subseteq S(Ay)
    BY <1>4 DEF Ay
  <2> QED BY <2>2, <2>3
<1>6. (\A r \in S({0}) : fOfis[r].ay = 0) /\ (\A r \in S({1}) : fOfis[r].ay = 1)
  OBVIOUS
<1>7. S({0}) \cap S({1}) = {}
  <2> SUFFICES ASSUME NEW r \in S({0}) \cap S({1}) PROVE FALSE
    OBVIOUS
  <2>1. fOfis[r].ay = 0 /\ fOfis[r].ay = 1
    BY <1>6
  <2> QED BY <2>1
<1>8. S({0}) \in SUBSET FDolu(fOfis) /\ S({1}) \in SUBSET FDolu(fOfis)
  OBVIOUS
<1> HIDE DEF S
<1>9. IsFiniteSet(S({0})) /\ IsFiniteSet(S({1}))
  BY <1>8, MSonlu
<1>10. \A r \in S({0}) \cup S({1}) : FOfisTutari[r] \in Int
  BY <1>8, MDegerler
<1>11. Topla(FOfisTutari, S({0}) \cup S({1})) = Topla(FOfisTutari, S({0})) + Topla(FOfisTutari, S({1}))
  BY <1>7, <1>9, <1>10, ToplaBirlesim
<1> QED BY <1>1, <1>5, <1>11

LEMMA MOdenenTum ==
  ASSUME MaliTypeOK, NEW c
  PROVE  MOdenen(c, Ay) = FOdenenler(c) /\ Cardinality(FOdenenler(c)) \in Nat
<1>1. \A p \in FOdenenler(c) : fOdeme[p].ay \in Ay
  BY MSatirlari DEF FOdenenler, FOdemeKaydi
<1>2. FOdenenler(c) \in SUBSET FSatir
  BY DEF FOdenenler, FDolu
<1> QED BY <1>1, <1>2, MSonlu DEF MOdenen

\* What a case's fee comes to, and what is left of it.
LEMMA MAlacakBir ==
  ASSUME MaliTamInv, NEW c \in FDosya, NEW u, u = (IF fDosya[c].ucret = "AKTIF" THEN FUcret ELSE 0)
  PROVE  u \in Nat /\ Cardinality(FOdenenler(c)) <= u /\ FDosyaOzet(c, Ay).alacak = u - Cardinality(FOdenenler(c))
<1>0. MaliTypeOK /\ MUcret /\ MSinir
  BY DEF MaliTamInv, MaliInv
<1>1. PICK n : n = Cardinality(FOdenenler(c))
  OBVIOUS
<1>2. n \in Nat /\ MOdenen(c, Ay) = FOdenenler(c)
  BY <1>0, <1>1, MOdenenTum
<1>3. u \in Nat
  BY MaliVarsayimi
<1>4. fDosya[c].ucret # "AKTIF" => n = 0
  <2> SUFFICES ASSUME fDosya[c].ucret # "AKTIF" PROVE n = 0
    OBVIOUS
  <2>1. FOdenenler(c) = {}
    BY <1>0 DEF MUcret
  <2> QED BY <1>1, <2>1, FS_EmptySet
<1>5. n <= u
  BY <1>0, <1>1, <1>2, <1>3, <1>4, MaliVarsayimi DEF MSinir
<1>6. FDosyaOzet(c, Ay).alacak = FKalan(u - n)
  BY <1>1, <1>2 DEF FDosyaOzet, MOdenen
<1>7. PICK m \in Int : m = u - n
  BY <1>2, <1>3
<1>8. FKalan(m) = m
  BY <1>2, <1>3, <1>5, <1>7, MIkisi
<1> QED BY <1>1, <1>3, <1>5, <1>6, <1>7, <1>8

\* The client owes what its cases owe.
LEMMA MMuvekkilAlacak ==
  ASSUME MaliTamInv
  PROVE  FMuvekkilKalan = FTop(FDosya, [c \in FDosya |-> FDosyaOzet(c, Ay).alacak])
<1> DEFINE f == [c \in FDosya |-> Cardinality(MOdenen(c, Ay))]
           u == [c \in FDosya |-> IF fDosya[c].ucret = "AKTIF" THEN FUcret ELSE 0]
           h == [c \in FDosya |-> FDosyaOzet(c, Ay).alacak]
<1>0. MaliTypeOK
  BY DEF MaliTamInv, MaliInv
<1>1. \A c \in FDosya : u[c] \in Nat /\ f[c] \in Nat /\ h[c] \in Nat /\ h[c] = u[c] - f[c]
  <2> SUFFICES ASSUME NEW c \in FDosya PROVE u[c] \in Nat /\ f[c] \in Nat /\ h[c] \in Nat /\ h[c] = u[c] - f[c]
    OBVIOUS
  <2>1. PICK v, n : v = u[c] /\ n = Cardinality(FOdenenler(c))
    OBVIOUS
  <2>2. v = IF fDosya[c].ucret = "AKTIF" THEN FUcret ELSE 0
    BY <2>1
  <2>3. v \in Nat /\ n <= v /\ FDosyaOzet(c, Ay).alacak = v - n
    BY <2>1, <2>2, MAlacakBir
  <2>4. f[c] = n /\ n \in Nat
    BY <1>0, <2>1, MOdenenTum
  <2> QED BY <2>1, <2>3, <2>4
<1>2. \A c \in FDosya : f[c] = Cardinality(MOdenen(c, Ay))
  OBVIOUS
<1>3. FMuvekkilKalan = FKalan(Topla(u, FDosya) - FMuvekkilTahsil(Ay)) /\ FTop(FDosya, h) = Topla(h, FDosya)
  BY DEF FMuvekkilKalan, FTop, Topla
<1> HIDE DEF f, u, h
<1>4. Topla(f, FDosya) = FMuvekkilTahsil(Ay)
  BY <1>0, <1>2, MTahsilat DEF FMuvekkilTahsil
<1>5. Topla(h, FDosya) = Topla(u, FDosya) - Topla(f, FDosya)
  BY <1>1, MSonlu, ToplaFark
<1>6. Topla(h, FDosya) \in Nat
  BY <1>1, MSonlu, ToplaArtar
<1>7. PICK m \in Nat : m = Topla(h, FDosya)
  BY <1>6
<1>8. FKalan(m) = m
  BY MIkisi
<1>9. FMuvekkilKalan = FTop(FDosya, h)
  BY <1>3, <1>4, <1>5, <1>7, <1>8
<1> QED BY <1>9 DEF h

LEMMA MMuvekkilTutar == ASSUME MaliTamInv PROVE FMuvekkilTutar
<1>0. MaliTypeOK
  BY DEF MaliTamInv, MaliInv
<1>1. \A A \in {{1}, Ay} :
        FMuvekkilOzet(A).net = FTop(FDosya, [c \in FDosya |-> FDosyaOzet(c, A).net]) + FElle("GELIR", A) - FElle("GIDER", A)
  <2>1. \A A \in {{1}, Ay} : A \in SUBSET Ay
    BY DEF Ay
  <2> QED BY <1>0, <2>1, MMuvekkilNet
<1>2. \A c \in FDosya : FDosyaRapor(c).tum = FDosyaOzet(c, Ay) /\ FDosyaRapor(c).donem = FDosyaOzet(c, {1})
  BY DEF FDosyaRapor
<1> DEFINE d == [c \in FDosya |-> FDosyaRapor(c)]
           elle == [A \in {{0}, {1}, Ay} |-> [gelir |-> FElle("GELIR", A), gider |-> FElle("GIDER", A)]]
<1>3. /\ [c \in FDosya |-> d[c].tum.alacak] = [c \in FDosya |-> FDosyaOzet(c, Ay).alacak]
      /\ [c \in FDosya |-> d[c].tum.net] = [c \in FDosya |-> FDosyaOzet(c, Ay).net]
      /\ [c \in FDosya |-> d[c].donem.net] = [c \in FDosya |-> FDosyaOzet(c, {1}).net]
  BY <1>2
<1>4. \A A \in {{0}, {1}, Ay} : elle[A].gelir = FElle("GELIR", A) /\ elle[A].gider = FElle("GIDER", A)
  OBVIOUS
<1> HIDE DEF d, elle
<1>5. FMuvekkilKalan = FTop(FDosya, [c \in FDosya |-> d[c].tum.alacak])
  BY <1>3, MMuvekkilAlacak
<1>6. FMuvekkilRapor.tum.net = FTop(FDosya, [c \in FDosya |-> d[c].tum.net]) + elle[Ay].gelir - elle[Ay].gider
  BY <1>1, <1>3, <1>4 DEF FMuvekkilRapor
<1>7. FMuvekkilRapor.donem.net = FTop(FDosya, [c \in FDosya |-> d[c].donem.net]) + elle[{1}].gelir - elle[{1}].gider
  BY <1>1, <1>3, <1>4 DEF FMuvekkilRapor
<1>8. (\A q \in FDolu(fOfis) : fOfis[q].tur = "DUZELTME" => fOfis[q].ay = FEkonomik(q)) =>
        /\ elle[Ay].gelir = elle[{0}].gelir + elle[{1}].gelir
        /\ elle[Ay].gider = elle[{0}].gider + elle[{1}].gider
  BY <1>0, <1>4, MElleAyrilir
<1> QED BY <1>5, <1>6, <1>7, <1>8, Zenon DEF FMuvekkilTutar, d, elle

(* The case.                                                               *)
LEMMA MEkstreBakiye ==
  ASSUME MaliTypeOK, NEW c, NEW g
  PROVE  FEkstre(c, g).bakiye = MBakiye(c, FKadar[g])
<1> DEFINE K == {k \in FKasaSatirlari(FKadar[g]) : fKasa[k].dosya = c}
           S(t) == {k \in K : fKasa[k].tur = t}
<1>1. K \in SUBSET FDolu(fKasa)
  BY DEF FKasaSatirlari
<1>2. FEkstre(c, g).bakiye = Topla(FKasaTutari, S("AVANS_GIRISI")) - Topla(FKasaTutari, S("MASRAF")) + Topla(FKasaTutari, S("DUZELTME"))
  BY DEF FEkstre, FEkstreBakiye, FTop, Topla
<1>3. MBakiye(c, FKadar[g]) = Topla(FIsaretli, K)
  BY DEF MBakiye, FTop, Topla
<1>4. \A k \in FDolu(fKasa) : /\ fKasa[k].tur \in {"AVANS_GIRISI", "MASRAF", "DUZELTME"}
                              /\ FKasaTutari[k] \in Int /\ FIsaretli[k] \in Int
                              /\ FIsaretli[k] = IF fKasa[k].tur = "MASRAF" THEN -FKasaTutari[k] ELSE FKasaTutari[k]
  BY MSatirlari, MDegerler DEF FKasaKaydi, FIsaretli, FKasaTutari
<1>5. PICK a, m, d : a = S("AVANS_GIRISI") /\ m = S("MASRAF") /\ d = S("DUZELTME")
  OBVIOUS
<1>6. /\ K = (a \cup m) \cup d /\ a \cap m = {} /\ (a \cup m) \cap d = {}
      /\ a \in SUBSET FDolu(fKasa) /\ m \in SUBSET FDolu(fKasa) /\ d \in SUBSET FDolu(fKasa)
  BY <1>1, <1>4, <1>5
<1>7. /\ \A k \in a \cup d : FIsaretli[k] = FKasaTutari[k] /\ FKasaTutari[k] \in Int
      /\ \A k \in m : FIsaretli[k] = -FKasaTutari[k] /\ FKasaTutari[k] \in Int
      /\ \A k \in (a \cup m) \cup d : FIsaretli[k] \in Int
  BY <1>4, <1>5, <1>6
<1>8. IsFiniteSet(a) /\ IsFiniteSet(m) /\ IsFiniteSet(d) /\ IsFiniteSet(a \cup m)
  BY <1>6, MSonlu
<1> HIDE DEF K, S
<1>9. Topla(FIsaretli, (a \cup m) \cup d) = Topla(FIsaretli, a \cup m) + Topla(FIsaretli, d)
  BY <1>6, <1>7, <1>8, ToplaBirlesim
<1>10. Topla(FIsaretli, a \cup m) = Topla(FIsaretli, a) + Topla(FIsaretli, m)
  BY <1>6, <1>7, <1>8, ToplaBirlesim
<1>11. Topla(FIsaretli, a) = Topla(FKasaTutari, a) /\ Topla(FIsaretli, d) = Topla(FKasaTutari, d)
  BY <1>7, <1>8, ToplaEsit
<1>12. Topla(FIsaretli, m) = -Topla(FKasaTutari, m)
  BY <1>7, <1>8, ToplaEksi
<1>13. Topla(FKasaTutari, a) \in Int /\ Topla(FKasaTutari, m) \in Int /\ Topla(FKasaTutari, d) \in Int
  BY <1>7, <1>8, ToplaTamSayi
<1> QED BY <1>2, <1>3, <1>5, <1>6, <1>9, <1>10, <1>11, <1>12, <1>13

\* What a warning says.
LEMMA MUyarilar ==
  /\ \A x : <<"VADESI_GECMIS_TAKSIT", x>> \in FUyarilar <=> x \in FAcikTaksit \cap FGecen["sunucu"] /\ FTaksitKalan(x) > 0
  /\ \A x : <<"NEGATIF_AVANS", x>> \in FUyarilar <=> x \in FDosya /\ FKasaBakiye(x) < 0
  /\ \A x : <<"KAPALI_DOSYA_AVANS", x>> \in FUyarilar <=> x \in FKapali /\ FKasaBakiye(x) > 0
  /\ \A x : <<"KAPALI_DOSYA_ALACAK", x>> \in FUyarilar <=>
              /\ x \in FKapali /\ fDosya[x].ucret = "AKTIF"
              /\ FUcret > IF x \in FAcikTaksit THEN Cardinality(FOdenenler(x)) ELSE 0
  /\ \A x : <<"ONAY_BEKLEYEN_KASA", x>> \in FUyarilar <=> x \in FDolu(fKasa) /\ fKasa[x].onay = "ONAYSIZ" /\ ~fKasa[x].silindi
<1> DEFINE V == {d \in FAcikTaksit \cap FGecen["sunucu"] : FTaksitKalan(d) > 0}
           N == {d \in FDosya : FKasaBakiye(d) < 0}
           A == {d \in FKapali : FKasaBakiye(d) > 0}
           L == {d \in FKapali : fDosya[d].ucret = "AKTIF" /\ FUcret > IF d \in FAcikTaksit THEN Cardinality(FOdenenler(d)) ELSE 0}
           O == {r \in FDolu(fKasa) : fKasa[r].onay = "ONAYSIZ" /\ ~fKasa[r].silindi}
<1>1. FUyarilar = {<<"VADESI_GECMIS_TAKSIT", c>> : c \in V} \cup {<<"NEGATIF_AVANS", c>> : c \in N}
                  \cup ({<<"KAPALI_DOSYA_AVANS", c>> : c \in A} \cup {<<"KAPALI_DOSYA_ALACAK", c>> : c \in L})
                  \cup {<<"ONAY_BEKLEYEN_KASA", k>> : k \in O}
  BY DEF FUyarilar, FVadeUyarilari, FAvansUyarilari, FKapaliUyarilari, FOnayUyarilari
<1> HIDE DEF V, N, A, L, O
<1>2. /\ \A x : <<"VADESI_GECMIS_TAKSIT", x>> \in FUyarilar <=> x \in V
      /\ \A x : <<"NEGATIF_AVANS", x>> \in FUyarilar <=> x \in N
      /\ \A x : <<"KAPALI_DOSYA_AVANS", x>> \in FUyarilar <=> x \in A
      /\ \A x : <<"KAPALI_DOSYA_ALACAK", x>> \in FUyarilar <=> x \in L
      /\ \A x : <<"ONAY_BEKLEYEN_KASA", x>> \in FUyarilar <=> x \in O
  BY <1>1
<1>3. /\ \A x : x \in V <=> x \in FAcikTaksit \cap FGecen["sunucu"] /\ FTaksitKalan(x) > 0
      /\ \A x : x \in N <=> x \in FDosya /\ FKasaBakiye(x) < 0
      /\ \A x : x \in A <=> x \in FKapali /\ FKasaBakiye(x) > 0
      /\ \A x : x \in O <=> x \in FDolu(fKasa) /\ fKasa[x].onay = "ONAYSIZ" /\ ~fKasa[x].silindi
  BY DEF V, N, A, O
<1>4. \A x : x \in L <=> /\ x \in FKapali /\ fDosya[x].ucret = "AKTIF"
                         /\ FUcret > IF x \in FAcikTaksit THEN Cardinality(FOdenenler(x)) ELSE 0
  BY DEF L
<1> QED BY <1>2, <1>3, <1>4

LEMMA MOnayUyarisi ==
  ASSUME MaliTypeOK
  PROVE  \A k \in FDolu(fKasa) : fKasa[k].silindi \/ (k \in FKasaSatirlari(Ay) <=> <<"ONAY_BEKLEYEN_KASA", k>> \notin FUyarilar)
<1> TAKE k \in FDolu(fKasa)
<1>1. fKasa[k].onay \in {"ONAYSIZ", "ONAYLI"} /\ fKasa[k].ay \in Ay /\ fKasa[k].silindi \in BOOLEAN
  BY MSatirlari DEF FKasaKaydi
<1>2. k \in FKasaSatirlari(Ay) <=> fKasa[k].onay = "ONAYLI" /\ ~fKasa[k].silindi
  BY <1>1 DEF FKasaSatirlari
<1>3. <<"ONAY_BEKLEYEN_KASA", k>> \in FUyarilar <=> k \in FDolu(fKasa) /\ fKasa[k].onay = "ONAYSIZ" /\ ~fKasa[k].silindi
  BY MUyarilar
<1> QED BY <1>1, <1>2, <1>3

\* A case is late by a day when its instalment is due and not paid.
LEMMA MGeciken ==
  ASSUME MaliTypeOK, NEW c \in FDosya, NEW g, NEW n, n = Cardinality(FOdenenler(c))
  PROVE  c \in FGeciken(g) <=> c \in FAcikTaksit /\ c \in FGecen[g] /\ FUcret > n
<1>1. n \in Nat /\ FUcret \in Nat
  BY MOdenenTum, MaliVarsayimi
<1>2. PICK m \in Int : m = FUcret - n
  BY <1>1
<1>3. FTaksitKalan(c) = FKalan(m)
  BY <1>2 DEF FTaksitKalan
<1>4. FTaksitKalan(c) > 0 <=> m > 0
  BY <1>2, <1>3, MIkisi
<1>5. FTaksitKalan(c) > 0 <=> FUcret > n
  BY <1>1, <1>2, <1>4
<1> QED BY <1>5 DEF FGeciken

\* The statement as of a day, beside the summary of the rows up to it.
LEMMA MEkstreTutar == ASSUME MaliInv, NEW c \in FDosya, NEW g \in FGun PROVE FEkstreTutar(c, g)
<1>0. MaliTypeOK /\ MUcret
  BY DEF MaliInv
<1>1. PICK A, M, n, m : A = FKadar[g] /\ M = MOdenen(c, A) /\ n = Cardinality(FOdenenler(c)) /\ m = Cardinality(M)
  OBVIOUS
<1>2. A \in SUBSET Ay /\ FUcret \in Nat
  BY <1>1, MaliVarsayimi
<1>3. M \subseteq FOdenenler(c) /\ FOdenenler(c) \in SUBSET FSatir
  BY <1>1 DEF MOdenen, FOdenenler, FDolu
<1>4. n \in Nat /\ m \in Nat /\ m <= n
  BY <1>1, <1>3, MSonlu, FS_Subset
<1>5. m < n => \E q \in FOdenenler(c) : fOdeme[q].ay \notin FKadar[g]
  <2> SUFFICES ASSUME \A q \in FOdenenler(c) : fOdeme[q].ay \in FKadar[g] PROVE m = n
    BY <1>4
  <2>1. M = FOdenenler(c)
    BY <1>1 DEF MOdenen
  <2> QED BY <1>1, <2>1
<1>6. PICK b \in Int : b = MBakiye(c, A)
  BY <1>0, MBakiyeTam
<1>7. PICK o, e : o = FDosyaOzet(c, FKadar[g]) /\ e = FEkstre(c, g)
  OBVIOUS
<1>8. o.tahsil = m /\ o.avans = FKalan(b) /\ o.buro = FBuro(b)
  BY <1>1, <1>6, <1>7 DEF FDosyaOzet, MOdenen, MBakiye
<1>9. e.bakiye = o.avans - o.buro
  <2>1. e.bakiye = b
    BY <1>0, <1>1, <1>6, <1>7, MEkstreBakiye
  <2>2. o.avans = (IF b > 0 THEN b ELSE 0) /\ o.buro = (IF b < 0 THEN -b ELSE 0)
    BY <1>8, MIkisi
  <2> QED BY <1>6, <2>1, <2>2
<1>10. FEkstreTaksit(c, g) <=> fDosya[c].taksit = "AKTIF" /\ c \in FGirilen[g]
  BY <1>0 DEF FEkstreTaksit, FAcikTaksit, MUcret
<1>11. FEkstreOdenen(c, g) = IF FEkstreTaksit(c, g) THEN m ELSE 0
  BY <1>1 DEF FEkstreOdenen, MOdenen
<1>12. fDosya[c].taksit # "AKTIF" => m = 0
  <2> SUFFICES ASSUME fDosya[c].taksit # "AKTIF" PROVE m = 0
    OBVIOUS
  <2>1. M = {}
    BY <1>0, <1>3 DEF MUcret
  <2> QED BY <1>1, <2>1, FS_EmptySet
<1>13. e.odenen = IF c \in FGirilen[g] THEN o.tahsil ELSE 0
  <2>1. e.odenen = FEkstreOdenen(c, g)
    BY <1>7 DEF FEkstre
  <2> QED BY <1>8, <1>10, <1>11, <1>12, <2>1
<1>14. ASSUME c \in FGirilen[g], c \in FGecen[g] <=> c \in FGecen["sunucu"]
       PROVE  /\ c \in FGecikenler.vekalet => e.geciken
              /\ e.geciken => c \in FGecikenler.vekalet \/ \E q \in FOdenenler(c) : fOdeme[q].ay \notin FKadar[g]
  <2>1. e.geciken <=> FEkstreTaksit(c, g) /\ c \in FGecen[g] /\ FUcret > FEkstreOdenen(c, g)
    BY <1>7 DEF FEkstre
  <2>2. e.geciken <=> fDosya[c].taksit = "AKTIF" /\ c \in FGecen["sunucu"] /\ FUcret > m
    BY <1>10, <1>11, <1>14, <2>1
  <2>3. c \in FGecikenler.vekalet <=> fDosya[c].taksit = "AKTIF" /\ c \in FGecen["sunucu"] /\ FUcret > n
    <3>1. c \in FGeciken("sunucu") <=> c \in FAcikTaksit /\ c \in FGecen["sunucu"] /\ FUcret > n
      BY <1>0, <1>1, MGeciken
    <3> QED BY <3>1 DEF FGecikenler, FAcikTaksit
  <2>4. FUcret > n => FUcret > m
    BY <1>2, <1>4
  <2>5. FUcret > m /\ ~(FUcret > n) => m < n
    BY <1>2, <1>4
  <2> QED BY <1>5, <2>2, <2>3, <2>4, <2>5
<1> QED BY <1>7, <1>9, <1>13, <1>14, Zenon DEF FEkstreTutar

\* Summary, package and warnings of a case agree.
MDosyaUyar(c, o, p) ==
  /\ p.ozet.odenen = o.tahsil /\ p.ozet.kalan = o.alacak
  /\ p.durum = "GECIKTI" <=> c \in FGecikenler.vekalet
  /\ fDosya[c].ucret = "AKTIF" => FSilEtki(c) = FOdenenler(c)
  /\ <<"NEGATIF_AVANS", c>> \in FUyarilar <=> o.buro > 0
  /\ <<"KAPALI_DOSYA_AVANS", c>> \in FUyarilar <=> c \in FKapali /\ o.avans > 0
  /\ <<"KAPALI_DOSYA_ALACAK", c>> \in FUyarilar <=> c \in FKapali /\ o.alacak > 0
  /\ <<"VADESI_GECMIS_TAKSIT", c>> \in FUyarilar <=> c \in FGecikenler.vekalet
  /\ c \in FMerkezGeciken => c \in FGeciken("tr")
  /\ c \in FGeciken("tr") \ FMerkezGeciken => \E q \in FDolu(fOdeme) : fOdeme[q].dosya = c /\ ~FAktif(q)

LEMMA MDosyaTutar ==
  ASSUME MaliInv, NEW c \in FDosya, NEW o, o = FDosyaOzet(c, Ay), NEW p, p = FPaket(c)
  PROVE  MDosyaUyar(c, o, p)
<1>0. MaliTypeOK /\ MUcret
  BY DEF MaliInv
<1>1. PICK n : n = Cardinality(FOdenenler(c))
  OBVIOUS
<1>2. n \in Nat /\ FOdenenler(c) \in SUBSET FSatir
  BY <1>1, MSonlu DEF FOdenenler, FDolu
<1>3. FUcret \in Nat
  BY MaliVarsayimi
<1>4. PICK b \in Int : b = MBakiye(c, Ay)
  BY <1>0, MBakiyeTam
<1>5. MOdenen(c, Ay) = FOdenenler(c)
  BY <1>0, MOdenenTum
<1>6. /\ o.tahsil = n /\ o.avans = FKalan(b) /\ o.buro = FBuro(b)
      /\ o.alacak = FKalan((IF fDosya[c].ucret = "AKTIF" THEN FUcret ELSE 0) - n)
  BY <1>1, <1>4, <1>5 DEF FDosyaOzet, MOdenen, MBakiye
<1>8. /\ o.avans = (IF b > 0 THEN b ELSE 0) /\ o.buro = (IF b < 0 THEN -b ELSE 0)
  BY <1>6, MIkisi
<1>10. FKasaBakiye(c) = b
  BY <1>4 DEF FKasaBakiye, MBakiye
<1>11. fDosya[c].ucret \in {"AKTIF", "IPTAL"} /\ fDosya[c].taksit \in {"AKTIF", "IPTAL"}
  BY <1>0 DEF MaliTypeOK
<1>12. n > 0 => fDosya[c].taksit = "AKTIF"
  <2> SUFFICES ASSUME n > 0 PROVE FOdenenler(c) # {}
    BY <1>0 DEF MUcret
  <2>1. Cardinality({}) = 0
    BY FS_EmptySet
  <2> QED BY <1>1, <2>1
<1>13. fDosya[c].taksit = "AKTIF" => fDosya[c].ucret = "AKTIF"
  BY <1>0 DEF MUcret
<1>14. c \in FAcikTaksit <=> fDosya[c].taksit = "AKTIF"
  BY DEF FAcikTaksit
<1>16. (<<"NEGATIF_AVANS", c>> \in FUyarilar <=> o.buro > 0) /\ (<<"KAPALI_DOSYA_AVANS", c>> \in FUyarilar <=> c \in FKapali /\ o.avans > 0)
  <2>1. /\ <<"NEGATIF_AVANS", c>> \in FUyarilar <=> c \in FDosya /\ FKasaBakiye(c) < 0
        /\ <<"KAPALI_DOSYA_AVANS", c>> \in FUyarilar <=> c \in FKapali /\ FKasaBakiye(c) > 0
    BY MUyarilar
  <2>2. (b < 0 <=> o.buro > 0) /\ (b > 0 <=> o.avans > 0)
    BY <1>4, <1>8
  <2> QED BY <1>10, <2>1, <2>2
<1>17. <<"KAPALI_DOSYA_ALACAK", c>> \in FUyarilar <=> c \in FKapali /\ o.alacak > 0
  <2>1. <<"KAPALI_DOSYA_ALACAK", c>> \in FUyarilar <=>
          /\ c \in FKapali /\ fDosya[c].ucret = "AKTIF"
          /\ FUcret > IF c \in FAcikTaksit THEN Cardinality(FOdenenler(c)) ELSE 0
    BY MUyarilar
  <2>2. PICK m \in Int : m = (IF fDosya[c].ucret = "AKTIF" THEN FUcret ELSE 0) - n
    BY <1>2, <1>3
  <2>3. o.alacak > 0 <=> m > 0
    BY <1>6, <2>2, MIkisi
  <2>4. m > 0 <=> fDosya[c].ucret = "AKTIF" /\ FUcret > n
    BY <1>2, <1>3, <2>2
  <2>5. FUcret > (IF c \in FAcikTaksit THEN Cardinality(FOdenenler(c)) ELSE 0) <=> FUcret > n
    BY <1>1, <1>2, <1>12, <1>14
  <2> QED BY <2>1, <2>3, <2>4, <2>5
<1>18. \A g : c \in FGeciken(g) <=> c \in FAcikTaksit /\ c \in FGecen[g] /\ FUcret > n
  BY <1>0, <1>1, MGeciken
<1>19. FGecikenler.vekalet = FGeciken("sunucu")
  BY DEF FGecikenler
<1>20. <<"VADESI_GECMIS_TAKSIT", c>> \in FUyarilar <=> c \in FGeciken("sunucu")
  BY MUyarilar DEF FGeciken
<1>21. PICK T : T = {q \in FDolu(fOdeme) : fOdeme[q].dosya = c}
  OBVIOUS
<1>22. T \in SUBSET FSatir /\ FOdenenler(c) \subseteq T
  BY <1>21 DEF FOdenenler, FDolu
<1>23. Cardinality(T) \in Nat /\ n <= Cardinality(T)
  BY <1>1, <1>22, MSonlu, FS_Subset
<1>24. c \in FMerkezGeciken <=> c \in FAcikTaksit /\ c \in FGecen["tr"] /\ Cardinality(T) < FUcret
  <2>1. PICK m \in Int : m = FUcret - Cardinality(T)
    BY <1>3, <1>23
  <2>2. FMerkezKalan[c] = FKalan(m)
    BY <1>21, <2>1 DEF FMerkezKalan
  <2>3. FMerkezKalan[c] > 0 <=> Cardinality(T) < FUcret
    <3>1. FKalan(m) > 0 <=> m > 0
      BY <2>1, MIkisi
    <3> QED BY <1>3, <1>23, <2>1, <2>2, <3>1
  <2> QED BY <2>3 DEF FMerkezGeciken, FMerkezSatirlari
<1>25. c \in FMerkezGeciken => c \in FGeciken("tr")
  BY <1>2, <1>3, <1>18, <1>23, <1>24
<1>26. c \in FGeciken("tr") \ FMerkezGeciken => \E q \in FDolu(fOdeme) : fOdeme[q].dosya = c /\ ~FAktif(q)
  <2> SUFFICES ASSUME c \in FGeciken("tr") \ FMerkezGeciken, \A q \in FDolu(fOdeme) : fOdeme[q].dosya = c => FAktif(q)
               PROVE  FALSE
    OBVIOUS
  <2>1. T = FOdenenler(c)
    BY <1>21 DEF FOdenenler
  <2>2. Cardinality(T) = n
    BY <1>1, <2>1
  <2> QED BY <1>2, <1>3, <1>18, <1>24, <2>2
<1>27. p.ozet.odenen = n
  <2>1. p.ozet.odenen = IF fDosya[c].ucret = "AKTIF" /\ c \in FAcikTaksit THEN n ELSE 0
    BY <1>1 DEF FPaket, FUcretOzeti
  <2> QED BY <1>2, <1>12, <1>13, <1>14, <2>1
<1>28. p.ozet.kalan = o.alacak
  <2>1. p.ozet.kalan = FKalan((IF fDosya[c].ucret = "AKTIF" THEN FUcret ELSE 0) - p.ozet.odenen)
    BY DEF FPaket, FUcretOzeti
  <2> QED BY <1>6, <1>27, <2>1
<1>29. p.durum = "GECIKTI" <=> c \in FGeciken("sunucu")
  <2>1. p.durum = IF fDosya[c].ucret = "AKTIF" /\ c \in FAcikTaksit THEN FTaksitDurum(c, n) ELSE "YOK"
    BY <1>1 DEF FPaket
  <2>2. FTaksitDurum(c, n) = "GECIKTI" <=> fDosya[c].taksit # "IPTAL" /\ c \in FGecen["sunucu"] /\ FUcret > n
    BY DEF FTaksitDurum
  <2> QED BY <1>11, <1>13, <1>14, <1>18, <2>1, <2>2
<1>30. p.ozet.odenen = o.tahsil
  BY <1>6, <1>27
<1>31. FSilEtki(c) = FOdenenler(c)
  BY <1>0 DEF FSilEtki, MUcret
<1> QED BY <1>28, <1>29, <1>30, <1>31, <1>16, <1>17, <1>19, <1>20, <1>25, <1>26 DEF MDosyaUyar

\* The collection centre shows no more than is late.
LEMMA MMerkez ==
  ASSUME MaliInv
  PROVE  FMerkezOzet.adet <= Cardinality(FGeciken("tr")) /\ FMerkezOzet.toplam <= FTop(FGeciken("tr"), [c \in FDosya |-> FTaksitKalan(c)])
<1>0. MaliTypeOK
  BY DEF MaliInv
<1> DEFINE k == [c \in FDosya |-> FTaksitKalan(c)]
           x == [c \in FDosya |-> FTaksitKalan(c) - FMerkezKalan[c]]
<1>1. ASSUME NEW c \in FDosya
      PROVE  FMerkezKalan[c] \in Nat /\ FTaksitKalan(c) \in Nat /\ FMerkezKalan[c] <= FTaksitKalan(c)
  <2>1. PICK T : T = {q \in FDolu(fOdeme) : fOdeme[q].dosya = c}
    OBVIOUS
  <2>2. T \in SUBSET FSatir /\ FOdenenler(c) \subseteq T
    BY <2>1 DEF FOdenenler, FDolu
  <2>3. PICK n \in Nat, t \in Nat : n = Cardinality(FOdenenler(c)) /\ t = Cardinality(T) /\ n <= t
    BY <2>2, MSonlu, FS_Subset
  <2>4. PICK a \in Int, b \in Int : a = FUcret - n /\ b = FUcret - t /\ b <= a
    BY <2>3, MaliVarsayimi
  <2>5. FTaksitKalan(c) = FKalan(a) /\ FMerkezKalan[c] = FKalan(b)
    BY <2>1, <2>3, <2>4 DEF FTaksitKalan, FMerkezKalan
  <2>6. FKalan(a) = (IF a > 0 THEN a ELSE 0) /\ FKalan(b) = (IF b > 0 THEN b ELSE 0)
    BY MIkisi
  <2> QED BY <2>4, <2>5, <2>6
<1>2. FMerkezGeciken \subseteq FGeciken("tr") /\ FGeciken("tr") \subseteq FDosya
  <2> SUFFICES ASSUME NEW c \in FMerkezGeciken PROVE c \in FGeciken("tr")
    BY DEF FGeciken, FAcikTaksit
  <2>1. c \in FDosya /\ c \in FAcikTaksit /\ c \in FGecen["tr"] /\ FMerkezKalan[c] > 0
    BY DEF FMerkezGeciken, FMerkezSatirlari, FAcikTaksit
  <2>2. FTaksitKalan(c) > 0
    BY <1>1, <2>1
  <2> QED BY <2>1, <2>2 DEF FGeciken
<1>3. IsFiniteSet(FGeciken("tr")) /\ IsFiniteSet(FMerkezGeciken)
  BY <1>2, MSonlu, FS_Subset
<1>4. FMerkezOzet.adet <= Cardinality(FGeciken("tr"))
  BY <1>2, <1>3, FS_Subset DEF FMerkezOzet
<1>5. \A c \in FGeciken("tr") : FMerkezKalan[c] \in Nat /\ x[c] \in Nat /\ k[c] = FMerkezKalan[c] + x[c]
  <2> SUFFICES ASSUME NEW c \in FGeciken("tr") PROVE FMerkezKalan[c] \in Nat /\ x[c] \in Nat /\ k[c] = FMerkezKalan[c] + x[c]
    OBVIOUS
  <2>1. c \in FDosya
    BY <1>2
  <2>2. k[c] = FTaksitKalan(c) /\ x[c] = FTaksitKalan(c) - FMerkezKalan[c]
    BY <2>1
  <2> QED BY <1>1, <2>1, <2>2
<1>6. FMerkezOzet.toplam = Topla(FMerkezKalan, FMerkezGeciken) /\ FTop(FGeciken("tr"), k) = Topla(k, FGeciken("tr"))
  BY DEF FMerkezOzet, FTop, Topla
<1> HIDE DEF k, x
<1>7. Topla(FMerkezKalan, FMerkezGeciken) <= Topla(FMerkezKalan, FGeciken("tr")) /\ Topla(FMerkezKalan, FGeciken("tr")) \in Nat
      /\ Topla(FMerkezKalan, FMerkezGeciken) \in Nat
  BY <1>2, <1>3, <1>5, ToplaArtar
<1>8. Topla(k, FGeciken("tr")) = Topla(FMerkezKalan, FGeciken("tr")) + Topla(x, FGeciken("tr"))
  BY <1>3, <1>5, ToplaToplam
<1>9. Topla(x, FGeciken("tr")) \in Nat
  BY <1>3, <1>5, ToplaArtar
<1>10. FMerkezOzet.toplam <= FTop(FGeciken("tr"), k)
  BY <1>6, <1>7, <1>8, <1>9
<1> QED BY <1>4, <1>10 DEF k

\* The dashboard counts what the warnings name.
LEMMA MPano ==
  ASSUME MaliTypeOK
  PROVE  FPano.geciken = Cardinality(FVadeUyarilari) + Cardinality(FIcraGeciken) /\ FPano.kasaOnay = Cardinality(FOnayUyarilari)
<1>1. PICK g, k : g = FGeciken("sunucu") /\ k = {r \in FDolu(fKasa) : fKasa[r].onay = "ONAYSIZ" /\ ~fKasa[r].silindi}
  OBVIOUS
<1>2. IsFiniteSet(g) /\ IsFiniteSet(k)
  <2>1. g \subseteq FDosya /\ k \in SUBSET FSatir
    BY <1>1 DEF FGeciken, FAcikTaksit, FDolu
  <2> QED BY <2>1, MSonlu, FS_Subset
<1>3. FVadeUyarilari = {<<"VADESI_GECMIS_TAKSIT", c>> : c \in g}
  <2>1. g = {d \in FAcikTaksit \cap FGecen["sunucu"] : FTaksitKalan(d) > 0}
    BY <1>1 DEF FGeciken
  <2> QED BY <2>1 DEF FVadeUyarilari
<1>4. FOnayUyarilari = {<<"ONAY_BEKLEYEN_KASA", r>> : r \in k}
  BY <1>1 DEF FOnayUyarilari
<1>5. FPano.geciken = Cardinality(g) + Cardinality(FIcraGeciken) /\ FPano.kasaOnay = Cardinality(k)
  BY <1>1 DEF FPano, FGecikenler
<1>6. Cardinality(FVadeUyarilari) = Cardinality(g) /\ Cardinality(FOnayUyarilari) = Cardinality(k)
  BY <1>2, <1>3, <1>4, MEtiket
<1> QED BY <1>5, <1>6

\* The cash list of the months A, and what the summary adds up.
LEMMA MKasaListesi ==
  ASSUME MaliTypeOK, NEW c, NEW A \in {{1}, Ay}, A = Ay \/ (\A d \in FDolu(fKasa) : fKasa[d].ay = FKasaEkonomik(d))
  PROVE  {k \in FKasaListe(c, A) : fKasa[k].onay = "ONAYLI"} = {k \in FKasaSatirlari(A) : fKasa[k].dosya = c}
<1>1. \A k \in FDolu(fKasa) : fKasa[k].ay \in Ay
  BY MSatirlari DEF FKasaKaydi
<1>2. \A k \in FDolu(fKasa) : FKasaEkonomik(k) \in Ay
  BY <1>1 DEF FKasaEkonomik
<1>3. \A k \in FDolu(fKasa) : FKasaEkonomik(k) \in A <=> fKasa[k].ay \in A
  BY <1>1, <1>2
<1> QED BY <1>3 DEF FKasaListe, FKasaSatirlari

LEMMA MRaporTutarli == ASSUME MaliTamInv PROVE RaporTutarli
<1>0. MaliInv /\ MaliTypeOK
  BY DEF MaliTamInv, MaliInv
<1>1. FMuvekkilTutar /\ FOfisTutar
  BY MMuvekkilTutar, MOfisTutar
<1>2. \A k \in FDolu(fKasa) : fKasa[k].silindi \/ (k \in FKasaSatirlari(Ay) <=> <<"ONAY_BEKLEYEN_KASA", k>> \notin FUyarilar)
  BY <1>0, MOnayUyarisi
<1>3. ASSUME NEW c \in FDosya PROVE MDosyaUyar(c, FDosyaOzet(c, Ay), FPaket(c))
  <2>1. PICK o, p : o = FDosyaOzet(c, Ay) /\ p = FPaket(c)
    OBVIOUS
  <2>2. MDosyaUyar(c, o, p)
    BY <1>0, <2>1, MDosyaTutar
  <2> QED BY <2>1, <2>2
<1>4. /\ FMerkezOzet.adet <= Cardinality(FGeciken("tr"))
      /\ FMerkezOzet.toplam <= FTop(FGeciken("tr"), [c \in FDosya |-> FTaksitKalan(c)])
  BY <1>0, MMerkez
<1>5. FPano.geciken = Cardinality(FVadeUyarilari) + Cardinality(FIcraGeciken) /\ FPano.kasaOnay = Cardinality(FOnayUyarilari)
  BY <1>0, MPano
<1>6. \A c \in FDosya, A \in {{1}, Ay} :
        A = Ay \/ (\A d \in FDolu(fKasa) : fKasa[d].ay = FKasaEkonomik(d)) =>
          {k \in FKasaListe(c, A) : fKasa[k].onay = "ONAYLI"} = {k \in FKasaSatirlari(A) : fKasa[k].dosya = c}
  BY <1>0, MKasaListesi
<1>7. \A c \in FDosya, g \in FGun : FEkstreTutar(c, g)
  BY <1>0, MEkstreTutar
<1>8. FDosyaTutar
  BY <1>2, <1>3, <1>4, <1>5, <1>6, <1>7, Zenon DEF FDosyaTutar, MDosyaUyar
<1> QED BY <1>1, <1>8 DEF RaporTutarli

(* The tables under each request.                                          *)
LEMMA MKayitlar ==
  /\ \A x \in FOdemeKaydi \cup FOfisKaydi \cup FKasaKaydi : x \notin {Yok, Bitti}
  /\ \A r \in FSatir : r # Yok
<1>1. \A x \in FOdemeKaydi \cup FOfisKaydi \cup FKasaKaydi : x # Bitti
  BY DEF FOdemeKaydi, FOfisKaydi, FKasaKaydi, Bitti
<1> QED BY <1>1, MaliVarsayimi

LEMMA MDolu ==
  ASSUME NEW K, NEW t \in [FSatir -> K \cup {Yok, Bitti}], \A x \in K : x \notin {Yok, Bitti}
  PROVE  FDolu(t) = {r \in FSatir : t[r] \in K}
BY DEF FDolu

LEMMA MDoluYeni ==
  ASSUME NEW X, NEW t \in [FSatir -> X], NEW r \in FSatir, NEW x, x \notin {Yok, Bitti}
  PROVE  /\ FDolu([t EXCEPT ![r] = x]) = FDolu(t) \cup {r}
         /\ [t EXCEPT ![r] = x][r] = x /\ \A q \in FSatir \ {r} : [t EXCEPT ![r] = x][q] = t[q]
BY DEF FDolu

LEMMA MTipAyri ==
  ASSUME MaliTypeOK
  PROVE  /\ fOdeme \in [FSatir -> FOdemeKaydi \cup {Yok, Bitti}] /\ fOfis \in [FSatir -> FOfisKaydi \cup {Yok, Bitti}]
         /\ fKasa \in [FSatir -> FKasaKaydi \cup {Yok, Bitti}]
         /\ fDosya \in [FDosya -> [ucret : {"AKTIF", "IPTAL"}, taksit : {"AKTIF", "IPTAL"}]]
BY DEF MaliTypeOK

LEMMA MBaslangic == MaliInit => MaliTamInv
<1> SUFFICES ASSUME MaliInit PROVE MaliTamInv
  OBVIOUS
<1>1. MaliTypeOK
  BY DEF MaliInit, MaliTypeOK
<1>2. FDolu(fOdeme) = {} /\ FDolu(fOfis) = {}
  BY DEF MaliInit, FDolu
<1>3. \A c \in FDosya : FOdenenler(c) = {} /\ fDosya[c].ucret = "AKTIF"
  BY <1>2 DEF FOdenenler, MaliInit
<1>4. MSinir
  <2>1. Cardinality({}) = 0 /\ FUcret \in Nat
    BY FS_EmptySet, MaliVarsayimi
  <2>2. \A c \in FDosya : Cardinality(FOdenenler(c)) = 0
    BY <1>3, <2>1
  <2> QED BY <2>1, <2>2 DEF MSinir
<1>5. MDuzeltme
  BY <1>2 DEF MDuzeltme
<1>6. MaliInv
  BY <1>1, <1>2, <1>3 DEF MaliInv, MUcret, MBag
<1> QED BY <1>4, <1>5, <1>6 DEF MaliTamInv

\* Rows keep their links and stay deleted; a cancelled payment's row is deleted; new rows have no source.
MKorunur ==
  /\ FDolu(fOdeme') = FDolu(fOdeme) /\ FDolu(fOfis) \subseteq FDolu(fOfis')
  /\ \A o \in FDolu(fOdeme) : /\ fOdeme'[o].dosya = fOdeme[o].dosya /\ fOdeme'[o].gelir = fOdeme[o].gelir
                              /\ fOdeme[o].iptal => fOdeme'[o].iptal
  /\ \A r \in FDolu(fOfis) : /\ fOfis'[r].kim = fOfis[r].kim /\ fOfis'[r].odeme = fOfis[r].odeme
                             /\ fOfis[r].silindi => fOfis'[r].silindi
                             /\ fOfis[r].odeme # Yok /\ fOdeme'[fOfis[r].odeme].iptal => fOfis'[r].silindi
  /\ \A r \in FDolu(fOfis') \ FDolu(fOfis) : fOfis'[r].odeme = Yok

LEMMA MKorunurBag == ASSUME MBag, MKorunur PROVE MBag'
<1>1. ASSUME NEW r \in FDolu(fOfis'), fOfis'[r].kim PROVE fOfis'[r].odeme = Yok
  BY <1>1 DEF MBag, MKorunur
<1>2. ASSUME NEW r \in FDolu(fOfis'), fOfis'[r].odeme # Yok
      PROVE  /\ fOfis'[r].odeme \in FDolu(fOdeme') /\ fOdeme'[fOfis'[r].odeme].gelir = r
             /\ fOdeme'[fOfis'[r].odeme].iptal => fOfis'[r].silindi
  <2>1. r \in FDolu(fOfis) /\ fOfis'[r].odeme = fOfis[r].odeme
    BY <1>2 DEF MKorunur
  <2>2. fOfis[r].odeme \in FDolu(fOdeme) /\ fOdeme[fOfis[r].odeme].gelir = r
    BY <1>2, <2>1 DEF MBag
  <2> QED BY <1>2, <2>1, <2>2 DEF MKorunur
<1>3. ASSUME NEW o \in FDolu(fOdeme'), fOdeme'[o].gelir # Yok
      PROVE  fOdeme'[o].gelir \in FDolu(fOfis') /\ fOfis'[fOdeme'[o].gelir].odeme = o
  <2>1. o \in FDolu(fOdeme) /\ fOdeme'[o].gelir = fOdeme[o].gelir
    BY <1>3 DEF MKorunur
  <2>2. fOdeme[o].gelir \in FDolu(fOfis) /\ fOfis[fOdeme[o].gelir].odeme = o
    BY <1>3, <2>1 DEF MBag
  <2> QED BY <2>1, <2>2 DEF MKorunur
<1> QED BY <1>1, <1>2, <1>3 DEF MBag

LEMMA MKorunurOdenen == ASSUME MBag, MKorunur, NEW c PROVE FOdenenler(c)' \subseteq FOdenenler(c)
<1> SUFFICES ASSUME NEW o \in FDolu(fOdeme'), fOdeme'[o].dosya = c, FAktif(o)' PROVE o \in FOdenenler(c)
  BY DEF FOdenenler
<1>1. o \in FDolu(fOdeme) /\ fOdeme[o].dosya = c /\ fOdeme'[o].gelir = fOdeme[o].gelir /\ ~fOdeme[o].iptal
  BY DEF MKorunur, FAktif
<1>2. CASE fOdeme[o].gelir = Yok
  BY <1>1, <1>2 DEF FOdenenler, FAktif
<1>3. CASE fOdeme[o].gelir # Yok
  <2>1. ~fOfis'[fOdeme[o].gelir].silindi /\ fOdeme[o].gelir \in FDolu(fOfis)
    BY <1>1, <1>3 DEF FAktif, MBag
  <2>2. ~fOfis[fOdeme[o].gelir].silindi
    BY <2>1 DEF MKorunur
  <2> QED BY <1>1, <1>3, <2>2 DEF FOdenenler, FAktif
<1> QED BY <1>2, <1>3

LEMMA MKorunurInv == ASSUME MaliInv, MaliTypeOK', MKorunur, fDosya' = fDosya PROVE MaliInv' /\ MAzalir
<1>1. MBag'
  BY MKorunurBag DEF MaliInv
<1>2. \A c \in FDosya : FOdenenler(c)' \subseteq FOdenenler(c)
  BY MKorunurOdenen DEF MaliInv
<1>3. MUcret'
  <2> SUFFICES ASSUME NEW c \in FDosya
               PROVE  /\ fDosya'[c].taksit = "AKTIF" => fDosya'[c].ucret = "AKTIF"
                      /\ FOdenenler(c)' # {} => fDosya'[c].taksit = "AKTIF"
    BY DEF MUcret
  <2> QED BY <1>2 DEF MaliInv, MUcret
<1> QED BY <1>1, <1>2, <1>3 DEF MaliInv, MAzalir

LEMMA MAyni == ASSUME MaliInv, fOdeme' = fOdeme, fOfis' = fOfis PROVE MKorunur
BY DEF MKorunur, MaliInv, MBag

(* The cash of the cases.                                                  *)
LEMMA MKasaInv ==
  ASSUME MaliInv, MIcraTipi', UNCHANGED <<fDosya, fOdeme, fOfis>>, fKasa' \in [FSatir -> FKasaKaydi \cup {Yok, Bitti}]
  PROVE  MaliInv' /\ MAzalir
<1>1. MaliTypeOK'
  BY DEF MaliInv, MaliTypeOK, MIcraTipi
<1> QED BY <1>1, MAyni, MKorunurInv

LEMMA MKasaAdimi ==
  ASSUME MaliInv, MIcraTipi',
         \/ \E c \in FDosya, ay \in Ay, tur \in {"AVANS_GIRISI", "MASRAF"} : FKasaEkle(c, tur, ay)
         \/ \E r \in FDolu(fKasa) : FKasaOnayla(r) \/ FKasaSil(r) \/ \E ay \in Ay : FKasaDuzelt(r, ay)
  PROVE  MaliInv' /\ MAzalir
<1> DEFINE K == FKasaKaydi \cup {Yok, Bitti}
<1>0. MaliTypeOK /\ fKasa \in [FSatir -> K]
  BY DEF MaliInv, MaliTypeOK
<1>1. UNCHANGED <<fDosya, fOdeme, fOfis>>
  BY DEF FKasaEkle, FKasaOnayla, FKasaSil, FKasaDuzelt
<1>2. \A r \in FDolu(fKasa) : r \in FSatir /\ fKasa[r] \in FKasaKaydi
  BY <1>0, MSatirlari
<1>3. \A r \in FYeni(fKasa) : r \in FSatir
  BY DEF FYeni, Ilk
<1>4. CASE \E c \in FDosya, ay \in Ay, tur \in {"AVANS_GIRISI", "MASRAF"} : FKasaEkle(c, tur, ay)
  <2>1. PICK c \in FDosya, ay \in Ay, tur \in {"AVANS_GIRISI", "MASRAF"} : FKasaEkle(c, tur, ay)
    BY <1>4
  <2>2. PICK r \in FYeni(fKasa) : fKasa' = [fKasa EXCEPT ![r] = KasaKaydi(tur, c, ay, 1, Yok)]
    BY <2>1 DEF FKasaEkle
  <2>3. KasaKaydi(tur, c, ay, 1, Yok) \in FKasaKaydi
    BY DEF KasaKaydi, FKasaKaydi
  <2>4. fKasa' \in [FSatir -> K]
    BY <1>0, <1>3, <2>2, <2>3
  <2> QED BY <1>1, <2>4, MKasaInv
<1>5. CASE \E r \in FDolu(fKasa) : FKasaOnayla(r)
  <2>1. PICK r \in FDolu(fKasa) : FKasaOnayla(r)
    BY <1>5
  <2>2. [fKasa[r] EXCEPT !.onay = "ONAYLI"] \in FKasaKaydi
    BY <1>2 DEF FKasaKaydi
  <2>3. fKasa' = [fKasa EXCEPT ![r] = [fKasa[r] EXCEPT !.onay = "ONAYLI"]]
    BY <2>1 DEF FKasaOnayla
  <2>4. fKasa' \in [FSatir -> K]
    BY <1>0, <1>2, <2>2, <2>3
  <2> QED BY <1>1, <2>4, MKasaInv
<1>6. CASE \E r \in FDolu(fKasa) : FKasaSil(r)
  <2>1. PICK r \in FDolu(fKasa) : FKasaSil(r)
    BY <1>6
  <2>2. ASSUME NEW k \in FDolu(fKasa) PROVE [fKasa[k] EXCEPT !.silindi = TRUE] \in FKasaKaydi
    <3>1. PICK x : x = fKasa[k]
      OBVIOUS
    <3>2. x \in FKasaKaydi
      BY <1>2, <3>1
    <3>3. [x EXCEPT !.silindi = TRUE] \in FKasaKaydi
      BY <3>2 DEF FKasaKaydi
    <3> QED BY <3>1, <3>3
  <2>3. fKasa' \in [FSatir -> K]
    BY <1>0, <2>1, <2>2 DEF FKasaSil
  <2> QED BY <1>1, <2>3, MKasaInv
<1>7. CASE \E r \in FDolu(fKasa), ay \in Ay : FKasaDuzelt(r, ay)
  <2>1. PICK r \in FDolu(fKasa), ay \in Ay : FKasaDuzelt(r, ay)
    BY <1>7
  <2>2. PICK d \in FYeni(fKasa) : fKasa' = [fKasa EXCEPT ![d] = KasaKaydi("DUZELTME", fKasa[r].dosya, ay, -1, r)]
    BY <2>1 DEF FKasaDuzelt
  <2>3. KasaKaydi("DUZELTME", fKasa[r].dosya, ay, -1, r) \in FKasaKaydi
    BY <1>2 DEF KasaKaydi, FKasaKaydi
  <2>4. fKasa' \in [FSatir -> K]
    BY <1>0, <1>3, <2>2, <2>3
  <2> QED BY <1>1, <2>4, MKasaInv
<1> QED BY <1>4, <1>5, <1>6, <1>7

(* The office cash.                                                        *)

\* A new row without a source.
LEMMA MYeniSatir ==
  ASSUME MaliInv, MIcraTipi', UNCHANGED <<fDosya, fOdeme, fKasa>>, NEW r \in FYeni(fOfis), NEW x \in FOfisKaydi, x.odeme = Yok,
         fOfis' = [fOfis EXCEPT ![r] = x]
  PROVE  MaliInv' /\ MAzalir
<1>0. MaliTypeOK /\ MBag /\ fOfis \in [FSatir -> FOfisKaydi \cup {Yok, Bitti}]
  BY DEF MaliInv, MaliTypeOK
<1>1. r \in FSatir /\ fOfis[r] = Yok /\ r \notin FDolu(fOfis)
  BY DEF FYeni, Ilk, FDolu
<1>2. MaliTypeOK'
  BY <1>0, <1>1 DEF MaliTypeOK, MIcraTipi
<1>3. x \notin {Yok, Bitti}
  BY MKayitlar
<1>4. FDolu(fOfis') = FDolu(fOfis) \cup {r} /\ fOfis'[r] = x /\ \A q \in FSatir \ {r} : fOfis'[q] = fOfis[q]
  BY <1>0, <1>1, <1>3 DEF FDolu
<1>5. FDolu(fOfis) \subseteq FSatir
  BY DEF FDolu
<1>6. MKorunur
  BY <1>0, <1>1, <1>4, <1>5 DEF MKorunur, MBag
<1> QED BY <1>2, <1>6, MKorunurInv

LEMMA MOfisAdimi ==
  ASSUME MaliInv, MIcraTipi',
         \/ \E tur \in {"GELIR", "GIDER", "DOVIZ_CIKIS", "DOVIZ_GIRIS"}, kim \in BOOLEAN, ay \in Ay : FOfisEkle(tur, kim, ay)
         \/ \E r \in FDolu(fOfis) : FOfisOnayla(r) \/ \E ay \in Ay : FOfisDuzelt(r, ay)
  PROVE  MaliInv' /\ MAzalir
<1>0. MaliTypeOK /\ MBag /\ fOfis \in [FSatir -> FOfisKaydi \cup {Yok, Bitti}]
  BY DEF MaliInv, MaliTypeOK
<1>1. UNCHANGED <<fDosya, fOdeme, fKasa>>
  BY DEF FOfisEkle, FOfisOnayla, FOfisDuzelt
<1>2. \A r \in FDolu(fOfis) : r \in FSatir /\ fOfis[r] \in FOfisKaydi
  BY <1>0, MSatirlari
<1>3. CASE \E tur \in {"GELIR", "GIDER", "DOVIZ_CIKIS", "DOVIZ_GIRIS"}, kim \in BOOLEAN, ay \in Ay : FOfisEkle(tur, kim, ay)
  <2>1. PICK tur \in {"GELIR", "GIDER", "DOVIZ_CIKIS", "DOVIZ_GIRIS"}, kim \in BOOLEAN, ay \in Ay : FOfisEkle(tur, kim, ay)
    BY <1>3
  <2>2. PICK r \in FYeni(fOfis) : fOfis' = [fOfis EXCEPT ![r] = OfisSatiri(tur, kim, ay, 1, Yok, Yok)]
    BY <2>1 DEF FOfisEkle
  <2>3. OfisSatiri(tur, kim, ay, 1, Yok, Yok) \in FOfisKaydi /\ OfisSatiri(tur, kim, ay, 1, Yok, Yok).odeme = Yok
    BY DEF OfisSatiri, FOfisKaydi
  <2> QED BY <1>1, <2>2, <2>3, MYeniSatir
<1>4. CASE \E r \in FDolu(fOfis), ay \in Ay : FOfisDuzelt(r, ay)
  <2>1. PICK r \in FDolu(fOfis), ay \in Ay : FOfisDuzelt(r, ay)
    BY <1>4
  <2>2. PICK d \in FYeni(fOfis) : fOfis' = [fOfis EXCEPT ![d] = OfisSatiri("DUZELTME", FALSE, ay, -1, r, Yok)]
    BY <2>1 DEF FOfisDuzelt
  <2>3. OfisSatiri("DUZELTME", FALSE, ay, -1, r, Yok) \in FOfisKaydi /\ OfisSatiri("DUZELTME", FALSE, ay, -1, r, Yok).odeme = Yok
    BY <1>2 DEF OfisSatiri, FOfisKaydi
  <2> QED BY <1>1, <2>2, <2>3, MYeniSatir
<1>5. CASE \E r \in FDolu(fOfis) : FOfisOnayla(r)
  <2>1. PICK r \in FDolu(fOfis) : FOfisOnayla(r)
    BY <1>5
  <2>2. PICK x : x = [fOfis[r] EXCEPT !.onay = "ONAYLI"]
    OBVIOUS
  <2>3. x \in FOfisKaydi /\ x.odeme = fOfis[r].odeme /\ x.kim = fOfis[r].kim /\ x.silindi = fOfis[r].silindi
    BY <1>2, <2>2 DEF FOfisKaydi
  <2>4. fOfis' = [fOfis EXCEPT ![r] = x]
    BY <2>1, <2>2 DEF FOfisOnayla
  <2>5. MaliTypeOK'
    BY <1>0, <1>1, <1>2, <2>3, <2>4 DEF MaliTypeOK, MIcraTipi
  <2>6. FDolu(fOfis') = FDolu(fOfis) \cup {r} /\ fOfis'[r] = x /\ \A q \in FSatir \ {r} : fOfis'[q] = fOfis[q]
    BY <1>0, <1>2, <2>3, <2>4, MDoluYeni, MKayitlar
  <2>7. MKorunur
    BY <1>0, <1>1, <1>2, <2>3, <2>6 DEF MKorunur, MBag
  <2> QED BY <1>1, <2>5, <2>7, MKorunurInv
<1> QED BY <1>3, <1>4, <1>5

LEMMA MSilinmis ==
  ASSUME MaliTypeOK, NEW S
  PROVE  /\ FSilinmis(S) \in [FSatir -> FOfisKaydi \cup {Yok, Bitti}] /\ FDolu(FSilinmis(S)) = FDolu(fOfis)
         /\ \A r \in FDolu(fOfis) : /\ FSilinmis(S)[r].kim = fOfis[r].kim /\ FSilinmis(S)[r].odeme = fOfis[r].odeme
                                    /\ fOfis[r].silindi \/ r \in S => FSilinmis(S)[r].silindi
<1> DEFINE B(r) == r \in FDolu(fOfis) /\ (r \in S \/ (fOfis[r].tur = "DUZELTME" /\ fOfis[r].bag \in S))
           N(r) == [fOfis[r] EXCEPT !.silindi = TRUE]
<1>1. fOfis \in [FSatir -> FOfisKaydi \cup {Yok, Bitti}] /\ \A r \in FDolu(fOfis) : r \in FSatir /\ fOfis[r] \in FOfisKaydi
  BY MTipAyri, MSatirlari
<1>2. \A r \in FDolu(fOfis) : N(r) \in FOfisKaydi /\ N(r).kim = fOfis[r].kim /\ N(r).odeme = fOfis[r].odeme /\ N(r).silindi
  BY <1>1 DEF FOfisKaydi
<1>3. \A r \in FSatir : FSilinmis(S)[r] = IF B(r) THEN N(r) ELSE fOfis[r]
  BY DEF FSilinmis
<1>4. \A r \in FSatir : FSilinmis(S)[r] \in FOfisKaydi \cup {Yok, Bitti}
  <2> HIDE DEF N
  <2> QED BY <1>1, <1>2, <1>3
<1>5. FSilinmis(S) \in [FSatir -> FOfisKaydi \cup {Yok, Bitti}]
  BY <1>4 DEF FSilinmis
<1>6. \A r \in FSatir : FSilinmis(S)[r] \in FOfisKaydi <=> fOfis[r] \in FOfisKaydi
  <2> HIDE DEF N
  <2> QED BY <1>1, <1>2, <1>3, MKayitlar DEF FDolu
<1>7. FDolu(FSilinmis(S)) = FDolu(fOfis)
  <2>1. FDolu(FSilinmis(S)) = {r \in FSatir : FSilinmis(S)[r] \in FOfisKaydi}
    BY <1>5, MDolu, MKayitlar
  <2>2. FDolu(fOfis) = {r \in FSatir : fOfis[r] \in FOfisKaydi}
    BY <1>1, MDolu, MKayitlar
  <2> QED BY <1>6, <2>1, <2>2
<1>8. ASSUME NEW r \in FDolu(fOfis)
      PROVE  /\ FSilinmis(S)[r].kim = fOfis[r].kim /\ FSilinmis(S)[r].odeme = fOfis[r].odeme
             /\ fOfis[r].silindi \/ r \in S => FSilinmis(S)[r].silindi
  <2> HIDE DEF N
  <2>1. CASE B(r)
    BY <1>1, <1>2, <1>3, <2>1
  <2>2. CASE ~B(r)
    BY <1>1, <1>3, <2>2
  <2> QED BY <2>1, <2>2
<1> QED BY <1>5, <1>7, <1>8

\* Deleting rows that no payment has.
LEMMA MSilAdimi ==
  ASSUME MaliInv, MIcraTipi', UNCHANGED <<fDosya, fOdeme, fKasa>>, NEW S, fOfis' = FSilinmis(S)
  PROVE  MaliInv' /\ MAzalir
<1>0. MaliTypeOK /\ MBag
  BY DEF MaliInv
<1>1. MaliTypeOK'
  BY <1>0, MTipAyri, MSilinmis DEF MaliTypeOK, MIcraTipi
<1>2. MKorunur
  BY <1>0, MSilinmis DEF MKorunur, MBag
<1> QED BY <1>1, <1>2, MKorunurInv

\* Cancelling payments.
LEMMA MIptalAdimi ==
  ASSUME MaliInv, MIcraTipi', NEW S \in SUBSET FDolu(fOdeme), FIptal(S), fKasa' = fKasa,
         fDosya' \in [FDosya -> [ucret : {"AKTIF", "IPTAL"}, taksit : {"AKTIF", "IPTAL"}]]
  PROVE  MaliTypeOK' /\ MKorunur /\ \A o \in S : fOdeme'[o].iptal
<1>0. MaliTypeOK /\ MBag
  BY DEF MaliInv
<1> DEFINE N(o) == [fOdeme[o] EXCEPT !.iptal = TRUE]
           G == {fOdeme[o].gelir : o \in S}
<1>1. fOdeme \in [FSatir -> FOdemeKaydi \cup {Yok, Bitti}] /\ \A o \in FDolu(fOdeme) : o \in FSatir /\ fOdeme[o] \in FOdemeKaydi
  BY <1>0, MTipAyri, MSatirlari
<1>2. \A o \in FDolu(fOdeme) : N(o) \in FOdemeKaydi /\ N(o).dosya = fOdeme[o].dosya /\ N(o).gelir = fOdeme[o].gelir /\ N(o).iptal
  BY <1>1 DEF FOdemeKaydi
<1>3. fOdeme' = [o \in FSatir |-> IF o \in S THEN N(o) ELSE fOdeme[o]] /\ fOfis' = FSilinmis(G)
  BY DEF FIptal
<1> HIDE DEF N
<1>4. fOdeme' \in [FSatir -> FOdemeKaydi \cup {Yok, Bitti}]
  BY <1>1, <1>2, <1>3
<1>5. FDolu(fOdeme') = FDolu(fOdeme)
  <2>1. FDolu(fOdeme') = {r \in FSatir : fOdeme'[r] \in FOdemeKaydi}
    BY <1>4, MDolu, MKayitlar
  <2>2. FDolu(fOdeme) = {r \in FSatir : fOdeme[r] \in FOdemeKaydi}
    BY <1>1, MDolu, MKayitlar
  <2>3. \A r \in FSatir : fOdeme'[r] \in FOdemeKaydi <=> fOdeme[r] \in FOdemeKaydi
    BY <1>1, <1>2, <1>3
  <2> QED BY <2>1, <2>2, <2>3
<1>6. \A o \in FDolu(fOdeme) : /\ fOdeme'[o].dosya = fOdeme[o].dosya /\ fOdeme'[o].gelir = fOdeme[o].gelir
                               /\ fOdeme'[o].iptal <=> o \in S \/ fOdeme[o].iptal
  <2> SUFFICES ASSUME NEW o \in FDolu(fOdeme)
               PROVE  /\ fOdeme'[o].dosya = fOdeme[o].dosya /\ fOdeme'[o].gelir = fOdeme[o].gelir
                      /\ fOdeme'[o].iptal <=> o \in S \/ fOdeme[o].iptal
    OBVIOUS
  <2>1. CASE o \in S
    BY <1>1, <1>2, <1>3, <2>1
  <2>2. CASE o \notin S
    BY <1>1, <1>3, <2>2
  <2> QED BY <2>1, <2>2
<1>7. /\ fOfis' \in [FSatir -> FOfisKaydi \cup {Yok, Bitti}] /\ FDolu(fOfis') = FDolu(fOfis)
      /\ \A r \in FDolu(fOfis) : /\ fOfis'[r].kim = fOfis[r].kim /\ fOfis'[r].odeme = fOfis[r].odeme
                                 /\ fOfis[r].silindi \/ r \in G => fOfis'[r].silindi
  <2> HIDE DEF G
  <2> QED BY <1>0, <1>3, MSilinmis
<1>8. ASSUME NEW r \in FDolu(fOfis), fOfis[r].odeme # Yok, fOdeme'[fOfis[r].odeme].iptal PROVE fOfis'[r].silindi
  <2>1. PICK o : o = fOfis[r].odeme
    OBVIOUS
  <2>2. o \in FDolu(fOdeme) /\ fOdeme[o].gelir = r /\ (fOdeme[o].iptal => fOfis[r].silindi)
    BY <1>0, <1>8, <2>1 DEF MBag
  <2>3. CASE o \in S
    <3>1. r \in G
      BY <2>2, <2>3
    <3> QED BY <1>7, <3>1
  <2>4. CASE o \notin S
    <3>1. fOfis[r].silindi
      BY <1>6, <1>8, <2>1, <2>2, <2>4
    <3> QED BY <1>7, <3>1
  <2> QED BY <2>3, <2>4
<1>9. MKorunur
  <2> HIDE DEF G
  <2> QED BY <1>5, <1>6, <1>7, <1>8 DEF MKorunur
<1>10. MaliTypeOK'
  <2> HIDE DEF G
  <2> QED BY <1>0, <1>4, <1>7, MTipAyri DEF MaliTypeOK, MIcraTipi
<1> QED BY <1>6, <1>9, <1>10

LEMMA MIptalEdilir ==
  ASSUME MaliInv, MIcraTipi',
         \/ \E o \in FDolu(fOdeme) : FOdemeIptal(o)
         \/ \E r \in FDolu(fOfis) : FOfisGuvenliSil(r)
  PROVE  MaliInv' /\ MAzalir
<1>0. MaliTypeOK /\ MBag
  BY DEF MaliInv
<1>1. fDosya' = fDosya /\ fKasa' = fKasa
  BY DEF FOdemeIptal, FOfisGuvenliSil
<1>2. fDosya' \in [FDosya -> [ucret : {"AKTIF", "IPTAL"}, taksit : {"AKTIF", "IPTAL"}]]
  BY <1>0, <1>1, MTipAyri
<1>3. ASSUME NEW o \in FDolu(fOdeme), FIptal({o}) PROVE MaliInv' /\ MAzalir
  <2>1. MaliTypeOK' /\ MKorunur
    BY <1>1, <1>2, <1>3, MIptalAdimi
  <2> QED BY <1>1, <2>1, MKorunurInv
<1>4. CASE \E o \in FDolu(fOdeme) : FOdemeIptal(o)
  BY <1>3, <1>4 DEF FOdemeIptal
<1>5. CASE \E r \in FDolu(fOfis) : FOfisGuvenliSil(r)
  <2>1. PICK r \in FDolu(fOfis) : FOfisGuvenliSil(r)
    BY <1>5
  <2>2. CASE fOfis[r].odeme = Yok
    <3>1. fOfis' = FSilinmis({r}) /\ fOdeme' = fOdeme
      BY <2>1, <2>2 DEF FOfisGuvenliSil
    <3> QED BY <1>1, <3>1, MSilAdimi
  <2>3. CASE fOfis[r].odeme # Yok
    <3>1. FIptal({fOfis[r].odeme}) /\ fOfis[r].odeme \in FDolu(fOdeme)
      BY <1>0, <2>1, <2>3 DEF FOfisGuvenliSil, MBag
    <3> QED BY <1>3, <3>1
  <2> QED BY <2>2, <2>3
<1> QED BY <1>4, <1>5

LEMMA MUcretIptal == ASSUME MaliInv, MIcraTipi', NEW c \in FDosya, FUcretIptal(c) PROVE MaliInv' /\ MAzalir
<1>0. MaliTypeOK /\ MBag /\ MUcret
  BY DEF MaliInv
<1>1. PICK x : x = [fDosya[c] EXCEPT !.ucret = "IPTAL", !.taksit = "IPTAL"]
  OBVIOUS
<1>2. fDosya[c] \in [ucret : {"AKTIF", "IPTAL"}, taksit : {"AKTIF", "IPTAL"}]
  BY <1>0, MTipAyri
<1>3. x \in [ucret : {"AKTIF", "IPTAL"}, taksit : {"AKTIF", "IPTAL"}] /\ x.taksit = "IPTAL" /\ x.ucret = "IPTAL"
  BY <1>1, <1>2
<1>4. fDosya' = [fDosya EXCEPT ![c] = x]
  BY <1>1, <1>0, MTipAyri DEF FUcretIptal
<1>5. fDosya' \in [FDosya -> [ucret : {"AKTIF", "IPTAL"}, taksit : {"AKTIF", "IPTAL"}]]
  BY <1>0, <1>3, <1>4, MTipAyri
<1>6. FIptal(FOdenenler(c)) /\ fKasa' = fKasa /\ FOdenenler(c) \in SUBSET FDolu(fOdeme)
  BY DEF FUcretIptal, FOdenenler
<1>7. MaliTypeOK' /\ MKorunur /\ \A o \in FOdenenler(c) : fOdeme'[o].iptal
  BY <1>5, <1>6, MIptalAdimi
<1>8. MBag' /\ \A d \in FDosya : FOdenenler(d)' \subseteq FOdenenler(d)
  BY <1>0, <1>7, MKorunurBag, MKorunurOdenen
<1>9. FOdenenler(c)' = {}
  <2>1. \A o \in FOdenenler(c)' : ~fOdeme'[o].iptal
    BY DEF FOdenenler, FAktif
  <2> QED BY <1>7, <1>8, <2>1
<1>10. MUcret'
  <2> SUFFICES ASSUME NEW d \in FDosya
               PROVE  /\ fDosya'[d].taksit = "AKTIF" => fDosya'[d].ucret = "AKTIF"
                      /\ FOdenenler(d)' # {} => fDosya'[d].taksit = "AKTIF"
    BY DEF MUcret
  <2>1. CASE d = c
    BY <1>0, <1>3, <1>4, <1>9, <2>1, MTipAyri
  <2>2. CASE d # c
    <3>1. fDosya'[d] = fDosya[d]
      BY <1>0, <1>4, <2>2, MTipAyri
    <3> QED BY <1>0, <1>8, <3>1 DEF MUcret
  <2> QED BY <2>1, <2>2
<1> QED BY <1>7, <1>8, <1>10 DEF MaliInv, MAzalir

LEMMA MTaksitIptal == ASSUME MaliInv, MIcraTipi', NEW c \in FDosya, FTaksitIptal(c) PROVE MaliInv' /\ MAzalir
<1>0. MaliTypeOK /\ MBag /\ MUcret
  BY DEF MaliInv
<1>1. PICK x : x = [fDosya[c] EXCEPT !.taksit = "IPTAL"]
  OBVIOUS
<1>2. fDosya[c] \in [ucret : {"AKTIF", "IPTAL"}, taksit : {"AKTIF", "IPTAL"}]
  BY <1>0, MTipAyri
<1>3. x \in [ucret : {"AKTIF", "IPTAL"}, taksit : {"AKTIF", "IPTAL"}] /\ x.taksit = "IPTAL"
  BY <1>1, <1>2
<1>4. fDosya' = [fDosya EXCEPT ![c] = x] /\ UNCHANGED <<fOdeme, fOfis, fKasa>> /\ FOdenenler(c) = {}
  BY <1>1 DEF FTaksitIptal
<1>5. MaliTypeOK'
  BY <1>0, <1>3, <1>4 DEF MaliTypeOK, MIcraTipi
<1>6. MKorunur
  BY <1>4, MAyni
<1>7. MBag' /\ \A d \in FDosya : FOdenenler(d)' \subseteq FOdenenler(d)
  BY <1>0, <1>6, MKorunurBag, MKorunurOdenen
<1>8. MUcret'
  <2> SUFFICES ASSUME NEW d \in FDosya
               PROVE  /\ fDosya'[d].taksit = "AKTIF" => fDosya'[d].ucret = "AKTIF"
                      /\ FOdenenler(d)' # {} => fDosya'[d].taksit = "AKTIF"
    BY DEF MUcret
  <2>1. CASE d = c
    BY <1>0, <1>3, <1>4, <1>7, <2>1, MTipAyri
  <2>2. CASE d # c
    <3>1. fDosya'[d] = fDosya[d]
      BY <1>0, <1>4, <2>2, MTipAyri
    <3> QED BY <1>0, <1>7, <3>1 DEF MUcret
  <2> QED BY <2>1, <2>2
<1> QED BY <1>5, <1>7, <1>8 DEF MaliInv, MAzalir

LEMMA MOde == ASSUME MaliInv, MIcraTipi', NEW c \in FDosya, NEW ay \in Ay, FOde(c, ay) PROVE MaliInv'
<1>0. MaliTypeOK /\ MBag /\ MUcret
  BY DEF MaliInv
<1>1. PICK o \in FYeni(fOdeme), g \in FYeni(fOfis) :
        /\ fOdeme' = [fOdeme EXCEPT ![o] = [dosya |-> c, ay |-> ay, iptal |-> FALSE, gelir |-> g]]
        /\ fOfis' = [fOfis EXCEPT ![g] = OfisSatiri("GELIR", FALSE, ay, 1, Yok, o)]
  BY DEF FOde
<1>2. fDosya[c].taksit = "AKTIF" /\ UNCHANGED <<fDosya, fKasa>>
  BY DEF FOde
<1>3. o \in FSatir /\ fOdeme[o] = Yok /\ o \notin FDolu(fOdeme) /\ g \in FSatir /\ fOfis[g] = Yok /\ g \notin FDolu(fOfis)
  BY DEF FYeni, Ilk, FDolu
<1>4. PICK x : x = [dosya |-> c, ay |-> ay, iptal |-> FALSE, gelir |-> g]
  OBVIOUS
<1>5. PICK y : y = OfisSatiri("GELIR", FALSE, ay, 1, Yok, o)
  OBVIOUS
<1>6. x \in FOdemeKaydi /\ x.dosya = c /\ ~x.iptal /\ x.gelir = g
  BY <1>3, <1>4 DEF FOdemeKaydi
<1>7. y \in FOfisKaydi /\ ~y.kim /\ y.odeme = o /\ ~y.silindi
  BY <1>3, <1>5 DEF OfisSatiri, FOfisKaydi
<1>8. x \notin {Yok, Bitti} /\ y \notin {Yok, Bitti} /\ o # Yok /\ g # Yok
  BY <1>3, <1>6, <1>7, MKayitlar
<1>9. FDolu(fOdeme') = FDolu(fOdeme) \cup {o} /\ fOdeme'[o] = x /\ \A q \in FSatir \ {o} : fOdeme'[q] = fOdeme[q]
  <2>1. fOdeme \in [FSatir -> FOdemeKaydi \cup {Yok, Bitti}] /\ fOdeme' = [fOdeme EXCEPT ![o] = x]
    BY <1>0, <1>1, <1>4, MTipAyri
  <2> QED BY <1>3, <1>8, <2>1 DEF FDolu
<1>10. FDolu(fOfis') = FDolu(fOfis) \cup {g} /\ fOfis'[g] = y /\ \A q \in FSatir \ {g} : fOfis'[q] = fOfis[q]
  <2>1. fOfis \in [FSatir -> FOfisKaydi \cup {Yok, Bitti}] /\ fOfis' = [fOfis EXCEPT ![g] = y]
    BY <1>0, <1>1, <1>5, MTipAyri
  <2> QED BY <1>3, <1>8, <2>1 DEF FDolu
<1>11. MaliTypeOK'
  BY <1>0, <1>1, <1>2, <1>3, <1>4, <1>5, <1>6, <1>7 DEF MaliTypeOK, MIcraTipi
<1>12. FDolu(fOdeme) \subseteq FSatir \ {o} /\ FDolu(fOfis) \subseteq FSatir \ {g}
  BY <1>3 DEF FDolu
<1>13. ASSUME NEW r \in FDolu(fOfis')
       PROVE  /\ fOfis'[r].kim => fOfis'[r].odeme = Yok
              /\ fOfis'[r].odeme # Yok =>
                   /\ fOfis'[r].odeme \in FDolu(fOdeme') /\ fOdeme'[fOfis'[r].odeme].gelir = r
                   /\ fOdeme'[fOfis'[r].odeme].iptal => fOfis'[r].silindi
  <2>1. CASE r = g
    BY <1>6, <1>7, <1>9, <1>10, <2>1
  <2>2. CASE r # g
    <3>1. r \in FDolu(fOfis) /\ fOfis'[r] = fOfis[r]
      BY <1>10, <1>12, <2>2
    <3>2. CASE fOfis[r].odeme = Yok
      BY <3>1, <3>2
    <3>3. CASE fOfis[r].odeme # Yok
      <4>1. PICK p : p = fOfis[r].odeme
        OBVIOUS
      <4>2. ~fOfis[r].kim /\ p \in FDolu(fOdeme) /\ fOdeme[p].gelir = r /\ (fOdeme[p].iptal => fOfis[r].silindi)
        BY <1>0, <3>1, <3>3, <4>1 DEF MBag
      <4>3. fOdeme'[p] = fOdeme[p] /\ p \in FDolu(fOdeme')
        BY <1>9, <1>12, <4>2
      <4> QED BY <3>1, <4>1, <4>2, <4>3
    <3> QED BY <3>2, <3>3
  <2> QED BY <2>1, <2>2
<1>14. ASSUME NEW p \in FDolu(fOdeme'), fOdeme'[p].gelir # Yok
       PROVE  fOdeme'[p].gelir \in FDolu(fOfis') /\ fOfis'[fOdeme'[p].gelir].odeme = p
  <2>1. CASE p = o
    BY <1>6, <1>7, <1>9, <1>10, <2>1
  <2>2. CASE p # o
    <3>1. p \in FDolu(fOdeme) /\ fOdeme'[p] = fOdeme[p]
      BY <1>9, <1>12, <2>2
    <3>2. PICK r : r = fOdeme[p].gelir
      OBVIOUS
    <3>3. r \in FDolu(fOfis) /\ fOfis[r].odeme = p
      BY <1>0, <1>14, <3>1, <3>2 DEF MBag
    <3>4. fOfis'[r] = fOfis[r] /\ r \in FDolu(fOfis')
      BY <1>10, <1>12, <3>3
    <3> QED BY <3>1, <3>2, <3>3, <3>4
  <2> QED BY <2>1, <2>2
<1>15. MBag'
  BY <1>13, <1>14 DEF MBag
<1>16. ASSUME NEW d \in FDosya, d # c PROVE FOdenenler(d)' \subseteq FOdenenler(d)
  <2> SUFFICES ASSUME NEW p \in FDolu(fOdeme'), fOdeme'[p].dosya = d, FAktif(p)' PROVE p \in FOdenenler(d)
    BY DEF FOdenenler
  <2>1. p # o
    BY <1>6, <1>9, <1>16
  <2>2. p \in FDolu(fOdeme) /\ fOdeme'[p] = fOdeme[p]
    BY <1>9, <1>12, <2>1
  <2>3. FAktif(p)
    <3>1. CASE fOdeme[p].gelir = Yok
      BY <2>2, <3>1 DEF FAktif
    <3>2. CASE fOdeme[p].gelir # Yok
      <4>1. fOdeme[p].gelir \in FDolu(fOfis)
        BY <1>0, <2>2, <3>2 DEF MBag
      <4>2. fOfis'[fOdeme[p].gelir] = fOfis[fOdeme[p].gelir]
        BY <1>10, <1>12, <4>1
      <4> QED BY <2>2, <3>2, <4>2 DEF FAktif
    <3> QED BY <3>1, <3>2
  <2> QED BY <2>2, <2>3 DEF FOdenenler
<1>17. MUcret'
  <2> SUFFICES ASSUME NEW d \in FDosya
               PROVE  /\ fDosya'[d].taksit = "AKTIF" => fDosya'[d].ucret = "AKTIF"
                      /\ FOdenenler(d)' # {} => fDosya'[d].taksit = "AKTIF"
    BY DEF MUcret
  <2>1. CASE d = c
    BY <1>0, <1>2, <2>1 DEF MUcret
  <2>2. CASE d # c
    BY <1>0, <1>2, <1>16, <2>2 DEF MUcret
  <2> QED BY <2>1, <2>2
<1> QED BY <1>11, <1>15, <1>17 DEF MaliInv

LEMMA MOfisSil == ASSUME MaliInv, MIcraTipi', NEW r \in FDolu(fOfis), FOfisSil(r) PROVE MaliInv' /\ MAzalir
<1>0. MaliTypeOK /\ MBag /\ MUcret
  BY DEF MaliInv
<1> DEFINE N(o) == [fOdeme[o] EXCEPT !.gelir = Yok]
           B(o) == o \in FDolu(fOdeme) /\ fOdeme[o].gelir = r
<1>1. fOdeme \in [FSatir -> FOdemeKaydi \cup {Yok, Bitti}] /\ \A o \in FDolu(fOdeme) : o \in FSatir /\ fOdeme[o] \in FOdemeKaydi
  BY <1>0, MTipAyri, MSatirlari
<1>2. \A o \in FDolu(fOdeme) : N(o) \in FOdemeKaydi /\ N(o).dosya = fOdeme[o].dosya /\ N(o).gelir = Yok /\ N(o).iptal = fOdeme[o].iptal
  BY <1>1 DEF FOdemeKaydi
<1>3. /\ fOdeme' = [o \in FSatir |-> IF B(o) THEN N(o) ELSE fOdeme[o]] /\ fOfis' = [fOfis EXCEPT ![r] = Bitti]
      /\ ~fOfis[r].silindi /\ UNCHANGED <<fDosya, fKasa>>
  BY DEF FOfisSil
<1> HIDE DEF N
<1>4. fOdeme' \in [FSatir -> FOdemeKaydi \cup {Yok, Bitti}]
  BY <1>1, <1>2, <1>3
<1>5. FDolu(fOdeme') = FDolu(fOdeme)
  <2>1. FDolu(fOdeme') = {q \in FSatir : fOdeme'[q] \in FOdemeKaydi}
    BY <1>4, MDolu, MKayitlar
  <2>2. FDolu(fOdeme) = {q \in FSatir : fOdeme[q] \in FOdemeKaydi}
    BY <1>1, MDolu, MKayitlar
  <2>3. \A q \in FSatir : fOdeme'[q] \in FOdemeKaydi <=> fOdeme[q] \in FOdemeKaydi
    BY <1>1, <1>2, <1>3
  <2> QED BY <2>1, <2>2, <2>3
<1>6. \A o \in FDolu(fOdeme) :
        /\ fOdeme'[o].dosya = fOdeme[o].dosya /\ fOdeme'[o].iptal = fOdeme[o].iptal
        /\ fOdeme'[o].gelir = IF fOdeme[o].gelir = r THEN Yok ELSE fOdeme[o].gelir
  <2> SUFFICES ASSUME NEW o \in FDolu(fOdeme)
               PROVE  /\ fOdeme'[o].dosya = fOdeme[o].dosya /\ fOdeme'[o].iptal = fOdeme[o].iptal
                      /\ fOdeme'[o].gelir = IF fOdeme[o].gelir = r THEN Yok ELSE fOdeme[o].gelir
    OBVIOUS
  <2>1. CASE fOdeme[o].gelir = r
    BY <1>1, <1>2, <1>3, <2>1
  <2>2. CASE fOdeme[o].gelir # r
    BY <1>1, <1>3, <2>2
  <2> QED BY <2>1, <2>2
<1>7. FDolu(fOfis') = FDolu(fOfis) \ {r} /\ \A q \in FDolu(fOfis) \ {r} : fOfis'[q] = fOfis[q]
  BY <1>0, <1>3, MTipAyri DEF FDolu
<1>8. MaliTypeOK'
  BY <1>0, <1>3, <1>4, MTipAyri DEF MaliTypeOK, MIcraTipi
<1>9. ASSUME NEW q \in FDolu(fOfis')
      PROVE  /\ fOfis'[q].kim => fOfis'[q].odeme = Yok
             /\ fOfis'[q].odeme # Yok =>
                  /\ fOfis'[q].odeme \in FDolu(fOdeme') /\ fOdeme'[fOfis'[q].odeme].gelir = q
                  /\ fOdeme'[fOfis'[q].odeme].iptal => fOfis'[q].silindi
  <2>1. q \in FDolu(fOfis) /\ q # r /\ fOfis'[q] = fOfis[q]
    BY <1>7
  <2>2. PICK p : p = fOfis[q].odeme
    OBVIOUS
  <2>3. CASE p = Yok
    BY <2>1, <2>2, <2>3
  <2>4. CASE p # Yok
    <3>1. ~fOfis[q].kim /\ p \in FDolu(fOdeme) /\ fOdeme[p].gelir = q /\ (fOdeme[p].iptal => fOfis[q].silindi)
      BY <1>0, <2>1, <2>2, <2>4 DEF MBag
    <3>2. fOdeme'[p].gelir = q /\ fOdeme'[p].iptal = fOdeme[p].iptal
      BY <1>6, <2>1, <3>1
    <3> QED BY <1>5, <2>1, <2>2, <3>1, <3>2
  <2> QED BY <2>3, <2>4
<1>10. ASSUME NEW p \in FDolu(fOdeme'), fOdeme'[p].gelir # Yok
       PROVE  fOdeme'[p].gelir \in FDolu(fOfis') /\ fOfis'[fOdeme'[p].gelir].odeme = p
  <2>1. p \in FDolu(fOdeme) /\ fOdeme[p].gelir # r /\ fOdeme'[p].gelir = fOdeme[p].gelir
    BY <1>5, <1>6, <1>10
  <2>2. fOdeme[p].gelir \in FDolu(fOfis) /\ fOfis[fOdeme[p].gelir].odeme = p
    BY <1>0, <1>10, <2>1 DEF MBag
  <2> QED BY <1>7, <2>1, <2>2
<1>11. MBag'
  BY <1>9, <1>10 DEF MBag
<1>12. ASSUME NEW d \in FDosya PROVE FOdenenler(d)' \subseteq FOdenenler(d)
  <2> SUFFICES ASSUME NEW p \in FDolu(fOdeme'), fOdeme'[p].dosya = d, FAktif(p)' PROVE p \in FOdenenler(d)
    BY DEF FOdenenler
  <2>1. p \in FDolu(fOdeme) /\ fOdeme[p].dosya = d /\ ~fOdeme[p].iptal
    BY <1>5, <1>6 DEF FAktif
  <2>2. CASE fOdeme[p].gelir \in {r, Yok}
    BY <1>3, <2>1, <2>2 DEF FOdenenler, FAktif
  <2>3. CASE fOdeme[p].gelir \notin {r, Yok}
    <3>1. fOdeme'[p].gelir = fOdeme[p].gelir /\ fOdeme[p].gelir \in FDolu(fOfis)
      BY <1>0, <1>6, <2>1, <2>3 DEF MBag
    <3>2. fOfis'[fOdeme[p].gelir] = fOfis[fOdeme[p].gelir]
      BY <1>7, <2>3, <3>1
    <3>3. ~fOfis[fOdeme[p].gelir].silindi
      BY <2>3, <3>1, <3>2 DEF FAktif
    <3> QED BY <2>1, <3>3 DEF FOdenenler, FAktif
  <2> QED BY <2>2, <2>3
<1>13. MUcret'
  <2> SUFFICES ASSUME NEW d \in FDosya
               PROVE  /\ fDosya'[d].taksit = "AKTIF" => fDosya'[d].ucret = "AKTIF"
                      /\ FOdenenler(d)' # {} => fDosya'[d].taksit = "AKTIF"
    BY DEF MUcret
  <2> QED BY <1>0, <1>3, <1>12 DEF MUcret
<1> QED BY <1>8, <1>11, <1>12, <1>13 DEF MaliInv, MAzalir

(* The enforcement instalments.                                            *)
LEMMA MIcraAdimi == ASSUME MaliInv, [MaliNext]_maliVars PROVE MIcraTipi'
<1>0. MIcraTipi
  BY DEF MaliInv, MaliTypeOK, MIcraTipi
<1>1. CASE fIcra' = fIcra
  BY <1>0, <1>1 DEF MIcraTipi
<1>2. CASE \E t \in FIcra : fIcra' = [fIcra EXCEPT ![t] = "odendi"] \/ fIcra' = [fIcra EXCEPT ![t] = "yok"]
  BY <1>0, <1>2 DEF MIcraTipi
<1>3. CASE \E c \in FDosya : FTaksitIptal(c) \/ FUcretIptal(c)
  BY <1>1, <1>3 DEF FTaksitIptal, FUcretIptal
<1>4. CASE \E c \in FDosya, ay \in Ay : FOde(c, ay) \/ \E tur \in {"AVANS_GIRISI", "MASRAF"} : FKasaEkle(c, tur, ay)
  BY <1>1, <1>4 DEF FOde, FKasaEkle
<1>5. CASE \E o \in FDolu(fOdeme) : FOdemeIptal(o)
  BY <1>1, <1>5 DEF FOdemeIptal
<1>6. CASE \E t \in FIcra : FIcraIptal(t) \/ \E ay \in Ay : FIcraOde(t, ay)
  BY <1>2, <1>6 DEF FIcraIptal, FIcraOde
<1>7. CASE \E tur \in {"GELIR", "GIDER", "DOVIZ_CIKIS", "DOVIZ_GIRIS"}, kim \in BOOLEAN, ay \in Ay : FOfisEkle(tur, kim, ay)
  BY <1>1, <1>7 DEF FOfisEkle
<1>8. CASE \E r \in FDolu(fOfis) : FOfisOnayla(r) \/ FOfisSil(r) \/ FOfisGuvenliSil(r) \/ \E ay \in Ay : FOfisDuzelt(r, ay)
  BY <1>1, <1>8 DEF FOfisOnayla, FOfisSil, FOfisGuvenliSil, FOfisDuzelt
<1>9. CASE \E r \in FDolu(fKasa) : FKasaOnayla(r) \/ FKasaSil(r) \/ \E ay \in Ay : FKasaDuzelt(r, ay)
  BY <1>1, <1>9 DEF FKasaOnayla, FKasaSil, FKasaDuzelt
<1>10. CASE UNCHANGED maliVars
  BY <1>1, <1>10 DEF maliVars
<1> QED BY <1>3, <1>4, <1>5, <1>6, <1>7, <1>8, <1>9, <1>10 DEF MaliNext

\* The income row of a payment is like one by hand.
LEMMA MIcraSatiri ==
  ASSUME NEW ay \in Ay, NEW x, x = OfisSatiri("GELIR", FALSE, ay, 1, Yok, Yok)
  PROVE  x \in FOfisKaydi /\ x.odeme = Yok /\ x.tur = "GELIR" /\ x.bag = Yok
BY DEF OfisSatiri, FOfisKaydi

LEMMA MIcra ==
  ASSUME MaliInv, MIcraTipi', \E t \in FIcra : FIcraIptal(t) \/ \E ay \in Ay : FIcraOde(t, ay)
  PROVE  MaliInv' /\ MAzalir
<1>1. UNCHANGED <<fDosya, fOdeme, fKasa>>
  BY DEF FIcraIptal, FIcraOde
<1>2. CASE \E t \in FIcra : FIcraIptal(t)
  <2>1. UNCHANGED <<fDosya, fOdeme, fOfis>> /\ fKasa' \in [FSatir -> FKasaKaydi \cup {Yok, Bitti}]
    BY <1>2, MTipAyri DEF FIcraIptal, MaliInv
  <2> QED BY <2>1, MKasaInv
<1>3. CASE \E t \in FIcra, ay \in Ay : FIcraOde(t, ay)
  <2>1. PICK t \in FIcra, ay \in Ay : FIcraOde(t, ay)
    BY <1>3
  <2>2. PICK r \in FYeni(fOfis) : fOfis' = [fOfis EXCEPT ![r] = OfisSatiri("GELIR", FALSE, ay, 1, Yok, Yok)]
    BY <2>1 DEF FIcraOde
  <2> QED BY <1>1, <2>2, MIcraSatiri, MYeniSatir
<1> QED BY <1>2, <1>3

(* Corrections.                                                            *)

\* Rows keep their kind and what they correct, and stay approved; only a row to
\* be approved is lost, and a new row corrects an approved one or none.
MOfisKorunur ==
  /\ \A r \in FDolu(fOfis) \cap FDolu(fOfis') : /\ fOfis'[r].tur = fOfis[r].tur /\ fOfis'[r].bag = fOfis[r].bag
                                                /\ fOfis[r].onay = "ONAYLI" => fOfis'[r].onay = "ONAYLI"
  /\ \A r \in FDolu(fOfis) \ FDolu(fOfis') : fOfis[r].onay # "ONAYLI"
  /\ \A r \in FDolu(fOfis') \ FDolu(fOfis) :
       /\ fOfis'[r].tur = "DUZELTME" <=> fOfis'[r].bag # Yok
       /\ fOfis'[r].bag # Yok => /\ fOfis'[r].bag \in FDolu(fOfis) /\ fOfis[fOfis'[r].bag].tur # "DUZELTME"
                                 /\ fOfis[fOfis'[r].bag].onay = "ONAYLI"

LEMMA MKorunurDuzeltme == ASSUME MDuzeltme, MOfisKorunur PROVE MDuzeltme'
<1> SUFFICES ASSUME NEW r \in FDolu(fOfis')
             PROVE  /\ fOfis'[r].tur = "DUZELTME" <=> fOfis'[r].bag # Yok
                    /\ fOfis'[r].bag # Yok => /\ fOfis'[r].bag \in FDolu(fOfis') /\ fOfis'[fOfis'[r].bag].tur # "DUZELTME"
                                              /\ fOfis'[fOfis'[r].bag].onay = "ONAYLI"
  BY DEF MDuzeltme
<1>1. PICK q : q = fOfis'[r].bag
  OBVIOUS
<1>2. /\ fOfis'[r].tur = "DUZELTME" <=> q # Yok
      /\ q # Yok => q \in FDolu(fOfis) /\ fOfis[q].tur # "DUZELTME" /\ fOfis[q].onay = "ONAYLI"
  <2>1. CASE r \in FDolu(fOfis)
    <3>1. fOfis'[r].tur = fOfis[r].tur /\ q = fOfis[r].bag
      BY <1>1, <2>1 DEF MOfisKorunur
    <3> QED BY <2>1, <3>1 DEF MDuzeltme
  <2>2. CASE r \notin FDolu(fOfis)
    BY <1>1, <2>2 DEF MOfisKorunur
  <2> QED BY <2>1, <2>2
<1>3. q # Yok => q \in FDolu(fOfis') /\ fOfis'[q].tur = fOfis[q].tur /\ fOfis'[q].onay = "ONAYLI"
  BY <1>2 DEF MOfisKorunur
<1> QED BY <1>1, <1>2, <1>3

LEMMA MOfisAyni == ASSUME fOfis' = fOfis PROVE MOfisKorunur
BY DEF MOfisKorunur

\* A new row.
LEMMA MOfisYeni ==
  ASSUME MaliTypeOK, NEW r \in FYeni(fOfis), NEW x \in FOfisKaydi, fOfis' = [fOfis EXCEPT ![r] = x],
         x.tur = "DUZELTME" <=> x.bag # Yok,
         x.bag # Yok => x.bag \in FDolu(fOfis) /\ fOfis[x.bag].tur # "DUZELTME" /\ fOfis[x.bag].onay = "ONAYLI"
  PROVE  MOfisKorunur
<1>1. r \in FSatir /\ r \notin FDolu(fOfis) /\ x \notin {Yok, Bitti}
  BY MKayitlar DEF FYeni, Ilk, FDolu
<1>2. FDolu(fOfis') = FDolu(fOfis) \cup {r} /\ fOfis'[r] = x /\ \A q \in FSatir \ {r} : fOfis'[q] = fOfis[q]
  BY <1>1, MTipAyri DEF FDolu
<1>3. FDolu(fOfis) \subseteq FSatir \ {r}
  BY <1>1 DEF FDolu
<1> QED BY <1>2, <1>3 DEF MOfisKorunur

LEMMA MOfisSilinmis == ASSUME MaliTypeOK, NEW S, fOfis' = FSilinmis(S) PROVE MOfisKorunur
<1>1. FDolu(fOfis') = FDolu(fOfis)
  BY MSilinmis
<1>2. ASSUME NEW r \in FDolu(fOfis)
      PROVE  fOfis'[r].tur = fOfis[r].tur /\ fOfis'[r].bag = fOfis[r].bag /\ fOfis'[r].onay = fOfis[r].onay
  <2>1. PICK x : x = fOfis[r]
    OBVIOUS
  <2>2. r \in FSatir /\ x \in FOfisKaydi
    BY <2>1, MSatirlari
  <2>3. fOfis'[r] \in {x, [x EXCEPT !.silindi = TRUE]}
    BY <2>1, <2>2 DEF FSilinmis
  <2>4. [x EXCEPT !.silindi = TRUE].tur = x.tur /\ [x EXCEPT !.silindi = TRUE].bag = x.bag /\ [x EXCEPT !.silindi = TRUE].onay = x.onay
    BY <2>2 DEF FOfisKaydi
  <2> QED BY <2>1, <2>3, <2>4
<1> QED BY <1>1, <1>2 DEF MOfisKorunur

LEMMA MDuzeltmeAdimi == ASSUME MaliTamInv, MaliNext PROVE MDuzeltme'
<1>0. MaliTypeOK /\ MDuzeltme
  BY DEF MaliTamInv, MaliInv
<1> SUFFICES MOfisKorunur
  BY <1>0, MKorunurDuzeltme
<1>1. \A r \in FDolu(fOfis) : r \in FSatir /\ fOfis[r] \in FOfisKaydi
  BY <1>0, MSatirlari
<1>2. CASE fOfis' = fOfis
  BY <1>2, MOfisAyni
<1>3. CASE \E S : fOfis' = FSilinmis(S)
  BY <1>0, <1>3, MOfisSilinmis
<1>4. CASE \E c \in FDosya, ay \in Ay : FOde(c, ay)
  <2>1. PICK c \in FDosya, ay \in Ay : FOde(c, ay)
    BY <1>4
  <2>2. PICK o \in FYeni(fOdeme), g \in FYeni(fOfis) : fOfis' = [fOfis EXCEPT ![g] = OfisSatiri("GELIR", FALSE, ay, 1, Yok, o)]
    BY <2>1 DEF FOde
  <2>3. o \in FSatir
    BY DEF FYeni, Ilk
  <2>4. PICK x : x = OfisSatiri("GELIR", FALSE, ay, 1, Yok, o)
    OBVIOUS
  <2>5. x \in FOfisKaydi /\ x.tur = "GELIR" /\ x.bag = Yok
    BY <2>3, <2>4 DEF OfisSatiri, FOfisKaydi
  <2> QED BY <1>0, <2>2, <2>4, <2>5, MOfisYeni
<1>5. CASE \E tur \in {"GELIR", "GIDER", "DOVIZ_CIKIS", "DOVIZ_GIRIS"}, kim \in BOOLEAN, ay \in Ay : FOfisEkle(tur, kim, ay)
  <2>1. PICK tur \in {"GELIR", "GIDER", "DOVIZ_CIKIS", "DOVIZ_GIRIS"}, kim \in BOOLEAN, ay \in Ay : FOfisEkle(tur, kim, ay)
    BY <1>5
  <2>2. PICK r \in FYeni(fOfis) : fOfis' = [fOfis EXCEPT ![r] = OfisSatiri(tur, kim, ay, 1, Yok, Yok)]
    BY <2>1 DEF FOfisEkle
  <2>3. PICK x : x = OfisSatiri(tur, kim, ay, 1, Yok, Yok)
    OBVIOUS
  <2>4. x \in FOfisKaydi /\ x.tur = tur /\ tur # "DUZELTME" /\ x.bag = Yok
    BY <2>3 DEF OfisSatiri, FOfisKaydi
  <2> QED BY <1>0, <2>2, <2>3, <2>4, MOfisYeni
<1>6. CASE \E r \in FDolu(fOfis), ay \in Ay : FOfisDuzelt(r, ay)
  <2>1. PICK r \in FDolu(fOfis), ay \in Ay : FOfisDuzelt(r, ay)
    BY <1>6
  <2>2. PICK d \in FYeni(fOfis) : fOfis' = [fOfis EXCEPT ![d] = OfisSatiri("DUZELTME", FALSE, ay, -1, r, Yok)]
    BY <2>1 DEF FOfisDuzelt
  <2>3. r \in FSatir /\ r # Yok /\ fOfis[r].onay = "ONAYLI" /\ fOfis[r].tur # "DUZELTME"
    BY <1>1, <2>1, MKayitlar DEF FOfisDuzelt
  <2>4. PICK x : x = OfisSatiri("DUZELTME", FALSE, ay, -1, r, Yok)
    OBVIOUS
  <2>5. x \in FOfisKaydi /\ x.tur = "DUZELTME" /\ x.bag = r
    BY <2>3, <2>4 DEF OfisSatiri, FOfisKaydi
  <2> QED BY <1>0, <2>2, <2>3, <2>4, <2>5, MOfisYeni
<1>7. CASE \E r \in FDolu(fOfis) : FOfisOnayla(r)
  <2>1. PICK r \in FDolu(fOfis) : FOfisOnayla(r)
    BY <1>7
  <2>2. PICK x : x = [fOfis[r] EXCEPT !.onay = "ONAYLI"]
    OBVIOUS
  <2>3. x \in FOfisKaydi /\ x.tur = fOfis[r].tur /\ x.bag = fOfis[r].bag /\ x.onay = "ONAYLI"
    BY <1>1, <2>2 DEF FOfisKaydi
  <2>4. fOfis' = [fOfis EXCEPT ![r] = x]
    BY <2>1, <2>2 DEF FOfisOnayla
  <2>5. FDolu(fOfis') = FDolu(fOfis) \cup {r} /\ fOfis'[r] = x /\ \A q \in FSatir \ {r} : fOfis'[q] = fOfis[q]
    BY <1>0, <1>1, <2>3, <2>4, MDoluYeni, MKayitlar, MTipAyri
  <2> QED BY <1>1, <2>3, <2>5 DEF MOfisKorunur
<1>8. CASE \E r \in FDolu(fOfis) : FOfisSil(r)
  <2>1. PICK r \in FDolu(fOfis) : FOfisSil(r)
    BY <1>8
  <2>2. fOfis' = [fOfis EXCEPT ![r] = Bitti] /\ fOfis[r].onay = "ONAYSIZ"
    BY <2>1 DEF FOfisSil
  <2>3. FDolu(fOfis') = FDolu(fOfis) \ {r} /\ \A q \in FDolu(fOfis) \ {r} : fOfis'[q] = fOfis[q]
    BY <1>0, <2>2, MTipAyri DEF FDolu
  <2> QED BY <2>2, <2>3 DEF MOfisKorunur
<1>9. CASE \E c \in FDosya : FTaksitIptal(c) \/ FUcretIptal(c)
  BY <1>2, <1>3, <1>9 DEF FTaksitIptal, FUcretIptal, FIptal
<1>10. CASE \E o \in FDolu(fOdeme) : FOdemeIptal(o)
  BY <1>3, <1>10 DEF FOdemeIptal, FIptal
<1>11. CASE \E r \in FDolu(fOfis) : FOfisGuvenliSil(r)
  BY <1>3, <1>11 DEF FOfisGuvenliSil, FIptal
<1>12. CASE \/ \E c \in FDosya, ay \in Ay, tur \in {"AVANS_GIRISI", "MASRAF"} : FKasaEkle(c, tur, ay)
            \/ \E r \in FDolu(fKasa) : FKasaOnayla(r) \/ FKasaSil(r) \/ \E ay \in Ay : FKasaDuzelt(r, ay)
  BY <1>2, <1>12 DEF FKasaEkle, FKasaOnayla, FKasaSil, FKasaDuzelt
<1>13. CASE \E t \in FIcra : FIcraIptal(t)
  BY <1>2, <1>13 DEF FIcraIptal
<1>14. CASE \E t \in FIcra, ay \in Ay : FIcraOde(t, ay)
  <2>1. PICK t \in FIcra, ay \in Ay : FIcraOde(t, ay)
    BY <1>14
  <2>2. PICK r \in FYeni(fOfis) : fOfis' = [fOfis EXCEPT ![r] = OfisSatiri("GELIR", FALSE, ay, 1, Yok, Yok)]
    BY <2>1 DEF FIcraOde
  <2> QED BY <1>0, <2>2, MIcraSatiri, MOfisYeni
<1> QED BY <1>4, <1>5, <1>6, <1>7, <1>8, <1>9, <1>10, <1>11, <1>12, <1>13, <1>14 DEF MaliNext

(* What is paid.                                                           *)

LEMMA MAzalirSinir == ASSUME MSinir, MAzalir PROVE MSinir'
<1> SUFFICES ASSUME NEW c \in FDosya PROVE Cardinality(FOdenenler(c)') <= FUcret
  BY DEF MSinir
<1>1. PICK S, T : S = FOdenenler(c) /\ T = FOdenenler(c)' /\ T \subseteq S
  BY DEF MAzalir
<1>2. S \in SUBSET FSatir
  BY <1>1 DEF FOdenenler, FDolu
<1>3. IsFiniteSet(S) /\ Cardinality(S) \in Nat
  BY <1>2, MSonlu
<1>4. Cardinality(T) \in Nat /\ Cardinality(T) <= Cardinality(S)
  BY <1>1, <1>3, FS_Subset, FS_CardinalityType
<1>5. Cardinality(S) <= FUcret
  BY <1>1 DEF MSinir
<1> QED BY <1>1, <1>3, <1>4, <1>5, MaliVarsayimi

LEMMA MOdeSinir == ASSUME MaliTamInv, NEW c \in FDosya, NEW ay \in Ay, FOde(c, ay) PROVE MSinir'
<1>0. MaliTypeOK /\ MBag /\ MSinir
  BY DEF MaliTamInv, MaliInv
<1>1. PICK o \in FYeni(fOdeme), g \in FYeni(fOfis) :
        /\ fOdeme' = [fOdeme EXCEPT ![o] = [dosya |-> c, ay |-> ay, iptal |-> FALSE, gelir |-> g]]
        /\ fOfis' = [fOfis EXCEPT ![g] = OfisSatiri("GELIR", FALSE, ay, 1, Yok, o)]
  BY DEF FOde
<1>2. Cardinality(FOdenenler(c)) < FUcret
  BY DEF FOde
<1>3. o \in FSatir /\ o \notin FDolu(fOdeme) /\ g \in FSatir /\ g \notin FDolu(fOfis)
  BY DEF FYeni, Ilk, FDolu
<1>4. \A q \in FSatir : (q # o => fOdeme'[q] = fOdeme[q]) /\ (q # g => fOfis'[q] = fOfis[q])
  BY <1>0, <1>1, <1>3, MTipAyri
<1>5. fOdeme'[o].dosya = c
  BY <1>0, <1>1, <1>3, MTipAyri
<1>6. ASSUME NEW d \in FDosya, NEW p \in FOdenenler(d)' PROVE p \in FOdenenler(d) \/ (p = o /\ d = c)
  <2>1. p \in FSatir /\ p \in FDolu(fOdeme') /\ fOdeme'[p].dosya = d /\ FAktif(p)'
    BY <1>6 DEF FOdenenler, FDolu
  <2>2. CASE p = o
    BY <1>5, <2>1, <2>2
  <2>3. CASE p # o
    <3>1. p \in FDolu(fOdeme) /\ fOdeme'[p] = fOdeme[p]
      BY <1>4, <2>1, <2>3 DEF FDolu
    <3>2. FAktif(p)
      <4>1. CASE fOdeme[p].gelir = Yok
        BY <2>1, <3>1, <4>1 DEF FAktif
      <4>2. CASE fOdeme[p].gelir # Yok
        <5>1. fOdeme[p].gelir \in FDolu(fOfis)
          BY <1>0, <3>1, <4>2 DEF MBag
        <5>2. fOfis'[fOdeme[p].gelir] = fOfis[fOdeme[p].gelir]
          BY <1>3, <1>4, <5>1 DEF FDolu
        <5> QED BY <2>1, <3>1, <4>2, <5>2 DEF FAktif
      <4> QED BY <4>1, <4>2
    <3> QED BY <2>1, <3>1, <3>2 DEF FOdenenler
  <2> QED BY <2>2, <2>3
<1> SUFFICES ASSUME NEW d \in FDosya PROVE Cardinality(FOdenenler(d)') <= FUcret
  BY DEF MSinir
<1>7. PICK S, T : S = FOdenenler(d) /\ T = FOdenenler(d)'
  OBVIOUS
<1>8. S \in SUBSET FSatir
  BY <1>7 DEF FOdenenler, FDolu
<1>9. IsFiniteSet(S) /\ Cardinality(S) \in Nat /\ FUcret \in Nat
  BY <1>8, MSonlu, MaliVarsayimi
<1>10. CASE d = c
  <2>1. T \subseteq S \cup {o}
    BY <1>6, <1>7, <1>10
  <2>2. IsFiniteSet(S \cup {o}) /\ Cardinality(S \cup {o}) <= Cardinality(S) + 1 /\ Cardinality(S \cup {o}) \in Nat
    <3>1. IsFiniteSet(S \cup {o}) /\ Cardinality(S \cup {o}) = IF o \in S THEN Cardinality(S) ELSE Cardinality(S) + 1
      BY <1>9, FS_AddElement, Zenon
    <3> QED BY <1>9, <3>1
  <2>3. Cardinality(T) \in Nat /\ Cardinality(T) <= Cardinality(S \cup {o})
    BY <2>1, <2>2, FS_Subset, FS_CardinalityType
  <2> QED BY <1>2, <1>7, <1>9, <1>10, <2>2, <2>3
<1>11. CASE d # c
  <2>1. T \subseteq S
    BY <1>6, <1>7, <1>11
  <2>2. Cardinality(T) \in Nat /\ Cardinality(T) <= Cardinality(S)
    BY <1>9, <2>1, FS_Subset, FS_CardinalityType
  <2>3. Cardinality(S) <= FUcret
    BY <1>0, <1>7 DEF MSinir
  <2> QED BY <1>7, <1>9, <2>2, <2>3
<1> QED BY <1>10, <1>11

\* A payment and its income row name each other in every reachable state; the
\* row of a cancelled payment is deleted, only an open instalment of an open fee
\* has active payments, never more than the fee, and a correction names a row
\* that was approved (vekalet.service.ts, ofisKasa.service.ts).
THEOREM MaliDegismez == MaliSpec => []MaliTamInv
<1>1. MaliInit => MaliTamInv
  BY MBaslangic
<1>2. MaliTamInv /\ [MaliNext]_maliVars => MaliTamInv'
  <2> SUFFICES ASSUME MaliTamInv, [MaliNext]_maliVars PROVE MaliTamInv'
    OBVIOUS
  <2>0. MaliInv /\ MDuzeltme /\ MSinir /\ MIcraTipi'
    BY MIcraAdimi DEF MaliTamInv
  <2>1. CASE UNCHANGED maliVars
    <3>1. UNCHANGED <<fDosya, fOdeme, fOfis, fKasa>>
      BY <2>1 DEF maliVars
    <3>2. MaliInv' /\ MAzalir
      BY <2>0, <3>1, MKasaInv, MTipAyri DEF MaliInv
    <3>3. MDuzeltme'
      BY <2>0, <3>1, MOfisAyni, MKorunurDuzeltme
    <3> QED BY <2>0, <3>2, <3>3, MAzalirSinir DEF MaliTamInv
  <2>2. CASE \E c \in FDosya, ay \in Ay : FOde(c, ay)
    <3>1. MaliNext
      BY <2>2 DEF MaliNext
    <3> QED BY <2>0, <2>2, <3>1, MOde, MOdeSinir, MDuzeltmeAdimi DEF MaliTamInv
  <2>3. ASSUME MaliNext, ~ \E c \in FDosya, ay \in Ay : FOde(c, ay) PROVE MaliInv' /\ MAzalir
    <3>1. CASE \E c \in FDosya : FTaksitIptal(c) \/ FUcretIptal(c)
      BY <2>0, <3>1, MTaksitIptal, MUcretIptal
    <3>2. CASE \E c \in FDosya, ay \in Ay, tur \in {"AVANS_GIRISI", "MASRAF"} : FKasaEkle(c, tur, ay)
      BY <2>0, <3>2, MKasaAdimi
    <3>3. CASE \E o \in FDolu(fOdeme) : FOdemeIptal(o)
      BY <2>0, <3>3, MIptalEdilir
    <3>4. CASE \E tur \in {"GELIR", "GIDER", "DOVIZ_CIKIS", "DOVIZ_GIRIS"}, kim \in BOOLEAN, ay \in Ay : FOfisEkle(tur, kim, ay)
      BY <2>0, <3>4, MOfisAdimi
    <3>5. CASE \E r \in FDolu(fOfis) : FOfisOnayla(r) \/ \E ay \in Ay : FOfisDuzelt(r, ay)
      BY <2>0, <3>5, MOfisAdimi
    <3>6. CASE \E r \in FDolu(fOfis) : FOfisSil(r)
      BY <2>0, <3>6, MOfisSil
    <3>7. CASE \E r \in FDolu(fOfis) : FOfisGuvenliSil(r)
      BY <2>0, <3>7, MIptalEdilir
    <3>8. CASE \E r \in FDolu(fKasa) : FKasaOnayla(r) \/ FKasaSil(r) \/ \E ay \in Ay : FKasaDuzelt(r, ay)
      BY <2>0, <3>8, MKasaAdimi
    <3>9. CASE \E t \in FIcra : FIcraIptal(t) \/ \E ay \in Ay : FIcraOde(t, ay)
      BY <2>0, <3>9, MIcra
    <3> QED BY <2>3, <3>1, <3>2, <3>3, <3>4, <3>5, <3>6, <3>7, <3>8, <3>9 DEF MaliNext
  <2>4. CASE MaliNext /\ ~ \E c \in FDosya, ay \in Ay : FOde(c, ay)
    BY <2>0, <2>3, <2>4, MAzalirSinir, MDuzeltmeAdimi DEF MaliTamInv
  <2> QED BY <2>1, <2>2, <2>4
<1> QED BY <1>1, <1>2, PTL DEF MaliSpec

\* The tables the reports read keep their types.
THEOREM MaliTipi == MaliSpec => []MaliTypeOK
<1>1. MaliTamInv => MaliTypeOK
  BY DEF MaliTamInv, MaliInv
<1> QED BY <1>1, MaliDegismez, PTL

\* In every reachable state of any office the reports agree with each other:
\* summaries, statement, warnings and cash overviews (dosyaMaliOzet.service.ts,
\* muvekkilEkstre.service.ts, maliKontrol.service.ts, ofisKasa.service.ts).
THEOREM RaporTutarlidir == MaliSpec => []RaporTutarli
<1>1. MaliTamInv => RaporTutarli
  BY MRaporTutarli
<1> QED BY <1>1, MaliDegismez, PTL

-----------------------------------------------------------------------------
(* Incoming messages.  What a request holds of a message is true: it has   *)
(* written the row whose event it writes, and finds no connection only if  *)
(* it looked at all its messages without one.                              *)

EDogru(r) ==
  /\ r.adim \in {"baglanti", "sira"} <=> r.m = Yok
  /\ r.adim = "olay" => r.m \in eSatir
  /\ r.adim # "baglanti" /\ ~r.bagli => r.kalan \subseteq eYolsuz
  /\ r.adim \in {"satir", "olay"} => r.bagli
  /\ r.adim = "yolsuz" => ~r.bagli /\ r.m \in eYolsuz

GelenInv ==
  /\ GelenTypeOK /\ GelenTutarli
  /\ \A t \in ETeslim : eIstek[t] \notin {Bos, Bitti} => EDogru(eIstek[t])

EBosDegil == Bos # Bitti /\ EIstekKaydi \cap {Bos, Bitti} = {}

(* Requests in flight are told from the others by their step.              *)
LEMMA EAyri == EBosDegil
BY DEF EBosDegil, EIstekKaydi, Bos, Bitti

(* The record of a request that is at some step.                           *)
LEMMA EKayitli ==
  ASSUME GelenInv, NEW t \in ETeslim, eIstek[t] \notin {Bos, Bitti}
  PROVE  eIstek[t] \in EIstekKaydi /\ EDogru(eIstek[t])
BY DEF GelenInv, GelenTypeOK

(* A request that moves to k keeps the messages accounted for, when rows,  *)
(* events and histories only grow, and what it drops has an event or is    *)
(* noted.                                                                  *)
LEMMA EIlerletKorur ==
  ASSUME GelenInv, NEW t \in ETeslim, NEW k \in EIstekKaydi \cup {Bos, Bitti}, EGec(t, k),
         k \notin {Bos, Bitti} => EDogru(k)',
         eBagli' \in BOOLEAN, eOlay' \in [EMesaj -> {"YOK", "ALINDI", "NO_ROUTE"}],
         eSatir \subseteq eSatir', eYolsuz \subseteq eYolsuz', eKesik \subseteq eKesik',
         eSatir' \subseteq EMesaj, eYolsuz' \subseteq EMesaj, eKesik' \subseteq EMesaj, eVerilen' \subseteq EMesaj,
         \A m \in EMesaj : eOlay[m] # "YOK" => eOlay'[m] = eOlay[m],
         \A m \in EMesaj : eOlay[m] = "YOK" /\ eOlay'[m] = "ALINDI" => m \in eSatir',
         \A m \in EMesaj : eOlay[m] = "YOK" /\ eOlay'[m] = "NO_ROUTE" => m \in eYolsuz',
         \A m \in EMesaj : EElde(eIstek[t], m) => EElde(k, m) \/ m \in eKesik' \/ eOlay'[m] # "YOK",
         \A m \in eSatir' \ eSatir : EElde(k, m),
         \A m \in eVerilen' \ eVerilen : EElde(k, m)
  PROVE  GelenInv'
<1>1. /\ eIstek' \in [ETeslim -> EIstekKaydi \cup {Bos, Bitti}] /\ eIstek'[t] = k
      /\ \A u \in ETeslim \ {t} : eIstek'[u] = eIstek[u]
  BY DEF GelenInv, GelenTypeOK, EGec
<1>2. GelenTypeOK'
  BY <1>1 DEF GelenTypeOK
<1>3. \A m \in EMesaj : (eOlay'[m] = "ALINDI" => m \in eSatir') /\ (eOlay'[m] = "NO_ROUTE" => m \in eYolsuz')
  BY DEF GelenInv, GelenTutarli
<1>4. \A m \in EMesaj : (\E u \in ETeslim : EElde(eIstek[u], m))
        => (\E u \in ETeslim : EElde(eIstek'[u], m)) \/ m \in eKesik' \/ eOlay'[m] # "YOK"
  <2>1. TAKE m \in EMesaj
  <2>2. SUFFICES ASSUME NEW u \in ETeslim, EElde(eIstek[u], m)
               PROVE (\E v \in ETeslim : EElde(eIstek'[v], m)) \/ m \in eKesik' \/ eOlay'[m] # "YOK"
    OBVIOUS
  <2>3. CASE u = t
    BY <1>1, <2>2, <2>3
  <2>4. CASE u # t
    <3>1. eIstek'[u] = eIstek[u]
      BY <1>1, <2>4
    <3> QED BY <2>2, <3>1
  <2> QED BY <2>3, <2>4
<1>5. \A m \in EMesaj : EElde(k, m) => \E u \in ETeslim : EElde(eIstek'[u], m)
  BY <1>1
<1>6. \A m \in eSatir' : eOlay'[m] # "YOK" \/ m \in eKesik' \/ \E u \in ETeslim : EElde(eIstek'[u], m)
  <2>1. TAKE m \in eSatir'
  <2>2. CASE m \in eSatir
    <3>1. m \in EMesaj /\ (eOlay[m] # "YOK" \/ m \in eKesik \/ \E u \in ETeslim : EElde(eIstek[u], m))
      BY <2>2 DEF GelenInv, GelenTutarli
    <3> QED BY <3>1, <1>4
  <2> QED BY <2>2, <1>5
<1>7. \A m \in eVerilen' : m \in eSatir' \cup eYolsuz' \cup eKesik' \/ \E u \in ETeslim : EElde(eIstek'[u], m)
  <2>1. TAKE m \in eVerilen'
  <2>2. CASE m \in eVerilen
    <3>1. m \in EMesaj /\ (m \in eSatir \cup eYolsuz \cup eKesik \/ \E u \in ETeslim : EElde(eIstek[u], m))
      BY <2>2 DEF GelenInv, GelenTutarli
    <3>2. eOlay'[m] # "YOK" => m \in eSatir' \cup eYolsuz'
      BY <3>1, <1>3
    <3> QED BY <3>1, <3>2, <1>4
  <2> QED BY <2>2, <1>5
<1>8. GelenTutarli'
  BY <1>3, <1>6, <1>7 DEF GelenTutarli, EElde
<1>9. \A u \in ETeslim : eIstek'[u] \notin {Bos, Bitti} => EDogru(eIstek[u])'
  <2>1. SUFFICES ASSUME NEW u \in ETeslim, eIstek'[u] \notin {Bos, Bitti} PROVE EDogru(eIstek[u])'
    OBVIOUS
  <2>2. CASE u = t
    BY <1>1, <2>1, <2>2 DEF EDogru
  <2>3. CASE u # t
    <3>1. eIstek'[u] = eIstek[u] /\ EDogru(eIstek[u])
      BY <1>1, <2>1, <2>3, EKayitli
    <3> QED BY <3>1 DEF EDogru
  <2> QED BY <2>2, <2>3
<1> QED BY <1>2, <1>8, <1>9 DEF GelenInv

(* Every step of a request.                                                *)
LEMMA EAdimKorur ==
  ASSUME GelenInv, NEW t \in ETeslim, GelenAdimi(t)
  PROVE  GelenInv'
<1> DEFINE r == eIstek[t]
<1> USE EAyri DEF EBosDegil
<1>0. /\ eBagli \in BOOLEAN /\ eOlay \in [EMesaj -> {"YOK", "ALINDI", "NO_ROUTE"}] /\ Yok \notin EMesaj
      /\ eSatir \subseteq EMesaj /\ eYolsuz \subseteq EMesaj /\ eKesik \subseteq EMesaj /\ eVerilen \subseteq EMesaj
      /\ \A m \in EMesaj : (eOlay[m] = "ALINDI" => m \in eSatir) /\ (eOlay[m] = "NO_ROUTE" => m \in eYolsuz)
  BY GelenVarsayimi DEF GelenInv, GelenTypeOK, GelenTutarli
<1>1. ASSUME NEW K \in SUBSET EMesaj, EGelir(t, K) PROVE GelenInv'
  <2>0. PICK k : k = [adim |-> "baglanti", kalan |-> K, m |-> Yok, bagli |-> FALSE]
    OBVIOUS
  <2>1. /\ eIstek[t] = Bos /\ EGec(t, k) /\ eVerilen' = eVerilen \cup K
        /\ UNCHANGED <<eBagli, eSatir, eOlay, eYolsuz, eKesik>>
    BY <2>0, <1>1 DEF EGelir
  <2>2. k \in EIstekKaydi /\ EDogru(k)' /\ \A m \in K : EElde(k, m)
    BY <2>0 DEF EIstekKaydi, EDogru, EElde
  <2>3. \A m \in EMesaj : ~EElde(eIstek[t], m)
    BY <2>1 DEF EElde
  <2> QED BY <1>0, <2>1, <2>2, <2>3, EIlerletKorur
<1>2. ASSUME eIstek[t] \notin {Bos, Bitti},
             NEW k \in EIstekKaydi, EGec(t, k), EDogru(k)', k.kalan \cup {k.m} \subseteq EMesaj \cup {Yok},
             eBagli' = eBagli, eVerilen' = eVerilen,
             eSatir \subseteq eSatir', eYolsuz \subseteq eYolsuz', eKesik \subseteq eKesik',
             eSatir' \subseteq EMesaj, eYolsuz' \subseteq EMesaj, eKesik' \subseteq EMesaj,
             eOlay' = eOlay,
             \A m \in EMesaj : m \in r.kalan \/ m = r.m => m \in k.kalan \/ m = k.m \/ m \in eKesik' \/ eOlay[m] # "YOK",
             \A m \in eSatir' \ eSatir : m = k.m
      PROVE GelenInv'
  <2>1. \A m \in EMesaj : EElde(eIstek[t], m) => EElde(k, m) \/ m \in eKesik' \/ eOlay'[m] # "YOK"
    BY <1>2 DEF EElde
  <2>2. \A m \in eSatir' \ eSatir : EElde(k, m)
    BY <1>2 DEF EElde
  <2> QED BY <1>0, <1>2, <2>1, <2>2, EIlerletKorur
<1>3. ASSUME EBagliOku(t) PROVE GelenInv'
  <2>1. r \in EIstekKaydi /\ EDogru(r) /\ r.adim = "baglanti" /\ r \notin {Bos, Bitti}
    BY <1>3, EKayitli DEF EBagliOku, Bos, Bitti
  <2>0. PICK k : k = [r EXCEPT !.adim = "sira", !.bagli = eBagli]
    OBVIOUS
  <2>2. k \in EIstekKaydi /\ k.kalan = r.kalan /\ k.m = r.m /\ k.adim = "sira" /\ k.bagli = eBagli
        /\ r.kalan \subseteq EMesaj /\ r.m = Yok
    BY <2>0, <2>1, <1>0 DEF EIstekKaydi, EDogru
  <2>3. /\ EGec(t, k) /\ eYolsuz' = IF eBagli THEN eYolsuz ELSE eYolsuz \cup r.kalan
        /\ UNCHANGED <<eBagli, eSatir, eOlay, eKesik, eVerilen>>
    BY <2>0, <1>3 DEF EBagliOku
  <2> HIDE DEF r
  <2>4. EDogru(k)'
    BY <2>2, <2>3 DEF EDogru
  <2> QED BY <1>0, <1>2, <2>1, <2>2, <2>3, <2>4 DEF r
<1>4. ASSUME NEW m \in EMesaj, EOku(t, m) PROVE GelenInv'
  <2>1. r \in EIstekKaydi /\ EDogru(r) /\ r.adim = "sira" /\ r \notin {Bos, Bitti}
    BY <1>4, EKayitli DEF EOku, Bos, Bitti
  <2>0. PICK k : k = [r EXCEPT !.kalan = r.kalan \ {m}, !.m = IF EOlayVar(m) THEN Yok ELSE m,
                            !.adim = IF EOlayVar(m) THEN "sira" ELSE IF r.bagli THEN "satir" ELSE "yolsuz"]
    OBVIOUS
  <2>2. /\ k \in EIstekKaydi /\ k.kalan = r.kalan \ {m} /\ k.bagli = r.bagli
        /\ k.m = (IF EOlayVar(m) THEN Yok ELSE m)
        /\ k.adim = (IF EOlayVar(m) THEN "sira" ELSE IF r.bagli THEN "satir" ELSE "yolsuz")
        /\ r.kalan \subseteq EMesaj /\ r.m = Yok
    BY <2>0, <2>1, <1>0 DEF EIstekKaydi, EDogru
  <2>3. m \in r.kalan /\ EGec(t, k) /\ UNCHANGED <<eBagli, eSatir, eOlay, eYolsuz, eKesik, eVerilen>>
    BY <2>0, <1>4 DEF EOku
  <2> HIDE DEF r
  <2>4. EDogru(k)'
    BY <2>1, <2>2, <2>3, <1>0 DEF EDogru
  <2>5. \A n \in EMesaj : n \in r.kalan \/ n = r.m => n \in k.kalan \/ n = k.m \/ eOlay[n] # "YOK"
    BY <2>2, <1>0 DEF EOlayVar
  <2> QED BY <1>0, <1>2, <2>1, <2>2, <2>3, <2>4, <2>5 DEF r
<1>5. ASSUME r.adim \in {"satir", "olay", "yolsuz"}
      PROVE /\ r \in EIstekKaydi /\ EDogru(r) /\ r \notin {Bos, Bitti} /\ r.m \in EMesaj /\ r.kalan \subseteq EMesaj
            /\ [r EXCEPT !.adim = "sira", !.m = Yok] \in EIstekKaydi
            /\ [r EXCEPT !.adim = "sira", !.m = Yok].adim = "sira" /\ [r EXCEPT !.adim = "sira", !.m = Yok].m = Yok
            /\ [r EXCEPT !.adim = "sira", !.m = Yok].kalan = r.kalan /\ [r EXCEPT !.adim = "sira", !.m = Yok].bagli = r.bagli
  <2>1. r \in EIstekKaydi /\ EDogru(r) /\ r \notin {Bos, Bitti}
    BY <1>5, EKayitli DEF Bos, Bitti
  <2> QED BY <1>5, <2>1 DEF EIstekKaydi, EDogru
<1>6. ASSUME EYolsuzYaz(t) PROVE GelenInv'
  <2>1. r.adim = "yolsuz"
    BY <1>6 DEF EYolsuzYaz
  <2>2. CASE EOlayVar(r.m)
    <3>1. EGec(t, Bitti) /\ eKesik' = eKesik \cup r.kalan /\ UNCHANGED <<eOlay, eBagli, eSatir, eYolsuz, eVerilen>>
      BY <1>6, <2>2 DEF EYolsuzYaz
    <3>2. \A m \in EMesaj : EElde(eIstek[t], m) => m \in eKesik' \/ eOlay[m] # "YOK"
      BY <2>2, <3>1 DEF EElde, EOlayVar
    <3> HIDE DEF r
    <3> QED BY <1>0, <1>5, <2>1, <3>1, <3>2, EIlerletKorur
  <2>3. CASE ~EOlayVar(r.m)
    <3>0. PICK k : k = [r EXCEPT !.adim = "sira", !.m = Yok]
      OBVIOUS
    <3>1. /\ EGec(t, k) /\ eOlay' = [eOlay EXCEPT ![r.m] = "NO_ROUTE"]
          /\ UNCHANGED <<eKesik, eBagli, eSatir, eYolsuz, eVerilen>>
      BY <3>0, <1>6, <2>3 DEF EYolsuzYaz, ESonraki
    <3>2. k \in EIstekKaydi /\ k.adim = "sira" /\ k.m = Yok /\ k.kalan = r.kalan /\ k.bagli = r.bagli
          /\ r.m \in EMesaj /\ r.m \in eYolsuz /\ ~r.bagli /\ r.kalan \subseteq eYolsuz
      BY <3>0, <1>5, <2>1 DEF EDogru
    <3>3. EDogru(k)'
      BY <3>1, <3>2 DEF EDogru
    <3>4. /\ eOlay' \in [EMesaj -> {"YOK", "ALINDI", "NO_ROUTE"}] /\ eOlay'[r.m] = "NO_ROUTE" /\ eOlay[r.m] = "YOK"
          /\ \A m \in EMesaj \ {r.m} : eOlay'[m] = eOlay[m]
      BY <1>0, <2>3, <3>1, <3>2 DEF EOlayVar
    <3>5. \A m \in EMesaj : EElde(eIstek[t], m) => EElde(k, m) \/ eOlay'[m] # "YOK"
      BY <3>2, <3>4 DEF EElde
    <3> HIDE DEF r
    <3> QED BY <1>0, <3>1, <3>2, <3>3, <3>4, <3>5, EIlerletKorur
  <2> QED BY <2>2, <2>3
<1>7. ASSUME ESatirYaz(t) PROVE GelenInv'
  <2>1. r.adim = "satir"
    BY <1>7 DEF ESatirYaz
  <2>0. PICK k : k = [r EXCEPT !.adim = "olay"]
    OBVIOUS
  <2>2. EGec(t, k) /\ eSatir' = eSatir \cup {r.m} /\ UNCHANGED <<eBagli, eOlay, eYolsuz, eKesik, eVerilen>>
    BY <2>0, <1>7 DEF ESatirYaz
  <2>3. k \in EIstekKaydi /\ k.adim = "olay" /\ k.bagli /\ k.m = r.m /\ k.kalan = r.kalan
    BY <2>0, <1>5, <2>1 DEF EIstekKaydi, EDogru
  <2>4. r.m \in EMesaj /\ r.kalan \subseteq EMesaj /\ r \notin {Bos, Bitti}
    BY <1>5, <2>1
  <2>5. EDogru(k)'
    BY <2>2, <2>3, <2>4, <1>0 DEF EDogru
  <2> HIDE DEF r
  <2> QED BY <1>0, <1>2, <2>2, <2>3, <2>4, <2>5 DEF r
<1>8. ASSUME EOlayYaz(t) PROVE GelenInv'
  <2>1. r.adim = "olay"
    BY <1>8 DEF EOlayYaz
  <2>0. PICK k : k = [r EXCEPT !.adim = "sira", !.m = Yok]
    OBVIOUS
  <2>2. /\ EGec(t, k) /\ eOlay' = (IF EOlayVar(r.m) THEN eOlay ELSE [eOlay EXCEPT ![r.m] = "ALINDI"])
        /\ UNCHANGED <<eBagli, eSatir, eYolsuz, eKesik, eVerilen>>
    BY <2>0, <1>8 DEF EOlayYaz, ESonraki
  <2>3. /\ k \in EIstekKaydi /\ k.adim = "sira" /\ k.m = Yok /\ k.kalan = r.kalan /\ k.bagli = r.bagli
        /\ r.m \in EMesaj /\ r.m \in eSatir
    BY <2>0, <1>5, <2>1 DEF EDogru
  <2>4. EDogru(r) /\ (~r.bagli => r.kalan \subseteq eYolsuz)
    BY <1>5, <2>1 DEF EDogru
  <2>5. EDogru(k)'
    BY <2>2, <2>3, <2>4 DEF EDogru
  <2>6. /\ eOlay' \in [EMesaj -> {"YOK", "ALINDI", "NO_ROUTE"}] /\ eOlay'[r.m] # "YOK"
        /\ \A m \in EMesaj \ {r.m} : eOlay'[m] = eOlay[m]
        /\ eOlay[r.m] # "YOK" => eOlay'[r.m] = eOlay[r.m]
        /\ eOlay[r.m] = "YOK" => eOlay'[r.m] = "ALINDI"
    BY <1>0, <2>2, <2>3 DEF EOlayVar
  <2>7. \A m \in EMesaj : EElde(eIstek[t], m) => EElde(k, m) \/ eOlay'[m] # "YOK"
    BY <2>3, <2>6 DEF EElde
  <2> HIDE DEF r
  <2> QED BY <1>0, <2>2, <2>3, <2>5, <2>6, <2>7, EIlerletKorur
<1>9. ASSUME EHata(t) PROVE GelenInv'
  <2>1. r.adim \in {"satir", "olay"}
    BY <1>9 DEF EHata
  <2>0. PICK k : k = [r EXCEPT !.adim = "sira", !.m = Yok]
    OBVIOUS
  <2>2. EGec(t, k) /\ eKesik' = eKesik \cup {r.m} /\ UNCHANGED <<eBagli, eSatir, eOlay, eYolsuz, eVerilen>>
    BY <2>0, <1>9 DEF EHata, ESonraki
  <2>3. k \in EIstekKaydi /\ k.adim = "sira" /\ k.m = Yok /\ k.kalan = r.kalan /\ k.bagli = r.bagli
        /\ r.m \in EMesaj /\ r \notin {Bos, Bitti} /\ r.kalan \subseteq EMesaj
    BY <2>0, <1>5, <2>1
  <2>4. ~r.bagli => r.kalan \subseteq eYolsuz
    BY <1>5, <2>1 DEF EDogru
  <2>5. EDogru(k)'
    BY <2>2, <2>3, <2>4 DEF EDogru
  <2> HIDE DEF r
  <2> QED BY <1>0, <1>2, <2>2, <2>3, <2>5 DEF r
<1>10. ASSUME EBiter(t) PROVE GelenInv'
  <2>1. eIstek[t].adim = "sira" /\ eIstek[t].kalan = {} /\ EGec(t, Bitti)
        /\ UNCHANGED <<eBagli, eSatir, eOlay, eYolsuz, eKesik, eVerilen>>
    BY <1>10 DEF EBiter
  <2>2. eIstek[t].m = Yok
    BY <2>1, EKayitli DEF EDogru, Bos, Bitti
  <2>3. \A m \in EMesaj : ~EElde(eIstek[t], m)
    BY <1>0, <2>1, <2>2 DEF EElde
  <2> QED BY <1>0, <2>1, <2>3, EIlerletKorur
<1>11. ASSUME EDuser(t) PROVE GelenInv'
  <2>1. eIstek[t] \notin {Bos, Bitti} /\ EGec(t, Bitti) /\ eKesik' = eKesik \cup r.kalan \cup ({r.m} \ {Yok})
        /\ UNCHANGED <<eBagli, eSatir, eOlay, eYolsuz, eVerilen>>
    BY <1>11 DEF EDuser
  <2>2. r.kalan \subseteq EMesaj /\ r.m \in EMesaj \cup {Yok}
    BY <2>1, EKayitli DEF EIstekKaydi
  <2>3. \A m \in EMesaj : EElde(eIstek[t], m) => m \in eKesik'
    BY <1>0, <2>1 DEF EElde
  <2> HIDE DEF r
  <2> QED BY <1>0, <2>1, <2>2, <2>3, EIlerletKorur
<1> QED BY <1>1, <1>3, <1>4, <1>6, <1>7, <1>8, <1>9, <1>10, <1>11 DEF GelenAdimi

(* The inductive invariant of incoming messages always holds.              *)
THEOREM GelenDegismez == GelenSpec => []GelenInv
<1>1. GelenInit => GelenInv
  <2>1. SUFFICES ASSUME GelenInit PROVE GelenInv
    OBVIOUS
  <2>2. \A t \in ETeslim : eIstek[t] = Bos
    BY <2>1 DEF GelenInit
  <2>3. GelenTypeOK /\ GelenTutarli
    BY <2>1 DEF GelenInit, GelenTypeOK, GelenTutarli
  <2> QED BY <2>2, <2>3 DEF GelenInv
<1>2. GelenInv /\ [GelenNext]_gelenVars => GelenInv'
  <2>1. ASSUME GelenInv, UNCHANGED <<eSatir, eOlay, eIstek, eYolsuz, eKesik, eVerilen>>, eBagli' \in BOOLEAN PROVE GelenInv'
    <3>1. GelenTypeOK' /\ GelenTutarli'
      BY <2>1 DEF GelenInv, GelenTypeOK, GelenTutarli
    <3>2. \A t \in ETeslim : eIstek'[t] \notin {Bos, Bitti} => EDogru(eIstek[t])'
      BY <2>1 DEF GelenInv, EDogru
    <3> QED BY <3>1, <3>2 DEF GelenInv
  <2>2. ASSUME GelenInv, EBaglan PROVE GelenInv'
    BY <2>1, <2>2 DEF EBaglan, GelenInv, GelenTypeOK
  <2>3. ASSUME GelenInv, UNCHANGED gelenVars PROVE GelenInv'
    BY <2>1, <2>3 DEF gelenVars, GelenInv, GelenTypeOK
  <2> QED BY <2>2, <2>3, EAdimKorur DEF GelenNext
<1> QED BY <1>1, <1>2, PTL DEF GelenSpec

(* Every message of a delivery that was answered is kept, was looked at    *)
(* without a connection, or was cut off, and rows and events agree, for    *)
(* any number of deliveries and messages (webhook.processor.ts:275, :282,  *)
(* :303, webhook.routes.ts:114).                                           *)
THEOREM GelenTutarlidir == GelenSpec => []GelenTutarli
<1>1. GelenInv => GelenTutarli
  BY DEF GelenInv
<1> QED BY <1>1, GelenDegismez, PTL

(* The incoming messages keep their types.                                 *)
THEOREM GelenTipi == GelenSpec => []GelenTypeOK
<1>1. GelenInv => GelenTypeOK
  BY DEF GelenInv
<1> QED BY <1>1, GelenDegismez, PTL

-----------------------------------------------------------------------------
(* The parts of an office, looked at one at a time: a behaviour of the     *)
(* composition is one of every part, which the others leave alone.         *)

(* What is shown of the parts holds of what the run checks.                *)
THEOREM OfisParcalari == OfisSpec => Spec /\ MaliSpec /\ KurSpec /\ GelenSpec
<1>1. OfisInit => Init /\ MaliInit /\ KurInit /\ GelenInit
  BY DEF OfisInit
<1>2. [OfisNext]_<<parca, vars, maliVars, kurVars, gelenVars>>
        => [Next]_vars /\ [MaliNext]_maliVars /\ [KurNext]_kurVars /\ [GelenNext]_gelenVars
  BY DEF OfisNext, Kalan
<1> QED BY <1>1, <1>2, PTL DEF OfisSpec, Spec, MaliSpec, KurSpec, GelenSpec

(* Whichever part is looked at, its rows and requests keep their types.    *)
THEOREM OfisTipi == OfisSpec => []OfisTypeOK
<1>1. TypeOK /\ MaliTypeOK /\ KurTypeOK /\ GelenTypeOK => OfisTypeOK
  BY DEF OfisTypeOK
<1> QED BY <1>1, OfisParcalari, TalepTipi, MaliTipi, KurTipi, GelenTipi, PTL
=============================================================================
