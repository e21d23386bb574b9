------------------------ MODULE VekaletTaksitProofs ------------------------
(***************************************************************************)
(* What holds of the payments and their income rows for any number of      *)
(* instalments, payments and overlapping requests.  The argument is one    *)
(* inductive invariant: what each pending request has read still means     *)
(* what it meant, or the history names the payment it no longer fits.      *)
(***************************************************************************)
EXTENDS VekaletTaksit, WhatsAppMesajKrediProofs

OdemeliAdim == {"guncelle", "iptal", "esle", "gelirSil"}

\* A recorded payment has its instalment, and an income row its payment.
OdemeBagli ==
  \A o \in Odeme : /\ odeme[o].durum # "YOK" => odeme[o].taksit \in Taksit
                   /\ gelir[o].durum # "YOK" => odeme[o].durum # "YOK"

\* A pending request on a payment names a recorded one; an edit that found no
\* income row finds none later either.
IstekBagli ==
  \A a \in Istek : istek[a].adim \in OdemeliAdim =>
    /\ odeme[istek[a].odeme].durum # "YOK"
    /\ istek[a].adim = "guncelle" /\ ~istek[a].bagli =>
         gelir[istek[a].odeme].durum = "SILINDI"

\* A soft-deleted income row belongs to a cancelled payment.
KapaliGelir ==
  \A o \in Odeme : gelir[o].durum = "IPTAL" => odeme[o].durum = "IPTAL"

\* The payments a fee cancellation has not read are the later ones, and those
\* it has read were in the analysis.
SilinecekTam ==
  \A a \in Istek : istek[a].adim = "ucretSil" =>
    /\ \A o \in Odeme : Aktif(o) => o \in istek[a].silinecek \cup gecmis.sonradan
    /\ \A o \in istek[a].silinecek :
         odeme[o].durum # "YOK" /\ \E g \in istek[a].goren : g[1] = o

\* An income approved under a pending edit or deletion is in the history.
YarisTam ==
  \A a \in Istek : istek[a].adim \in {"guncelle", "gelirSil"} =>
    LET o == istek[a].odeme IN
    gelir[o].durum = "CANLI" /\ gelir[o].onayli => o \in gecmis.yaris

TipInv == TypeOK /\ OdemeBagli /\ IstekBagli

GelirInv == TipInv /\ KapaliGelir /\ GelirinOdemesiVar

VekaletInv ==
  /\ GelirInv
  /\ SilinecekTam
  /\ IptalUcretteOdemeSonradan
  /\ YarisTam

-----------------------------------------------------------------------------
(* The fields of a request, by its step.                                   *)
LEMMA IstekAlanlari ==
  ASSUME TypeOK, NEW a \in Istek
  PROVE  /\ istek[a].adim = "dagitti" =>
              istek[a].kilit \in SUBSET Taksit /\ istek[a].plan \in [Taksit -> Nat]
         /\ istek[a].adim = "kilitli" => istek[a].kilit \in SUBSET Taksit
         /\ istek[a].adim \in OdemeliAdim => istek[a].odeme \in Odeme
         /\ istek[a].adim = "guncelle" =>
              istek[a].bagli \in BOOLEAN /\ istek[a].tutar \in Nat
         /\ istek[a].adim \in {"iptal", "esle"} =>
              istek[a].durum \in TaksitDurum \cup {Yok}
         /\ istek[a].adim = "duzenle" =>
              /\ istek[a].taksit \in Taksit /\ istek[a].tutar \in Nat \cup {Yok}
              /\ istek[a].durum \in TaksitDurum \cup {Yok}
         /\ istek[a].adim = "taksitSil" => istek[a].taksit \in Taksit
         /\ istek[a].adim \in {"analiz", "ucretSil"} =>
              istek[a].goren \in SUBSET (Odeme \X Nat)
         /\ istek[a].adim = "ucretSil" => istek[a].silinecek \in SUBSET Odeme
<1>1. istek[a] \in IstekKaydi
  BY DEF TypeOK
<1> QED BY <1>1 DEF IstekKaydi, OdemeliAdim, Bos, Bitti

(* Ending a request changes no type.                                       *)
LEMMA BitirTipi ==
  ASSUME TypeOK, NEW a \in Istek, Bitir(a)
  PROVE  istek' \in [Istek -> IstekKaydi]
BY DEF TypeOK, Bitir, IstekKaydi

(* What a synchronisation writes is an instalment.                         *)
LEMMA EsleTipi ==
  ASSUME TypeOK, NEW t \in Taksit, NEW n
  PROVE  Esle(t, n) \in [durum : TaksitDurum, tutar : Nat]
<1>1. taksit[t] \in [durum : TaksitDurum, tutar : Nat]
  BY DEF TypeOK
<1>2. EsDurum(taksit[t].tutar, n) \in TaksitDurum
  BY DEF EsDurum, TaksitDurum
<1> QED BY <1>1, <1>2 DEF Esle

LEMMA EsleOkuTipi ==
  ASSUME NEW t, NEW S
  PROVE  EsleOku(t, S) \in TaksitDurum \cup {Yok}
BY DEF EsleOku, EsDurum, TaksitDurum

(* Recording the payments of a plan: which payments are new, and what they *)
(* and their income rows are.                                              *)
LEMMA OdemeEkleEtkisi ==
  ASSUME TipInv, NEW plan \in [Taksit -> Nat], NEW T \in SUBSET Taksit,
         OdemeEkle(plan, T)
  PROVE  /\ taksit' \in [Taksit -> [durum : TaksitDurum, tutar : Nat]]
         /\ odeme' \in [Odeme -> OdemeKaydi]
         /\ gelir' \in [Odeme -> GelirKaydi]
         /\ gecmis' \in [cakisan : SUBSET Taksit, sonradan : SUBSET Odeme,
                         yaris : SUBSET Odeme]
         /\ gecmis'.yaris = gecmis.yaris
         /\ gecmis.sonradan \subseteq gecmis'.sonradan
         /\ \A o \in Odeme :
              \/ odeme'[o] = odeme[o] /\ gelir'[o] = gelir[o]
              \/ /\ odeme[o].durum = "YOK"
                 /\ odeme'[o].durum = "GECERLI" /\ odeme'[o].taksit \in Taksit
                 /\ gelir'[o].durum = "CANLI" /\ ~gelir'[o].onayli
                 /\ gelir'[o].tutar = odeme'[o].tutar
                 /\ UcretSiliniyor => o \in gecmis'.sonradan
<1>1. PICK S \in SUBSET {o \in Odeme : odeme[o].durum = "YOK"} :
        \E g \in Bijection(S, Payi(plan)) :
          /\ odeme' = [o \in Odeme |->
               IF o \in S THEN [durum |-> "GECERLI", taksit |-> g[o],
                                tutar |-> plan[g[o]], smm |-> FALSE]
               ELSE odeme[o]]
          /\ gelir' = [o \in Odeme |->
               IF o \in S
               THEN [durum |-> "CANLI", tutar |-> plan[g[o]], onayli |-> FALSE]
               ELSE gelir[o]]
          /\ taksit' = [t \in Taksit |->
               IF t \in Payi(plan) THEN Esle(t, Odenen(t, {}) + plan[t]) ELSE taksit[t]]
          /\ gecmis' = [gecmis EXCEPT
               !.cakisan = @ \cup T \cup Duzenlenen(Payi(plan)),
               !.sonradan = @ \cup (IF UcretSiliniyor THEN S ELSE {})]
  BY DEF OdemeEkle
<1>2. PICK g \in Bijection(S, Payi(plan)) :
          /\ odeme' = [o \in Odeme |->
               IF o \in S THEN [durum |-> "GECERLI", taksit |-> g[o],
                                tutar |-> plan[g[o]], smm |-> FALSE]
               ELSE odeme[o]]
          /\ gelir' = [o \in Odeme |->
               IF o \in S
               THEN [durum |-> "CANLI", tutar |-> plan[g[o]], onayli |-> FALSE]
               ELSE gelir[o]]
  BY <1>1
<1>3. g \in [S -> Taksit]
  BY DEF Bijection, Injection, Payi
<1>4. taksit' \in [Taksit -> [durum : TaksitDurum, tutar : Nat]]
  <2>1. \A t \in Taksit : Esle(t, Odenen(t, {}) + plan[t]) \in [durum : TaksitDurum, tutar : Nat]
    BY EsleTipi DEF TipInv
  <2> QED BY <1>1, <2>1 DEF TipInv, TypeOK
<1>5. odeme' \in [Odeme -> OdemeKaydi] /\ gelir' \in [Odeme -> GelirKaydi]
  <2>1. \A o \in S : g[o] \in Taksit /\ plan[g[o]] \in Nat
    BY <1>3
  <2> QED BY <1>2, <2>1 DEF TipInv, TypeOK, OdemeKaydi, GelirKaydi
<1>6. /\ gecmis' \in [cakisan : SUBSET Taksit, sonradan : SUBSET Odeme,
                      yaris : SUBSET Odeme]
      /\ gecmis'.yaris = gecmis.yaris
      /\ gecmis.sonradan \subseteq gecmis'.sonradan
      /\ UcretSiliniyor => S \subseteq gecmis'.sonradan
  <2>1. Duzenlenen(Payi(plan)) \subseteq Taksit
    BY DEF Duzenlenen, Payi
  <2>2. gecmis \in [cakisan : SUBSET Taksit, sonradan : SUBSET Odeme, yaris : SUBSET Odeme]
    BY DEF TipInv, TypeOK
  <2>3. S \subseteq Odeme
    OBVIOUS
  <2>4. PICK D \in SUBSET Odeme :
          D = (IF UcretSiliniyor THEN S ELSE {})
    BY <2>3
  <2>5. gecmis' = [gecmis EXCEPT !.cakisan = @ \cup T \cup Duzenlenen(Payi(plan)),
                                 !.sonradan = @ \cup D]
    BY <1>1, <2>4
  <2>6. UcretSiliniyor => S \subseteq D
    BY <2>4
  <2> QED BY <2>1, <2>2, <2>5, <2>6
<1>7. ASSUME NEW o \in Odeme
      PROVE  \/ odeme'[o] = odeme[o] /\ gelir'[o] = gelir[o]
             \/ /\ odeme[o].durum = "YOK"
                /\ odeme'[o].durum = "GECERLI" /\ odeme'[o].taksit \in Taksit
                /\ gelir'[o].durum = "CANLI" /\ ~gelir'[o].onayli
                /\ gelir'[o].tutar = odeme'[o].tutar
                /\ UcretSiliniyor => o \in gecmis'.sonradan
  <2>1. CASE o \in S
    BY <1>2, <1>3, <1>6, <2>1
  <2>2. CASE o \notin S
    BY <1>2, <2>2
  <2> QED BY <2>1, <2>2
<1> QED BY <1>4, <1>5, <1>6, <1>7

-----------------------------------------------------------------------------
(* A request that only takes its next step keeps the invariant when what   *)
(* it has read is true now.                                                *)
LEMMA IstekIlerler ==
  ASSUME VekaletInv, NEW a \in Istek, NEW r \in IstekKaydi,
         istek' = [istek EXCEPT ![a] = r],
         UNCHANGED <<ucret, taksit, odeme, gelir, gecmis>>,
         r.adim \in OdemeliAdim =>
           /\ odeme[r.odeme].durum # "YOK"
           /\ r.adim = "guncelle" /\ ~r.bagli => gelir[r.odeme].durum = "SILINDI",
         r.adim = "ucretSil" =>
           /\ \A o \in Odeme : Aktif(o) => o \in r.silinecek
           /\ \A o \in r.silinecek :
                odeme[o].durum # "YOK" /\ \E g \in r.goren : g[1] = o,
         r.adim \in {"guncelle", "gelirSil"} /\ gelir[r.odeme].durum = "CANLI" =>
           ~gelir[r.odeme].onayli
  PROVE  VekaletInv'
<1>1. /\ istek' \in [Istek -> IstekKaydi]
      /\ \A b \in Istek : istek'[b] = IF b = a THEN r ELSE istek[b]
  BY DEF VekaletInv, GelirInv, TipInv, TypeOK
<1>2. TypeOK' /\ OdemeBagli' /\ KapaliGelir' /\ GelirinOdemesiVar'
  BY <1>1 DEF VekaletInv, GelirInv, TipInv, TypeOK, OdemeBagli, KapaliGelir, GelirinOdemesiVar
<1>3. IstekBagli'
  BY <1>1 DEF VekaletInv, GelirInv, TipInv, IstekBagli
<1>4. SilinecekTam'
  BY <1>1 DEF VekaletInv, SilinecekTam, Aktif
<1>5. IptalUcretteOdemeSonradan'
  BY DEF VekaletInv, IptalUcretteOdemeSonradan, Aktif
<1>6. YarisTam'
  BY <1>1 DEF VekaletInv, YarisTam
<1> QED BY <1>2, <1>3, <1>4, <1>5, <1>6 DEF VekaletInv, GelirInv, TipInv

(* What a write must respect, payment by payment.                          *)
Uyumlu(o) ==
  /\ odeme[o].durum # "YOK" => odeme'[o].durum # "YOK"
  /\ gelir[o].durum = "SILINDI" => gelir'[o].durum = "SILINDI"
  /\ odeme'[o].durum # "YOK" => odeme'[o].taksit \in Taksit
  /\ gelir'[o].durum # "YOK" => odeme'[o].durum # "YOK"
  /\ gelir'[o].durum = "IPTAL" => odeme'[o].durum = "IPTAL"
  /\ gelir'[o].durum = "CANLI" =>
       odeme'[o].durum = "GECERLI" /\ odeme'[o].tutar = gelir'[o].tutar
  /\ odeme'[o].durum = "GECERLI" /\ gelir'[o].durum # "IPTAL" =>
       Aktif(o) \/ (UcretSiliniyor => o \in gecmis'.sonradan)
  /\ gelir'[o].durum = "CANLI" /\ gelir'[o].onayli =>
       \/ gelir[o].durum = "CANLI" /\ gelir[o].onayli
       \/ o \in gecmis'.yaris
       \/ ~Suren({"guncelle", "gelirSil"}, o)

LEMMA YazimKorur ==
  ASSUME VekaletInv, TypeOK', ucret' = ucret,
         \A a \in Istek :
           \/ istek'[a] = istek[a] \/ istek'[a] = Bitti
           \/ /\ istek'[a].adim = "esle" /\ istek'[a].odeme \in Odeme
              /\ odeme'[istek'[a].odeme].durum # "YOK",
         \A o \in Odeme : Uyumlu(o),
         gecmis.sonradan \subseteq gecmis'.sonradan,
         gecmis.yaris \subseteq gecmis'.yaris
  PROVE  VekaletInv'
<1>1. OdemeBagli' /\ KapaliGelir' /\ GelirinOdemesiVar'
  BY DEF Uyumlu, OdemeBagli, KapaliGelir, GelirinOdemesiVar
<1>2. ASSUME NEW a \in Istek, istek'[a].adim \notin {"bitti", "esle"}
      PROVE  istek'[a] = istek[a]
  BY <1>2 DEF Bitti
<1>3. IstekBagli'
  <2> SUFFICES ASSUME NEW a \in Istek, istek'[a].adim \in OdemeliAdim
               PROVE  /\ odeme'[istek'[a].odeme].durum # "YOK"
                      /\ istek'[a].adim = "guncelle" /\ ~istek'[a].bagli =>
                           gelir'[istek'[a].odeme].durum = "SILINDI"
    BY DEF IstekBagli
  <2>1. CASE istek'[a] = istek[a]
    <3>1. istek[a].odeme \in Odeme
      BY <2>1, IstekAlanlari DEF VekaletInv, GelirInv, TipInv
    <3>2. Uyumlu(istek[a].odeme)
      BY <3>1
    <3> QED BY <2>1, <3>2 DEF VekaletInv, GelirInv, TipInv, IstekBagli, Uyumlu
  <2>2. CASE istek'[a] # istek[a]
    BY <2>2 DEF OdemeliAdim, Bitti
  <2> QED BY <2>1, <2>2
<1>4. SilinecekTam'
  <2>1. ASSUME NEW a \in Istek, istek'[a].adim = "ucretSil"
        PROVE  istek'[a] = istek[a] /\ UcretSiliniyor
    BY <1>2, <2>1 DEF UcretSiliniyor
  <2>2. ASSUME NEW a \in Istek, istek'[a].adim = "ucretSil"
        PROVE  istek[a].silinecek \in SUBSET Odeme
    BY <2>1, <2>2, IstekAlanlari DEF VekaletInv, GelirInv, TipInv
  <2> QED BY <2>1, <2>2 DEF VekaletInv, SilinecekTam, Uyumlu, Aktif
<1>5. IptalUcretteOdemeSonradan'
  <2>1. ucret = "IPTAL" => UcretSiliniyor
    BY DEF UcretSiliniyor
  <2> QED BY <2>1 DEF VekaletInv, IptalUcretteOdemeSonradan, Uyumlu, Aktif
<1>6. YarisTam'
  <2>1. ASSUME NEW a \in Istek, istek'[a].adim \in {"guncelle", "gelirSil"}
        PROVE  /\ istek'[a] = istek[a] /\ istek[a].odeme \in Odeme
               /\ Uyumlu(istek[a].odeme)
               /\ Suren({"guncelle", "gelirSil"}, istek[a].odeme)
    <3>1. istek'[a] = istek[a]
      BY <1>2, <2>1
    <3>2. istek[a].odeme \in Odeme
      BY <3>1, <2>1, IstekAlanlari DEF VekaletInv, GelirInv, TipInv, OdemeliAdim
    <3>3. Suren({"guncelle", "gelirSil"}, istek[a].odeme)
      BY <2>1, <3>1 DEF Suren
    <3> QED BY <3>1, <3>2, <3>3
  <2> QED BY <2>1 DEF VekaletInv, YarisTam, Uyumlu
<1> QED BY <1>1, <1>3, <1>4, <1>5, <1>6 DEF VekaletInv, GelirInv, TipInv

(* A payment a write leaves alone is in order.                             *)
LEMMA DegismeyenUyumlu ==
  ASSUME VekaletInv, NEW o \in Odeme, odeme'[o] = odeme[o], gelir'[o] = gelir[o]
  PROVE  Uyumlu(o)
BY DEF Uyumlu, VekaletInv, GelirInv, TipInv, OdemeBagli, KapaliGelir, GelirinOdemesiVar, Aktif

(* Ending a request leaves the others where they were.                     *)
LEMMA BitirEtkisi ==
  ASSUME TypeOK, NEW a \in Istek, Bitir(a)
  PROVE  \A b \in Istek : istek'[b] = istek[b] \/ istek'[b] = Bitti
BY DEF TypeOK, Bitir

-----------------------------------------------------------------------------
(* The actions.                                                            *)

LEMMA OdemeEkleKorur ==
  ASSUME VekaletInv, NEW plan \in [Taksit -> Nat], NEW T \in SUBSET Taksit,
         OdemeEkle(plan, T), ucret' = ucret, istek' \in [Istek -> IstekKaydi],
         \A a \in Istek : istek'[a] = istek[a] \/ istek'[a] = Bitti
  PROVE  VekaletInv'
<1>1. TypeOK'
  BY OdemeEkleEtkisi DEF VekaletInv, GelirInv, TypeOK, TipInv
<1>2. ASSUME NEW o \in Odeme PROVE Uyumlu(o)
  <2>1. CASE odeme'[o] = odeme[o] /\ gelir'[o] = gelir[o]
    BY <2>1, DegismeyenUyumlu
  <2>2. CASE ~(odeme'[o] = odeme[o] /\ gelir'[o] = gelir[o])
    <3>1. /\ odeme[o].durum = "YOK"
          /\ odeme'[o].durum = "GECERLI" /\ odeme'[o].taksit \in Taksit
          /\ gelir'[o].durum = "CANLI" /\ ~gelir'[o].onayli
          /\ gelir'[o].tutar = odeme'[o].tutar
          /\ UcretSiliniyor => o \in gecmis'.sonradan
      BY <2>2, OdemeEkleEtkisi DEF VekaletInv, GelirInv
    <3>2. gelir[o].durum # "SILINDI"
      BY <3>1 DEF VekaletInv, GelirInv, TipInv, OdemeBagli
    <3> QED BY <3>1, <3>2 DEF Uyumlu
  <2> QED BY <2>1, <2>2
<1>3. gecmis.sonradan \subseteq gecmis'.sonradan /\ gecmis'.yaris = gecmis.yaris
  BY OdemeEkleEtkisi DEF VekaletInv, GelirInv
<1> QED BY <1>1, <1>2, <1>3, YazimKorur

LEMMA TekOdeKorur ==
  ASSUME VekaletInv, TekOdeAdim
  PROVE  VekaletInv'
<1>1. PICK t \in Taksit, n \in 1..MaxTutar : TekOde(t, n)
  BY DEF TekOdeAdim
<1>2. [u \in Taksit |-> IF u = t THEN n ELSE 0] \in [Taksit -> Nat]
  BY TutarAssumption
<1> QED BY <1>1, <1>2, OdemeEkleKorur DEF TekOde, VekaletInv, GelirInv, TipInv, TypeOK

LEMMA PesinKorur ==
  ASSUME VekaletInv, NEW a \in Istek,
         PesinBasla(a) \/ PesinKilitle(a) \/ PesinOkuAdim(a) \/ PesinYaz(a)
  PROVE  VekaletInv'
<1>1. CASE PesinBasla(a)
  <2>1. [adim |-> "pesin"] \in IstekKaydi
    BY DEF IstekKaydi
  <2> QED BY <1>1, <2>1, IstekIlerler DEF PesinBasla, Basla, OdemeliAdim
<1>2. CASE PesinKilitle(a)
  <2> DEFINE r == [adim |-> "kilitli", kilit |-> {t \in Taksit : Acik(t)}]
  <2>1. r \in IstekKaydi
    BY DEF IstekKaydi
  <2>2. istek' = [istek EXCEPT ![a] = r] /\ UNCHANGED <<ucret, taksit, odeme, gelir, gecmis>>
    BY <1>2 DEF PesinKilitle
  <2> QED BY <2>1, <2>2, IstekIlerler DEF OdemeliAdim
<1>3. CASE PesinOkuAdim(a)
  <2>1. PICK plan \in [Taksit -> 0..MaxTutar] : PesinOku(a, plan)
    BY <1>3 DEF PesinOkuAdim
  <2> DEFINE r == [adim |-> "dagitti", kilit |-> istek[a].kilit, plan |-> plan]
  <2>2. plan \in [Taksit -> Nat]
    BY TutarAssumption
  <2>3. istek[a].kilit \in SUBSET Taksit
    BY <2>1, IstekAlanlari DEF PesinOku, VekaletInv, GelirInv, TipInv
  <2>4. r \in IstekKaydi
    BY <2>2, <2>3 DEF IstekKaydi
  <2>5. istek' = [istek EXCEPT ![a] = r] /\ UNCHANGED <<ucret, taksit, odeme, gelir, gecmis>>
    BY <2>1 DEF PesinOku
  <2> QED BY <2>4, <2>5, IstekIlerler DEF OdemeliAdim
<1>4. CASE PesinYaz(a)
  <2>1. TypeOK
    BY DEF VekaletInv, GelirInv, TipInv
  <2>2. istek[a].plan \in [Taksit -> Nat] /\ istek[a].kilit \in SUBSET Taksit
    BY <1>4, <2>1, IstekAlanlari DEF PesinYaz
  <2>3. Payi(istek[a].plan) \ istek[a].kilit \in SUBSET Taksit
    BY DEF Payi
  <2>4. /\ istek' \in [Istek -> IstekKaydi]
        /\ \A b \in Istek : istek'[b] = istek[b] \/ istek'[b] = Bitti
    BY <1>4, <2>1, BitirTipi, BitirEtkisi DEF PesinYaz
  <2> QED BY <1>4, <2>2, <2>3, <2>4, OdemeEkleKorur DEF PesinYaz
<1> QED BY <1>1, <1>2, <1>3, <1>4

LEMMA GuncelleKorur ==
  ASSUME VekaletInv, NEW a \in Istek,
         (\E o \in Odeme : GuncelleOku(a, o)) \/ GuncelleYazAdim(a)
  PROVE  VekaletInv'
<1>1. ASSUME NEW o \in Odeme, GuncelleOku(a, o)
      PROVE  VekaletInv'
  <2> DEFINE r == [adim |-> "guncelle", odeme |-> o, bagli |-> gelir[o].durum # "SILINDI",
                   tutar |-> taksit[odeme[o].taksit].tutar]
  <2>1. odeme[o].durum # "YOK" /\ odeme[o].taksit \in Taksit
    BY <1>1 DEF GuncelleOku, VekaletInv, GelirInv, TipInv, OdemeBagli
  <2>2. taksit[odeme[o].taksit].tutar \in Nat
    BY <2>1 DEF VekaletInv, GelirInv, TipInv, TypeOK
  <2>3. r \in IstekKaydi
    BY <2>2 DEF IstekKaydi
  <2>4. istek' = [istek EXCEPT ![a] = r] /\ UNCHANGED <<ucret, taksit, odeme, gelir, gecmis>>
    BY <1>1 DEF GuncelleOku, Basla
  <2>5. gelir[o].durum = "CANLI" => ~gelir[o].onayli
    BY <1>1 DEF GuncelleOku
  <2> QED BY <2>1, <2>3, <2>4, <2>5, IstekIlerler
<1>2. ASSUME NEW n \in 1..MaxTutar, GuncelleYaz(a, n)
      PROVE  VekaletInv'
  <2> DEFINE o == istek[a].odeme
             t == odeme[o].taksit
  <2>1. TypeOK /\ n \in Nat /\ o \in Odeme /\ istek[a].bagli \in BOOLEAN
    BY <1>2, TutarAssumption, IstekAlanlari DEF GuncelleYaz, OdemeliAdim, VekaletInv, GelirInv, TipInv
  <2>2. odeme[o].durum # "YOK" /\ t \in Taksit
    BY <1>2, <2>1 DEF GuncelleYaz, OdemeliAdim, VekaletInv, GelirInv, TipInv, IstekBagli, OdemeBagli
  <2>3. PICK e \in [durum : TaksitDurum, tutar : Nat] : taksit' = [taksit EXCEPT ![t] = e]
    BY <1>2, <2>1, <2>2, EsleTipi DEF GuncelleYaz
  <2>4. /\ odeme' = [odeme EXCEPT ![o].tutar = n]
        /\ gelir' = [gelir EXCEPT ![o].tutar = IF istek[a].bagli THEN n ELSE @]
        /\ ucret' = ucret
    BY <1>2 DEF GuncelleYaz
  <2>5. /\ gecmis' \in [cakisan : SUBSET Taksit, sonradan : SUBSET Odeme, yaris : SUBSET Odeme]
        /\ gecmis'.sonradan = gecmis.sonradan /\ gecmis'.yaris = gecmis.yaris
    BY <1>2, <2>1, <2>2 DEF GuncelleYaz, Cakisan, Duzenlenen, TypeOK
  <2>6. istek' \in [Istek -> IstekKaydi]
    BY <1>2, <2>1, BitirTipi DEF GuncelleYaz
  <2>7. odeme' \in [Odeme -> OdemeKaydi] /\ gelir' \in [Odeme -> GelirKaydi]
    <3>1. odeme' \in [Odeme -> OdemeKaydi]
      BY <2>1, <2>4 DEF TypeOK, OdemeKaydi
    <3>2. [gelir[o] EXCEPT !.tutar = IF istek[a].bagli THEN n ELSE @] \in GelirKaydi
      BY <2>1 DEF TypeOK, GelirKaydi
    <3>3. gelir' \in [Odeme -> GelirKaydi]
      BY <2>1, <2>4, <3>2 DEF TypeOK
    <3> QED BY <3>1, <3>3
  <2>8. TypeOK'
    BY <2>1, <2>2, <2>3, <2>4, <2>5, <2>6, <2>7 DEF TypeOK
  <2>9. ASSUME NEW p \in Odeme PROVE Uyumlu(p)
    <3>1. CASE p # o
      <4>1. odeme'[p] = odeme[p] /\ gelir'[p] = gelir[p]
        BY <2>1, <2>4, <3>1 DEF TypeOK
      <4> QED BY <4>1, DegismeyenUyumlu
    <3>2. CASE p = o
      <4>1. /\ odeme'[o].durum = odeme[o].durum /\ odeme'[o].taksit = odeme[o].taksit
            /\ odeme'[o].tutar = n
            /\ gelir'[o].durum = gelir[o].durum /\ gelir'[o].onayli = gelir[o].onayli
            /\ istek[a].bagli => gelir'[o].tutar = n
        BY <2>1, <2>4 DEF TypeOK, OdemeKaydi, GelirKaydi
      <4>2. ~istek[a].bagli => gelir[o].durum = "SILINDI"
        BY <1>2, <2>1 DEF GuncelleYaz, OdemeliAdim, VekaletInv, GelirInv, TipInv, IstekBagli
      <4> QED BY <3>2, <4>1, <4>2, <2>2 DEF Uyumlu, VekaletInv, GelirInv, TipInv,
                OdemeBagli, KapaliGelir, GelirinOdemesiVar, Aktif
    <3> QED BY <3>1, <3>2
  <2>10. \A b \in Istek : istek'[b] = istek[b] \/ istek'[b] = Bitti
    BY <1>2, <2>1, BitirEtkisi DEF GuncelleYaz
  <2> QED BY <2>4, <2>5, <2>8, <2>9, <2>10, YazimKorur
<1> QED BY <1>1, <1>2 DEF GuncelleYazAdim

(* What closing income rows leaves.                                        *)
LEMMA GelirKapatTipi ==
  ASSUME TypeOK, NEW S, GelirKapat(S)
  PROVE  /\ gelir' \in [Odeme -> GelirKaydi]
         /\ \A o \in Odeme :
              /\ o \notin S => gelir'[o] = gelir[o]
              /\ o \in S => gelir'[o].durum =
                             IF gelir[o].durum = "CANLI" THEN "IPTAL" ELSE gelir[o].durum
BY DEF TypeOK, GelirKapat, GelirKaydi

(* Writing the status of an instalment, or nothing.                        *)
LEMMA DurumYazTipi ==
  ASSUME TypeOK, NEW t \in Taksit, NEW d \in TaksitDurum \cup {Yok}, DurumYaz(t, d)
  PROVE  taksit' \in [Taksit -> [durum : TaksitDurum, tutar : Nat]]
BY DEF TypeOK, DurumYaz

LEMMA IptalKorur ==
  ASSUME VekaletInv, NEW a \in Istek,
         (\E o \in Odeme : IptalOku(a, o)) \/ IptalYaz(a)
  PROVE  VekaletInv'
<1>1. ASSUME NEW o \in Odeme, IptalOku(a, o)
      PROVE  VekaletInv'
  <2> DEFINE r == [adim |-> "iptal", odeme |-> o, durum |-> EsleOku(odeme[o].taksit, {o})]
  <2>1. r \in IstekKaydi
    BY EsleOkuTipi DEF IstekKaydi
  <2>2. istek' = [istek EXCEPT ![a] = r] /\ UNCHANGED <<ucret, taksit, odeme, gelir, gecmis>>
    BY <1>1 DEF IptalOku, Basla
  <2>3. odeme[o].durum # "YOK"
    BY <1>1 DEF IptalOku
  <2> QED BY <2>1, <2>2, <2>3, IstekIlerler
<1>2. ASSUME IptalYaz(a)
      PROVE  VekaletInv'
  <2> DEFINE o == istek[a].odeme
  <2>1. TypeOK /\ o \in Odeme /\ istek[a].durum \in TaksitDurum \cup {Yok}
    BY <1>2, IstekAlanlari DEF IptalYaz, OdemeliAdim, VekaletInv, GelirInv, TipInv
  <2>2. odeme[o].durum # "YOK" /\ odeme[o].taksit \in Taksit
    BY <1>2, <2>1 DEF IptalYaz, OdemeliAdim, VekaletInv, GelirInv, TipInv, IstekBagli, OdemeBagli
  <2>3. odeme' = [odeme EXCEPT ![o].durum = "IPTAL"] /\ ucret' = ucret /\ gecmis' = gecmis
    BY <1>2 DEF IptalYaz
  <2>4. /\ gelir' \in [Odeme -> GelirKaydi]
        /\ \A p \in Odeme : p # o => gelir'[p] = gelir[p]
        /\ gelir'[o].durum = IF gelir[o].durum = "CANLI" THEN "IPTAL" ELSE gelir[o].durum
    BY <1>2, <2>1, GelirKapatTipi DEF IptalYaz
  <2>5. taksit' \in [Taksit -> [durum : TaksitDurum, tutar : Nat]]
    BY <1>2, <2>1, <2>2, DurumYazTipi DEF IptalYaz
  <2>5a. istek' \in [Istek -> IstekKaydi]
    BY <1>2, <2>1, BitirTipi DEF IptalYaz
  <2>5b. odeme' \in [Odeme -> OdemeKaydi]
    BY <2>1, <2>3 DEF TypeOK, OdemeKaydi
  <2>6. TypeOK'
    BY <2>1, <2>3, <2>4, <2>5, <2>5a, <2>5b DEF TypeOK
  <2>7. ASSUME NEW p \in Odeme PROVE Uyumlu(p)
    <3>1. CASE p # o
      <4>1. odeme'[p] = odeme[p] /\ gelir'[p] = gelir[p]
        BY <2>1, <2>3, <2>4, <3>1 DEF TypeOK
      <4> QED BY <4>1, DegismeyenUyumlu
    <3>2. CASE p = o
      <4>1. odeme'[o].durum = "IPTAL" /\ odeme'[o].taksit = odeme[o].taksit
        BY <2>1, <2>3 DEF TypeOK, OdemeKaydi
      <4>2. gelir'[o].durum # "CANLI" /\ (gelir[o].durum = "SILINDI" => gelir'[o].durum = "SILINDI")
        BY <2>4
      <4> QED BY <3>2, <4>1, <4>2, <2>2 DEF Uyumlu
    <3> QED BY <3>1, <3>2
  <2>8. \A b \in Istek : istek'[b] = istek[b] \/ istek'[b] = Bitti
    BY <1>2, <2>1, BitirEtkisi DEF IptalYaz
  <2> QED BY <2>3, <2>6, <2>7, <2>8, YazimKorur
<1> QED BY <1>1, <1>2

(* Writes to instalments alone.                                            *)
LEMMA TaksitYazimiKorur ==
  ASSUME VekaletInv, NEW a \in Istek, Bitir(a),
         UNCHANGED <<ucret, odeme, gelir>>,
         taksit' \in [Taksit -> [durum : TaksitDurum, tutar : Nat]],
         gecmis' \in [cakisan : SUBSET Taksit, sonradan : SUBSET Odeme, yaris : SUBSET Odeme],
         gecmis'.sonradan = gecmis.sonradan, gecmis'.yaris = gecmis.yaris
  PROVE  VekaletInv'
<1>1. TypeOK
  BY DEF VekaletInv, GelirInv, TipInv
<1>2. TypeOK'
  BY <1>1, BitirTipi DEF TypeOK
<1>3. \A o \in Odeme : Uyumlu(o)
  BY DegismeyenUyumlu
<1>4. \A b \in Istek : istek'[b] = istek[b] \/ istek'[b] = Bitti
  BY <1>1, BitirEtkisi
<1> QED BY <1>2, <1>3, <1>4, YazimKorur

LEMMA SmmKorur ==
  ASSUME VekaletInv, NEW a \in Istek,
         (\E o \in Odeme : SmmOku(a, o)) \/ EsleYaz(a)
  PROVE  VekaletInv'
<1>1. ASSUME NEW o \in Odeme, SmmOku(a, o)
      PROVE  VekaletInv'
  <2> DEFINE r == [adim |-> "esle", odeme |-> o, durum |-> EsleOku(odeme[o].taksit, {})]
  <2>1. TypeOK /\ r \in IstekKaydi
    BY EsleOkuTipi DEF IstekKaydi, VekaletInv, GelirInv, TipInv
  <2>2. /\ istek' = [istek EXCEPT ![a] = r]
        /\ odeme' = [odeme EXCEPT ![o].smm = TRUE]
        /\ UNCHANGED <<ucret, taksit, gelir, gecmis>>
        /\ odeme[o].durum # "YOK"
    BY <1>1 DEF SmmOku, Basla
  <2>3. /\ odeme' \in [Odeme -> OdemeKaydi]
        /\ \A p \in Odeme : /\ odeme'[p].durum = odeme[p].durum
                            /\ odeme'[p].taksit = odeme[p].taksit
                            /\ odeme'[p].tutar = odeme[p].tutar
    BY <2>1, <2>2 DEF TypeOK, OdemeKaydi
  <2>4. TypeOK'
    BY <2>1, <2>2, <2>3 DEF TypeOK
  <2>5. ASSUME NEW p \in Odeme PROVE Uyumlu(p)
    BY <2>2, <2>3 DEF Uyumlu, VekaletInv, GelirInv, TipInv, OdemeBagli, KapaliGelir,
                      GelirinOdemesiVar, Aktif
  <2>6. ASSUME NEW b \in Istek
        PROVE  \/ istek'[b] = istek[b]
               \/ /\ istek'[b].adim = "esle" /\ istek'[b].odeme \in Odeme
                  /\ odeme'[istek'[b].odeme].durum # "YOK"
    BY <2>1, <2>2, <2>3 DEF TypeOK
  <2> QED BY <2>2, <2>4, <2>5, <2>6, YazimKorur
<1>2. ASSUME EsleYaz(a)
      PROVE  VekaletInv'
  <2> DEFINE o == istek[a].odeme
  <2>1. TypeOK /\ o \in Odeme /\ istek[a].durum \in TaksitDurum \cup {Yok}
    BY <1>2, IstekAlanlari DEF EsleYaz, OdemeliAdim, VekaletInv, GelirInv, TipInv
  <2>2. odeme[o].taksit \in Taksit
    BY <1>2, <2>1 DEF EsleYaz, OdemeliAdim, VekaletInv, GelirInv, TipInv, IstekBagli, OdemeBagli
  <2>3. taksit' \in [Taksit -> [durum : TaksitDurum, tutar : Nat]]
    BY <1>2, <2>1, <2>2, DurumYazTipi DEF EsleYaz
  <2>4. gecmis \in [cakisan : SUBSET Taksit, sonradan : SUBSET Odeme, yaris : SUBSET Odeme]
    BY <2>1 DEF TypeOK
  <2> QED BY <1>2, <2>3, <2>4, TaksitYazimiKorur DEF EsleYaz
<1> QED BY <1>1, <1>2

LEMMA DuzenleKorur ==
  ASSUME VekaletInv, NEW a \in Istek, DuzenleOkuAdim(a) \/ DuzenleYaz(a)
  PROVE  VekaletInv'
<1>1. ASSUME DuzenleOkuAdim(a)
      PROVE  VekaletInv'
  <2>1. PICK t \in Taksit, m \in TutarSecenek \cup {Yok} :
          \E d \in {"ODENMEDI", "ODENDI", taksit[t].durum, Yok} : DuzenleOku(a, t, m, d)
    BY <1>1 DEF DuzenleOkuAdim
  <2>2. PICK d \in {"ODENMEDI", "ODENDI", taksit[t].durum, Yok} : DuzenleOku(a, t, m, d)
    BY <2>1
  <2> DEFINE r == [adim |-> "duzenle", taksit |-> t, tutar |-> m, durum |-> d]
  <2>3. taksit[t].durum \in TaksitDurum
    BY DEF VekaletInv, GelirInv, TipInv, TypeOK
  <2>4. d \in TaksitDurum \cup {Yok} /\ m \in Nat \cup {Yok}
    BY <2>3, TutarAssumption DEF TaksitDurum
  <2>5. r \in IstekKaydi
    BY <2>4 DEF IstekKaydi
  <2>6. istek' = [istek EXCEPT ![a] = r] /\ UNCHANGED <<ucret, taksit, odeme, gelir, gecmis>>
    BY <2>2 DEF DuzenleOku, Basla
  <2> QED BY <2>5, <2>6, IstekIlerler DEF OdemeliAdim
<1>2. ASSUME DuzenleYaz(a)
      PROVE  VekaletInv'
  <2> DEFINE t == istek[a].taksit
             m == istek[a].tutar
             d == istek[a].durum
  <2>1. TypeOK
    BY DEF VekaletInv, GelirInv, TipInv
  <2>2. t \in Taksit /\ m \in Nat \cup {Yok} /\ d \in TaksitDurum \cup {Yok}
    BY <1>2, <2>1, IstekAlanlari DEF DuzenleYaz
  <2>3. taksit' = [taksit EXCEPT ![t].tutar = IF m = Yok THEN @ ELSE m,
                                 ![t].durum = IF d = Yok THEN @ ELSE d]
    BY <1>2 DEF DuzenleYaz
  <2> HIDE DEF t, m, d
  <2>4. taksit' \in [Taksit -> [durum : TaksitDurum, tutar : Nat]]
    BY <2>1, <2>2, <2>3 DEF TypeOK
  <2>5. PICK C \in SUBSET Taksit : gecmis' = Cakisan(C)
    BY <1>2, <2>2 DEF DuzenleYaz, t
  <2>6. /\ gecmis' \in [cakisan : SUBSET Taksit, sonradan : SUBSET Odeme, yaris : SUBSET Odeme]
        /\ gecmis'.sonradan = gecmis.sonradan /\ gecmis'.yaris = gecmis.yaris
    BY <2>1, <2>5 DEF Cakisan, TypeOK
  <2> QED BY <1>2, <2>4, <2>6, TaksitYazimiKorur DEF DuzenleYaz
<1> QED BY <1>1, <1>2

LEMMA TaksitSilKorur ==
  ASSUME VekaletInv, NEW a \in Istek,
         (\E t \in Taksit : TaksitSilOku(a, t)) \/ TaksitSilYaz(a)
  PROVE  VekaletInv'
<1>1. ASSUME NEW t \in Taksit, TaksitSilOku(a, t)
      PROVE  VekaletInv'
  <2> DEFINE r == [adim |-> "taksitSil", taksit |-> t]
  <2>1. r \in IstekKaydi
    BY DEF IstekKaydi
  <2>2. istek' = [istek EXCEPT ![a] = r] /\ UNCHANGED <<ucret, taksit, odeme, gelir, gecmis>>
    BY <1>1 DEF TaksitSilOku, Basla
  <2> QED BY <2>1, <2>2, IstekIlerler DEF OdemeliAdim
<1>2. ASSUME TaksitSilYaz(a)
      PROVE  VekaletInv'
  <2>1. TypeOK
    BY DEF VekaletInv, GelirInv, TipInv
  <2>2. taksit' \in [Taksit -> [durum : TaksitDurum, tutar : Nat]]
    BY <1>2, <2>1 DEF TaksitSilYaz, TypeOK, TaksitDurum
  <2>3. gecmis \in [cakisan : SUBSET Taksit, sonradan : SUBSET Odeme, yaris : SUBSET Odeme]
    BY <2>1 DEF TypeOK
  <2> QED BY <1>2, <2>2, <2>3, TaksitYazimiKorur DEF TaksitSilYaz
<1> QED BY <1>1, <1>2

LEMMA UcretOkuKorur ==
  ASSUME VekaletInv, NEW a \in Istek, UcretAnaliz(a) \/ UcretSilOku(a)
  PROVE  VekaletInv'
<1>1. \A o \in Odeme : odeme[o].tutar \in Nat
  BY DEF VekaletInv, GelirInv, TipInv, TypeOK, OdemeKaydi
<1>2. CASE UcretAnaliz(a)
  <2> DEFINE F == {<<o, odeme[o].tutar>> : o \in
                     {p \in Odeme : Aktif(p) /\ taksit[odeme[p].taksit].durum # "IPTAL"}}
             r == [adim |-> "analiz", goren |-> F]
  <2>1. F \in SUBSET (Odeme \X Nat)
    BY <1>1
  <2>2. istek' = [istek EXCEPT ![a] = r] /\ UNCHANGED <<ucret, taksit, odeme, gelir, gecmis>>
    BY <1>2 DEF UcretAnaliz, Basla
  <2> HIDE DEF F
  <2>3. r \in IstekKaydi
    BY <2>1 DEF IstekKaydi
  <2> QED BY <2>2, <2>3, IstekIlerler DEF OdemeliAdim
<1>3. CASE UcretSilOku(a)
  <2> DEFINE S == {o \in Odeme : Aktif(o)}
             F == istek[a].goren
             r == [adim |-> "ucretSil", goren |-> F, silinecek |-> S]
  <2>1. F \in SUBSET (Odeme \X Nat)
    BY <1>3, IstekAlanlari DEF UcretSilOku, VekaletInv, GelirInv, TipInv
  <2>2. istek' = [istek EXCEPT ![a] = r] /\ UNCHANGED <<ucret, taksit, odeme, gelir, gecmis>>
    BY <1>3 DEF UcretSilOku
  <2>3. F = {<<o, odeme[o].tutar>> : o \in S}
    BY <1>3 DEF UcretSilOku
  <2>4. \A o \in S : \E g \in F : g[1] = o
    <3> HIDE DEF S, F
    <3>1. ASSUME NEW o \in S
          PROVE  \E g \in F : g[1] = o
      <4>1. <<o, odeme[o].tutar>> \in F
        BY <2>3
      <4>2. <<o, odeme[o].tutar>>[1] = o
        OBVIOUS
      <4> QED BY <4>1, <4>2
    <3> QED BY <3>1
  <2>5. /\ \A o \in Odeme : Aktif(o) => o \in S
        /\ S \in SUBSET Odeme
        /\ \A o \in S : odeme[o].durum # "YOK"
    BY DEF Aktif
  <2> HIDE DEF S, F
  <2>6. r \in IstekKaydi
    BY <2>1, <2>5 DEF IstekKaydi
  <2> QED BY <2>2, <2>4, <2>5, <2>6, IstekIlerler DEF OdemeliAdim
<1> QED BY <1>2, <1>3

(* Cancelling the fee: what was active and read is cancelled, what is      *)
(* active and was not read is in the history.                              *)
LEMMA UcretSilKorur ==
  ASSUME VekaletInv, NEW a \in Istek, UcretSilYaz(a)
  PROVE  VekaletInv'
<1> DEFINE S == istek[a].silinecek
<1>1. TypeOK /\ S \in SUBSET Odeme
  BY IstekAlanlari DEF UcretSilYaz, VekaletInv, GelirInv, TipInv
<1>2. /\ ucret' = "IPTAL" /\ gecmis' = gecmis
      /\ odeme' = [o \in Odeme |-> IF o \in S THEN [odeme[o] EXCEPT !.durum = "IPTAL"]
                                   ELSE odeme[o]]
      /\ taksit' = [t \in Taksit |-> [taksit[t] EXCEPT !.durum = "IPTAL"]]
  BY DEF UcretSilYaz
<1>3. /\ gelir' \in [Odeme -> GelirKaydi]
      /\ \A o \in Odeme :
           /\ o \notin S => gelir'[o] = gelir[o]
           /\ o \in S => gelir'[o].durum =
                          IF gelir[o].durum = "CANLI" THEN "IPTAL" ELSE gelir[o].durum
  BY <1>1, GelirKapatTipi DEF UcretSilYaz
<1>4. \A b \in Istek : b # a => istek'[b] = istek[b]
  BY <1>1 DEF UcretSilYaz, Bitir, TypeOK
<1>5. istek'[a] = Bitti /\ istek' \in [Istek -> IstekKaydi]
  BY <1>1, BitirTipi DEF UcretSilYaz, Bitir, TypeOK
<1>6. ASSUME NEW o \in Odeme
      PROVE  /\ odeme'[o].taksit = odeme[o].taksit
             /\ o \notin S => odeme'[o] = odeme[o]
             /\ o \in S => odeme'[o].durum = "IPTAL"
  BY <1>1, <1>2 DEF TypeOK, OdemeKaydi
<1> HIDE DEF S
<1>7. TypeOK'
  <2>1. odeme' \in [Odeme -> OdemeKaydi]
    BY <1>1, <1>2 DEF TypeOK, OdemeKaydi
  <2>2. taksit' \in [Taksit -> [durum : TaksitDurum, tutar : Nat]]
    BY <1>1, <1>2 DEF TypeOK, TaksitDurum
  <2> QED BY <1>1, <1>2, <1>3, <1>5, <2>1, <2>2 DEF TypeOK
<1>7a. \A o \in S : odeme[o].durum # "YOK"
  BY DEF VekaletInv, SilinecekTam, UcretSilYaz, S
<1>8. OdemeBagli' /\ KapaliGelir' /\ GelirinOdemesiVar'
  <2>1. ASSUME NEW o \in Odeme
        PROVE  /\ odeme[o].durum # "YOK" => odeme[o].taksit \in Taksit
               /\ gelir[o].durum # "YOK" => odeme[o].durum # "YOK"
               /\ gelir[o].durum = "IPTAL" => odeme[o].durum = "IPTAL"
               /\ gelir[o].durum = "CANLI" =>
                    odeme[o].durum = "GECERLI" /\ odeme[o].tutar = gelir[o].tutar
    BY DEF VekaletInv, GelirInv, TipInv, OdemeBagli, KapaliGelir, GelirinOdemesiVar
  <2>2. ASSUME NEW o \in S
        PROVE  odeme[o].durum # "YOK"
    BY <1>7a, <2>2
  <2> QED BY <1>3, <1>6, <2>1, <2>2 DEF OdemeBagli, KapaliGelir, GelirinOdemesiVar
<1>10. ASSUME NEW b \in Istek, istek'[b].adim # "bitti"
       PROVE  istek'[b] = istek[b] /\ b # a
  BY <1>4, <1>5, <1>10 DEF Bitti
<1>11. IstekBagli'
  <2>1. ASSUME NEW b \in Istek, istek'[b].adim \in OdemeliAdim
        PROVE  istek'[b] = istek[b] /\ istek[b].odeme \in Odeme
    BY <1>1, <1>10, <2>1, IstekAlanlari DEF OdemeliAdim
  <2>2. ASSUME NEW o \in Odeme
        PROVE  /\ odeme[o].durum # "YOK" => odeme'[o].durum # "YOK"
               /\ gelir[o].durum = "SILINDI" => gelir'[o].durum = "SILINDI"
    BY <1>3, <1>6
  <2> QED BY <2>1, <2>2 DEF VekaletInv, GelirInv, TipInv, IstekBagli
<1>12. ASSUME NEW o \in Odeme, Aktif(o)'
       PROVE  Aktif(o) /\ o \notin S
  <2>1. o \notin S
    BY <1>6, <1>12 DEF Aktif
  <2> QED BY <1>3, <1>6, <1>12, <2>1 DEF Aktif
<1>13. SilinecekTam'
  <2>1. ASSUME NEW b \in Istek, istek'[b].adim = "ucretSil"
        PROVE  istek'[b] = istek[b] /\ istek[b].silinecek \in SUBSET Odeme
    BY <1>1, <1>10, <2>1, IstekAlanlari
  <2>2. \A o \in Odeme : odeme[o].durum # "YOK" => odeme'[o].durum # "YOK"
    BY <1>6
  <2> QED BY <1>2, <1>12, <2>1, <2>2 DEF VekaletInv, SilinecekTam
<1>14. IptalUcretteOdemeSonradan'
  <2>1. \A o \in Odeme : Aktif(o) => o \in S \cup gecmis.sonradan
    BY DEF VekaletInv, SilinecekTam, UcretSilYaz, S
  <2> QED BY <1>2, <1>12, <2>1 DEF IptalUcretteOdemeSonradan
<1>15. YarisTam'
  <2>1. ASSUME NEW b \in Istek, istek'[b].adim \in {"guncelle", "gelirSil"}
        PROVE  istek'[b] = istek[b] /\ istek[b].odeme \in Odeme
    BY <1>1, <1>10, <2>1, IstekAlanlari DEF OdemeliAdim
  <2>2. ASSUME NEW o \in Odeme, gelir'[o].durum = "CANLI"
        PROVE  gelir'[o] = gelir[o]
    BY <1>3, <2>2
  <2> QED BY <1>2, <2>1, <2>2 DEF VekaletInv, YarisTam
<1> QED BY <1>7, <1>8, <1>11, <1>13, <1>14, <1>15 DEF VekaletInv, GelirInv, TipInv

LEMMA GelirKorur ==
  ASSUME VekaletInv,
         \/ \E o \in Odeme : GelirOnayla(o)
         \/ \E a \in Istek : (\E o \in Odeme : GelirSilOku(a, o)) \/ GelirSilYaz(a)
  PROVE  VekaletInv'
<1>1. TypeOK
  BY DEF VekaletInv, GelirInv, TipInv
<1>2. ASSUME NEW o \in Odeme, GelirOnayla(o)
      PROVE  VekaletInv'
  <2> DEFINE P == {p \in {o} : Suren({"guncelle", "gelirSil"}, p)}
  <2>1. /\ gelir' = [gelir EXCEPT ![o].onayli = TRUE]
        /\ gecmis' = [gecmis EXCEPT !.yaris = @ \cup P]
        /\ UNCHANGED <<ucret, taksit, odeme, istek>>
    BY <1>2 DEF GelirOnayla
  <2>2. P \in SUBSET Odeme /\ (Suren({"guncelle", "gelirSil"}, o) => o \in P)
    OBVIOUS
  <2> HIDE DEF P
  <2>3. /\ gelir' \in [Odeme -> GelirKaydi]
        /\ \A p \in Odeme : /\ gelir'[p].durum = gelir[p].durum
                            /\ gelir'[p].tutar = gelir[p].tutar
                            /\ p # o => gelir'[p] = gelir[p]
    BY <1>1, <2>1 DEF TypeOK, GelirKaydi
  <2>4. /\ gecmis' \in [cakisan : SUBSET Taksit, sonradan : SUBSET Odeme, yaris : SUBSET Odeme]
        /\ gecmis'.sonradan = gecmis.sonradan /\ gecmis'.yaris = gecmis.yaris \cup P
    BY <1>1, <2>1, <2>2 DEF TypeOK
  <2>5. TypeOK'
    BY <1>1, <2>1, <2>3, <2>4 DEF TypeOK
  <2>6. ASSUME NEW p \in Odeme PROVE Uyumlu(p)
    <3>1. CASE p # o
      BY <2>1, <2>3, <3>1, DegismeyenUyumlu
    <3>2. CASE p = o
      BY <2>1, <2>2, <2>3, <2>4, <3>2 DEF Uyumlu, VekaletInv, GelirInv, TipInv, OdemeBagli,
         KapaliGelir, GelirinOdemesiVar, Aktif
    <3> QED BY <3>1, <3>2
  <2> QED BY <2>1, <2>4, <2>5, <2>6, YazimKorur
<1>3. ASSUME NEW a \in Istek, NEW o \in Odeme, GelirSilOku(a, o)
      PROVE  VekaletInv'
  <2> DEFINE r == [adim |-> "gelirSil", odeme |-> o]
  <2>1. r \in IstekKaydi
    BY DEF IstekKaydi
  <2>2. istek' = [istek EXCEPT ![a] = r] /\ UNCHANGED <<ucret, taksit, odeme, gelir, gecmis>>
    BY <1>3 DEF GelirSilOku, Basla
  <2>3. odeme[o].durum # "YOK" /\ ~gelir[o].onayli
    BY <1>3 DEF GelirSilOku, VekaletInv, GelirInv, GelirinOdemesiVar
  <2> QED BY <2>1, <2>2, <2>3, IstekIlerler
<1>4. ASSUME NEW a \in Istek, GelirSilYaz(a)
      PROVE  VekaletInv'
  <2> DEFINE o == istek[a].odeme
  <2>1. o \in Odeme /\ odeme[o].durum # "YOK"
    BY <1>1, <1>4, IstekAlanlari DEF GelirSilYaz, OdemeliAdim, VekaletInv, GelirInv, TipInv, IstekBagli
  <2>2. gelir' = [gelir EXCEPT ![o].durum = "SILINDI"] /\ UNCHANGED <<ucret, taksit, odeme, gecmis>>
    BY <1>4 DEF GelirSilYaz
  <2>3. /\ gelir' \in [Odeme -> GelirKaydi]
        /\ \A p \in Odeme : p # o => gelir'[p] = gelir[p]
        /\ gelir'[o].durum = "SILINDI"
    BY <1>1, <2>1, <2>2 DEF TypeOK, GelirKaydi
  <2>4. istek' \in [Istek -> IstekKaydi]
        /\ \A b \in Istek : istek'[b] = istek[b] \/ istek'[b] = Bitti
    BY <1>1, <1>4, BitirTipi, BitirEtkisi DEF GelirSilYaz
  <2>5. TypeOK'
    BY <1>1, <2>2, <2>3, <2>4 DEF TypeOK
  <2>6. ASSUME NEW p \in Odeme PROVE Uyumlu(p)
    <3>1. CASE p # o
      BY <2>2, <2>3, <3>1, DegismeyenUyumlu
    <3>2. CASE p = o
      BY <2>1, <2>2, <2>3, <3>2 DEF Uyumlu, VekaletInv, GelirInv, TipInv, OdemeBagli,
         KapaliGelir, Aktif
    <3> QED BY <3>1, <3>2
  <2> QED BY <2>2, <2>4, <2>5, <2>6, YazimKorur
<1> QED BY <1>2, <1>3, <1>4

LEMMA IstekDuserKorur ==
  ASSUME VekaletInv, NEW a \in Istek, IstekDuser(a)
  PROVE  VekaletInv'
<1>1. TypeOK
  BY DEF VekaletInv, GelirInv, TipInv
<1> QED BY <1>1, TaksitYazimiKorur DEF IstekDuser, TypeOK

(* The inductive invariant: at the start, and through every step.          *)
LEMMA VekaletBaslangic ==
  ASSUME Init
  PROVE  VekaletInv
<1>1. TypeOK
  BY TutarAssumption DEF Init, TypeOK, TaksitDurum, OdemeKaydi, GelirKaydi, IstekKaydi
<1>2. \A o \in Odeme : odeme[o].durum = "YOK" /\ gelir[o].durum = "YOK"
  BY DEF Init
<1>3. \A a \in Istek : istek[a].adim = "bos"
  BY DEF Init, Bos
<1>4. ucret = "AKTIF"
  BY DEF Init
<1> QED BY <1>1, <1>2, <1>3, <1>4 DEF VekaletInv, GelirInv, TipInv, OdemeBagli, IstekBagli,
     KapaliGelir, GelirinOdemesiVar, SilinecekTam, IptalUcretteOdemeSonradan, YarisTam, OdemeliAdim

LEMMA VekaletAdimi ==
  ASSUME VekaletInv, [Next]_vars
  PROVE  VekaletInv'
<1>1. CASE TekOdeAdim
  BY <1>1, TekOdeKorur
<1>2. CASE \E o \in Odeme : GelirOnayla(o)
  BY <1>2, GelirKorur
<1>3. ASSUME NEW a \in Istek,
             \/ PesinBasla(a) \/ PesinKilitle(a) \/ PesinOkuAdim(a) \/ PesinYaz(a)
             \/ \E o \in Odeme : \/ GuncelleOku(a, o) \/ IptalOku(a, o)
                                 \/ SmmOku(a, o)      \/ GelirSilOku(a, o)
             \/ GuncelleYazAdim(a) \/ IptalYaz(a) \/ EsleYaz(a) \/ GelirSilYaz(a)
             \/ DuzenleOkuAdim(a) \/ DuzenleYaz(a)
             \/ \E t \in Taksit : TaksitSilOku(a, t)
             \/ TaksitSilYaz(a)
             \/ UcretAnaliz(a) \/ UcretSilOku(a) \/ UcretSilYaz(a)
             \/ IstekDuser(a)
      PROVE  VekaletInv'
  <2>1. CASE PesinBasla(a) \/ PesinKilitle(a) \/ PesinOkuAdim(a) \/ PesinYaz(a)
    BY <2>1, PesinKorur
  <2>2. CASE (\E o \in Odeme : GuncelleOku(a, o)) \/ GuncelleYazAdim(a)
    BY <2>2, GuncelleKorur
  <2>3. CASE (\E o \in Odeme : IptalOku(a, o)) \/ IptalYaz(a)
    BY <2>3, IptalKorur
  <2>4. CASE (\E o \in Odeme : SmmOku(a, o)) \/ EsleYaz(a)
    BY <2>4, SmmKorur
  <2>5. CASE (\E o \in Odeme : GelirSilOku(a, o)) \/ GelirSilYaz(a)
    BY <2>5, GelirKorur
  <2>6. CASE DuzenleOkuAdim(a) \/ DuzenleYaz(a)
    BY <2>6, DuzenleKorur
  <2>7. CASE (\E t \in Taksit : TaksitSilOku(a, t)) \/ TaksitSilYaz(a)
    BY <2>7, TaksitSilKorur
  <2>8. CASE UcretAnaliz(a) \/ UcretSilOku(a)
    BY <2>8, UcretOkuKorur
  <2>9. CASE UcretSilYaz(a)
    BY <2>9, UcretSilKorur
  <2>10. CASE IstekDuser(a)
    BY <2>10, IstekDuserKorur
  <2> QED BY <1>3, <2>1, <2>2, <2>3, <2>4, <2>5, <2>6, <2>7, <2>8, <2>9, <2>10
<1>4. CASE UNCHANGED vars
  BY <1>4 DEF vars, VekaletInv, GelirInv, TipInv, TypeOK, OdemeBagli, IstekBagli, KapaliGelir,
     GelirinOdemesiVar, SilinecekTam, IptalUcretteOdemeSonradan, YarisTam, Aktif
<1> QED BY <1>1, <1>2, <1>3, <1>4 DEF Next

(* The only writer of the fee is its cancellation.                         *)
LEMMA UcretinYazari ==
  ASSUME [Next]_vars, ucret' # ucret
  PROVE  \E a \in Istek : UcretSilYaz(a)
<1>1. ~TekOdeAdim /\ ~(\E o \in Odeme : GelirOnayla(o)) /\ ~UNCHANGED vars
  BY DEF TekOdeAdim, TekOde, GelirOnayla, vars
<1>2. ASSUME NEW a \in Istek
      PROVE  /\ ~PesinBasla(a) /\ ~PesinKilitle(a) /\ ~PesinOkuAdim(a) /\ ~PesinYaz(a)
             /\ ~GuncelleYazAdim(a) /\ ~IptalYaz(a) /\ ~EsleYaz(a) /\ ~GelirSilYaz(a)
             /\ ~DuzenleOkuAdim(a) /\ ~DuzenleYaz(a) /\ ~TaksitSilYaz(a)
             /\ ~UcretAnaliz(a) /\ ~UcretSilOku(a) /\ ~IstekDuser(a)
  BY DEF PesinBasla, PesinKilitle, PesinOkuAdim, PesinOku, PesinYaz, GuncelleYazAdim,
     GuncelleYaz, IptalYaz, EsleYaz, GelirSilYaz, DuzenleOkuAdim, DuzenleOku, DuzenleYaz,
     TaksitSilYaz, UcretAnaliz, UcretSilOku, IstekDuser
<1>3. ASSUME NEW a \in Istek, NEW o \in Odeme
      PROVE  ~GuncelleOku(a, o) /\ ~IptalOku(a, o) /\ ~SmmOku(a, o) /\ ~GelirSilOku(a, o)
  BY DEF GuncelleOku, IptalOku, SmmOku, GelirSilOku
<1>4. ASSUME NEW a \in Istek, NEW t \in Taksit
      PROVE  ~TaksitSilOku(a, t)
  BY DEF TaksitSilOku
<1> QED BY <1>1, <1>2, <1>3, <1>4 DEF Next

LEMMA UcretSilmeAdimi ==
  ASSUME VekaletInv, [Next]_vars, ucret # ucret',
         NEW o \in Odeme, Aktif(o), ~Aktif(o)'
  PROVE  \E a \in Istek : istek[a].adim = "ucretSil" /\ \E g \in istek[a].goren : g[1] = o
<1>1. PICK a \in Istek : UcretSilYaz(a)
  BY UcretinYazari
<1>2. TypeOK /\ istek[a].silinecek \in SUBSET Odeme
  BY <1>1, IstekAlanlari DEF UcretSilYaz, VekaletInv, GelirInv, TipInv
<1>3. CASE o \notin istek[a].silinecek
  <2>1. gelir'[o] = gelir[o]
    BY <1>1, <1>2, <1>3, GelirKapatTipi DEF UcretSilYaz
  <2>2. odeme'[o] = odeme[o]
    BY <1>1, <1>3 DEF UcretSilYaz
  <2> QED BY <2>1, <2>2 DEF Aktif
<1>4. CASE o \in istek[a].silinecek
  BY <1>1, <1>4 DEF UcretSilYaz, VekaletInv, SilinecekTam
<1> QED BY <1>3, <1>4

(* What each writer of the income rows does to an approved one.            *)
LEMMA OnayliGelirAdimi ==
  ASSUME VekaletInv, [Next]_vars,
         NEW o \in Odeme, gelir[o].durum = "CANLI", gelir[o].onayli
  PROVE  \/ gelir'[o].tutar = gelir[o].tutar /\ gelir'[o].durum # "SILINDI"
         \/ o \in gecmis.yaris
<1>1. TypeOK /\ TipInv /\ odeme[o].durum # "YOK"
  BY DEF VekaletInv, GelirInv, TipInv, OdemeBagli
<1>2. ASSUME NEW plan \in [Taksit -> Nat], NEW T \in SUBSET Taksit, OdemeEkle(plan, T)
      PROVE  gelir'[o] = gelir[o]
  BY <1>1, <1>2, OdemeEkleEtkisi
<1>3. CASE TekOdeAdim
  <2>1. PICK t \in Taksit, n \in 1..MaxTutar : TekOde(t, n)
    BY <1>3 DEF TekOdeAdim
  <2>2. [u \in Taksit |-> IF u = t THEN n ELSE 0] \in [Taksit -> Nat]
    BY TutarAssumption
  <2> QED BY <1>2, <2>1, <2>2 DEF TekOde
<1>4. CASE \E p \in Odeme : GelirOnayla(p)
  BY <1>1, <1>4 DEF GelirOnayla, TypeOK, GelirKaydi
<1>5. ASSUME NEW a \in Istek, GuncelleYazAdim(a) \/ GelirSilYaz(a)
      PROVE  gelir'[o] = gelir[o] \/ o \in gecmis.yaris
  <2>1. /\ istek[a].adim \in {"guncelle", "gelirSil"}
        /\ \A p \in Odeme : p # istek[a].odeme => gelir'[p] = gelir[p]
    BY <1>1, <1>5 DEF GuncelleYazAdim, GuncelleYaz, GelirSilYaz, TypeOK
  <2> QED BY <2>1 DEF VekaletInv, YarisTam
<1>6. ASSUME NEW S, GelirKapat(S)
      PROVE  gelir'[o].tutar = gelir[o].tutar /\ gelir'[o].durum # "SILINDI"
  BY <1>1, <1>6 DEF GelirKapat, TypeOK, GelirKaydi
<1>7. ASSUME NEW a \in Istek, IptalYaz(a) \/ UcretSilYaz(a)
      PROVE  gelir'[o].tutar = gelir[o].tutar /\ gelir'[o].durum # "SILINDI"
  BY <1>6, <1>7 DEF IptalYaz, UcretSilYaz
<1>8. ASSUME NEW a \in Istek, PesinYaz(a)
      PROVE  gelir'[o] = gelir[o]
  <2>1. istek[a].plan \in [Taksit -> Nat]
    BY <1>1, <1>8, IstekAlanlari DEF PesinYaz
  <2>2. Payi(istek[a].plan) \ istek[a].kilit \in SUBSET Taksit
    BY DEF Payi
  <2> QED BY <1>2, <1>8, <2>1, <2>2 DEF PesinYaz
<1>9. ASSUME NEW a \in Istek,
             \/ PesinBasla(a) \/ PesinKilitle(a) \/ PesinOkuAdim(a)
             \/ EsleYaz(a) \/ DuzenleOkuAdim(a) \/ DuzenleYaz(a) \/ TaksitSilYaz(a)
             \/ UcretAnaliz(a) \/ UcretSilOku(a) \/ IstekDuser(a)
             \/ \E p \in Odeme : \/ GuncelleOku(a, p) \/ IptalOku(a, p)
                                 \/ SmmOku(a, p) \/ GelirSilOku(a, p)
             \/ \E t \in Taksit : TaksitSilOku(a, t)
      PROVE  gelir' = gelir
  BY <1>9 DEF PesinBasla, PesinKilitle, PesinOkuAdim, PesinOku, EsleYaz, DuzenleOkuAdim,
     DuzenleOku, DuzenleYaz, TaksitSilYaz, UcretAnaliz, UcretSilOku, IstekDuser,
     GuncelleOku, IptalOku, SmmOku, GelirSilOku, TaksitSilOku
<1>10. CASE UNCHANGED vars
  BY <1>10 DEF vars
<1> QED BY <1>3, <1>4, <1>5, <1>7, <1>8, <1>9, <1>10 DEF Next

-----------------------------------------------------------------------------
(* Theorems *)

(* The inductive invariant: what a pending request has read is still true, *)
(* or the history names the payment for which it is not.                   *)
THEOREM VekaletDegismez == Spec => []VekaletInv
<1>1. Init => VekaletInv
  BY VekaletBaslangic
<1>2. VekaletInv /\ [Next]_vars => VekaletInv'
  BY VekaletAdimi
<1> QED BY <1>1, <1>2, PTL DEF Spec

(* The fee, its instalments, payments, income rows and requests keep their *)
(* types.                                                                  *)
THEOREM VekaletTipi == Spec => []TypeOK
<1>1. VekaletInv => TypeOK
  BY DEF VekaletInv, GelirInv, TipInv
<1> QED BY <1>1, VekaletDegismez, PTL

(* Every live income row has its payment, not cancelled and of the same    *)
(* amount, for any number of overlapping requests.                         *)
THEOREM GelirHakli == Spec => []GelirinOdemesiVar
<1>1. VekaletInv => GelirinOdemesiVar
  BY DEF VekaletInv, GelirInv
<1> QED BY <1>1, VekaletDegismez, PTL

(* A payment still active on a cancelled fee was recorded while the fee    *)
(* was being cancelled or later.                                           *)
THEOREM IptalUcretKapsar == Spec => []IptalUcretteOdemeSonradan
<1>1. VekaletInv => IptalUcretteOdemeSonradan
  BY DEF VekaletInv
<1> QED BY <1>1, VekaletDegismez, PTL

(* An approved income changes or goes only by a request that read it       *)
(* before the approval.                                                    *)
THEOREM OnayliGelirKorunur == Spec => OnayliGelirSabit
<1>1. VekaletInv /\ [Next]_vars =>
        [\A o \in Odeme : gelir[o].durum = "CANLI" /\ gelir[o].onayli =>
           \/ gelir'[o].tutar = gelir[o].tutar /\ gelir'[o].durum # "SILINDI"
           \/ o \in gecmis.yaris]_vars
  BY OnayliGelirAdimi
<1> QED BY <1>1, VekaletDegismez, PTL DEF Spec, OnayliGelirSabit

(* A fee cancellation cancels only payments its owner was shown.           *)
THEOREM AnalizKapsar == Spec => GorulmeyenIptalOlmaz
<1>1. VekaletInv /\ [Next]_vars =>
        [\A o \in Odeme :
           ucret # ucret' /\ Aktif(o) /\ ~Aktif(o)' =>
             \E a \in Istek : /\ istek[a].adim = "ucretSil"
                              /\ \E g \in istek[a].goren : g[1] = o]_vars
  BY UcretSilmeAdimi
<1> QED BY <1>1, VekaletDegismez, PTL DEF Spec, GorulmeyenIptalOlmaz
-----------------------------------------------------------------------------
(***************************************************************************)
(* The amounts.  An instalment takes no more than its amount as long as    *)
(* what a request has read of it holds until its write: an edit of the     *)
(* amount its payments, an edit of a payment the amount, an advance        *)
(* payment both, on the instalments it has locked and no other has.        *)
(***************************************************************************)
DuzenleTam ==
  \A a \in Istek, t \in Taksit :
    istek[a].adim = "duzenle" /\ istek[a].tutar # Yok /\ istek[a].taksit = t =>
      Odenen(t, {}) <= istek[a].tutar \/ t \in gecmis.cakisan

GuncelleTam ==
  \A a \in Istek, t \in Taksit :
    istek[a].adim = "guncelle" /\ odeme[istek[a].odeme].taksit = t =>
      istek[a].tutar = taksit[t].tutar \/ t \in gecmis.cakisan

DagitimTam ==
  \A a \in Istek, t \in Taksit :
    istek[a].adim = "dagitti" /\ t \in istek[a].kilit /\ istek[a].plan[t] > 0 =>
      Odenen(t, {}) + istek[a].plan[t] <= taksit[t].tutar

KilitAyrik ==
  \A a, b \in Istek :
    a # b /\ {istek[a].adim, istek[b].adim} \subseteq {"kilitli", "dagitti"} =>
      istek[a].kilit \cap istek[b].kilit = {}

TutarInv == AsimCakismada /\ DuzenleTam /\ GuncelleTam /\ DagitimTam /\ KilitAyrik
(* The model's sum of payments is the sum of their amounts.                *)
LEMMA ToplamTopla ==
  ASSUME NEW S, IsFiniteSet(S)
  PROVE  Toplam(S) = Topla([o \in S |-> odeme[o].tutar], S)
<1> DEFINE f == [o \in S |-> odeme[o].tutar]
           P(h) == h = [s \in SUBSET S |->
                          IF s = {} THEN 0
                          ELSE odeme[CHOOSE x \in s : TRUE].tutar + h[s \ {CHOOSE x \in s : TRUE}]]
<1>1. PICK g : Ozyineli(g, f, S)
  BY OzyineliVar
<1>2. \A s \in SUBSET S : s # {} => f[CHOOSE x \in s : TRUE] = odeme[CHOOSE x \in s : TRUE].tutar
  OBVIOUS
<1>3. \A h : Ozyineli(h, f, S) <=> P(h)
  <2> SUFFICES ASSUME NEW h PROVE Ozyineli(h, f, S) <=> P(h)
    OBVIOUS
  <2> DEFINE k == [s \in SUBSET S |-> IF s = {} THEN 0 ELSE f[CHOOSE x \in s : TRUE] + h[s \ {CHOOSE x \in s : TRUE}]]
             l == [s \in SUBSET S |-> IF s = {} THEN 0
                          ELSE odeme[CHOOSE x \in s : TRUE].tutar + h[s \ {CHOOSE x \in s : TRUE}]]
  <2> HIDE DEF f
  <2>1. k = l
    BY <1>2
  <2> QED BY <2>1 DEF Ozyineli
<1>4. PICK h : h = CHOOSE hh : P(hh)
  OBVIOUS
<1>5. Toplam(S) = h[S]
  BY <1>4, Zenon DEF Toplam, MapThenSumSet, MapThenFoldSet
<1> HIDE DEF P, f
<1>6. P(g)
  BY <1>1, <1>3
<1>7. P(h)
  BY <1>4, <1>6, Zenon
<1>8. Ozyineli(h, f, S)
  BY <1>3, <1>7
<1>9. Topla(f, S) = h[S]
  BY <1>8, ToplaDeger
<1> QED BY <1>5, <1>9 DEF f

(* What is paid on an instalment, now and after a step: the sum over the   *)
(* payments that count.                                                    *)
LEMMA OdenenTopla ==
  ASSUME NEW t, NEW H
  PROVE  \A T \in SUBSET Odeme : \A f :
           /\ \A o \in Odeme : o \in T <=> odeme[o].taksit = t /\ Aktif(o) /\ o \notin H
           /\ \A o \in T : f[o] = odeme[o].tutar
           => Odenen(t, H) = Topla(f, T)
<1> SUFFICES ASSUME NEW T \in SUBSET Odeme, NEW f,
                    \A o \in Odeme : o \in T <=> odeme[o].taksit = t /\ Aktif(o) /\ o \notin H,
                    \A o \in T : f[o] = odeme[o].tutar
             PROVE  Odenen(t, H) = Topla(f, T)
  OBVIOUS
<1>1. T = {o \in Odemeleri(t) \ H : Aktif(o)}
  BY DEF Odemeleri
<1>2. IsFiniteSet(T)
  BY OdemeAssumption, FS_Subset
<1> DEFINE g == [o \in T |-> odeme[o].tutar]
<1>3. \A o \in T : g[o] = f[o]
  OBVIOUS
<1>4. Toplam(T) = Topla(g, T)
  BY <1>2, ToplamTopla
<1> HIDE DEF g
<1>5. Topla(g, T) = Topla(f, T)
  BY <1>2, <1>3, ToplaEsit
<1> QED BY <1>1, <1>4, <1>5 DEF Odenen

LEMMA OdenenToplaSonra ==
  ASSUME NEW t, NEW H
  PROVE  \A T \in SUBSET Odeme : \A f :
           /\ \A o \in Odeme : o \in T <=> odeme'[o].taksit = t /\ Aktif(o)' /\ o \notin H
           /\ \A o \in T : f[o] = odeme'[o].tutar
           => Odenen(t, H)' = Topla(f, T)
<1> DEFINE F == \A T \in SUBSET Odeme : \A f :
                  /\ \A o \in Odeme : o \in T <=> odeme[o].taksit = t /\ Aktif(o) /\ o \notin H
                  /\ \A o \in T : f[o] = odeme[o].tutar
                  => Odenen(t, H) = Topla(f, T)
<1>1. F
  BY OdenenTopla
<1>2. F'
  <2> HIDE DEF F
  <2> QED BY <1>1, PTL
<1> QED BY <1>2

(* What is paid is no more than all payments of the instalment.            *)
LEMMA OdenenTipi ==
  ASSUME TypeOK, NEW t, NEW H
  PROVE  /\ Odenen(t, H) \in Nat
         /\ Odenen(t, H) <= Toplam(Odemeleri(t))
<1> DEFINE S == Odemeleri(t)
           T == {o \in S \ H : Aktif(o)}
<1>1. S \subseteq Odeme /\ T \subseteq S
  BY DEF Odemeleri
<1>2. IsFiniteSet(S) /\ IsFiniteSet(T)
  BY <1>1, OdemeAssumption, FS_Subset
<1> HIDE DEF S, T
<1> DEFINE f == [o \in S |-> odeme[o].tutar]
           g == [o \in T |-> odeme[o].tutar]
<1>3. \A o \in S : f[o] \in Nat
  BY <1>1 DEF TypeOK, OdemeKaydi
<1>4. \A o \in T : g[o] = f[o]
  BY <1>1
<1>5. Toplam(S) = Topla(f, S) /\ Toplam(T) = Topla(g, T)
  BY <1>2, ToplamTopla
<1> HIDE DEF f, g
<1>6. Topla(g, T) = Topla(f, T)
  BY <1>2, <1>4, ToplaEsit
<1>7. Topla(f, T) \in Nat /\ Topla(f, T) <= Topla(f, S)
  BY <1>1, <1>2, <1>3, ToplaArtar
<1> QED BY <1>5, <1>6, <1>7 DEF Odenen, S, T

(* Payments that stop counting, and none that starts, lower the sum.       *)
LEMMA OdenenAzalir ==
  ASSUME TypeOK, NEW t,
         \A o \in Odeme : odeme'[o].taksit = t /\ Aktif(o)' =>
           odeme[o].taksit = t /\ Aktif(o) /\ odeme'[o].tutar = odeme[o].tutar
  PROVE  Odenen(t, {})' <= Odenen(t, {}) /\ Odenen(t, {})' \in Nat
<1>1. PICK S \in SUBSET Odeme : \A o \in Odeme : o \in S <=> odeme[o].taksit = t /\ Aktif(o)
  <2>1. {o \in Odeme : odeme[o].taksit = t /\ Aktif(o)} \in SUBSET Odeme
    OBVIOUS
  <2> QED BY <2>1
<1>2. PICK T \in SUBSET Odeme : \A o \in Odeme : o \in T <=> odeme'[o].taksit = t /\ Aktif(o)'
  <2>1. {o \in Odeme : odeme'[o].taksit = t /\ Aktif(o)'} \in SUBSET Odeme
    OBVIOUS
  <2> QED BY <2>1
<1>3. PICK f : f = [o \in Odeme |-> odeme[o].tutar]
  OBVIOUS
<1>4. /\ \A o \in S : f[o] = odeme[o].tutar /\ f[o] \in Nat
      /\ \A o \in T : f[o] = odeme'[o].tutar
      /\ T \subseteq S
  BY <1>1, <1>2, <1>3 DEF TypeOK, OdemeKaydi
<1>5. Odenen(t, {}) = Topla(f, S)
  BY <1>1, <1>4, OdenenTopla
<1>6. Odenen(t, {})' = Topla(f, T)
  BY <1>2, <1>4, OdenenToplaSonra
<1>7. Topla(f, T) \in Nat /\ Topla(f, T) <= Topla(f, S)
  <2>1. IsFiniteSet(S)
    BY OdemeAssumption, FS_Subset
  <2> QED BY <1>4, <2>1, ToplaArtar
<1> QED BY <1>5, <1>6, <1>7

(* One payment that counts in place of the left out ones adds its amount.  *)
LEMMA OdenenEklenir ==
  ASSUME TypeOK, NEW t, NEW H, NEW e \in Odeme, odeme'[e].tutar \in Nat,
         \A o \in Odeme :
           odeme'[o].taksit = t /\ Aktif(o)' <=>
             o = e \/ (odeme[o].taksit = t /\ Aktif(o) /\ o \notin H),
         ~(odeme[e].taksit = t /\ Aktif(e) /\ e \notin H),
         \A o \in Odeme : odeme[o].taksit = t /\ Aktif(o) /\ o \notin H =>
           odeme'[o].tutar = odeme[o].tutar
  PROVE  Odenen(t, {})' = Odenen(t, H) + odeme'[e].tutar
<1>1. PICK S \in SUBSET Odeme :
        \A o \in Odeme : o \in S <=> odeme[o].taksit = t /\ Aktif(o) /\ o \notin H
  <2>1. {o \in Odeme : odeme[o].taksit = t /\ Aktif(o) /\ o \notin H} \in SUBSET Odeme
    OBVIOUS
  <2> QED BY <2>1
<1>2. PICK f : f = [o \in Odeme |-> odeme'[o].tutar]
  OBVIOUS
<1>3. e \notin S /\ S \cup {e} \in SUBSET Odeme
  BY <1>1
<1>4. /\ \A o \in S : f[o] = odeme[o].tutar
      /\ \A o \in S \cup {e} : f[o] = odeme'[o].tutar /\ f[o] \in Int
  BY <1>1, <1>2, <1>3 DEF TypeOK, OdemeKaydi
<1>5. Odenen(t, H) = Topla(f, S)
  BY <1>1, <1>4, OdenenTopla
<1>6. Odenen(t, {})' = Topla(f, S \cup {e})
  <2>1. \A o \in Odeme : o \in S \cup {e} <=> odeme'[o].taksit = t /\ Aktif(o)' /\ o \notin {}
    BY <1>1, <1>3
  <2> QED BY <1>3, <1>4, <2>1, OdenenToplaSonra
<1>7. IsFiniteSet(S)
  BY OdemeAssumption, FS_Subset
<1>8. Topla(f, S \cup {e}) = f[e] + Topla(f, S) /\ Topla(f, S) \in Int
  BY <1>3, <1>4, <1>7, ToplaEkle, ToplaTamSayi
<1> QED BY <1>4, <1>5, <1>6, <1>8
\* A write that leaves the amount of an instalment, and adds no payment to it.
Yerinde(t) ==
  /\ Odenen(t, {})' \in Nat /\ Odenen(t, {})' <= Odenen(t, {})
  /\ taksit'[t].tutar = taksit[t].tutar

\* A write of the amount or of a payment: within the amount, or noted; and so
\* for every request that goes on with what it has read.
Ozenli(t) ==
  /\ Odenen(t, {})' > taksit'[t].tutar => t \in gecmis'.cakisan
  /\ \A b \in Istek : istek'[b] = istek[b] =>
       /\ istek[b].adim = "duzenle" /\ istek[b].tutar # Yok /\ istek[b].taksit = t =>
            Odenen(t, {})' <= istek[b].tutar \/ t \in gecmis'.cakisan
       /\ istek[b].adim = "guncelle" /\ odeme[istek[b].odeme].taksit = t =>
            taksit'[t].tutar = taksit[t].tutar \/ t \in gecmis'.cakisan
       /\ istek[b].adim = "dagitti" => t \notin istek[b].kilit

LEMMA YazimTutari ==
  ASSUME TipInv, TutarInv, TypeOK',
         gecmis.cakisan \subseteq gecmis'.cakisan,
         \A b \in Istek : istek'[b] = istek[b] \/ istek'[b].adim \in {"bitti", "esle"},
         \A o \in Odeme : odeme[o].durum # "YOK" => odeme'[o].taksit = odeme[o].taksit,
         \A t \in Taksit : Yerinde(t) \/ Ozenli(t)
  PROVE  TutarInv'
<1>0. TypeOK
  BY DEF TipInv
<1>1. \A t \in Taksit : Odenen(t, {}) \in Nat /\ taksit[t].tutar \in Nat /\ taksit'[t].tutar \in Nat
  BY <1>0, OdenenTipi DEF TypeOK
<1>2. AsimCakismada'
  <2>1. ASSUME NEW t \in Taksit, Odenen(t, {})' > taksit'[t].tutar PROVE t \in gecmis'.cakisan
    <3>1. CASE Yerinde(t)
      <4>1. Odenen(t, {}) > taksit[t].tutar
        BY <1>1, <2>1, <3>1 DEF Yerinde
      <4> QED BY <4>1 DEF TutarInv, AsimCakismada
    <3>2. CASE Ozenli(t)
      BY <2>1, <3>2 DEF Ozenli
    <3> QED BY <3>1, <3>2
  <2> QED BY <2>1 DEF AsimCakismada
<1>3. DuzenleTam'
  <2>1. ASSUME NEW a \in Istek, NEW t \in Taksit,
               istek'[a].adim = "duzenle", istek'[a].tutar # Yok, istek'[a].taksit = t
        PROVE  Odenen(t, {})' <= istek'[a].tutar \/ t \in gecmis'.cakisan
    <3>1. istek'[a] = istek[a]
      BY <2>1
    <3>2. istek[a].tutar \in Nat
      BY <1>0, <2>1, <3>1, IstekAlanlari
    <3>3. CASE Yerinde(t)
      <4>1. Odenen(t, {}) <= istek[a].tutar \/ t \in gecmis.cakisan
        BY <2>1, <3>1 DEF TutarInv, DuzenleTam
      <4> QED BY <1>1, <3>1, <3>2, <3>3, <4>1 DEF Yerinde
    <3>4. CASE Ozenli(t)
      BY <2>1, <3>1, <3>4 DEF Ozenli
    <3> QED BY <3>3, <3>4
  <2> QED BY <2>1 DEF DuzenleTam
<1>4. GuncelleTam'
  <2>1. ASSUME NEW a \in Istek, NEW t \in Taksit,
               istek'[a].adim = "guncelle", odeme'[istek'[a].odeme].taksit = t
        PROVE  istek'[a].tutar = taksit'[t].tutar \/ t \in gecmis'.cakisan
    <3>1. istek'[a] = istek[a]
      BY <2>1
    <3>2. istek[a].odeme \in Odeme /\ odeme[istek[a].odeme].durum # "YOK"
      BY <1>0, <2>1, <3>1, IstekAlanlari DEF TipInv, IstekBagli, OdemeliAdim
    <3>3. odeme[istek[a].odeme].taksit = t
      BY <2>1, <3>1, <3>2
    <3>4. istek[a].tutar = taksit[t].tutar \/ t \in gecmis.cakisan
      BY <2>1, <3>1, <3>3 DEF TutarInv, GuncelleTam
    <3>5. taksit'[t].tutar = taksit[t].tutar \/ t \in gecmis'.cakisan
      BY <2>1, <3>1, <3>3 DEF Yerinde, Ozenli
    <3> QED BY <3>1, <3>4, <3>5
  <2> QED BY <2>1 DEF GuncelleTam
<1>5. DagitimTam'
  <2>1. ASSUME NEW a \in Istek, NEW t \in Taksit,
               istek'[a].adim = "dagitti", t \in istek'[a].kilit, istek'[a].plan[t] > 0
        PROVE  Odenen(t, {})' + istek'[a].plan[t] <= taksit'[t].tutar
    <3>1. istek'[a] = istek[a]
      BY <2>1
    <3>2. istek[a].plan[t] \in Nat
      BY <1>0, <2>1, <3>1, IstekAlanlari
    <3>3. Yerinde(t)
      BY <2>1, <3>1 DEF Ozenli
    <3>4. Odenen(t, {}) + istek[a].plan[t] <= taksit[t].tutar
      BY <2>1, <3>1 DEF TutarInv, DagitimTam
    <3> QED BY <1>1, <3>1, <3>2, <3>3, <3>4 DEF Yerinde
  <2> QED BY <2>1 DEF DagitimTam
<1>6. KilitAyrik'
  <2>1. \A a \in Istek : istek'[a].adim \in {"kilitli", "dagitti"} => istek'[a] = istek[a]
    OBVIOUS
  <2> QED BY <2>1 DEF TutarInv, KilitAyrik
<1> QED BY <1>2, <1>3, <1>4, <1>5, <1>6 DEF TutarInv

(* A request that takes its next step knows what holds now.                *)
LEMMA IlerleyenTutari ==
  ASSUME TipInv, TutarInv, NEW a \in Istek, NEW r \in IstekKaydi,
         istek' = [istek EXCEPT ![a] = r],
         UNCHANGED <<taksit, gelir, gecmis>>,
         \A o \in Odeme : odeme'[o].taksit = odeme[o].taksit /\ odeme'[o].tutar = odeme[o].tutar
                          /\ odeme'[o].durum = odeme[o].durum,
         r.adim = "duzenle" /\ r.tutar # Yok => Odenen(r.taksit, {}) <= r.tutar,
         r.adim = "guncelle" => r.tutar = taksit[odeme[r.odeme].taksit].tutar /\ r.odeme \in Odeme,
         r.adim = "dagitti" =>
           /\ istek[a].adim = "kilitli" /\ r.kilit = istek[a].kilit
           /\ \A t \in Taksit : r.plan[t] > 0 => Odenen(t, {}) + r.plan[t] <= taksit[t].tutar,
         r.adim = "kilitli" => \A t \in r.kilit : ~Kilitli(t)
  PROVE  TutarInv'
<1>0. TypeOK
  BY DEF TipInv
<1>1. \A b \in Istek : istek'[b] = IF b = a THEN r ELSE istek[b]
  BY <1>0 DEF TypeOK
<1>2. \A t \in Taksit : Odenen(t, {})' <= Odenen(t, {}) /\ Odenen(t, {})' \in Nat /\ Odenen(t, {}) \in Nat
  <2>1. \A o \in Odeme : Aktif(o)' <=> Aktif(o)
    BY DEF Aktif
  <2> QED BY <1>0, <2>1, OdenenAzalir, OdenenTipi
<1>3. \A t \in Taksit : taksit[t].tutar \in Nat /\ taksit'[t] = taksit[t]
  BY <1>0 DEF TypeOK
<1>4. AsimCakismada'
  BY <1>2, <1>3 DEF TutarInv, AsimCakismada
<1>5. DuzenleTam'
  <2>1. ASSUME NEW b \in Istek, NEW t \in Taksit,
               istek'[b].adim = "duzenle", istek'[b].tutar # Yok, istek'[b].taksit = t
        PROVE  Odenen(t, {})' <= istek'[b].tutar \/ t \in gecmis'.cakisan
    <3>1. Odenen(t, {}) <= istek'[b].tutar \/ t \in gecmis.cakisan
      BY <1>1, <2>1 DEF TutarInv, DuzenleTam
    <3>2. istek'[b].tutar \in Nat
      <4>1. istek'[b] \in IstekKaydi
        BY <1>0, <1>1 DEF TypeOK
      <4> QED BY <2>1, <4>1 DEF IstekKaydi, Bos, Bitti
    <3> QED BY <1>2, <3>1, <3>2
  <2> QED BY <2>1 DEF DuzenleTam
<1>6. GuncelleTam'
  <2>1. ASSUME NEW b \in Istek, NEW t \in Taksit,
               istek'[b].adim = "guncelle", odeme'[istek'[b].odeme].taksit = t
        PROVE  istek'[b].tutar = taksit'[t].tutar \/ t \in gecmis'.cakisan
    <3>1. istek'[b].odeme \in Odeme
      BY <1>0, <1>1, <2>1, IstekAlanlari DEF OdemeliAdim
    <3>2. odeme[istek'[b].odeme].taksit = t
      BY <2>1, <3>1
    <3> QED BY <1>1, <1>3, <2>1, <3>2 DEF TutarInv, GuncelleTam
  <2> QED BY <2>1 DEF GuncelleTam
<1>7. DagitimTam'
  <2>1. ASSUME NEW b \in Istek, NEW t \in Taksit,
               istek'[b].adim = "dagitti", t \in istek'[b].kilit, istek'[b].plan[t] > 0
        PROVE  Odenen(t, {})' + istek'[b].plan[t] <= taksit'[t].tutar
    <3>1. Odenen(t, {}) + istek'[b].plan[t] <= taksit[t].tutar
      BY <1>1, <2>1 DEF TutarInv, DagitimTam
    <3>2. istek'[b].plan[t] \in Nat
      <4>1. istek'[b] \in IstekKaydi
        BY <1>0, <1>1 DEF TypeOK
      <4> QED BY <2>1, <4>1 DEF IstekKaydi, Bos, Bitti
    <3> QED BY <1>2, <1>3, <3>1, <3>2
  <2> QED BY <2>1 DEF DagitimTam
<1>8. KilitAyrik'
  <2>1. ASSUME NEW b \in Istek, NEW c \in Istek, b # c,
               istek'[b].adim \in {"kilitli", "dagitti"}, istek'[c].adim \in {"kilitli", "dagitti"}
        PROVE  istek'[b].kilit \cap istek'[c].kilit = {}
    <3>1. CASE b # a /\ c # a
      BY <1>1, <2>1, <3>1 DEF TutarInv, KilitAyrik
    <3>2. ASSUME NEW d \in Istek \ {a}, istek[d].adim \in {"kilitli", "dagitti"},
                 r.adim \in {"kilitli", "dagitti"}
          PROVE  r.kilit \cap istek[d].kilit = {}
      <4>1. CASE r.adim = "dagitti"
        BY <3>2, <4>1 DEF TutarInv, KilitAyrik
      <4>2. CASE r.adim = "kilitli"
        BY <3>2, <4>2 DEF Kilitli
      <4> QED BY <3>2, <4>1, <4>2
    <3> QED BY <1>1, <2>1, <3>1, <3>2
  <2> QED BY <2>1 DEF KilitAyrik
<1> QED BY <1>4, <1>5, <1>6, <1>7, <1>8 DEF TutarInv
(* A share within what is left keeps the instalment within its amount.     *)
LEMMA KalanYeter ==
  ASSUME NEW n \in Nat \ {0}, NEW tutar \in Nat, NEW odenen \in Nat, n <= Kalan(tutar, odenen)
  PROVE  odenen + n <= tutar
<1> DEFINE k == tutar - odenen
<1>1. k \in Int
  OBVIOUS
<1>2. \E x \in {0, k} : \A y \in {0, k} : x >= y
  <2>1. CASE k >= 0
    BY <1>1, <2>1
  <2>2. CASE k < 0
    BY <1>1, <2>2
  <2> QED BY <1>1, <2>1, <2>2
<1>3. Kalan(tutar, odenen) \in {0, k}
  BY <1>2 DEF Kalan, Max
<1> QED BY <1>3

(* What a synchronisation writes keeps the amount.                         *)
LEMMA EsleTutari ==
  ASSUME TypeOK, NEW t \in Taksit, NEW n
  PROVE  Esle(t, n).tutar = taksit[t].tutar
BY DEF Esle, TypeOK

(* Recording a plan adds to each instalment its share and nothing else.    *)
LEMMA OdemeEkleTutari ==
  ASSUME TipInv, NEW plan \in [Taksit -> Nat], NEW T \in SUBSET Taksit,
         OdemeEkle(plan, T)
  PROVE  /\ gecmis'.cakisan = gecmis.cakisan \cup T \cup Duzenlenen(Payi(plan))
         /\ \A o \in Odeme : odeme[o].durum # "YOK" => odeme'[o].taksit = odeme[o].taksit
         /\ \A t \in Taksit :
              /\ taksit'[t].tutar = taksit[t].tutar
              /\ plan[t] = 0 => Yerinde(t)
              /\ plan[t] > 0 => Odenen(t, {})' = Odenen(t, {}) + plan[t]
<1>0. TypeOK
  BY DEF TipInv
<1>1. PICK S \in SUBSET {o \in Odeme : odeme[o].durum = "YOK"} :
        \E g \in Bijection(S, Payi(plan)) :
          /\ odeme' = [o \in Odeme |->
               IF o \in S THEN [durum |-> "GECERLI", taksit |-> g[o],
                                tutar |-> plan[g[o]], smm |-> FALSE]
               ELSE odeme[o]]
          /\ gelir' = [o \in Odeme |->
               IF o \in S
               THEN [durum |-> "CANLI", tutar |-> plan[g[o]], onayli |-> FALSE]
               ELSE gelir[o]]
          /\ taksit' = [t \in Taksit |->
               IF t \in Payi(plan) THEN Esle(t, Odenen(t, {}) + plan[t]) ELSE taksit[t]]
          /\ gecmis' = [gecmis EXCEPT
               !.cakisan = @ \cup T \cup Duzenlenen(Payi(plan)),
               !.sonradan = @ \cup (IF UcretSiliniyor THEN S ELSE {})]
  BY DEF OdemeEkle
<1>2. PICK g \in Bijection(S, Payi(plan)) :
          /\ odeme' = [o \in Odeme |->
               IF o \in S THEN [durum |-> "GECERLI", taksit |-> g[o],
                                tutar |-> plan[g[o]], smm |-> FALSE]
               ELSE odeme[o]]
          /\ gelir' = [o \in Odeme |->
               IF o \in S
               THEN [durum |-> "CANLI", tutar |-> plan[g[o]], onayli |-> FALSE]
               ELSE gelir[o]]
  BY <1>1
<1>3. /\ g \in [S -> Payi(plan)]
      /\ \A x, y \in S : g[x] = g[y] => x = y
      /\ \A t \in Payi(plan) : \E x \in S : g[x] = t
  BY <1>2 DEF Bijection, Injection, Surjection, IsInjective
<1>4. gecmis'.cakisan = gecmis.cakisan \cup T \cup Duzenlenen(Payi(plan))
  BY <1>0, <1>1 DEF TypeOK
<1>5. \A o \in Odeme : /\ o \in S => /\ odeme[o].durum = "YOK" /\ odeme'[o].taksit = g[o]
                                     /\ odeme'[o].tutar = plan[g[o]] /\ Aktif(o)' /\ ~Aktif(o)
                       /\ o \notin S => odeme'[o] = odeme[o] /\ (Aktif(o)' <=> Aktif(o))
  BY <1>2 DEF Aktif
<1>6. ASSUME NEW t \in Taksit
      PROVE  taksit'[t].tutar = taksit[t].tutar
  <2>1. taksit'[t] = IF t \in Payi(plan) THEN Esle(t, Odenen(t, {}) + plan[t]) ELSE taksit[t]
    BY <1>1
  <2> QED BY <1>0, <2>1, EsleTutari
<1>7. ASSUME NEW t \in Taksit, plan[t] = 0
      PROVE  Yerinde(t)
  <2>1. \A o \in Odeme : odeme'[o].taksit = t /\ Aktif(o)' =>
          odeme[o].taksit = t /\ Aktif(o) /\ odeme'[o].tutar = odeme[o].tutar
    <3>1. \A o \in S : g[o] # t
      BY <1>3, <1>7 DEF Payi
    <3> QED BY <1>5, <3>1
  <2> QED BY <1>0, <1>6, <2>1, OdenenAzalir DEF Yerinde
<1>8. ASSUME NEW t \in Taksit, plan[t] > 0
      PROVE  Odenen(t, {})' = Odenen(t, {}) + plan[t]
  <2>1. PICK e \in S : g[e] = t
    BY <1>3, <1>8 DEF Payi
  <2>2. e \in Odeme /\ odeme'[e].tutar = plan[t] /\ odeme'[e].tutar \in Nat
    BY <1>5, <2>1
  <2>3. \A o \in Odeme :
          odeme'[o].taksit = t /\ Aktif(o)' <=>
            o = e \/ (odeme[o].taksit = t /\ Aktif(o) /\ o \notin {})
    BY <1>3, <1>5, <2>1
  <2>4. ~(odeme[e].taksit = t /\ Aktif(e) /\ e \notin {})
    BY <1>5, <2>1
  <2>5. \A o \in Odeme : odeme[o].taksit = t /\ Aktif(o) /\ o \notin {} =>
          odeme'[o].tutar = odeme[o].tutar
    BY <1>5
  <2> QED BY <1>0, <2>2, <2>3, <2>4, <2>5, OdenenEklenir
<1>9. \A o \in Odeme : odeme[o].durum # "YOK" => odeme'[o].taksit = odeme[o].taksit
  BY <1>5
<1> QED BY <1>4, <1>6, <1>7, <1>8, <1>9
(* A write that adds no payment and changes no amount keeps the amounts.   *)
LEMMA DurgunTutari ==
  ASSUME TipInv, TutarInv, TypeOK', gecmis'.cakisan = gecmis.cakisan,
         \A b \in Istek : istek'[b] = istek[b] \/ istek'[b] = Bitti,
         \A o \in Odeme : /\ odeme'[o].taksit = odeme[o].taksit
                          /\ odeme'[o].tutar = odeme[o].tutar
                          /\ Aktif(o)' => Aktif(o),
         \A t \in Taksit : taksit'[t].tutar = taksit[t].tutar
  PROVE  TutarInv'
<1>1. \A t \in Taksit : Yerinde(t)
  <2>1. TypeOK
    BY DEF TipInv
  <2> QED BY <2>1, OdenenAzalir DEF Yerinde
<1>2. \A b \in Istek : istek'[b] = istek[b] \/ istek'[b].adim \in {"bitti", "esle"}
  BY DEF Bitti
<1> QED BY <1>1, <1>2, YazimTutari

(* The advance payment.                                                    *)
LEMMA PesinTutari ==
  ASSUME VekaletInv, TutarInv, TypeOK', NEW a \in Istek,
         PesinBasla(a) \/ PesinKilitle(a) \/ PesinOkuAdim(a) \/ PesinYaz(a)
  PROVE  TutarInv'
<1>0. TipInv /\ TypeOK
  BY DEF VekaletInv, GelirInv, TipInv
<1>1. CASE PesinBasla(a)
  <2>1. [adim |-> "pesin"] \in IstekKaydi
    BY DEF IstekKaydi
  <2> QED BY <1>0, <1>1, <2>1, IlerleyenTutari DEF PesinBasla, Basla
<1>2. CASE PesinKilitle(a)
  <2> DEFINE r == [adim |-> "kilitli", kilit |-> {t \in Taksit : Acik(t)}]
  <2>1. r \in IstekKaydi
    BY DEF IstekKaydi
  <2>2. istek' = [istek EXCEPT ![a] = r] /\ UNCHANGED <<ucret, taksit, odeme, gelir, gecmis>>
    BY <1>2 DEF PesinKilitle
  <2>3. \A t \in r.kilit : ~Kilitli(t)
    BY <1>2 DEF PesinKilitle
  <2> QED BY <1>0, <2>1, <2>2, <2>3, IlerleyenTutari
<1>3. CASE PesinOkuAdim(a)
  <2>1. PICK plan \in [Taksit -> 0..MaxTutar] : PesinOku(a, plan)
    BY <1>3 DEF PesinOkuAdim
  <2> DEFINE r == [adim |-> "dagitti", kilit |-> istek[a].kilit, plan |-> plan]
  <2>2. plan \in [Taksit -> Nat]
    BY TutarAssumption
  <2>3. istek[a].adim = "kilitli" /\ istek[a].kilit \in SUBSET Taksit
    BY <1>0, <2>1, IstekAlanlari DEF PesinOku
  <2>4. r \in IstekKaydi
    BY <2>2, <2>3 DEF IstekKaydi
  <2>5. istek' = [istek EXCEPT ![a] = r] /\ UNCHANGED <<ucret, taksit, odeme, gelir, gecmis>>
    BY <2>1 DEF PesinOku
  <2>6. ASSUME NEW t \in Taksit, plan[t] > 0
        PROVE  Odenen(t, {}) + plan[t] <= taksit[t].tutar
    <3>1. plan[t] \in Nat \ {0} /\ taksit[t].tutar \in Nat /\ Odenen(t, {}) \in Nat
      BY <1>0, <2>2, <2>6, OdenenTipi DEF TypeOK
    <3>2. plan[t] <= IF Acik(t) THEN Kalan(taksit[t].tutar, Odenen(t, {})) ELSE 0
      BY <2>1 DEF PesinOku, SiraylaDagitir
    <3>3. plan[t] <= Kalan(taksit[t].tutar, Odenen(t, {}))
      BY <3>1, <3>2
    <3> QED BY <3>1, <3>3, KalanYeter
  <2> QED BY <1>0, <2>3, <2>4, <2>5, <2>6, IlerleyenTutari
<1>4. CASE PesinYaz(a)
  <2> DEFINE plan == istek[a].plan
             K == istek[a].kilit
             T == Payi(plan) \ K
  <2>1. /\ istek[a].adim = "dagitti" /\ (\A t \in T : ~Kilitli(t))
        /\ OdemeEkle(plan, T) /\ Bitir(a)
    BY <1>4 DEF PesinYaz
  <2>2. plan \in [Taksit -> Nat] /\ K \in SUBSET Taksit
    BY <1>0, <2>1, IstekAlanlari
  <2>3. T \in SUBSET Taksit
    BY DEF Payi
  <2>4. /\ gecmis'.cakisan = gecmis.cakisan \cup T \cup Duzenlenen(Payi(plan))
        /\ \A o \in Odeme : odeme[o].durum # "YOK" => odeme'[o].taksit = odeme[o].taksit
        /\ \A t \in Taksit :
              /\ taksit'[t].tutar = taksit[t].tutar
              /\ plan[t] = 0 => Yerinde(t)
              /\ plan[t] > 0 => Odenen(t, {})' = Odenen(t, {}) + plan[t]
    <3> HIDE DEF plan, T
    <3> QED BY <1>0, <2>1, <2>2, <2>3, OdemeEkleTutari
  <2>5. \A b \in Istek : istek'[b] = istek[b] \/ istek'[b] = Bitti
    BY <1>0, <2>1, BitirEtkisi
  <2>6. istek'[a] = Bitti
    BY <1>0, <2>1 DEF Bitir, TypeOK
  <2>7. ASSUME NEW t \in Taksit, plan[t] > 0
        PROVE  Ozenli(t)
    <3>1. t \in Payi(plan)
      BY <2>7 DEF Payi
    <3>2. Odenen(t, {})' > taksit'[t].tutar => t \in gecmis'.cakisan
      <4>1. CASE t \in K
        <5>1. Odenen(t, {}) + plan[t] <= taksit[t].tutar
          BY <2>1, <2>7, <4>1 DEF TutarInv, DagitimTam
        <5>2. Odenen(t, {}) \in Nat /\ plan[t] \in Nat /\ taksit[t].tutar \in Nat
          BY <1>0, <2>2, OdenenTipi DEF TypeOK
        <5>3. Odenen(t, {})' = Odenen(t, {}) + plan[t] /\ taksit'[t].tutar = taksit[t].tutar
          BY <2>4, <2>7
        <5> HIDE DEF plan
        <5> QED BY <5>1, <5>2, <5>3
      <4>2. CASE t \notin K
        BY <2>4, <3>1, <4>2
      <4> QED BY <4>1, <4>2
    <3>3. ASSUME NEW b \in Istek, istek[b].adim = "duzenle", istek[b].tutar # Yok,
                 istek[b].taksit = t
          PROVE  t \in gecmis'.cakisan
      BY <2>4, <3>1, <3>3 DEF Duzenlenen
    <3>4. ASSUME NEW b \in Istek, istek'[b] = istek[b], istek[b].adim = "dagitti"
          PROVE  t \notin istek[b].kilit
      <4>1. b # a
        BY <2>1, <2>6, <3>4 DEF Bitti
      <4>2. CASE t \in K
        BY <2>1, <3>4, <4>1, <4>2 DEF TutarInv, KilitAyrik
      <4>3. CASE t \notin K
        BY <2>1, <3>1, <3>4, <4>3 DEF Kilitli
      <4> QED BY <4>2, <4>3
    <3> QED BY <2>4, <3>2, <3>3, <3>4 DEF Ozenli
  <2>8. \A t \in Taksit : Yerinde(t) \/ Ozenli(t)
    BY <2>2, <2>4, <2>7
  <2>9. \A b \in Istek : istek'[b] = istek[b] \/ istek'[b].adim \in {"bitti", "esle"}
    BY <2>5 DEF Bitti
  <2>10. gecmis.cakisan \subseteq gecmis'.cakisan
    BY <2>4
  <2> QED BY <1>0, <2>4, <2>8, <2>9, <2>10, YazimTutari
<1> QED BY <1>1, <1>2, <1>3, <1>4

(* The payment on one instalment.                                          *)
LEMMA TekOdeTutari ==
  ASSUME VekaletInv, TutarInv, TypeOK', TekOdeAdim
  PROVE  TutarInv'
<1>0. TipInv /\ TypeOK
  BY DEF VekaletInv, GelirInv, TipInv
<1>1. PICK u \in Taksit, n \in 1..MaxTutar : TekOde(u, n)
  BY DEF TekOdeAdim
<1>2. PICK plan : plan = [t \in Taksit |-> IF t = u THEN n ELSE 0]
  OBVIOUS
<1>3. /\ plan \in [Taksit -> Nat] /\ n \in Nat \ {0}
      /\ \A t \in Taksit : plan[t] = IF t = u THEN n ELSE 0
  BY <1>2, TutarAssumption
<1>4. ~Kilitli(u) /\ n <= Kalan(taksit[u].tutar, Odenen(u, {})) /\ OdemeEkle(plan, {}) /\ istek' = istek
  BY <1>1, <1>2 DEF TekOde
<1>5. /\ gecmis'.cakisan = gecmis.cakisan \cup {} \cup Duzenlenen(Payi(plan))
      /\ \A o \in Odeme : odeme[o].durum # "YOK" => odeme'[o].taksit = odeme[o].taksit
      /\ \A t \in Taksit :
            /\ taksit'[t].tutar = taksit[t].tutar
            /\ plan[t] = 0 => Yerinde(t)
            /\ plan[t] > 0 => Odenen(t, {})' = Odenen(t, {}) + plan[t]
  BY <1>0, <1>3, <1>4, OdemeEkleTutari
<1>6. Odenen(u, {}) \in Nat /\ taksit[u].tutar \in Nat
  BY <1>0, OdenenTipi DEF TypeOK
<1>7. Odenen(u, {})' <= taksit'[u].tutar
  <2>1. Odenen(u, {}) + n <= taksit[u].tutar
    BY <1>3, <1>4, <1>6, KalanYeter
  <2> QED BY <1>3, <1>5, <1>6, <2>1
<1>8. Ozenli(u)
  <2>1. u \in Payi(plan)
    BY <1>3 DEF Payi
  <2>2. ASSUME NEW b \in Istek, istek[b].adim = "duzenle", istek[b].tutar # Yok,
               istek[b].taksit = u
        PROVE  u \in gecmis'.cakisan
    BY <1>5, <2>1, <2>2 DEF Duzenlenen
  <2>3. \A b \in Istek : istek[b].adim = "dagitti" => u \notin istek[b].kilit
    BY <1>4 DEF Kilitli
  <2>4. Odenen(u, {})' > taksit'[u].tutar => FALSE
    <3>1. Odenen(u, {})' \in Nat /\ taksit'[u].tutar \in Nat
      BY <1>3, <1>5, <1>6
    <3> QED BY <1>7, <3>1
  <2> QED BY <1>5, <2>2, <2>3, <2>4 DEF Ozenli
<1>9. \A t \in Taksit : Yerinde(t) \/ Ozenli(t)
  BY <1>3, <1>5, <1>8
<1> QED BY <1>0, <1>4, <1>5, <1>9, YazimTutari
(* Editing a payment: what it read of the amount of the instalment still   *)
(* holds, or an edit of that amount ran in between.                        *)
LEMMA GuncelleTutari ==
  ASSUME VekaletInv, TutarInv, TypeOK', NEW a \in Istek,
         (\E o \in Odeme : GuncelleOku(a, o)) \/ GuncelleYazAdim(a)
  PROVE  TutarInv'
<1>0. TipInv /\ TypeOK
  BY DEF VekaletInv, GelirInv, TipInv
<1>1. ASSUME NEW o \in Odeme, GuncelleOku(a, o)
      PROVE  TutarInv'
  <2> DEFINE r == [adim |-> "guncelle", odeme |-> o, bagli |-> gelir[o].durum # "SILINDI",
                   tutar |-> taksit[odeme[o].taksit].tutar]
  <2>1. odeme[o].taksit \in Taksit
    BY <1>0, <1>1 DEF GuncelleOku, TipInv, OdemeBagli
  <2>2. taksit[odeme[o].taksit].tutar \in Nat
    BY <1>0, <2>1 DEF TypeOK
  <2>3. r \in IstekKaydi
    BY <2>2 DEF IstekKaydi
  <2>4. istek' = [istek EXCEPT ![a] = r] /\ UNCHANGED <<ucret, taksit, odeme, gelir, gecmis>>
    BY <1>1 DEF GuncelleOku, Basla
  <2> QED BY <1>0, <2>3, <2>4, IlerleyenTutari
<1>2. ASSUME NEW n \in 1..MaxTutar, GuncelleYaz(a, n)
      PROVE  TutarInv'
  <2>1. PICK o : o = istek[a].odeme
    OBVIOUS
  <2>2. PICK t : t = odeme[o].taksit
    OBVIOUS
  <2>3. /\ istek[a].adim = "guncelle" /\ ~Kilitli(t) /\ Bitir(a)
        /\ n <= Kalan(istek[a].tutar, Odenen(t, {o}))
        /\ odeme' = [odeme EXCEPT ![o].tutar = n]
        /\ gelir' = [gelir EXCEPT ![o].tutar = IF istek[a].bagli THEN n ELSE @]
        /\ gecmis' = Cakisan(Duzenlenen({t}))
        /\ taksit' = [taksit EXCEPT ![t] =
             Esle(t, Odenen(t, {o}) + (IF Aktif(o) THEN n ELSE 0))]
    BY <1>2, <2>1, <2>2 DEF GuncelleYaz
  <2>4. /\ n \in Nat \ {0} /\ o \in Odeme /\ istek[a].tutar \in Nat
        /\ odeme[o].durum # "YOK" /\ t \in Taksit
    BY <1>0, <2>1, <2>2, <2>3, TutarAssumption, IstekAlanlari
       DEF OdemeliAdim, TipInv, IstekBagli, OdemeBagli
  <2>5. \A u \in Taksit : taksit'[u].tutar = taksit[u].tutar
    <3>1. PICK e : e = Esle(t, Odenen(t, {o}) + (IF Aktif(o) THEN n ELSE 0))
      OBVIOUS
    <3>2. e.tutar = taksit[t].tutar
      BY <1>0, <2>4, <3>1, EsleTutari
    <3>3. taksit' = [taksit EXCEPT ![t] = e]
      BY <2>3, <3>1
    <3> QED BY <1>0, <2>4, <3>2, <3>3 DEF TypeOK
  <2>6. gecmis'.cakisan = gecmis.cakisan \cup Duzenlenen({t})
    BY <1>0, <2>3 DEF Cakisan, TypeOK
  <2>7. \A p \in Odeme : /\ odeme'[p].taksit = odeme[p].taksit
                         /\ Aktif(p)' <=> Aktif(p)
                         /\ p # o => odeme'[p].tutar = odeme[p].tutar
    BY <1>0, <2>3, <2>4 DEF TypeOK, OdemeKaydi, GelirKaydi, Aktif
  <2>8. odeme'[o].tutar = n
    BY <1>0, <2>3, <2>4 DEF TypeOK, OdemeKaydi
  <2>9. \A b \in Istek : istek'[b] = istek[b] \/ istek'[b].adim \in {"bitti", "esle"}
    BY <1>0, <2>3, BitirEtkisi DEF Bitti
  <2>10. ASSUME NEW u \in Taksit, u # t \/ ~Aktif(o)
         PROVE  Yerinde(u)
    <3>1. \A p \in Odeme : odeme'[p].taksit = u /\ Aktif(p)' =>
            odeme[p].taksit = u /\ Aktif(p) /\ odeme'[p].tutar = odeme[p].tutar
      BY <2>2, <2>7, <2>10
    <3> QED BY <1>0, <2>5, <3>1, OdenenAzalir DEF Yerinde
  <2>11. ASSUME Aktif(o)
         PROVE  Ozenli(t)
    <3>1. Odenen(t, {})' = Odenen(t, {o}) + odeme'[o].tutar
      <4>1. /\ \A p \in Odeme : odeme'[p].taksit = t /\ Aktif(p)' <=>
                 p = o \/ (odeme[p].taksit = t /\ Aktif(p) /\ p \notin {o})
            /\ ~(odeme[o].taksit = t /\ Aktif(o) /\ o \notin {o})
            /\ \A p \in Odeme : odeme[p].taksit = t /\ Aktif(p) /\ p \notin {o} =>
                 odeme'[p].tutar = odeme[p].tutar
        BY <2>2, <2>7, <2>11
      <4>2. odeme'[o].tutar \in Nat
        BY <2>4, <2>8
      <4> QED BY <1>0, <2>4, <4>1, <4>2, OdenenEklenir
    <3>2. Odenen(t, {o}) \in Nat
      BY <1>0, OdenenTipi
    <3>3. Odenen(t, {o}) + n <= istek[a].tutar
      BY <2>3, <2>4, <3>2, KalanYeter
    <3>4. istek[a].tutar = taksit[t].tutar \/ t \in gecmis.cakisan
      BY <2>1, <2>2, <2>3, <2>4 DEF TutarInv, GuncelleTam
    <3>5. Odenen(t, {})' > taksit'[t].tutar => t \in gecmis'.cakisan
      <4>1. CASE istek[a].tutar = taksit[t].tutar
        <5>1. Odenen(t, {})' \in Nat /\ Odenen(t, {})' <= taksit'[t].tutar /\ taksit'[t].tutar \in Nat
          BY <2>4, <2>5, <2>8, <3>1, <3>2, <3>3, <4>1
        <5> QED BY <5>1
      <4>2. CASE t \in gecmis.cakisan
        BY <2>6, <4>2
      <4> QED BY <3>4, <4>1, <4>2
    <3>6. ASSUME NEW b \in Istek, istek[b].adim = "duzenle", istek[b].tutar # Yok,
                 istek[b].taksit = t
          PROVE  t \in gecmis'.cakisan
      BY <2>6, <3>6 DEF Duzenlenen
    <3>7. \A b \in Istek : istek[b].adim = "dagitti" => t \notin istek[b].kilit
      BY <2>3 DEF Kilitli
    <3> QED BY <2>4, <2>5, <3>5, <3>6, <3>7 DEF Ozenli
  <2>12. \A u \in Taksit : Yerinde(u) \/ Ozenli(u)
    BY <2>10, <2>11
  <2>13. gecmis.cakisan \subseteq gecmis'.cakisan
    BY <2>6
  <2> QED BY <1>0, <2>7, <2>9, <2>12, <2>13, YazimTutari
<1> QED BY <1>1, <1>2 DEF GuncelleYazAdim

(* Editing an instalment: what it read of the payments still holds, or a   *)
(* payment ran in between.                                                 *)
LEMMA DuzenleTutari ==
  ASSUME VekaletInv, TutarInv, TypeOK', NEW a \in Istek, DuzenleOkuAdim(a) \/ DuzenleYaz(a)
  PROVE  TutarInv'
<1>0. TipInv /\ TypeOK
  BY DEF VekaletInv, GelirInv, TipInv
<1>1. ASSUME DuzenleOkuAdim(a)
      PROVE  TutarInv'
  <2>1. PICK t \in Taksit, m \in TutarSecenek \cup {Yok} :
          \E d \in {"ODENMEDI", "ODENDI", taksit[t].durum, Yok} : DuzenleOku(a, t, m, d)
    BY <1>1 DEF DuzenleOkuAdim
  <2>2. PICK d \in {"ODENMEDI", "ODENDI", taksit[t].durum, Yok} : DuzenleOku(a, t, m, d)
    BY <2>1
  <2> DEFINE r == [adim |-> "duzenle", taksit |-> t, tutar |-> m, durum |-> d]
  <2>3. taksit[t].durum \in TaksitDurum
    BY <1>0 DEF TypeOK
  <2>4. d \in TaksitDurum \cup {Yok} /\ m \in Nat \cup {Yok}
    BY <2>3, TutarAssumption DEF TaksitDurum
  <2>5. r \in IstekKaydi
    BY <2>4 DEF IstekKaydi
  <2>6. istek' = [istek EXCEPT ![a] = r] /\ UNCHANGED <<ucret, taksit, odeme, gelir, gecmis>>
    BY <2>2 DEF DuzenleOku, Basla
  <2>7. m # Yok => Odenen(t, {}) <= m
    <3>1. m # Yok => m >= Toplam(Odemeleri(t))
      BY <2>2 DEF DuzenleOku
    <3>2. Odenen(t, {}) \in Nat /\ Odenen(t, {}) <= Toplam(Odemeleri(t))
      BY <1>0, OdenenTipi
    <3>3. Toplam(Odemeleri(t)) \in Int
      <4>1. Odemeleri(t) \subseteq Odeme
        BY DEF Odemeleri
      <4>2. IsFiniteSet(Odemeleri(t))
        BY <4>1, OdemeAssumption, FS_Subset
      <4>3. \A o \in Odemeleri(t) : [o1 \in Odemeleri(t) |-> odeme[o1].tutar][o] \in Int
        BY <1>0, <4>1 DEF TypeOK, OdemeKaydi
      <4> QED BY <4>2, <4>3, ToplamTopla, ToplaTamSayi
    <3> QED BY <2>4, <3>1, <3>2, <3>3
  <2> QED BY <1>0, <2>5, <2>6, <2>7, IlerleyenTutari
<1>2. ASSUME DuzenleYaz(a)
      PROVE  TutarInv'
  <2>1. PICK t, m, d : t = istek[a].taksit /\ m = istek[a].tutar /\ d = istek[a].durum
    OBVIOUS
  <2>2. t \in Taksit /\ m \in Nat \cup {Yok} /\ d \in TaksitDurum \cup {Yok}
    BY <1>0, <1>2, <2>1, IstekAlanlari DEF DuzenleYaz
  <2>3. /\ istek[a].adim = "duzenle" /\ ~Kilitli(t) /\ Bitir(a)
        /\ taksit' = [taksit EXCEPT ![t].tutar = IF m = Yok THEN @ ELSE m,
                                    ![t].durum = IF d = Yok THEN @ ELSE d]
        /\ gecmis' = Cakisan({u \in {t} : /\ m # Yok
                                          /\ \E o \in Odemeleri(u) : Suren({"guncelle"}, o)})
        /\ UNCHANGED <<ucret, odeme, gelir>>
    BY <1>2, <2>1 DEF DuzenleYaz
  <2>4. /\ \A u \in Taksit : u # t => taksit'[u].tutar = taksit[u].tutar
        /\ taksit'[t].tutar = IF m = Yok THEN taksit[t].tutar ELSE m
    BY <1>0, <2>2, <2>3 DEF TypeOK
  <2>5. /\ gecmis.cakisan \subseteq gecmis'.cakisan
        /\ m # Yok /\ (\E o \in Odemeleri(t) : Suren({"guncelle"}, o)) => t \in gecmis'.cakisan
    BY <1>0, <2>3 DEF Cakisan, TypeOK
  <2>6. \A b \in Istek : istek'[b] = istek[b] \/ istek'[b].adim \in {"bitti", "esle"}
    BY <1>0, <2>3, BitirEtkisi DEF Bitti
  <2>7. \A u \in Taksit : Odenen(u, {})' \in Nat /\ Odenen(u, {})' <= Odenen(u, {})
                          /\ Odenen(u, {}) \in Nat
    <3>1. \A o \in Odeme : Aktif(o)' <=> Aktif(o)
      BY <2>3 DEF Aktif
    <3> QED BY <1>0, <2>3, <3>1, OdenenAzalir, OdenenTipi
  <2>8. ASSUME m # Yok
        PROVE  Ozenli(t)
    <3>1. m \in Nat /\ taksit'[t].tutar = m
      BY <2>2, <2>4, <2>8
    <3>2. Odenen(t, {}) <= m \/ t \in gecmis.cakisan
      BY <2>1, <2>2, <2>3, <2>8 DEF TutarInv, DuzenleTam
    <3>3. Odenen(t, {})' > taksit'[t].tutar => t \in gecmis'.cakisan
      BY <2>2, <2>5, <2>7, <3>1, <3>2
    <3>4. ASSUME NEW b \in Istek, istek[b].adim = "duzenle", istek[b].tutar # Yok,
                 istek[b].taksit = t
          PROVE  Odenen(t, {})' <= istek[b].tutar \/ t \in gecmis'.cakisan
      <4>1. istek[b].tutar \in Nat
        BY <1>0, <3>4, IstekAlanlari
      <4>2. Odenen(t, {}) <= istek[b].tutar \/ t \in gecmis.cakisan
        BY <2>2, <3>4 DEF TutarInv, DuzenleTam
      <4> QED BY <2>2, <2>5, <2>7, <4>1, <4>2
    <3>5. ASSUME NEW b \in Istek, istek[b].adim = "guncelle", odeme[istek[b].odeme].taksit = t
          PROVE  t \in gecmis'.cakisan
      <4>1. istek[b].odeme \in Odemeleri(t)
        BY <1>0, <3>5, IstekAlanlari DEF OdemeliAdim, Odemeleri
      <4>2. Suren({"guncelle"}, istek[b].odeme)
        BY <3>5 DEF Suren
      <4> QED BY <2>5, <2>8, <4>1, <4>2
    <3>6. \A b \in Istek : istek[b].adim = "dagitti" => t \notin istek[b].kilit
      BY <2>3 DEF Kilitli
    <3> QED BY <3>3, <3>4, <3>5, <3>6 DEF Ozenli
  <2>9. \A u \in Taksit : Yerinde(u) \/ Ozenli(u)
    BY <2>4, <2>7, <2>8 DEF Yerinde
  <2>10. \A o \in Odeme : odeme'[o].taksit = odeme[o].taksit
    BY <2>3
  <2> QED BY <1>0, <2>5, <2>6, <2>9, <2>10, YazimTutari
<1> QED BY <1>1, <1>2

(* Cancelling a payment.                                                   *)
LEMMA IptalTutari ==
  ASSUME VekaletInv, TutarInv, TypeOK', NEW a \in Istek,
         (\E o \in Odeme : IptalOku(a, o)) \/ IptalYaz(a)
  PROVE  TutarInv'
<1>0. TipInv /\ TypeOK
  BY DEF VekaletInv, GelirInv, TipInv
<1>1. ASSUME NEW o \in Odeme, IptalOku(a, o)
      PROVE  TutarInv'
  <2> DEFINE r == [adim |-> "iptal", odeme |-> o, durum |-> EsleOku(odeme[o].taksit, {o})]
  <2>1. r \in IstekKaydi
    BY EsleOkuTipi DEF IstekKaydi
  <2>2. istek' = [istek EXCEPT ![a] = r] /\ UNCHANGED <<ucret, taksit, odeme, gelir, gecmis>>
    BY <1>1 DEF IptalOku, Basla
  <2> QED BY <1>0, <2>1, <2>2, IlerleyenTutari
<1>2. ASSUME IptalYaz(a)
      PROVE  TutarInv'
  <2>1. PICK o : o = istek[a].odeme
    OBVIOUS
  <2>2. o \in Odeme /\ odeme' = [odeme EXCEPT ![o].durum = "IPTAL"] /\ GelirKapat({o}) /\ gecmis' = gecmis
        /\ Bitir(a) /\ DurumYaz(odeme[o].taksit, istek[a].durum)
    BY <1>0, <1>2, <2>1, IstekAlanlari DEF IptalYaz, OdemeliAdim
  <2>3. \A p \in Odeme : /\ odeme'[p].taksit = odeme[p].taksit /\ odeme'[p].tutar = odeme[p].tutar
                         /\ odeme'[p].durum = "GECERLI" => odeme[p].durum = "GECERLI" /\ p # o
    BY <1>0, <2>2 DEF TypeOK, OdemeKaydi
  <2>4. \A p \in Odeme : p # o => gelir'[p] = gelir[p]
    BY <1>0, <2>2, GelirKapatTipi
  <2>5. \A t \in Taksit : taksit'[t].tutar = taksit[t].tutar
    BY <1>0, <2>2 DEF TypeOK, DurumYaz
  <2>6. \A p \in Odeme : Aktif(p)' => Aktif(p)
    BY <2>3, <2>4 DEF Aktif
  <2> QED BY <1>0, <2>2, <2>3, <2>5, <2>6, BitirEtkisi, DurgunTutari
<1> QED BY <1>1, <1>2

(* Marking an invoice.                                                     *)
LEMMA SmmTutari ==
  ASSUME VekaletInv, TutarInv, TypeOK', NEW a \in Istek,
         (\E o \in Odeme : SmmOku(a, o)) \/ EsleYaz(a)
  PROVE  TutarInv'
<1>0. TipInv /\ TypeOK
  BY DEF VekaletInv, GelirInv, TipInv
<1>1. ASSUME NEW o \in Odeme, SmmOku(a, o)
      PROVE  TutarInv'
  <2> DEFINE r == [adim |-> "esle", odeme |-> o, durum |-> EsleOku(odeme[o].taksit, {})]
  <2>1. r \in IstekKaydi
    BY EsleOkuTipi DEF IstekKaydi
  <2>2. /\ istek' = [istek EXCEPT ![a] = r] /\ odeme' = [odeme EXCEPT ![o].smm = TRUE]
        /\ UNCHANGED <<taksit, gelir, gecmis>>
    BY <1>1 DEF SmmOku, Basla
  <2>3. \A p \in Odeme : /\ odeme'[p].durum = odeme[p].durum
                         /\ odeme'[p].taksit = odeme[p].taksit
                         /\ odeme'[p].tutar = odeme[p].tutar
    BY <1>0, <2>2 DEF TypeOK, OdemeKaydi
  <2> QED BY <1>0, <2>1, <2>2, <2>3, IlerleyenTutari
<1>2. ASSUME EsleYaz(a)
      PROVE  TutarInv'
  <2>1. PICK t : t = odeme[istek[a].odeme].taksit
    OBVIOUS
  <2>2. DurumYaz(t, istek[a].durum) /\ UNCHANGED <<ucret, odeme, gelir, gecmis>> /\ Bitir(a)
    BY <1>2, <2>1 DEF EsleYaz
  <2>3. \A u \in Taksit : taksit'[u].tutar = taksit[u].tutar
    BY <1>0, <2>2 DEF TypeOK, DurumYaz
  <2>4. \A p \in Odeme : Aktif(p)' => Aktif(p)
    BY <2>2 DEF Aktif
  <2> QED BY <1>0, <2>2, <2>3, <2>4, BitirEtkisi, DurgunTutari
<1> QED BY <1>1, <1>2

(* Deleting an instalment, cancelling the fee.                             *)
LEMMA SilmeTutari ==
  ASSUME VekaletInv, TutarInv, TypeOK', NEW a \in Istek,
         \/ \E t \in Taksit : TaksitSilOku(a, t)
         \/ TaksitSilYaz(a) \/ UcretAnaliz(a) \/ UcretSilOku(a) \/ UcretSilYaz(a)
         \/ IstekDuser(a)
  PROVE  TutarInv'
<1>0. TipInv /\ TypeOK
  BY DEF VekaletInv, GelirInv, TipInv
<1>1. ASSUME NEW t \in Taksit, TaksitSilOku(a, t)
      PROVE  TutarInv'
  <2> DEFINE r == [adim |-> "taksitSil", taksit |-> t]
  <2>1. r \in IstekKaydi
    BY DEF IstekKaydi
  <2>2. istek' = [istek EXCEPT ![a] = r] /\ UNCHANGED <<ucret, taksit, odeme, gelir, gecmis>>
    BY <1>1 DEF TaksitSilOku, Basla
  <2> QED BY <1>0, <2>1, <2>2, IlerleyenTutari
<1>2. CASE UcretAnaliz(a) \/ UcretSilOku(a)
  <2>1. PICK r : istek' = [istek EXCEPT ![a] = r] /\ r.adim \in {"analiz", "ucretSil"}
    <3>1. CASE UcretAnaliz(a)
      <4>1. PICK F : istek' = [istek EXCEPT ![a] = [adim |-> "analiz", goren |-> F]]
        BY <3>1 DEF UcretAnaliz, Basla
      <4>2. PICK r : r = [adim |-> "analiz", goren |-> F]
        OBVIOUS
      <4>3. istek' = [istek EXCEPT ![a] = r] /\ r.adim \in {"analiz", "ucretSil"}
        BY <4>1, <4>2
      <4> QED BY <4>3, Zenon
    <3>2. CASE UcretSilOku(a)
      <4>1. PICK F, S : istek' = [istek EXCEPT ![a] = [adim |-> "ucretSil", goren |-> F, silinecek |-> S]]
        BY <3>2 DEF UcretSilOku
      <4>2. PICK r : r = [adim |-> "ucretSil", goren |-> F, silinecek |-> S]
        OBVIOUS
      <4>3. istek' = [istek EXCEPT ![a] = r] /\ r.adim \in {"analiz", "ucretSil"}
        BY <4>1, <4>2
      <4> QED BY <4>3, Zenon
    <3> QED BY <1>2, <3>1, <3>2
  <2>2. r \in IstekKaydi
    <3>1. istek'[a] = r
      BY <1>0, <2>1 DEF TypeOK
    <3> QED BY <3>1 DEF TypeOK
  <2>3. UNCHANGED <<ucret, taksit, odeme, gelir, gecmis>>
    BY <1>2 DEF UcretAnaliz, UcretSilOku
  <2> QED BY <1>0, <2>1, <2>2, <2>3, IlerleyenTutari
<1>3. CASE TaksitSilYaz(a) \/ IstekDuser(a)
  <2>1. UNCHANGED <<ucret, odeme, gelir, gecmis>> /\ Bitir(a)
    BY <1>3 DEF TaksitSilYaz, IstekDuser
  <2>2. \A u \in Taksit : taksit'[u].tutar = taksit[u].tutar
    BY <1>0, <1>3 DEF TypeOK, TaksitSilYaz, IstekDuser
  <2>3. \A p \in Odeme : Aktif(p)' => Aktif(p)
    BY <2>1 DEF Aktif
  <2> QED BY <1>0, <2>1, <2>2, <2>3, BitirEtkisi, DurgunTutari
<1>4. CASE UcretSilYaz(a)
  <2>1. PICK S : S = istek[a].silinecek
    OBVIOUS
  <2>2. /\ odeme' = [o \in Odeme |-> IF o \in S THEN [odeme[o] EXCEPT !.durum = "IPTAL"]
                                     ELSE odeme[o]]
        /\ taksit' = [t \in Taksit |-> [taksit[t] EXCEPT !.durum = "IPTAL"]]
        /\ GelirKapat(S) /\ Bitir(a) /\ gecmis' = gecmis
    BY <1>4, <2>1 DEF UcretSilYaz
  <2>3. \A o \in Odeme : o \notin S => gelir'[o] = gelir[o]
    BY <1>0, <2>2, GelirKapatTipi
  <2>4. \A o \in Odeme : /\ odeme'[o].taksit = odeme[o].taksit /\ odeme'[o].tutar = odeme[o].tutar
                         /\ o \in S => odeme'[o].durum = "IPTAL"
                         /\ o \notin S => odeme'[o] = odeme[o]
    BY <1>0, <2>2 DEF TypeOK, OdemeKaydi
  <2>5. \A o \in Odeme : Aktif(o)' => Aktif(o)
    BY <2>3, <2>4 DEF Aktif
  <2>6. \A t \in Taksit : taksit'[t].tutar = taksit[t].tutar
    BY <1>0, <2>2 DEF TypeOK
  <2> QED BY <1>0, <2>2, <2>4, <2>5, <2>6, BitirEtkisi, DurgunTutari
<1> QED BY <1>1, <1>2, <1>3, <1>4

(* The income row: a payment whose income was closed was cancelled, so     *)
(* deleting the row for good brings none back.                             *)
LEMMA GelirTutari ==
  ASSUME VekaletInv, TutarInv, TypeOK',
         \/ \E o \in Odeme : GelirOnayla(o)
         \/ \E a \in Istek : (\E o \in Odeme : GelirSilOku(a, o)) \/ GelirSilYaz(a)
  PROVE  TutarInv'
<1>0. TipInv /\ TypeOK
  BY DEF VekaletInv, GelirInv, TipInv
<1>1. ASSUME NEW o \in Odeme, GelirOnayla(o)
      PROVE  TutarInv'
  <2>1. /\ gelir' = [gelir EXCEPT ![o].onayli = TRUE]
        /\ gecmis'.cakisan = gecmis.cakisan
        /\ UNCHANGED <<ucret, taksit, odeme, istek>>
    BY <1>0, <1>1 DEF GelirOnayla, TypeOK
  <2>2. \A p \in Odeme : Aktif(p)' => Aktif(p)
    BY <1>0, <2>1 DEF Aktif, TypeOK, GelirKaydi
  <2> QED BY <1>0, <2>1, <2>2, DurgunTutari
<1>2. ASSUME NEW a \in Istek, NEW o \in Odeme, GelirSilOku(a, o)
      PROVE  TutarInv'
  <2> DEFINE r == [adim |-> "gelirSil", odeme |-> o]
  <2>1. r \in IstekKaydi
    BY DEF IstekKaydi
  <2>2. istek' = [istek EXCEPT ![a] = r] /\ UNCHANGED <<ucret, taksit, odeme, gelir, gecmis>>
    BY <1>2 DEF GelirSilOku, Basla
  <2> QED BY <1>0, <2>1, <2>2, IlerleyenTutari
<1>3. ASSUME NEW a \in Istek, GelirSilYaz(a)
      PROVE  TutarInv'
  <2>1. PICK o : o = istek[a].odeme
    OBVIOUS
  <2>2. /\ gelir' = [gelir EXCEPT ![o].durum = "SILINDI"]
        /\ UNCHANGED <<ucret, taksit, odeme, gecmis>> /\ Bitir(a)
    BY <1>3, <2>1 DEF GelirSilYaz
  <2>3. \A p \in Odeme : Aktif(p)' => Aktif(p)
    <3>1. \A p \in Odeme : p # o => gelir'[p] = gelir[p]
      BY <1>0, <2>2 DEF TypeOK
    <3>2. \A p \in Odeme : gelir[p].durum = "IPTAL" => odeme[p].durum = "IPTAL"
      BY DEF VekaletInv, GelirInv, KapaliGelir
    <3> QED BY <2>2, <3>1, <3>2 DEF Aktif
  <2> QED BY <1>0, <2>2, <2>3, BitirEtkisi, DurgunTutari
<1> QED BY <1>1, <1>2, <1>3

LEMMA TutarAdimi ==
  ASSUME VekaletInv, TutarInv, [Next]_vars
  PROVE  TutarInv'
<1>0. TypeOK'
  BY VekaletAdimi DEF VekaletInv, GelirInv, TipInv
<1>1. CASE TekOdeAdim
  BY <1>0, <1>1, TekOdeTutari
<1>2. CASE \E o \in Odeme : GelirOnayla(o)
  BY <1>0, <1>2, GelirTutari
<1>3. ASSUME NEW a \in Istek,
             \/ PesinBasla(a) \/ PesinKilitle(a) \/ PesinOkuAdim(a) \/ PesinYaz(a)
             \/ \E o \in Odeme : \/ GuncelleOku(a, o) \/ IptalOku(a, o)
                                 \/ SmmOku(a, o)      \/ GelirSilOku(a, o)
             \/ GuncelleYazAdim(a) \/ IptalYaz(a) \/ EsleYaz(a) \/ GelirSilYaz(a)
             \/ DuzenleOkuAdim(a) \/ DuzenleYaz(a)
             \/ \E t \in Taksit : TaksitSilOku(a, t)
             \/ TaksitSilYaz(a)
             \/ UcretAnaliz(a) \/ UcretSilOku(a) \/ UcretSilYaz(a)
             \/ IstekDuser(a)
      PROVE  TutarInv'
  <2>1. CASE PesinBasla(a) \/ PesinKilitle(a) \/ PesinOkuAdim(a) \/ PesinYaz(a)
    BY <1>0, <2>1, PesinTutari
  <2>2. CASE (\E o \in Odeme : GuncelleOku(a, o)) \/ GuncelleYazAdim(a)
    BY <1>0, <2>2, GuncelleTutari
  <2>3. CASE (\E o \in Odeme : IptalOku(a, o)) \/ IptalYaz(a)
    BY <1>0, <2>3, IptalTutari
  <2>4. CASE (\E o \in Odeme : SmmOku(a, o)) \/ EsleYaz(a)
    BY <1>0, <2>4, SmmTutari
  <2>5. CASE (\E o \in Odeme : GelirSilOku(a, o)) \/ GelirSilYaz(a)
    BY <1>0, <2>5, GelirTutari
  <2>6. CASE DuzenleOkuAdim(a) \/ DuzenleYaz(a)
    BY <1>0, <2>6, DuzenleTutari
  <2>7. CASE \/ \E t \in Taksit : TaksitSilOku(a, t)
             \/ TaksitSilYaz(a) \/ UcretAnaliz(a) \/ UcretSilOku(a) \/ UcretSilYaz(a)
             \/ IstekDuser(a)
    BY <1>0, <2>7, SilmeTutari
  <2> QED BY <1>3, <2>1, <2>2, <2>3, <2>4, <2>5, <2>6, <2>7
<1>4. CASE UNCHANGED vars
  <2>1. /\ UNCHANGED <<taksit, odeme, gelir, istek, gecmis>>
        /\ \A o \in Odeme : Aktif(o)' => Aktif(o)
    BY <1>4 DEF vars, Aktif
  <2> QED BY <1>0, <2>1, DurgunTutari DEF VekaletInv, GelirInv
<1> QED BY <1>1, <1>2, <1>3, <1>4 DEF Next

LEMMA TutarBaslangic ==
  ASSUME Init
  PROVE  TutarInv
<1>1. TypeOK
  BY VekaletBaslangic DEF VekaletInv, GelirInv, TipInv
<1>2. \A a \in Istek : istek[a].adim = "bos"
  BY DEF Init, Bos
<1>3. ASSUME NEW t \in Taksit PROVE Odenen(t, {}) = 0
  <2>1. \A o \in Odeme : ~Aktif(o)
    BY DEF Init, Aktif
  <2>2. PICK f : f = [o \in Odeme |-> odeme[o].tutar]
    OBVIOUS
  <2>3. Odenen(t, {}) = Topla(f, {})
    BY <2>1, <2>2, OdenenTopla
  <2> QED BY <2>3, ToplaBos
<1>4. \A t \in Taksit : taksit[t].tutar \in Nat
  BY <1>1 DEF TypeOK
<1> QED BY <1>2, <1>3, <1>4 DEF TutarInv, AsimCakismada, DuzenleTam, GuncelleTam, DagitimTam, KilitAyrik

(* What a pending request has read of an amount still bounds what it will  *)
(* write, or the history names the instalment.                             *)
THEOREM TutarDegismez == Spec => [](VekaletInv /\ TutarInv)
<1>1. Init => VekaletInv /\ TutarInv
  BY VekaletBaslangic, TutarBaslangic
<1>2. VekaletInv /\ TutarInv /\ [Next]_vars => (VekaletInv /\ TutarInv)'
  BY VekaletAdimi, TutarAdimi
<1> QED BY <1>1, <1>2, PTL DEF Spec

(* The active payments of an instalment exceed its amount only where two   *)
(* requests overlapped, for any number of instalments, payments, amounts   *)
(* and overlapping requests.                                               *)
THEOREM AsimYalnizCakismada == Spec => []AsimCakismada
<1>1. TutarInv => AsimCakismada
  BY DEF TutarInv
<1> QED BY <1>1, TutarDegismez, PTL
=============================================================================
