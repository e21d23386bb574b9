----------------------------- MODULE BuroProofs -----------------------------
(***************************************************************************)
(* Proofs about the services of an office, one section each, and about     *)
(* what TLC checks, which is one of them at a time.                        *)
(***************************************************************************)
EXTENDS MCBuro, IletisimProofs, FiniteSetTheorems, WellFoundedInduction, TLAPS

-----------------------------------------------------------------------------
(***************************************************************************)
(* Sign-ins for any number of tokens, families and requests.  Whatever a   *)
(* request does, it does one of five things to the tokens: it ends some    *)
(* (or none), opens a family, takes a token to renew it, hands out the     *)
(* next one, or dies with a token taken.  The chain of a family and the    *)
(* promise of a session depend on nothing else.                            *)
(***************************************************************************)
(***************************************************************************)
(* The inductive invariant.  TekZincir needs that a family on which a      *)
(* renewal hangs is not taken for a new one; a renewal carries an old      *)
(* password exactly as a token does; a code waits unused.                  *)
(***************************************************************************)
BelirtecSahipli == \A b \in Belirtec : belirtec[b].durum = "yok" <=> belirtec[b].aile = Yok

IstekSahipli ==
  \A a \in OturumIstek :
    /\ oturumIstek[a].adim = "al" => belirtec[oturumIstek[a].belirtec].durum # "yok"
    /\ oturumIstek[a].adim = "yeni" => Uyeler(oturumIstek[a].aile) # {}

EskiYenilemeKapanir ==
  \A a \in OturumIstek :
    /\ oturumIstek[a].adim = "yeni" /\ oturumIstek[a].aile \notin AdminAile
    /\ oturumIstek[a].sifre # hesap.sifre
    => \/ oturumIstek[a].aile \in kacan
       \/ \E c \in OturumIstek : oturumIstek[c].adim = "iptal"

KodBekler == \A k \in Kod : kod[k].durum \in {"yok", "bekliyor"} => kod[k].kullanim = 0

OturumInv ==
  /\ OturumTypeOK
  /\ BelirtecSahipli /\ IstekSahipli
  /\ TekZincir
  /\ EskiSifreKapanir /\ EskiYenilemeKapanir
  /\ KodTekKullanim /\ KodBekler
-----------------------------------------------------------------------------
(* What a step does *)

\* Request a moves, and no other; a new password is followed by the end of the
\* sessions, and who was to end them leaves none that is not noted.
Ilerler(a) ==
  /\ \A c \in OturumIstek \ {a} : oturumIstek'[c] = oturumIstek[c]
  /\ kacan \subseteq kacan'
  /\ hesap'.sifre # hesap.sifre => oturumIstek'[a].adim = "iptal"
  /\ oturumIstek[a].adim = "iptal" =>
       \A f \in Aile \ AdminAile :
         Gecerliler(f)' # {} \/ Yenileyenler(f)' # {} => f \in kacan'

\* Tokens end, or none; no token is taken or handed out.
Kapatir(a) ==
  /\ \E S \in SUBSET Belirtec : IptalEt(S)
  /\ oturumIstek[a].adim # "yeni" /\ oturumIstek'[a].adim # "yeni"
  /\ oturumIstek'[a].adim = "al" =>
       oturumIstek'[a].belirtec \in {b \in Belirtec : belirtec[b].durum # "yok"}

Acar(a) ==
  /\ \E f \in Aile, s \in Nat :
       /\ Uyeler(f) = {} /\ OturumEkle(f, s)
       /\ s # hesap.sifre => f \in AdminAile \cup kacan'
  /\ oturumIstek[a].adim \in {"giris", "girisAdmin"}
  /\ oturumIstek'[a].adim \notin {"al", "yeni"}

Alir(a) ==
  /\ oturumIstek[a].adim = "al"
  /\ \E b \in Belirtec :
       /\ belirtec[b].durum = "gecerli" /\ IptalEt({b})
       /\ oturumIstek'[a] =
            [adim |-> "yeni", aile |-> belirtec[b].aile, sifre |-> belirtec[b].sifre]

Verir(a) ==
  /\ oturumIstek[a].adim = "yeni" /\ oturumIstek'[a].adim = "bitti"
  /\ OturumEkle(oturumIstek[a].aile, oturumIstek[a].sifre)

Duser(a) ==
  /\ oturumIstek[a].adim = "yeni" /\ oturumIstek'[a].adim = "bitti"
  /\ belirtec' = belirtec

-----------------------------------------------------------------------------
(* The requests *)

(* What each kind of request keeps of what it has read.                    *)
LEMMA IstekTipi ==
  ASSUME OturumTypeOK, NEW a \in OturumIstek
  PROVE  /\ oturumIstek[a] \in OturumIstekKaydi
         /\ oturumIstek[a].adim = "giris" => oturumIstek[a].sifre \in Nat
         /\ oturumIstek[a].adim = "aileKapat" => oturumIstek[a].aile \in Aile
         /\ oturumIstek[a].adim = "al" => oturumIstek[a].belirtec \in Belirtec
         /\ oturumIstek[a].adim = "yeni" =>
              oturumIstek[a].aile \in Aile /\ oturumIstek[a].sifre \in Nat
         /\ oturumIstek[a].adim \in {"sifre", "iptal"} => oturumIstek[a].sonra \in Sonra
         /\ oturumIstek[a].adim = "sifirla" => oturumIstek[a].kod \in Kod
<1>1. oturumIstek[a] \in OturumIstekKaydi
  BY DEF OturumTypeOK
<1> QED BY <1>1 DEF OturumIstekKaydi, Bos, Bitti

(* A request that begins or moves on changes no other.                     *)
LEMMA IstekDegisir ==
  ASSUME OturumTypeOK, NEW a \in OturumIstek, NEW k,
         Basla(a, k) \/ Ilerlet(a, k)
  PROVE  /\ oturumIstek'[a] = k
         /\ \A c \in OturumIstek \ {a} : oturumIstek'[c] = oturumIstek[c]
         /\ Basla(a, k) => oturumIstek[a] = Bos
         /\ k \in OturumIstekKaydi => oturumIstek' \in [OturumIstek -> OturumIstekKaydi]
BY DEF Basla, Ilerlet, OturumTypeOK, Ilk

(* A revoked token keeps its family and its password; no token is revived. *)
LEMMA IptalEder ==
  ASSUME OturumTypeOK, NEW S \in SUBSET Belirtec, IptalEt(S)
  PROVE  /\ belirtec' \in [Belirtec -> BelirtecSatiri]
         /\ \A b \in Belirtec :
              /\ belirtec'[b].aile = belirtec[b].aile
              /\ belirtec'[b].sifre = belirtec[b].sifre
              /\ belirtec'[b].durum = IF b \in S /\ belirtec[b].durum = "gecerli"
                                      THEN "iptal" ELSE belirtec[b].durum
<1>1. ASSUME NEW b \in Belirtec
      PROVE  /\ belirtec'[b] \in BelirtecSatiri
             /\ belirtec'[b].aile = belirtec[b].aile
             /\ belirtec'[b].sifre = belirtec[b].sifre
             /\ belirtec'[b].durum = IF b \in S /\ belirtec[b].durum = "gecerli"
                                     THEN "iptal" ELSE belirtec[b].durum
  BY DEF IptalEt, OturumTypeOK, BelirtecSatiri
<1> QED BY <1>1 DEF IptalEt

(* A new token is a row that was free; every other row stays.              *)
LEMMA BelirtecEklenir ==
  ASSUME OturumTypeOK, NEW f \in Aile, NEW s \in Nat, OturumEkle(f, s)
  PROVE  /\ belirtec' \in [Belirtec -> BelirtecSatiri]
         /\ \E b \in Belirtec :
              /\ belirtec[b].durum = "yok"
              /\ belirtec'[b].durum = "gecerli" /\ belirtec'[b].aile = f
              /\ belirtec'[b].sifre = s
              /\ \A c \in Belirtec \ {b} : belirtec'[c] = belirtec[c]
<1>1. PICK b \in Ilk({c \in Belirtec : belirtec[c].durum = "yok"}) :
        belirtec' = [belirtec EXCEPT ![b] = [durum |-> "gecerli", aile |-> f, sifre |-> s]]
  BY DEF OturumEkle
<1>2. b \in Belirtec /\ belirtec[b].durum = "yok"
  BY DEF Ilk
<1>3. [durum |-> "gecerli", aile |-> f, sifre |-> s] \in BelirtecSatiri
  BY DEF BelirtecSatiri
<1> QED BY <1>1, <1>2, <1>3 DEF OturumTypeOK
-----------------------------------------------------------------------------
(* The type invariant *)

LEMMA OturumTipIlk == OturumInit => OturumTypeOK
<1> SUFFICES ASSUME OturumInit PROVE OturumTypeOK
  OBVIOUS
<1>1. hesap \in KullaniciSatiri
  <2>1. /\ hesap = [sifre |-> hesap.sifre, aktif |-> hesap.aktif, bagli |-> hesap.bagli]
        /\ hesap.sifre \in {0} /\ hesap.aktif \in {TRUE} /\ hesap.bagli \in BOOLEAN
    BY DEF OturumInit
  <2>2. hesap.sifre \in Nat
    BY <2>1
  <2>3. {TRUE} \subseteq BOOLEAN
    OBVIOUS
  <2> QED BY <2>1, <2>2, <2>3, Zenon DEF KullaniciSatiri
<1>2. BosBelirtec \in BelirtecSatiri
  BY DEF BosBelirtec, BelirtecSatiri
<1>3. [durum |-> "yok", kullanim |-> 0] \in KodSatiri
  BY DEF KodSatiri
<1>4. Bos \in OturumIstekKaydi
  BY DEF OturumIstekKaydi
<1> QED BY <1>1, <1>2, <1>3, <1>4 DEF OturumInit, OturumTypeOK

(* Which record each action leaves for the request that takes it.          *)
LEMMA IstekYeniTipi ==
  ASSUME OturumInv, NEW a \in OturumIstek, OturumAdimi(a)
  PROVE  oturumIstek' \in [OturumIstek -> OturumIstekKaydi]
<1> USE IstekDegisir
<1>0. OturumTypeOK
  BY DEF OturumInv
<1>1. {Bos, Bitti, [adim |-> "girisAdmin"], [adim |-> "adminIptal"], [adim |-> "ilkGiris"]}
        \subseteq OturumIstekKaydi
  BY DEF OturumIstekKaydi
<1>2. /\ \A s \in Nat : [adim |-> "giris", sifre |-> s] \in OturumIstekKaydi
      /\ \A f \in Aile : [adim |-> "aileKapat", aile |-> f] \in OturumIstekKaydi
      /\ \A b \in Belirtec : [adim |-> "al", belirtec |-> b] \in OturumIstekKaydi
      /\ \A f \in Aile, s \in Nat :
           [adim |-> "yeni", aile |-> f, sifre |-> s] \in OturumIstekKaydi
      /\ \A s \in Sonra : /\ [adim |-> "sifre", sonra |-> s] \in OturumIstekKaydi
                          /\ [adim |-> "iptal", sonra |-> s] \in OturumIstekKaydi
      /\ \A e \in SUBSET Kod : [adim |-> "kod", eski |-> e] \in OturumIstekKaydi
      /\ \A k \in Kod : [adim |-> "sifirla", kod |-> k] \in OturumIstekKaydi
  BY DEF OturumIstekKaydi
<1>3. hesap.sifre \in Nat
  BY <1>0 DEF OturumTypeOK, KullaniciSatiri
<1>4. ASSUME NEW b \in Belirtec
      PROVE  /\ belirtec[b].sifre \in Nat
             /\ belirtec[b].durum # "yok" => belirtec[b].aile \in Aile
  BY <1>0 DEF OturumInv, BelirtecSahipli, OturumTypeOK, BelirtecSatiri
<1>5. Bos.adim = "bos" /\ Bitti.adim = "bitti"
  BY DEF Bos, Bitti
<1>6. oturumIstek[a].adim = "al" =>
        /\ oturumIstek[a].belirtec \in Belirtec
        /\ belirtec[oturumIstek[a].belirtec].durum # "yok"
  BY <1>0, IstekTipi DEF OturumInv, IstekSahipli
<1>a. CASE GirisOku(a) \/ GirisYaz(a) \/ GirisAdmin(a)
  <2>1. CASE GirisOku(a)
    BY <2>1, <1>0, <1>2, <1>3 DEF GirisOku
  <2>2. CASE GirisYaz(a)
    BY <2>2, <1>0, <1>1 DEF GirisYaz
  <2>3. CASE GirisAdmin(a)
    BY <2>3, <1>0, <1>1 DEF GirisAdmin
  <2> QED BY <1>a, <2>1, <2>2, <2>3
<1>b. ASSUME NEW b \in Belirtec, YenileOku(a, b)
      PROVE  oturumIstek' \in [OturumIstek -> OturumIstekKaydi]
  BY <1>b, <1>0, <1>2, <1>4 DEF YenileOku
<1>c. ASSUME NEW b \in Belirtec, YenileSuresiDolmus(a, b) \/ Cikis(a, b)
      PROVE  oturumIstek' \in [OturumIstek -> OturumIstekKaydi]
  BY <1>c, <1>0, <1>1 DEF YenileSuresiDolmus, Cikis
<1>d. CASE YenileAl(a)
  BY <1>d, <1>0, <1>2, <1>4, <1>6 DEF YenileAl
<1>e. CASE YenileYaz(a) \/ AileKapat(a) \/ AdminIptal(a)
  BY <1>e, <1>0, <1>1 DEF YenileYaz, AileKapat, AdminIptal
<1>f. CASE TumCikis(a)
  BY <1>f, <1>0, <1>2 DEF TumCikis, Sonra
<1>g. CASE TumIptal(a)
  BY <1>g, <1>0, <1>1 DEF TumIptal
<1>h. ASSUME NEW sonra \in {"bitti", "giris"}, SifreOku(a, sonra)
      PROVE  oturumIstek' \in [OturumIstek -> OturumIstekKaydi]
  BY <1>h, <1>0, <1>2 DEF SifreOku, Sonra
<1>i. CASE SifreYaz(a)
  <2>1. oturumIstek[a].sonra \in Sonra
    BY <1>i, <1>0, IstekTipi DEF SifreYaz
  <2>2. [adim |-> "iptal", sonra |-> oturumIstek[a].sonra] \in OturumIstekKaydi
    BY <1>2, <2>1
  <2> QED BY <1>i, <1>0, <2>2 DEF SifreYaz
<1>j. CASE IlkGiris(a)
  BY <1>j, <1>0, <1>1, <1>2, <1>3 DEF IlkGiris
<1>k. CASE HesapDurumu(a)
  BY <1>k, <1>0, <1>1, <1>2 DEF HesapDurumu, Sonra
<1>l. CASE KodIste(a)
  <2>1. {k \in Kod : kod[k].durum = "bekliyor"} \in SUBSET Kod
    OBVIOUS
  <2> QED BY <1>l, <2>1, <1>0, <1>2 DEF KodIste
<1>m. CASE KodYaz(a) \/ OturumDuser(a)
  BY <1>m, <1>0, <1>1 DEF KodYaz, OturumDuser
<1>n. ASSUME NEW k \in Kod, SifirlaOku(a, k)
      PROVE  oturumIstek' \in [OturumIstek -> OturumIstekKaydi]
  BY <1>n, <1>0, <1>2 DEF SifirlaOku
<1>o. CASE SifirlaYaz(a)
  BY <1>o, <1>0, <1>2 DEF SifirlaYaz, Sonra
<1> QED BY <1>a, <1>b, <1>c, <1>d, <1>e, <1>f, <1>g, <1>h, <1>i, <1>j, <1>k, <1>l, <1>m,
           <1>n, <1>o DEF OturumAdimi

(* Every step does one of the five things.                                 *)
LEMMA AdimBicimi ==
  ASSUME OturumInv, NEW a \in OturumIstek, OturumAdimi(a)
  PROVE  /\ Ilerler(a)
         /\ Kapatir(a) \/ Acar(a) \/ Alir(a) \/ Verir(a) \/ Duser(a)
<1> USE IstekDegisir
<1>0. OturumTypeOK
  BY DEF OturumInv
<1>1. Bos.adim = "bos" /\ Bitti.adim = "bitti"
  BY DEF Bos, Bitti
<1>2. UNCHANGED belirtec => IptalEt({})
  BY <1>0 DEF IptalEt, OturumTypeOK
<1>3. ASSUME NEW k, Basla(a, k) \/ Ilerlet(a, k)
      PROVE  /\ Basla(a, k) => oturumIstek[a].adim = "bos"
             /\ oturumIstek'[a] = k
             /\ \A c \in OturumIstek \ {a} : oturumIstek'[c] = oturumIstek[c]
  BY <1>0, <1>1, <1>3
<1>4. ASSUME NEW k, Basla(a, k) \/ Ilerlet(a, k),
             oturumIstek[a].adim # "iptal", kacan \subseteq kacan',
             hesap'.sifre # hesap.sifre => k.adim = "iptal"
      PROVE  Ilerler(a)
  BY <1>3, <1>4 DEF Ilerler
<1>5. ASSUME NEW k, Basla(a, k) \/ Ilerlet(a, k), k.adim \notin {"al", "yeni"},
             oturumIstek[a].adim # "yeni",
             NEW S \in SUBSET Belirtec, IptalEt(S)
      PROVE  Kapatir(a)
  BY <1>3, <1>5 DEF Kapatir
<1>6. oturumIstek[a].adim = "al" =>
        /\ oturumIstek[a].belirtec \in Belirtec
        /\ belirtec[oturumIstek[a].belirtec].durum # "yok"
  BY <1>0, IstekTipi DEF OturumInv, IstekSahipli
<1> DEFINE Bicimli == /\ Ilerler(a)
                      /\ Kapatir(a) \/ Acar(a) \/ Alir(a) \/ Verir(a) \/ Duser(a)
<1>a. CASE GirisOku(a)
  BY <1>a, <1>1, <1>2, <1>3, <1>4, <1>5 DEF GirisOku
<1>b. CASE GirisYaz(a)
  <2>1. PICK f \in YeniAile(FALSE) :
          /\ OturumEkle(f, oturumIstek[a].sifre)
          /\ kacan' = IF oturumIstek[a].sifre # hesap.sifre THEN kacan \cup {f} ELSE kacan
    BY <1>b DEF GirisYaz
  <2>2. f \in Aile /\ Uyeler(f) = {}
    BY <2>1 DEF YeniAile, Ilk
  <2>3. oturumIstek[a].sifre \in Nat /\ kacan \subseteq kacan'
    BY <1>b, <1>0, <2>1, IstekTipi DEF GirisYaz
  <2>4. PICK k : Ilerlet(a, k) /\ k.adim \notin {"al", "yeni"}
    BY <1>b, <1>1 DEF GirisYaz
  <2>5. Ilerler(a)
    BY <1>b, <1>4, <2>3, <2>4 DEF GirisYaz
  <2>6. Acar(a)
    BY <1>b, <1>3, <2>1, <2>2, <2>3, <2>4 DEF GirisYaz, Acar
  <2> QED BY <2>5, <2>6
<1>c. CASE GirisAdmin(a)
  <2>1. Ilerler(a)
    BY <1>c, <1>1, <1>4 DEF GirisAdmin
  <2>2. CASE UNCHANGED belirtec
    BY <1>c, <1>1, <1>2, <1>5, <2>1, <2>2 DEF GirisAdmin
  <2>3. ASSUME NEW f \in YeniAile(TRUE), OturumEkle(f, hesap.sifre)
        PROVE  Acar(a)
    <3>1. f \in AdminAile /\ f \in Aile /\ Uyeler(f) = {}
      BY OturumVarsayimi DEF YeniAile, Ilk
    <3>2. hesap.sifre \in Nat
      BY <1>0 DEF OturumTypeOK, KullaniciSatiri
    <3>3. oturumIstek'[a].adim = "bitti"
      BY <1>c, <1>1, <1>3 DEF GirisAdmin
    <3> QED BY <1>c, <2>3, <3>1, <3>2, <3>3 DEF GirisAdmin, Acar
  <2> QED BY <1>c, <2>1, <2>2, <2>3 DEF GirisAdmin
<1>d. ASSUME NEW b \in Belirtec, YenileOku(a, b)
      PROVE  Bicimli
  <2>1. PICK k : /\ Basla(a, k) /\ k.adim \in {"al", "aileKapat"}
                 /\ k.adim = "al" => k.belirtec = b
    BY <1>d DEF YenileOku
  <2>2. Ilerler(a)
    BY <1>d, <1>1, <1>3, <1>4, <2>1 DEF YenileOku
  <2>3. Kapatir(a)
    BY <1>d, <1>1, <1>2, <1>3, <2>1 DEF YenileOku, Kapatir
  <2> QED BY <2>2, <2>3
<1>e. ASSUME NEW b \in Belirtec, YenileSuresiDolmus(a, b) \/ Cikis(a, b)
      PROVE  Bicimli
  <2>1. PICK k : Basla(a, k) /\ k.adim \in {"adminIptal", "bitti"}
    BY <1>e, <1>1 DEF YenileSuresiDolmus, Cikis
  <2>2. Ilerler(a)
    BY <1>e, <1>1, <1>3, <1>4, <2>1 DEF YenileSuresiDolmus, Cikis
  <2>3. Kapatir(a)
    BY <1>e, <1>3, <1>5, <2>1 DEF YenileSuresiDolmus, Cikis
  <2> QED BY <2>2, <2>3
<1>f. CASE YenileAl(a)
  <2>0. PICK b : b = oturumIstek[a].belirtec
    OBVIOUS
  <2>1. b \in Belirtec /\ oturumIstek[a].adim = "al"
    BY <1>f, <1>6, <2>0 DEF YenileAl
  <2>2. PICK k : /\ Ilerlet(a, k)
                 /\ k = IF belirtec[b].durum = "gecerli"
                        THEN [adim |-> "yeni", aile |-> belirtec[b].aile,
                              sifre |-> belirtec[b].sifre]
                        ELSE [adim |-> "aileKapat", aile |-> belirtec[b].aile]
    BY <1>f, <2>0 DEF YenileAl
  <2>3. IptalEt({b}) /\ UNCHANGED <<hesap, kacan>>
    BY <1>f, <2>0 DEF YenileAl
  <2>4. Ilerler(a)
    BY <1>4, <2>1, <2>2, <2>3
  <2>5. CASE belirtec[b].durum = "gecerli"
    BY <1>3, <2>1, <2>2, <2>3, <2>4, <2>5 DEF Alir
  <2>6. CASE belirtec[b].durum # "gecerli"
    BY <1>5, <2>1, <2>2, <2>3, <2>4, <2>6
  <2> QED BY <2>5, <2>6
<1>g. CASE YenileYaz(a)
  BY <1>g, <1>1, <1>3, <1>4 DEF YenileYaz, Verir
<1>h. CASE AileKapat(a)
  <2>1. Uyeler(oturumIstek[a].aile) \in SUBSET Belirtec
    BY DEF Uyeler
  <2> QED BY <1>h, <1>1, <1>4, <1>5, <2>1 DEF AileKapat
<1>i. CASE AdminIptal(a)
  <2>1. UNION {Uyeler(f) : f \in AdminAile} \in SUBSET Belirtec
    BY DEF Uyeler
  <2> QED BY <1>i, <1>1, <1>4, <1>5, <2>1 DEF AdminIptal
<1>j. CASE TumCikis(a)
  BY <1>j, <1>1, <1>2, <1>3, <1>4, <1>5 DEF TumCikis
<1>k. CASE TumIptal(a)
  <2>0. PICK S : S = UNION {Uyeler(f) : f \in Aile \ AdminAile}
    OBVIOUS
  <2>1. S \in SUBSET Belirtec /\ IptalEt(S) /\ oturumIstek[a].adim = "iptal"
    BY <1>k, <2>0 DEF TumIptal, Uyeler
  <2>2. PICK k : Ilerlet(a, k) /\ k.adim \in {"adminIptal", "ilkGiris", "bitti"}
    BY <1>k, <1>1 DEF TumIptal
  <2>3. Kapatir(a)
    BY <1>5, <2>1, <2>2
  <2>4. hesap' = hesap /\ kacan \subseteq kacan'
    BY <1>k DEF TumIptal
  <2>5. ASSUME NEW f \in Aile \ AdminAile,
               Gecerliler(f)' # {} \/ Yenileyenler(f)' # {}
        PROVE  f \in kacan'
    <3>1. Gecerliler(f)' = {}
      BY <1>0, <2>0, <2>1, IptalEder DEF Gecerliler, Uyeler
    <3>2. Yenileyenler(f)' \subseteq Yenileyenler(f)
      BY <1>3, <2>2 DEF Yenileyenler
    <3> QED BY <1>k, <2>5, <3>1, <3>2 DEF TumIptal
  <2> QED BY <1>3, <2>2, <2>3, <2>4, <2>5 DEF Ilerler
<1>l. ASSUME NEW sonra \in {"bitti", "giris"}, SifreOku(a, sonra)
      PROVE  Bicimli
  BY <1>l, <1>1, <1>2, <1>3, <1>4, <1>5 DEF SifreOku
<1>m. CASE SifreYaz(a)
  BY <1>m, <1>2, <1>3, <1>4, <1>5 DEF SifreYaz
<1>n. CASE IlkGiris(a)
  <2>1. PICK k : Ilerlet(a, k) /\ k.adim \in {"giris", "bitti"}
    BY <1>n, <1>1 DEF IlkGiris
  <2> QED BY <1>n, <1>2, <1>4, <1>5, <2>1 DEF IlkGiris
<1>o. CASE HesapDurumu(a)
  <2>1. hesap'.sifre = hesap.sifre /\ UNCHANGED <<belirtec, kacan>>
    BY <1>0, <1>o DEF HesapDurumu, OturumTypeOK, KullaniciSatiri
  <2>2. PICK k : Basla(a, k) /\ k.adim \in {"iptal", "bitti"}
    BY <1>o, <1>1 DEF HesapDurumu
  <2> QED BY <1>1, <1>2, <1>3, <1>4, <1>5, <2>1, <2>2
<1>p. CASE KodIste(a)
  <2>1. PICK e : Basla(a, [adim |-> "kod", eski |-> e])
    BY <1>p DEF KodIste
  <2> QED BY <1>p, <1>1, <1>2, <1>3, <1>4, <1>5, <2>1 DEF KodIste
<1>q. CASE KodYaz(a)
  BY <1>q, <1>1, <1>2, <1>3, <1>4, <1>5 DEF KodYaz
<1>r. ASSUME NEW k \in Kod, SifirlaOku(a, k)
      PROVE  Bicimli
  BY <1>r, <1>1, <1>2, <1>3, <1>4, <1>5 DEF SifirlaOku
<1>s. CASE SifirlaYaz(a)
  BY <1>s, <1>2, <1>3, <1>4, <1>5 DEF SifirlaYaz
<1>t. CASE OturumDuser(a)
  <2>1. Ilerlet(a, Bitti) /\ UNCHANGED <<hesap, belirtec>> /\ kacan \subseteq kacan'
    BY <1>t DEF OturumDuser
  <2>2. Kapatir(a) \/ Duser(a)
    BY <1>1, <1>2, <1>3, <1>5, <2>1 DEF Duser
  <2>3. ASSUME NEW f \in Aile \ AdminAile, oturumIstek[a].adim = "iptal",
               Gecerliler(f)' # {} \/ Yenileyenler(f)' # {}
        PROVE  f \in kacan'
    <3>1. Gecerliler(f)' = Gecerliler(f)
      BY <2>1 DEF Gecerliler, Uyeler
    <3>2. Yenileyenler(f)' \subseteq Yenileyenler(f)
      BY <1>1, <1>3, <2>1 DEF Yenileyenler
    <3> QED BY <1>t, <2>3, <3>1, <3>2 DEF OturumDuser
  <2> QED BY <1>1, <1>3, <2>1, <2>2, <2>3 DEF Ilerler
<1> QED BY <1>a, <1>b, <1>c, <1>d, <1>e, <1>f, <1>g, <1>h, <1>i, <1>j, <1>k, <1>l, <1>m,
           <1>n, <1>o, <1>p, <1>q, <1>r, <1>s, <1>t DEF OturumAdimi
LEMMA OturumTipKorunur ==
  ASSUME OturumInv, NEW a \in OturumIstek, OturumAdimi(a)
  PROVE  OturumTypeOK'
<1>0. OturumTypeOK
  BY DEF OturumInv
<1>1. oturumIstek' \in [OturumIstek -> OturumIstekKaydi]
  BY IstekYeniTipi
<1>2. belirtec' \in [Belirtec -> BelirtecSatiri]
  <2>1. CASE Kapatir(a) \/ Alir(a)
    BY <1>0, <2>1, IptalEder DEF Kapatir, Alir
  <2>2. CASE Acar(a)
    BY <1>0, <2>2, BelirtecEklenir DEF Acar
  <2>3. CASE Verir(a)
    BY <1>0, <2>3, BelirtecEklenir, IstekTipi DEF Verir
  <2>4. CASE Duser(a)
    BY <1>0, <2>4 DEF Duser, OturumTypeOK
  <2> QED BY <2>1, <2>2, <2>3, <2>4, AdimBicimi
<1>3. hesap' \in KullaniciSatiri
  <2>1. CASE SifreYaz(a) \/ SifirlaYaz(a)
    BY <1>0, <2>1 DEF SifreYaz, SifirlaYaz, OturumTypeOK, KullaniciSatiri
  <2>2. CASE HesapDurumu(a)
    <3>1. hesap' = [hesap EXCEPT !.aktif = ~@] /\ hesap \in KullaniciSatiri
      BY <1>0, <2>2 DEF HesapDurumu, OturumTypeOK
    <3>2. (~hesap.aktif) \in BOOLEAN
      OBVIOUS
    <3> QED BY <3>1, <3>2 DEF KullaniciSatiri
  <2>3. CASE UNCHANGED hesap
    BY <1>0, <2>3 DEF OturumTypeOK
  <2> QED
    BY <2>1, <2>2, <2>3
    DEF OturumAdimi, GirisOku, GirisYaz, GirisAdmin, YenileOku, YenileSuresiDolmus, Cikis,
        YenileAl, YenileYaz, AileKapat, TumCikis, TumIptal, AdminIptal, SifreOku, IlkGiris,
        KodIste, KodYaz, SifirlaOku, OturumDuser
<1>4. kod' \in [Kod -> KodSatiri]
  <2>1. CASE KodYaz(a)
    <3>0. PICK silinen : silinen = {k \in oturumIstek[a].eski : kod[k].durum = "bekliyor"}
      OBVIOUS
    <3>1. PICK yeni \in Kod :
            kod' = [k \in Kod |-> CASE k = yeni -> [kod[k] EXCEPT !.durum = "bekliyor"]
                                    [] k \in silinen -> [kod[k] EXCEPT !.durum = "silindi"]
                                    [] OTHER -> kod[k]]
      BY <2>1, <3>0 DEF KodYaz, Ilk
    <3> QED BY <1>0, <3>1 DEF OturumTypeOK, KodSatiri
  <2>2. CASE SifirlaYaz(a)
    BY <1>0, <2>2, IstekTipi DEF SifirlaYaz, OturumTypeOK, KodSatiri
  <2>3. CASE UNCHANGED kod
    BY <1>0, <2>3 DEF OturumTypeOK
  <2> QED
    BY <2>1, <2>2, <2>3
    DEF OturumAdimi, GirisOku, GirisYaz, GirisAdmin, YenileOku, YenileSuresiDolmus, Cikis,
        YenileAl, YenileYaz, AileKapat, TumCikis, TumIptal, AdminIptal, SifreOku, SifreYaz,
        IlkGiris, HesapDurumu, KodIste, SifirlaOku, OturumDuser
<1>5. kacan' \subseteq Aile
  <2>1. CASE GirisYaz(a)
    BY <1>0, <2>1 DEF GirisYaz, YeniAile, Ilk, OturumTypeOK
  <2>2. CASE TumIptal(a) \/ OturumDuser(a)
    BY <1>0, <2>2 DEF TumIptal, OturumDuser, OturumTypeOK
  <2>3. CASE UNCHANGED kacan
    BY <1>0, <2>3 DEF OturumTypeOK
  <2> QED
    BY <2>1, <2>2, <2>3
    DEF OturumAdimi, GirisOku, GirisAdmin, YenileOku, YenileSuresiDolmus, Cikis, YenileAl,
        YenileYaz, AileKapat, TumCikis, AdminIptal, SifreOku, SifreYaz, IlkGiris,
        HesapDurumu, KodIste, KodYaz, SifirlaOku, SifirlaYaz
<1> QED BY <1>1, <1>2, <1>3, <1>4, <1>5 DEF OturumTypeOK

-----------------------------------------------------------------------------
(* One chain per family *)

(* What each of the five leaves of the families.                           *)
LEMMA KapatirAile ==
  ASSUME OturumInv, NEW a \in OturumIstek, Ilerler(a), Kapatir(a)
  PROVE  /\ \A b \in Belirtec :
              /\ belirtec'[b].aile = belirtec[b].aile
              /\ belirtec'[b].durum = "yok" <=> belirtec[b].durum = "yok"
         /\ \A f \in Aile :
              /\ Uyeler(f)' = Uyeler(f) /\ Gecerliler(f)' \subseteq Gecerliler(f)
              /\ Yenileyenler(f)' = Yenileyenler(f)
<1>1. PICK S \in SUBSET Belirtec : IptalEt(S)
  BY DEF Kapatir
<1>2. \A b \in Belirtec :
        /\ belirtec'[b].aile = belirtec[b].aile
        /\ belirtec'[b].durum = "yok" <=> belirtec[b].durum = "yok"
        /\ belirtec'[b].durum = "gecerli" => belirtec[b].durum = "gecerli"
  BY <1>1, IptalEder DEF OturumInv
<1> QED BY <1>2 DEF Kapatir, Ilerler, Uyeler, Gecerliler, Yenileyenler

LEMMA AcarAile ==
  ASSUME OturumInv, NEW a \in OturumIstek, Ilerler(a), Acar(a)
  PROVE  \E f \in Aile, b \in Belirtec :
           /\ belirtec'[b].durum = "gecerli" /\ belirtec'[b].aile = f
           /\ \A c \in Belirtec \ {b} : belirtec'[c] = belirtec[c]
           /\ Uyeler(f) = {} /\ Yenileyenler(f) = {}
           /\ \A g \in Aile :
                /\ Uyeler(g)' = IF g = f THEN {b} ELSE Uyeler(g)
                /\ Gecerliler(g)' = IF g = f THEN {b} ELSE Gecerliler(g)
                /\ Yenileyenler(g)' = Yenileyenler(g)
<1>0. OturumTypeOK /\ BelirtecSahipli /\ IstekSahipli /\ Yok \notin Aile
  BY OturumVarsayimi DEF OturumInv
<1>1. PICK f \in Aile, s \in Nat : Uyeler(f) = {} /\ OturumEkle(f, s)
  BY DEF Acar
<1>2. PICK b \in Belirtec :
        /\ belirtec[b].durum = "yok" /\ belirtec'[b].durum = "gecerli" /\ belirtec'[b].aile = f
        /\ \A c \in Belirtec \ {b} : belirtec'[c] = belirtec[c]
  BY <1>0, <1>1, BelirtecEklenir
<1>3. Yenileyenler(f) = {}
  BY <1>0, <1>1 DEF IstekSahipli, Yenileyenler
<1>4. ASSUME NEW g \in Aile
      PROVE  /\ Uyeler(g)' = IF g = f THEN {b} ELSE Uyeler(g)
             /\ Gecerliler(g)' = IF g = f THEN {b} ELSE Gecerliler(g)
             /\ Yenileyenler(g)' = Yenileyenler(g)
  <2>1. Yenileyenler(g)' = Yenileyenler(g)
    BY DEF Acar, Ilerler, Yenileyenler
  <2>2. belirtec[b].aile = Yok /\ f # Yok /\ g # Yok
    BY <1>0, <1>2 DEF BelirtecSahipli
  <2> QED BY <1>1, <1>2, <2>1, <2>2 DEF Uyeler, Gecerliler
<1> QED BY <1>1, <1>2, <1>3, <1>4

LEMMA AlirAile ==
  ASSUME OturumInv, NEW a \in OturumIstek, Ilerler(a), Alir(a)
  PROVE  \E f \in Aile, b \in Belirtec :
           /\ b \in Gecerliler(f) /\ belirtec'[b].durum = "iptal"
           /\ oturumIstek'[a].adim = "yeni" /\ oturumIstek'[a].aile = f
           /\ \A c \in Belirtec : belirtec'[c].aile = belirtec[c].aile
           /\ \A c \in Belirtec \ {b} : belirtec'[c].durum = belirtec[c].durum
           /\ \A g \in Aile :
                /\ Uyeler(g)' = Uyeler(g)
                /\ Gecerliler(g)' = IF g = f THEN {} ELSE Gecerliler(g)
                /\ Yenileyenler(g)' = IF g = f THEN {a} ELSE Yenileyenler(g)
<1>0. OturumTypeOK /\ BelirtecSahipli /\ TekZincir
  BY DEF OturumInv
<1>1. PICK b \in Belirtec :
        /\ belirtec[b].durum = "gecerli" /\ IptalEt({b})
        /\ oturumIstek'[a] =
             [adim |-> "yeni", aile |-> belirtec[b].aile, sifre |-> belirtec[b].sifre]
  BY DEF Alir
<1>2. PICK f \in Aile : f = belirtec[b].aile
  BY <1>0, <1>1 DEF BelirtecSahipli, OturumTypeOK, BelirtecSatiri
<1>3. \A c \in Belirtec :
        /\ belirtec'[c].aile = belirtec[c].aile
        /\ belirtec'[c].durum = IF c = b THEN "iptal" ELSE belirtec[c].durum
  BY <1>0, <1>1, IptalEder
<1>4. b \in Gecerliler(f)
  BY <1>1, <1>2 DEF Gecerliler, Uyeler
<1>5. Gecerliler(f) = {b} /\ Yenileyenler(f) = {}
  BY <1>0, <1>4 DEF TekZincir
<1>6. ASSUME NEW g \in Aile
      PROVE  /\ Uyeler(g)' = Uyeler(g)
             /\ Gecerliler(g)' = IF g = f THEN {} ELSE Gecerliler(g)
             /\ Yenileyenler(g)' = IF g = f THEN {a} ELSE Yenileyenler(g)
  <2>1. Uyeler(g)' = Uyeler(g)
    BY <1>3 DEF Uyeler
  <2>2. Gecerliler(g)' = IF g = f THEN {} ELSE Gecerliler(g)
    BY <1>1, <1>2, <1>3, <1>5 DEF Gecerliler, Uyeler
  <2>3. Yenileyenler(g)' = IF g = f THEN {a} ELSE Yenileyenler(g)
    BY <1>1, <1>2, <1>5 DEF Yenileyenler, Alir, Ilerler
  <2> QED BY <2>1, <2>2, <2>3
<1> QED BY <1>1, <1>2, <1>3, <1>4, <1>6

LEMMA VerirAile ==
  ASSUME OturumInv, NEW a \in OturumIstek, Ilerler(a), Verir(a)
  PROVE  \E f \in Aile, b \in Belirtec :
           /\ belirtec'[b].durum = "gecerli" /\ belirtec'[b].aile = f
           /\ \A c \in Belirtec \ {b} : belirtec'[c] = belirtec[c]
           /\ Yenileyenler(f) = {a} /\ Gecerliler(f) = {} /\ Uyeler(f) # {}
           /\ \A g \in Aile :
                /\ Uyeler(g)' = IF g = f THEN Uyeler(g) \cup {b} ELSE Uyeler(g)
                /\ Gecerliler(g)' = IF g = f THEN {b} ELSE Gecerliler(g)
                /\ Yenileyenler(g)' = IF g = f THEN {} ELSE Yenileyenler(g)
<1>0. OturumTypeOK /\ BelirtecSahipli /\ IstekSahipli /\ TekZincir /\ Yok \notin Aile
  BY OturumVarsayimi DEF OturumInv
<1>1. PICK f \in Aile : f = oturumIstek[a].aile
  BY <1>0, IstekTipi DEF Verir
<1>2. oturumIstek[a].sifre \in Nat
  BY <1>0, IstekTipi DEF Verir
<1>3. PICK b \in Belirtec :
        /\ belirtec[b].durum = "yok" /\ belirtec'[b].durum = "gecerli" /\ belirtec'[b].aile = f
        /\ \A c \in Belirtec \ {b} : belirtec'[c] = belirtec[c]
  BY <1>0, <1>1, <1>2, BelirtecEklenir DEF Verir
<1>4. a \in Yenileyenler(f)
  BY <1>1 DEF Verir, Yenileyenler
<1>5. Yenileyenler(f) = {a} /\ Gecerliler(f) = {} /\ Uyeler(f) # {}
  BY <1>0, <1>1, <1>4 DEF TekZincir, IstekSahipli, Verir
<1>6. ASSUME NEW g \in Aile
      PROVE  /\ Uyeler(g)' = IF g = f THEN Uyeler(g) \cup {b} ELSE Uyeler(g)
             /\ Gecerliler(g)' = IF g = f THEN {b} ELSE Gecerliler(g)
             /\ Yenileyenler(g)' = IF g = f THEN {} ELSE Yenileyenler(g)
  <2>1. belirtec[b].aile = Yok /\ g # Yok
    BY <1>0, <1>3 DEF BelirtecSahipli
  <2>2. Uyeler(g)' = IF g = f THEN Uyeler(g) \cup {b} ELSE Uyeler(g)
    BY <1>3, <2>1 DEF Uyeler
  <2>3. Gecerliler(g)' = IF g = f THEN {b} ELSE Gecerliler(g)
    BY <1>3, <1>5, <2>1 DEF Uyeler, Gecerliler
  <2>4. Yenileyenler(g)' = IF g = f THEN {} ELSE Yenileyenler(g)
    BY <1>1, <1>5 DEF Yenileyenler, Verir, Ilerler
  <2> QED BY <2>2, <2>3, <2>4
<1> QED BY <1>3, <1>5, <1>6

LEMMA DuserAile ==
  ASSUME OturumInv, NEW a \in OturumIstek, Ilerler(a), Duser(a)
  PROVE  \E f \in Aile :
           /\ Yenileyenler(f) = {a} /\ Gecerliler(f) = {} /\ Uyeler(f) # {}
           /\ \A g \in Aile :
                /\ Uyeler(g)' = Uyeler(g) /\ Gecerliler(g)' = Gecerliler(g)
                /\ Yenileyenler(g)' = IF g = f THEN {} ELSE Yenileyenler(g)
<1>0. OturumTypeOK /\ IstekSahipli /\ TekZincir
  BY DEF OturumInv
<1>1. PICK f \in Aile : f = oturumIstek[a].aile
  BY <1>0, IstekTipi DEF Duser
<1>2. a \in Yenileyenler(f)
  BY <1>1 DEF Duser, Yenileyenler
<1>3. Yenileyenler(f) = {a} /\ Gecerliler(f) = {} /\ Uyeler(f) # {}
  BY <1>0, <1>1, <1>2 DEF TekZincir, IstekSahipli, Duser
<1>4. ASSUME NEW g \in Aile
      PROVE  /\ Uyeler(g)' = Uyeler(g) /\ Gecerliler(g)' = Gecerliler(g)
             /\ Yenileyenler(g)' = IF g = f THEN {} ELSE Yenileyenler(g)
  BY <1>1, <1>3 DEF Duser, Ilerler, Uyeler, Gecerliler, Yenileyenler
<1> QED BY <1>3, <1>4

LEMMA ZincirKorunur ==
  ASSUME OturumInv, NEW a \in OturumIstek, Ilerler(a),
         Kapatir(a) \/ Acar(a) \/ Alir(a) \/ Verir(a) \/ Duser(a)
  PROVE  (BelirtecSahipli /\ IstekSahipli /\ TekZincir)'
<1>0. OturumTypeOK /\ BelirtecSahipli /\ IstekSahipli /\ TekZincir
  BY DEF OturumInv
<1>1. \A c \in OturumIstek \ {a} : oturumIstek'[c] = oturumIstek[c]
  BY DEF Ilerler
<1>2. Yok \notin Aile
  BY OturumVarsayimi
<1>a. CASE Kapatir(a)
  <2>1. BelirtecSahipli'
    BY <1>0, <1>a, KapatirAile DEF BelirtecSahipli
  <2>2. IstekSahipli'
    <3>1. ASSUME NEW c \in OturumIstek, oturumIstek'[c].adim = "al"
          PROVE  belirtec'[oturumIstek'[c].belirtec].durum # "yok"
      BY <1>0, <1>1, <1>a, <3>1, KapatirAile, IstekTipi DEF IstekSahipli, Kapatir
    <3>2. ASSUME NEW c \in OturumIstek, oturumIstek'[c].adim = "yeni"
          PROVE  \E b \in Belirtec : belirtec'[b].aile = oturumIstek'[c].aile
      <4>1. oturumIstek'[c] = oturumIstek[c] /\ oturumIstek[c].adim = "yeni"
        BY <1>1, <1>a, <3>2 DEF Kapatir
      <4> QED BY <1>0, <1>a, <4>1, KapatirAile DEF IstekSahipli, Uyeler
    <3> QED BY <3>1, <3>2 DEF IstekSahipli, Uyeler
  <2>3. TekZincir'
    BY <1>0, <1>a, KapatirAile DEF TekZincir
  <2> QED BY <2>1, <2>2, <2>3
<1>b. CASE Acar(a)
  <2>1. PICK f \in Aile, b \in Belirtec :
          /\ belirtec'[b].durum = "gecerli" /\ belirtec'[b].aile = f
          /\ \A c \in Belirtec \ {b} : belirtec'[c] = belirtec[c]
          /\ Yenileyenler(f) = {}
          /\ \A g \in Aile :
               /\ Uyeler(g) \subseteq Uyeler(g)'
               /\ Gecerliler(g)' = IF g = f THEN {b} ELSE Gecerliler(g)
               /\ Yenileyenler(g)' = Yenileyenler(g)
    BY <1>b, AcarAile
  <2>2. BelirtecSahipli'
    BY <1>0, <1>2, <2>1 DEF BelirtecSahipli
  <2>3. IstekSahipli'
    BY <1>0, <1>1, <1>b, <2>1, IstekTipi DEF IstekSahipli, Acar
  <2>4. TekZincir'
    BY <1>0, <2>1 DEF TekZincir
  <2> QED BY <2>2, <2>3, <2>4
<1>c. CASE Alir(a)
  <2>1. PICK f \in Aile, b \in Belirtec :
          /\ b \in Gecerliler(f) /\ belirtec'[b].durum = "iptal"
          /\ oturumIstek'[a].adim = "yeni" /\ oturumIstek'[a].aile = f
          /\ \A c \in Belirtec : belirtec'[c].aile = belirtec[c].aile
          /\ \A c \in Belirtec \ {b} : belirtec'[c].durum = belirtec[c].durum
          /\ \A g \in Aile :
               /\ Uyeler(g)' = Uyeler(g)
               /\ Gecerliler(g)' = IF g = f THEN {} ELSE Gecerliler(g)
               /\ Yenileyenler(g)' = IF g = f THEN {a} ELSE Yenileyenler(g)
    BY <1>c, AlirAile
  <2>2. b \in Belirtec /\ b \in Uyeler(f) /\ belirtec[b].durum # "yok"
    BY <2>1 DEF Gecerliler, Uyeler
  <2>3. BelirtecSahipli'
    BY <1>0, <2>1, <2>2 DEF BelirtecSahipli
  <2>4. IstekSahipli'
    BY <1>0, <1>1, <2>1, <2>2, IstekTipi DEF IstekSahipli
  <2>5. TekZincir'
    BY <1>0, <2>1 DEF TekZincir
  <2> QED BY <2>3, <2>4, <2>5
<1>d. CASE Verir(a)
  <2>1. PICK f \in Aile, b \in Belirtec :
          /\ belirtec'[b].durum = "gecerli" /\ belirtec'[b].aile = f
          /\ \A c \in Belirtec \ {b} : belirtec'[c] = belirtec[c]
          /\ \A g \in Aile :
               /\ Uyeler(g) \subseteq Uyeler(g)'
               /\ Gecerliler(g)' = IF g = f THEN {b} ELSE Gecerliler(g)
               /\ Yenileyenler(g)' = IF g = f THEN {} ELSE Yenileyenler(g)
    BY <1>d, VerirAile
  <2>2. BelirtecSahipli'
    BY <1>0, <1>2, <2>1 DEF BelirtecSahipli
  <2>3. IstekSahipli'
    BY <1>0, <1>1, <1>d, <2>1, IstekTipi DEF IstekSahipli, Verir
  <2>4. TekZincir'
    BY <1>0, <2>1 DEF TekZincir
  <2> QED BY <2>2, <2>3, <2>4
<1>e. CASE Duser(a)
  <2>1. \A g \in Aile : /\ Uyeler(g)' = Uyeler(g) /\ Gecerliler(g)' = Gecerliler(g)
                        /\ Yenileyenler(g)' \subseteq Yenileyenler(g)
    BY <1>e, DuserAile
  <2>2. BelirtecSahipli'
    BY <1>0, <1>e DEF BelirtecSahipli, Duser
  <2>3. IstekSahipli'
    BY <1>0, <1>1, <1>e, <2>1, IstekTipi DEF IstekSahipli, Duser
  <2>4. TekZincir'
    BY <1>0, <2>1 DEF TekZincir
  <2> QED BY <2>2, <2>3, <2>4
<1> QED BY <1>a, <1>b, <1>c, <1>d, <1>e

-----------------------------------------------------------------------------
(* Old passwords *)

LEMMA EskiSifreKorunur ==
  ASSUME OturumInv, NEW a \in OturumIstek, Ilerler(a), OturumTypeOK',
         Kapatir(a) \/ Acar(a) \/ Alir(a) \/ Verir(a) \/ Duser(a)
  PROVE  (EskiSifreKapanir /\ EskiYenilemeKapanir)'
<1> DEFINE Kapanacak == \E c \in OturumIstek : oturumIstek[c].adim = "iptal"
<1>0. /\ OturumTypeOK /\ BelirtecSahipli /\ EskiSifreKapanir /\ EskiYenilemeKapanir
      /\ kacan \subseteq kacan'
      /\ \A c \in OturumIstek \ {a} : oturumIstek'[c] = oturumIstek[c]
  BY DEF OturumInv, Ilerler
<1>1. CASE Kapanacak'
  BY <1>1 DEF EskiSifreKapanir, EskiYenilemeKapanir
<1>2. CASE ~Kapanacak' /\ Kapanacak
  <2>1. oturumIstek[a].adim = "iptal" /\ oturumIstek'[a].adim # "iptal"
    BY <1>0, <1>2
  <2>2. \A f \in Aile \ AdminAile :
          Gecerliler(f)' # {} \/ Yenileyenler(f)' # {} => f \in kacan'
    BY <2>1 DEF Ilerler
  <2>3. Kapatir(a)
    BY <2>1 DEF Acar, Alir, Verir, Duser
  <2>4. ASSUME NEW b \in Belirtec, belirtec'[b].durum = "gecerli",
               belirtec'[b].aile \notin AdminAile
        PROVE  belirtec'[b].aile \in kacan'
    <3>1. PICK S \in SUBSET Belirtec : IptalEt(S)
      BY <2>3 DEF Kapatir
    <3>2. belirtec'[b].aile = belirtec[b].aile /\ belirtec[b].durum # "yok"
      BY <1>0, <2>4, <3>1, IptalEder
    <3>3. PICK f \in Aile : f = belirtec'[b].aile
      BY <1>0, <3>2 DEF BelirtecSahipli, OturumTypeOK, BelirtecSatiri
    <3>4. b \in Gecerliler(f)'
      BY <2>4, <3>3 DEF Gecerliler, Uyeler
    <3> QED BY <2>2, <2>4, <3>3, <3>4
  <2>5. ASSUME NEW c \in OturumIstek, oturumIstek'[c].adim = "yeni",
               oturumIstek'[c].aile \notin AdminAile
        PROVE  oturumIstek'[c].aile \in kacan'
    <3>1. c # a /\ oturumIstek'[c] = oturumIstek[c]
      BY <1>0, <2>3, <2>5 DEF Kapatir
    <3>2. PICK f \in Aile : f = oturumIstek'[c].aile
      BY <1>0, <2>5, <3>1, IstekTipi
    <3>3. c \in Yenileyenler(f)'
      BY <2>5, <3>2 DEF Yenileyenler
    <3> QED BY <2>2, <2>5, <3>2, <3>3
  <2> QED BY <2>4, <2>5 DEF EskiSifreKapanir, EskiYenilemeKapanir
<1>3. CASE ~Kapanacak' /\ ~Kapanacak
  <2>0. hesap'.sifre = hesap.sifre
    BY <1>3 DEF Ilerler
  <2>1. /\ \A b \in Belirtec :
             /\ belirtec[b].durum = "gecerli" /\ belirtec[b].aile \notin AdminAile
             /\ belirtec[b].sifre # hesap'.sifre
             => belirtec[b].aile \in kacan'
        /\ \A c \in OturumIstek :
             /\ oturumIstek[c].adim = "yeni" /\ oturumIstek[c].aile \notin AdminAile
             /\ oturumIstek[c].sifre # hesap'.sifre
             => oturumIstek[c].aile \in kacan'
    BY <1>0, <1>3, <2>0 DEF EskiSifreKapanir, EskiYenilemeKapanir
  <2> HIDE DEF Kapanacak
  <2> SUFFICES
        /\ \A b \in Belirtec :
             /\ belirtec'[b].durum = "gecerli" /\ belirtec'[b].aile \notin AdminAile
             /\ belirtec'[b].sifre # hesap'.sifre
             => belirtec'[b].aile \in kacan'
        /\ \A c \in OturumIstek :
             /\ oturumIstek'[c].adim = "yeni" /\ oturumIstek'[c].aile \notin AdminAile
             /\ oturumIstek'[c].sifre # hesap'.sifre
             => oturumIstek'[c].aile \in kacan'
    BY DEF EskiSifreKapanir, EskiYenilemeKapanir
  <2>2. CASE Kapatir(a)
    <3>1. PICK S \in SUBSET Belirtec : IptalEt(S)
      BY <2>2 DEF Kapatir
    <3> QED BY <1>0, <2>1, <2>2, <3>1, IptalEder DEF Kapatir
  <2>3. CASE Acar(a)
    <3>1. PICK f \in Aile, s \in Nat :
            OturumEkle(f, s) /\ (s # hesap.sifre => f \in AdminAile \cup kacan')
      BY <2>3 DEF Acar
    <3> QED BY <1>0, <2>0, <2>1, <2>3, <3>1, BelirtecEklenir DEF Acar
  <2>4. CASE Alir(a)
    <3>1. PICK b \in Belirtec :
            /\ belirtec[b].durum = "gecerli" /\ IptalEt({b})
            /\ oturumIstek'[a] =
                 [adim |-> "yeni", aile |-> belirtec[b].aile, sifre |-> belirtec[b].sifre]
      BY <2>4 DEF Alir
    <3> QED BY <1>0, <2>1, <3>1, IptalEder
  <2>5. CASE Verir(a)
    <3>1. PICK f \in Aile, s \in Nat :
            f = oturumIstek[a].aile /\ s = oturumIstek[a].sifre /\ OturumEkle(f, s)
      BY <1>0, <2>5, IstekTipi DEF Verir
    <3>2. s # hesap'.sifre /\ f \notin AdminAile => f \in kacan'
      BY <2>1, <2>5, <3>1 DEF Verir
    <3> QED BY <1>0, <2>1, <2>5, <3>1, <3>2, BelirtecEklenir DEF Verir
  <2>6. CASE Duser(a)
    BY <1>0, <2>1, <2>6 DEF Duser
  <2> QED BY <2>2, <2>3, <2>4, <2>5, <2>6
<1> QED BY <1>1, <1>2, <1>3

(* A code that waits has changed no password; using it is its end.         *)
LEMMA KodKorunur ==
  ASSUME OturumInv, NEW a \in OturumIstek, OturumAdimi(a)
  PROVE  (KodTekKullanim /\ KodBekler)'
<1>0. OturumTypeOK /\ KodTekKullanim /\ KodBekler
  BY DEF OturumInv
<1>1. CASE KodYaz(a)
  <2>0. PICK silinen : silinen = {k \in oturumIstek[a].eski : kod[k].durum = "bekliyor"}
    OBVIOUS
  <2>1. PICK yeni \in Kod :
          /\ kod[yeni].durum = "yok"
          /\ kod' = [k \in Kod |-> CASE k = yeni -> [kod[k] EXCEPT !.durum = "bekliyor"]
                                     [] k \in silinen -> [kod[k] EXCEPT !.durum = "silindi"]
                                     [] OTHER -> kod[k]]
    BY <1>1, <2>0 DEF KodYaz, Ilk
  <2> QED BY <1>0, <2>1 DEF OturumTypeOK, KodSatiri, KodTekKullanim, KodBekler
<1>2. CASE SifirlaYaz(a)
  BY <1>0, <1>2, IstekTipi
  DEF SifirlaYaz, KodGecerli, OturumTypeOK, KodSatiri, KodTekKullanim, KodBekler
<1>3. CASE UNCHANGED kod
  BY <1>0, <1>3 DEF KodTekKullanim, KodBekler
<1> QED
  BY <1>1, <1>2, <1>3
  DEF OturumAdimi, GirisOku, GirisYaz, GirisAdmin, YenileOku, YenileSuresiDolmus, Cikis,
      YenileAl, YenileYaz, AileKapat, TumCikis, TumIptal, AdminIptal, SifreOku, SifreYaz,
      IlkGiris, HesapDurumu, KodIste, SifirlaOku, OturumDuser

-----------------------------------------------------------------------------
LEMMA OturumInvIlk == OturumInit => OturumInv
<1> SUFFICES ASSUME OturumInit PROVE OturumInv
  OBVIOUS
<1>1. OturumTypeOK
  BY OturumTipIlk
<1>2. /\ \A b \in Belirtec : belirtec[b].durum = "yok" /\ belirtec[b].aile = Yok
      /\ \A a \in OturumIstek : oturumIstek[a].adim = "bos"
      /\ \A k \in Kod : kod[k].kullanim = 0
  BY DEF OturumInit, BosBelirtec, Bos
<1>3. \A f \in Aile : Gecerliler(f) = {} /\ Yenileyenler(f) = {}
  BY <1>2 DEF Gecerliler, Uyeler, Yenileyenler
<1> QED
  BY <1>1, <1>2, <1>3
  DEF OturumInv, BelirtecSahipli, IstekSahipli, TekZincir, EskiSifreKapanir,
      EskiYenilemeKapanir, KodTekKullanim, KodBekler

LEMMA OturumInvAdim == OturumInv /\ [OturumNext]_oturumVars => OturumInv'
<1> SUFFICES ASSUME OturumInv, [OturumNext]_oturumVars PROVE OturumInv'
  OBVIOUS
<1>1. ASSUME NEW a \in OturumIstek, OturumAdimi(a) PROVE OturumInv'
  BY <1>1, AdimBicimi, OturumTipKorunur, ZincirKorunur, EskiSifreKorunur, KodKorunur
  DEF OturumInv
<1>2. CASE UNCHANGED oturumVars
  BY <1>2
  DEF oturumVars, OturumInv, OturumTypeOK, BelirtecSahipli, IstekSahipli, TekZincir,
      EskiSifreKapanir, EskiYenilemeKapanir, KodTekKullanim, KodBekler, Uyeler, Gecerliler,
      Yenileyenler
<1> QED BY <1>1, <1>2 DEF OturumNext

(* The invariant holds in every state, however many requests overlap.      *)
THEOREM OturumDegismez == OturumSpec => []OturumInv
BY OturumInvIlk, OturumInvAdim, PTL DEF OturumSpec

(* The user, the tokens, the codes and the requests are always well formed: *)
(* the statements of src/auth write no row of another shape.                *)
THEOREM OturumTipi == OturumSpec => []OturumTypeOK
BY OturumDegismez, PTL DEF OturumInv

(* Two tabs that renew together never split a session, a password change    *)
(* leaves none of the old one but those whose sign-in or renewal was between *)
(* two statements, and a reset code works once (refreshSession.service.ts,   *)
(* passwordReset.service.ts).                                                *)
THEOREM OturumTutarlidir == OturumSpec => []OturumTutarli
<1>1. OturumInv => OturumTutarli
  BY DEF OturumInv, OturumTutarli, SifreTutarli
<1> QED BY <1>1, OturumDegismez, PTL
-----------------------------------------------------------------------------
(* Tokens implement sessions *)

(* The five things a step does, as steps of the sessions.                  *)
LEMMA SozlesmeAdimi ==
  ASSUME OturumInv, NEW a \in OturumIstek, Ilerler(a),
         Kapatir(a) \/ Acar(a) \/ Alir(a) \/ Verir(a) \/ Duser(a)
  PROVE  Soyut!Adim
<1> DEFINE Once == [f \in Aile |-> OturumDurumu(f)]
<1>1. ASSUME NEW f \in Aile,
             \A g \in Aile \ {f} : OturumDurumu(g)' = OturumDurumu(g)
      PROVE  Once' = [Once EXCEPT ![f] = OturumDurumu(f)']
  BY <1>1
<1>a. CASE Kapatir(a)
  <2>1. ASSUME NEW f \in Aile, OturumDurumu(f)' # OturumDurumu(f)
        PROVE  OturumDurumu(f) = "acik" /\ OturumDurumu(f)' = "bitti"
    BY <1>a, <2>1, KapatirAile DEF OturumDurumu, OturumInv, TekZincir
  <2>2. \A f \in Aile : OturumDurumu(f)' \in {"yok", "acik", "askida", "bitti"}
    BY DEF OturumDurumu
  <2> QED BY <2>1, <2>2 DEF Soyut!Kapat, Soyut!Adim
<1>b. CASE Acar(a)
  <2>1. PICK f \in Aile : /\ OturumDurumu(f) = "yok" /\ OturumDurumu(f)' = "acik"
                          /\ \A g \in Aile \ {f} : OturumDurumu(g)' = OturumDurumu(g)
    BY <1>b, AcarAile DEF OturumDurumu
  <2> QED BY <1>1, <2>1 DEF Soyut!Ac, Soyut!Gecis, Soyut!Adim
<1>c. CASE Alir(a)
  <2>1. PICK f \in Aile :
          /\ Gecerliler(f) # {}
          /\ \A g \in Aile :
               /\ Uyeler(g)' = Uyeler(g)
               /\ Gecerliler(g)' = IF g = f THEN {} ELSE Gecerliler(g)
               /\ Yenileyenler(g)' = IF g = f THEN {a} ELSE Yenileyenler(g)
    BY <1>c, AlirAile
  <2>2. Uyeler(f) # {}
    BY <2>1 DEF Gecerliler
  <2>3. /\ OturumDurumu(f) = "acik" /\ OturumDurumu(f)' = "askida"
        /\ \A g \in Aile \ {f} : OturumDurumu(g)' = OturumDurumu(g)
    BY <2>1, <2>2 DEF OturumDurumu
  <2> QED BY <1>1, <2>3 DEF Soyut!Al, Soyut!Gecis, Soyut!Adim
<1>d. CASE Verir(a)
  <2>1. PICK f \in Aile, b \in Belirtec :
          /\ Yenileyenler(f) = {a} /\ Gecerliler(f) = {} /\ Uyeler(f) # {}
          /\ \A g \in Aile :
               /\ Uyeler(g)' = IF g = f THEN Uyeler(g) \cup {b} ELSE Uyeler(g)
               /\ Gecerliler(g)' = IF g = f THEN {b} ELSE Gecerliler(g)
               /\ Yenileyenler(g)' = IF g = f THEN {} ELSE Yenileyenler(g)
    BY <1>d, VerirAile
  <2>2. /\ OturumDurumu(f) = "askida" /\ OturumDurumu(f)' = "acik"
        /\ \A g \in Aile \ {f} : OturumDurumu(g)' = OturumDurumu(g)
    BY <2>1 DEF OturumDurumu
  <2> QED BY <1>1, <2>2 DEF Soyut!Ver, Soyut!Gecis, Soyut!Adim
<1>e. CASE Duser(a)
  <2>1. PICK f \in Aile :
          /\ Yenileyenler(f) = {a} /\ Gecerliler(f) = {} /\ Uyeler(f) # {}
          /\ \A g \in Aile :
               /\ Uyeler(g)' = Uyeler(g) /\ Gecerliler(g)' = Gecerliler(g)
               /\ Yenileyenler(g)' = IF g = f THEN {} ELSE Yenileyenler(g)
    BY <1>e, DuserAile
  <2>2. /\ OturumDurumu(f) = "askida" /\ OturumDurumu(f)' = "bitti"
        /\ \A g \in Aile \ {f} : OturumDurumu(g)' = OturumDurumu(g)
    BY <2>1 DEF OturumDurumu
  <2> QED BY <1>1, <2>2 DEF Soyut!Dusur, Soyut!Gecis, Soyut!Adim
<1> QED BY <1>a, <1>b, <1>c, <1>d, <1>e

(* A session that was ended never comes back, whatever requests overlap;    *)
(* only one that hangs on a renewal outlives its end                        *)
(* (rotateRefreshSession, refreshSession.service.ts).                       *)
THEOREM OturumSozlesmeyeUyar == OturumSpec => OturumSozlesmesiTutar
<1>1. OturumInit => Soyut!Baslangic
  <2> SUFFICES ASSUME OturumInit PROVE Soyut!Baslangic
    OBVIOUS
  <2>1. \A b \in Belirtec : belirtec[b].aile = Yok
    BY DEF OturumInit, BosBelirtec
  <2>2. \A f \in Aile : Uyeler(f) = {}
    BY <2>1, OturumVarsayimi DEF Uyeler
  <2> QED BY <2>2 DEF Soyut!Baslangic, OturumDurumu
<1>2. OturumInv /\ [OturumNext]_oturumVars => [Soyut!Adim]_[f \in Aile |-> OturumDurumu(f)]
  <2> SUFFICES ASSUME OturumInv, [OturumNext]_oturumVars
               PROVE  [Soyut!Adim]_[f \in Aile |-> OturumDurumu(f)]
    OBVIOUS
  <2>1. ASSUME NEW a \in OturumIstek, OturumAdimi(a) PROVE Soyut!Adim
    BY <2>1, AdimBicimi, SozlesmeAdimi
  <2>2. CASE UNCHANGED oturumVars
    BY <2>2 DEF oturumVars, OturumDurumu, Gecerliler, Uyeler, Yenileyenler
  <2> QED BY <2>1, <2>2 DEF OturumNext
<1> QED BY <1>1, <1>2, OturumDegismez, PTL
        DEF OturumSpec, OturumSozlesmesiTutar, Soyut!Sozlesme
-----------------------------------------------------------------------------
(***************************************************************************)
(* New offices.  A delivery that goes on to create an office saw no user   *)
(* of the e-mail, so every office after the first is one whose look-up was *)
(* overtaken.  User names are only ever taken, never given back: what was  *)
(* better than the name a delivery chose stays somebody's.                 *)
(***************************************************************************)
KAdIyi(o, n) ==
  \E i \in DOMAIN KAdlar[o] : n = KAdlar[o][i] /\ \A j \in 1 .. i - 1 : KAdlar[o][j] \in Alinan

KIstekIyi(k) ==
  /\ k.adim \in {"ad", "kontrol", "kur"} => k.goren = {}
  /\ k.adim \in {"kontrol", "kur"} => KAdIyi(k.x, k.ad)
  /\ k.adim = "kredi" => k.b \in Kurulular /\ Sahibi(k.x, k.b)

KurulumInv ==
  /\ KurulumTypeOK /\ TekBuro
  /\ kEpostali \subseteq Kurulular
  /\ \A a \in KIstek : KIstekIyi(kIstek[a])

(* What a delivery holds at each of its steps.                             *)
LEMMA KIstekAlanlari ==
  ASSUME KurulumTypeOK, NEW a \in KIstek
  PROVE  /\ kIstek[a].adim \in {"eposta", "kredi", "ad", "kontrol", "kur"} => kIstek[a].x \in KSiparis
         /\ kIstek[a].adim = "kredi" => kIstek[a].b \in KSiparis
         /\ kIstek[a].adim \in {"ad", "kontrol", "kur"} => kIstek[a].goren \in SUBSET KSiparis
         /\ kIstek[a].adim \in {"kontrol", "kur"} =>
              /\ kIstek[a].ad \in KAd
              /\ kIstek[a] = [adim |-> kIstek[a].adim, x |-> kIstek[a].x,
                              ad |-> kIstek[a].ad, goren |-> kIstek[a].goren]
<1>1. kIstek[a] \in KIstekKaydi
  BY DEF KurulumTypeOK
<1> QED BY <1>1 DEF KIstekKaydi, Bos, Bitti

(* The names of a list are user names.                                     *)
LEMMA KAdlarAddir ==
  ASSUME NEW o \in KSiparis, NEW i \in DOMAIN KAdlar[o]
  PROVE  KAdlar[o][i] \in KAd
<1>1. KAdlar[o] \in Seq(KAd)
  BY KurulumVarsayimi
<1> QED BY <1>1

(* Offices and user names only come: what a delivery relies on stays.      *)
LEMMA KIstekIyiKalir ==
  ASSUME NEW k, KIstekIyi(k), Alinan \subseteq Alinan', Kurulular \subseteq Kurulular'
  PROVE  KIstekIyi(k)'
<1>1. Sahibi(k.x, k.b)' <=> Sahibi(k.x, k.b)
  BY DEF Sahibi
<1>2. KAdIyi(k.x, k.ad) => KAdIyi(k.x, k.ad)'
  BY DEF KAdIyi
<1> QED BY <1>1, <1>2 DEF KIstekIyi

(* A delivery that moves on and creates nothing.                           *)
LEMMA KIlerletKorur ==
  ASSUME KurulumInv, NEW a \in KIstek, NEW k \in KIstekKaydi, KIstekIyi(k),
         KIlerlet(a, k), UNCHANGED <<kBuroVars, kDolu>>,
         kuruluKredi' \subseteq KSiparis \X KSiparis,
         \A c \in kuruluKredi' : c[2] \in Kurulular /\ Sahibi(c[1], c[2])
  PROVE  KurulumInv'
<1>0. UNCHANGED <<ofis, kEpostali, onceki, yarisan, kDolu>>
  BY DEF kBuroVars
<1>1. \A b \in KIstek : kIstek'[b] = IF b = a THEN k ELSE kIstek[b]
  BY DEF KIlerlet, KurulumInv, KurulumTypeOK
<1>2. KurulumTypeOK'
  BY <1>0 DEF KIlerlet, KurulumInv, KurulumTypeOK
<1>3. Kurulular' = Kurulular /\ Alinan' = Alinan
  BY <1>0 DEF Kurulular, Alinan
<1>4. TekBuro'
  <2>1. \A o \in Kurulular : EnIyiAd(o)'
    BY <1>0, <1>3 DEF KurulumInv, TekBuro, EnIyiAd
  <2>2. \A c \in kuruluKredi' : c[2] \in Kurulular' /\ Sahibi(c[1], c[2])'
    BY <1>3 DEF Sahibi
  <2> QED BY <1>0, <1>3, <2>1, <2>2 DEF KurulumInv, TekBuro
<1>5. ASSUME NEW b \in KIstek PROVE KIstekIyi(kIstek[b])'
  <2>1. PICK r : r = kIstek'[b]
    OBVIOUS
  <2>2. KIstekIyi(r)
    BY <1>1, <2>1 DEF KurulumInv
  <2>3. KIstekIyi(r)'
    BY <1>3, <2>2, KIstekIyiKalir
  <2> QED BY <2>1, <2>3 DEF KIstekIyi, KAdIyi, Sahibi
<1> QED BY <1>0, <1>2, <1>3, <1>4, <1>5 DEF KurulumInv

(* One that books nothing either.                                          *)
LEMMA KGecKorur ==
  ASSUME KurulumInv, NEW a \in KIstek, NEW k \in KIstekKaydi, KIstekIyi(k), KGec(a, k)
  PROVE  KurulumInv'
<1>1. KIlerlet(a, k) /\ UNCHANGED <<kBuroVars, kDolu>> /\ kuruluKredi' = kuruluKredi
  BY DEF KGec
<1> QED BY <1>1, KIlerletKorur DEF KurulumInv, KurulumTypeOK, TekBuro

(* The ends and the steps before the user name ask for nothing.            *)
LEMMA KBosIstek ==
  ASSUME NEW o \in KSiparis
  PROVE  /\ Bitti \in KIstekKaydi /\ KIstekIyi(Bitti)
         /\ [adim |-> "eposta", x |-> o] \in KIstekKaydi /\ KIstekIyi([adim |-> "eposta", x |-> o])
BY DEF Bitti, KIstekKaydi, KIstekIyi

(* The yearly credit is due for an office that answers for the order.      *)
LEMMA KKrediIstek ==
  ASSUME NEW o \in KSiparis, NEW p \in Kurulular, Sahibi(o, p)
  PROVE  KrediAdimi(o, p) \in KIstekKaydi /\ KIstekIyi(KrediAdimi(o, p))
<1>1. p \in KSiparis
  BY DEF Kurulular
<1> QED BY <1>1 DEF KrediAdimi, KIstekKaydi, KIstekIyi

(* The write that creates an office.                                       *)
LEMMA KurulumYazKorur ==
  ASSUME KurulumInv, NEW a \in KIstek, KurulumYaz(a)
  PROVE  KurulumInv'
<1>1. PICK k : k = kIstek[a]
  OBVIOUS
<1>2. /\ KurulumTypeOK /\ k.x \in KSiparis /\ k.ad \in KAd /\ k.goren = {}
      /\ k.ad # Yok /\ KAdIyi(k.x, k.ad)
  BY <1>1, KIstekAlanlari, KurulumVarsayimi DEF KurulumYaz, KurulumInv, KIstekIyi
<1>3. PICK r : r = KrediAdimi(k.x, k.x)
  OBVIOUS
<1>4. /\ k.x \notin Kurulular /\ k.ad \notin Alinan
      /\ ofis' = [ofis EXCEPT ![k.x] = k.ad]
      /\ kEpostali' = kEpostali \cup {k.x}
      /\ onceki' = [onceki EXCEPT ![k.x] = Kurulular]
      /\ yarisan' = IF kEpostali # {} THEN yarisan \cup {k.x} ELSE yarisan
      /\ kIstek' = [kIstek EXCEPT ![a] = r]
      /\ kDolu' = kDolu /\ kuruluKredi' = kuruluKredi
  BY <1>1, <1>2, <1>3 DEF KurulumYaz, KIlerlet
<1>5. /\ \A o \in KSiparis : ofis'[o] = IF o = k.x THEN k.ad ELSE ofis[o]
      /\ \A b \in KIstek : kIstek'[b] = IF b = a THEN r ELSE kIstek[b]
  BY <1>2, <1>4 DEF KurulumTypeOK
<1>6. Kurulular' = Kurulular \cup {k.x}
  BY <1>2, <1>5 DEF Kurulular
<1>7. Alinan' = Alinan \cup {k.ad}
  <2>1. \A o \in Kurulular : ofis'[o] = ofis[o]
    BY <1>4, <1>5 DEF Kurulular
  <2> QED BY <1>2, <1>4, <1>5, <1>6, <2>1 DEF Alinan
<1>8. KurulumTypeOK'
  <2>1. r \in KIstekKaydi
    BY <1>2, <1>3 DEF KrediAdimi, KIstekKaydi
  <2>2. Kurulular \subseteq KSiparis
    BY DEF Kurulular
  <2> QED BY <1>2, <1>4, <2>1, <2>2 DEF KurulumTypeOK
<1>9. TekBuro'
  <2>1. ASSUME NEW o \in kEpostali', NEW p \in kEpostali', o # p
        PROVE  o \in yarisan' \/ p \in yarisan'
    <3>1. CASE o # k.x /\ p # k.x
      BY <1>4, <2>1, <3>1 DEF KurulumInv, TekBuro
    <3>2. CASE o = k.x \/ p = k.x
      BY <1>4, <2>1, <3>2
    <3> QED BY <3>1, <3>2
  <2>2. ASSUME NEW o \in Kurulular'
        PROVE  ofis'[o] \notin kDolu' /\ \A p \in Kurulular' : o # p => ofis'[o] # ofis'[p]
    BY <1>2, <1>4, <1>5, <1>6 DEF KurulumInv, TekBuro, Alinan, Kurulular
  <2>3. ASSUME NEW o \in Kurulular'
        PROVE  EnIyiAd(o)'
    <3>1. \A p \in Kurulular : ofis'[p] = ofis[p] /\ p # k.x
      BY <1>4, <1>5 DEF Kurulular
    <3>2. CASE o = k.x
      <4>1. PICK i \in DOMAIN KAdlar[o] :
              k.ad = KAdlar[o][i] /\ \A j \in 1 .. i - 1 : KAdlar[o][j] \in Alinan
        BY <1>2, <3>2 DEF KAdIyi
      <4>2. Alinan \subseteq kDolu' \cup {ofis'[p] : p \in Kurulular' \ {o}}
        BY <1>4, <1>6, <3>1, <3>2 DEF Alinan
      <4>3. ofis'[o] = k.ad
        BY <1>2, <1>5, <3>2
      <4> QED BY <4>1, <4>2, <4>3 DEF EnIyiAd
    <3>3. CASE o # k.x
      <4>1. o \in Kurulular
        BY <1>6, <3>3
      <4>2. PICK i \in DOMAIN KAdlar[o] :
              /\ ofis[o] = KAdlar[o][i]
              /\ \A j \in 1 .. i - 1 : KAdlar[o][j] \in kDolu \cup {ofis[p] : p \in Kurulular \ {o}}
        BY <4>1 DEF KurulumInv, TekBuro, EnIyiAd
      <4>3. kDolu \cup {ofis[p] : p \in Kurulular \ {o}} \subseteq kDolu' \cup {ofis'[p] : p \in Kurulular' \ {o}}
        BY <1>4, <1>6, <3>1
      <4> QED BY <3>1, <4>1, <4>2, <4>3 DEF EnIyiAd
    <3> QED BY <3>2, <3>3
  <2>4. ASSUME NEW c \in kuruluKredi'
        PROVE  c[2] \in Kurulular' /\ Sahibi(c[1], c[2])'
    BY <1>4, <1>6 DEF KurulumInv, TekBuro, Sahibi
  <2> QED BY <2>1, <2>2, <2>3, <2>4 DEF TekBuro
<1>10. ASSUME NEW b \in KIstek PROVE KIstekIyi(kIstek[b])'
  <2>1. CASE b = a
    <3>1. kIstek'[b] = [adim |-> "kredi", x |-> k.x, b |-> k.x]
      BY <1>3, <1>5, <2>1 DEF KrediAdimi
    <3> QED BY <1>6, <3>1 DEF KIstekIyi, Sahibi
  <2>2. CASE b # a
    <3>1. PICK q : q = kIstek[b]
      OBVIOUS
    <3>2. KIstekIyi(q)'
      BY <1>6, <1>7, <3>1, KIstekIyiKalir DEF KurulumInv
    <3>3. kIstek'[b] = q
      BY <1>5, <2>2, <3>1
    <3> QED BY <3>2, <3>3 DEF KIstekIyi, KAdIyi, Sahibi
  <2> QED BY <2>1, <2>2
<1> QED BY <1>4, <1>6, <1>8, <1>9, <1>10 DEF KurulumInv

(* What comes from outside the deliveries: another user's name, and the    *)
(* change of an owner's e-mail.                                            *)
LEMMA KDisAdimKorur ==
  ASSUME KurulumInv, (\E n \in KAd : KBaskasi(n)) \/ (\E o \in KSiparis : KEpostaBirak(o))
  PROVE  KurulumInv'
<1>1. /\ kDolu \subseteq kDolu' /\ kDolu' \subseteq KAd /\ kEpostali' \subseteq kEpostali
      /\ UNCHANGED <<ofis, onceki, yarisan, kuruluKredi, kIstek>>
      /\ \A n \in kDolu' \ kDolu : n \notin Alinan
  BY DEF KBaskasi, KEpostaBirak, kBuroVars, KurulumInv, KurulumTypeOK
<1>2. Kurulular' = Kurulular /\ Alinan \subseteq Alinan'
  BY <1>1 DEF Kurulular, Alinan
<1>3. KurulumTypeOK'
  BY <1>1 DEF KurulumInv, KurulumTypeOK
<1>4. TekBuro'
  <2>1. \A o \in Kurulular : ofis'[o] \notin kDolu'
    BY <1>1 DEF KurulumInv, TekBuro, Alinan
  <2>2. ASSUME NEW o \in Kurulular PROVE EnIyiAd(o)'
    <3>1. EnIyiAd(o)
      BY DEF KurulumInv, TekBuro
    <3> QED BY <1>1, <1>2, <3>1 DEF EnIyiAd
  <2> QED BY <1>1, <1>2, <2>1, <2>2 DEF KurulumInv, TekBuro, Sahibi
<1>5. ASSUME NEW b \in KIstek PROVE KIstekIyi(kIstek[b])'
  <2>1. PICK q : q = kIstek[b]
    OBVIOUS
  <2>2. KIstekIyi(q)'
    BY <1>2, <2>1, KIstekIyiKalir DEF KurulumInv
  <2> QED BY <1>1, <2>1, <2>2 DEF KIstekIyi, KAdIyi, Sahibi
<1> QED BY <1>1, <1>2, <1>3, <1>4, <1>5 DEF KurulumInv

(* Every step of the deliveries and of the requests made by hand.          *)
LEMMA KurulumAdimiKorur ==
  ASSUME KurulumInv, [KurulumNext]_kurulumVars
  PROVE  KurulumInv'
<1>0. KurulumTypeOK
  BY DEF KurulumInv
<1>1. ASSUME NEW a \in KIstek, NEW o \in KSiparis, KSiparisOku(a, o) \/ KEldenBasla(a, o)
      PROVE  KurulumInv'
  <2>1. CASE KGec(a, [adim |-> "eposta", x |-> o])
    BY <2>1, KBosIstek, KGecKorur
  <2>2. CASE o \in Kurulular /\ KGec(a, KrediAdimi(o, o))
    <3>1. Sahibi(o, o)
      BY DEF Sahibi
    <3> QED BY <2>2, <3>1, KKrediIstek, KGecKorur
  <2> QED BY <1>1, <2>1, <2>2 DEF KSiparisOku, KEldenBasla
<1>2. ASSUME NEW a \in KIstek, KEpostaOku(a)
      PROVE  KurulumInv'
  <2>1. PICK o : o = kIstek[a].x
    OBVIOUS
  <2>2. o \in KSiparis
    BY <1>0, <1>2, <2>1, KIstekAlanlari DEF KEpostaOku
  <2>3. CASE KGec(a, [adim |-> "ad", x |-> o, goren |-> {}])
    <3>1. [adim |-> "ad", x |-> o, goren |-> {}] \in KIstekKaydi
      BY <2>2 DEF KIstekKaydi
    <3>2. KIstekIyi([adim |-> "ad", x |-> o, goren |-> {}])
      BY DEF KIstekIyi
    <3> QED BY <2>3, <3>1, <3>2, KGecKorur
  <2>4. CASE KGec(a, Bitti)
    BY <2>2, <2>4, KBosIstek, KGecKorur
  <2>5. CASE \E p \in EnEski : Sahibi(o, p) /\ KGec(a, KrediAdimi(o, p))
    <3>1. PICK p \in EnEski : Sahibi(o, p) /\ KGec(a, KrediAdimi(o, p))
      BY <2>5
    <3>2. p \in Kurulular
      BY DEF EnEski, KurulumInv
    <3> QED BY <2>2, <3>1, <3>2, KKrediIstek, KGecKorur
  <2> QED BY <1>2, <2>1, <2>3, <2>4, <2>5 DEF KEpostaOku
<1>3. ASSUME NEW a \in KIstek, KAdOku(a)
      PROVE  KurulumInv'
  <2>1. PICK o : o = kIstek[a].x
    OBVIOUS
  <2>2. o \in KSiparis /\ kIstek[a].goren = {}
    BY <1>0, <1>3, <2>1, KIstekAlanlari DEF KAdOku, KurulumInv, KIstekIyi
  <2>3. CASE KGec(a, Bitti)
    BY <2>2, <2>3, KBosIstek, KGecKorur
  <2>4. CASE \E i \in DOMAIN KAdlar[o] :
               /\ IlkBos(o, i)
               /\ KGec(a, [adim |-> "kontrol", x |-> o, ad |-> KAdlar[o][i], goren |-> kIstek[a].goren])
    <3>1. PICK i \in DOMAIN KAdlar[o] :
            /\ IlkBos(o, i)
            /\ KGec(a, [adim |-> "kontrol", x |-> o, ad |-> KAdlar[o][i], goren |-> kIstek[a].goren])
      BY <2>4
    <3>2. PICK n : n = KAdlar[o][i]
      OBVIOUS
    <3>3. n \in KAd /\ KAdIyi(o, n)
      BY <2>2, <3>1, <3>2, KAdlarAddir DEF IlkBos, KAdIyi
    <3>4. PICK r : r = [adim |-> "kontrol", x |-> o, ad |-> n, goren |-> {}]
      OBVIOUS
    <3>5. r \in KIstekKaydi
      BY <2>2, <3>3, <3>4 DEF KIstekKaydi
    <3>6. KIstekIyi(r)
      BY <3>3, <3>4 DEF KIstekIyi
    <3>7. KGec(a, r)
      BY <2>2, <3>1, <3>2, <3>4
    <3> QED BY <3>5, <3>6, <3>7, KGecKorur
  <2> QED BY <1>3, <2>1, <2>3, <2>4 DEF KAdOku
<1>4. ASSUME NEW a \in KIstek, KAdKontrol(a)
      PROVE  KurulumInv'
  <2>1. PICK k : k = kIstek[a]
    OBVIOUS
  <2>2. /\ k.x \in KSiparis /\ k.ad \in KAd /\ k.goren = {} /\ KAdIyi(k.x, k.ad)
        /\ k = [adim |-> "kontrol", x |-> k.x, ad |-> k.ad, goren |-> {}]
    BY <1>0, <1>4, <2>1, KIstekAlanlari DEF KAdKontrol, KurulumInv, KIstekIyi
  <2>3. CASE KGec(a, Bitti)
    BY <2>2, <2>3, KBosIstek, KGecKorur
  <2>4. CASE KGec(a, [k EXCEPT !.adim = "kur"])
    <3>1. PICK r : r = [adim |-> "kur", x |-> k.x, ad |-> k.ad, goren |-> {}]
      OBVIOUS
    <3>2. r = [k EXCEPT !.adim = "kur"]
      BY <2>2, <3>1
    <3>3. r \in KIstekKaydi
      BY <2>2, <3>1 DEF KIstekKaydi
    <3>4. KIstekIyi(r)
      BY <2>2, <3>1 DEF KIstekIyi
    <3> QED BY <2>4, <3>2, <3>3, <3>4, KGecKorur
  <2> QED BY <1>4, <2>1, <2>3, <2>4 DEF KAdKontrol
<1>5. ASSUME NEW a \in KIstek, KurulumCakisir(a)
      PROVE  KurulumInv'
  <2>1. PICK o : o = kIstek[a].x
    OBVIOUS
  <2>2. o \in KSiparis /\ Sahibi(o, o)
    BY <1>0, <1>5, <2>1, KIstekAlanlari DEF KurulumCakisir, Sahibi
  <2>3. (o \in Kurulular /\ KGec(a, KrediAdimi(o, o))) \/ KGec(a, Bitti)
    BY <1>5, <2>1 DEF KurulumCakisir
  <2> QED BY <2>2, <2>3, KBosIstek, KKrediIstek, KGecKorur
<1>6. ASSUME NEW a \in KIstek, KKredi(a)
      PROVE  KurulumInv'
  <2>1. PICK o, p : o = kIstek[a].x /\ p = kIstek[a].b
    OBVIOUS
  <2>2. o \in KSiparis /\ p \in KSiparis /\ p \in Kurulular /\ Sahibi(o, p)
    BY <1>0, <1>6, <2>1, KIstekAlanlari DEF KKredi, KurulumInv, KIstekIyi
  <2>3. /\ kuruluKredi' \subseteq kuruluKredi \cup {<<o, p>>}
        /\ KIlerlet(a, Bitti) /\ UNCHANGED <<kBuroVars, kDolu>>
    BY <1>6, <2>1 DEF KKredi
  <2>4. /\ kuruluKredi' \subseteq KSiparis \X KSiparis
        /\ \A c \in kuruluKredi' : c[2] \in Kurulular /\ Sahibi(c[1], c[2])
    BY <1>0, <2>2, <2>3 DEF KurulumTypeOK, KurulumInv, TekBuro
  <2> QED BY <2>2, <2>3, <2>4, KBosIstek, KIlerletKorur
<1>7. ASSUME NEW a \in KIstek, KDuser(a)
      PROVE  KurulumInv'
  <2>1. KGec(a, Bitti)
    BY <1>7 DEF KDuser
  <2>2. Bitti \in KIstekKaydi /\ KIstekIyi(Bitti)
    BY DEF Bitti, KIstekKaydi, KIstekIyi
  <2> QED BY <2>1, <2>2, KGecKorur
<1>8. CASE UNCHANGED kurulumVars
  BY <1>8 DEF kurulumVars, KurulumInv, KurulumTypeOK, TekBuro, EnIyiAd, Sahibi, KIstekIyi, KAdIyi,
     Alinan, Kurulular
<1> QED BY <1>1, <1>2, <1>3, <1>4, <1>5, <1>6, <1>7, <1>8, KurulumYazKorur, KDisAdimKorur
        DEF KurulumNext, KurulumAdimi

(* At the start there is no office and no delivery.                        *)
LEMMA KurulumBaslangic ==
  ASSUME KurulumInit
  PROVE  KurulumInv
<1>1. KurulumTypeOK /\ Kurulular = {} /\ kEpostali = {} /\ kuruluKredi = {}
  BY DEF KurulumInit, KurulumTypeOK, Kurulular, KIstekKaydi, Bos
<1>2. \A a \in KIstek : kIstek[a].adim = "bos"
  BY DEF KurulumInit, Bos
<1> QED BY <1>1, <1>2 DEF KurulumInv, TekBuro, KIstekIyi

(* The inductive invariant of the creation of offices                      *)
(* always holds.                                                           *)
THEOREM KurulumDegismez == KurulumSpec => []KurulumInv
<1>1. KurulumInit => KurulumInv
  BY KurulumBaslangic
<1>2. KurulumInv /\ [KurulumNext]_kurulumVars => KurulumInv'
  BY KurulumAdimiKorur
<1> QED BY <1>1, <1>2, PTL DEF KurulumSpec

(* Whatever names the orders bring: a second office with one e-mail comes  *)
(* only from an overtaken look-up, names are unique and each the best of   *)
(* its own list, and credit goes to offices of the customer alone.         *)
THEOREM TekBuroKurulur == KurulumSpec => []TekBuro
<1>1. KurulumInv => TekBuro
  BY DEF KurulumInv
<1> QED BY <1>1, KurulumDegismez, PTL

(* Rows and requests of the creation of offices keep their types.          *)
THEOREM KurulumTipiKorunur == KurulumSpec => []KurulumTypeOK
<1>1. KurulumInv => KurulumTypeOK
  BY DEF KurulumInv
<1> QED BY <1>1, KurulumDegismez, PTL
-----------------------------------------------------------------------------
(***************************************************************************)
(* Administrators and users.  What a request whose table nobody has        *)
(* written since found there is still so: a second super admin where it    *)
(* takes one away, an owner who is not the user it changes.                *)
(***************************************************************************)
USurer(a) == uIstek[a] \notin {Bos, Bitti}
UHedefVar ==
  \A a \in UIstek : USurer(a) =>
    /\ uIstek[a].tablo = "admin" => uAdmin[uIstek[a].hedef] # Yok
    /\ uIstek[a].tablo = "uye" /\ uIstek[a].adim = "yaz" => uUye[uIstek[a].hedef] # Yok

UAdminOkunan(r) ==
  r.tablo = "admin" /\ r.adim = "yaz" /\ UAlir(uAdmin[r.hedef], r.rol, r.aktif) => UIkiSuper
UUyeOkunan(r) ==
  r.tablo = "uye" /\ r.aktor # Yok =>
    uUye[r.aktor] = AktifSahip /\ (r.adim = "yaz" => r.hedef # r.aktor)
UOkunanDogru ==
  \A a \in UIstek : USurer(a) /\ ~uIstek[a].bayat =>
    UAdminOkunan(uIstek[a]) /\ UUyeOkunan(uIstek[a])

KadroInv == KadroTypeOK /\ KadroTutarli /\ UHedefVar /\ UOkunanDogru

(* A request under way is one about administrators or one about users.     *)
LEMMA UIstekAlanlari ==
  ASSUME KadroTypeOK, NEW a \in UIstek, USurer(a)
  PROVE  uIstek[a] \in UAdminIstegi \/ uIstek[a] \in UUyeIstegi
BY DEF KadroTypeOK, USurer

(* The two kinds of request differ, and neither is an ended one.           *)
LEMMA UAdimlari ==
  /\ \A r \in UAdminIstegi : r.tablo = "admin"
  /\ \A r \in UUyeIstegi : r.tablo = "uye"
  /\ \A r \in UAdminIstegi \cup UUyeIstegi : r # Bos /\ r # Bitti
  /\ Bos.adim = "bos" /\ Bitti.adim = "bitti"
BY DEF UAdminIstegi, UUyeIstegi, Bos, Bitti

(* A step of a request that writes no table.                               *)
LEMMA UIlerletKorur ==
  ASSUME KadroInv, NEW a \in UIstek, NEW k \in UAdminIstegi \cup UUyeIstegi \cup {Bos, Bitti},
         UIlerlet(a, k), UNCHANGED <<uAdmin, uUye, uSasan, uMudahale>>,
         k \notin {Bos, Bitti} =>
           /\ k.tablo = "admin" => uAdmin[k.hedef] # Yok
           /\ k.tablo = "uye" /\ k.adim = "yaz" => uUye[k.hedef] # Yok
           /\ ~k.bayat => UAdminOkunan(k) /\ UUyeOkunan(k)
  PROVE  KadroInv'
<1>1. \A b \in UIstek : uIstek'[b] = IF b = a THEN k ELSE uIstek[b]
  BY DEF UIlerlet, KadroInv, KadroTypeOK
<1>2. KadroTypeOK'
  BY DEF UIlerlet, KadroInv, KadroTypeOK
<1>3. KadroTutarli'
  BY DEF KadroInv, KadroTutarli
<1>4. UHedefVar'
  BY <1>1 DEF KadroInv, UHedefVar, USurer
<1>5. UOkunanDogru'
  BY <1>1 DEF KadroInv, UOkunanDogru, USurer, UAdminOkunan, UUyeOkunan, UIkiSuper, UAlir
<1> QED BY <1>2, <1>3, <1>4, <1>5 DEF KadroInv

(* What a write to a table leaves of the requests.                         *)
LEMMA UYazEtkisi ==
  ASSUME KadroTypeOK, NEW a \in UIstek, NEW t \in Tablo, UYaz(a, t)
  PROVE  /\ uIstek' \in [UIstek -> UAdminIstegi \cup UUyeIstegi \cup {Bos, Bitti}]
         /\ \A b \in UIstek : USurer(b)' =>
              /\ USurer(b) /\ b # a
              /\ uIstek[b].tablo = t =>
                   /\ uIstek'[b].bayat /\ uIstek'[b].tablo = t
                   /\ uIstek'[b].adim = uIstek[b].adim /\ uIstek'[b].hedef = uIstek[b].hedef
              /\ uIstek[b].tablo # t => uIstek'[b] = uIstek[b]
<1>1. uIstek' = [b \in UIstek |->
               CASE b = a -> Bitti
                 [] b # a /\ USurer(b) /\ uIstek[b].tablo = t -> [uIstek[b] EXCEPT !.bayat = TRUE]
                 [] OTHER -> uIstek[b]]
  BY DEF UYaz, USurer
<1>2. ASSUME NEW b \in UIstek
      PROVE  /\ uIstek'[b] \in UAdminIstegi \cup UUyeIstegi \cup {Bos, Bitti}
             /\ USurer(b)' =>
                  /\ USurer(b) /\ b # a
                  /\ uIstek[b].tablo = t =>
                       /\ uIstek'[b].bayat /\ uIstek'[b].tablo = t
                       /\ uIstek'[b].adim = uIstek[b].adim /\ uIstek'[b].hedef = uIstek[b].hedef
                  /\ uIstek[b].tablo # t => uIstek'[b] = uIstek[b]
  <2>1. CASE b = a
    BY <1>1, <2>1 DEF USurer
  <2>2. CASE b # a /\ USurer(b) /\ uIstek[b].tablo = t
    <3>1. uIstek'[b] = [uIstek[b] EXCEPT !.bayat = TRUE]
      BY <1>1, <2>2
    <3>2. CASE uIstek[b] \in UAdminIstegi
      BY <2>2, <3>1, <3>2 DEF UAdminIstegi
    <3>3. CASE uIstek[b] \in UUyeIstegi
      BY <2>2, <3>1, <3>3 DEF UUyeIstegi
    <3> QED BY <2>2, <3>2, <3>3, UIstekAlanlari
  <2>3. CASE b # a /\ ~(USurer(b) /\ uIstek[b].tablo = t)
    <3>1. uIstek'[b] = uIstek[b]
      BY <1>1, <2>3
    <3> QED BY <2>3, <3>1 DEF USurer, KadroTypeOK
  <2> QED BY <2>1, <2>2, <2>3
<1> QED BY <1>1, <1>2

(* A write to the administrators.                                          *)
LEMMA UAdminYazimi ==
  ASSUME KadroInv, NEW a \in UIstek, UYaz(a, "admin"), UNCHANGED <<uUye, uMudahale>>,
         uAdmin' \in [UAdmin -> AdminSatiri \cup {Yok}],
         \A s \in UAdmin : uAdmin[s] # Yok => uAdmin'[s] # Yok,
         uSasan \subseteq uSasan', uSasan' \subseteq Tablo,
         "admin" \in uSasan' \/ \E s \in UAdmin : uAdmin'[s] = AktifSuper
  PROVE  KadroInv'
<1>0. KadroTypeOK /\ "admin" \in Tablo
  BY DEF KadroInv, Tablo
<1>1. KadroTypeOK'
  BY <1>0, UYazEtkisi DEF KadroTypeOK
<1>2. KadroTutarli'
  BY DEF KadroInv, KadroTutarli
<1>3. ASSUME NEW b \in UIstek, USurer(b)'
      PROVE  /\ USurer(b)
             /\ uIstek[b].tablo = "admin" =>
                  /\ uIstek'[b].bayat /\ uIstek'[b].tablo = "admin"
                  /\ uIstek'[b].adim = uIstek[b].adim /\ uIstek'[b].hedef = uIstek[b].hedef
             /\ uIstek[b].tablo # "admin" => uIstek'[b] = uIstek[b]
  BY <1>0, <1>3, UYazEtkisi
<1>4. UHedefVar'
  <2>1. ASSUME NEW b \in UIstek, USurer(b), uIstek[b].tablo = "admin"
        PROVE  uIstek[b].hedef \in UAdmin
    BY <1>0, <2>1, UIstekAlanlari, UAdimlari DEF UAdminIstegi
  <2> QED BY <1>3, <2>1 DEF KadroInv, UHedefVar
<1>5. UOkunanDogru'
  <2>1. ASSUME NEW b \in UIstek, USurer(b)', ~uIstek'[b].bayat
        PROVE  UAdminOkunan(uIstek[b])' /\ UUyeOkunan(uIstek[b])'
    <3>1. USurer(b) /\ uIstek[b].tablo # "admin" /\ uIstek'[b] = uIstek[b]
      BY <1>3, <2>1
    <3> QED BY <2>1, <3>1 DEF KadroInv, UOkunanDogru, UAdminOkunan, UUyeOkunan
  <2> QED BY <2>1 DEF UOkunanDogru
<1> QED BY <1>1, <1>2, <1>4, <1>5 DEF KadroInv

(* A write to the users.                                                   *)
LEMMA UUyeYazimi ==
  ASSUME KadroInv, NEW a \in UIstek, UYaz(a, "uye"), UNCHANGED uAdmin,
         uUye' \in [UUye -> UyeSatiri \cup {Yok}],
         \A u \in UUye : uUye[u] # Yok => uUye'[u] # Yok,
         uSasan \subseteq uSasan', uSasan' \subseteq Tablo, uMudahale' \in BOOLEAN,
         "uye" \in uSasan' \/ uMudahale' \/ \E u \in UUye : uUye'[u] = AktifSahip
  PROVE  KadroInv'
<1>0. KadroTypeOK /\ "uye" \in Tablo
  BY DEF KadroInv, Tablo
<1>1. KadroTypeOK'
  BY <1>0, UYazEtkisi DEF KadroTypeOK
<1>2. KadroTutarli'
  BY DEF KadroInv, KadroTutarli
<1>3. ASSUME NEW b \in UIstek, USurer(b)'
      PROVE  /\ USurer(b)
             /\ uIstek[b].tablo = "uye" =>
                  /\ uIstek'[b].bayat /\ uIstek'[b].tablo = "uye"
                  /\ uIstek'[b].adim = uIstek[b].adim /\ uIstek'[b].hedef = uIstek[b].hedef
             /\ uIstek[b].tablo # "uye" => uIstek'[b] = uIstek[b]
  BY <1>0, <1>3, UYazEtkisi
<1>4. UHedefVar'
  <2>1. ASSUME NEW b \in UIstek, USurer(b), uIstek[b].tablo = "uye"
        PROVE  uIstek[b].hedef \in UUye
    BY <1>0, <2>1, UIstekAlanlari, UAdimlari DEF UUyeIstegi
  <2> QED BY <1>3, <2>1 DEF KadroInv, UHedefVar
<1>5. UOkunanDogru'
  <2>1. ASSUME NEW b \in UIstek, USurer(b)', ~uIstek'[b].bayat
        PROVE  UAdminOkunan(uIstek[b])' /\ UUyeOkunan(uIstek[b])'
    <3>1. USurer(b) /\ uIstek[b].tablo # "uye" /\ uIstek'[b] = uIstek[b]
      BY <1>3, <2>1
    <3> QED BY <2>1, <3>1 DEF KadroInv, UOkunanDogru, UAdminOkunan, UUyeOkunan, UIkiSuper, UAlir
  <2> QED BY <2>1 DEF UOkunanDogru
<1> QED BY <1>1, <1>2, <1>4, <1>5 DEF KadroInv

(* A patched row is a row.                                                 *)
LEMMA UYamaTipi ==
  /\ \A s \in AdminSatiri, rol \in {"SUPER_ADMIN", "DESTEK", Yok}, aktif \in BOOLEAN \cup {Yok} :
       UYama(s, rol, aktif) \in AdminSatiri
  /\ \A u \in UyeSatiri, rol \in {"BURO_SAHIBI", "AVUKAT_YONETICI", Yok}, aktif \in BOOLEAN \cup {Yok} :
       UYama(u, rol, aktif) \in UyeSatiri
  /\ AktifSuper \in AdminSatiri /\ AktifSahip \in UyeSatiri
BY DEF UYama, AdminSatiri, UyeSatiri, AktifSuper, AktifSahip

(* Requests about administrators, and a founder created.                   *)
LEMMA UAdminKorur ==
  ASSUME KadroInv, NEW a \in UIstek,
         UAdminEkle(a) \/ UAdminOku(a) \/ UAdminSay(a) \/ UAdminYaz(a) \/ UKurucuKur(a)
  PROVE  KadroInv'
<1>0. /\ KadroTypeOK /\ Yok \notin AdminSatiri /\ uSasan \subseteq Tablo /\ UKurucu \in UAdmin
      /\ uAdmin \in [UAdmin -> AdminSatiri \cup {Yok}]
  BY KadroVarsayimi DEF KadroInv, KadroTypeOK
<1>1. CASE UAdminEkle(a)
  <2>1. PICK s \in UAdmin, rol \in {"SUPER_ADMIN", "DESTEK"} :
          uAdmin[s] = Yok /\ uAdmin' = [uAdmin EXCEPT ![s] = [rol |-> rol, aktif |-> TRUE]]
    BY <1>1 DEF UAdminEkle
  <2>2. [rol |-> rol, aktif |-> TRUE] \in AdminSatiri
    BY DEF AdminSatiri
  <2>3. PICK p \in UAdmin : uAdmin[p] = AktifSuper
    BY <1>1 DEF UAdminEkle
  <2>4. p # s
    BY <1>0, <2>1, <2>3, UYamaTipi
  <2>5. uAdmin'[p] = AktifSuper /\ uAdmin' \in [UAdmin -> AdminSatiri \cup {Yok}]
        /\ \A q \in UAdmin : uAdmin[q] # Yok => uAdmin'[q] # Yok
    BY <1>0, <2>1, <2>2, <2>3, <2>4
  <2>6. UYaz(a, "admin") /\ UNCHANGED <<uUye, uSasan, uMudahale>>
    BY <1>1 DEF UAdminEkle
  <2> QED BY <1>0, <2>5, <2>6, UAdminYazimi
<1>2. CASE UAdminOku(a)
  <2>1. PICK o \in UAdmin, s \in UAdmin, rol \in {"SUPER_ADMIN", "DESTEK", Yok}, aktif \in {TRUE, FALSE, Yok} :
         /\ uAdmin[o] = AktifSuper /\ uAdmin[s] # Yok /\ ~(s = o /\ aktif = FALSE)
         /\ UIlerlet(a, UAdim("admin", IF UAlir(uAdmin[s], rol, aktif) THEN "say" ELSE "yaz", s, o, rol, aktif))
    BY <1>2 DEF UAdminOku
  <2>2. PICK d \in {"say", "yaz"} : d = IF UAlir(uAdmin[s], rol, aktif) THEN "say" ELSE "yaz"
    OBVIOUS
  <2>3. PICK k : k = UAdim("admin", d, s, o, rol, aktif)
    OBVIOUS
  <2>4. /\ k.tablo = "admin" /\ k.adim = d /\ k.hedef = s /\ k.rol = rol /\ k.aktif = aktif /\ ~k.bayat
        /\ k \in UAdminIstegi
    BY <2>3 DEF UAdim, UAdminIstegi
  <2>5. UAdminOkunan(k) /\ UUyeOkunan(k)
    BY <2>2, <2>4 DEF UAdminOkunan, UUyeOkunan
  <2>6. UIlerlet(a, k) /\ UNCHANGED <<uAdmin, uUye, uSasan, uMudahale>>
    BY <1>2, <2>1, <2>2, <2>3 DEF UAdminOku
  <2> QED BY <2>1, <2>4, <2>5, <2>6, UIlerletKorur
<1>3. CASE UAdminSay(a)
  <2>1. PICK r : r = uIstek[a]
    OBVIOUS
  <2>2. r.adim = "say" /\ UIkiSuper /\ UIlerlet(a, [r EXCEPT !.adim = "yaz"])
        /\ UNCHANGED <<uAdmin, uUye, uSasan, uMudahale>>
    BY <1>3, <2>1 DEF UAdminSay
  <2>3. USurer(a) /\ r \in UAdminIstegi
    BY <1>0, <2>1, <2>2, UIstekAlanlari, UAdimlari DEF USurer, UUyeIstegi
  <2>4. PICK k : k = [r EXCEPT !.adim = "yaz"]
    OBVIOUS
  <2>5. k \in UAdminIstegi /\ k.tablo = "admin" /\ k.hedef = r.hedef
    BY <2>3, <2>4 DEF UAdminIstegi
  <2>6. uAdmin[r.hedef] # Yok
    BY <2>1, <2>3, UAdimlari DEF KadroInv, UHedefVar
  <2>7. UAdminOkunan(k) /\ UUyeOkunan(k)
    BY <2>2, <2>5 DEF UAdminOkunan, UUyeOkunan
  <2> QED BY <2>2, <2>4, <2>5, <2>6, <2>7, UIlerletKorur
<1>4. CASE UAdminYaz(a)
  <2>1. PICK r : r = uIstek[a]
    OBVIOUS
  <2>2. /\ r.adim = "yaz" /\ r.tablo = "admin"
        /\ uAdmin' = [uAdmin EXCEPT ![r.hedef] = UYama(uAdmin[r.hedef], r.rol, r.aktif)]
        /\ UYaz(a, "admin") /\ UNCHANGED <<uUye, uMudahale>>
        /\ uSasan' = IF r.bayat THEN uSasan \cup {"admin"} ELSE uSasan
    BY <1>4, <2>1 DEF UAdminYaz, USasar
  <2>3. USurer(a) /\ r \in UAdminIstegi
    BY <1>0, <2>1, <2>2, UIstekAlanlari, UAdimlari DEF USurer
  <2>4. PICK s : s = r.hedef
    OBVIOUS
  <2>5. /\ s \in UAdmin /\ r.rol \in {"SUPER_ADMIN", "DESTEK", Yok} /\ r.aktif \in BOOLEAN \cup {Yok}
        /\ r.bayat \in BOOLEAN /\ uAdmin[s] # Yok
    BY <2>1, <2>2, <2>3, <2>4 DEF UAdminIstegi, KadroInv, UHedefVar
  <2>6. PICK y \in AdminSatiri : y = UYama(uAdmin[s], r.rol, r.aktif)
    BY <1>0, <2>5, UYamaTipi
  <2>7. /\ uAdmin' \in [UAdmin -> AdminSatiri \cup {Yok}]
        /\ \A p \in UAdmin : uAdmin'[p] = IF p = s THEN y ELSE uAdmin[p]
    BY <1>0, <2>2, <2>4, <2>5, <2>6
  <2>8. uSasan \subseteq uSasan' /\ uSasan' \subseteq Tablo
    BY <1>0, <2>2 DEF Tablo
  <2>9. "admin" \in uSasan' \/ \E p \in UAdmin : uAdmin'[p] = AktifSuper
    <3>1. CASE r.bayat \/ "admin" \in uSasan
      BY <2>2, <3>1
    <3>2. CASE ~r.bayat /\ "admin" \notin uSasan
      <4>1. UAlir(uAdmin[s], r.rol, r.aktif) => UIkiSuper
        BY <2>1, <2>2, <2>3, <2>4, <3>2 DEF KadroInv, UOkunanDogru, UAdminOkunan
      <4>2. PICK p \in UAdmin : uAdmin[p] = AktifSuper
        BY <3>2 DEF KadroInv, KadroTutarli
      <4>3. CASE UIkiSuper
        <5>1. PICK q \in UAdmin \ {s} : uAdmin[q] = AktifSuper
          BY <4>3 DEF UIkiSuper
        <5> QED BY <2>7, <5>1
      <4>4. CASE ~UAlir(uAdmin[s], r.rol, r.aktif)
        BY <2>6, <2>7, <4>2, <4>4 DEF UAlir
      <4> QED BY <4>1, <4>3, <4>4
    <3> QED BY <2>5, <3>1, <3>2
  <2>10. \A p \in UAdmin : uAdmin[p] # Yok => uAdmin'[p] # Yok
    BY <1>0, <2>7
  <2> QED BY <2>2, <2>7, <2>8, <2>9, <2>10, UAdminYazimi
<1>5. CASE UKurucuKur(a)
  <2>1. \A s \in UAdmin : uAdmin[s] # Yok => [uAdmin[s] EXCEPT !.aktif = FALSE] \in AdminSatiri
    BY <1>0 DEF AdminSatiri
  <2>2. /\ uAdmin' = [s \in UAdmin |-> CASE s = UKurucu -> AktifSuper
                                   [] s # UKurucu /\ uAdmin[s] # Yok -> [uAdmin[s] EXCEPT !.aktif = FALSE]
                                   [] OTHER -> Yok]
        /\ UYaz(a, "admin") /\ UNCHANGED <<uUye, uSasan, uMudahale>>
    BY <1>5 DEF UKurucuKur
  <2>3. ASSUME NEW s \in UAdmin
        PROVE  /\ uAdmin'[s] \in AdminSatiri \cup {Yok}
               /\ uAdmin[s] # Yok => uAdmin'[s] # Yok
    BY <1>0, <2>1, <2>2, UYamaTipi
  <2>4. uAdmin' \in [UAdmin -> AdminSatiri \cup {Yok}] /\ uAdmin'[UKurucu] = AktifSuper
    BY <1>0, <2>2, <2>3
  <2> QED BY <1>0, <2>2, <2>3, <2>4, UAdminYazimi
<1> QED BY <1>1, <1>2, <1>3, <1>4, <1>5

(* Requests about users of an office, and a request that dies.             *)
LEMMA UUyeKorur ==
  ASSUME KadroInv, NEW a \in UIstek,
         UUyeEkle(a) \/ UUyeIste(a) \/ UUyeOku(a) \/ UYonetimIste(a) \/ UUyeYaz(a) \/ UDuser(a)
  PROVE  KadroInv'
<1>0. /\ KadroTypeOK /\ Yok \notin UyeSatiri /\ uSasan \subseteq Tablo /\ uMudahale \in BOOLEAN
      /\ uUye \in [UUye -> UyeSatiri \cup {Yok}]
  BY KadroVarsayimi DEF KadroInv, KadroTypeOK
<1>1. CASE UUyeEkle(a)
  <2>1. PICK u \in UUye : uUye[u] = Yok /\ uUye' = [uUye EXCEPT ![u] = [rol |-> "AVUKAT_YONETICI", aktif |-> TRUE]]
    BY <1>1 DEF UUyeEkle
  <2>2. [rol |-> "AVUKAT_YONETICI", aktif |-> TRUE] \in UyeSatiri
    BY DEF UyeSatiri
  <2>3. PICK o \in UUye : uUye[o] = AktifSahip
    BY <1>1 DEF UUyeEkle
  <2>4. o # u
    BY <1>0, <2>1, <2>3, UYamaTipi
  <2>5. uUye'[o] = AktifSahip /\ uUye' \in [UUye -> UyeSatiri \cup {Yok}]
        /\ \A q \in UUye : uUye[q] # Yok => uUye'[q] # Yok
    BY <1>0, <2>1, <2>2, <2>3, <2>4
  <2>6. UYaz(a, "uye") /\ UNCHANGED <<uAdmin, uSasan, uMudahale>>
    BY <1>1 DEF UUyeEkle
  <2> QED BY <1>0, <2>5, <2>6, UUyeYazimi
<1>2. CASE UUyeIste(a)
  <2>1. PICK o \in UUye, u \in UUye, rol \in {"AVUKAT_YONETICI", Yok}, aktif \in BOOLEAN :
         uUye[o] = AktifSahip /\ UIlerlet(a, UAdim("uye", "oku", u, o, rol, aktif))
    BY <1>2 DEF UUyeIste
  <2>2. PICK k : k = UAdim("uye", "oku", u, o, rol, aktif)
    OBVIOUS
  <2>3. k.tablo = "uye" /\ k.adim = "oku" /\ k.aktor = o /\ k \in UUyeIstegi
    BY <2>2 DEF UAdim, UUyeIstegi
  <2>4. UAdminOkunan(k) /\ UUyeOkunan(k)
    BY <2>1, <2>3 DEF UAdminOkunan, UUyeOkunan
  <2>5. UNCHANGED <<uAdmin, uUye, uSasan, uMudahale>>
    BY <1>2 DEF UUyeIste
  <2> QED BY <2>1, <2>2, <2>3, <2>4, <2>5, UIlerletKorur
<1>3. CASE UUyeOku(a)
  <2>1. PICK r : r = uIstek[a]
    OBVIOUS
  <2>2. /\ r.adim = "oku" /\ r.aktor # Yok /\ UNCHANGED <<uAdmin, uUye, uSasan, uMudahale>>
        /\ \/ UIlerlet(a, Bitti)
           \/ uUye[r.hedef] # Yok /\ r.hedef # r.aktor /\ UIlerlet(a, [r EXCEPT !.adim = "yaz"])
    BY <1>3, <2>1 DEF UUyeOku
  <2>3. USurer(a) /\ r \in UUyeIstegi
    BY <1>0, <2>1, <2>2, UIstekAlanlari, UAdimlari DEF USurer, UAdminIstegi
  <2>4. CASE UIlerlet(a, Bitti)
    BY <2>2, <2>4, UIlerletKorur
  <2>5. CASE uUye[r.hedef] # Yok /\ r.hedef # r.aktor /\ UIlerlet(a, [r EXCEPT !.adim = "yaz"])
    <3>1. PICK k : k = [r EXCEPT !.adim = "yaz"]
      OBVIOUS
    <3>2. /\ k \in UUyeIstegi /\ k.tablo = "uye" /\ k.hedef = r.hedef /\ k.aktor = r.aktor
          /\ k.adim = "yaz" /\ k.bayat = r.bayat /\ r.tablo = "uye"
      BY <2>3, <3>1 DEF UUyeIstegi
    <3>3. ~k.bayat => UAdminOkunan(k) /\ UUyeOkunan(k)
      <4>1. ~r.bayat => uUye[r.aktor] = AktifSahip
        BY <2>1, <2>2, <2>3, <3>2 DEF KadroInv, UOkunanDogru, UUyeOkunan
      <4> QED BY <2>5, <3>2, <4>1 DEF UAdminOkunan, UUyeOkunan
    <3> QED BY <2>2, <2>5, <3>1, <3>2, <3>3, UIlerletKorur
  <2> QED BY <2>2, <2>4, <2>5
<1>4. CASE UYonetimIste(a)
  <2>1. PICK u \in UUye, rol \in {"BURO_SAHIBI", "AVUKAT_YONETICI", Yok}, aktif \in {TRUE, FALSE, Yok} :
         uUye[u] # Yok /\ UIlerlet(a, UAdim("uye", "yaz", u, Yok, rol, aktif))
    BY <1>4 DEF UYonetimIste
  <2>2. PICK k : k = UAdim("uye", "yaz", u, Yok, rol, aktif)
    OBVIOUS
  <2>3. k.tablo = "uye" /\ k.hedef = u /\ k.aktor = Yok /\ k \in UUyeIstegi
    BY <2>2 DEF UAdim, UUyeIstegi
  <2>4. UAdminOkunan(k) /\ UUyeOkunan(k)
    BY <2>3 DEF UAdminOkunan, UUyeOkunan
  <2>5. UNCHANGED <<uAdmin, uUye, uSasan, uMudahale>>
    BY <1>4 DEF UYonetimIste
  <2> QED BY <2>1, <2>2, <2>3, <2>4, <2>5, UIlerletKorur
<1>5. CASE UUyeYaz(a)
  <2>1. PICK r : r = uIstek[a]
    OBVIOUS
  <2>2. PICK u, y : u = r.hedef /\ y = UYama(uUye[r.hedef], r.rol, r.aktif)
    OBVIOUS
  <2>3. /\ r.adim = "yaz" /\ r.tablo = "uye"
        /\ uUye' = [uUye EXCEPT ![u] = y]
        /\ uMudahale' = (uMudahale \/ (r.aktor = Yok /\ uUye[u] = AktifSahip /\ y # AktifSahip))
        /\ UYaz(a, "uye") /\ uAdmin' = uAdmin
        /\ uSasan' = IF r.bayat THEN uSasan \cup {"uye"} ELSE uSasan
    BY <1>5, <2>1, <2>2 DEF UUyeYaz, USasar
  <2>4. USurer(a) /\ r \in UUyeIstegi
    BY <1>0, <2>1, <2>3, UIstekAlanlari, UAdimlari DEF USurer
  <2>5. /\ u \in UUye /\ r.rol \in {"BURO_SAHIBI", "AVUKAT_YONETICI", Yok} /\ r.aktif \in BOOLEAN \cup {Yok}
        /\ r.bayat \in BOOLEAN /\ uUye[u] # Yok /\ r.aktor \in UUye \cup {Yok}
    BY <2>1, <2>2, <2>3, <2>4 DEF UUyeIstegi, KadroInv, UHedefVar
  <2>6. y \in UyeSatiri
    BY <1>0, <2>2, <2>5, UYamaTipi
  <2>7. /\ uUye' \in [UUye -> UyeSatiri \cup {Yok}]
        /\ \A p \in UUye : uUye'[p] = IF p = u THEN y ELSE uUye[p]
    BY <1>0, <2>3, <2>5, <2>6
  <2>8. uSasan \subseteq uSasan' /\ uSasan' \subseteq Tablo
    BY <1>0, <2>3 DEF Tablo
  <2>9. "uye" \in uSasan' \/ uMudahale' \/ \E p \in UUye : uUye'[p] = AktifSahip
    <3>1. CASE r.bayat \/ "uye" \in uSasan \/ uMudahale
      BY <2>3, <3>1
    <3>2. CASE ~r.bayat /\ "uye" \notin uSasan /\ ~uMudahale
      <4>1. CASE r.aktor # Yok
        <5>1. uUye[r.aktor] = AktifSahip /\ u # r.aktor
          BY <2>1, <2>2, <2>3, <2>4, <3>2, <4>1 DEF KadroInv, UOkunanDogru, UUyeOkunan
        <5> QED BY <2>5, <2>7, <4>1, <5>1
      <4>2. CASE r.aktor = Yok
        <5>1. PICK p \in UUye : uUye[p] = AktifSahip
          BY <3>2 DEF KadroInv, KadroTutarli
        <5>2. CASE p # u
          BY <2>7, <5>1, <5>2
        <5>3. CASE p = u
          BY <2>3, <2>7, <4>2, <5>1, <5>3
        <5> QED BY <5>2, <5>3
      <4> QED BY <4>1, <4>2
    <3> QED BY <1>0, <2>5, <3>1, <3>2
  <2>10. uMudahale' \in BOOLEAN
    BY <1>0, <2>3
  <2>11. \A p \in UUye : uUye[p] # Yok => uUye'[p] # Yok
    BY <1>0, <2>6, <2>7
  <2> QED BY <2>3, <2>7, <2>8, <2>9, <2>10, <2>11, UUyeYazimi
<1>6. CASE UDuser(a)
  BY <1>6, UIlerletKorur DEF UDuser
<1> QED BY <1>1, <1>2, <1>3, <1>4, <1>5, <1>6

(* Every step of administrators and users.                                 *)
LEMMA KadroAdimiKorur ==
  ASSUME KadroInv, [KadroNext]_kadroVars
  PROVE  KadroInv'
<1>1. CASE UNCHANGED kadroVars
  BY <1>1 DEF kadroVars, KadroInv, KadroTypeOK, KadroTutarli, UHedefVar, UOkunanDogru, USurer,
     UAdminOkunan, UUyeOkunan, UIkiSuper, UAlir
<1> QED BY <1>1, UAdminKorur, UUyeKorur DEF KadroNext

(* At the start no request is under way.                                   *)
LEMMA KadroBaslangic ==
  ASSUME KadroInit
  PROVE  KadroInv
<1>1. KadroTypeOK
  BY DEF KadroInit, KadroTypeOK
<1>2. KadroTutarli
  BY DEF KadroInit, KadroTutarli
<1>3. \A a \in UIstek : ~USurer(a)
  BY DEF KadroInit, USurer
<1> QED BY <1>1, <1>2, <1>3 DEF KadroInv, UHedefVar, UOkunanDogru

(* The inductive invariant of administrators and users always holds.       *)
THEOREM KadroDegismez == KadroSpec => []KadroInv
<1>1. KadroInit => KadroInv
  BY KadroBaslangic
<1>2. KadroInv /\ [KadroNext]_kadroVars => KadroInv'
  BY KadroAdimiKorur
<1> QED BY <1>1, <1>2, PTL DEF KadroSpec

(* The platform keeps a super admin and the office an owner who can sign   *)
(* in, for any number of accounts and requests.                            *)
THEOREM KadroTutarlidir == KadroSpec => []KadroTutarli
<1>1. KadroInv => KadroTutarli
  BY DEF KadroInv
<1> QED BY <1>1, KadroDegismez, PTL

(* Rows and requests of administrators and users keep their types.         *)
THEOREM KadroTipiKorunur == KadroSpec => []KadroTypeOK
<1>1. KadroInv => KadroTypeOK
  BY DEF KadroInv
<1> QED BY <1>1, KadroDegismez, PTL
-----------------------------------------------------------------------------
(***************************************************************************)
(* The licence.  An extension never computes an end before the end it      *)
(* read; a request that has to book a credit holds a period of its own;    *)
(* and a session a request holds stays with the order it was bound to.     *)
(***************************************************************************)
LYazDogru ==
  \A a \in LisansIstek : lisansIstek[a].adim = "yaz" /\ ~lisansIstek[a].elle =>
    lisansIstek[a].okunan <= lisansIstek[a].taban /\ lisansIstek[a].taban <= lisansIstek[a].yeni

LKrediDogru ==
  /\ \A a \in LisansIstek : lisansIstek[a].adim = "kredi" =>
       /\ lisansIstek[a].x \in Donemler
       /\ lisansIstek[a].uygun => donem[lisansIstek[a].x].yillik
  /\ \A x \in Donemler : donem[x].yillik /\ ~donem[x].demo =>
       x \in krediDonem \cup aksayan
       \/ \E a \in LisansIstek : lisansIstek[a].adim = "kredi" /\ lisansIstek[a].x = x /\ lisansIstek[a].uygun

\* Session s is bound to the order x, for good.
Bagli(s, x) == satinalma[s].siparis = x /\ satinalma[s].durum \in {"BOUND", "CONSUMED", "EXPIRED"}

LOturumDogru ==
  \A a \in LisansIstek :
    /\ lisansIstek[a].adim \in {"uzat", "yaz", "kredi"} /\ lisansIstek[a].oturum # Yok =>
         Bagli(lisansIstek[a].oturum, lisansIstek[a].x)
    /\ lisansIstek[a].adim = "tuket" =>
         Bagli(lisansIstek[a].oturum, satinalma[lisansIstek[a].oturum].siparis)
         /\ satinalma[lisansIstek[a].oturum].siparis \in Donemler

LisansInv ==
  /\ LisansTypeOK /\ SureKorunur /\ LYazDogru
  /\ DonemKredili /\ LKrediDogru
  /\ SatinalmaTutarli /\ LOturumDogru

(* What a request holds at each of its steps.                              *)
LEMMA LIstekAlanlari ==
  ASSUME NEW k \in LisansIstekKaydi
  PROVE  /\ k.adim = "uzat" => k \in [adim : {"uzat"}, x : Siparis, oturum : Satinalma \cup {Yok}]
         /\ k.adim = "yaz" => k \in [adim : {"yaz"}, x : Anahtar, oturum : Satinalma \cup {Yok}, okunan : Nat,
              taban : Nat, yeni : Nat, demo : BOOLEAN, elle : BOOLEAN]
         /\ k.adim = "kredi" => k \in [adim : {"kredi"}, x : Anahtar, oturum : Satinalma \cup {Yok}, uygun : BOOLEAN]
         /\ k.adim = "tuket" => k.oturum \in Satinalma
BY DEF LisansIstekKaydi, Bos, Bitti

(* A request moves and no table changes; it had nothing left to book, or   *)
(* nothing to book at all.                                                 *)
LEMMA LIlerletKorur ==
  ASSUME LisansInv, NEW a \in LisansIstek, NEW k \in LisansIstekKaydi, LisansIlerlet(a, k),
         UNCHANGED <<buro, gun, donem, satinalma, eksilen>>,
         krediDonem \subseteq krediDonem', krediDonem' \subseteq {x \in Donemler : donem[x].yillik},
         aksayan \subseteq aksayan', aksayan' \subseteq Anahtar,
         lisansIstek[a].adim = "kredi" /\ lisansIstek[a].uygun =>
           lisansIstek[a].x \in krediDonem' \cup aksayan',
         k.adim = "yaz" /\ ~k.elle => k.okunan <= k.taban /\ k.taban <= k.yeni,
         k.adim = "kredi" => k.x \in Donemler /\ (k.uygun => donem[k.x].yillik),
         k.adim \in {"uzat", "yaz", "kredi"} /\ k.oturum # Yok => Bagli(k.oturum, k.x),
         k.adim = "tuket" => \E x \in Donemler : Bagli(k.oturum, x)
  PROVE  LisansInv'
<1>0. LisansTypeOK
  BY DEF LisansInv
<1>1. \A b \in LisansIstek : lisansIstek'[b] = IF b = a THEN k ELSE lisansIstek[b]
  BY <1>0 DEF LisansIlerlet, LisansTypeOK
<1>2. Donemler' = Donemler
  BY DEF Donemler
<1>3. LisansTypeOK'
  BY <1>0 DEF LisansIlerlet, LisansTypeOK, Donemler, Anahtar
<1>4. SureKorunur'
  BY <1>2 DEF LisansInv, SureKorunur
<1>5. LYazDogru'
  BY <1>1 DEF LisansInv, LYazDogru
<1>6. LKrediDogru' /\ DonemKredili'
  <2>1. \A b \in LisansIstek : lisansIstek'[b].adim = "kredi" =>
           /\ lisansIstek'[b].x \in Donemler
           /\ lisansIstek'[b].uygun => donem[lisansIstek'[b].x].yillik
    BY <1>1 DEF LisansInv, LKrediDogru
  <2>2. ASSUME NEW x \in Donemler, donem[x].yillik, ~donem[x].demo
        PROVE  x \in krediDonem' \cup aksayan'
                 \/ \E b \in LisansIstek : lisansIstek'[b].adim = "kredi" /\ lisansIstek'[b].x = x /\ lisansIstek'[b].uygun
    <3>1. CASE x \in krediDonem \cup aksayan
      BY <3>1
    <3>2. CASE \E b \in LisansIstek : lisansIstek[b].adim = "kredi" /\ lisansIstek[b].x = x /\ lisansIstek[b].uygun
      <4>1. PICK b \in LisansIstek : lisansIstek[b].adim = "kredi" /\ lisansIstek[b].x = x /\ lisansIstek[b].uygun
        BY <3>2
      <4>2. CASE b = a
        BY <4>1, <4>2
      <4>3. CASE b # a
        BY <1>1, <4>1, <4>3
      <4> QED BY <4>2, <4>3
    <3> QED BY <2>2, <3>1, <3>2 DEF LisansInv, LKrediDogru
  <2> QED BY <1>2, <2>1, <2>2 DEF LKrediDogru, DonemKredili
<1>7. SatinalmaTutarli' /\ LOturumDogru'
  <2>1. SatinalmaTutarli'
    BY <1>2 DEF LisansInv, SatinalmaTutarli
  <2>2. \A s, x : Bagli(s, x)' <=> Bagli(s, x)
    BY DEF Bagli
  <2> QED BY <1>1, <1>2, <2>1, <2>2 DEF LisansInv, LOturumDogru, Bagli
<1> QED BY <1>3, <1>4, <1>5, <1>6, <1>7 DEF LisansInv

(* The sessions change, and stay with their orders.                        *)
LEMMA LSatinalmaKorur ==
  ASSUME LisansInv, NEW s \in Satinalma, NEW r \in SatinalmaSatiri,
         satinalma' = [satinalma EXCEPT ![s] = r],
         UNCHANGED <<buro, gun, donem, krediDonem, eksilen, aksayan>>,
         lisansIstek' = lisansIstek,
         \/ r.siparis = satinalma[s].siparis
         \/ satinalma[s].durum = "CREATED" /\ \A t \in Satinalma : satinalma[t].siparis # r.siparis,
         satinalma[s].durum \in {"BOUND", "CONSUMED", "EXPIRED"} => r.durum \in {"BOUND", "CONSUMED", "EXPIRED"},
         r.durum # "CONSUMED"
  PROVE  LisansInv'
<1>0. LisansTypeOK
  BY DEF LisansInv
<1>1. \A t \in Satinalma : satinalma'[t] = IF t = s THEN r ELSE satinalma[t]
  BY <1>0 DEF LisansTypeOK
<1>2. Donemler' = Donemler
  BY DEF Donemler
<1>3. LisansTypeOK'
  BY <1>0 DEF LisansTypeOK
<1>4. SureKorunur' /\ LYazDogru' /\ LKrediDogru' /\ DonemKredili'
  BY <1>2 DEF LisansInv, SureKorunur, LYazDogru, LKrediDogru, DonemKredili
<1>5. SatinalmaTutarli'
  BY <1>1, <1>2 DEF LisansInv, SatinalmaTutarli
<1>6. LOturumDogru'
  <2>1. ASSUME NEW a \in LisansIstek, lisansIstek[a].adim \in {"uzat", "yaz", "kredi"}, lisansIstek[a].oturum # Yok
        PROVE  Bagli(lisansIstek[a].oturum, lisansIstek[a].x)'
    <3>0. PICK k : k = lisansIstek[a]
      OBVIOUS
    <3>1. k.oturum \in Satinalma /\ Bagli(k.oturum, k.x)
      BY <1>0, <2>1, <3>0, LIstekAlanlari DEF LisansTypeOK, LisansInv, LOturumDogru
    <3>2. Bagli(k.oturum, k.x)'
      BY <1>1, <3>1 DEF Bagli
    <3> QED BY <3>0, <3>2 DEF Bagli
  <2>2. ASSUME NEW a \in LisansIstek, lisansIstek[a].adim = "tuket"
        PROVE  LET n == lisansIstek[a].oturum IN
               Bagli(n, satinalma[n].siparis)' /\ satinalma'[n].siparis \in Donemler
    <3>0. PICK n : n = lisansIstek[a].oturum
      OBVIOUS
    <3>1. n \in Satinalma /\ satinalma[n].siparis \in Donemler /\ Bagli(n, satinalma[n].siparis)
      BY <1>0, <2>2, <3>0, LIstekAlanlari DEF LisansTypeOK, LisansInv, LOturumDogru
    <3>2. satinalma'[n].siparis = satinalma[n].siparis /\ satinalma'[n].durum \in {"BOUND", "CONSUMED", "EXPIRED"}
      BY <1>1, <3>1 DEF Bagli
    <3> QED BY <3>0, <3>1, <3>2 DEF Bagli
  <2> QED BY <1>2, <2>1, <2>2 DEF LOturumDogru, Bagli
<1> QED BY <1>3, <1>4, <1>5, <1>6 DEF LisansInv
(* The write of an extension: the period of an order that has none, and    *)
(* the end of the licence.                                                 *)
LEMMA UzatYazKorur ==
  ASSUME LisansInv, NEW a \in LisansIstek, UzatYaz(a)
  PROVE  LisansInv'
<1>0. LisansTypeOK
  BY DEF LisansInv
<1>1. PICK k : k = lisansIstek[a]
  OBVIOUS
<1>2. /\ k.adim = "yaz" /\ k.x \in Anahtar /\ k.oturum \in Satinalma \cup {Yok}
      /\ k.okunan \in Nat /\ k.taban \in Nat /\ k.yeni \in Nat /\ k.demo \in BOOLEAN
  BY <1>0, <1>1, LIstekAlanlari DEF UzatYaz, LisansTypeOK
<1>3. PICK y \in BOOLEAN : y = (k.yeni - k.taban >= Yil)
  <2>1. CASE k.yeni - k.taban >= Yil
    BY <2>1
  <2>2. CASE ~(k.yeni - k.taban >= Yil)
    <3>1. FALSE = (k.yeni - k.taban >= Yil)
      BY <1>2, <2>2, LisansVarsayimi
    <3> QED BY <3>1, Zenon
  <2> QED BY <2>1, <2>2
<1>4. PICK d : d = [kez |-> donem[k.x].kez + 1, taban |-> k.taban, yeni |-> k.yeni, yillik |-> y, demo |-> k.demo]
  OBVIOUS
<1>5. PICK r : r = [adim |-> "kredi", x |-> k.x, oturum |-> k.oturum, uygun |-> y /\ ~k.demo]
  OBVIOUS
<1>6. /\ k.x \notin Donemler
      /\ donem' = [donem EXCEPT ![k.x] = d]
      /\ buro' = [bitis |-> k.yeni, demo |-> k.demo, aktif |-> TRUE]
      /\ eksilen' = IF k.elle \/ k.okunan # buro.bitis
                    THEN eksilen \cup {k.x} \cup {x \in Donemler : donem[x].yeni > k.yeni}
                    ELSE eksilen
      /\ lisansIstek' = [lisansIstek EXCEPT ![a] = r]
      /\ UNCHANGED <<gun, satinalma, krediDonem, aksayan>>
  BY <1>1, <1>3, <1>4, <1>5 DEF UzatYaz, KrediUygun, LisansIlerlet
<1>7. donem[k.x].kez = 0
  <2>1. donem[k.x].kez \in Nat /\ ~(donem[k.x].kez > 0)
    BY <1>0, <1>2, <1>6 DEF LisansTypeOK, DonemSatiri, Donemler, Anahtar
  <2> QED BY <2>1
<1>8. /\ d \in DonemSatiri /\ d.kez = 1 /\ d.taban = k.taban /\ d.yeni = k.yeni
      /\ d.yillik = y /\ d.demo = k.demo
  BY <1>2, <1>4, <1>7 DEF DonemSatiri
<1>9. /\ r \in LisansIstekKaydi /\ r.adim = "kredi" /\ r.x = k.x /\ r.oturum = k.oturum
      /\ r.uygun = (y /\ ~k.demo)
  BY <1>2, <1>5 DEF LisansIstekKaydi
<1>10. /\ \A x \in Anahtar : donem'[x] = IF x = k.x THEN d ELSE donem[x]
       /\ \A b \in LisansIstek : lisansIstek'[b] = IF b = a THEN r ELSE lisansIstek[b]
       /\ buro'.bitis = k.yeni
  BY <1>0, <1>2, <1>6 DEF LisansTypeOK
<1>11. Donemler' = Donemler \cup {k.x}
  BY <1>2, <1>8, <1>10 DEF Donemler, Anahtar
<1>12. LisansTypeOK'
  BY <1>0, <1>2, <1>6, <1>8, <1>9 DEF LisansTypeOK, BuroSatiri, Donemler, Anahtar
<1>13. /\ buro.bitis \in Nat
       /\ \A x \in Donemler : x \in Anahtar /\ donem[x].yeni \in Nat /\ donem[x].taban \in Nat
  BY <1>0 DEF LisansTypeOK, BuroSatiri, DonemSatiri, Donemler, Anahtar
<1>14. SureKorunur'
  <2>1. \A x \in Donemler' : donem'[x].kez = 1
    BY <1>8, <1>10, <1>11, <1>13, <1>2 DEF LisansInv, SureKorunur
  <2>2. \A x \in Donemler' : x \notin eksilen' => donem'[x].yeni <= buro'.bitis
    <3>1. ASSUME NEW x \in Donemler, x # k.x, x \notin eksilen' PROVE donem[x].yeni <= k.yeni
      <4>1. CASE k.elle \/ k.okunan # buro.bitis
        BY <1>2, <1>6, <1>13, <3>1, <4>1
      <4>2. CASE ~(k.elle \/ k.okunan # buro.bitis)
        <5>1. k.okunan = buro.bitis /\ buro.bitis <= k.taban /\ k.taban <= k.yeni
          BY <1>1, <1>2, <4>2 DEF LisansInv, LYazDogru
        <5>2. x \notin eksilen /\ donem[x].yeni <= buro.bitis
          BY <1>6, <3>1, <4>2 DEF LisansInv, SureKorunur
        <5> QED BY <1>2, <1>13, <3>1, <5>1, <5>2
      <4> QED BY <4>1, <4>2
    <3> QED BY <1>2, <1>8, <1>10, <1>11, <1>13, <3>1
  <2>3. ASSUME NEW x \in Donemler', NEW z \in Donemler', x \notin eksilen', z \notin eksilen', x # z
        PROVE  donem'[x].yeni <= donem'[z].taban \/ donem'[z].yeni <= donem'[x].taban
    <3>1. eksilen \subseteq eksilen'
      BY <1>6
    <3>2. CASE x # k.x /\ z # k.x
      BY <1>10, <1>11, <1>13, <2>3, <3>1, <3>2 DEF LisansInv, SureKorunur
    <3>3. ASSUME NEW v \in Donemler, v # k.x, v \notin eksilen', k.x \notin eksilen'
          PROVE  donem[v].yeni <= k.taban
      <4>1. ~(k.elle \/ k.okunan # buro.bitis)
        BY <1>6, <3>3
      <4>2. k.okunan = buro.bitis /\ buro.bitis <= k.taban
        BY <1>1, <1>2, <4>1 DEF LisansInv, LYazDogru
      <4>3. donem[v].yeni <= buro.bitis
        BY <3>1, <3>3 DEF LisansInv, SureKorunur
      <4> QED BY <1>2, <1>13, <3>3, <4>2, <4>3
    <3>4. CASE x = k.x
      <4>1. z \in Donemler /\ z # k.x
        BY <1>11, <2>3, <3>4
      <4>2. donem[z].yeni <= k.taban
        BY <2>3, <3>3, <3>4, <4>1
      <4> QED BY <1>2, <1>8, <1>10, <1>13, <3>4, <4>1, <4>2
    <3>5. CASE z = k.x
      <4>1. x \in Donemler /\ x # k.x
        BY <1>11, <2>3, <3>5
      <4>2. donem[x].yeni <= k.taban
        BY <2>3, <3>3, <3>5, <4>1
      <4> QED BY <1>2, <1>8, <1>10, <1>13, <3>5, <4>1, <4>2
    <3> QED BY <3>2, <3>4, <3>5
  <2> QED BY <2>1, <2>2, <2>3 DEF SureKorunur
<1>15. LYazDogru'
  BY <1>9, <1>10 DEF LisansInv, LYazDogru
<1>16. DonemKredili' /\ LKrediDogru'
  <2>1. krediDonem' \subseteq {x \in Donemler' : donem'[x].yillik}
    BY <1>6, <1>10, <1>11, <1>13 DEF LisansInv, DonemKredili
  <2>2. ASSUME NEW b \in LisansIstek, lisansIstek'[b].adim = "kredi"
        PROVE  /\ lisansIstek'[b].x \in Donemler'
               /\ lisansIstek'[b].uygun => donem'[lisansIstek'[b].x].yillik
    <3>1. CASE b = a
      BY <1>2, <1>8, <1>9, <1>10, <1>11, <3>1
    <3>2. CASE b # a
      <4>1. lisansIstek[b].x \in Donemler /\ (lisansIstek[b].uygun => donem[lisansIstek[b].x].yillik)
            /\ lisansIstek'[b] = lisansIstek[b]
        BY <1>10, <2>2, <3>2 DEF LisansInv, LKrediDogru
      <4> QED BY <1>6, <1>10, <1>11, <1>13, <4>1
    <3> QED BY <3>1, <3>2
  <2>3. ASSUME NEW x \in Donemler', donem'[x].yillik, ~donem'[x].demo
        PROVE  x \in krediDonem' \cup aksayan'
                 \/ \E b \in LisansIstek : lisansIstek'[b].adim = "kredi" /\ lisansIstek'[b].x = x /\ lisansIstek'[b].uygun
    <3>1. CASE x = k.x
      <4>1. r.uygun
        BY <1>2, <1>8, <1>9, <1>10, <2>3, <3>1
      <4> QED BY <1>9, <1>10, <3>1, <4>1
    <3>2. CASE x # k.x
      <4>1. x \in Donemler /\ donem[x].yillik /\ ~donem[x].demo
        BY <1>10, <1>11, <1>13, <2>3, <3>2
      <4>2. CASE x \in krediDonem \cup aksayan
        BY <1>6, <4>2
      <4>3. CASE \E b \in LisansIstek : lisansIstek[b].adim = "kredi" /\ lisansIstek[b].x = x /\ lisansIstek[b].uygun
        <5>1. PICK b \in LisansIstek : lisansIstek[b].adim = "kredi" /\ lisansIstek[b].x = x /\ lisansIstek[b].uygun
          BY <4>3
        <5>2. lisansIstek'[b] = lisansIstek[b]
          BY <1>1, <1>2, <1>10, <5>1
        <5> QED BY <5>1, <5>2
      <4> QED BY <4>1, <4>2, <4>3 DEF LisansInv, LKrediDogru
    <3> QED BY <3>1, <3>2
  <2> QED BY <2>1, <2>2, <2>3 DEF DonemKredili, LKrediDogru
<1>17. SatinalmaTutarli'
  BY <1>6, <1>11 DEF LisansInv, SatinalmaTutarli
<1>18. LOturumDogru'
  <2>1. \A s, x : Bagli(s, x)' <=> Bagli(s, x)
    BY <1>6 DEF Bagli
  <2>2. r.oturum # Yok => Bagli(r.oturum, r.x)
    BY <1>1, <1>2, <1>9 DEF LisansInv, LOturumDogru
  <2> QED BY <1>6, <1>9, <1>10, <1>11, <2>1, <2>2 DEF LisansInv, LOturumDogru, Bagli
<1> QED BY <1>12, <1>14, <1>15, <1>16, <1>17, <1>18 DEF LisansInv

(* The session is closed when its order has its period.                    *)
LEMMA SatinalmaTuketKorur ==
  ASSUME LisansInv, NEW a \in LisansIstek, SatinalmaTuket(a)
  PROVE  LisansInv'
<1>0. LisansTypeOK
  BY DEF LisansInv
<1>1. PICK s : s = lisansIstek[a].oturum
  OBVIOUS
<1>2. /\ s \in Satinalma /\ satinalma[s].siparis \in Donemler
      /\ satinalma' = [satinalma EXCEPT ![s].durum = "CONSUMED"]
      /\ LisansIlerlet(a, Bitti)
      /\ UNCHANGED <<buro, gun, donem, krediDonem, eksilen, aksayan>>
      /\ lisansIstek[a].adim = "tuket"
  BY <1>0, <1>1, LIstekAlanlari DEF SatinalmaTuket, LisansTypeOK, LisansInv, LOturumDogru
<1>3. \A b \in LisansIstek : lisansIstek'[b] = IF b = a THEN Bitti ELSE lisansIstek[b]
  BY <1>0, <1>2 DEF LisansIlerlet, LisansTypeOK
<1>4. \A t \in Satinalma : /\ satinalma'[t].siparis = satinalma[t].siparis
                           /\ satinalma'[t].durum = IF t = s THEN "CONSUMED" ELSE satinalma[t].durum
  BY <1>0, <1>2 DEF LisansTypeOK, SatinalmaSatiri
<1>5. LisansTypeOK'
  BY <1>0, <1>2 DEF LisansTypeOK, SatinalmaSatiri, LisansIlerlet, LisansIstekKaydi
<1>6. Donemler' = Donemler
  BY <1>2 DEF Donemler
<1>7. SureKorunur'
  BY <1>2, <1>6 DEF LisansInv, SureKorunur
<1>8. LYazDogru'
  BY <1>3 DEF LisansInv, LYazDogru, Bitti
<1>9. DonemKredili' /\ LKrediDogru'
  <2>1. \A b \in LisansIstek : lisansIstek'[b].adim = "kredi" <=> lisansIstek[b].adim = "kredi"
    BY <1>2, <1>3 DEF Bitti
  <2>2. \A b \in LisansIstek : lisansIstek[b].adim = "kredi" => lisansIstek'[b] = lisansIstek[b]
    BY <1>2, <1>3
  <2> QED BY <1>2, <1>6, <2>1, <2>2 DEF LisansInv, DonemKredili, LKrediDogru
<1>10. SatinalmaTutarli'
  BY <1>2, <1>4, <1>6 DEF LisansInv, SatinalmaTutarli
<1>11. LOturumDogru'
  <2>1. ASSUME NEW n \in Satinalma, NEW x, Bagli(n, x) PROVE Bagli(n, x)'
    BY <1>4, <2>1 DEF Bagli
  <2>2. ASSUME NEW b \in LisansIstek, lisansIstek'[b].adim \in {"uzat", "yaz", "kredi"}, lisansIstek'[b].oturum # Yok
        PROVE  Bagli(lisansIstek[b].oturum, lisansIstek[b].x)'
    <3>1. PICK k : k = lisansIstek[b] /\ k = lisansIstek'[b]
      BY <1>3, <2>2 DEF Bitti
    <3>2. k.oturum \in Satinalma /\ Bagli(k.oturum, k.x)
      BY <1>0, <2>2, <3>1, LIstekAlanlari DEF LisansTypeOK, LisansInv, LOturumDogru
    <3>3. Bagli(k.oturum, k.x)'
      BY <2>1, <3>2
    <3> QED BY <3>1, <3>3 DEF Bagli
  <2>3. ASSUME NEW b \in LisansIstek, lisansIstek'[b].adim = "tuket"
        PROVE  LET n == lisansIstek[b].oturum IN
               /\ lisansIstek'[b].oturum = n
               /\ satinalma'[n].siparis \in Donemler
               /\ satinalma'[n].durum \in {"BOUND", "CONSUMED", "EXPIRED"}
    <3>1. PICK n : n = lisansIstek[b].oturum /\ n = lisansIstek'[b].oturum
      BY <1>3, <2>3 DEF Bitti
    <3>2. n \in Satinalma /\ Bagli(n, satinalma[n].siparis) /\ satinalma[n].siparis \in Donemler
      <4>1. lisansIstek[b].adim = "tuket"
        BY <1>3, <2>3 DEF Bitti
      <4> QED BY <1>0, <3>1, <4>1, LIstekAlanlari DEF LisansTypeOK, LisansInv, LOturumDogru
    <3>3. satinalma'[n].siparis = satinalma[n].siparis /\ satinalma'[n].durum \in {"BOUND", "CONSUMED", "EXPIRED"}
      BY <1>4, <3>2 DEF Bagli
    <3> QED BY <3>1, <3>2, <3>3 DEF Bagli
  <2> QED BY <1>6, <2>2, <2>3 DEF LOturumDogru, Bagli
<1> QED BY <1>5, <1>7, <1>8, <1>9, <1>10, <1>11 DEF LisansInv
(* Every step of the licence.                                              *)
LEMMA LisansAdimiKorur ==
  ASSUME LisansInv, [LisansNext]_lisansVars
  PROVE  LisansInv'
<1>0. LisansTypeOK
  BY DEF LisansInv
<1>1. CASE GunGecer
  <2>1. Donemler' = Donemler
    BY <1>1 DEF GunGecer, Donemler
  <2>2. gun' \in Nat
    BY <1>0, <1>1 DEF GunGecer, LisansTypeOK
  <2> QED BY <1>1, <2>1, <2>2 DEF GunGecer, LisansInv, LisansTypeOK, SureKorunur, LYazDogru,
             DonemKredili, LKrediDogru, SatinalmaTutarli, LOturumDogru, Bagli
<1>2. CASE UNCHANGED lisansVars
  <2>1. Donemler' = Donemler
    BY <1>2 DEF lisansVars, Donemler
  <2> QED BY <1>2, <2>1 DEF lisansVars, LisansInv, LisansTypeOK, SureKorunur, LYazDogru,
             DonemKredili, LKrediDogru, SatinalmaTutarli, LOturumDogru, Bagli
<1>3. CASE LinkVer
  <2>1. PICK s \in Satinalma : satinalma[s].durum = "yok" /\ satinalma' = [satinalma EXCEPT ![s].durum = "CREATED"]
    BY <1>3 DEF LinkVer, Ilk
  <2>2. PICK r : r = [satinalma[s] EXCEPT !.durum = "CREATED"]
    OBVIOUS
  <2>3. /\ satinalma' = [satinalma EXCEPT ![s] = r] /\ r \in SatinalmaSatiri
        /\ r.siparis = satinalma[s].siparis /\ r.durum = "CREATED"
    BY <1>0, <2>1, <2>2 DEF LisansTypeOK, SatinalmaSatiri
  <2> QED BY <1>3, <2>1, <2>3, LSatinalmaKorur DEF LinkVer
<1>4. ASSUME NEW s \in Satinalma, LinkSuresiDolar(s)
      PROVE  LisansInv'
  <2>2. PICK r : r = [satinalma[s] EXCEPT !.durum = "EXPIRED"]
    OBVIOUS
  <2>3. /\ satinalma' = [satinalma EXCEPT ![s] = r] /\ r \in SatinalmaSatiri
        /\ r.siparis = satinalma[s].siparis /\ r.durum = "EXPIRED"
    BY <1>0, <1>4, <2>2 DEF LinkSuresiDolar, LisansTypeOK, SatinalmaSatiri
  <2> QED BY <1>4, <2>3, LSatinalmaKorur DEF LinkSuresiDolar
<1>5. ASSUME NEW s \in Satinalma, NEW o \in Siparis, Bagla(s, o)
      PROVE  LisansInv'
  <2>2. PICK r : r = [durum |-> "BOUND", siparis |-> o]
    OBVIOUS
  <2>3. /\ satinalma' = [satinalma EXCEPT ![s] = r] /\ r \in SatinalmaSatiri
        /\ r.siparis = o /\ r.durum = "BOUND"
    BY <1>5, <2>2 DEF Bagla, SatinalmaSatiri
  <2> QED BY <1>5, <2>3, LSatinalmaKorur DEF Bagla
<1>6. ASSUME NEW a \in LisansIstek, NEW o \in Siparis, TeslimAl(a, o)
      PROVE  LisansInv'
  <2>0. /\ UNCHANGED <<buro, gun, donem, satinalma, krediDonem, eksilen, aksayan>>
        /\ lisansIstek[a] = Bos
    BY <1>6 DEF TeslimAl, Iyilestir, LisansBasla, Ilk
  <2>1. CASE Iyilestir(a, o)
    <3>1. PICK u \in BOOLEAN : u = (donem[o].yillik /\ ~buro.demo)
      <4>1. donem[o].yillik \in BOOLEAN /\ buro.demo \in BOOLEAN
        BY <1>0 DEF LisansTypeOK, DonemSatiri, BuroSatiri, Anahtar
      <4> QED BY <4>1, Zenon
    <3>2. PICK k : k = [adim |-> "kredi", x |-> o, oturum |-> Yok, uygun |-> u]
      OBVIOUS
    <3>3. LisansIlerlet(a, k) /\ o \in Donemler
      BY <2>1, <3>1, <3>2 DEF Iyilestir, KrediUygun, LisansBasla, LisansIlerlet
    <3>4. /\ k \in LisansIstekKaydi /\ k.adim = "kredi" /\ k.x = o /\ k.oturum = Yok /\ k.uygun = u
      BY <3>2 DEF LisansIstekKaydi, Anahtar
    <3>5. k.uygun => donem[k.x].yillik
      BY <3>1, <3>4
    <3>6. krediDonem \subseteq {x \in Donemler : donem[x].yillik} /\ aksayan \subseteq Anahtar
      BY <1>0 DEF LisansInv, DonemKredili, LisansTypeOK
    <3>7. lisansIstek[a].adim # "kredi"
      BY <2>0 DEF Bos
    <3> QED BY <2>0, <3>3, <3>4, <3>5, <3>6, <3>7, LIlerletKorur
  <2>2. CASE ~Iyilestir(a, o)
    <3>1. PICK s \in Satinalma \cup {Yok} :
            /\ LisansIlerlet(a, [adim |-> "uzat", x |-> o, oturum |-> s])
            /\ s # Yok => Bagli(s, o)
      BY <1>6, <2>2 DEF TeslimAl, LisansBasla, LisansIlerlet, Bagli
    <3>2. PICK k : k = [adim |-> "uzat", x |-> o, oturum |-> s]
      OBVIOUS
    <3>3. k \in LisansIstekKaydi /\ k.adim = "uzat" /\ k.x = o /\ k.oturum = s
      BY <3>2 DEF LisansIstekKaydi
    <3>6. krediDonem \subseteq {x \in Donemler : donem[x].yillik} /\ aksayan \subseteq Anahtar
      BY <1>0 DEF LisansInv, DonemKredili, LisansTypeOK
    <3>7. lisansIstek[a].adim # "kredi"
      BY <2>0 DEF Bos
    <3> QED BY <2>0, <3>1, <3>2, <3>3, <3>6, <3>7, LIlerletKorur
  <2> QED BY <2>1, <2>2
<1>7. ASSUME NEW a \in LisansIstek, UzatOku(a)
      PROVE  LisansInv'
  <2>1. PICK k : k = lisansIstek[a]
    OBVIOUS
  <2>2. k.adim = "uzat" /\ k.x \in Siparis /\ k.oturum \in Satinalma \cup {Yok}
    BY <1>0, <1>7, <2>1, LIstekAlanlari DEF UzatOku, LisansTypeOK
  <2>3. /\ buro.bitis \in Nat /\ gun \in Nat /\ Taban \in Nat /\ buro.bitis <= Taban
    BY <1>0 DEF LisansTypeOK, BuroSatiri, Taban
  <2>4. PICK yeni \in Nat : /\ Taban <= yeni
                            /\ LisansIlerlet(a, UzatmaKaydi(k.x, k.oturum, yeni, FALSE, FALSE))
    <3>1. PICK n \in Nat : n = Taban + (IF k.x \in YillikSiparis THEN Yil ELSE 1) /\ Taban <= n
      BY <2>3, LisansVarsayimi
    <3>2. LisansIlerlet(a, UzatmaKaydi(k.x, k.oturum, n, FALSE, FALSE))
      BY <1>7, <2>1, <3>1 DEF UzatOku
    <3> QED BY <3>1, <3>2
  <2>5. PICK r : r = UzatmaKaydi(k.x, k.oturum, yeni, FALSE, FALSE)
    OBVIOUS
  <2>6. /\ r \in LisansIstekKaydi /\ r.adim = "yaz" /\ r.okunan = buro.bitis /\ r.taban = Taban
        /\ r.yeni = yeni /\ r.x = k.x /\ r.oturum = k.oturum
    BY <2>2, <2>3, <2>5 DEF UzatmaKaydi, LisansIstekKaydi, Anahtar
  <2>7. k.oturum # Yok => Bagli(k.oturum, k.x)
    BY <2>1, <2>2 DEF LisansInv, LOturumDogru
  <2>8. krediDonem \subseteq {x \in Donemler : donem[x].yillik} /\ aksayan \subseteq Anahtar
    BY <1>0 DEF LisansInv, DonemKredili, LisansTypeOK
  <2> QED BY <1>7, <2>1, <2>2, <2>3, <2>4, <2>5, <2>6, <2>7, <2>8, LIlerletKorur DEF UzatOku
<1>8. ASSUME NEW a \in LisansIstek, AdminUzat(a)
      PROVE  LisansInv'
  <2>1. /\ lisansIstek[a] = Bos
        /\ UNCHANGED <<buro, gun, donem, satinalma, krediDonem, eksilen, aksayan>>
    BY <1>8 DEF AdminUzat, LisansBasla, Ilk
  <2>2. buro.bitis \in Nat /\ gun \in Nat /\ Taban \in Nat /\ buro.bitis <= Taban
    BY <1>0 DEF LisansTypeOK, BuroSatiri, Taban
  <2>3. PICK demo \in BOOLEAN, elle \in BOOLEAN, yeni \in Nat :
          /\ LisansIlerlet(a, UzatmaKaydi(a, Yok, yeni, demo, elle))
          /\ ~elle => Taban <= yeni
    <3>1. PICK demo \in BOOLEAN :
            \/ \E sure \in {1, Yil} :
                 LisansIlerlet(a, UzatmaKaydi(a, Yok, Taban + sure, demo, FALSE))
            \/ \E tarih \in gun .. MaxBitis : LisansIlerlet(a, UzatmaKaydi(a, Yok, tarih, demo, TRUE))
      BY <1>8 DEF AdminUzat, LisansBasla, LisansIlerlet
    <3>2. CASE \E sure \in {1, Yil} : LisansIlerlet(a, UzatmaKaydi(a, Yok, Taban + sure, demo, FALSE))
      <4>1. PICK n \in Nat : Taban <= n /\ LisansIlerlet(a, UzatmaKaydi(a, Yok, n, demo, FALSE))
        <5>1. PICK sure \in {1, Yil} : LisansIlerlet(a, UzatmaKaydi(a, Yok, Taban + sure, demo, FALSE))
          BY <3>2
        <5>2. Taban + sure \in Nat /\ Taban <= Taban + sure
          BY <2>2, LisansVarsayimi
        <5> QED BY <5>1, <5>2
      <4> QED BY <4>1
    <3>3. CASE \E tarih \in gun .. MaxBitis : LisansIlerlet(a, UzatmaKaydi(a, Yok, tarih, demo, TRUE))
      <4>1. gun .. MaxBitis \subseteq Nat
        BY <2>2, LisansVarsayimi
      <4> QED BY <3>3, <4>1
    <3> QED BY <3>1, <3>2, <3>3
  <2>4. PICK r : r = UzatmaKaydi(a, Yok, yeni, demo, elle)
    OBVIOUS
  <2>5. /\ r \in LisansIstekKaydi /\ r.adim = "yaz" /\ r.okunan = buro.bitis /\ r.taban = Taban
        /\ r.yeni = yeni /\ r.oturum = Yok /\ r.elle = elle
    BY <2>2, <2>4 DEF UzatmaKaydi, LisansIstekKaydi, Anahtar
  <2>6. krediDonem \subseteq {x \in Donemler : donem[x].yillik} /\ aksayan \subseteq Anahtar
    BY <1>0 DEF LisansInv, DonemKredili, LisansTypeOK
  <2>7. lisansIstek[a].adim # "kredi"
    BY <2>1 DEF Bos
  <2> QED BY <2>1, <2>2, <2>3, <2>4, <2>5, <2>6, <2>7, LIlerletKorur
<1>9. ASSUME NEW a \in LisansIstek, KrediVer(a)
      PROVE  LisansInv'
  <2>1. PICK k : k = lisansIstek[a]
    OBVIOUS
  <2>2. /\ k.adim = "kredi" /\ k.x \in Anahtar /\ k.x \in Donemler /\ k.oturum \in Satinalma \cup {Yok}
        /\ k.uygun \in BOOLEAN
        /\ k.uygun => donem[k.x].yillik
        /\ k.oturum # Yok => Bagli(k.oturum, k.x)
    BY <1>0, <1>9, <2>1, LIstekAlanlari DEF KrediVer, LisansTypeOK, LisansInv, LKrediDogru, LOturumDogru
  <2>3. /\ krediDonem \subseteq krediDonem' /\ krediDonem' \subseteq {x \in Donemler : donem[x].yillik}
        /\ aksayan \subseteq aksayan' /\ aksayan' \subseteq Anahtar
        /\ k.uygun => k.x \in krediDonem' \cup aksayan'
    BY <1>0, <1>9, <2>1, <2>2 DEF KrediVer, LisansInv, DonemKredili, LisansTypeOK
  <2>4. PICK r : r = IF k.oturum = Yok THEN Bitti ELSE [adim |-> "tuket", oturum |-> k.oturum]
    OBVIOUS
  <2>5. /\ r \in LisansIstekKaydi /\ r.adim \notin {"uzat", "yaz", "kredi"}
        /\ r.adim = "tuket" => r.oturum = k.oturum /\ k.oturum # Yok
    BY <2>2, <2>4 DEF LisansIstekKaydi, Bitti
  <2>6. LisansIlerlet(a, r) /\ UNCHANGED <<buro, gun, donem, satinalma, eksilen>>
    BY <1>9, <2>1, <2>4 DEF KrediVer
  <2> QED BY <2>1, <2>2, <2>3, <2>5, <2>6, LIlerletKorur
<1>10. ASSUME NEW a \in LisansIstek, LisansDuser(a)
       PROVE  LisansInv'
  <2>1. Bitti \in LisansIstekKaydi /\ Bitti.adim = "bitti"
    BY DEF Bitti, LisansIstekKaydi
  <2>2. /\ LisansIlerlet(a, Bitti) /\ UNCHANGED <<buro, gun, donem, satinalma, krediDonem, eksilen>>
        /\ aksayan' = IF lisansIstek[a].adim = "kredi" THEN aksayan \cup {lisansIstek[a].x} ELSE aksayan
    BY <1>10 DEF LisansDuser
  <2>3. lisansIstek[a].adim = "kredi" => lisansIstek[a].x \in Anahtar
    BY <1>0, LIstekAlanlari DEF LisansTypeOK
  <2>4. krediDonem \subseteq {x \in Donemler : donem[x].yillik} /\ aksayan \subseteq Anahtar
    BY <1>0 DEF LisansInv, DonemKredili, LisansTypeOK
  <2> QED BY <2>1, <2>2, <2>3, <2>4, LIlerletKorur
<1> QED BY <1>1, <1>2, <1>3, <1>4, <1>5, <1>6, <1>7, <1>8, <1>9, <1>10,
           UzatYazKorur, SatinalmaTuketKorur DEF LisansNext, LisansAdimi

(* At the start there is no period, no request and no session.             *)
LEMMA LisansBaslangic ==
  ASSUME LisansInit
  PROVE  LisansInv
<1>1. LisansTypeOK
  <2>1. buro \in BuroSatiri
    <3>1. PICK b \in {0}, d \in BOOLEAN, e \in {TRUE} : buro = [bitis |-> b, demo |-> d, aktif |-> e]
      BY DEF LisansInit
    <3>2. b \in Nat /\ e \in BOOLEAN
      BY <3>1
    <3> QED BY <3>1, <3>2 DEF BuroSatiri
  <2>2. donem \in [Anahtar -> DonemSatiri]
    BY DEF LisansInit, DonemSatiri, BosDonem, Anahtar
  <2>3. satinalma \in [Satinalma -> SatinalmaSatiri]
    BY DEF LisansInit, SatinalmaSatiri
  <2>4. lisansIstek \in [LisansIstek -> LisansIstekKaydi]
    BY DEF LisansInit, LisansIstekKaydi
  <2> QED BY <2>1, <2>2, <2>3, <2>4 DEF LisansInit, LisansTypeOK
<1>2. Donemler = {}
  BY DEF LisansInit, Donemler, BosDonem
<1>3. \A a \in LisansIstek : lisansIstek[a].adim = "bos"
  BY DEF LisansInit, Bos
<1>4. \A s \in Satinalma : satinalma[s].durum = "yok" /\ satinalma[s].siparis = Yok
  BY DEF LisansInit
<1> QED BY <1>1, <1>2, <1>3, <1>4 DEF LisansInit, LisansInv, SureKorunur, LYazDogru, DonemKredili,
           LKrediDogru, SatinalmaTutarli, LOturumDogru
-----------------------------------------------------------------------------
(***************************************************************************)
(* Reminders.  Rows have one number each; a row that no overlap, lost mail *)
(* or dead run has touched has at most one run at work, and what that run  *)
(* still has to do says how many mails went out.                           *)
(***************************************************************************)
HIsler(k) == k.adim \in {"hatKontrol", "hatGonder", "hatYaz"}
HSurer(k) == HIsler(k) \/ k.adim \in {"hatAl", "hatAtla"}
HAtlayan(n) == \E a \in Kosu : kosu[a].adim = "hatAtla" /\ kosu[a].no = n

HSatirKaydi ==
  [no : SatirNo, durum : {"PENDING", "SENT", "FAILED", "SKIPPED"},
   deneme : 0 .. MaxDeneme, kuru : Nat, mail : Nat]

HSatirDogru(r) ==
  /\ \A a \in Isleyenler(r.no), b \in Isleyenler(r.no) : a = b
  /\ \A a \in Isleyenler(r.no) :
       /\ kosu[a].adim \in {"hatKontrol", "hatGonder"} => r.mail = 0
       /\ kosu[a].adim = "hatYaz" /\ kosu[a].durum = "SENT" => r.mail = 1
       /\ kosu[a].adim = "hatYaz" /\ kosu[a].durum # "SENT" => r.mail = 0
       /\ kosu[a].adim = "hatKontrol" /\ r.durum = "PENDING" => r.deneme = r.kuru + 1 \/ HAtlayan(r.no)
  /\ Isleyenler(r.no) = {} =>
       /\ r.mail <= 1
       /\ r.mail = 1 => r.durum \in {"SENT", "SKIPPED"}
       /\ r.durum = "PENDING" => r.deneme = r.kuru \/ HAtlayan(r.no)

HSatirTek == \A r \in hatirlatma, s \in hatirlatma : r.no = s.no => r = s

HSatirVar ==
  \A a \in Kosu : HIsler(kosu[a]) =>
    \E r \in hatirlatma : /\ r.no = kosu[a].no
                          /\ kosu[a].adim = "hatYaz" /\ kosu[a].durum = "SENT" => r.mail > 0

HSatirlar ==
  \A r \in hatirlatma : /\ r.durum = "SENT" => r.mail > 0
                        /\ r.no \notin bozulan => HSatirDogru(r)

HatirlatmaInv ==
  /\ HatirlatmaTypeOK /\ HSatirTek /\ HSatirVar /\ HSatirlar

(* What a run holds at each of its steps.                                  *)
LEMMA HKosuAlanlari ==
  ASSUME NEW k \in KosuKaydi
  PROVE  /\ HSurer(k) => k.no \in SatirNo
         /\ k.adim \in {"hatAl", "hatKontrol"} => k.kuru \in BOOLEAN
         /\ k.adim = "hatYaz" => k.durum \in {"SENT", "FAILED"}
BY DEF KosuKaydi, Bos, Bitti, HSurer, HIsler

(* The row of a number is the one there is.                                *)
LEMMA HSatirBulunur ==
  ASSUME HatirlatmaInv, NEW n \in SatirNo
  PROVE  \/ Satir(n) \in hatirlatma /\ Satir(n).no = n /\ \A r \in hatirlatma : r.no = n => r = Satir(n)
         \/ (\A r \in hatirlatma : r.no # n) /\ Satir(n) = BosSatir(n)
<1>1. CASE \E r \in hatirlatma : r.no = n
  <2>1. Satir(n) = CHOOSE r \in hatirlatma : r.no = n
    BY <1>1 DEF Satir
  <2>2. Satir(n) \in hatirlatma /\ Satir(n).no = n
    BY <1>1, <2>1
  <2>3. \A r \in hatirlatma : r.no = n => r = Satir(n)
    BY <2>2 DEF HatirlatmaInv, HSatirTek
  <2> QED BY <2>2, <2>3
<1>2. CASE \A r \in hatirlatma : r.no # n
  BY <1>2 DEF Satir
<1> QED BY <1>1, <1>2

(* Run a moves at the row n: who is at work there.                         *)
LEMMA HIsleyenler ==
  ASSUME HatirlatmaTypeOK, NEW a \in Kosu, NEW k \in KosuKaydi, KosuIlerlet(a, k), NEW n \in SatirNo,
         HSurer(kosu[a]) => kosu[a].no = n,
         HSurer(k) => k.no = n
  PROVE  /\ kosu'[a] = k
         /\ \A b \in Kosu : b # a => kosu'[b] = kosu[b]
         /\ Isleyenler(n)' = IF HIsler(k) THEN Isleyenler(n) \cup {a} ELSE Isleyenler(n) \ {a}
         /\ HAtlayan(n)' <=> k.adim = "hatAtla" \/ \E b \in Kosu \ {a} : kosu[b].adim = "hatAtla" /\ kosu[b].no = n
         /\ \A m \in SatirNo \ {n} : Isleyenler(m)' = Isleyenler(m) /\ (HAtlayan(m)' <=> HAtlayan(m))
<1>1. \A b \in Kosu : kosu'[b] = IF b = a THEN k ELSE kosu[b]
  BY DEF HatirlatmaTypeOK, KosuIlerlet
<1>2. Isleyenler(n)' = IF HIsler(k) THEN Isleyenler(n) \cup {a} ELSE Isleyenler(n) \ {a}
  BY <1>1 DEF Isleyenler, HIsler, HSurer
<1>3. HAtlayan(n)' <=> k.adim = "hatAtla" \/ \E b \in Kosu \ {a} : kosu[b].adim = "hatAtla" /\ kosu[b].no = n
  BY <1>1 DEF HAtlayan, HSurer
<1>4. ASSUME NEW m \in SatirNo \ {n}
      PROVE  Isleyenler(m)' = Isleyenler(m) /\ (HAtlayan(m)' <=> HAtlayan(m))
  <2>1. Isleyenler(m)' = Isleyenler(m)
    BY <1>1 DEF Isleyenler, HIsler, HSurer
  <2>2. HAtlayan(m)' <=> HAtlayan(m)
    BY <1>1 DEF HAtlayan, HSurer
  <2> QED BY <2>1, <2>2
<1> QED BY <1>1, <1>2, <1>3, <1>4

(* A step of a run is as good as what it leaves at its own row.            *)
LEMMA HAdimKorur ==
  ASSUME HatirlatmaInv, NEW a \in Kosu, NEW k \in KosuKaydi, KosuIlerlet(a, k), NEW n \in SatirNo,
         HSurer(kosu[a]) => kosu[a].no = n,
         HSurer(k) => k.no = n,
         UNCHANGED lisansVars,
         bozulan \subseteq bozulan', bozulan' \subseteq bozulan \cup {n},
         hatirlatma' \subseteq HSatirKaydi,
         \A r \in hatirlatma : r.no # n => r \in hatirlatma',
         \A r \in hatirlatma' : r.no # n => r \in hatirlatma,
         \A r \in hatirlatma', s \in hatirlatma' : r.no = n /\ s.no = n => r = s,
         \A r \in hatirlatma : r.no = n => \E s \in hatirlatma' : s.no = n /\ s.mail >= r.mail,
         HIsler(k) => \E r \in hatirlatma' : r.no = n /\ (k.adim = "hatYaz" /\ k.durum = "SENT" => r.mail > 0),
         \A r \in hatirlatma' : r.no = n => /\ r.durum = "SENT" => r.mail > 0
                                            /\ n \notin bozulan' => HSatirDogru(r)'
  PROVE  HatirlatmaInv'
<1>0. HatirlatmaTypeOK
  BY DEF HatirlatmaInv
<1>1. HatirlatmaTypeOK'
  BY <1>0 DEF HatirlatmaTypeOK, KosuIlerlet, HSatirKaydi, lisansVars, LisansTypeOK, Donemler
<1>2. HSatirTek'
  BY DEF HatirlatmaInv, HSatirTek
<1>3. /\ kosu'[a] = k
      /\ \A b \in Kosu : b # a => kosu'[b] = kosu[b]
      /\ \A m \in SatirNo \ {n} : Isleyenler(m)' = Isleyenler(m) /\ (HAtlayan(m)' <=> HAtlayan(m))
  BY <1>0, HIsleyenler
<1>4. HSatirVar'
  <2>1. ASSUME NEW b \in Kosu, HIsler(kosu'[b])
        PROVE  \E r \in hatirlatma' : /\ r.no = kosu'[b].no
                                      /\ kosu'[b].adim = "hatYaz" /\ kosu'[b].durum = "SENT" => r.mail > 0
    <3>1. CASE b = a
      BY <1>3, <2>1, <3>1 DEF HSurer
    <3>2. CASE b # a
      <4>1. PICK r \in hatirlatma : /\ r.no = kosu[b].no
                                    /\ kosu[b].adim = "hatYaz" /\ kosu[b].durum = "SENT" => r.mail > 0
        BY <1>3, <2>1, <3>2 DEF HatirlatmaInv, HSatirVar
      <4>2. PICK s \in hatirlatma' : s.no = r.no /\ s.mail >= r.mail
        <5>1. r.mail \in Nat
          BY <1>0 DEF HatirlatmaTypeOK
        <5> QED BY <5>1
      <4>3. r.mail \in Nat /\ s.mail \in Nat
        BY <1>0 DEF HatirlatmaTypeOK, HSatirKaydi
      <4>4. r.mail > 0 => s.mail > 0
        BY <4>2, <4>3
      <4> QED BY <1>3, <3>2, <4>1, <4>2, <4>4
    <3> QED BY <3>1, <3>2
  <2> QED BY <2>1 DEF HSatirVar, HIsler
<1>5. HSatirlar'
  <2>1. ASSUME NEW r \in hatirlatma', r.no # n
        PROVE  (r.durum = "SENT" => r.mail > 0) /\ (r.no \notin bozulan' => HSatirDogru(r)')
    <3>1. r \in hatirlatma /\ r.no \in SatirNo
      BY <2>1 DEF HSatirKaydi
    <3>2. r.durum = "SENT" => r.mail > 0
      BY <3>1 DEF HatirlatmaInv, HSatirlar
    <3>3. ASSUME r.no \notin bozulan'
          PROVE  HSatirDogru(r)'
      <4>1. HSatirDogru(r)
        BY <3>1, <3>3 DEF HatirlatmaInv, HSatirlar
      <4>2. Isleyenler(r.no)' = Isleyenler(r.no) /\ (HAtlayan(r.no)' <=> HAtlayan(r.no))
        BY <1>3, <2>1, <3>1
      <4>3. \A b \in Isleyenler(r.no) : kosu'[b] = kosu[b]
        <5>1. ASSUME NEW b \in Isleyenler(r.no) PROVE b \in Kosu /\ b # a
          BY <2>1 DEF Isleyenler, HSurer, HIsler
        <5> QED BY <1>3, <5>1
      <4> QED BY <4>1, <4>2, <4>3 DEF HSatirDogru
    <3> QED BY <3>2, <3>3
  <2> QED BY <2>1 DEF HSatirlar
<1> QED BY <1>1, <1>2, <1>4, <1>5 DEF HatirlatmaInv
(* The row of a number, found or new, is a good one.                       *)
LEMMA HSatirDogrusu ==
  ASSUME HatirlatmaInv, NEW n \in SatirNo
  PROVE  /\ Satir(n) \in HSatirKaydi /\ Satir(n).no = n
         /\ Satir(n).durum = "SENT" => Satir(n).mail > 0
         /\ n \notin bozulan => HSatirDogru(Satir(n))
<1>1. CASE Satir(n) \in hatirlatma /\ Satir(n).no = n
  BY <1>1 DEF HatirlatmaInv, HatirlatmaTypeOK, HSatirKaydi, HSatirlar
<1>2. CASE (\A r \in hatirlatma : r.no # n) /\ Satir(n) = BosSatir(n)
  <2>1. PICK r : r = BosSatir(n)
    OBVIOUS
  <2>2. r \in HSatirKaydi /\ r.no = n /\ r.durum = "PENDING" /\ r.mail = 0 /\ r.deneme = 0 /\ r.kuru = 0
    BY <2>1, HatirlatmaVarsayimi DEF BosSatir, HSatirKaydi
  <2>3. Isleyenler(n) = {}
    BY <1>2 DEF HatirlatmaInv, HSatirVar, Isleyenler, HIsler
  <2>4. HSatirDogru(r)
    BY <2>2, <2>3 DEF HSatirDogru
  <2> QED BY <1>2, <2>1, <2>2, <2>4
<1> QED BY <1>1, <1>2, HSatirBulunur

(* A run that writes its row.                                              *)
LEMMA HYazKorur ==
  ASSUME HatirlatmaInv, NEW a \in Kosu, NEW k \in KosuKaydi, KosuIlerlet(a, k), NEW n \in SatirNo,
         HSurer(kosu[a]) => kosu[a].no = n,
         HSurer(k) => k.no = n,
         UNCHANGED lisansVars,
         bozulan \subseteq bozulan', bozulan' \subseteq bozulan \cup {n},
         NEW r \in HSatirKaydi, r.no = n, SatirYaz(r),
         r.mail >= Satir(n).mail,
         k.adim = "hatYaz" /\ k.durum = "SENT" => r.mail > 0,
         r.durum = "SENT" => r.mail > 0,
         n \notin bozulan' => HSatirDogru(r)'
  PROVE  HatirlatmaInv'
<1>1. hatirlatma' = {s \in hatirlatma : s.no # n} \cup {r}
  BY DEF SatirYaz
<1>2. hatirlatma' \subseteq HSatirKaydi
  BY <1>1 DEF HatirlatmaInv, HatirlatmaTypeOK, HSatirKaydi
<1>3. ASSUME NEW s \in hatirlatma, s.no = n
      PROVE  \E t \in hatirlatma' : t.no = n /\ t.mail >= s.mail
  <2>1. s = Satir(n)
    BY <1>3, HSatirBulunur
  <2> QED BY <1>1, <2>1
<1> QED BY <1>1, <1>2, <1>3, HAdimKorur

(* A run that leaves its row as it is.                                     *)
LEMMA HKalanKorur ==
  ASSUME HatirlatmaInv, NEW a \in Kosu, NEW k \in KosuKaydi, KosuIlerlet(a, k), NEW n \in SatirNo,
         HSurer(kosu[a]) => kosu[a].no = n,
         HSurer(k) => k.no = n,
         UNCHANGED lisansVars,
         bozulan \subseteq bozulan', bozulan' \subseteq bozulan \cup {n},
         hatirlatma' = hatirlatma,
         HIsler(k) => HIsler(kosu[a]) /\ ~(k.adim = "hatYaz" /\ k.durum = "SENT"),
         NEW r, r = Satir(n),
         n \notin bozulan' => HSatirDogru(r)'
  PROVE  HatirlatmaInv'
<1>1. hatirlatma' \subseteq HSatirKaydi
  BY DEF HatirlatmaInv, HatirlatmaTypeOK, HSatirKaydi
<1>2. \A s \in hatirlatma : s.no = n => s = r
  BY HSatirBulunur
<1>3. \A s \in hatirlatma : s.mail >= s.mail
  <2>1. \A s \in hatirlatma : s.mail \in Nat
    BY DEF HatirlatmaInv, HatirlatmaTypeOK
  <2> QED BY <2>1
<1>4. HIsler(k) => \E s \in hatirlatma' : s.no = n
  BY DEF HatirlatmaInv, HSatirVar, HSurer
<1>5. \A s \in hatirlatma' : s.no = n => (s.durum = "SENT" => s.mail > 0) /\ (n \notin bozulan' => HSatirDogru(s)')
  BY <1>2 DEF HatirlatmaInv, HSatirlar
<1> QED BY <1>1, <1>2, <1>3, <1>4, <1>5, HAdimKorur

(* The steps of a run.                                                     *)
LEMMA HatOkuKorur ==
  ASSUME HatirlatmaInv, NEW a \in Kosu, NEW kuru \in BOOLEAN, HatOku(a, kuru)
  PROVE  HatirlatmaInv'
<1>0. HatirlatmaTypeOK
  BY DEF HatirlatmaInv
<1>1. PICK t \in Tur :
        \/ KosuIlerlet(a, [adim |-> "hatAl", no |-> <<buro.bitis, t>>, kuru |-> kuru])
        \/ KosuIlerlet(a, [adim |-> "hatAtla", no |-> <<buro.bitis, t>>])
  BY DEF HatOku, SiradakiTur
<1>2. PICK n \in SatirNo : n = <<buro.bitis, t>>
  BY <1>0 DEF HatirlatmaTypeOK, LisansTypeOK, BuroSatiri, SatirNo
<1>3. PICK k \in KosuKaydi : KosuIlerlet(a, k) /\ k.adim \in {"hatAl", "hatAtla"} /\ k.no = n
  <2>1. CASE KosuIlerlet(a, [adim |-> "hatAl", no |-> <<buro.bitis, t>>, kuru |-> kuru])
    <3>1. PICK k : k = [adim |-> "hatAl", no |-> n, kuru |-> kuru]
      OBVIOUS
    <3>2. k \in KosuKaydi /\ k.adim = "hatAl" /\ k.no = n
      BY <3>1 DEF KosuKaydi
    <3> QED BY <1>2, <2>1, <3>1, <3>2
  <2>2. CASE KosuIlerlet(a, [adim |-> "hatAtla", no |-> <<buro.bitis, t>>])
    <3>1. PICK k : k = [adim |-> "hatAtla", no |-> n]
      OBVIOUS
    <3>2. k \in KosuKaydi /\ k.adim = "hatAtla" /\ k.no = n
      BY <3>1 DEF KosuKaydi
    <3> QED BY <1>2, <2>2, <3>1, <3>2
  <2> QED BY <1>1, <2>1, <2>2
<1>4. kosu[a] = Bos /\ UNCHANGED <<lisansVars, hatirlatma, bozulan>>
  BY DEF HatOku, Ilk
<1>5. ~HSurer(kosu[a]) /\ ~HIsler(k)
  BY <1>3, <1>4 DEF HSurer, HIsler, Bos
<1>6. PICK r : r = Satir(n)
  OBVIOUS
<1>7. ASSUME n \notin bozulan' PROVE HSatirDogru(r)'
  <2>1. HSatirDogru(r) /\ r.no = n
    BY <1>4, <1>6, <1>7, HSatirDogrusu
  <2>2. /\ \A b \in Kosu : b # a => kosu'[b] = kosu[b]
        /\ Isleyenler(n)' = Isleyenler(n) \ {a}
        /\ HAtlayan(n) => HAtlayan(n)'
    BY <1>0, <1>3, <1>5, HIsleyenler DEF HAtlayan, HSurer
  <2>3. a \notin Isleyenler(n)
    BY <1>5 DEF Isleyenler, HSurer, HIsler
  <2>4. Isleyenler(n)' = Isleyenler(n) /\ \A b \in Isleyenler(n) : kosu'[b] = kosu[b]
    BY <2>2, <2>3 DEF Isleyenler
  <2> QED BY <2>1, <2>2, <2>4 DEF HSatirDogru
<1> QED BY <1>3, <1>4, <1>5, <1>6, <1>7, HKalanKorur

LEMMA HatAlKorur ==
  ASSUME HatirlatmaInv, NEW a \in Kosu, HatAl(a)
  PROVE  HatirlatmaInv'
<1>0. HatirlatmaTypeOK
  BY DEF HatirlatmaInv
<1>1. PICK k : k = kosu[a]
  OBVIOUS
<1>2. k.adim = "hatAl" /\ HSurer(k) /\ ~HIsler(k) /\ k.no \in SatirNo /\ k.kuru \in BOOLEAN
  BY <1>0, <1>1, HKosuAlanlari DEF HatAl, HatirlatmaTypeOK, HSurer, HIsler
<1>3. PICK n : n = k.no
  OBVIOUS
<1>4. PICK r : r = Satir(n)
  OBVIOUS
<1>5. /\ n \in SatirNo /\ r \in HSatirKaydi /\ r.no = n
      /\ n \notin bozulan => HSatirDogru(r)
  BY <1>2, <1>3, <1>4, HSatirDogrusu
<1>6. CASE Alinir(r)
  <2>1. PICK s : s = [r EXCEPT !.deneme = @ + 1]
    OBVIOUS
  <2>2. PICK y : y = [adim |-> "hatKontrol", no |-> n, kuru |-> k.kuru]
    OBVIOUS
  <2>3. /\ SatirYaz(s) /\ KosuIlerlet(a, y) /\ UNCHANGED lisansVars
        /\ bozulan' = IF Isleyenler(n) # {} THEN bozulan \cup {n} ELSE bozulan
    BY <1>1, <1>3, <1>4, <1>6, <2>1, <2>2 DEF HatAl
  <2>4. /\ s \in HSatirKaydi /\ s.no = n /\ s.durum = r.durum /\ s.mail = r.mail
        /\ s.deneme = r.deneme + 1 /\ s.kuru = r.kuru
        /\ r.durum \in {"PENDING", "FAILED"} /\ r.mail \in Nat /\ r.deneme \in Nat /\ r.kuru \in Nat
    BY <1>5, <1>6, <2>1, HatirlatmaVarsayimi DEF Alinir, HSatirKaydi
  <2>5. y \in KosuKaydi /\ y.adim = "hatKontrol" /\ y.no = n /\ HIsler(y)
    BY <1>2, <1>3, <1>5, <2>2 DEF KosuKaydi, HIsler
  <2>6. ASSUME n \notin bozulan' PROVE HSatirDogru(s)'
    <3>1. Isleyenler(n) = {} /\ HSatirDogru(r)
      BY <1>5, <2>3, <2>6
    <3>2. r.mail = 0 /\ (r.durum = "PENDING" => r.deneme = r.kuru \/ HAtlayan(n))
      BY <1>5, <2>4, <3>1 DEF HSatirDogru
    <3>3. /\ kosu'[a] = y /\ Isleyenler(n)' = {a}
          /\ HAtlayan(n) => HAtlayan(n)'
      BY <1>0, <1>1, <1>2, <1>3, <1>5, <2>3, <2>5, <3>1, HIsleyenler DEF HAtlayan
    <3> QED BY <2>4, <2>5, <3>2, <3>3 DEF HSatirDogru
  <2> QED BY <1>1, <1>3, <1>4, <1>5, <2>3, <2>4, <2>5, <2>6, HYazKorur
<1>7. CASE ~Alinir(r)
  <2>1. KosuIlerlet(a, Bitti) /\ UNCHANGED <<lisansVars, hatirlatma, bozulan>>
    BY <1>1, <1>3, <1>4, <1>7 DEF HatAl
  <2>2. Bitti \in KosuKaydi /\ ~HIsler(Bitti) /\ ~HSurer(Bitti) /\ Bitti.adim # "hatAtla"
    BY DEF Bitti, KosuKaydi, HIsler, HSurer
  <2>3. ASSUME n \notin bozulan' PROVE HSatirDogru(r)'
    <3>1. HSatirDogru(r)
      BY <1>5, <2>1, <2>3
    <3>2. /\ \A b \in Kosu : b # a => kosu'[b] = kosu[b]
          /\ Isleyenler(n)' = Isleyenler(n) \ {a}
          /\ HAtlayan(n) => HAtlayan(n)'
      BY <1>0, <1>1, <1>2, <1>3, <1>5, <2>1, <2>2, HIsleyenler DEF HAtlayan
    <3>3. a \notin Isleyenler(n)
      <4>1. kosu[a].adim = "hatAl"
        BY <1>1, <1>2
      <4> QED BY <4>1 DEF Isleyenler
    <3>4. Isleyenler(n)' = Isleyenler(n) /\ \A b \in Isleyenler(n) : kosu'[b] = kosu[b]
      BY <3>2, <3>3 DEF Isleyenler
    <3> QED BY <1>5, <3>1, <3>2, <3>4 DEF HSatirDogru
  <2> QED BY <1>1, <1>3, <1>4, <1>5, <2>1, <2>2, <2>3, HKalanKorur
<1> QED BY <1>6, <1>7
LEMMA HatKontrolKorur ==
  ASSUME HatirlatmaInv, NEW a \in Kosu, HatKontrol(a)
  PROVE  HatirlatmaInv'
<1>0. HatirlatmaTypeOK
  BY DEF HatirlatmaInv
<1>1. PICK k : k = kosu[a]
  OBVIOUS
<1>2. k.adim = "hatKontrol" /\ HSurer(k) /\ HIsler(k) /\ k.no \in SatirNo
  BY <1>0, <1>1, HKosuAlanlari DEF HatKontrol, HatirlatmaTypeOK, HSurer, HIsler
<1>3. PICK n : n = k.no
  OBVIOUS
<1>4. PICK r : r = Satir(n)
  OBVIOUS
<1>5. /\ n \in SatirNo /\ r \in HSatirKaydi /\ r.no = n
      /\ n \notin bozulan => HSatirDogru(r)
      /\ r.durum = "SENT" => r.mail > 0
  BY <1>2, <1>3, <1>4, HSatirDogrusu
<1>6. a \in Isleyenler(n)
  <2>1. kosu[a].adim = "hatKontrol" /\ kosu[a].no = n
    BY <1>1, <1>2, <1>3
  <2> QED BY <2>1 DEF Isleyenler
<1>7. n \notin bozulan => /\ Isleyenler(n) = {a} /\ r.mail = 0
                          /\ r.durum = "PENDING" => r.deneme = r.kuru + 1 \/ HAtlayan(n)
  BY <1>1, <1>2, <1>5, <1>6 DEF HSatirDogru
<1>8. UNCHANGED <<lisansVars, bozulan>>
  BY DEF HatKontrol
<1>9. CASE KosuIlerlet(a, [adim |-> "hatAtla", no |-> n]) /\ UNCHANGED hatirlatma
  <2>1. PICK y : y = [adim |-> "hatAtla", no |-> n]
    OBVIOUS
  <2>2. y \in KosuKaydi /\ ~HIsler(y) /\ y.no = n /\ y.adim = "hatAtla" /\ KosuIlerlet(a, y)
    BY <1>5, <1>9, <2>1 DEF KosuKaydi, HIsler
  <2>3. ASSUME n \notin bozulan' PROVE HSatirDogru(r)'
    <3>1. Isleyenler(n)' = {} /\ HAtlayan(n)'
      BY <1>0, <1>1, <1>2, <1>3, <1>5, <1>7, <1>8, <2>2, <2>3, HIsleyenler
    <3> QED BY <1>5, <1>7, <1>8, <2>3, <3>1 DEF HSatirDogru
  <2> QED BY <1>1, <1>3, <1>4, <1>5, <1>8, <1>9, <2>2, <2>3, HKalanKorur
<1>10. CASE KosuIlerlet(a, [adim |-> "hatGonder", no |-> n]) /\ UNCHANGED hatirlatma
  <2>1. PICK y : y = [adim |-> "hatGonder", no |-> n]
    OBVIOUS
  <2>2. y \in KosuKaydi /\ HIsler(y) /\ y.no = n /\ y.adim = "hatGonder" /\ KosuIlerlet(a, y)
    BY <1>5, <1>10, <2>1 DEF KosuKaydi, HIsler
  <2>3. ASSUME n \notin bozulan' PROVE HSatirDogru(r)'
    <3>1. Isleyenler(n)' = {a} /\ kosu'[a] = y
      BY <1>0, <1>1, <1>2, <1>3, <1>5, <1>7, <1>8, <2>2, <2>3, HIsleyenler
    <3> QED BY <1>5, <1>7, <1>8, <2>2, <2>3, <3>1 DEF HSatirDogru
  <2>4. HIsler(kosu[a])
    BY <1>1, <1>2
  <2> QED BY <1>1, <1>3, <1>4, <1>5, <1>8, <1>10, <2>2, <2>3, <2>4, HKalanKorur
<1>11. CASE KosuIlerlet(a, Bitti) /\ SatirYaz([r EXCEPT !.kuru = @ + 1])
  <2>1. PICK s : s = [r EXCEPT !.kuru = @ + 1]
    OBVIOUS
  <2>2. /\ s \in HSatirKaydi /\ s.no = n /\ s.durum = r.durum /\ s.mail = r.mail
        /\ s.deneme = r.deneme /\ s.kuru = r.kuru + 1 /\ SatirYaz(s) /\ s.mail >= r.mail
    BY <1>5, <1>11, <2>1 DEF HSatirKaydi
  <2>3. Bitti \in KosuKaydi /\ ~HIsler(Bitti) /\ ~HSurer(Bitti) /\ Bitti.adim = "bitti"
    BY DEF Bitti, KosuKaydi, HIsler, HSurer
  <2>4. ASSUME n \notin bozulan' PROVE HSatirDogru(s)'
    <3>1. Isleyenler(n)' = {} /\ (HAtlayan(n) => HAtlayan(n)')
      BY <1>0, <1>1, <1>2, <1>3, <1>5, <1>7, <1>8, <1>11, <2>3, <2>4, HIsleyenler DEF HAtlayan
    <3> QED BY <1>5, <1>7, <1>8, <2>2, <2>4, <3>1 DEF HSatirDogru
  <2> QED BY <1>1, <1>3, <1>4, <1>5, <1>8, <1>11, <2>2, <2>3, <2>4, HYazKorur
<1> QED BY <1>1, <1>3, <1>4, <1>9, <1>10, <1>11 DEF HatKontrol

LEMMA HatGonderKorur ==
  ASSUME HatirlatmaInv, NEW a \in Kosu, HatGonder(a)
  PROVE  HatirlatmaInv'
<1>0. HatirlatmaTypeOK
  BY DEF HatirlatmaInv
<1>1. PICK k : k = kosu[a]
  OBVIOUS
<1>2. k.adim = "hatGonder" /\ HSurer(k) /\ HIsler(k) /\ k.no \in SatirNo
  BY <1>0, <1>1, HKosuAlanlari DEF HatGonder, HatirlatmaTypeOK, HSurer, HIsler
<1>3. PICK n : n = k.no
  OBVIOUS
<1>4. PICK r : r = Satir(n)
  OBVIOUS
<1>5. /\ n \in SatirNo /\ r \in HSatirKaydi /\ r.no = n /\ r.mail \in Nat
      /\ n \notin bozulan => HSatirDogru(r)
      /\ r.durum = "SENT" => r.mail > 0
  BY <1>2, <1>3, <1>4, HSatirDogrusu DEF HSatirKaydi
<1>6. a \in Isleyenler(n)
  <2>1. kosu[a].adim = "hatGonder" /\ kosu[a].no = n
    BY <1>1, <1>2, <1>3
  <2> QED BY <2>1 DEF Isleyenler
<1>7. n \notin bozulan => Isleyenler(n) = {a} /\ r.mail = 0
  BY <1>1, <1>2, <1>5, <1>6 DEF HSatirDogru
<1>8. PICK d \in {"SENT", "FAILED"} :
        /\ KosuIlerlet(a, [adim |-> "hatYaz", no |-> n, durum |-> d])
        /\ \/ SatirYaz([r EXCEPT !.mail = @ + 1]) /\ ((d = "SENT" /\ bozulan' = bozulan) \/ bozulan' = bozulan \cup {n})
           \/ d = "FAILED" /\ UNCHANGED <<hatirlatma, bozulan>>
  BY <1>1, <1>3, <1>4 DEF HatGonder
<1>9. PICK y : y = [adim |-> "hatYaz", no |-> n, durum |-> d]
  OBVIOUS
<1>10. y \in KosuKaydi /\ HIsler(y) /\ y.no = n /\ y.adim = "hatYaz" /\ y.durum = d /\ KosuIlerlet(a, y)
  BY <1>5, <1>8, <1>9 DEF KosuKaydi, HIsler
<1>11. Isleyenler(n)' = Isleyenler(n) \cup {a} /\ kosu'[a] = y
  BY <1>0, <1>1, <1>2, <1>3, <1>5, <1>10, HIsleyenler
<1>12. UNCHANGED lisansVars
  BY DEF HatGonder
<1>13. CASE d = "FAILED" /\ UNCHANGED <<hatirlatma, bozulan>>
  <2>1. ASSUME n \notin bozulan' PROVE HSatirDogru(r)'
    BY <1>5, <1>7, <1>10, <1>11, <1>13, <2>1 DEF HSatirDogru
  <2>2. HIsler(kosu[a])
    BY <1>1, <1>2
  <2> QED BY <1>1, <1>3, <1>4, <1>5, <1>10, <1>12, <1>13, <2>1, <2>2, HKalanKorur
<1>14. CASE SatirYaz([r EXCEPT !.mail = @ + 1]) /\ ((d = "SENT" /\ bozulan' = bozulan) \/ bozulan' = bozulan \cup {n})
  <2>1. PICK s : s = [r EXCEPT !.mail = @ + 1]
    OBVIOUS
  <2>2. /\ s \in HSatirKaydi /\ s.no = n /\ s.mail = r.mail + 1
        /\ SatirYaz(s) /\ s.mail >= r.mail /\ s.mail > 0
    BY <1>5, <1>14, <2>1 DEF HSatirKaydi
  <2>3. ASSUME n \notin bozulan' PROVE HSatirDogru(s)'
    <3>1. d = "SENT" /\ s.mail = 1 /\ Isleyenler(n)' = {a}
      BY <1>7, <1>11, <1>14, <2>2, <2>3
    <3> QED BY <1>10, <1>11, <2>2, <3>1 DEF HSatirDogru
  <2>4. bozulan \subseteq bozulan' /\ bozulan' \subseteq bozulan \cup {n}
    BY <1>14
  <2> QED BY <1>1, <1>3, <1>4, <1>5, <1>10, <1>12, <2>2, <2>3, <2>4, HYazKorur
<1> QED BY <1>8, <1>13, <1>14

LEMMA HatYazKorur ==
  ASSUME HatirlatmaInv, NEW a \in Kosu, HatYaz(a)
  PROVE  HatirlatmaInv'
<1>0. HatirlatmaTypeOK
  BY DEF HatirlatmaInv
<1>1. PICK k : k = kosu[a]
  OBVIOUS
<1>2. /\ k.adim = "hatYaz" /\ HSurer(k) /\ HIsler(k) /\ k.no \in SatirNo /\ k.durum \in {"SENT", "FAILED"}
  BY <1>0, <1>1, HKosuAlanlari DEF HatYaz, HatirlatmaTypeOK, HSurer, HIsler
<1>3. PICK n : n = k.no
  OBVIOUS
<1>4. PICK r : r = Satir(n)
  OBVIOUS
<1>5. /\ n \in SatirNo /\ r \in HSatirKaydi /\ r.no = n /\ r.mail \in Nat
      /\ n \notin bozulan => HSatirDogru(r)
  BY <1>2, <1>3, <1>4, HSatirDogrusu DEF HSatirKaydi
<1>6. a \in Isleyenler(n)
  <2>1. kosu[a].adim = "hatYaz" /\ kosu[a].no = n
    BY <1>1, <1>2, <1>3
  <2> QED BY <2>1 DEF Isleyenler
<1>7. n \notin bozulan => /\ Isleyenler(n) = {a}
                          /\ k.durum = "SENT" => r.mail = 1
                          /\ k.durum # "SENT" => r.mail = 0
  BY <1>1, <1>2, <1>5, <1>6 DEF HSatirDogru
<1>8. k.durum = "SENT" => r.mail > 0
  BY <1>1, <1>2, <1>3, <1>4, <1>5, HSatirBulunur DEF HatirlatmaInv, HSatirVar
<1>9. PICK s : s = [r EXCEPT !.durum = k.durum]
  OBVIOUS
<1>10. /\ s \in HSatirKaydi /\ s.no = n /\ s.mail = r.mail /\ s.durum = k.durum
       /\ SatirYaz(s) /\ s.mail >= r.mail
       /\ KosuIlerlet(a, Bitti) /\ UNCHANGED <<lisansVars, bozulan>>
  BY <1>1, <1>2, <1>3, <1>4, <1>5, <1>9 DEF HSatirKaydi, HatYaz
<1>11. Bitti \in KosuKaydi /\ ~HIsler(Bitti) /\ ~HSurer(Bitti) /\ Bitti.adim = "bitti"
  BY DEF Bitti, KosuKaydi, HIsler, HSurer
<1>12. ASSUME n \notin bozulan' PROVE HSatirDogru(s)'
  <2>1. Isleyenler(n)' = {}
    BY <1>0, <1>1, <1>2, <1>3, <1>5, <1>7, <1>10, <1>11, <1>12, HIsleyenler
  <2> QED BY <1>2, <1>7, <1>10, <1>12, <2>1 DEF HSatirDogru
<1> QED BY <1>1, <1>3, <1>4, <1>5, <1>8, <1>10, <1>11, <1>12, HYazKorur

LEMMA HatAtlaKorur ==
  ASSUME HatirlatmaInv, NEW a \in Kosu, HatAtla(a)
  PROVE  HatirlatmaInv'
<1>0. HatirlatmaTypeOK
  BY DEF HatirlatmaInv
<1>1. PICK k : k = kosu[a]
  OBVIOUS
<1>2. k.adim = "hatAtla" /\ HSurer(k) /\ ~HIsler(k) /\ k.no \in SatirNo
  BY <1>0, <1>1, HKosuAlanlari DEF HatAtla, HatirlatmaTypeOK, HSurer, HIsler
<1>3. PICK n : n = k.no
  OBVIOUS
<1>4. PICK r : r = Satir(n)
  OBVIOUS
<1>5. /\ n \in SatirNo /\ r \in HSatirKaydi /\ r.no = n /\ r.mail \in Nat
      /\ n \notin bozulan => HSatirDogru(r)
  BY <1>2, <1>3, <1>4, HSatirDogrusu DEF HSatirKaydi
<1>6. a \notin Isleyenler(n)
  <2>1. kosu[a].adim = "hatAtla"
    BY <1>1, <1>2
  <2> QED BY <2>1 DEF Isleyenler
<1>9. PICK s : s = [r EXCEPT !.durum = "SKIPPED"]
  OBVIOUS
<1>10. /\ s \in HSatirKaydi /\ s.no = n /\ s.mail = r.mail /\ s.durum = "SKIPPED"
       /\ SatirYaz(s) /\ s.mail >= r.mail
       /\ KosuIlerlet(a, Bitti) /\ UNCHANGED <<lisansVars, bozulan>>
  BY <1>1, <1>2, <1>3, <1>4, <1>5, <1>9 DEF HSatirKaydi, HatAtla
<1>11. Bitti \in KosuKaydi /\ ~HIsler(Bitti) /\ ~HSurer(Bitti) /\ Bitti.adim = "bitti"
  BY DEF Bitti, KosuKaydi, HIsler, HSurer
<1>12. ASSUME n \notin bozulan' PROVE HSatirDogru(s)'
  <2>1. Isleyenler(n)' = Isleyenler(n) /\ \A b \in Isleyenler(n) : kosu'[b] = kosu[b]
    <3>1. /\ \A b \in Kosu : b # a => kosu'[b] = kosu[b]
          /\ Isleyenler(n)' = Isleyenler(n) \ {a}
      BY <1>0, <1>1, <1>2, <1>3, <1>5, <1>10, <1>11, HIsleyenler
    <3> QED BY <1>6, <3>1 DEF Isleyenler
  <2>2. HSatirDogru(r)
    BY <1>5, <1>10, <1>12
  <2> QED BY <1>5, <1>10, <2>1, <2>2 DEF HSatirDogru
<1> QED BY <1>1, <1>3, <1>4, <1>5, <1>10, <1>11, <1>12, HYazKorur

LEMMA HatDuserKorur ==
  ASSUME HatirlatmaInv, NEW a \in Kosu, HatDuser(a)
  PROVE  HatirlatmaInv'
<1>0. HatirlatmaTypeOK
  BY DEF HatirlatmaInv
<1>1. PICK n : n = kosu[a].no
  OBVIOUS
<1>2. HSurer(kosu[a]) /\ n \in SatirNo
  <2>1. HSurer(kosu[a])
    BY DEF HatDuser, HSurer, HIsler
  <2> QED BY <1>0, <1>1, <2>1, HKosuAlanlari DEF HatirlatmaTypeOK
<1>3. Bitti \in KosuKaydi /\ ~HIsler(Bitti) /\ ~HSurer(Bitti) /\ Bitti.adim = "bitti"
  BY DEF Bitti, KosuKaydi, HIsler, HSurer
<1>4. KosuIlerlet(a, Bitti) /\ bozulan' = bozulan \cup {n} /\ UNCHANGED <<lisansVars, hatirlatma>>
  BY <1>1 DEF HatDuser
<1>5. PICK r : r = Satir(n)
  OBVIOUS
<1> QED BY <1>1, <1>2, <1>3, <1>4, <1>5, HKalanKorur

(* Every step of the licence and its reminders.                            *)
LEMMA HatirlatmaAdimiKorur ==
  ASSUME LisansInv, HatirlatmaInv, [HatirlatmaNext]_hatirlatmaVars
  PROVE  LisansInv' /\ HatirlatmaInv'
<1>1. CASE [LisansNext]_lisansVars /\ UNCHANGED <<hatirlatma, kosu, bozulan>>
  <2>1. LisansInv'
    BY <1>1, LisansAdimiKorur
  <2> QED BY <1>1, <2>1 DEF LisansInv, HatirlatmaInv, HatirlatmaTypeOK, HSatirTek, HSatirVar, HSatirlar,
             HSatirDogru, HAtlayan, Isleyenler
<1>2. CASE BuroDurumu
  <2>1. /\ buro' \in BuroSatiri /\ buro'.bitis = buro.bitis
    BY <1>2 DEF LisansInv, LisansTypeOK, BuroDurumu, BuroSatiri
  <2>2. UNCHANGED <<gun, donem, satinalma, krediDonem, lisansIstek, eksilen, aksayan, hatirlatma, kosu, bozulan>>
    BY <1>2 DEF BuroDurumu
  <2>3. Donemler' = Donemler
    BY <2>2 DEF Donemler
  <2>4. LisansInv'
    BY <2>1, <2>2, <2>3 DEF LisansInv, LisansTypeOK, SureKorunur, LYazDogru, DonemKredili,
       LKrediDogru, SatinalmaTutarli, LOturumDogru, Bagli
  <2> QED BY <2>2, <2>4 DEF LisansInv, HatirlatmaInv, HatirlatmaTypeOK, HSatirTek, HSatirVar, HSatirlar,
             HSatirDogru, HAtlayan, Isleyenler
<1>3. ASSUME NEW a \in Kosu, HatirlatmaAdimi(a)
      PROVE  LisansInv' /\ HatirlatmaInv'
  <2>1. UNCHANGED lisansVars
    BY <1>3 DEF HatirlatmaAdimi, HatOku, HatAl, HatKontrol, HatGonder, HatYaz, HatAtla, HatDuser
  <2>2. HatirlatmaInv'
    BY <1>3, HatOkuKorur, HatAlKorur, HatKontrolKorur, HatGonderKorur, HatYazKorur, HatAtlaKorur,
       HatDuserKorur DEF HatirlatmaAdimi
  <2> QED BY <2>1, <2>2, LisansAdimiKorur
<1>4. CASE UNCHANGED hatirlatmaVars
  BY <1>1, <1>4 DEF hatirlatmaVars
<1> QED BY <1>1, <1>2, <1>3, <1>4 DEF HatirlatmaNext

(* The inductive invariants of the licence and of its reminders always     *)
(* hold.                                                                   *)
THEOREM LisansDegismez == HatirlatmaSpec => [](LisansInv /\ HatirlatmaInv)
<1>1. HatirlatmaInit => LisansInv /\ HatirlatmaInv
  <2>1. SUFFICES ASSUME HatirlatmaInit PROVE LisansInv /\ HatirlatmaInv
    OBVIOUS
  <2>2. LisansInv /\ hatirlatma = {} /\ bozulan = {}
    BY <2>1, LisansBaslangic DEF HatirlatmaInit
  <2>3. kosu \in [Kosu -> KosuKaydi] /\ \A a \in Kosu : kosu[a].adim = "bos"
    BY <2>1 DEF HatirlatmaInit, KosuKaydi, Bos
  <2> QED BY <2>2, <2>3 DEF LisansInv, HatirlatmaInv, HatirlatmaTypeOK, HSatirTek, HSatirVar, HSatirlar, HIsler
<1>2. LisansInv /\ HatirlatmaInv /\ [HatirlatmaNext]_hatirlatmaVars => LisansInv' /\ HatirlatmaInv'
  BY HatirlatmaAdimiKorur
<1> QED BY <1>1, <1>2, PTL DEF HatirlatmaSpec

(* What an order promises and what a reminder promises, for any number of  *)
(* orders, requests, runs and days (extendTenantLicense.ts:71, :142,       *)
(* licensePurchase.service.ts:536, licenseExpiryReminder.service.ts:96).   *)
THEOREM LisanslarTutarlidir == HatirlatmaSpec => []LisanslarTutarli
<1>1. LisansInv /\ HatirlatmaInv => LisanslarTutarli
  <2>1. SUFFICES ASSUME LisansInv, HatirlatmaInv PROVE LisanslarTutarli
    OBVIOUS
  <2>2. LisansTutarli
    BY <2>1 DEF LisansInv, LisansTutarli
  <2>3. ASSUME NEW r \in hatirlatma, r.no \notin bozulan
        PROVE  /\ r.mail <= 1
               /\ r.mail = 1 /\ Isleyenler(r.no) = {} => r.durum \in {"SENT", "SKIPPED"}
               /\ r.durum = "PENDING" /\ Isleyenler(r.no) = {} => r.deneme = r.kuru \/ HAtlayan(r.no)
    <3>1. HSatirDogru(r) /\ r.mail \in Nat
      BY <2>1, <2>3 DEF HatirlatmaInv, HSatirlar, HatirlatmaTypeOK
    <3>2. CASE Isleyenler(r.no) = {}
      BY <3>1, <3>2 DEF HSatirDogru
    <3>3. CASE Isleyenler(r.no) # {}
      BY <3>1, <3>3 DEF HSatirDogru, Isleyenler
    <3> QED BY <3>2, <3>3
  <2>4. \A r \in hatirlatma : r.durum = "SENT" => r.mail > 0
    BY <2>1 DEF HatirlatmaInv, HSatirlar
  <2> QED BY <2>2, <2>3, <2>4 DEF LisanslarTutarli, HatirlatmaHesabi, HAtlayan
<1> QED BY <1>1, LisansDegismez, PTL

(* Rows, requests and runs of the licence keep their types.                *)
THEOREM LisansTipiKorunur == HatirlatmaSpec => []HatirlatmaTypeOK
<1>1. HatirlatmaInv => HatirlatmaTypeOK
  BY DEF HatirlatmaInv
<1> QED BY <1>1, LisansDegismez, PTL
-----------------------------------------------------------------------------
(***************************************************************************)
(* Backups.  Of a day whose uploads nothing cut short and nothing          *)
(* overlapped, the snapshot is the one the manifest vouches for or the one *)
(* whose run has still to write the manifest; the newest completed day is  *)
(* never removed; and a restore knows of every row that differs from its   *)
(* safety copy.                                                            *)
(***************************************************************************)
YKayit ==
  [adim : {"anlik", "manifest"}, d : YGunler, veri : YVeriTipi] \cup [adim : {"sakla"}, d : YGunler]
    \cup [adim : {"dogrula"}, d : YGunler, s : YAnlik] \cup [adim : {"guvenli"}, s : YAnlik]
    \cup [adim : {"kopya"}, s : YAnlik, kopya : YVeriTipi, arada : SUBSET YSatir]
    \cup [adim : {"uygula"}, s : YAnlik, kopya : YVeriTipi, arada : SUBSET YSatir, gorulen : SUBSET YSatir,
          degisen : SUBSET YSatir]
YOnayTipi == [no : YIstek, d : YGunler]

YTipler ==
  /\ yVeri \in YVeriTipi /\ yBugun \in YGunler
  /\ yDepo \in [YGunler -> [s : YAnlik \cup {Yok}, m : YIstek \cup {Yok}]]
  /\ yIstek \in [YIstek -> YKayit \cup {Bos, Bitti}]
  /\ ySasan \subseteq YGunler /\ yOnay \subseteq YOnayTipi /\ yGeri \subseteq YIstek

\* The objects of a day whose uploads nothing cut short and nothing overlapped.
YAsan(d) == \E o \in yOnay : o.d > d
YDepoDogru(d) ==
  /\ yDepo[d].m # Yok => \E o \in yOnay : o.no = yDepo[d].m
  /\ d \notin ySasan =>
       /\ yDepo[d].s # Yok => yDepo[d].s.no \in YYuklenen(d) \/ yDepo[d].m = yDepo[d].s.no
       /\ \A a \in YYuklenen(d) : /\ yDepo[d].s # Yok => yDepo[d].s.no = a
                                  /\ yDepo[d].s = Yok => YAsan(d)
       /\ \A a, b \in YYuklenen(d) : a = b
       /\ \A o \in yOnay : o.d = d => yDepo[d].s # Yok \/ YAsan(d)

YKayitDogru(r) ==
  /\ r.adim = "sakla" => \E o \in yOnay : o.d = r.d
  /\ r.adim \in {"guvenli", "kopya", "uygula"} => \E o \in yOnay : o.no = r.s.no
  /\ r.adim = "kopya" => \A x \in YSatir \ r.arada : r.kopya[x] = yVeri[x]
  /\ r.adim = "uygula" => \A x \in r.gorulen \ (r.arada \cup r.degisen) : r.kopya[x] = yVeri[x]

YSurer(r) == r \notin {Bos, Bitti}

YedekInv ==
  /\ YTipler
  /\ \A d \in YGunler : YDepoDogru(d)
  /\ \A a \in YIstek : YSurer(yIstek[a]) => YKayitDogru(yIstek[a])
  /\ yGeri \subseteq {o.no : o \in yOnay} /\ yKayip = {}

(* What requests hold.                                                     *)
LEMMA YKayitAlanlari ==
  ASSUME NEW r \in YKayit
  PROVE  /\ r.adim \in {"anlik", "manifest", "sakla", "dogrula", "guvenli", "kopya", "uygula"}
         /\ r.adim \in {"anlik", "manifest", "sakla", "dogrula"} => r.d \in YGunler
         /\ r.adim \in {"anlik", "manifest"} => r.veri \in YVeriTipi
         /\ r.adim \in {"dogrula", "guvenli", "kopya", "uygula"} => r.s \in YAnlik
         /\ r.adim \in {"kopya", "uygula"} => r.kopya \in YVeriTipi /\ r.arada \subseteq YSatir
         /\ r.adim = "uygula" => r.gorulen \subseteq YSatir /\ r.degisen \subseteq YSatir
BY DEF YKayit

LEMMA YSurenKayit == ~YSurer(Bos) /\ ~YSurer(Bitti) /\ \A r \in YKayit : YSurer(r)
<1>1. ~YSurer(Bos) /\ ~YSurer(Bitti)
  BY DEF YSurer
<1>2. ASSUME NEW r \in YKayit PROVE YSurer(r)
  BY YKayitAlanlari DEF YSurer, Bos, Bitti
<1> QED BY <1>1, <1>2

LEMMA YAdimdaki ==
  ASSUME YTipler, NEW a \in YIstek,
         yIstek[a].adim \in {"anlik", "manifest", "sakla", "dogrula", "guvenli", "kopya", "uygula"}
  PROVE  yIstek[a] \in YKayit /\ YSurer(yIstek[a])
BY YSurenKayit DEF YTipler, Bos, Bitti

LEMMA YIlerletEtkisi ==
  ASSUME YTipler, NEW a \in YIstek, NEW k \in YKayit \cup {Bos, Bitti}, YIlerlet(a, k)
  PROVE  /\ yIstek' \in [YIstek -> YKayit \cup {Bos, Bitti}]
         /\ yIstek'[a] = k
         /\ \A b \in YIstek \ {a} : yIstek'[b] = yIstek[b]
BY DEF YIlerlet, YTipler

(* Steps that leave the objects and who is uploading.                      *)
LEMMA YDepoKorur ==
  ASSUME YedekInv, UNCHANGED <<yDepo, yOnay>>, ySasan \subseteq ySasan',
         \A d \in YGunler \ ySasan' : YYuklenen(d)' = YYuklenen(d)
  PROVE  \A d \in YGunler : YDepoDogru(d)'
<1>1. ASSUME NEW d \in YGunler PROVE YDepoDogru(d)'
  <2>1. YDepoDogru(d) /\ (YAsan(d)' <=> YAsan(d))
    BY DEF YedekInv, YAsan
  <2>2. CASE d \in ySasan'
    BY <2>1, <2>2 DEF YDepoDogru
  <2>3. CASE d \notin ySasan'
    <3>1. d \notin ySasan /\ YYuklenen(d)' = YYuklenen(d)
      BY <2>3
    <3> QED BY <2>1, <2>3, <3>1 DEF YDepoDogru
  <2> QED BY <2>2, <2>3
<1> QED BY <1>1

(* A request moves, and no row and no object changes.                      *)
LEMMA YAdimKorur ==
  ASSUME YedekInv, NEW a \in YIstek, NEW k \in YKayit \cup {Bos, Bitti}, YIlerlet(a, k),
         UNCHANGED <<yVeri, yDepo, yOnay, yGeri, yKayip>>, yBugun' \in YGunler,
         ySasan \subseteq ySasan', ySasan' \subseteq YGunler,
         k.adim # "manifest",
         yIstek[a].adim = "manifest" => yIstek[a].d \in ySasan',
         YSurer(k) => YKayitDogru(k)
  PROVE  YedekInv'
<1>0. YTipler
  BY DEF YedekInv
<1>1. /\ yIstek' \in [YIstek -> YKayit \cup {Bos, Bitti}]
      /\ yIstek'[a] = k
      /\ \A b \in YIstek \ {a} : yIstek'[b] = yIstek[b]
  BY <1>0, YIlerletEtkisi
<1>2. YTipler'
  BY <1>0, <1>1 DEF YTipler
<1>3. \A d \in YGunler \ ySasan' : YYuklenen(d)' = YYuklenen(d)
  BY <1>1 DEF YYuklenen
<1>4. \A d \in YGunler : YDepoDogru(d)'
  BY <1>3, YDepoKorur
<1>5. ASSUME NEW b \in YIstek, YSurer(yIstek[b])' PROVE YKayitDogru(yIstek[b])'
  BY <1>1, <1>5 DEF YedekInv, YKayitDogru, YSurer
<1> QED BY <1>2, <1>4, <1>5 DEF YedekInv

LEMMA YDisaAktarKorur ==
  ASSUME YedekInv, NEW a \in YIstek, YDisaAktar(a)
  PROVE  YedekInv'
<1>1. PICK k : k = [adim |-> "anlik", d |-> yBugun, veri |-> yVeri]
  OBVIOUS
<1>2. k \in YKayit /\ k.adim = "anlik"
  BY <1>1 DEF YKayit, YedekInv, YTipler
<1>3. YKayitDogru(k)
  BY <1>2 DEF YKayitDogru
<1>4. YIlerlet(a, k) /\ UNCHANGED <<yVeri, yBugun, yDepo, ySasan, yOnay, yGeri, yKayip>> /\ yIstek[a].adim = "bos"
  BY <1>1 DEF YDisaAktar, YGelir, Ilk, Bos
<1>5. yBugun' \in YGunler /\ ySasan' \subseteq YGunler
  BY <1>4 DEF YedekInv, YTipler
<1> QED BY <1>2, <1>3, <1>4, <1>5, YAdimKorur

LEMMA YGeriOkuKorur ==
  ASSUME YedekInv, NEW a \in YIstek, YGeriOku(a)
  PROVE  YedekInv'
<1>1. PICK d \in YGunler : yDepo[d].s # Yok /\ YIlerlet(a, [adim |-> "dogrula", d |-> d, s |-> yDepo[d].s])
  BY DEF YGeriOku
<1>2. PICK s \in YAnlik : s = yDepo[d].s
  BY <1>1 DEF YedekInv, YTipler
<1>3. PICK k : k = [adim |-> "dogrula", d |-> d, s |-> s]
  OBVIOUS
<1>4. k \in YKayit /\ k.adim = "dogrula"
  BY <1>3 DEF YKayit
<1>5. YKayitDogru(k)
  BY <1>4 DEF YKayitDogru
<1>6. YIlerlet(a, k) /\ UNCHANGED <<yVeri, yBugun, yDepo, ySasan, yOnay, yGeri, yKayip>> /\ yIstek[a].adim = "bos"
  BY <1>1, <1>2, <1>3 DEF YGeriOku, YGelir, Ilk, Bos
<1>7. yBugun' \in YGunler /\ ySasan' \subseteq YGunler
  BY <1>6 DEF YedekInv, YTipler
<1> QED BY <1>4, <1>5, <1>6, <1>7, YAdimKorur

LEMMA YDogrulaKorur ==
  ASSUME YedekInv, NEW a \in YIstek, YDogrula(a)
  PROVE  YedekInv'
<1>0. YTipler /\ UNCHANGED <<yVeri, yBugun, yDepo, ySasan, yOnay, yGeri, yKayip>>
  BY DEF YedekInv, YDogrula
<1>1. PICK r \in YKayit : r = yIstek[a] /\ r.adim = "dogrula" /\ r.d \in YGunler /\ r.s \in YAnlik
  BY <1>0, YAdimdaki, YKayitAlanlari DEF YDogrula
<1>2. yBugun' \in YGunler /\ ySasan' \subseteq YGunler /\ ySasan \subseteq ySasan'
  BY <1>0 DEF YTipler
<1>3. CASE YUyusur(r.s, yDepo[r.d].m)
  <2>1. PICK k : k = [adim |-> "guvenli", s |-> r.s]
    OBVIOUS
  <2>2. k \in YKayit /\ k.adim = "guvenli" /\ k.s = r.s
    BY <1>1, <2>1 DEF YKayit
  <2>3. YIlerlet(a, k)
    BY <1>1, <1>3, <2>1 DEF YDogrula
  <2>4. yDepo[r.d].m = r.s.no /\ r.s.no # Yok
    BY <1>1, <1>3, YedekVarsayimi DEF YUyusur, YAnlik
  <2>5. \E o \in yOnay : o.no = r.s.no
    BY <1>1, <2>4 DEF YedekInv, YDepoDogru
  <2>6. YKayitDogru(k)
    BY <2>2, <2>5 DEF YKayitDogru
  <2> QED BY <1>0, <1>1, <1>2, <2>2, <2>3, <2>6, YAdimKorur
<1>4. CASE ~YUyusur(r.s, yDepo[r.d].m)
  <2>1. PICK k \in {Bitti} : YIlerlet(a, k) /\ ~YSurer(k) /\ k.adim # "manifest"
    BY <1>1, <1>4, YSurenKayit DEF YDogrula, Bitti
  <2> QED BY <1>0, <1>1, <1>2, <2>1, YAdimKorur
<1> QED BY <1>3, <1>4

LEMMA YGuvenliKopyaKorur ==
  ASSUME YedekInv, NEW a \in YIstek, YGuvenliKopya(a)
  PROVE  YedekInv'
<1>0. YTipler /\ UNCHANGED <<yVeri, yBugun, yDepo, ySasan, yOnay, yGeri, yKayip>>
  BY DEF YedekInv, YGuvenliKopya
<1>1. PICK r \in YKayit : /\ r = yIstek[a] /\ r.adim = "guvenli" /\ r.s \in YAnlik
                          /\ \E o \in yOnay : o.no = r.s.no
  BY <1>0, YAdimdaki, YKayitAlanlari DEF YGuvenliKopya, YedekInv, YKayitDogru
<1>2. yBugun' \in YGunler /\ ySasan' \subseteq YGunler /\ ySasan \subseteq ySasan'
  BY <1>0 DEF YTipler
<1>3. PICK k : k = [adim |-> "kopya", s |-> r.s, kopya |-> yVeri, arada |-> {}]
  OBVIOUS
<1>4. k \in YKayit /\ k.adim = "kopya" /\ k.s = r.s /\ k.kopya = yVeri
  BY <1>0, <1>1, <1>3 DEF YKayit, YTipler
<1>5. YIlerlet(a, k)
  BY <1>1, <1>3 DEF YGuvenliKopya
<1>6. YKayitDogru(k)
  BY <1>1, <1>4 DEF YKayitDogru
<1> QED BY <1>0, <1>1, <1>2, <1>4, <1>5, <1>6, YAdimKorur

LEMMA YIslemKorur ==
  ASSUME YedekInv, NEW a \in YIstek, YIslem(a)
  PROVE  YedekInv'
<1>0. YTipler /\ UNCHANGED <<yVeri, yBugun, yDepo, ySasan, yOnay, yGeri, yKayip>>
  BY DEF YedekInv, YIslem
<1>1. PICK r \in YKayit : /\ r = yIstek[a] /\ r.adim = "kopya" /\ r.s \in YAnlik /\ r.kopya \in YVeriTipi
                          /\ r.arada \subseteq YSatir
                          /\ \E o \in yOnay : o.no = r.s.no
                          /\ \A x \in YSatir \ r.arada : r.kopya[x] = yVeri[x]
  BY <1>0, YAdimdaki, YKayitAlanlari DEF YIslem, YedekInv, YKayitDogru
<1>2. yBugun' \in YGunler /\ ySasan' \subseteq YGunler /\ ySasan \subseteq ySasan'
  BY <1>0 DEF YTipler
<1>3. PICK G \in SUBSET YSatir : G = {x \in YSatir : yVeri[x] # 0}
  OBVIOUS
<1>4. PICK k : k = [adim |-> "uygula", s |-> r.s, kopya |-> r.kopya, arada |-> r.arada, gorulen |-> G, degisen |-> {}]
  OBVIOUS
<1>5. /\ k \in YKayit /\ k.adim = "uygula" /\ k.s = r.s /\ k.kopya = r.kopya /\ k.arada = r.arada
      /\ k.gorulen = G
  BY <1>1, <1>4 DEF YKayit
<1>6. YIlerlet(a, k)
  BY <1>1, <1>3, <1>4 DEF YIslem
<1>7. YKayitDogru(k)
  BY <1>1, <1>5 DEF YKayitDogru
<1> QED BY <1>0, <1>1, <1>2, <1>5, <1>6, <1>7, YAdimKorur

LEMMA YDuserKorur ==
  ASSUME YedekInv, NEW a \in YIstek, YDuser(a)
  PROVE  YedekInv'
<1>0. YTipler /\ UNCHANGED <<yVeri, yBugun, yDepo, yOnay, yGeri, yKayip>>
  BY DEF YedekInv, YDuser
<1>1. PICK k \in {Bitti} : YIlerlet(a, k) /\ ~YSurer(k) /\ k.adim # "manifest"
  BY YSurenKayit DEF YDuser, Bitti
<1>2. ySasan' = IF yIstek[a].adim = "manifest" THEN ySasan \cup {yIstek[a].d} ELSE ySasan
  BY DEF YDuser
<1>3. yIstek[a].adim = "manifest" => yIstek[a].d \in YGunler
  BY <1>0, YAdimdaki, YKayitAlanlari
<1>4. yBugun' \in YGunler /\ ySasan' \subseteq YGunler /\ ySasan \subseteq ySasan'
      /\ (yIstek[a].adim = "manifest" => yIstek[a].d \in ySasan')
  BY <1>0, <1>2, <1>3 DEF YTipler
<1> QED BY <1>0, <1>1, <1>4, YAdimKorur
(* The uploads.                                                            *)
LEMMA YAnlikYukleKorur ==
  ASSUME YedekInv, NEW a \in YIstek, YAnlikYukle(a)
  PROVE  YedekInv'
<1>0. YTipler
  BY DEF YedekInv
<1>1. PICK r \in YKayit : r = yIstek[a] /\ r.adim = "anlik" /\ r.d \in YGunler /\ r.veri \in YVeriTipi
  BY <1>0, YAdimdaki, YKayitAlanlari DEF YAnlikYukle
<1>2. PICK k : k = [r EXCEPT !.adim = "manifest"]
  OBVIOUS
<1>3. k \in YKayit /\ k.adim = "manifest" /\ k.d = r.d
  BY <1>1, <1>2 DEF YKayit
<1>4. PICK s : s = [no |-> a, veri |-> r.veri]
  OBVIOUS
<1>5. s \in YAnlik /\ s.no = a /\ s # Yok
  BY <1>1, <1>4, YedekVarsayimi DEF YAnlik
<1>6. /\ YIlerlet(a, k) /\ yDepo' = [yDepo EXCEPT ![r.d].s = s]
      /\ ySasan' = IF YYuklenen(r.d) # {} THEN ySasan \cup {r.d} ELSE ySasan
      /\ UNCHANGED <<yVeri, yBugun, yOnay, yGeri, yKayip>>
  BY <1>1, <1>2, <1>4 DEF YAnlikYukle
<1>7. /\ yIstek' \in [YIstek -> YKayit \cup {Bos, Bitti}]
      /\ yIstek'[a] = k
      /\ \A b \in YIstek \ {a} : yIstek'[b] = yIstek[b]
  BY <1>0, <1>3, <1>6, YIlerletEtkisi
<1>8. /\ yDepo' \in [YGunler -> [s : YAnlik \cup {Yok}, m : YIstek \cup {Yok}]]
      /\ yDepo'[r.d].s = s /\ yDepo'[r.d].m = yDepo[r.d].m
      /\ \A d \in YGunler \ {r.d} : yDepo'[d] = yDepo[d]
  BY <1>0, <1>1, <1>5, <1>6 DEF YTipler
<1>9. YTipler'
  BY <1>0, <1>1, <1>6, <1>7, <1>8 DEF YTipler
<1>10. /\ YYuklenen(r.d)' = YYuklenen(r.d) \cup {a}
       /\ \A d \in YGunler \ {r.d} : YYuklenen(d)' = YYuklenen(d)
  BY <1>1, <1>3, <1>7 DEF YYuklenen
<1>11. ASSUME NEW d \in YGunler PROVE YDepoDogru(d)'
  <2>1. YDepoDogru(d) /\ (YAsan(d)' <=> YAsan(d))
    BY <1>6 DEF YedekInv, YAsan
  <2>2. CASE d # r.d
    <3>1. yDepo'[d] = yDepo[d] /\ YYuklenen(d)' = YYuklenen(d) /\ (d \in ySasan' <=> d \in ySasan)
      BY <1>6, <1>8, <1>10, <2>2
    <3> QED BY <1>6, <2>1, <3>1 DEF YDepoDogru
  <2>3. CASE d = r.d
    <3>1. yDepo'[d].m # Yok => \E o \in yOnay' : o.no = yDepo'[d].m
      BY <1>6, <1>8, <2>1, <2>3 DEF YDepoDogru
    <3>2. CASE YYuklenen(r.d) = {}
      <4>1. YYuklenen(d)' = {a}
        BY <1>10, <2>3, <3>2
      <4> QED BY <1>5, <1>8, <2>3, <3>1, <4>1 DEF YDepoDogru
    <3>3. CASE YYuklenen(r.d) # {}
      BY <1>6, <2>3, <3>1, <3>3 DEF YDepoDogru
    <3> QED BY <3>2, <3>3
  <2> QED BY <2>2, <2>3
<1>12. YKayitDogru(k)'
  BY <1>3 DEF YKayitDogru
<1>13. ASSUME NEW b \in YIstek, YSurer(yIstek[b])' PROVE YKayitDogru(yIstek[b])'
  BY <1>6, <1>7, <1>12, <1>13 DEF YedekInv, YKayitDogru, YSurer
<1> QED BY <1>6, <1>9, <1>11, <1>13 DEF YedekInv

LEMMA YManifestYukleKorur ==
  ASSUME YedekInv, NEW a \in YIstek, YManifestYukle(a)
  PROVE  YedekInv'
<1>0. YTipler
  BY DEF YedekInv
<1>1. PICK r \in YKayit : r = yIstek[a] /\ r.adim = "manifest" /\ r.d \in YGunler
  BY <1>0, YAdimdaki, YKayitAlanlari DEF YManifestYukle
<1>2. PICK k : k = [adim |-> "sakla", d |-> r.d]
  OBVIOUS
<1>3. k \in YKayit /\ k.adim = "sakla" /\ k.d = r.d
  BY <1>1, <1>2 DEF YKayit
<1>4. PICK p : p = [no |-> a, d |-> r.d]
  OBVIOUS
<1>5. p \in YOnayTipi /\ p.no = a /\ p.d = r.d /\ a # Yok
  BY <1>1, <1>4, YedekVarsayimi DEF YOnayTipi
<1>6. /\ YIlerlet(a, k) /\ yDepo' = [yDepo EXCEPT ![r.d].m = a] /\ yOnay' = yOnay \cup {p}
      /\ UNCHANGED <<yVeri, yBugun, ySasan, yGeri, yKayip>>
  BY <1>1, <1>2, <1>4 DEF YManifestYukle
<1>7. /\ yIstek' \in [YIstek -> YKayit \cup {Bos, Bitti}]
      /\ yIstek'[a] = k
      /\ \A b \in YIstek \ {a} : yIstek'[b] = yIstek[b]
  BY <1>0, <1>3, <1>6, YIlerletEtkisi
<1>8. /\ yDepo' \in [YGunler -> [s : YAnlik \cup {Yok}, m : YIstek \cup {Yok}]]
      /\ yDepo'[r.d].s = yDepo[r.d].s /\ yDepo'[r.d].m = a
      /\ \A d \in YGunler \ {r.d} : yDepo'[d] = yDepo[d]
  BY <1>0, <1>1, <1>5, <1>6 DEF YTipler
<1>9. YTipler'
  BY <1>0, <1>5, <1>6, <1>7, <1>8 DEF YTipler
<1>10. /\ a \in YYuklenen(r.d) /\ YYuklenen(r.d)' = YYuklenen(r.d) \ {a}
       /\ \A d \in YGunler \ {r.d} : YYuklenen(d)' = YYuklenen(d)
  BY <1>1, <1>3, <1>7 DEF YYuklenen
<1>11. ASSUME NEW d \in YGunler PROVE YDepoDogru(d)'
  <2>1. YDepoDogru(d) /\ (YAsan(d) => YAsan(d)')
    BY <1>6 DEF YedekInv, YAsan
  <2>2. CASE d # r.d
    <3>1. yDepo'[d] = yDepo[d] /\ YYuklenen(d)' = YYuklenen(d)
      BY <1>8, <1>10, <2>2
    <3> QED BY <1>5, <1>6, <2>1, <2>2, <3>1 DEF YDepoDogru
  <2>3. CASE d = r.d
    <3>1. \E o \in yOnay' : o.no = yDepo'[d].m
      BY <1>5, <1>6, <1>8, <2>3
    <3>2. ASSUME d \notin ySasan'
          PROVE  /\ yDepo[d].s # Yok => yDepo[d].s.no = a
                 /\ yDepo[d].s = Yok => YAsan(d)'
                 /\ YYuklenen(d)' = {}
      BY <1>6, <1>10, <2>1, <2>3, <3>2 DEF YDepoDogru
    <3> QED BY <1>8, <2>3, <3>1, <3>2 DEF YDepoDogru
  <2> QED BY <2>2, <2>3
<1>12. YKayitDogru(k)'
  BY <1>3, <1>5, <1>6 DEF YKayitDogru
<1>13. ASSUME NEW b \in YIstek, YSurer(yIstek[b])' PROVE YKayitDogru(yIstek[b])'
  <2>1. CASE b = a
    BY <1>7, <1>12, <2>1
  <2>2. CASE b # a
    <3>1. yIstek'[b] = yIstek[b] /\ YKayitDogru(yIstek[b])
      BY <1>7, <1>13, <2>2 DEF YedekInv, YSurer
    <3> QED BY <1>6, <3>1 DEF YKayitDogru
  <2> QED BY <2>1, <2>2
<1> QED BY <1>6, <1>9, <1>11, <1>13 DEF YedekInv

(* Retention: what is removed is older than a day that was completed.      *)
LEMMA YEskileriSilKorur ==
  ASSUME YedekInv, NEW a \in YIstek, YEskileriSil(a)
  PROVE  YedekInv'
<1>0. YTipler
  BY DEF YedekInv
<1>1. PICK r \in YKayit : r = yIstek[a] /\ r.adim = "sakla" /\ r.d \in YGunler /\ \E o \in yOnay : o.d = r.d
  BY <1>0, YAdimdaki, YKayitAlanlari DEF YEskileriSil, YedekInv, YKayitDogru
<1>2. PICK k \in {Bitti} : YIlerlet(a, k) /\ ~YSurer(k) /\ k.adim # "manifest"
  BY YSurenKayit DEF YEskileriSil, Bitti
<1>3. /\ yIstek' \in [YIstek -> YKayit \cup {Bos, Bitti}]
      /\ yIstek'[a] = k
      /\ \A b \in YIstek \ {a} : yIstek'[b] = yIstek[b]
  BY <1>0, <1>2, YIlerletEtkisi
<1>4. PICK bos : bos = [s |-> Yok, m |-> Yok]
  OBVIOUS
<1>4a. bos \in [s : YAnlik \cup {Yok}, m : YIstek \cup {Yok}] /\ bos.s = Yok /\ bos.m = Yok
  BY <1>4
<1>5. /\ yDepo' = [d \in YGunler |-> IF YSilinecek(d, r.d) THEN bos ELSE yDepo[d]]
      /\ UNCHANGED <<yVeri, yBugun, ySasan, yOnay, yGeri, yKayip>>
  BY <1>1, <1>4 DEF YEskileriSil
<1>6. yDepo' \in [YGunler -> [s : YAnlik \cup {Yok}, m : YIstek \cup {Yok}]]
  BY <1>0, <1>4a, <1>5 DEF YTipler
<1>7. YTipler'
  BY <1>0, <1>3, <1>5, <1>6 DEF YTipler
<1>8. \A d \in YGunler : YYuklenen(d)' = YYuklenen(d)
  BY <1>1, <1>2, <1>3 DEF YYuklenen
<1>9. ASSUME NEW d \in YGunler PROVE YDepoDogru(d)'
  <2>1. YDepoDogru(d) /\ (YAsan(d)' <=> YAsan(d)) /\ YYuklenen(d)' = YYuklenen(d)
    BY <1>5, <1>8 DEF YedekInv, YAsan
  <2>2. CASE ~YSilinecek(d, r.d)
    <3>1. yDepo'[d] = yDepo[d]
      BY <1>5, <2>2
    <3> QED BY <1>5, <2>1, <3>1 DEF YDepoDogru
  <2>3. CASE YSilinecek(d, r.d)
    <3>1. yDepo'[d].s = Yok /\ yDepo'[d].m = Yok
      BY <1>4a, <1>5, <2>3
    <3>2. d < r.d
      BY <1>1, <2>3, YedekVarsayimi DEF YSilinecek, YGunler
    <3>3. YAsan(d)'
      BY <1>1, <1>5, <3>2 DEF YAsan
    <3>4. d \notin ySasan' => \A e, f \in YYuklenen(d)' : e = f
      BY <1>5, <2>1 DEF YDepoDogru
    <3> QED BY <3>1, <3>3, <3>4 DEF YDepoDogru
  <2> QED BY <2>2, <2>3
<1>10. ASSUME NEW b \in YIstek, YSurer(yIstek[b])' PROVE YKayitDogru(yIstek[b])'
  BY <1>2, <1>3, <1>5, <1>10 DEF YedekInv, YKayitDogru, YSurer
<1> QED BY <1>5, <1>7, <1>9, <1>10 DEF YedekInv

LEMMA YGunGecerKorur ==
  ASSUME YedekInv, YGunGecer
  PROVE  YedekInv'
<1>0. UNCHANGED <<yVeri, yDepo, yIstek, ySasan, yOnay, yGeri, yKayip>> /\ yBugun' \in YGunler
  BY DEF YGunGecer
<1>1. YTipler'
  BY <1>0 DEF YedekInv, YTipler
<1>2. \A d \in YGunler : YDepoDogru(d)'
  <2>1. \A d \in YGunler \ ySasan' : YYuklenen(d)' = YYuklenen(d)
    BY <1>0 DEF YYuklenen
  <2> QED BY <1>0, <2>1, YDepoKorur
<1>3. ASSUME NEW b \in YIstek, YSurer(yIstek[b])' PROVE YKayitDogru(yIstek[b])'
  BY <1>0, <1>3 DEF YedekInv, YKayitDogru, YSurer
<1> QED BY <1>0, <1>1, <1>2, <1>3 DEF YedekInv

(* Rows change: the restores in flight learn of it.                        *)
LEMMA YDegistiEtkisi ==
  ASSUME YTipler, NEW S \in SUBSET YSatir, NEW b \in YIstek, NEW y, y = YDegisti(S)[b],
         \A x \in YSatir \ S : yVeri'[x] = yVeri[x], UNCHANGED yOnay
  PROVE  /\ y \in YKayit \cup {Bos, Bitti} /\ (YSurer(y) <=> YSurer(yIstek[b]))
         /\ \A d : (y.adim = "manifest" /\ y.d = d) <=> (yIstek[b].adim = "manifest" /\ yIstek[b].d = d)
         /\ YSurer(y) /\ YKayitDogru(yIstek[b]) => YKayitDogru(y)'
<1>1. y = CASE yIstek[b].adim = "kopya"  -> [yIstek[b] EXCEPT !.arada = @ \cup S]
            [] yIstek[b].adim = "uygula" -> [yIstek[b] EXCEPT !.degisen = @ \cup (S \cap yIstek[b].gorulen)]
            [] OTHER -> yIstek[b]
  BY DEF YDegisti
<1>2. CASE yIstek[b].adim = "kopya"
  <2>1. PICK r \in YKayit : /\ r = yIstek[b] /\ r.adim = "kopya" /\ r.arada \subseteq YSatir
    BY <1>2, YAdimdaki, YKayitAlanlari
  <2>2. y = [r EXCEPT !.arada = r.arada \cup S]
    BY <1>1, <1>2, <2>1
  <2>3. y \in YKayit /\ y.adim = "kopya" /\ y.arada = r.arada \cup S /\ y.s = r.s /\ y.kopya = r.kopya
    BY <2>1, <2>2 DEF YKayit
  <2>4. YKayitDogru(r) => YKayitDogru(y)'
    BY <2>1, <2>3 DEF YKayitDogru
  <2> QED BY <2>1, <2>3, <2>4, YSurenKayit
<1>3. CASE yIstek[b].adim = "uygula"
  <2>1. PICK r \in YKayit : /\ r = yIstek[b] /\ r.adim = "uygula" /\ r.gorulen \subseteq YSatir /\ r.degisen \subseteq YSatir
    BY <1>3, YAdimdaki, YKayitAlanlari
  <2>2. y = [r EXCEPT !.degisen = r.degisen \cup (S \cap r.gorulen)]
    BY <1>1, <1>3, <2>1
  <2>3. /\ y \in YKayit /\ y.adim = "uygula" /\ y.arada = r.arada /\ y.s = r.s /\ y.kopya = r.kopya
        /\ y.gorulen = r.gorulen /\ y.degisen = r.degisen \cup (S \cap r.gorulen)
    BY <2>1, <2>2 DEF YKayit
  <2>4. YKayitDogru(r) => YKayitDogru(y)'
    BY <2>1, <2>3 DEF YKayitDogru
  <2> QED BY <2>1, <2>3, <2>4, YSurenKayit
<1>4. CASE yIstek[b].adim \notin {"kopya", "uygula"}
  <2>1. y = yIstek[b]
    BY <1>1, <1>4
  <2>2. YKayitDogru(yIstek[b]) => YKayitDogru(y)'
    BY <1>4, <2>1 DEF YKayitDogru
  <2> QED BY <2>1, <2>2 DEF YTipler
<1> QED BY <1>2, <1>3, <1>4
LEMMA YKullanKorur ==
  ASSUME YedekInv, NEW q \in YSatir, YKullan(q)
  PROVE  YedekInv'
<1>0. YTipler /\ UNCHANGED <<yBugun, yDepo, ySasan, yOnay, yGeri, yKayip>>
  BY DEF YedekInv, YKullan
<1>1. PICK S \in SUBSET YSatir : S = {q}
  OBVIOUS
<1>2. yIstek' = YDegisti(S)
  BY <1>1 DEF YKullan
<1>3. yVeri' \in YVeriTipi /\ \A x \in YSatir \ S : yVeri'[x] = yVeri[x]
  <2>0. PICK W : /\ W = (CASE yVeri[q] = 0 -> {1} [] yVeri[q] = 1 -> {0, 2} [] OTHER -> {0})
                 /\ \E v \in W : yVeri' = [yVeri EXCEPT ![q] = v]
    BY DEF YKullan
  <2>1a. W \subseteq 0..2
    BY <2>0
  <2>1. PICK v \in 0..2 : yVeri' = [yVeri EXCEPT ![q] = v]
    BY <2>0, <2>1a
  <2> QED BY <1>0, <1>1, <2>1 DEF YTipler, YVeriTipi
<1>4. ASSUME NEW b \in YIstek
      PROVE  /\ yIstek'[b] \in YKayit \cup {Bos, Bitti}
             /\ (YSurer(yIstek'[b]) <=> YSurer(yIstek[b]))
             /\ \A d : (yIstek'[b].adim = "manifest" /\ yIstek'[b].d = d) <=> (yIstek[b].adim = "manifest" /\ yIstek[b].d = d)
             /\ YSurer(yIstek'[b]) => YKayitDogru(yIstek[b])'
  <2>1. PICK y : y = YDegisti(S)[b]
    OBVIOUS
  <2>2. y = yIstek'[b]
    BY <1>2, <2>1
  <2>3. /\ y \in YKayit \cup {Bos, Bitti} /\ (YSurer(y) <=> YSurer(yIstek[b]))
        /\ \A d : (y.adim = "manifest" /\ y.d = d) <=> (yIstek[b].adim = "manifest" /\ yIstek[b].d = d)
        /\ YSurer(y) /\ YKayitDogru(yIstek[b]) => YKayitDogru(y)'
    BY <1>0, <1>3, <2>1, YDegistiEtkisi
  <2>4. YSurer(yIstek[b]) => YKayitDogru(yIstek[b])
    BY DEF YedekInv
  <2>5. YSurer(y) => YKayitDogru(y)'
    BY <2>3, <2>4
  <2>6. YKayitDogru(y)' => YKayitDogru(yIstek[b])'
    BY <2>2 DEF YKayitDogru
  <2> QED BY <2>2, <2>3, <2>5, <2>6
<1>5. yIstek' \in [YIstek -> YKayit \cup {Bos, Bitti}]
  <2>1. yIstek' = [b \in YIstek |-> yIstek'[b]]
    BY <1>2 DEF YDegisti
  <2> QED BY <1>4, <2>1
<1>6. YTipler'
  BY <1>0, <1>3, <1>5 DEF YTipler
<1>7. \A d \in YGunler \ ySasan' : YYuklenen(d)' = YYuklenen(d)
  BY <1>4 DEF YYuklenen
<1>8. \A d \in YGunler : YDepoDogru(d)'
  BY <1>0, <1>7, YDepoKorur
<1>9. ASSUME NEW b \in YIstek, YSurer(yIstek[b])' PROVE YKayitDogru(yIstek[b])'
  BY <1>4, <1>9 DEF YSurer
<1> QED BY <1>0, <1>6, <1>8, <1>9 DEF YedekInv
(* A restore replaces the rows.                                            *)
LEMMA YUygulaKorur ==
  ASSUME YedekInv, NEW a \in YIstek, YUygula(a)
  PROVE  YedekInv'
<1>0. YTipler /\ UNCHANGED <<yBugun, yDepo, ySasan, yOnay>>
  BY DEF YedekInv, YUygula
<1>1. PICK r \in YKayit :
        /\ r = yIstek[a] /\ r.adim = "uygula" /\ r.s \in YAnlik /\ r.kopya \in YVeriTipi
        /\ r.arada \subseteq YSatir /\ r.gorulen \subseteq YSatir /\ r.degisen \subseteq YSatir
        /\ \E o \in yOnay : o.no = r.s.no
        /\ \A x \in r.gorulen \ (r.arada \cup r.degisen) : r.kopya[x] = yVeri[x]
  BY <1>0, YAdimdaki, YKayitAlanlari DEF YUygula, YedekInv, YKayitDogru
<1>2. CASE YCakisir(a)
  <2>1. PICK k \in {Bitti} : YIlerlet(a, k) /\ ~YSurer(k) /\ k.adim # "manifest"
    BY <1>2, YSurenKayit DEF YUygula, Bitti
  <2>2. UNCHANGED <<yVeri, yGeri, yKayip>>
    BY <1>2 DEF YUygula
  <2>3. yBugun' \in YGunler /\ ySasan' \subseteq YGunler /\ ySasan \subseteq ySasan'
    BY <1>0 DEF YTipler
  <2> QED BY <1>0, <1>1, <2>1, <2>2, <2>3, YAdimKorur
<1>3. CASE ~YCakisir(a)
  <2>1. PICK yeni : yeni = [x \in YSatir |-> IF x \in r.gorulen \/ r.s.veri[x] # 0 THEN r.s.veri[x] ELSE yVeri[x]]
    OBVIOUS
  <2>2. PICK D \in SUBSET YSatir : D = {x \in YSatir : yeni[x] # yVeri[x]}
    OBVIOUS
  <2>3. /\ yVeri' = yeni /\ yGeri' = yGeri \cup {r.s.no}
        /\ yKayip' = yKayip \cup {x \in D \ r.arada : yVeri[x] # 0 /\ r.kopya[x] # yVeri[x]}
        /\ yIstek' = [b \in YIstek |-> IF b = a \/ yIstek[b].adim = "uygula" THEN Bitti ELSE YDegisti(D)[b]]
    BY <1>1, <1>3, <2>1, <2>2 DEF YUygula
  <2>4. yeni \in YVeriTipi /\ \A x \in YSatir : x \notin r.gorulen /\ r.s.veri[x] = 0 => yeni[x] = yVeri[x]
    <3>1. r.s.veri \in YVeriTipi
      BY <1>1 DEF YAnlik
    <3> QED BY <1>0, <1>1, <2>1, <3>1 DEF YTipler, YVeriTipi
  <2>5. r.degisen = {} /\ \A x \in YSatir \ r.gorulen : yVeri[x] = 0 \/ r.s.veri[x] = 0
    BY <1>1, <1>3 DEF YCakisir
  <2>6. yKayip' = {}
    <3>1. ASSUME NEW x \in D \ r.arada, yVeri[x] # 0 PROVE r.kopya[x] = yVeri[x]
      <4>1. x \in r.gorulen
        BY <2>2, <2>4, <2>5, <3>1
      <4> QED BY <1>1, <2>5, <3>1, <4>1
    <3>2. {x \in D \ r.arada : yVeri[x] # 0 /\ r.kopya[x] # yVeri[x]} = {}
      BY <3>1
    <3> QED BY <2>3, <3>2 DEF YedekInv
  <2>7. \A x \in YSatir \ D : yVeri'[x] = yVeri[x]
    BY <2>2, <2>3
  <2>8. ASSUME NEW b \in YIstek, b = a \/ yIstek[b].adim = "uygula"
        PROVE  /\ yIstek'[b] = Bitti /\ yIstek'[b].adim # "manifest" /\ ~YSurer(yIstek'[b])
               /\ yIstek[b].adim # "manifest"
    <3>1. yIstek'[b] = Bitti
      BY <2>3, <2>8
    <3> QED BY <1>1, <2>8, <3>1, YSurenKayit DEF Bitti
  <2>9. ASSUME NEW b \in YIstek, b # a, yIstek[b].adim # "uygula"
        PROVE  /\ yIstek'[b] \in YKayit \cup {Bos, Bitti}
               /\ \A d : (yIstek'[b].adim = "manifest" /\ yIstek'[b].d = d) <=> (yIstek[b].adim = "manifest" /\ yIstek[b].d = d)
               /\ YSurer(yIstek'[b]) => YKayitDogru(yIstek[b])'
    <3>1. PICK y : y = YDegisti(D)[b]
      OBVIOUS
    <3>2. y = yIstek'[b]
      BY <2>3, <2>9, <3>1
    <3>3. /\ y \in YKayit \cup {Bos, Bitti} /\ (YSurer(y) <=> YSurer(yIstek[b]))
          /\ \A d : (y.adim = "manifest" /\ y.d = d) <=> (yIstek[b].adim = "manifest" /\ yIstek[b].d = d)
          /\ YSurer(y) /\ YKayitDogru(yIstek[b]) => YKayitDogru(y)'
      BY <1>0, <2>7, <3>1, YDegistiEtkisi
    <3>4. YSurer(yIstek[b]) => YKayitDogru(yIstek[b])
      BY DEF YedekInv
    <3>5. YSurer(y) => YKayitDogru(y)'
      BY <3>3, <3>4
    <3>6. YKayitDogru(y)' => YKayitDogru(yIstek[b])'
      BY <3>2 DEF YKayitDogru
    <3> QED BY <3>2, <3>3, <3>5, <3>6
  <2>10. yIstek' \in [YIstek -> YKayit \cup {Bos, Bitti}]
    <3>1. yIstek' = [b \in YIstek |-> yIstek'[b]]
      BY <2>3
    <3>2. \A b \in YIstek : yIstek'[b] \in YKayit \cup {Bos, Bitti}
      BY <2>8, <2>9
    <3> QED BY <3>1, <3>2
  <2>11. r.s.no \in YIstek /\ yGeri' \subseteq {o.no : o \in yOnay'} /\ yGeri' \subseteq YIstek
    <3>1. r.s.no \in YIstek
      BY <1>1 DEF YAnlik
    <3>2. r.s.no \in {o.no : o \in yOnay}
      BY <1>1
    <3> QED BY <1>0, <2>3, <3>1, <3>2 DEF YedekInv, YTipler
  <2>12. YTipler'
    BY <1>0, <2>3, <2>4, <2>10, <2>11 DEF YTipler
  <2>13. \A d \in YGunler \ ySasan' : YYuklenen(d)' = YYuklenen(d)
    BY <2>8, <2>9 DEF YYuklenen
  <2>14. \A d \in YGunler : YDepoDogru(d)'
    BY <1>0, <2>13, YDepoKorur
  <2>15. ASSUME NEW b \in YIstek, YSurer(yIstek[b])' PROVE YKayitDogru(yIstek[b])'
    BY <2>8, <2>9, <2>15 DEF YSurer
  <2> QED BY <2>6, <2>11, <2>12, <2>14, <2>15 DEF YedekInv
<1> QED BY <1>2, <1>3

\* Backups: of a clean day the snapshot and the manifest belong together or
\* the manifest is still to come, the newest completed day is kept, and a
\* restore knows of every row that differs from its safety copy
\* (backupRun.ts, backupRetention.ts, restoreService.ts, restoreApply.ts).
THEOREM YedekDegismez == YedekSpec => []YedekInv
<1>1. ASSUME YedekInit PROVE YedekInv
  <2>1. YTipler
    BY <1>1, YedekVarsayimi DEF YedekInit, YTipler, YVeriTipi, YGunler
  <2>2. \A a \in YIstek : ~YSurer(yIstek[a]) /\ yIstek[a].adim = "bos"
    BY <1>1, YSurenKayit DEF YedekInit, Bos
  <2>3. ASSUME NEW d \in YGunler PROVE YDepoDogru(d)
    <3>1. yDepo[d].s = Yok /\ yDepo[d].m = Yok
      BY <1>1 DEF YedekInit
    <3>2. YYuklenen(d) = {}
      BY <2>2 DEF YYuklenen
    <3>3. yOnay = {}
      BY <1>1 DEF YedekInit
    <3> QED BY <3>1, <3>2, <3>3 DEF YDepoDogru
  <2> QED BY <1>1, <2>1, <2>2, <2>3 DEF YedekInit, YedekInv
<1>2. ASSUME YedekInv, [YedekNext]_yedekVars PROVE YedekInv'
  <2>1. CASE YGunGecer
    BY <1>2, <2>1, YGunGecerKorur
  <2>2. CASE \E q \in YSatir : YKullan(q)
    BY <1>2, <2>2, YKullanKorur
  <2>3. ASSUME NEW a \in YIstek,
               \/ YDisaAktar(a) \/ YAnlikYukle(a) \/ YManifestYukle(a) \/ YEskileriSil(a)
               \/ YGeriOku(a) \/ YDogrula(a) \/ YGuvenliKopya(a) \/ YIslem(a) \/ YUygula(a) \/ YDuser(a)
        PROVE  YedekInv'
    BY <1>2, <2>3, YDisaAktarKorur, YAnlikYukleKorur, YManifestYukleKorur, YEskileriSilKorur, YGeriOkuKorur,
       YDogrulaKorur, YGuvenliKopyaKorur, YIslemKorur, YUygulaKorur, YDuserKorur
  <2>4. CASE UNCHANGED yedekVars
    <3>1. YTipler'
      BY <1>2, <2>4 DEF YedekInv, YTipler, yedekVars
    <3>2. \A d \in YGunler : YDepoDogru(d)'
      <4>1. \A d \in YGunler \ ySasan' : YYuklenen(d)' = YYuklenen(d)
        BY <2>4 DEF YYuklenen, yedekVars
      <4>2. UNCHANGED <<yDepo, yOnay>> /\ ySasan \subseteq ySasan'
        BY <2>4 DEF yedekVars
      <4> QED BY <1>2, <4>1, <4>2, YDepoKorur
    <3>3. ASSUME NEW b \in YIstek, YSurer(yIstek[b])' PROVE YKayitDogru(yIstek[b])'
      BY <1>2, <2>4, <3>3 DEF YedekInv, YKayitDogru, YSurer, yedekVars
    <3> QED BY <1>2, <2>4, <3>1, <3>2, <3>3 DEF YedekInv, yedekVars
  <2> QED BY <1>2, <2>1, <2>2, <2>3, <2>4 DEF YedekNext
<1> QED BY <1>1, <1>2, PTL DEF YedekSpec

(* The newest of some days.                                                *)
LEMMA YEnYeni ==
  ASSUME NEW T \in SUBSET YGunler, T # {}
  PROVE  Max(T) \in T /\ \A d \in T : Max(T) >= d
<1> DEFINE U == {YGun - d : d \in T}
           R == OpToRel(<, Nat)
<1>0. \A d \in T : d \in Int /\ YGun - d \in Nat
  BY YedekVarsayimi DEF YGunler
<1>1. T \subseteq Int /\ U \subseteq Nat /\ U # {}
  BY <1>0
<1>2. IsWellFoundedOn(R, Nat)
  BY NatLessThanWellFounded
<1>3. \A x, y \in Nat : y < x => <<y, x>> \in R
  BY DEF OpToRel
<1> HIDE DEF R
<1>4. PICK t \in U : \A u \in U : ~(<<u, t>> \in R)
  <2> HIDE DEF U
  <2> QED BY <1>1, <1>2, WFMin
<1>5. PICK x \in T : t = YGun - x
  BY <1>4
<1>6. ASSUME NEW d \in T PROVE x >= d
  <2>1. YGun - d \in U /\ YGun - d \in Nat /\ t \in Nat
    BY <1>0, <1>1
  <2>2. ~(YGun - d < t)
    BY <2>1, <1>3, <1>4
  <2> QED BY <2>1, <2>2, <1>1, <1>5, YedekVarsayimi
<1> QED BY <1>5, <1>6 DEF Max

\* A completed day can be restored unless its uploads were disturbed, and a
\* restore loses nothing the safety copy could have held.
THEOREM YedekTutarlidir == YedekSpec => []YedekTutarli
<1>1. ASSUME YedekInv PROVE YedekTutarli
  <2>1. ASSUME NEW d \in YGunler \ ySasan, YYuklenen(d) = {}, yDepo[d].s # Yok, yDepo[d].m # Yok
        PROVE  YSaglam(d)
    BY <1>1, <2>1 DEF YedekInv, YDepoDogru, YSaglam
  <2>2. ASSUME yOnay # {}, NEW d, d = Max({o.d : o \in yOnay})
        PROVE  YSaglam(d) \/ d \in ySasan \/ YYuklenen(d) # {}
    <3>1. PICK T \in SUBSET YGunler : T = {o.d : o \in yOnay}
      <4>1. \A o \in yOnay : o.d \in YGunler
        BY <1>1 DEF YedekInv, YTipler, YOnayTipi
      <4> QED BY <4>1
    <3>2. T # {}
      BY <2>2, <3>1
    <3>3. d \in T /\ \A e \in T : d >= e
      BY <2>2, <3>1, <3>2, YEnYeni
    <3>4. PICK o \in yOnay : o.d = d
      BY <3>1, <3>3
    <3>5. ~YAsan(d)
      <4>1. ASSUME NEW p \in yOnay PROVE ~(p.d > d)
        <5>1. p.d \in T
          BY <3>1
        <5>2. T \subseteq Int
          BY YedekVarsayimi DEF YGunler
        <5>3. PICK e \in T : e = p.d
          BY <5>1
        <5>4. e \in Int /\ d \in Int /\ d >= e
          BY <3>3, <5>2
        <5>5. ~(e > d)
          BY <5>4
        <5> QED BY <5>3, <5>5
      <4> QED BY <4>1 DEF YAsan
    <3>6. YDepoDogru(d)
      BY <1>1, <3>3 DEF YedekInv
    <3> QED BY <3>4, <3>5, <3>6 DEF YDepoDogru, YSaglam
  <2> QED BY <1>1, <2>1, <2>2 DEF YedekInv, YedekTutarli
<1> QED BY <1>1, YedekDegismez, PTL

\* Type correctness of backups.
THEOREM YedekTipiKorunur == YedekSpec => []YedekTypeOK
<1>1. ASSUME YedekInv PROVE YedekTypeOK
  <2>1. YTipler /\ yKayip = {}
    BY <1>1 DEF YedekInv
  <2>2. ASSUME NEW d \in YGunler
        PROVE (yDepo[d].s = Yok \/ yDepo[d].s \in YAnlik) /\ yDepo[d].m \in YIstek \cup {Yok}
    BY <2>1 DEF YTipler
  <2> QED BY <2>1, <2>2 DEF YTipler, YedekTypeOK, YOnayTipi
<1> QED BY <1>1, YedekDegismez, PTL

-----------------------------------------------------------------------------
(* The import *)

\* A request with a batch.
DIslemKaydi(r) ==
  /\ r.adim \in {"islem", "yaz", "hata"} /\ r.dosya \in Dosyalar /\ r.parti \in DParti /\ r.bayat \in BOOLEAN
  /\ r = [adim |-> r.adim, dosya |-> r.dosya, parti |-> r.parti, dolu |-> r.dolu, ayar |-> r.ayar, bayat |-> r.bayat]

DPartiSatiri == [dosya : Dosyalar, durum : {"PREVIEWED", "COMMITTED", "FAILED"}]

DTipler ==
  /\ dParti \in [DParti -> DPartiSatiri \cup {Yok}]
  /\ dAyar \in {Yok, "buro", "yedek"} /\ dGirildi \in BOOLEAN
  /\ dIstek = [a \in DIstek |-> dIstek[a]]
  /\ \A a \in DIstek :
       dIstek[a] \in {Bos, Bitti} \cup [adim : {"onizle"}, dosya : Dosyalar] \/ DIslemKaydi(dIstek[a])

\* The rows of an import have its batch; a number that was made says its table.
DKayitlar ==
  \A k \in dKayit :
    /\ k.parti # Yok => k.parti \in DParti /\ dParti[k.parti] # Yok
    /\ k.no = Yok \/ k.no.parti = Yok \/ k.no.tablo = k.tablo

\* What a request nobody overtook has read of its batch and its file is still so.
DDogru(r) ==
  /\ dParti[r.parti] # Yok /\ dParti[r.parti].dosya = r.dosya
  /\ ~r.bayat => dParti[r.parti].durum = "PREVIEWED" /\ DTekrarsiz(r.dosya)
DOkunanDogru == \A a \in DIstek : DIslemKaydi(dIstek[a]) => DDogru(dIstek[a])

DGelen(p) == {k \in dKayit : k.parti = p}
DBiten(f) == {p \in DParti : dParti[p] = [dosya |-> f, durum |-> "COMMITTED"]}
DPartiDogru(p, f) ==
  /\ DGelen(p) = {} <=> dParti[p].durum # "COMMITTED" \/ DAktarilan(f) = {}
  /\ DGelen(p) # {} => /\ {k.satir : k \in DGelen(p)} = DAktarilan(f)
                       /\ Cardinality(DGelen(p)) = Cardinality(DAktarilan(f))
DDosyaDogru(f) ==
  /\ Cardinality(DBiten(f)) <= 1
  /\ \A p \in DParti : dParti[p] # Yok /\ dParti[p].dosya = f => DPartiDogru(p, f)
DNumarasiTek == \A k, e \in dKayit : k.no # Yok /\ k.no = e.no => k = e
DAyarDurur == dGirildi /\ "ayar" \notin dSasan => dAyar = "buro"

DSonuc ==
  /\ \A f \in Dosyalar \ dSasan : DDosyaDogru(f)
  /\ dSasan = {} => DNumarasiTek
  /\ DAyarDurur

AktarimInv == DTipler /\ DKayitlar /\ DOkunanDogru /\ DSonuc

(* It says what the property says.                                         *)
LEMMA DSonucTutar == DSonuc => AktarimTutarli
BY DEF DSonuc, AktarimTutarli, DDosyaDogru, DPartiDogru, DGelen, DBiten, DNumarasiTek, DAyarDurur

(* A row with a number is of a cash book, and has its key there.           *)
LEMMA DNumaraliSatir ==
  ASSUME NEW f, NEW r \in DAktarilan(f), r.tablo \in DNumaralilar
  PROVE  /\ r \in DAktarKasa(f) \cup DAktarOfis(f)
         /\ r \in Satirlari(f) /\ r.id # Yok
<1>1. r \in DAktarKasa(f) \cup DAktarOfis(f)
  BY DEF DAktarilan, DAktarKisiler, DAktarVekalet, DKimlikli, DTablo, DNumaralilar
<1> QED BY <1>1 DEF DAktarKasa, DAktarOfis, DAsiller, DDuzeltmeler, DKimlikli, DTablo

(* A row gets the number of the file, as the first that has it, or one made*)
(* of its batch, table and id.                                             *)
LEMMA DNumaraBiri ==
  ASSUME NEW p, NEW f, NEW dolu, NEW r
  PROVE  \/ /\ DNumara(p, f, dolu, r) = DHam(r.no) /\ r.no # Yok /\ DHam(r.no) \notin dolu
            /\ \A s \in DAktarKasa(f) \cup DAktarOfis(f) : s.no = r.no => ~DOnce(s, r)
         \/ /\ DNumara(p, f, dolu, r).parti = p /\ DNumara(p, f, dolu, r).tablo = r.tablo
            /\ DNumara(p, f, dolu, r).id = r.id
<1>1. CASE /\ r.no # Yok /\ DHam(r.no) \notin dolu
           /\ \A s \in DAktarKasa(f) \cup DAktarOfis(f) : s.no = r.no => ~DOnce(s, r)
  BY <1>1 DEF DNumara
<1>2. CASE ~ /\ r.no # Yok /\ DHam(r.no) \notin dolu
             /\ \A s \in DAktarKasa(f) \cup DAktarOfis(f) : s.no = r.no => ~DOnce(s, r)
  <2>1. \E k : DNumara(p, f, dolu, r) = [parti |-> p, tablo |-> r.tablo, id |-> r.id, ek |-> k]
    BY <1>2 DEF DNumara
  <2> QED BY <2>1
<1> QED BY <1>1, <1>2

(* Two rows of a file never get the same number.                           *)
LEMMA DNumaraFarkli ==
  ASSUME NEW f \in Dosyalar, NEW p, p # Yok, NEW dolu, NEW r \in DAktarilan(f), NEW s \in DAktarilan(f),
         r.tablo \in DNumaralilar, s.tablo \in DNumaralilar, DNumara(p, f, dolu, r) = DNumara(p, f, dolu, s)
  PROVE  r = s
<1>1. /\ r \in DAktarKasa(f) \cup DAktarOfis(f) /\ r \in Satirlari(f) /\ r.id # Yok
      /\ s \in DAktarKasa(f) \cup DAktarOfis(f) /\ s \in Satirlari(f) /\ s.id # Yok
  BY DNumaraliSatir
<1>2. r.tablo = s.tablo /\ r.id = s.id => r = s
  BY <1>1, AktarimVarsayimi DEF Satirlari, Dosyalar
<1>3. r.id \in Int /\ s.id \in Int
  BY <1>1, AktarimVarsayimi DEF Satirlari, Dosyalar
<1>4. PICK x : x = DNumara(p, f, dolu, r) /\ x = DNumara(p, f, dolu, s)
  OBVIOUS
<1>5. \/ /\ x = DHam(r.no) /\ \A t \in DAktarKasa(f) \cup DAktarOfis(f) : t.no = r.no => ~DOnce(t, r)
      \/ x.parti = p /\ x.tablo = r.tablo /\ x.id = r.id
  BY <1>4, DNumaraBiri
<1>6. \/ /\ x = DHam(s.no) /\ \A t \in DAktarKasa(f) \cup DAktarOfis(f) : t.no = s.no => ~DOnce(t, s)
      \/ x.parti = p /\ x.tablo = s.tablo /\ x.id = s.id
  BY <1>4, DNumaraBiri
<1>7. \A n : DHam(n).parti = Yok /\ DHam(n).id = n
  BY DEF DHam
<1>8. CASE x.parti = Yok
  <2>1. /\ x = DHam(r.no) /\ \A t \in DAktarKasa(f) \cup DAktarOfis(f) : t.no = r.no => ~DOnce(t, r)
        /\ x = DHam(s.no) /\ \A t \in DAktarKasa(f) \cup DAktarOfis(f) : t.no = s.no => ~DOnce(t, s)
    BY <1>5, <1>6, <1>8
  <2>2. r.no = s.no
    BY <1>7, <2>1
  <2>3. ~DOnce(s, r) /\ ~DOnce(r, s)
    BY <1>1, <2>1, <2>2
  <2>4. r.tablo = s.tablo
    BY <2>3 DEF DOnce, DNumaralilar
  <2>5. r.id = s.id
    <3>1. DDuzeltme(r) \in BOOLEAN /\ DDuzeltme(s) \in BOOLEAN
      BY DEF DDuzeltme
    <3>2. DDuzeltme(r) = DDuzeltme(s) /\ ~(r.id < s.id) /\ ~(s.id < r.id)
      BY <2>3, <2>4, <3>1 DEF DOnce
    <3> QED BY <1>3, <3>2
  <2> QED BY <1>2, <2>4, <2>5
<1>9. CASE x.parti # Yok
  BY <1>2, <1>5, <1>6, <1>7, <1>9
<1> QED BY <1>8, <1>9

(* The rows of an import: one for each row taken over.                     *)
LEMMA DYenilerBirebir ==
  ASSUME NEW p, NEW f \in Dosyalar, NEW dolu
  PROVE  /\ {k.satir : k \in DYeniler(p, f, dolu)} = DAktarilan(f)
         /\ Cardinality(DYeniler(p, f, dolu)) = Cardinality(DAktarilan(f))
         /\ \A k \in DYeniler(p, f, dolu) : k.parti = p
         /\ DYeniler(p, f, dolu) = {} <=> DAktarilan(f) = {}
<1> DEFINE S == DAktarilan(f)
           T == DYeniler(p, f, dolu)
           kayit(r) == [parti |-> p, satir |-> r, tablo |-> r.tablo,
                        no |-> IF r.tablo \in DNumaralilar THEN DNumara(p, f, dolu, r) ELSE Yok]
           g == [r \in S |-> kayit(r)]
<1>1. T = {kayit(r) : r \in S}
  BY DEF DYeniler
<1>2. \A r \in S : kayit(r).satir = r /\ kayit(r).parti = p /\ g[r] = kayit(r)
  OBVIOUS
<1>3. IsFiniteSet(S)
  <2>1. S \subseteq Satirlari(f)
    BY DEF DAktarilan, DAktarKisiler, DAktarVekalet, DAktarKasa, DAktarOfis, DAsiller, DDuzeltmeler, DKimlikli, DTablo
  <2>2. IsFiniteSet(Satirlari(f))
    BY AktarimVarsayimi DEF Satirlari, Dosyalar
  <2> QED BY <2>1, <2>2, FS_Subset
<1>4. g \in [S -> T]
  BY <1>1
<1> HIDE DEF S, T, kayit, g
<1>5. \A a, b \in S : g[a] = g[b] => a = b
  BY <1>2
<1>6. \A k \in T : \E r \in S : g[r] = k
  BY <1>1, <1>2
<1>7. g \in Injection(S, T) /\ g \in Surjection(S, T)
  BY <1>4, <1>5, <1>6 DEF Injection, Surjection, IsInjective
<1>8. Cardinality(T) = Cardinality(S)
  BY <1>3, <1>7, FS_Surjection
<1>9. {k.satir : k \in T} = S
  BY <1>1, <1>2
<1>10. \A k \in T : k.parti = p
  BY <1>1, <1>2
<1>11. T = {} <=> S = {}
  BY <1>1
<1> QED BY <1>8, <1>9, <1>10, <1>11 DEF S, T

(* A step of one request that writes nothing.                              *)
LEMMA DIlerler ==
  ASSUME AktarimInv, NEW a \in DIstek, NEW k, DIlerlet(a, k), UNCHANGED <<dParti, dKayit, dAyar, dSasan, dGirildi>>,
         k \in {Bos, Bitti} \cup [adim : {"onizle"}, dosya : Dosyalar] \/ DIslemKaydi(k),
         DIslemKaydi(k) => DDogru(k)
  PROVE  AktarimInv'
<1>1. dIstek' = [dIstek EXCEPT ![a] = k] /\ dParti' = dParti /\ dKayit' = dKayit /\ dAyar' = dAyar
      /\ dSasan' = dSasan /\ dGirildi' = dGirildi
  BY DEF DIlerlet
<1>2. \A b \in DIstek : dIstek'[b] = IF b = a THEN k ELSE dIstek[b]
  BY <1>1 DEF AktarimInv, DTipler
<1>3. dIstek' = [b \in DIstek |-> dIstek'[b]]
  BY <1>1 DEF AktarimInv, DTipler
<1>4. DTipler'
  BY <1>1, <1>2, <1>3 DEF AktarimInv, DTipler
<1>5. DKayitlar' /\ DSonuc'
  <2>1. DKayitlar'
    BY <1>1 DEF AktarimInv, DKayitlar
  <2>2. \A q : DGelen(q)' = DGelen(q)
    BY <1>1 DEF DGelen
  <2>3. ASSUME NEW f \in Dosyalar, f \notin dSasan' PROVE DDosyaDogru(f)'
    <3>1. DDosyaDogru(f)
      BY <1>1, <2>3 DEF AktarimInv, DSonuc
    <3>2. DBiten(f)' = DBiten(f)
      BY <1>1 DEF DBiten
    <3>3. \A q : DPartiDogru(q, f)' <=> DPartiDogru(q, f)
      BY <1>1, <2>2 DEF DPartiDogru
    <3> QED BY <1>1, <3>1, <3>2, <3>3 DEF DDosyaDogru
  <2>4. (dSasan = {} => DNumarasiTek)' /\ DAyarDurur'
    BY <1>1 DEF AktarimInv, DSonuc, DNumarasiTek, DAyarDurur
  <2> QED BY <2>1, <2>3, <2>4 DEF DSonuc
<1>6. \A r : DDogru(r)' <=> DDogru(r)
  BY <1>1 DEF DDogru, DTekrarsiz
<1>7. DOkunanDogru'
  <2> SUFFICES ASSUME NEW b \in DIstek, DIslemKaydi(dIstek'[b]) PROVE DDogru(dIstek[b])'
    BY DEF DOkunanDogru
  <2>1. PICK r : r = dIstek'[b]
    OBVIOUS
  <2>2. DDogru(r)
    BY <1>2, <2>1 DEF AktarimInv, DOkunanDogru
  <2>3. DDogru(r)'
    BY <1>6, <2>2
  <2> QED BY <2>1, <2>3 DEF DDogru, DTekrarsiz
<1> QED BY <1>4, <1>5, <1>7 DEF AktarimInv

(* A record of a request, by its step.                                     *)
LEMMA DAdimda ==
  ASSUME AktarimInv, NEW a \in DIstek
  PROVE  /\ dIstek[a].adim \in {"islem", "yaz", "hata"} => DIslemKaydi(dIstek[a]) /\ DDogru(dIstek[a])
         /\ dIstek[a].adim = "onizle" => dIstek[a] \in [adim : {"onizle"}, dosya : Dosyalar]
         /\ ~DIslemKaydi(Bos) /\ ~DIslemKaydi(Bitti) /\ \A r \in [adim : {"onizle"}, dosya : Dosyalar] : ~DIslemKaydi(r)
<1>1. Bos.adim = "bos" /\ Bitti.adim = "bitti"
  BY DEF Bos, Bitti
<1>2. \A r \in [adim : {"onizle"}, dosya : Dosyalar] : r.adim = "onizle"
  OBVIOUS
<1>3. \A r : DIslemKaydi(r) => r.adim \in {"islem", "yaz", "hata"}
  BY DEF DIslemKaydi
<1>4. dIstek[a] \in {Bos, Bitti} \cup [adim : {"onizle"}, dosya : Dosyalar] \/ DIslemKaydi(dIstek[a])
  BY DEF AktarimInv, DTipler
<1>5. DIslemKaydi(dIstek[a]) => DDogru(dIstek[a])
  BY DEF AktarimInv, DOkunanDogru
<1> QED BY <1>1, <1>2, <1>3, <1>4, <1>5

LEMMA DOnizleKorur == ASSUME AktarimInv, NEW a \in DIstek, DOnizle(a) PROVE AktarimInv'
<1>1. PICK f \in Dosyalar : DIlerlet(a, [adim |-> "onizle", dosya |-> f])
  BY DEF DOnizle
<1>2. PICK k : k = [adim |-> "onizle", dosya |-> f]
  OBVIOUS
<1>3. k \in [adim : {"onizle"}, dosya : Dosyalar]
  BY <1>2
<1>4. ~DIslemKaydi(k)
  BY <1>3, DAdimda
<1>5. DIlerlet(a, k) /\ UNCHANGED <<dParti, dKayit, dAyar, dSasan, dGirildi>>
  BY <1>1, <1>2 DEF DOnizle
<1> QED BY <1>3, <1>4, <1>5, DIlerler

LEMMA DKontrolKorur == ASSUME AktarimInv, NEW a \in DIstek, DKontrol(a) PROVE AktarimInv'
<1>1. PICK p \in DParti, f \in Dosyalar :
        /\ dParti[p] = [dosya |-> f, durum |-> "PREVIEWED"] /\ DTekrarsiz(f)
        /\ DIlerlet(a, [adim |-> "islem", dosya |-> f, parti |-> p, dolu |-> {}, ayar |-> Yok, bayat |-> FALSE])
  BY DEF DKontrol
<1>2. PICK k : k = [adim |-> "islem", dosya |-> f, parti |-> p, dolu |-> {}, ayar |-> Yok, bayat |-> FALSE]
  OBVIOUS
<1>3. DIslemKaydi(k) /\ k.dosya = f /\ k.parti = p
  BY <1>2 DEF DIslemKaydi
<1>4. dParti[p] # Yok /\ dParti[p].dosya = f /\ dParti[p].durum = "PREVIEWED"
  <2>1. dParti[p] \in DPartiSatiri
    BY <1>1 DEF DPartiSatiri
  <2> QED BY <1>1, <2>1, AktarimVarsayimi DEF DPartiSatiri, Dosyalar
<1>5. DDogru(k)
  BY <1>1, <1>3, <1>4 DEF DDogru
<1>6. DIlerlet(a, k) /\ UNCHANGED <<dParti, dKayit, dAyar, dSasan, dGirildi>>
  BY <1>1, <1>2 DEF DKontrol
<1> QED BY <1>3, <1>5, <1>6, DIlerler

(* A request that goes on with what it knows of its batch.                 *)
LEMMA DSurer ==
  ASSUME AktarimInv, NEW a \in DIstek, DIslemKaydi(dIstek[a]), NEW k, DIlerlet(a, k), DIslemKaydi(k),
         k.dosya = dIstek[a].dosya, k.parti = dIstek[a].parti, k.bayat = dIstek[a].bayat,
         UNCHANGED <<dParti, dKayit, dAyar, dSasan, dGirildi>>
  PROVE  AktarimInv'
<1>1. DDogru(dIstek[a])
  BY DEF AktarimInv, DOkunanDogru
<1>2. DDogru(k)
  BY <1>1 DEF DDogru
<1> QED BY <1>2, DIlerler

LEMMA DIslemOkuKorur == ASSUME AktarimInv, NEW a \in DIstek, DIslemOku(a) PROVE AktarimInv'
<1>1. PICK r : r = dIstek[a]
  OBVIOUS
<1>2. DIslemKaydi(r)
  BY <1>1, DAdimda DEF DIslemOku
<1>3. PICK k : k = [r EXCEPT !.adim = "yaz", !.dolu = DNumaralar, !.ayar = dAyar]
  OBVIOUS
<1>4. DIslemKaydi(k) /\ k.dosya = r.dosya /\ k.parti = r.parti /\ k.bayat = r.bayat
  BY <1>2, <1>3 DEF DIslemKaydi
<1>5. DIlerlet(a, k) /\ UNCHANGED <<dParti, dKayit, dAyar, dSasan, dGirildi>>
  BY <1>1, <1>3 DEF DIslemOku
<1> QED BY <1>1, <1>2, <1>4, <1>5, DSurer

LEMMA DIslemKalirKorur == ASSUME AktarimInv, NEW a \in DIstek, DIslemKalir(a) PROVE AktarimInv'
<1>1. PICK r : r = dIstek[a]
  OBVIOUS
<1>2. DIslemKaydi(r)
  BY <1>1, DAdimda DEF DIslemKalir
<1>3. PICK k : k = [r EXCEPT !.adim = "hata"]
  OBVIOUS
<1>4. DIslemKaydi(k) /\ k.dosya = r.dosya /\ k.parti = r.parti /\ k.bayat = r.bayat
  BY <1>2, <1>3 DEF DIslemKaydi
<1>5. DIlerlet(a, k) /\ UNCHANGED <<dParti, dKayit, dAyar, dSasan, dGirildi>>
  BY <1>1, <1>3 DEF DIslemKalir
<1> QED BY <1>1, <1>2, <1>4, <1>5, DSurer

LEMMA DDuserKorur == ASSUME AktarimInv, NEW a \in DIstek, DDuser(a) PROVE AktarimInv'
BY DAdimda, DIlerler DEF DDuser

(* A batch that is made has no rows and is not finished.                   *)
LEMMA DPartiAcKorur == ASSUME AktarimInv, NEW a \in DIstek, DPartiAc(a) PROVE AktarimInv'
<1>1. PICK p \in DParti : dParti[p] = Yok /\ dParti' = [dParti EXCEPT ![p] = [dosya |-> dIstek[a].dosya, durum |-> "PREVIEWED"]]
  BY DEF DPartiAc, Ilk
<1>2. /\ dIstek' = [dIstek EXCEPT ![a] = Bitti] /\ dKayit' = dKayit /\ dAyar' = dAyar
      /\ dSasan' = dSasan /\ dGirildi' = dGirildi /\ dIstek[a].adim = "onizle"
  BY DEF DPartiAc, DIlerlet
<1>3. PICK v : v = [dosya |-> dIstek[a].dosya, durum |-> "PREVIEWED"]
  OBVIOUS
<1>4. v \in DPartiSatiri /\ v # Yok /\ v.durum = "PREVIEWED"
  <2>1. dIstek[a].dosya \in Dosyalar
    BY <1>2, DAdimda
  <2> QED BY <1>3, <2>1, AktarimVarsayimi DEF DPartiSatiri, Dosyalar
<1>5. /\ dParti' = [q \in DParti |-> dParti'[q]]
      /\ \A q \in DParti : dParti'[q] = IF q = p THEN v ELSE dParti[q]
  BY <1>1, <1>3 DEF AktarimInv, DTipler
<1>6. /\ \A b \in DIstek : dIstek'[b] = IF b = a THEN Bitti ELSE dIstek[b]
      /\ dIstek' = [b \in DIstek |-> dIstek'[b]]
  BY <1>2 DEF AktarimInv, DTipler
<1>7. DTipler'
  BY <1>2, <1>4, <1>5, <1>6 DEF AktarimInv, DTipler
<1>8. DKayitlar'
  BY <1>2, <1>4, <1>5 DEF AktarimInv, DKayitlar
<1>9. ASSUME NEW f PROVE DTekrarsiz(f) => DTekrarsiz(f)'
  BY <1>4, <1>5 DEF DTekrarsiz
<1>10. DOkunanDogru'
  <2> SUFFICES ASSUME NEW b \in DIstek, DIslemKaydi(dIstek'[b]) PROVE DDogru(dIstek[b])'
    BY DEF DOkunanDogru
  <2>1. PICK r : r = dIstek'[b]
    OBVIOUS
  <2>2. r = dIstek[b]
    BY <1>6, <2>1, DAdimda
  <2>3. DDogru(r) /\ r.parti \in DParti
    BY <2>1, <2>2 DEF AktarimInv, DOkunanDogru, DIslemKaydi
  <2>4. dParti'[r.parti] = dParti[r.parti]
    BY <1>1, <1>5, <2>3 DEF DDogru
  <2> QED BY <1>9, <2>1, <2>3, <2>4 DEF DDogru
<1>11. DGelen(p) = {} /\ \A q : DGelen(q)' = DGelen(q)
  BY <1>1, <1>2, AktarimVarsayimi DEF AktarimInv, DKayitlar, DGelen
<1>12. ASSUME NEW f \in Dosyalar, f \notin dSasan' PROVE DDosyaDogru(f)'
  <2>1. DDosyaDogru(f)
    BY <1>2, <1>12 DEF AktarimInv, DSonuc
  <2>2. DBiten(f)' = DBiten(f)
    <3>1. [dosya |-> f, durum |-> "COMMITTED"] # Yok
      BY AktarimVarsayimi DEF Dosyalar
    <3> QED BY <1>1, <1>4, <1>5, <3>1 DEF DBiten
  <2>3. ASSUME NEW q \in DParti, dParti'[q] # Yok, dParti'[q].dosya = f PROVE DPartiDogru(q, f)'
    <3>1. CASE q = p
      BY <1>4, <1>5, <1>11, <3>1 DEF DPartiDogru
    <3>2. CASE q # p
      BY <1>5, <1>11, <2>1, <2>3, <3>2 DEF DDosyaDogru, DPartiDogru
    <3> QED BY <3>1, <3>2
  <2> QED BY <2>1, <2>2, <2>3 DEF DDosyaDogru
<1>13. DSonuc'
  BY <1>2, <1>12 DEF AktarimInv, DSonuc, DNumarasiTek, DAyarDurur
<1> QED BY <1>7, <1>8, <1>10, <1>13 DEF AktarimInv

(* A request is done with its file: the others at it are overtaken, and    *)
(* what those at another file know stays so.                               *)
LEMMA DBitirKorur ==
  ASSUME AktarimInv, NEW a \in DIstek, DIslemKaydi(dIstek[a]), DBitir(a),
         NEW v \in DPartiSatiri, v.dosya = dIstek[a].dosya,
         dParti' = [dParti EXCEPT ![dIstek[a].parti] = v],
         dAyar' \in {Yok, "buro", "yedek"}, dGirildi' = dGirildi
  PROVE  DTipler' /\ DOkunanDogru'
<1>1. PICK r : r = dIstek[a]
  OBVIOUS
<1>2. DIslemKaydi(r) /\ DDogru(r)
  BY <1>1 DEF AktarimInv, DOkunanDogru
<1>3. v # Yok
  BY AktarimVarsayimi DEF DPartiSatiri, Dosyalar
<1>4. /\ dParti' = [q \in DParti |-> dParti'[q]]
      /\ \A q \in DParti : dParti'[q] = IF q = r.parti THEN v ELSE dParti[q]
  BY <1>1, <1>2 DEF AktarimInv, DTipler, DIslemKaydi
<1>5. ASSUME NEW b \in DIstek
      PROVE  /\ b = a => dIstek'[b] = Bitti
             /\ b # a /\ DIslemKaydi(dIstek[b]) /\ dIstek[b].dosya = r.dosya =>
                  /\ DIslemKaydi(dIstek'[b]) /\ dIstek'[b].bayat
                  /\ dIstek'[b].dosya = dIstek[b].dosya /\ dIstek'[b].parti = dIstek[b].parti
             /\ b # a /\ ~(DIslemKaydi(dIstek[b]) /\ dIstek[b].dosya = r.dosya) => dIstek'[b] = dIstek[b]
  <2>1. dIstek'[b] = CASE b = a -> Bitti
                       [] b # a /\ dIstek[b].adim \in {"islem", "yaz", "hata"} /\ dIstek[b].dosya = dIstek[a].dosya
                            -> [dIstek[b] EXCEPT !.bayat = TRUE]
                       [] OTHER -> dIstek[b]
    BY DEF DBitir
  <2>2. dIstek[b].adim \in {"islem", "yaz", "hata"} <=> DIslemKaydi(dIstek[b])
    BY DAdimda DEF DIslemKaydi
  <2>3. CASE b = a
    BY <2>1, <2>3
  <2>4. CASE b # a /\ DIslemKaydi(dIstek[b]) /\ dIstek[b].dosya = r.dosya
    <3>1. PICK x : x = dIstek[b]
      OBVIOUS
    <3>2. PICK y : y = [x EXCEPT !.bayat = TRUE]
      OBVIOUS
    <3>3. DIslemKaydi(y) /\ y.bayat /\ y.dosya = x.dosya /\ y.parti = x.parti
      BY <2>4, <3>1, <3>2 DEF DIslemKaydi
    <3>4. dIstek'[b] = y
      BY <1>1, <2>1, <2>2, <2>4, <3>1, <3>2
    <3> QED BY <2>4, <3>1, <3>3, <3>4
  <2>5. CASE b # a /\ ~(DIslemKaydi(dIstek[b]) /\ dIstek[b].dosya = r.dosya)
    BY <1>1, <2>1, <2>2, <2>5
  <2> QED BY <2>3, <2>4, <2>5
<1>6. DTipler'
  <2>1. dParti' \in [DParti -> DPartiSatiri \cup {Yok}]
    BY <1>4 DEF AktarimInv, DTipler
  <2>2. dIstek' = [b \in DIstek |-> dIstek'[b]]
    BY DEF DBitir
  <2>3. ASSUME NEW b \in DIstek
        PROVE  dIstek'[b] \in {Bos, Bitti} \cup [adim : {"onizle"}, dosya : Dosyalar] \/ DIslemKaydi(dIstek'[b])
    <3>1. dIstek[b] \in {Bos, Bitti} \cup [adim : {"onizle"}, dosya : Dosyalar] \/ DIslemKaydi(dIstek[b])
      BY DEF AktarimInv, DTipler
    <3> QED BY <1>5, <3>1
  <2>4. DIslemKaydi(dIstek[a]) /\ dGirildi' \in BOOLEAN
    BY DEF AktarimInv, DTipler
  <2>5. ASSUME NEW b \in DIstek
        PROVE  dIstek'[b] \in {Bos, Bitti} \cup [adim : {"onizle"}, dosya : Dosyalar] \/ DIslemKaydi(dIstek[b])'
    BY <2>3 DEF DIslemKaydi
  <2> QED BY <2>1, <2>2, <2>4, <2>5 DEF DTipler
<1>7. DOkunanDogru'
  <2> SUFFICES ASSUME NEW b \in DIstek, DIslemKaydi(dIstek'[b]) PROVE DDogru(dIstek[b])'
    BY DEF DOkunanDogru
  <2>1. b # a
    BY <1>5, DAdimda
  <2>2. PICK x : x = dIstek'[b]
    OBVIOUS
  <2>3. DIslemKaydi(dIstek[b]) /\ DDogru(dIstek[b]) /\ x.dosya = dIstek[b].dosya /\ x.parti = dIstek[b].parti
    <3>1. DIslemKaydi(dIstek[b]) /\ x.dosya = dIstek[b].dosya /\ x.parti = dIstek[b].parti
      BY <1>5, <2>1, <2>2
    <3> QED BY <3>1 DEF AktarimInv, DOkunanDogru
  <2>4. x.parti \in DParti /\ dParti[x.parti] # Yok /\ dParti[x.parti].dosya = x.dosya
    BY <2>3 DEF DIslemKaydi, DDogru
  <2>5. dParti'[x.parti] # Yok /\ dParti'[x.parti].dosya = x.dosya
    <3>1. CASE x.parti = r.parti
      BY <1>1, <1>2, <1>3, <1>4, <2>4, <3>1 DEF DDogru
    <3>2. CASE x.parti # r.parti
      BY <1>4, <2>4, <3>2
    <3> QED BY <3>1, <3>2
  <2>6. ASSUME ~x.bayat PROVE dParti'[x.parti].durum = "PREVIEWED" /\ DTekrarsiz(x.dosya)'
    <3>1. x = dIstek[b] /\ x.dosya # r.dosya
      BY <1>5, <2>1, <2>2, <2>3, <2>6
    <3>2. dParti[x.parti].durum = "PREVIEWED" /\ DTekrarsiz(x.dosya)
      BY <2>3, <2>6, <3>1 DEF DDogru
    <3>3. x.parti # r.parti
      BY <1>2, <2>4, <3>1 DEF DDogru
    <3>4. DTekrarsiz(x.dosya)'
      BY <1>1, <1>4, <3>1, <3>2 DEF DTekrarsiz
    <3> QED BY <1>4, <2>4, <3>2, <3>3, <3>4
  <2> QED BY <2>2, <2>5, <2>6 DEF DDogru
<1> QED BY <1>6, <1>7

(* A file another than the request's is as it was.                         *)
LEMMA DBaskaDosya ==
  ASSUME AktarimInv, NEW r, DIslemKaydi(r), DDogru(r), NEW v \in DPartiSatiri, v.dosya = r.dosya,
         dParti' = [dParti EXCEPT ![r.parti] = v],
         \A q \in DParti : q # r.parti => DGelen(q)' = DGelen(q),
         NEW f \in Dosyalar, f \notin dSasan, f # r.dosya
  PROVE  DDosyaDogru(f)'
<1>1. \A q \in DParti : dParti'[q] = IF q = r.parti THEN v ELSE dParti[q]
  BY DEF AktarimInv, DTipler, DIslemKaydi
<1>2. DDosyaDogru(f)
  BY DEF AktarimInv, DSonuc
<1>3. DBiten(f)' = DBiten(f)
  BY <1>1 DEF DBiten, DDogru
<1>4. ASSUME NEW q \in DParti, dParti'[q] # Yok, dParti'[q].dosya = f PROVE DPartiDogru(q, f)'
  <2>1. q # r.parti
    BY <1>1, <1>4
  <2> QED BY <1>1, <1>2, <1>4, <2>1 DEF DDosyaDogru, DPartiDogru
<1> QED BY <1>2, <1>3, <1>4 DEF DDosyaDogru

(* The failure of an import.                                               *)
LEMMA DHataKorur == ASSUME AktarimInv, NEW a \in DIstek, DHata(a) PROVE AktarimInv'
<1>1. PICK r : r = dIstek[a]
  OBVIOUS
<1>2. /\ r.adim = "hata" /\ dParti' = [dParti EXCEPT ![r.parti].durum = "FAILED"] /\ dKayit' = dKayit /\ dAyar' = dAyar
      /\ dGirildi' = dGirildi /\ dSasan' = dSasan \cup (IF r.bayat THEN {r.dosya} ELSE {}) /\ DBitir(a)
  BY <1>1 DEF DHata
<1>3. DIslemKaydi(r) /\ DDogru(r)
  BY <1>1, <1>2, DAdimda
<1>4. r.dosya \in Dosyalar /\ r.parti \in DParti /\ r.bayat \in BOOLEAN /\ dParti[r.parti] # Yok /\ dParti[r.parti].dosya = r.dosya
  BY <1>3 DEF DIslemKaydi, DDogru
<1>5. PICK v : v = [dParti[r.parti] EXCEPT !.durum = "FAILED"]
  OBVIOUS
<1>6. v \in DPartiSatiri /\ v.dosya = r.dosya /\ v.durum = "FAILED"
  <2>1. dParti[r.parti] \in DPartiSatiri
    BY <1>4 DEF AktarimInv, DTipler
  <2> QED BY <1>4, <1>5, <2>1 DEF DPartiSatiri
<1>7. dParti' = [dParti EXCEPT ![r.parti] = v]
  BY <1>2, <1>4, <1>5 DEF AktarimInv, DTipler
<1>8. DTipler' /\ DOkunanDogru'
  BY <1>1, <1>2, <1>3, <1>6, <1>7, DBitirKorur DEF AktarimInv, DTipler
<1>9. \A q \in DParti : dParti'[q] = IF q = r.parti THEN v ELSE dParti[q]
  BY <1>7 DEF AktarimInv, DTipler
<1>10. v # Yok
  BY <1>6, AktarimVarsayimi DEF DPartiSatiri, Dosyalar
<1>11. DKayitlar'
  BY <1>2, <1>9, <1>10 DEF AktarimInv, DKayitlar
<1>12. \A q : DGelen(q)' = DGelen(q)
  BY <1>2 DEF DGelen
<1>13. ASSUME NEW f \in Dosyalar, f \notin dSasan' PROVE DDosyaDogru(f)'
  <2>1. f \notin dSasan
    BY <1>2, <1>13
  <2>2. CASE f # r.dosya
    BY <1>3, <1>6, <1>7, <1>12, <2>1, <2>2, DBaskaDosya
  <2>3. CASE f = r.dosya
    <3>1. ~r.bayat
      BY <1>2, <1>13, <2>3
    <3>2. dParti[r.parti].durum = "PREVIEWED" /\ DTekrarsiz(f)
      BY <1>3, <2>3, <3>1 DEF DDogru
    <3>3. DDosyaDogru(f)
      BY <2>1 DEF AktarimInv, DSonuc
    <3>4. DBiten(f)' = {}
      BY <1>6, <1>9, <3>2 DEF DBiten, DTekrarsiz
    <3>5. DPartiDogru(r.parti, f)
      BY <1>4, <2>3, <3>3 DEF DDosyaDogru
    <3>6. ASSUME NEW q \in DParti, dParti'[q] # Yok, dParti'[q].dosya = f PROVE DPartiDogru(q, f)'
      <4>1. CASE q = r.parti
        BY <1>6, <1>9, <1>12, <3>2, <3>5, <4>1 DEF DPartiDogru
      <4>2. CASE q # r.parti
        BY <1>9, <1>12, <3>3, <3>6, <4>2 DEF DDosyaDogru, DPartiDogru
      <4> QED BY <4>1, <4>2
    <3>7. Cardinality(DBiten(f)') <= 1
      BY <3>4, FS_EmptySet
    <3> QED BY <3>6, <3>7 DEF DDosyaDogru
  <2> QED BY <2>2, <2>3
<1>14. (dSasan = {} => DNumarasiTek)' /\ DAyarDurur'
  <2>1. dSasan \subseteq dSasan'
    BY <1>2
  <2>2. (dSasan = {} => DNumarasiTek)'
    BY <1>2, <2>1 DEF AktarimInv, DSonuc, DNumarasiTek
  <2>3. DAyarDurur'
    BY <1>2, <2>1 DEF AktarimInv, DSonuc, DAyarDurur
  <2> QED BY <2>2, <2>3
<1> QED BY <1>8, <1>11, <1>13, <1>14 DEF AktarimInv, DSonuc

(* The number of a new row is none, one of the file that was free, or one  *)
(* that says its batch and its table.                                      *)
LEMMA DYeniSatir ==
  ASSUME NEW p, NEW f, NEW dolu, NEW k \in DYeniler(p, f, dolu)
  PROVE  /\ k.parti = p
         /\ \/ k.no = Yok
            \/ k.no.parti = Yok /\ k.no \notin dolu
            \/ k.no.parti = p /\ k.no.tablo = k.tablo
<1>1. PICK r \in DAktarilan(f) :
        k = [parti |-> p, satir |-> r, tablo |-> r.tablo,
             no |-> IF r.tablo \in DNumaralilar THEN DNumara(p, f, dolu, r) ELSE Yok]
  BY DEF DYeniler
<1>2. k.parti = p /\ k.tablo = r.tablo /\ (k.no = Yok \/ k.no = DNumara(p, f, dolu, r))
  BY <1>1
<1>3. PICK x : x = DNumara(p, f, dolu, r)
  OBVIOUS
<1>4. \/ x = DHam(r.no) /\ DHam(r.no) \notin dolu
      \/ x.parti = p /\ x.tablo = r.tablo
  BY <1>3, DNumaraBiri
<1>5. DHam(r.no).parti = Yok
  BY DEF DHam
<1> QED BY <1>2, <1>3, <1>4, <1>5

LEMMA DYeniTek ==
  ASSUME NEW p, p # Yok, NEW f \in Dosyalar, NEW dolu,
         NEW k \in DYeniler(p, f, dolu), NEW e \in DYeniler(p, f, dolu), k.no # Yok, k.no = e.no
  PROVE  k = e
<1> DEFINE kayit(r) == [parti |-> p, satir |-> r, tablo |-> r.tablo,
                        no |-> IF r.tablo \in DNumaralilar THEN DNumara(p, f, dolu, r) ELSE Yok]
<1>1. PICK r \in DAktarilan(f) : k = kayit(r)
  BY DEF DYeniler
<1>2. PICK s \in DAktarilan(f) : e = kayit(s)
  BY DEF DYeniler
<1>3. \A t : kayit(t).no = IF t.tablo \in DNumaralilar THEN DNumara(p, f, dolu, t) ELSE Yok
  OBVIOUS
<1> HIDE DEF kayit
<1>4. /\ r.tablo \in DNumaralilar /\ s.tablo \in DNumaralilar
      /\ DNumara(p, f, dolu, r) = DNumara(p, f, dolu, s)
  BY <1>1, <1>2, <1>3
<1>5. r = s
  BY <1>4, DNumaraFarkli
<1> QED BY <1>1, <1>2, <1>5

(* A batch that is taken over, by a request nobody overtook.               *)
LEMMA DDosyaBiter ==
  ASSUME AktarimInv, NEW r, DIslemKaydi(r), DDogru(r), ~r.bayat, r.dosya \notin dSasan,
         NEW v, v = [dosya |-> r.dosya, durum |-> "COMMITTED"],
         dParti' = [dParti EXCEPT ![r.parti] = v],
         dKayit' = dKayit \cup DYeniler(r.parti, r.dosya, r.dolu),
         \A q \in DParti : q # r.parti => DGelen(q)' = DGelen(q)
  PROVE  DDosyaDogru(r.dosya)'
<1> DEFINE p == r.parti
           f == r.dosya
           yeni == DYeniler(p, f, r.dolu)
<1>1. p \in DParti /\ f \in Dosyalar /\ dParti[p] # Yok /\ dParti[p].dosya = f /\ dParti[p].durum = "PREVIEWED" /\ DTekrarsiz(f)
  BY DEF DIslemKaydi, DDogru
<1> HIDE DEF yeni
<1>2. \A q \in DParti : dParti'[q] = IF q = p THEN v ELSE dParti[q]
  BY <1>1 DEF AktarimInv, DTipler
<1>3. DDosyaDogru(f)
  BY <1>1 DEF AktarimInv, DSonuc
<1>4. /\ {k.satir : k \in yeni} = DAktarilan(f) /\ Cardinality(yeni) = Cardinality(DAktarilan(f))
      /\ (\A k \in yeni : k.parti = p) /\ (yeni = {} <=> DAktarilan(f) = {})
  BY <1>1, DYenilerBirebir DEF yeni
<1>5. DGelen(p)' = yeni
  <2>1. DGelen(p) = {}
    BY <1>1, <1>3 DEF DDosyaDogru, DPartiDogru
  <2>2. \A k \in dKayit : k.parti # p
    BY <2>1 DEF DGelen
  <2>3. \A k : k \in dKayit' <=> k \in dKayit \/ k \in yeni
    BY DEF yeni
  <2> QED BY <1>4, <2>2, <2>3 DEF DGelen
<1>6. v.durum = "COMMITTED" /\ v.dosya = f
  OBVIOUS
<1>7. DPartiDogru(p, f)'
  BY <1>1, <1>2, <1>4, <1>5, <1>6 DEF DPartiDogru
<1>8. Cardinality(DBiten(f)') <= 1
  <2>1. DBiten(f)' = {p}
    BY <1>1, <1>2 DEF DBiten, DTekrarsiz
  <2> QED BY <2>1, FS_Singleton
<1>9. ASSUME NEW q \in DParti, dParti'[q] # Yok, dParti'[q].dosya = f PROVE DPartiDogru(q, f)'
  <2>1. CASE q = p
    BY <1>7, <2>1
  <2>2. CASE q # p
    BY <1>2, <1>3, <1>9, <2>2 DEF DDosyaDogru, DPartiDogru
  <2> QED BY <2>1, <2>2
<1> QED BY <1>8, <1>9 DEF DDosyaDogru

(* The numbers after a transaction that knew all that were taken.          *)
LEMMA DNumaralarTekKalir ==
  ASSUME DKayitlar, DNumarasiTek, NEW p, p # Yok, NEW f \in Dosyalar, NEW dolu, dolu = DNumaralar,
         ~DCakisir(DYeniler(p, f, dolu)), dKayit' = dKayit \cup DYeniler(p, f, dolu)
  PROVE  DNumarasiTek'
<1> DEFINE yeni == DYeniler(p, f, dolu)
<1>1. \A k \in yeni : \/ k.no = Yok
                      \/ k.no.parti = Yok /\ k.no \notin dolu
                      \/ k.no.parti = p /\ k.no.tablo = k.tablo
  BY DYeniSatir
<1>2. \A k, e \in yeni : k.no # Yok /\ k.no = e.no => k = e
  BY DYeniTek
<1>3. \A k \in yeni, e \in dKayit : ~(k.no # Yok /\ k.no = e.no /\ k.tablo = e.tablo)
  BY DEF DCakisir
<1> HIDE DEF yeni
<1>4. ASSUME NEW k \in yeni, NEW e \in dKayit, k.no # Yok, k.no = e.no PROVE FALSE
  <2>1. e.no \in dolu
    BY <1>4 DEF DNumaralar
  <2>2. k.no.parti = p /\ k.no.tablo = k.tablo
    BY <1>1, <1>4, <2>1
  <2>3. e.no.tablo = e.tablo
    BY <1>4, <2>2 DEF DKayitlar
  <2> QED BY <1>3, <1>4, <2>2, <2>3
<1>5. \A k : k \in dKayit' <=> k \in dKayit \/ k \in yeni
  BY DEF yeni
<1> QED BY <1>2, <1>4, <1>5 DEF DNumarasiTek

(* A transaction that writes.                                              *)
LEMMA DIslemYazKorur == ASSUME AktarimInv, NEW a \in DIstek, DIslemYaz(a) PROVE AktarimInv'
<1>1. PICK r : r = dIstek[a]
  OBVIOUS
<1>2. PICK yeni : yeni = DYeniler(r.parti, r.dosya, r.dolu)
  OBVIOUS
<1>3. /\ r.adim = "yaz" /\ ~DCakisir(yeni) /\ dKayit' = dKayit \cup yeni
      /\ dAyar' = (IF DYedek[r.dosya].ayar /\ r.ayar = Yok THEN "yedek" ELSE dAyar)
      /\ dParti' = [dParti EXCEPT ![r.parti].durum = "COMMITTED"]
      /\ dSasan' = dSasan \cup (IF r.bayat THEN {r.dosya} ELSE {}) \cup (IF r.dolu # DNumaralar THEN {"no"} ELSE {})
                          \cup (IF r.ayar # dAyar THEN {"ayar"} ELSE {})
      /\ DBitir(a) /\ dGirildi' = dGirildi
  BY <1>1, <1>2 DEF DIslemYaz
<1>4. /\ dSasan \subseteq dSasan' /\ (r.bayat => r.dosya \in dSasan')
      /\ (r.dolu # DNumaralar => "no" \in dSasan') /\ (r.ayar # dAyar => "ayar" \in dSasan')
  BY <1>3
<1>5. DIslemKaydi(r) /\ DDogru(r)
  BY <1>1, <1>3, DAdimda
<1>6. r.dosya \in Dosyalar /\ r.parti \in DParti /\ r.bayat \in BOOLEAN /\ dParti[r.parti] # Yok /\ dParti[r.parti].dosya = r.dosya
  BY <1>5 DEF DIslemKaydi, DDogru
<1>7. PICK v : v = [dosya |-> r.dosya, durum |-> "COMMITTED"]
  OBVIOUS
<1>8. v \in DPartiSatiri /\ v.dosya = r.dosya /\ v # Yok
  BY <1>6, <1>7, AktarimVarsayimi DEF DPartiSatiri, Dosyalar
<1>9. dParti' = [dParti EXCEPT ![r.parti] = v]
  <2>1. dParti[r.parti] \in DPartiSatiri
    BY <1>6 DEF AktarimInv, DTipler
  <2>2. [dParti[r.parti] EXCEPT !.durum = "COMMITTED"] = v
    BY <1>6, <1>7, <2>1 DEF DPartiSatiri
  <2> QED BY <1>3, <1>6, <2>2 DEF AktarimInv, DTipler
<1>10. r.parti # Yok
  BY <1>6, AktarimVarsayimi
<1>11. DTipler' /\ DOkunanDogru'
  <2>1. dAyar' \in {Yok, "buro", "yedek"}
    BY <1>3 DEF AktarimInv, DTipler
  <2> QED BY <1>1, <1>3, <1>5, <1>8, <1>9, <2>1, DBitirKorur
<1>12. \A k \in yeni : /\ k.parti = r.parti
                       /\ k.no = Yok \/ k.no.parti = Yok \/ k.no.tablo = k.tablo
  BY <1>2, DYeniSatir
<1>13. \A q \in DParti : dParti'[q] = IF q = r.parti THEN v ELSE dParti[q]
  BY <1>9 DEF AktarimInv, DTipler
<1>14. DKayitlar'
  BY <1>3, <1>6, <1>8, <1>12, <1>13 DEF AktarimInv, DKayitlar
<1>15. \A q \in DParti : q # r.parti => DGelen(q)' = DGelen(q)
  BY <1>3, <1>12 DEF DGelen
<1>16. ASSUME NEW f \in Dosyalar, f \notin dSasan' PROVE DDosyaDogru(f)'
  <2>1. f \notin dSasan
    BY <1>4, <1>16
  <2>2. CASE f # r.dosya
    BY <1>5, <1>8, <1>9, <1>15, <2>1, <2>2, DBaskaDosya
  <2>3. CASE f = r.dosya
    <3>1. ~r.bayat /\ r.dosya \notin dSasan
      BY <1>4, <1>16, <2>1, <2>3
    <3>2. DDosyaDogru(r.dosya)'
      BY <1>2, <1>3, <1>5, <1>7, <1>9, <1>15, <3>1, DDosyaBiter
    <3> QED BY <2>3, <3>2 DEF DDosyaDogru, DBiten, DPartiDogru, DGelen
  <2> QED BY <2>2, <2>3
<1>17. (dSasan = {} => DNumarasiTek)'
  <2> SUFFICES ASSUME dSasan' = {} PROVE DNumarasiTek'
    OBVIOUS
  <2>1. DKayitlar /\ DNumarasiTek /\ r.dolu = DNumaralar
    BY <1>4 DEF AktarimInv, DSonuc
  <2> QED BY <1>2, <1>3, <1>6, <1>10, <2>1, DNumaralarTekKalir
<1>18. DAyarDurur'
  <2>1. CASE r.ayar # dAyar
    BY <1>4, <2>1 DEF DAyarDurur
  <2>2. CASE r.ayar = dAyar
    BY <1>3, <1>4, <2>2, AktarimVarsayimi DEF AktarimInv, DSonuc, DAyarDurur
  <2> QED BY <2>1, <2>2
<1> QED BY <1>11, <1>14, <1>16, <1>17, <1>18 DEF AktarimInv, DSonuc

(* What requests know depends on the batches alone.                        *)
LEMMA DIsteklerDurur ==
  ASSUME AktarimInv, dParti' = dParti, dIstek' = dIstek, dGirildi' \in BOOLEAN, dAyar' \in {Yok, "buro", "yedek"}
  PROVE  DTipler' /\ DOkunanDogru'
<1>1. DTipler'
  BY DEF AktarimInv, DTipler, DIslemKaydi
<1>2. DOkunanDogru'
  BY DEF AktarimInv, DOkunanDogru, DIslemKaydi, DDogru, DTekrarsiz
<1> QED BY <1>1, <1>2

(* The rows of batches as they were: so are the files.                     *)
LEMMA DDosyalarDurur ==
  ASSUME NEW f, DDosyaDogru(f), dParti' = dParti, \A q \in DParti : DGelen(q)' = DGelen(q)
  PROVE  DDosyaDogru(f)'
<1>1. DBiten(f)' = DBiten(f)
  BY DEF DBiten
<1>2. \A q \in DParti : DPartiDogru(q, f) => DPartiDogru(q, f)'
  BY DEF DPartiDogru
<1> QED BY <1>1, <1>2 DEF DDosyaDogru

(* A row of the office's own.                                              *)
LEMMA DElleKorur == ASSUME AktarimInv, DElle PROVE AktarimInv'
<1>1. PICK n \in DElden, t \in DNumaralilar :
        /\ \A k \in dKayit : k.no # DHam(n)
        /\ dKayit' = dKayit \cup {[parti |-> Yok, satir |-> Yok, tablo |-> t, no |-> DHam(n)]}
  BY DEF DElle
<1>2. dParti' = dParti /\ dAyar' = dAyar /\ dIstek' = dIstek /\ dSasan' = dSasan /\ dGirildi' = dGirildi
  BY DEF DElle
<1>3. PICK e : e = [parti |-> Yok, satir |-> Yok, tablo |-> t, no |-> DHam(n)]
  OBVIOUS
<1>4. e.parti = Yok /\ e.no = DHam(n) /\ e.no.parti = Yok /\ dKayit' = dKayit \cup {e}
  BY <1>1, <1>3 DEF DHam
<1>5. DTipler' /\ DOkunanDogru'
  BY <1>2, DIsteklerDurur DEF AktarimInv, DTipler
<1>6. DKayitlar'
  BY <1>2, <1>4 DEF AktarimInv, DKayitlar
<1>7. \A q \in DParti : DGelen(q)' = DGelen(q)
  BY <1>4, AktarimVarsayimi DEF DGelen
<1>8. \A f \in Dosyalar \ dSasan' : DDosyaDogru(f)'
  BY <1>2, <1>7, DDosyalarDurur DEF AktarimInv, DSonuc
<1>9. (dSasan = {} => DNumarasiTek)'
  <2>1. dSasan = {} => DNumarasiTek
    BY DEF AktarimInv, DSonuc
  <2> QED BY <1>1, <1>2, <1>4, <2>1 DEF DNumarasiTek
<1>10. DAyarDurur'
  BY <1>2 DEF AktarimInv, DSonuc, DAyarDurur
<1> QED BY <1>5, <1>6, <1>8, <1>9, <1>10 DEF AktarimInv, DSonuc

(* The office's phone, and a step of nobody.                               *)
LEMMA DAyarYazKorur == ASSUME AktarimInv, DAyarYaz \/ UNCHANGED aktarimVars PROVE AktarimInv'
<1>1. /\ dParti' = dParti /\ dKayit' = dKayit /\ dIstek' = dIstek /\ dSasan' = dSasan
      /\ (dAyar' = "buro" /\ dGirildi' = TRUE) \/ (dAyar' = dAyar /\ dGirildi' = dGirildi)
  BY DEF DAyarYaz, aktarimVars
<1>2. DTipler' /\ DOkunanDogru'
  BY <1>1, DIsteklerDurur DEF AktarimInv, DTipler
<1>3. DKayitlar'
  BY <1>1 DEF AktarimInv, DKayitlar
<1>4. \A f \in Dosyalar \ dSasan' : DDosyaDogru(f)'
  <2>1. \A q \in DParti : DGelen(q)' = DGelen(q)
    BY <1>1 DEF DGelen
  <2> QED BY <1>1, <2>1, DDosyalarDurur DEF AktarimInv, DSonuc
<1>5. (dSasan = {} => DNumarasiTek)'
  BY <1>1 DEF AktarimInv, DSonuc, DNumarasiTek
<1>6. DAyarDurur'
  BY <1>1 DEF AktarimInv, DSonuc, DAyarDurur
<1> QED BY <1>2, <1>3, <1>4, <1>5, <1>6 DEF AktarimInv, DSonuc

LEMMA AktarimBaslar == AktarimInit => AktarimInv
<1> SUFFICES ASSUME AktarimInit PROVE AktarimInv
  OBVIOUS
<1>1. /\ dParti = [p \in DParti |-> Yok] /\ dKayit = {} /\ dAyar = Yok
      /\ dIstek = [a \in DIstek |-> Bos] /\ dSasan = {} /\ dGirildi = FALSE
  BY DEF AktarimInit
<1>2. ~DIslemKaydi(Bos)
  BY DEF DIslemKaydi, Bos
<1>3. DTipler /\ DKayitlar
  BY <1>1 DEF DTipler, DKayitlar
<1>4. DOkunanDogru
  BY <1>1, <1>2 DEF DOkunanDogru
<1>5. ASSUME NEW f \in Dosyalar PROVE DDosyaDogru(f)
  <2>1. DBiten(f) = {}
    BY <1>1, AktarimVarsayimi DEF DBiten, Dosyalar
  <2> QED BY <1>1, <2>1, FS_EmptySet DEF DDosyaDogru
<1>6. DNumarasiTek /\ DAyarDurur
  BY <1>1 DEF DNumarasiTek, DAyarDurur
<1> QED BY <1>3, <1>4, <1>5, <1>6 DEF AktarimInv, DSonuc

(* What a request of an import that nobody overtook knows of its batch and *)
(* its file stays so, and the files, the numbers and the settings are as   *)
(* they should be.                                                         *)
THEOREM AktarimDegismez == AktarimSpec => []AktarimInv
<1>1. ASSUME AktarimInv, [AktarimNext]_aktarimVars PROVE AktarimInv'
  <2>1. CASE \E a \in DIstek : DOnizle(a)
    BY <1>1, <2>1, DOnizleKorur
  <2>2. CASE \E a \in DIstek : DPartiAc(a)
    BY <1>1, <2>2, DPartiAcKorur
  <2>3. CASE \E a \in DIstek : DKontrol(a)
    BY <1>1, <2>3, DKontrolKorur
  <2>4. CASE \E a \in DIstek : DIslemOku(a)
    BY <1>1, <2>4, DIslemOkuKorur
  <2>5. CASE \E a \in DIstek : DIslemYaz(a)
    BY <1>1, <2>5, DIslemYazKorur
  <2>6. CASE \E a \in DIstek : DIslemKalir(a)
    BY <1>1, <2>6, DIslemKalirKorur
  <2>7. CASE \E a \in DIstek : DHata(a)
    BY <1>1, <2>7, DHataKorur
  <2>8. CASE \E a \in DIstek : DDuser(a)
    BY <1>1, <2>8, DDuserKorur
  <2>9. CASE DElle
    BY <1>1, <2>9, DElleKorur
  <2>10. CASE DAyarYaz \/ UNCHANGED aktarimVars
    BY <1>1, <2>10, DAyarYazKorur
  <2> QED BY <1>1, <2>1, <2>2, <2>3, <2>4, <2>5, <2>6, <2>7, <2>8, <2>9, <2>10 DEF AktarimNext
<1> QED BY <1>1, AktarimBaslar, PTL DEF AktarimSpec

(* A file of the desktop program is taken over once and as a whole, with   *)
(* numbers that no other row has, and the office's own settings stay:      *)
(* desktopImportCommit.ts and importDuplicateGuard.ts, for every file,     *)
(* every number of batches and requests, where imports do not overlap.     *)
THEOREM AktarimTutarlidir == AktarimSpec => []AktarimTutarli
<1>1. AktarimInv => AktarimTutarli
  BY DSonucTutar DEF AktarimInv
<1> QED BY <1>1, AktarimDegismez, PTL

\* Rows are finitely many, and have a number exactly when they are of a cash book.
DSatirTipleri ==
  /\ IsFiniteSet(dKayit) /\ dSasan \subseteq Dosyalar \cup {"no", "ayar"}
  /\ \A k \in dKayit : k.parti \in DParti \cup {Yok} /\ (k.no = Yok <=> k.tablo \notin DNumaralilar)
  /\ \A a \in DIstek : DIslemKaydi(dIstek[a]) => IsFiniteSet(dIstek[a].dolu)

(* A number that is not taken is found among one more than are.            *)
LEMMA DUretilir ==
  ASSUME NEW p, NEW t, NEW i, NEW dolu, IsFiniteSet(dolu)
  PROVE  \E k \in 0..Cardinality(dolu) :
           /\ [parti |-> p, tablo |-> t, id |-> i, ek |-> k] \notin dolu
           /\ \A j \in 0..(k - 1) : [parti |-> p, tablo |-> t, id |-> i, ek |-> j] \in dolu
<1>1. PICK N : N = Cardinality(dolu)
  OBVIOUS
<1>2. N \in Nat
  BY <1>1, FS_CardinalityType
<1>3. PICK X : X = {k \in 0..N : [parti |-> p, tablo |-> t, id |-> i, ek |-> k] \notin dolu}
  OBVIOUS
<1>4. X # {}
  <2> SUFFICES ASSUME X = {} PROVE FALSE
    OBVIOUS
  <2>1. PICK g : g = [k \in 0..N |-> [parti |-> p, tablo |-> t, id |-> i, ek |-> k]]
    OBVIOUS
  <2>2. \A k \in 0..N : g[k] \in dolu /\ g[k].ek = k
    BY <1>3, <2>1
  <2>3. g \in [0..N -> dolu]
    BY <2>1, <2>2
  <2>4. g \in Injection(0..N, dolu)
    <3>1. \A x, y \in 0..N : g[x] = g[y] => x = y
      BY <2>2
    <3> QED BY <2>3, <3>1 DEF Injection, IsInjective
  <2>5. Cardinality(0..N) <= N
    BY <1>1, <2>4, FS_Injection
  <2>6. Cardinality(0..N) = N + 1
    BY <1>2, FS_Interval
  <2> QED BY <1>2, <2>5, <2>6
<1> DEFINE R == OpToRel(<, Nat)
<1>5. IsWellFoundedOn(R, Nat) /\ \A x, y \in Nat : y < x => <<y, x>> \in R
  BY NatLessThanWellFounded DEF OpToRel
<1> HIDE DEF R
<1>6. PICK k \in X : \A y \in X : ~(<<y, k>> \in R)
  <2>1. X \subseteq Nat
    BY <1>2, <1>3
  <2> QED BY <1>4, <1>5, <2>1, WFMin
<1>7. k \in 0..N /\ [parti |-> p, tablo |-> t, id |-> i, ek |-> k] \notin dolu
  BY <1>3, <1>6
<1>8. ASSUME NEW j \in 0..(k - 1) PROVE [parti |-> p, tablo |-> t, id |-> i, ek |-> j] \in dolu
  <2>1. j \in Nat /\ j < k /\ k \in Nat /\ j \in 0..N
    BY <1>2, <1>7
  <2>2. <<j, k>> \in R
    BY <1>5, <2>1
  <2> QED BY <1>3, <1>6, <2>1, <2>2
<1> QED BY <1>1, <1>7, <1>8

(* So a row of a cash book gets a number.                                  *)
LEMMA DNumaraVar ==
  ASSUME NEW f \in Dosyalar, NEW p \in DParti, NEW dolu, IsFiniteSet(dolu), NEW r \in DAktarilan(f), r.tablo \in DNumaralilar
  PROVE  DNumara(p, f, dolu, r) # Yok
<1>1. /\ r \in Satirlari(f) /\ r.id \in Int /\ r.no \in Int \cup {Yok}
  BY DNumaraliSatir, AktarimVarsayimi DEF Satirlari, Dosyalar
<1>2. PICK T : T = [parti : DParti \cup {Yok}, tablo : {"kasa", "ofis", Yok}, id : Int, ek : Nat]
  OBVIOUS
<1>3. Yok \notin T
  BY <1>2, AktarimVarsayimi
<1>4. r.no # Yok => DHam(r.no) \in T
  BY <1>1, <1>2 DEF DHam
<1>5. PICK k : k = CHOOSE i \in 0..Cardinality(dolu) :
                     /\ [parti |-> p, tablo |-> r.tablo, id |-> r.id, ek |-> i] \notin dolu
                     /\ \A j \in 0..(i - 1) : [parti |-> p, tablo |-> r.tablo, id |-> r.id, ek |-> j] \in dolu
  OBVIOUS
<1>6. k \in Nat
  <2>1. k \in 0..Cardinality(dolu)
    BY <1>5, DUretilir
  <2>2. Cardinality(dolu) \in Nat
    BY FS_CardinalityType
  <2> QED BY <2>1, <2>2
<1>7. [parti |-> p, tablo |-> r.tablo, id |-> r.id, ek |-> k] \in T
  BY <1>1, <1>2, <1>6 DEF DNumaralilar
<1>8. \/ DNumara(p, f, dolu, r) = DHam(r.no) /\ r.no # Yok
      \/ DNumara(p, f, dolu, r) = [parti |-> p, tablo |-> r.tablo, id |-> r.id, ek |-> k]
  BY <1>5 DEF DNumara
<1> QED BY <1>3, <1>4, <1>7, <1>8

(* The rows of an import are finitely many, and of their types.            *)
LEMMA DYenilerTipli ==
  ASSUME NEW f \in Dosyalar, NEW p \in DParti, NEW dolu, IsFiniteSet(dolu)
  PROVE  /\ IsFiniteSet(DYeniler(p, f, dolu))
         /\ \A k \in DYeniler(p, f, dolu) : k.parti = p /\ (k.no = Yok <=> k.tablo \notin DNumaralilar)
<1>1. PICK S : S = DAktarilan(f)
  OBVIOUS
<1>2. IsFiniteSet(S)
  <2>1. S \subseteq Satirlari(f)
    BY <1>1 DEF DAktarilan, DAktarKisiler, DAktarVekalet, DAktarKasa, DAktarOfis, DAsiller, DDuzeltmeler, DKimlikli, DTablo
  <2>2. IsFiniteSet(Satirlari(f))
    BY AktarimVarsayimi DEF Satirlari, Dosyalar
  <2> QED BY <2>1, <2>2, FS_Subset
<1>3. PICK g : g = [r \in S |-> [parti |-> p, satir |-> r, tablo |-> r.tablo,
                                 no |-> IF r.tablo \in DNumaralilar THEN DNumara(p, f, dolu, r) ELSE Yok]]
  OBVIOUS
<1>4. \A k \in DYeniler(p, f, dolu) : \E r \in S : g[r] = k
  BY <1>1, <1>3 DEF DYeniler
<1>5. \A r \in S : g[r] \in DYeniler(p, f, dolu)
  BY <1>1, <1>3 DEF DYeniler
<1>6. g \in Surjection(S, DYeniler(p, f, dolu))
  BY <1>3, <1>4, <1>5 DEF Surjection
<1>7. \A r \in S : r.tablo \in DNumaralilar => DNumara(p, f, dolu, r) # Yok
  BY <1>1, DNumaraVar
<1>8. \A r \in S : g[r].parti = p /\ g[r].tablo = r.tablo /\ (g[r].no = Yok <=> r.tablo \notin DNumaralilar)
  BY <1>3, <1>7
<1>9. IsFiniteSet(DYeniler(p, f, dolu))
  BY <1>2, <1>6, FS_Surjection
<1> QED BY <1>4, <1>8, <1>9

(* Requests that go on keep the numbers they have found taken.             *)
LEMMA DBitirDolu ==
  ASSUME AktarimInv, DSatirTipleri, NEW a \in DIstek, DBitir(a), NEW b \in DIstek, DIslemKaydi(dIstek'[b])
  PROVE  IsFiniteSet(dIstek'[b].dolu)
<1>1. dIstek'[b] = Bitti \/ dIstek'[b] = dIstek[b]
      \/ (dIstek[b].adim \in {"islem", "yaz", "hata"} /\ dIstek'[b] = [dIstek[b] EXCEPT !.bayat = TRUE])
  BY DEF DBitir
<1>2. dIstek'[b] # Bitti
  BY DAdimda
<1>3. CASE dIstek'[b] = dIstek[b]
  BY <1>3 DEF DSatirTipleri
<1>4. CASE dIstek[b].adim \in {"islem", "yaz", "hata"} /\ dIstek'[b] = [dIstek[b] EXCEPT !.bayat = TRUE]
  <2>1. DIslemKaydi(dIstek[b]) /\ IsFiniteSet(dIstek[b].dolu)
    BY <1>4, DAdimda DEF DSatirTipleri
  <2>2. dIstek'[b].dolu = dIstek[b].dolu
    <3>1. PICK r, q : r = dIstek[b] /\ q = dIstek'[b]
      OBVIOUS
    <3>2. r = [adim |-> r.adim, dosya |-> r.dosya, parti |-> r.parti, dolu |-> r.dolu, ayar |-> r.ayar, bayat |-> r.bayat]
      BY <2>1, <3>1 DEF DIslemKaydi
    <3>3. q = [r EXCEPT !.bayat = TRUE]
      BY <1>4, <3>1
    <3>4. q.dolu = r.dolu
      BY <3>2, <3>3
    <3> QED BY <3>1, <3>4
  <2> QED BY <2>1, <2>2
<1> QED BY <1>1, <1>2, <1>3, <1>4

LEMMA DIlerlerDolu ==
  ASSUME AktarimInv, DSatirTipleri, NEW a \in DIstek, NEW k, DIlerlet(a, k), DIslemKaydi(k) => IsFiniteSet(k.dolu),
         UNCHANGED <<dKayit, dSasan>>
  PROVE  DSatirTipleri'
<1>1. \A b \in DIstek : dIstek'[b] = IF b = a THEN k ELSE dIstek[b]
  BY DEF DIlerlet, AktarimInv, DTipler
<1>2. \A b \in DIstek : DIslemKaydi(dIstek'[b]) => IsFiniteSet(dIstek'[b].dolu)
  BY <1>1 DEF DSatirTipleri
<1>3. \A b \in DIstek : DIslemKaydi(dIstek[b])' => DIslemKaydi(dIstek'[b])
  BY DEF DIslemKaydi
<1> QED BY <1>2, <1>3 DEF DSatirTipleri

LEMMA DNumaralarSonlu ==
  ASSUME DSatirTipleri
  PROVE  IsFiniteSet(DNumaralar)
<1>1. PICK K : K = dKayit
  OBVIOUS
<1>2. IsFiniteSet({k.no : k \in K})
  <2>1. PICK g : g = [k \in K |-> k.no]
    OBVIOUS
  <2>2. PICK N : N = {k.no : k \in K}
    OBVIOUS
  <2>3. g \in Surjection(K, N)
    BY <2>1, <2>2 DEF Surjection
  <2>4. IsFiniteSet(N)
    BY <1>1, <2>3, FS_Surjection DEF DSatirTipleri
  <2> QED BY <2>2, <2>4
<1>3. DNumaralar \subseteq {k.no : k \in K}
  BY <1>1 DEF DNumaralar
<1> QED BY <1>2, <1>3, FS_Subset

(* Type correctness of imports.                                            *)
THEOREM AktarimTipiKorunur == AktarimSpec => []AktarimTypeOK
<1>1. AktarimInit => DSatirTipleri
  <2> SUFFICES ASSUME AktarimInit PROVE DSatirTipleri
    OBVIOUS
  <2>1. dKayit = {} /\ dSasan = {} /\ \A a \in DIstek : dIstek[a] = Bos
    BY DEF AktarimInit
  <2>2. ~DIslemKaydi(Bos)
    BY DEF DIslemKaydi, Bos
  <2> QED BY <2>1, <2>2, FS_EmptySet DEF DSatirTipleri
<1>2. ASSUME AktarimInv, DSatirTipleri, [AktarimNext]_aktarimVars PROVE DSatirTipleri'
  <2>1. ASSUME NEW a \in DIstek, DOnizle(a) PROVE DSatirTipleri'
    <3>1. PICK f \in Dosyalar : DIlerlet(a, [adim |-> "onizle", dosya |-> f])
      BY <2>1 DEF DOnizle
    <3>2. ~DIslemKaydi([adim |-> "onizle", dosya |-> f])
      BY <1>2, DAdimda
    <3> QED BY <1>2, <2>1, <3>1, <3>2, DIlerlerDolu DEF DOnizle
  <2>2. ASSUME NEW a \in DIstek, DPartiAc(a) \/ DDuser(a) PROVE DSatirTipleri'
    <3>1. DIlerlet(a, Bitti) /\ UNCHANGED <<dKayit, dSasan>>
      BY <2>2 DEF DPartiAc, DDuser
    <3>2. ~DIslemKaydi(Bitti)
      BY DEF DIslemKaydi, Bitti
    <3> QED BY <1>2, <3>1, <3>2, DIlerlerDolu
  <2>3. ASSUME NEW a \in DIstek, DKontrol(a) PROVE DSatirTipleri'
    <3>1. PICK p \in DParti, f \in Dosyalar :
            DIlerlet(a, [adim |-> "islem", dosya |-> f, parti |-> p, dolu |-> {}, ayar |-> Yok, bayat |-> FALSE])
      BY <2>3 DEF DKontrol
    <3>2. PICK k : k = [adim |-> "islem", dosya |-> f, parti |-> p, dolu |-> {}, ayar |-> Yok, bayat |-> FALSE]
      OBVIOUS
    <3>3. IsFiniteSet(k.dolu)
      BY <3>2, FS_EmptySet
    <3> QED BY <1>2, <2>3, <3>1, <3>2, <3>3, DIlerlerDolu DEF DKontrol
  <2>4. ASSUME NEW a \in DIstek, DIslemOku(a) \/ DIslemKalir(a) PROVE DSatirTipleri'
    <3>1. PICK r : r = dIstek[a]
      OBVIOUS
    <3>2. DIslemKaydi(r) /\ IsFiniteSet(r.dolu)
      BY <1>2, <2>4, <3>1, DAdimda DEF DIslemOku, DIslemKalir, DSatirTipleri
    <3>3. PICK k : /\ (k = [r EXCEPT !.adim = "yaz", !.dolu = DNumaralar, !.ayar = dAyar] \/ k = [r EXCEPT !.adim = "hata"])
                   /\ DIlerlet(a, k)
      BY <2>4, <3>1 DEF DIslemOku, DIslemKalir
    <3>4. k.dolu = DNumaralar \/ k.dolu = r.dolu
      BY <3>2, <3>3 DEF DIslemKaydi
    <3>5. IsFiniteSet(k.dolu)
      BY <1>2, <3>2, <3>4, DNumaralarSonlu
    <3> QED BY <1>2, <2>4, <3>3, <3>5, DIlerlerDolu DEF DIslemOku, DIslemKalir
  <2>5. ASSUME NEW a \in DIstek, DIslemYaz(a) PROVE DSatirTipleri'
    <3>1. PICK r : r = dIstek[a]
      OBVIOUS
    <3>2. DIslemKaydi(r) /\ IsFiniteSet(r.dolu) /\ r.dosya \in Dosyalar /\ r.parti \in DParti
      BY <1>2, <2>5, <3>1, DAdimda DEF DIslemYaz, DSatirTipleri, DIslemKaydi
    <3>3. dKayit' = dKayit \cup DYeniler(r.parti, r.dosya, r.dolu) /\ DBitir(a)
      BY <2>5, <3>1 DEF DIslemYaz
    <3>4. dSasan' = dSasan \cup (IF r.bayat THEN {r.dosya} ELSE {}) \cup (IF r.dolu # DNumaralar THEN {"no"} ELSE {})
                           \cup (IF r.ayar # dAyar THEN {"ayar"} ELSE {})
      BY <2>5, <3>1 DEF DIslemYaz
    <3>5. PICK Y : Y = DYeniler(r.parti, r.dosya, r.dolu)
      OBVIOUS
    <3>6. IsFiniteSet(Y) /\ \A k \in Y : k.parti = r.parti /\ (k.no = Yok <=> k.tablo \notin DNumaralilar)
      BY <3>2, <3>5, DYenilerTipli
    <3>7. IsFiniteSet(dKayit')
      BY <1>2, <3>3, <3>5, <3>6, FS_Union DEF DSatirTipleri
    <3>8. dSasan' \subseteq Dosyalar \cup {"no", "ayar"}
      BY <1>2, <3>2, <3>4 DEF DSatirTipleri
    <3>9. \A k \in dKayit' : k.parti \in DParti \cup {Yok} /\ (k.no = Yok <=> k.tablo \notin DNumaralilar)
      BY <1>2, <3>2, <3>3, <3>5, <3>6 DEF DSatirTipleri
    <3>10. \A b \in DIstek : DIslemKaydi(dIstek[b])' => IsFiniteSet(dIstek'[b].dolu)
      <4>1. \A b \in DIstek : DIslemKaydi(dIstek'[b]) => IsFiniteSet(dIstek'[b].dolu)
        BY <1>2, <2>5, <3>3, DBitirDolu
      <4> QED BY <4>1 DEF DIslemKaydi
    <3> QED BY <3>7, <3>8, <3>9, <3>10 DEF DSatirTipleri
  <2>6. ASSUME NEW a \in DIstek, DHata(a) PROVE DSatirTipleri'
    <3>1. PICK r : r = dIstek[a]
      OBVIOUS
    <3>2. r.dosya \in Dosyalar /\ DBitir(a) /\ dKayit' = dKayit
      BY <1>2, <2>6, <3>1, DAdimda DEF DHata, DIslemKaydi
    <3>3. dSasan' = dSasan \cup (IF r.bayat THEN {r.dosya} ELSE {})
      BY <2>6, <3>1 DEF DHata
    <3>4. \A b \in DIstek : DIslemKaydi(dIstek[b])' => IsFiniteSet(dIstek'[b].dolu)
      <4>1. \A b \in DIstek : DIslemKaydi(dIstek'[b]) => IsFiniteSet(dIstek'[b].dolu)
        BY <1>2, <2>6, <3>2, DBitirDolu
      <4> QED BY <4>1 DEF DIslemKaydi
    <3> QED BY <1>2, <3>2, <3>3, <3>4 DEF DSatirTipleri
  <2>7. CASE DElle
    <3>1. PICK n \in DElden, t \in DNumaralilar :
            dKayit' = dKayit \cup {[parti |-> Yok, satir |-> Yok, tablo |-> t, no |-> DHam(n)]}
      BY <2>7 DEF DElle
    <3>2. PICK x : x = [parti |-> Yok, satir |-> Yok, tablo |-> t, no |-> DHam(n)]
      OBVIOUS
    <3>3. DHam(n) # Yok
      BY AktarimVarsayimi DEF DHam
    <3>4. x.parti = Yok /\ x.no # Yok /\ x.tablo \in DNumaralilar
      BY <3>2, <3>3
    <3>5. dKayit' = dKayit \cup {x} /\ dIstek' = dIstek /\ dSasan' = dSasan
      BY <2>7, <3>1, <3>2 DEF DElle
    <3>6. IsFiniteSet(dKayit')
      BY <1>2, <3>5, FS_AddElement DEF DSatirTipleri
    <3>7. \A b \in DIstek : DIslemKaydi(dIstek[b])' => IsFiniteSet(dIstek'[b].dolu)
      BY <1>2, <3>5 DEF DSatirTipleri, DIslemKaydi
    <3> QED BY <1>2, <3>4, <3>5, <3>6, <3>7 DEF DSatirTipleri
  <2>8. CASE DAyarYaz \/ UNCHANGED aktarimVars
    <3>1. UNCHANGED <<dKayit, dSasan, dIstek>>
      BY <2>8 DEF DAyarYaz, aktarimVars
    <3> QED BY <1>2, <3>1 DEF DSatirTipleri, DIslemKaydi
  <2> QED BY <1>2, <2>1, <2>2, <2>3, <2>4, <2>5, <2>6, <2>7, <2>8 DEF AktarimNext
<1>3. AktarimInv /\ DSatirTipleri => AktarimTypeOK
  <2> SUFFICES ASSUME AktarimInv, DSatirTipleri PROVE AktarimTypeOK
    OBVIOUS
  <2>1. ASSUME NEW a \in DIstek PROVE dIstek[a].adim \in {"bos", "onizle", "islem", "yaz", "hata", "bitti"}
    <3>1. dIstek[a] \in {Bos, Bitti} \cup [adim : {"onizle"}, dosya : Dosyalar] \/ DIslemKaydi(dIstek[a])
      BY DEF AktarimInv, DTipler
    <3> QED BY <3>1 DEF Bos, Bitti, DIslemKaydi
  <2> QED BY <2>1 DEF AktarimInv, DTipler, DPartiSatiri, DSatirTipleri, AktarimTypeOK
<1> QED BY <1>1, <1>2, <1>3, AktarimDegismez, PTL DEF AktarimSpec

-----------------------------------------------------------------------------
(* The services of an office, looked at one at a time: a behaviour of the  *)
(* composition is one of every service, which the others leave alone.      *)

(* What is shown of the services holds of what the run checks.             *)
THEOREM BuroParcalari ==
  BuroSpec => /\ OturumSpec /\ HatirlatmaSpec /\ KurulumSpec /\ RandevuSpec /\ IletiSpec
              /\ YedekSpec /\ BagSpec /\ SablonSpec /\ KadroSpec /\ AktarimSpec
<1>1. BuroInit => /\ OturumInit /\ HatirlatmaInit /\ KurulumInit /\ RandevuInit /\ IletiInit
                  /\ YedekInit /\ BagInit /\ SablonInit /\ KadroInit /\ AktarimInit
  BY DEF BuroInit
<1>2. LisansParcasi => HatirlatmaNext
  BY DEF LisansParcasi, HatirlatmaNext
<1>3. [BuroNext]_<<parca, oturumVars, hatirlatmaVars, kurulumVars, randevuVars,
                   iletiVars, yedekVars, bagVars, sablonVars, kadroVars, aktarimVars>>
        => /\ [OturumNext]_oturumVars /\ [HatirlatmaNext]_hatirlatmaVars /\ [KurulumNext]_kurulumVars
           /\ [RandevuNext]_randevuVars /\ [IletiNext]_iletiVars /\ [YedekNext]_yedekVars
           /\ [BagNext]_bagVars /\ [SablonNext]_sablonVars /\ [KadroNext]_kadroVars /\ [AktarimNext]_aktarimVars
  BY <1>2 DEF BuroNext, Kalan, Lisanslar
<1> QED BY <1>1, <1>3, PTL
        DEF BuroSpec, OturumSpec, HatirlatmaSpec, KurulumSpec, RandevuSpec, IletiSpec,
            YedekSpec, BagSpec, SablonSpec, KadroSpec, AktarimSpec

(* Whichever service is looked at, its rows and requests keep their types. *)
THEOREM BuroTipi == BuroSpec => []BuroTypeOK
<1>1. OturumTypeOK /\ HatirlatmaTypeOK /\ KurulumTypeOK /\ RandevuTypeOK /\ IletiTypeOK /\ YedekTypeOK
        /\ BagTypeOK /\ SablonTypeOK /\ KadroTypeOK /\ AktarimTypeOK => BuroTypeOK
  BY DEF BuroTypeOK
<1> QED BY <1>1, BuroParcalari, OturumTipi, LisansTipiKorunur, KurulumTipiKorunur, RandevuTipiKorunur, IletiTipiKorunur,
           YedekTipiKorunur, BagTipiKorunur, SablonTipiKorunur, KadroTipiKorunur, AktarimTipiKorunur, PTL
=============================================================================
