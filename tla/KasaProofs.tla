----------------------------- MODULE KasaProofs -----------------------------
(***************************************************************************)
(* The office cash book for any number of rows and requests.  What a       *)
(* request has read of a row it decides on still holds, or the request is  *)
(* marked; so a row changes against its state only on a marked write.      *)
(***************************************************************************)
EXTENDS OfisKasa, TLAPS

Bacak == {"DOVIZ_CIKIS", "DOVIZ_GIRIS"}
KasaIstekKaydi ==
  {Bos, Bitti}
  \cup [adim : {"ONAYLI", "REDDEDILDI", "duzelt", "sil"}, r : KSatir, bayat : BOOLEAN]
  \cup [adim : {"gsil"}, r : KSatir, bayat : BOOLEAN, ilgili : SUBSET KSatir]

KasaTipi ==
  /\ kasa \in [KSatir -> KasaKaydi \cup {Yok}]
  /\ kasaIstek \in [KasaIstek -> KasaIstekKaydi]
  /\ kKayip \subseteq KSatir /\ kSasan \subseteq KSatir

(***************************************************************************)
(* The inductive invariant.  A request's row was there; one that decides   *)
(* or corrects, and is not marked, still finds it as it was read; a safe   *)
(* delete holds corrections only.                                          *)
(***************************************************************************)
IstekDogru(a) ==
  kasaIstek[a] \notin {Bos, Bitti} =>
    LET i == kasaIstek[a]  r == kasaIstek[a].r IN
    /\ kasa[r] # Yok
    /\ r \in KDolu /\ ~i.bayat =>
         /\ i.adim \in {"ONAYLI", "REDDEDILDI"} => kasa[r].onay = "ONAYSIZ"
         /\ i.adim = "duzelt" => kasa[r].onay = "ONAYLI"
    /\ i.adim = "duzelt" => kasa[r].tip # "DUZELTME"
    /\ i.adim = "gsil" => \A s \in i.ilgili : kasa[s] # Yok /\ kasa[s].tip = "DUZELTME"

IstekTutarli == \A a \in KasaIstek : IstekDogru(a)

\* The two legs of an exchange are different rows that name each other; a
\* correction's original is in the book and is no correction.
SatirDogru(r) ==
  /\ kasa[r].tip \in Bacak =>
       /\ kasa[r].bag \in KDolu /\ kasa[r].bag # r
       /\ kasa[kasa[r].bag].tip \in Bacak /\ kasa[kasa[r].bag].bag = r
  /\ kasa[r].tip = "DUZELTME" =>
       IF kasa[r].bag = Yok THEN kSasan # {}
       ELSE LET o == kasa[kasa[r].bag] IN
            /\ kasa[r].bag \in KDolu /\ o.tip # "DUZELTME"
            /\ o.onay = "ONAYLI" \/ kasa[r].bag \in kSasan
            /\ o.silindi /\ ~kasa[r].silindi => kasa[r].gec \/ kasa[r].bag \in kSasan

SatirlarDogru == \A r \in KDolu : SatirDogru(r)

KasaInv == KasaTipi /\ IstekTutarli /\ SatirlarDogru /\ kKayip \subseteq kSasan
-----------------------------------------------------------------------------
(* Rows and requests *)

(* A row that is there is a record of the book.                            *)
LEMMA SatirTipi ==
  ASSUME KasaTipi, NEW r \in KSatir, kasa[r] # Yok
  PROVE  /\ kasa[r] \in KasaKaydi
         /\ r \in KDolu => kasa[r] \in KasaSatiri
<1>1. kasa[r] \in KasaKaydi
  BY DEF KasaTipi
<1> QED BY <1>1 DEF KasaKaydi, KasaSatiri, KDolu

(* What each kind of request knows.                                        *)
LEMMA IstekTipi ==
  ASSUME KasaTipi, NEW a \in KasaIstek, kasaIstek[a] \notin {Bos, Bitti}
  PROVE  /\ kasaIstek[a].adim \in {"ONAYLI", "REDDEDILDI", "duzelt", "sil", "gsil"}
         /\ kasaIstek[a].r \in KSatir /\ kasaIstek[a].bayat \in BOOLEAN
         /\ kasaIstek[a].adim = "gsil" => kasaIstek[a].ilgili \subseteq KSatir
         /\ [kasaIstek[a] EXCEPT !.bayat = TRUE] \in KasaIstekKaydi
<1>1. kasaIstek[a] \in KasaIstekKaydi
  BY DEF KasaTipi
<1>2. CASE kasaIstek[a] \in [adim : {"ONAYLI", "REDDEDILDI", "duzelt", "sil"}, r : KSatir, bayat : BOOLEAN]
  BY <1>2 DEF KasaIstekKaydi
<1>3. CASE kasaIstek[a] \in [adim : {"gsil"}, r : KSatir, bayat : BOOLEAN, ilgili : SUBSET KSatir]
  BY <1>3 DEF KasaIstekKaydi
<1> QED BY <1>1, <1>2, <1>3 DEF KasaIstekKaydi

LEMMA AdimBos ==
  ASSUME NEW a, kasaIstek[a] \in {Bos, Bitti}
  PROVE  kasaIstek[a].adim \in {"bos", "bitti"}
BY DEF Bos, Bitti

(* A request that reads changes no other and was not under way.            *)
LEMMA OkuIstek ==
  ASSUME KasaTipi, NEW a \in KasaIstek, NEW k \in KasaIstekKaydi, KGelir(a, k)
  PROVE  /\ kasaIstek' \in [KasaIstek -> KasaIstekKaydi]
         /\ kasaIstek'[a] = k
         /\ \A b \in KasaIstek \ {a} : kasaIstek'[b] = kasaIstek[b]
BY DEF KasaTipi, KGelir

(* A write marks the others on its row and leaves the rest as they are.    *)
LEMMA SonucIstek ==
  ASSUME KasaTipi, NEW a \in KasaIstek, NEW r \in KSatir, KSonuc(a, r)
  PROVE  /\ kasaIstek' \in [KasaIstek -> KasaIstekKaydi] /\ kSasan' \subseteq KSatir
         /\ kSasan \subseteq kSasan' /\ (kasaIstek[a].bayat => r \in kSasan')
         /\ kasaIstek'[a] = Bitti
         /\ \A b \in KasaIstek \ {a} :
              \/ kasaIstek'[b] = kasaIstek[b] /\ (kasaIstek[b] \notin {Bos, Bitti} => kasaIstek[b].r # r)
              \/ /\ kasaIstek[b] \notin {Bos, Bitti} /\ kasaIstek[b].r = r
                 /\ kasaIstek'[b] = [kasaIstek[b] EXCEPT !.bayat = TRUE]
<1>1. \A b \in KasaIstek \ {a} :
        kasaIstek'[b] = IF kasaIstek[b] \in {Bos, Bitti} \/ kasaIstek[b].r # r THEN kasaIstek[b]
                        ELSE [kasaIstek[b] EXCEPT !.bayat = TRUE]
  BY DEF KSonuc
<1>2. kasaIstek'[a] = Bitti /\ DOMAIN kasaIstek' = KasaIstek
  BY DEF KSonuc
<1>3. \A b \in KasaIstek : kasaIstek'[b] \in KasaIstekKaydi
  <2>1. ASSUME NEW b \in KasaIstek, b # a PROVE kasaIstek'[b] \in KasaIstekKaydi
    <3>1. kasaIstek[b] \in KasaIstekKaydi
      BY DEF KasaTipi
    <3>2. kasaIstek[b] \notin {Bos, Bitti} => [kasaIstek[b] EXCEPT !.bayat = TRUE] \in KasaIstekKaydi
      BY IstekTipi
    <3> QED BY <1>1, <2>1, <3>1, <3>2
  <2> QED BY <1>2, <2>1 DEF KasaIstekKaydi
<1>4. kasaIstek' \in [KasaIstek -> KasaIstekKaydi]
  BY <1>3 DEF KSonuc
<1>5. kSasan' \subseteq KSatir /\ kSasan \subseteq kSasan' /\ (kasaIstek[a].bayat => r \in kSasan')
  BY DEF KSonuc, KasaTipi
<1> QED BY <1>1, <1>2, <1>4, <1>5

(* Rows that stay keep their kind, and one that goes does not come back.   *)
Surer ==
  \A s \in KSatir : kasa[s] # Yok =>
    kasa'[s] # Yok /\ kasa'[s].tip = kasa[s].tip /\ (s \in KDolu' => s \in KDolu)

(* A request that goes on as it was, or marked, stays right when its row   *)
(* keeps its state or it is marked.                                        *)
LEMMA IstekSurer ==
  ASSUME KasaTipi, NEW b \in KasaIstek, IstekDogru(b), Surer,
         \/ kasaIstek'[b] = kasaIstek[b]
         \/ /\ kasaIstek[b] \notin {Bos, Bitti}
            /\ kasaIstek'[b] = [kasaIstek[b] EXCEPT !.bayat = TRUE],
         kasaIstek[b] \notin {Bos, Bitti} /\ kasaIstek[b].r \in KDolu' =>
           kasaIstek'[b].bayat \/ kasa'[kasaIstek[b].r].onay = kasa[kasaIstek[b].r].onay
  PROVE  IstekDogru(b)'
<1>0. PICK i : i = b
  OBVIOUS
<1>1. CASE kasaIstek[b] \in {Bos, Bitti}
  BY <1>0, <1>1 DEF IstekDogru
<1>2. CASE kasaIstek[b] \notin {Bos, Bitti}
  <2>1. /\ kasaIstek[b].r \in KSatir /\ kasaIstek[b].bayat \in BOOLEAN
        /\ kasaIstek[b].adim = "gsil" => kasaIstek[b].ilgili \subseteq KSatir
    BY <1>2, IstekTipi
  <2>2. /\ kasaIstek'[b].r = kasaIstek[b].r /\ kasaIstek'[b].adim = kasaIstek[b].adim
        /\ kasaIstek[b].adim = "gsil" => kasaIstek'[b].ilgili = kasaIstek[b].ilgili
        /\ kasaIstek[b].bayat => kasaIstek'[b].bayat
    <3>1. kasaIstek[b] \in KasaIstekKaydi
      BY DEF KasaTipi
    <3>2. CASE kasaIstek[b] \in [adim : {"gsil"}, r : KSatir, bayat : BOOLEAN, ilgili : SUBSET KSatir]
      BY <3>2
    <3>3. CASE kasaIstek[b] \in [adim : {"ONAYLI", "REDDEDILDI", "duzelt", "sil"}, r : KSatir, bayat : BOOLEAN]
      BY <3>3
    <3> QED BY <1>2, <3>1, <3>2, <3>3 DEF KasaIstekKaydi
  <2>3. PICK r : r = kasaIstek[b].r
    OBVIOUS
  <2>4. kasa[r] # Yok /\ kasa'[r] # Yok /\ kasa'[r].tip = kasa[r].tip /\ (r \in KDolu' => r \in KDolu)
    BY <1>2, <2>1, <2>3 DEF IstekDogru, Surer
  <2>5. r \in KDolu' /\ ~kasaIstek'[b].bayat =>
          r \in KDolu /\ ~kasaIstek[b].bayat /\ kasa'[r].onay = kasa[r].onay
    BY <1>2, <2>2, <2>3, <2>4
  <2>6. kasaIstek[b].adim = "gsil" =>
          \A s \in kasaIstek[b].ilgili : kasa'[s] # Yok /\ kasa'[s].tip = "DUZELTME"
    BY <1>2, <2>1 DEF IstekDogru, Surer
  <2>7. /\ kasaIstek[b].adim = "duzelt" => kasa[r].tip # "DUZELTME"
        /\ r \in KDolu /\ ~kasaIstek[b].bayat =>
             /\ kasaIstek[b].adim \in {"ONAYLI", "REDDEDILDI"} => kasa[r].onay = "ONAYSIZ"
             /\ kasaIstek[b].adim = "duzelt" => kasa[r].onay = "ONAYLI"
    BY <1>2, <2>3 DEF IstekDogru
  <2> QED BY <1>0, <2>2, <2>3, <2>4, <2>5, <2>6, <2>7 DEF IstekDogru
<1> QED BY <1>1, <1>2
-----------------------------------------------------------------------------
(* The operations *)

(* A new row that nothing names yet leaves the rules of the others alone.  *)
LEMMA EkleKorur ==
  ASSUME KasaInv, KEkle
  PROVE  KasaInv'
<1>1. PICK r \in KSatir, tip \in {"GELIR", "GIDER"} :
        kasa[r] = Yok /\ kasa' = [kasa EXCEPT ![r] = KYeni(tip, Yok, FALSE)]
  BY DEF KEkle, KBos, Ilk
<1>2. KasaTipi
  BY DEF KasaInv
<1>3. PICK y : y = KYeni(tip, Yok, FALSE)
  OBVIOUS
<1>4. y \in KasaKaydi /\ y # Yok /\ y.tip = tip /\ y.onay = "ONAYSIZ" /\ y.bag = Yok
  <2>1. y \in KasaKaydi
    BY <1>3 DEF KYeni, KasaKaydi
  <2> QED BY <1>3, <2>1, KasaVarsayimi DEF KYeni
<1>5. kasa' \in [KSatir -> KasaKaydi \cup {Yok}] /\ kasa'[r] = y /\ \A s \in KSatir \ {r} : kasa'[s] = kasa[s]
  BY <1>1, <1>2, <1>3, <1>4 DEF KasaTipi
<1>6. KDolu' = KDolu \cup {r} /\ r \notin KDolu /\ KDolu \subseteq KSatir
  BY <1>1, <1>4, <1>5 DEF KDolu
<1>7. Surer /\ UNCHANGED <<kasaIstek, kKayip, kSasan>>
  BY <1>1, <1>5, <1>6 DEF Surer, KEkle
<1>8. KasaTipi'
  BY <1>2, <1>5, <1>7 DEF KasaTipi
<1>9. IstekTutarli'
  <2>1. ASSUME NEW b \in KasaIstek PROVE IstekDogru(b)'
    <3>1. IstekDogru(b)
      BY DEF KasaInv, IstekTutarli
    <3>2. kasaIstek[b] \notin {Bos, Bitti} => kasaIstek[b].r \in KSatir /\ kasaIstek[b].r # r
      BY <1>1, <1>2, <3>1, IstekTipi DEF IstekDogru
    <3> QED BY <1>2, <1>5, <1>7, <3>1, <3>2, IstekSurer
  <2> QED BY <1>7, <2>1 DEF IstekTutarli
<1>10. ASSUME NEW s \in KDolu' PROVE SatirDogru(s)'
  <2>0. PICK t : t = s
    OBVIOUS
  <2>1. CASE s = r
    BY <1>4, <1>5, <2>0, <2>1 DEF SatirDogru, Bacak
  <2>2. CASE s # r
    <3>1. s \in KDolu /\ SatirDogru(s)
      BY <1>6, <2>2 DEF KasaInv, SatirlarDogru
    <3>2. kasa'[s] = kasa[s] /\ \A o \in KDolu : kasa'[o] = kasa[o] /\ o \in KDolu'
      BY <1>5, <1>6, <3>1
    <3> QED BY <1>7, <2>0, <3>1, <3>2 DEF SatirDogru
  <2> QED BY <2>1, <2>2
<1>11. SatirlarDogru'
  BY <1>10 DEF SatirlarDogru
<1> QED BY <1>7, <1>8, <1>9, <1>11 DEF KasaInv
(* The legs of an exchange come together and name each other.              *)
LEMMA DonusturKorur ==
  ASSUME KasaInv, KDonustur
  PROVE  KasaInv'
<1>1. PICK r \in KSatir, q \in KSatir :
        /\ kasa[r] = Yok /\ kasa[q] = Yok /\ q # r
        /\ kasa' = [kasa EXCEPT ![r] = KYeni("DOVIZ_CIKIS", q, FALSE), ![q] = KYeni("DOVIZ_GIRIS", r, FALSE)]
  BY DEF KDonustur, KBos, Ilk
<1>2. KasaTipi
  BY DEF KasaInv
<1>3. PICK y, z : y = KYeni("DOVIZ_CIKIS", q, FALSE) /\ z = KYeni("DOVIZ_GIRIS", r, FALSE)
  OBVIOUS
<1>4. /\ y \in KasaKaydi /\ y # Yok /\ y.tip = "DOVIZ_CIKIS" /\ y.onay = "ONAYSIZ" /\ y.bag = q
      /\ z \in KasaKaydi /\ z # Yok /\ z.tip = "DOVIZ_GIRIS" /\ z.onay = "ONAYSIZ" /\ z.bag = r
  <2>1. y \in KasaKaydi /\ z \in KasaKaydi
    BY <1>3 DEF KYeni, KasaKaydi
  <2> QED BY <1>3, <2>1, KasaVarsayimi DEF KYeni
<1>5. /\ kasa' \in [KSatir -> KasaKaydi \cup {Yok}] /\ kasa'[r] = y /\ kasa'[q] = z
      /\ \A s \in KSatir \ {r, q} : kasa'[s] = kasa[s]
  BY <1>1, <1>2, <1>3, <1>4 DEF KasaTipi
<1>6. KDolu' = KDolu \cup {r, q} /\ r \notin KDolu /\ q \notin KDolu /\ KDolu \subseteq KSatir
  <2>1. \A s \in KSatir : s \in KDolu' <=> s \in KDolu \/ s = r \/ s = q
    BY <1>1, <1>4, <1>5 DEF KDolu
  <2>2. KDolu \subseteq KSatir /\ KDolu' \subseteq KSatir /\ r \notin KDolu /\ q \notin KDolu
    BY <1>1 DEF KDolu
  <2> QED BY <2>1, <2>2
<1>7. Surer /\ UNCHANGED <<kasaIstek, kKayip, kSasan>>
  BY <1>1, <1>5, <1>6 DEF Surer, KDonustur
<1>8. KasaTipi'
  BY <1>2, <1>5, <1>7 DEF KasaTipi
<1>9. IstekTutarli'
  <2>1. ASSUME NEW b \in KasaIstek PROVE IstekDogru(b)'
    <3>1. IstekDogru(b)
      BY DEF KasaInv, IstekTutarli
    <3>2. kasaIstek[b] \notin {Bos, Bitti} => kasaIstek[b].r \in KSatir \ {r, q}
      BY <1>1, <1>2, <3>1, IstekTipi DEF IstekDogru
    <3> QED BY <1>2, <1>5, <1>7, <3>1, <3>2, IstekSurer
  <2> QED BY <1>7, <2>1 DEF IstekTutarli
<1>10. ASSUME NEW s \in KDolu' PROVE SatirDogru(s)'
  <2>0. PICK t : t = s
    OBVIOUS
  <2>1. CASE s = r
    BY <1>1, <1>4, <1>5, <1>6, <2>0, <2>1 DEF SatirDogru, Bacak
  <2>2. CASE s = q
    BY <1>1, <1>4, <1>5, <1>6, <2>0, <2>2 DEF SatirDogru, Bacak
  <2>3. CASE s # r /\ s # q
    <3>1. s \in KDolu /\ SatirDogru(s)
      BY <1>6, <2>3 DEF KasaInv, SatirlarDogru
    <3>2. kasa'[s] = kasa[s] /\ \A o \in KDolu : kasa'[o] = kasa[o] /\ o \in KDolu'
      BY <1>5, <1>6, <3>1
    <3> QED BY <1>7, <2>0, <3>1, <3>2 DEF SatirDogru
  <2> QED BY <2>1, <2>2, <2>3
<1>11. SatirlarDogru'
  BY <1>10 DEF SatirlarDogru
<1> QED BY <1>7, <1>8, <1>9, <1>11 DEF KasaInv

(* A read only adds a request that is right.                               *)
LEMMA OkuKorur ==
  ASSUME KasaInv, NEW a \in KasaIstek, NEW k \in KasaIstekKaydi, KGelir(a, k),
         UNCHANGED <<kasa, kKayip, kSasan>>,
         k.r \in KDolu, k.bayat = FALSE,
         k.adim \in {"ONAYLI", "REDDEDILDI"} => kasa[k.r].onay = "ONAYSIZ",
         k.adim = "duzelt" => kasa[k.r].onay = "ONAYLI" /\ kasa[k.r].tip # "DUZELTME",
         k.adim = "gsil" => \A s \in k.ilgili : s \in KDolu /\ kasa[s].tip = "DUZELTME"
  PROVE  KasaInv'
<1>1. KasaTipi
  BY DEF KasaInv
<1>2. /\ kasaIstek' \in [KasaIstek -> KasaIstekKaydi]
      /\ kasaIstek'[a] = k
      /\ \A b \in KasaIstek \ {a} : kasaIstek'[b] = kasaIstek[b]
  BY <1>1, OkuIstek
<1>3. KDolu' = KDolu /\ Surer
  BY DEF KDolu, Surer
<1>4. KasaTipi'
  BY <1>1, <1>2 DEF KasaTipi
<1>5. ASSUME NEW b \in KasaIstek PROVE IstekDogru(b)'
  <2>0. PICK i : i = b
    OBVIOUS
  <2>1. CASE b = a
    <3>1. kasa[k.r] # Yok /\ \A s \in KDolu : kasa[s] # Yok
      BY DEF KDolu
    <3> QED BY <1>2, <1>3, <2>0, <2>1, <3>1 DEF IstekDogru
  <2>2. CASE b # a
    <3>1. IstekDogru(b)
      BY DEF KasaInv, IstekTutarli
    <3> QED BY <1>1, <1>2, <1>3, <2>2, <3>1, IstekSurer
  <2> QED BY <2>1, <2>2
<1>6. SatirlarDogru'
  BY <1>3 DEF KasaInv, SatirlarDogru, SatirDogru
<1> QED BY <1>4, <1>5, <1>6 DEF KasaInv, IstekTutarli

(* A request that finds its row gone writes nothing.                       *)
LEMMA OlmazKorur ==
  ASSUME KasaInv, NEW a \in KasaIstek, KOlmaz(a)
  PROVE  KasaInv'
<1>1. KasaTipi
  BY DEF KasaInv
<1>2. /\ kasaIstek' \in [KasaIstek -> KasaIstekKaydi] /\ kasaIstek'[a] = Bitti
      /\ \A b \in KasaIstek \ {a} : kasaIstek'[b] = kasaIstek[b]
  BY <1>1 DEF KOlmaz, KasaTipi, KasaIstekKaydi
<1>3. KDolu' = KDolu /\ Surer /\ UNCHANGED <<kasa, kKayip, kSasan>>
  BY DEF KDolu, Surer, KOlmaz
<1>4. KasaTipi'
  BY <1>1, <1>2, <1>3 DEF KasaTipi
<1>5. ASSUME NEW b \in KasaIstek PROVE IstekDogru(b)'
  <2>0. PICK i : i = b
    OBVIOUS
  <2>1. CASE b = a
    BY <1>2, <2>0, <2>1 DEF IstekDogru
  <2>2. CASE b # a
    <3>1. IstekDogru(b)
      BY DEF KasaInv, IstekTutarli
    <3> QED BY <1>1, <1>2, <1>3, <2>2, <3>1, IstekSurer
  <2> QED BY <2>1, <2>2
<1>6. SatirlarDogru'
  BY <1>3 DEF KasaInv, SatirlarDogru, SatirDogru
<1> QED BY <1>3, <1>4, <1>5, <1>6 DEF KasaInv, IstekTutarli
(* What a write marks keeps the requests right: those on row r are marked, *)
(* the others find their rows with the state they have read.               *)
LEMMA SonucKorur ==
  ASSUME KasaInv, NEW a \in KasaIstek, NEW r \in KSatir, KSonuc(a, r), Surer,
         \A s \in KSatir : kasa[s] # Yok /\ s # r /\ s \in KDolu' => kasa'[s].onay = kasa[s].onay
  PROVE  IstekTutarli'
<1>1. KasaTipi
  BY DEF KasaInv
<1>2. /\ kasaIstek'[a] = Bitti
      /\ \A b \in KasaIstek \ {a} :
           \/ kasaIstek'[b] = kasaIstek[b] /\ (kasaIstek[b] \notin {Bos, Bitti} => kasaIstek[b].r # r)
           \/ /\ kasaIstek[b] \notin {Bos, Bitti} /\ kasaIstek[b].r = r
              /\ kasaIstek'[b] = [kasaIstek[b] EXCEPT !.bayat = TRUE]
  BY <1>1, SonucIstek
<1>3. ASSUME NEW b \in KasaIstek PROVE IstekDogru(b)'
  <2>0. PICK i : i = b
    OBVIOUS
  <2>1. CASE b = a
    BY <1>2, <2>0, <2>1 DEF IstekDogru
  <2>2. CASE b # a
    <3>1. IstekDogru(b)
      BY DEF KasaInv, IstekTutarli
    <3>2. CASE kasaIstek'[b] = kasaIstek[b] /\ (kasaIstek[b] \notin {Bos, Bitti} => kasaIstek[b].r # r)
      <4>1. kasaIstek[b] \notin {Bos, Bitti} => kasaIstek[b].r \in KSatir /\ kasa[kasaIstek[b].r] # Yok
        BY <1>1, <3>1, IstekTipi DEF IstekDogru
      <4> QED BY <1>1, <3>1, <3>2, <4>1, IstekSurer
    <3>3. CASE /\ kasaIstek[b] \notin {Bos, Bitti} /\ kasaIstek[b].r = r
               /\ kasaIstek'[b] = [kasaIstek[b] EXCEPT !.bayat = TRUE]
      <4>1. kasaIstek'[b].bayat
        <5>1. kasaIstek[b] \in KasaIstekKaydi
          BY <1>1 DEF KasaTipi
        <5>2. CASE kasaIstek[b] \in [adim : {"gsil"}, r : KSatir, bayat : BOOLEAN, ilgili : SUBSET KSatir]
          BY <3>3, <5>2
        <5>3. CASE kasaIstek[b] \in [adim : {"ONAYLI", "REDDEDILDI", "duzelt", "sil"}, r : KSatir, bayat : BOOLEAN]
          BY <3>3, <5>3
        <5> QED BY <3>3, <5>1, <5>2, <5>3 DEF KasaIstekKaydi
      <4> QED BY <1>1, <3>1, <3>3, <4>1, IstekSurer
    <3> QED BY <1>2, <2>2, <3>2, <3>3
  <2> QED BY <2>1, <2>2
<1> QED BY <1>3 DEF IstekTutarli

(* An approval or a rejection against the state of the row is a marked one.*)
LEMMA KararKorur ==
  ASSUME KasaInv, NEW a \in KasaIstek, KKararYaz(a), kasaIstek[a].r \in KDolu
  PROVE  KasaInv'
<1>1. PICK r, k : r = kasaIstek[a].r /\ k = kasaIstek[a].adim
  OBVIOUS
<1>2. /\ k \in {"ONAYLI", "REDDEDILDI"} /\ r \in KDolu
      /\ kasa' = [kasa EXCEPT ![r].onay = k] /\ KSonuc(a, r)
      /\ kKayip' = IF k = "REDDEDILDI" /\ kasa[r].onay = "ONAYLI" THEN kKayip \cup {r} ELSE kKayip
  BY <1>1 DEF KKararYaz
<1>3. KasaTipi /\ KDolu \subseteq KSatir
  BY DEF KasaInv, KDolu
<1>4. kasa[r] \in KasaSatiri /\ kasa[r] # Yok
  BY <1>2, <1>3, SatirTipi DEF KDolu
<1>5. PICK y : y = [kasa[r] EXCEPT !.onay = k]
  OBVIOUS
<1>6. /\ y \in KasaKaydi /\ y # Yok /\ y.onay = k /\ y.tip = kasa[r].tip /\ y.bag = kasa[r].bag
      /\ y.silindi = kasa[r].silindi /\ y.gec = kasa[r].gec
  <2>1. y \in KasaKaydi
    BY <1>2, <1>4, <1>5 DEF KasaSatiri, KasaKaydi
  <2> QED BY <1>4, <1>5, <2>1, KasaVarsayimi DEF KasaSatiri
<1>7. /\ kasa' \in [KSatir -> KasaKaydi \cup {Yok}] /\ kasa'[r] = y
      /\ \A s \in KSatir \ {r} : kasa'[s] = kasa[s]
  BY <1>2, <1>3, <1>5, <1>6 DEF KasaTipi
<1>8. KDolu' = KDolu
  <2>1. \A s \in KSatir : s \in KDolu' <=> s \in KDolu
    BY <1>2, <1>4, <1>6, <1>7 DEF KDolu
  <2>2. KDolu' \subseteq KSatir
    BY DEF KDolu
  <2> QED BY <1>3, <2>1, <2>2
<1>9. Surer
  BY <1>4, <1>6, <1>7, <1>8 DEF Surer
<1>10. /\ kasaIstek' \in [KasaIstek -> KasaIstekKaydi] /\ kSasan' \subseteq KSatir
       /\ kSasan \subseteq kSasan' /\ (kasaIstek[a].bayat => r \in kSasan')
  BY <1>2, <1>3, SonucIstek
<1>11. kasa[r].onay # "ONAYSIZ" => r \in kSasan'
  <2>1. kasaIstek[a] \notin {Bos, Bitti}
    BY <1>1, <1>2, AdimBos
  <2>2. ~kasaIstek[a].bayat => kasa[r].onay = "ONAYSIZ"
    BY <1>1, <1>2, <2>1 DEF KasaInv, IstekTutarli, IstekDogru
  <2> QED BY <1>10, <2>2
<1>12. KasaTipi' /\ kKayip' \subseteq kSasan'
  BY <1>2, <1>3, <1>7, <1>10, <1>11 DEF KasaTipi, KasaInv
<1>13. IstekTutarli'
  BY <1>2, <1>3, <1>7, <1>9, SonucKorur
<1>14. ASSUME NEW s \in KDolu' PROVE SatirDogru(s)'
  <2>0. PICK t : t = s
    OBVIOUS
  <2>1. s \in KDolu /\ SatirDogru(s)
    BY <1>8 DEF KasaInv, SatirlarDogru
  <2>2. \A o \in KDolu : /\ o \in KDolu' /\ kasa'[o].tip = kasa[o].tip /\ kasa'[o].bag = kasa[o].bag
                         /\ kasa'[o].silindi = kasa[o].silindi /\ kasa'[o].gec = kasa[o].gec
                         /\ kasa[o].onay = "ONAYLI" => kasa'[o].onay = "ONAYLI" \/ o \in kSasan'
    BY <1>3, <1>6, <1>7, <1>8, <1>11
  <2> QED BY <1>10, <2>0, <2>1, <2>2 DEF SatirDogru
<1> QED BY <1>12, <1>13, <1>14 DEF KasaInv, SatirlarDogru
(* A correction gets an original that is approved, or was marked, and is   *)
(* noted late when that was deleted before it.                             *)
LEMMA DuzeltmeKorur ==
  ASSUME KasaInv, NEW a \in KasaIstek, KDuzeltmeYaz(a), ~KOlmaz(a)
  PROVE  KasaInv'
<1>1. PICK r : r = kasaIstek[a].r
  OBVIOUS
<1>2. PICK d \in KSatir :
        /\ kasaIstek[a].adim = "duzelt" /\ r \in KDolu /\ kasa[d] = Yok
        /\ kasa' = [kasa EXCEPT ![d] = KYeni("DUZELTME", r, kasa[r].silindi)]
        /\ KSonuc(a, r) /\ UNCHANGED kKayip
  BY <1>1 DEF KDuzeltmeYaz, KBos, Ilk
<1>3. KasaTipi /\ KDolu \subseteq KSatir
  BY DEF KasaInv, KDolu
<1>4. kasa[r] \in KasaSatiri /\ kasa[r] # Yok /\ r # d
  BY <1>2, <1>3, SatirTipi DEF KDolu
<1>5. PICK y : y = KYeni("DUZELTME", r, kasa[r].silindi)
  OBVIOUS
<1>6. /\ y \in KasaKaydi /\ y # Yok /\ y.onay = "ONAYSIZ" /\ y.tip = "DUZELTME" /\ y.bag = r
      /\ y.silindi = FALSE /\ y.gec = kasa[r].silindi
  <2>1. kasa[r].silindi \in BOOLEAN
    BY <1>4 DEF KasaSatiri
  <2>2. y \in KasaKaydi
    BY <1>2, <1>3, <1>5, <2>1 DEF KYeni, KasaKaydi
  <2> QED BY <1>5, <2>2, KasaVarsayimi DEF KYeni
<1>7. /\ kasa' \in [KSatir -> KasaKaydi \cup {Yok}] /\ kasa'[d] = y
      /\ \A s \in KSatir \ {d} : kasa'[s] = kasa[s]
  BY <1>2, <1>3, <1>5, <1>6 DEF KasaTipi
<1>8. KDolu' = KDolu \cup {d} /\ d \notin KDolu
  BY <1>2, <1>6, <1>7 DEF KDolu
<1>9. Surer
  BY <1>2, <1>7, <1>8 DEF Surer
<1>10. /\ kasaIstek' \in [KasaIstek -> KasaIstekKaydi] /\ kSasan' \subseteq KSatir
       /\ kSasan \subseteq kSasan' /\ (kasaIstek[a].bayat => r \in kSasan')
  BY <1>2, <1>3, SonucIstek
<1>11. kasa[r].tip # "DUZELTME" /\ (kasa[r].onay = "ONAYLI" \/ r \in kSasan')
  <2>1. kasaIstek[a] \notin {Bos, Bitti}
    BY <1>2, AdimBos
  <2>2. kasa[r].tip # "DUZELTME" /\ (~kasaIstek[a].bayat => kasa[r].onay = "ONAYLI")
    BY <1>1, <1>2, <2>1 DEF KasaInv, IstekTutarli, IstekDogru
  <2> QED BY <1>10, <2>2
<1>12. KasaTipi' /\ kKayip' \subseteq kSasan'
  BY <1>2, <1>3, <1>7, <1>10 DEF KasaTipi, KasaInv
<1>13. IstekTutarli'
  BY <1>2, <1>3, <1>7, <1>9, SonucKorur
<1>14. ASSUME NEW s \in KDolu' PROVE SatirDogru(s)'
  <2>0. PICK t : t = s
    OBVIOUS
  <2>1. CASE s = d
    <3>1. r # Yok /\ r \in KDolu' /\ kasa'[r] = kasa[r]
      BY <1>2, <1>3, <1>4, <1>7, <1>8, KasaVarsayimi
    <3> QED BY <1>6, <1>7, <1>11, <2>0, <2>1, <3>1 DEF SatirDogru, Bacak
  <2>2. CASE s # d
    <3>1. s \in KDolu /\ SatirDogru(s)
      BY <1>8, <2>2 DEF KasaInv, SatirlarDogru
    <3>2. kasa'[s] = kasa[s] /\ \A o \in KDolu : kasa'[o] = kasa[o] /\ o \in KDolu'
      BY <1>3, <1>7, <1>8, <3>1
    <3> QED BY <1>10, <2>0, <3>1, <3>2 DEF SatirDogru
  <2> QED BY <2>1, <2>2
<1> QED BY <1>12, <1>13, <1>14 DEF KasaInv, SatirlarDogru

(* An exchange goes with both legs; what named a row that goes names none, *)
(* and an approved row goes only by a marked delete.                       *)
LEMMA SilKorur ==
  ASSUME KasaInv, NEW a \in KasaIstek, KSilYaz(a), kasaIstek[a].r \in KDolu
  PROVE  KasaInv'
<1>1. PICK r, S : r = kasaIstek[a].r /\ S = KSilinecek(r)
  OBVIOUS
<1>2. /\ r \in KDolu
      /\ kasa' = [s \in KSatir |-> IF s \in S THEN [kasa[s] EXCEPT !.onay = "YOK"]
                    ELSE IF s \in KDolu /\ kasa[s].bag \in S THEN [kasa[s] EXCEPT !.bag = Yok] ELSE kasa[s]]
      /\ kKayip' = kKayip \cup {s \in S : kasa[s].onay = "ONAYLI"}
      /\ kasaIstek' = [kasaIstek EXCEPT ![a] = Bitti]
      /\ kSasan' = IF kasaIstek[a].bayat \/ \E s \in S : kasa[s].onay # "ONAYSIZ" THEN kSasan \cup S ELSE kSasan
  BY <1>1 DEF KSilYaz
<1>3. KasaTipi /\ KDolu \subseteq KSatir
  BY DEF KasaInv, KDolu
<1>4. SatirDogru(r)
  BY <1>2 DEF KasaInv, SatirlarDogru
<1>5. /\ r \in S /\ S \subseteq KDolu
      /\ kasa[r].tip \in Bacak => S = {r, kasa[r].bag}
      /\ kasa[r].tip \notin Bacak => S = {r}
  BY <1>1, <1>2, <1>4 DEF KSilinecek, SatirDogru, Bacak
<1>6. \A s \in KDolu : kasa[s] \in KasaSatiri /\ kasa[s] # Yok
  BY <1>3, SatirTipi DEF KDolu
<1>7. ASSUME NEW s \in KSatir
      PROVE  /\ kasa'[s] \in KasaKaydi \cup {Yok}
             /\ s \in S => kasa'[s] # Yok /\ kasa'[s].tip = kasa[s].tip /\ kasa'[s].onay = "YOK"
             /\ s \in KDolu \ S =>
                  /\ kasa'[s] # Yok /\ kasa'[s].tip = kasa[s].tip /\ kasa'[s].onay = kasa[s].onay
                  /\ kasa'[s].silindi = kasa[s].silindi /\ kasa'[s].gec = kasa[s].gec
                  /\ kasa'[s].bag = IF kasa[s].bag \in S THEN Yok ELSE kasa[s].bag
             /\ s \notin KDolu => kasa'[s] = kasa[s]
  <2>1. CASE s \in S
    <3>1. kasa'[s] = [kasa[s] EXCEPT !.onay = "YOK"] /\ kasa[s] \in KasaSatiri
      BY <1>2, <1>5, <1>6, <2>1
    <3>2. kasa'[s] \in KasaKaydi
      BY <3>1 DEF KasaSatiri, KasaKaydi
    <3> QED BY <1>5, <2>1, <3>1, <3>2, KasaVarsayimi DEF KasaSatiri
  <2>2. CASE s \in KDolu \ S /\ kasa[s].bag \in S
    <3>1. kasa'[s] = [kasa[s] EXCEPT !.bag = Yok] /\ kasa[s] \in KasaSatiri
      BY <1>2, <1>6, <2>2
    <3>2. kasa'[s] \in KasaKaydi
      BY <3>1 DEF KasaSatiri, KasaKaydi
    <3> QED BY <2>2, <3>1, <3>2, KasaVarsayimi DEF KasaSatiri
  <2>3. CASE s \in KDolu \ S /\ kasa[s].bag \notin S
    <3>1. kasa'[s] = kasa[s]
      BY <1>2, <2>3
    <3> QED BY <1>3, <1>6, <2>3, <3>1 DEF KasaTipi
  <2>4. CASE s \notin KDolu
    <3>1. kasa'[s] = kasa[s]
      BY <1>2, <1>5, <2>4
    <3> QED BY <1>3, <1>5, <2>4, <3>1 DEF KasaTipi
  <2> QED BY <2>1, <2>2, <2>3, <2>4
<1>8. KDolu' = KDolu \ S
  <2>1. \A s \in KSatir : s \in KDolu' <=> s \in KDolu \ S
    BY <1>5, <1>7 DEF KDolu
  <2>2. KDolu' \subseteq KSatir
    BY DEF KDolu
  <2> QED BY <1>3, <2>1, <2>2
<1>9. Surer
  <2>1. ASSUME NEW s \in KSatir, kasa[s] # Yok PROVE kasa'[s] # Yok /\ kasa'[s].tip = kasa[s].tip
    <3>1. CASE s \in S
      BY <1>7, <3>1
    <3>2. CASE s \notin S
      BY <1>7, <2>1, <3>2
    <3> QED BY <3>1, <3>2
  <2> QED BY <1>8, <2>1 DEF Surer
<1>10. /\ kSasan \subseteq kSasan' /\ kKayip' \subseteq kSasan' /\ kKayip' \subseteq KSatir /\ kSasan' \subseteq KSatir
       /\ \A s \in S : kasa[s].onay = "ONAYLI" => s \in kSasan'
  BY <1>2, <1>3, <1>5 DEF KasaInv, KasaTipi
<1>11. /\ kasaIstek' \in [KasaIstek -> KasaIstekKaydi] /\ kasaIstek'[a] = Bitti
       /\ \A b \in KasaIstek \ {a} : kasaIstek'[b] = kasaIstek[b]
  BY <1>2, <1>3 DEF KasaTipi, KasaIstekKaydi
<1>12. KasaTipi'
  <2>1. kasa' \in [KSatir -> KasaKaydi \cup {Yok}]
    BY <1>2, <1>7
  <2> QED BY <1>10, <1>11, <2>1 DEF KasaTipi
<1>13. ASSUME NEW b \in KasaIstek PROVE IstekDogru(b)'
  <2>0. PICK i : i = b
    OBVIOUS
  <2>1. CASE b = a
    BY <1>11, <2>0, <2>1 DEF IstekDogru
  <2>2. CASE b # a
    <3>1. IstekDogru(b)
      BY DEF KasaInv, IstekTutarli
    <3>2. \A s \in KDolu' : kasa'[s].onay = kasa[s].onay
      BY <1>3, <1>7, <1>8
    <3> QED BY <1>3, <1>9, <1>11, <2>2, <3>1, <3>2, IstekSurer
  <2> QED BY <2>1, <2>2
<1>14. ASSUME NEW s \in KDolu' PROVE SatirDogru(s)'
  <2>0. PICK t : t = s
    OBVIOUS
  <2>1. s \in KDolu \ S /\ SatirDogru(s)
    BY <1>8 DEF KasaInv, SatirlarDogru
  <2>2. \A o \in KDolu \ S :
          /\ o \in KDolu' /\ kasa'[o].tip = kasa[o].tip /\ kasa'[o].onay = kasa[o].onay
          /\ kasa'[o].silindi = kasa[o].silindi /\ kasa'[o].gec = kasa[o].gec
          /\ kasa'[o].bag = IF kasa[o].bag \in S THEN Yok ELSE kasa[o].bag
    BY <1>3, <1>7, <1>8
  <2>3. kasa[s].tip \in Bacak => kasa[s].bag \notin S
    BY <1>2, <1>4, <1>5, <2>1 DEF SatirDogru
  <2>4. CASE kasa[s].tip \in Bacak
    <3>1. /\ kasa[s].bag \in KDolu \ S /\ kasa[s].bag # s /\ kasa[kasa[s].bag].tip \in Bacak
          /\ kasa[kasa[s].bag].bag = s
      BY <2>1, <2>3, <2>4 DEF SatirDogru
    <3>2. kasa[s].tip # "DUZELTME"
      BY <2>4 DEF Bacak
    <3> QED BY <2>0, <2>1, <2>2, <3>1, <3>2 DEF SatirDogru
  <2>5. CASE kasa[s].tip = "DUZELTME"
    <3>1. kasa[s].tip \notin Bacak
      BY <2>5 DEF Bacak
    <3>2. CASE kasa[s].bag = Yok
      <4>1. kSasan' # {} /\ kasa'[s].bag = Yok
        BY <1>10, <2>1, <2>2, <2>5, <3>2 DEF SatirDogru
      <4> QED BY <2>0, <2>1, <2>2, <2>5, <3>1, <4>1 DEF SatirDogru
    <3>3. CASE kasa[s].bag # Yok /\ kasa[s].bag \in S
      <4>1. kasa[kasa[s].bag].onay = "ONAYLI" \/ kasa[s].bag \in kSasan
        BY <2>1, <2>5, <3>3 DEF SatirDogru
      <4>2. kSasan' # {} /\ kasa'[s].bag = Yok
        BY <1>10, <2>1, <2>2, <3>3, <4>1
      <4> QED BY <2>0, <2>1, <2>2, <2>5, <3>1, <4>2 DEF SatirDogru
    <3>4. CASE kasa[s].bag # Yok /\ kasa[s].bag \notin S
      <4>1. kasa[s].bag \in KDolu \ S /\ kasa'[s].bag = kasa[s].bag
        BY <2>1, <2>2, <2>5, <3>4 DEF SatirDogru
      <4> QED BY <1>10, <2>0, <2>1, <2>2, <2>5, <3>1, <3>4, <4>1 DEF SatirDogru
    <3> QED BY <3>2, <3>3, <3>4
  <2>6. CASE kasa[s].tip # "DUZELTME" /\ kasa[s].tip \notin Bacak
    BY <2>0, <2>1, <2>2, <2>6 DEF SatirDogru
  <2> QED BY <2>4, <2>5, <2>6
<1> QED BY <1>10, <1>12, <1>13, <1>14 DEF KasaInv, SatirlarDogru, IstekTutarli
(* A safe delete takes the corrections it has read; one it has missed is   *)
(* noted.                                                                  *)
LEMMA GuvenliSilKorur ==
  ASSUME KasaInv, NEW a \in KasaIstek, KGuvenliSilYaz(a)
  PROVE  KasaInv'
<1>1. PICK r, I : r = kasaIstek[a].r /\ I = kasaIstek[a].ilgili
  OBVIOUS
<1>2. PICK S : S = {r} \cup I
  OBVIOUS
<1>3. /\ kasaIstek[a].adim = "gsil"
      /\ kasa' = [s \in KSatir |-> IF s \in S \cap KDolu THEN [kasa[s] EXCEPT !.silindi = TRUE] ELSE kasa[s]]
      /\ kasaIstek' = [kasaIstek EXCEPT ![a] = Bitti]
      /\ kSasan' = IF KDuzeltmeleri(r) \subseteq S THEN kSasan ELSE kSasan \cup {r}
      /\ UNCHANGED kKayip
  BY <1>1, <1>2 DEF KGuvenliSilYaz
<1>4. KasaTipi /\ KDolu \subseteq KSatir
  BY DEF KasaInv, KDolu
<1>5. r \in KSatir /\ I \subseteq KSatir /\ \A s \in I : kasa[s].tip = "DUZELTME"
  <2>1. kasaIstek[a] \notin {Bos, Bitti}
    BY <1>3, AdimBos
  <2> QED BY <1>1, <1>3, <1>4, <2>1, IstekTipi DEF KasaInv, IstekTutarli, IstekDogru
<1>6. \A s \in KDolu : kasa[s] \in KasaSatiri /\ kasa[s] # Yok
  BY <1>4, SatirTipi DEF KDolu
<1>7. ASSUME NEW s \in KSatir
      PROVE  /\ kasa'[s] \in KasaKaydi \cup {Yok}
             /\ s \notin S => kasa'[s] = kasa[s]
             /\ s \notin KDolu => kasa'[s] = kasa[s]
             /\ s \in KDolu =>
                  /\ kasa'[s] # Yok /\ kasa'[s].tip = kasa[s].tip /\ kasa'[s].onay = kasa[s].onay
                  /\ kasa'[s].bag = kasa[s].bag /\ kasa'[s].gec = kasa[s].gec
                  /\ s \in S => kasa'[s].silindi
  <2>1. CASE s \in S \cap KDolu
    <3>1. kasa'[s] = [kasa[s] EXCEPT !.silindi = TRUE] /\ kasa[s] \in KasaSatiri
      BY <1>3, <1>6, <2>1
    <3>2. kasa'[s] \in KasaKaydi
      BY <3>1 DEF KasaSatiri, KasaKaydi
    <3> QED BY <2>1, <3>1, <3>2, KasaVarsayimi DEF KasaSatiri
  <2>2. CASE s \notin S \cap KDolu
    <3>1. kasa'[s] = kasa[s]
      BY <1>3, <2>2
    <3> QED BY <1>4, <1>6, <2>2, <3>1 DEF KasaTipi
  <2> QED BY <2>1, <2>2
<1>8. KDolu' = KDolu
  <2>1. \A s \in KSatir : s \in KDolu' <=> s \in KDolu
    BY <1>6, <1>7 DEF KDolu
  <2>2. KDolu' \subseteq KSatir
    BY DEF KDolu
  <2> QED BY <1>4, <2>1, <2>2
<1>9. Surer
  <2>1. ASSUME NEW s \in KSatir, kasa[s] # Yok PROVE kasa'[s] # Yok /\ kasa'[s].tip = kasa[s].tip
    BY <1>7, <2>1
  <2> QED BY <1>8, <2>1 DEF Surer
<1>10. kSasan \subseteq kSasan' /\ kSasan' \subseteq KSatir /\ kKayip' \subseteq kSasan'
  BY <1>3, <1>4, <1>5 DEF KasaInv, KasaTipi
<1>11. /\ kasaIstek' \in [KasaIstek -> KasaIstekKaydi] /\ kasaIstek'[a] = Bitti
       /\ \A b \in KasaIstek \ {a} : kasaIstek'[b] = kasaIstek[b]
  BY <1>3, <1>4 DEF KasaTipi, KasaIstekKaydi
<1>12. KasaTipi'
  <2>1. kasa' \in [KSatir -> KasaKaydi \cup {Yok}]
    BY <1>3, <1>7
  <2> QED BY <1>3, <1>4, <1>10, <1>11, <2>1 DEF KasaTipi
<1>13. ASSUME NEW b \in KasaIstek PROVE IstekDogru(b)'
  <2>0. PICK i : i = b
    OBVIOUS
  <2>1. CASE b = a
    BY <1>11, <2>0, <2>1 DEF IstekDogru
  <2>2. CASE b # a
    <3>1. IstekDogru(b)
      BY DEF KasaInv, IstekTutarli
    <3>2. \A s \in KDolu' : kasa'[s].onay = kasa[s].onay
      BY <1>4, <1>7, <1>8
    <3> QED BY <1>4, <1>9, <1>11, <2>2, <3>1, <3>2, IstekSurer
  <2> QED BY <2>1, <2>2
<1>14. ASSUME NEW s \in KDolu' PROVE SatirDogru(s)'
  <2>0. PICK t : t = s
    OBVIOUS
  <2>1. s \in KDolu /\ SatirDogru(s)
    BY <1>8 DEF KasaInv, SatirlarDogru
  <2>2. \A o \in KDolu :
          /\ o \in KDolu' /\ kasa'[o].tip = kasa[o].tip /\ kasa'[o].onay = kasa[o].onay
          /\ kasa'[o].gec = kasa[o].gec /\ kasa'[o].bag = kasa[o].bag
    BY <1>4, <1>7, <1>8
  <2>3. CASE kasa[s].tip # "DUZELTME"
    BY <2>0, <2>1, <2>2, <2>3 DEF SatirDogru
  <2>4. CASE kasa[s].tip = "DUZELTME" /\ kasa[s].bag = Yok
    <3>1. kasa[s].tip \notin Bacak
      BY <2>4 DEF Bacak
    <3>2. kSasan' # {}
      BY <1>10, <2>1, <2>4 DEF SatirDogru
    <3> QED BY <2>0, <2>1, <2>2, <2>4, <3>1, <3>2 DEF SatirDogru
  <2>5. CASE kasa[s].tip = "DUZELTME" /\ kasa[s].bag # Yok
    <3>1. PICK q : q = kasa[s].bag
      OBVIOUS
    <3>2. /\ q \in KDolu /\ kasa[q].tip # "DUZELTME" /\ (kasa[q].onay = "ONAYLI" \/ q \in kSasan)
          /\ kasa[q].silindi /\ ~kasa[s].silindi => kasa[s].gec \/ q \in kSasan
      BY <2>1, <2>5, <3>1 DEF SatirDogru
    <3>3. kasa'[q].silindi /\ ~kasa'[s].silindi => kasa[s].gec \/ q \in kSasan'
      <4>1. CASE q \notin S
        <5>1. kasa'[q] = kasa[q] /\ (~kasa'[s].silindi => ~kasa[s].silindi)
          BY <1>4, <1>7, <2>1, <3>2, <4>1
        <5> QED BY <1>10, <3>2, <5>1
      <4>2. CASE q \in S
        <5>1. q = r
          BY <1>2, <1>5, <3>2, <4>2
        <5>2. ~kasa'[s].silindi => s \in KDuzeltmeleri(r) \ S
          BY <1>4, <1>7, <2>1, <2>5, <3>1, <5>1 DEF KDuzeltmeleri
        <5> QED BY <1>3, <5>1, <5>2
      <4> QED BY <4>1, <4>2
    <3>4. kasa[s].tip \notin Bacak
      BY <2>5 DEF Bacak
    <3> QED BY <1>10, <2>0, <2>1, <2>2, <2>5, <3>1, <3>2, <3>3, <3>4 DEF SatirDogru
  <2> QED BY <2>3, <2>4, <2>5
<1> QED BY <1>10, <1>12, <1>13, <1>14 DEF KasaInv, SatirlarDogru, IstekTutarli

-----------------------------------------------------------------------------
(* The theorems *)

LEMMA KasaAdimiKorur ==
  ASSUME KasaInv, NEW a \in KasaIstek, KasaAdimi(a)
  PROVE  KasaInv'
<1>0. KDolu \subseteq KSatir
  BY DEF KDolu
<1>1. CASE KKararOku(a)
  <2>1. PICK r \in KDolu, k \in {"ONAYLI", "REDDEDILDI"} : KOnaysiz(r) /\ KOku(a, k, r)
    BY <1>1 DEF KKararOku
  <2>2. PICK i : i = [adim |-> k, r |-> r, bayat |-> FALSE]
    OBVIOUS
  <2>3. i \in KasaIstekKaydi /\ i.adim = k /\ i.r = r /\ i.bayat = FALSE
    BY <1>0, <2>2 DEF KasaIstekKaydi
  <2>4. KGelir(a, i) /\ UNCHANGED <<kasa, kKayip, kSasan>>
    BY <2>1, <2>2 DEF KOku
  <2>5. kasa[r].onay = "ONAYSIZ" /\ k # "duzelt" /\ k # "gsil"
    BY <2>1 DEF KOnaysiz
  <2> QED BY <2>3, <2>4, <2>5, OkuKorur
<1>2. CASE KKararYaz(a)
  BY <1>2, KararKorur, OlmazKorur DEF KKararYaz
<1>3. CASE KDuzeltmeOku(a)
  <2>1. PICK r \in KDolu : kasa[r].onay = "ONAYLI" /\ kasa[r].tip # "DUZELTME" /\ KOku(a, "duzelt", r)
    BY <1>3 DEF KDuzeltmeOku
  <2>2. PICK i : i = [adim |-> "duzelt", r |-> r, bayat |-> FALSE]
    OBVIOUS
  <2>3. i \in KasaIstekKaydi /\ i.adim = "duzelt" /\ i.r = r /\ i.bayat = FALSE
    BY <1>0, <2>2 DEF KasaIstekKaydi
  <2>4. KGelir(a, i) /\ UNCHANGED <<kasa, kKayip, kSasan>>
    BY <2>1, <2>2 DEF KOku
  <2> QED BY <2>1, <2>3, <2>4, OkuKorur
<1>4. CASE KDuzeltmeYaz(a)
  BY <1>4, DuzeltmeKorur, OlmazKorur
<1>5. CASE KSilOku(a)
  <2>1. PICK r \in KDolu : KOku(a, "sil", r)
    BY <1>5 DEF KSilOku
  <2>2. PICK i : i = [adim |-> "sil", r |-> r, bayat |-> FALSE]
    OBVIOUS
  <2>3. i \in KasaIstekKaydi /\ i.adim = "sil" /\ i.r = r /\ i.bayat = FALSE
    BY <1>0, <2>2 DEF KasaIstekKaydi
  <2>4. KGelir(a, i) /\ UNCHANGED <<kasa, kKayip, kSasan>>
    BY <2>1, <2>2 DEF KOku
  <2> QED BY <2>3, <2>4, OkuKorur
<1>6. CASE KSilYaz(a)
  BY <1>6, SilKorur, OlmazKorur DEF KSilYaz
<1>7. CASE KGuvenliSilOku(a)
  <2>1. PICK r \in KDolu :
          /\ KGelir(a, [adim |-> "gsil", r |-> r, bayat |-> FALSE, ilgili |-> KDuzeltmeleri(r)])
          /\ UNCHANGED <<kasa, kKayip, kSasan>>
    BY <1>7 DEF KGuvenliSilOku
  <2>2. PICK i : i = [adim |-> "gsil", r |-> r, bayat |-> FALSE, ilgili |-> KDuzeltmeleri(r)]
    OBVIOUS
  <2>3. KDuzeltmeleri(r) \subseteq KSatir /\ \A s \in KDuzeltmeleri(r) : s \in KDolu /\ kasa[s].tip = "DUZELTME"
    BY <1>0 DEF KDuzeltmeleri
  <2>4. i \in KasaIstekKaydi /\ i.adim = "gsil" /\ i.r = r /\ i.bayat = FALSE /\ i.ilgili = KDuzeltmeleri(r)
    BY <1>0, <2>2, <2>3 DEF KasaIstekKaydi
  <2>5. KGelir(a, i)
    BY <2>1, <2>2
  <2> QED BY <2>1, <2>3, <2>4, <2>5, OkuKorur
<1>8. CASE KGuvenliSilYaz(a)
  BY <1>8, GuvenliSilKorur
<1> QED BY <1>1, <1>2, <1>3, <1>4, <1>5, <1>6, <1>7, <1>8 DEF KasaAdimi

(* The rules of the rows and of the requests hold in every state.          *)
THEOREM KasaDegismez == KasaSpec => []KasaInv
<1>1. KasaInit => KasaInv
  <2> SUFFICES ASSUME KasaInit PROVE KasaInv
    OBVIOUS
  <2>1. KDolu = {}
    BY DEF KasaInit, KDolu
  <2> QED BY <2>1 DEF KasaInit, KasaInv, KasaTipi, KasaIstekKaydi, IstekTutarli, IstekDogru, SatirlarDogru
<1>2. KasaInv /\ [KasaNext]_kasaVars => KasaInv'
  <2> SUFFICES ASSUME KasaInv, [KasaNext]_kasaVars PROVE KasaInv'
    OBVIOUS
  <2>1. CASE UNCHANGED kasaVars
    BY <2>1 DEF kasaVars, KasaInv, KasaTipi, IstekTutarli, IstekDogru, SatirlarDogru, SatirDogru, KDolu
  <2>2. CASE KasaNext
    BY <2>2, EkleKorur, DonusturKorur, KasaAdimiKorur DEF KasaNext
  <2> QED BY <2>1, <2>2
<1> QED BY <1>1, <1>2, PTL DEF KasaSpec

(* The rows of the office cash book are rows of it.                        *)
THEOREM KasaTipiKorunur == KasaSpec => []KasaTypeOK
<1>1. KasaInv => KasaTypeOK
  BY SatirTipi DEF KasaInv, KasaTipi, KasaTypeOK, KDolu
<1> QED BY <1>1, KasaDegismez, PTL

(* An approved row leaves the office cash book only when requests on it    *)
(* overlapped; no exchange keeps one leg; a correction has an approved     *)
(* original and goes with it (ofisKasa.service.ts, ofisGuvenliSilCore.ts). *)
THEOREM KasaTutarlidir == KasaSpec => []KasaTutarli
<1>1. KasaInv => KasaTutarli
  BY DEF KasaInv, KasaTutarli, SatirlarDogru, SatirDogru, Bacak
<1> QED BY <1>1, KasaDegismez, PTL

-----------------------------------------------------------------------------
(* A book whose requests exchange no currency, as the client's.            *)

DonusumsuzSpec == KasaInit /\ [][KEkle \/ \E a \in KasaIstek : KasaAdimi(a)]_kasaVars

\* It has no legs of exchanges.
Donusumsuz == \A r \in KSatir : kasa[r] # Yok => kasa[r].tip \in {"GELIR", "GIDER", "DUZELTME"}

LEMMA DonusumsuzKorur ==
  ASSUME KasaInv, Donusumsuz, KEkle \/ \E a \in KasaIstek : KasaAdimi(a)
  PROVE  Donusumsuz'
<1>0. KasaTipi /\ KDolu \subseteq KSatir
  BY DEF KasaInv, KDolu
<1>1. ASSUME NEW r \in KSatir, kasa'[r] # Yok,
             kasa[r] # Yok, kasa'[r].tip = kasa[r].tip
      PROVE  kasa'[r].tip \in {"GELIR", "GIDER", "DUZELTME"}
  BY <1>1 DEF Donusumsuz
<1>2. CASE KEkle
  <2>1. PICK r \in KSatir, tip \in {"GELIR", "GIDER"} : kasa' = [kasa EXCEPT ![r] = KYeni(tip, Yok, FALSE)]
    BY <1>2 DEF KEkle, KBos, Ilk
  <2>2. KYeni(tip, Yok, FALSE).tip = tip
    BY DEF KYeni
  <2> QED BY <1>0, <2>1, <2>2 DEF Donusumsuz, KasaTipi
<1>3. ASSUME NEW a \in KasaIstek, KasaAdimi(a) PROVE Donusumsuz'
  <2> DEFINE r == kasaIstek[a].r
  <2>1. CASE UNCHANGED kasa
    BY <2>1 DEF Donusumsuz
  <2>2. ASSUME r \in KDolu, NEW k, kasa' = [kasa EXCEPT ![r].onay = k] PROVE Donusumsuz'
    <3>1. kasa[r] \in KasaKaydi
      BY <1>0, <2>2, SatirTipi DEF KDolu
    <3>2. [kasa[r] EXCEPT !.onay = k].tip = kasa[r].tip
      BY <3>1 DEF KasaKaydi
    <3>3. \A s \in KSatir : kasa'[s] = IF s = r THEN [kasa[r] EXCEPT !.onay = k] ELSE kasa[s]
      BY <1>0, <2>2 DEF KasaTipi
    <3>4. ASSUME NEW s \in KSatir, kasa'[s] # Yok PROVE kasa'[s].tip \in {"GELIR", "GIDER", "DUZELTME"}
      BY <1>0, <2>2, <3>2, <3>3, <3>4 DEF Donusumsuz, KDolu
    <3> QED BY <3>4 DEF Donusumsuz
  <2>3. ASSUME NEW d \in KSatir, NEW g, kasa' = [kasa EXCEPT ![d] = KYeni("DUZELTME", r, g)] PROVE Donusumsuz'
    <3>1. KYeni("DUZELTME", r, g).tip = "DUZELTME"
      BY DEF KYeni
    <3> QED BY <1>0, <2>3, <3>1 DEF Donusumsuz, KasaTipi
  <2>4. ASSUME r \in KDolu, KSilYaz(a) PROVE Donusumsuz'
    <3>1. kasa[r].tip \notin {"DOVIZ_CIKIS", "DOVIZ_GIRIS"}
      BY <1>0, <2>4 DEF Donusumsuz, KDolu
    <3>2. KSilinecek(r) = {r}
      BY <3>1 DEF KSilinecek
    <3>3. \/ kasa' = [s \in KSatir |-> IF s \in {r} THEN [kasa[s] EXCEPT !.onay = "YOK"]
                        ELSE IF s \in KDolu /\ kasa[s].bag \in {r} THEN [kasa[s] EXCEPT !.bag = Yok] ELSE kasa[s]]
          \/ UNCHANGED kasa
      BY <2>4, <3>2 DEF KSilYaz, KOlmaz
    <3>4. ASSUME NEW s \in KSatir, s \in KDolu PROVE [kasa[s] EXCEPT !.onay = "YOK"].tip = kasa[s].tip /\ [kasa[s] EXCEPT !.bag = Yok].tip = kasa[s].tip
      <4>1. kasa[s] \in KasaKaydi
        BY <1>0, <3>4, SatirTipi DEF KDolu
      <4> QED BY <4>1 DEF KasaKaydi
    <3>5. ASSUME NEW s \in KSatir, kasa'[s] # Yok PROVE kasa'[s].tip \in {"GELIR", "GIDER", "DUZELTME"}
      <4>1. \/ kasa'[s] = kasa[s]
            \/ s \in KDolu /\ kasa'[s] = [kasa[s] EXCEPT !.onay = "YOK"]
            \/ s \in KDolu /\ kasa'[s] = [kasa[s] EXCEPT !.bag = Yok]
        BY <2>4, <3>3
      <4>2. kasa[s] # Yok
        BY <3>5, <4>1 DEF KDolu
      <4>3. kasa'[s].tip = kasa[s].tip
        <5>1. CASE s \in KDolu
          <6>1. [kasa[s] EXCEPT !.onay = "YOK"].tip = kasa[s].tip /\ [kasa[s] EXCEPT !.bag = Yok].tip = kasa[s].tip
            BY <3>4, <5>1
          <6> QED BY <4>1, <6>1
        <5> QED BY <4>1, <5>1
      <4> QED BY <1>1, <3>5, <4>2, <4>3
    <3> QED BY <3>5 DEF Donusumsuz
  <2>5. CASE KGuvenliSilYaz(a)
    <3>1. PICK S : kasa' = [s \in KSatir |-> IF s \in S \cap KDolu THEN [kasa[s] EXCEPT !.silindi = TRUE] ELSE kasa[s]]
      BY <2>5 DEF KGuvenliSilYaz
    <3>2. ASSUME NEW s \in KSatir, s \in KDolu PROVE [kasa[s] EXCEPT !.silindi = TRUE].tip = kasa[s].tip
      <4>1. kasa[s] \in KasaKaydi
        BY <1>0, <3>2, SatirTipi DEF KDolu
      <4> QED BY <4>1 DEF KasaKaydi
    <3>3. ASSUME NEW s \in KSatir, kasa'[s] # Yok PROVE kasa'[s].tip \in {"GELIR", "GIDER", "DUZELTME"}
      <4>1. kasa[s] # Yok
        BY <3>1, <3>3 DEF KDolu
      <4>2. kasa'[s].tip = kasa[s].tip
        BY <3>1, <3>2
      <4> QED BY <1>1, <3>3, <4>1, <4>2
    <3> QED BY <3>3 DEF Donusumsuz
  <2>6. CASE KKararYaz(a)
    <3>1. (r \in KDolu /\ \E k : kasa' = [kasa EXCEPT ![r].onay = k]) \/ UNCHANGED kasa
      BY <2>6 DEF KKararYaz, KOlmaz
    <3> QED BY <2>1, <2>2, <3>1
  <2>7. CASE KDuzeltmeYaz(a)
    <3>1. (\E d \in KSatir : \E g : kasa' = [kasa EXCEPT ![d] = KYeni("DUZELTME", r, g)]) \/ UNCHANGED kasa
      BY <2>7, Zenon DEF KDuzeltmeYaz, KOlmaz, KBos, Ilk
    <3> QED BY <2>1, <2>3, <3>1
  <2>8. CASE KSilYaz(a)
    <3>1. r \in KDolu \/ UNCHANGED kasa
      BY <2>8 DEF KSilYaz, KOlmaz
    <3> QED BY <2>1, <2>4, <2>8, <3>1
  <2>9. CASE KKararOku(a) \/ KDuzeltmeOku(a) \/ KSilOku(a) \/ KGuvenliSilOku(a)
    <3>1. UNCHANGED kasa
      BY <2>9 DEF KKararOku, KDuzeltmeOku, KSilOku, KGuvenliSilOku, KOku
    <3> QED BY <2>1, <3>1
  <2> QED BY <1>3, <2>5, <2>6, <2>7, <2>8, <2>9 DEF KasaAdimi
<1> QED BY <1>2, <1>3

(* What the office's book keeps such a book keeps too.                     *)
THEOREM DonusumsuzDegismez == DonusumsuzSpec => [](KasaInv /\ KasaTypeOK /\ Donusumsuz)
<1>1. KasaInit => Donusumsuz
  BY DEF KasaInit, Donusumsuz
<1>2. KasaInv /\ Donusumsuz /\ [KEkle \/ \E a \in KasaIstek : KasaAdimi(a)]_kasaVars => Donusumsuz'
  <2>1. UNCHANGED kasaVars /\ Donusumsuz => Donusumsuz'
    BY DEF kasaVars, Donusumsuz
  <2> QED BY <2>1, DonusumsuzKorur
<1>3. [KEkle \/ \E a \in KasaIstek : KasaAdimi(a)]_kasaVars => [KasaNext]_kasaVars
  BY DEF KasaNext
<1> QED BY <1>1, <1>2, <1>3, KasaDegismez, KasaTipiKorunur, PTL DEF DonusumsuzSpec, KasaSpec
=============================================================================
