----------------------------- MODULE ParaProofs -----------------------------
(***************************************************************************)
(* The accounts of an office for any number of rows and requests.          *)
(***************************************************************************)
EXTENDS MuvekkilKasa, SmsCuzdan, VekaletPlan, IcraTahsilat, Prim, KasaProofs, WhatsAppMesajKrediProofs

-----------------------------------------------------------------------------
(* The cash books *)

(* The client's cash book is one more instance of what is proved of the    *)
(* office's.                                                               *)
MKanit == INSTANCE KasaProofs WITH
            KSatir <- MSatir, KasaIstek <- MIstek,
            kasa <- mKasa, kasaIstek <- mIstek, kKayip <- mKayip, kSasan <- mSasan

(* Its steps are steps of the office's; it only has no exchanges.          *)
LEMMA MKasaDegismez == MKasaSpec => [](MKanit!KasaInv /\ MKanit!KasaTypeOK /\ MKanit!Donusumsuz)
<1> USE DEF MDefter!Bos, MKanit!Bos, MDefter!Bitti, MKanit!Bitti, MDefter!Ilk, MKanit!Ilk,
            MDefter!KBos, MKanit!KBos, MDefter!KDolu, MKanit!KDolu, MDefter!KYeni, MKanit!KYeni,
            MDefter!KGelir, MKanit!KGelir, MDefter!KOku, MKanit!KOku, MDefter!KSonuc, MKanit!KSonuc,
            MDefter!KOlmaz, MKanit!KOlmaz, MDefter!KKilitli, MKanit!KKilitli,
            MDefter!KOnaysiz, MKanit!KOnaysiz, MDefter!KSilinecek, MKanit!KSilinecek,
            MDefter!KDuzeltmeleri, MKanit!KDuzeltmeleri
<1>1. MKasaInit => MKanit!KasaInit
  BY DEF MKasaInit, MDefter!KasaInit, MKanit!KasaInit
<1>2. [MKasaNext]_mKasaVars => [MKanit!KEkle \/ \E a \in MIstek : MKanit!KasaAdimi(a)]_MKanit!kasaVars
  <2> SUFFICES ASSUME [MKasaNext]_mKasaVars
               PROVE  [MKanit!KEkle \/ \E a \in MIstek : MKanit!KasaAdimi(a)]_MKanit!kasaVars
    OBVIOUS
  <2>1. CASE UNCHANGED mKasaVars
    BY <2>1 DEF mKasaVars, MKanit!kasaVars
  <2>2. CASE MEkle
    <3>1. MKanit!KEkle
      BY <2>2 DEF MEkle, MDefter!KEkle, MKanit!KEkle
    <3> QED BY <3>1
  <2>3. ASSUME NEW a \in MIstek,
               \/ MKararOku(a) \/ MKararYaz(a) \/ MDuzeltmeOku(a) \/ MDuzeltmeYaz(a)
               \/ MSilOku(a) \/ MSilYaz(a) \/ MGuvenliSilOku(a) \/ MGuvenliSilYaz(a)
        PROVE  MKanit!KasaAdimi(a)
    <3>1. MKararOku(a) => MKanit!KKararOku(a)
      BY Zenon DEF MKararOku, MDefter!KKararOku, MKanit!KKararOku
    <3>2. MKararYaz(a) => MKanit!KKararYaz(a)
      BY Zenon DEF MKararYaz, MDefter!KKararYaz, MKanit!KKararYaz
    <3>3. MDuzeltmeOku(a) => MKanit!KDuzeltmeOku(a)
      BY Zenon DEF MDuzeltmeOku, MDefter!KDuzeltmeOku, MKanit!KDuzeltmeOku
    <3>4. MDuzeltmeYaz(a) => MKanit!KDuzeltmeYaz(a)
      BY Zenon DEF MDuzeltmeYaz, MDefter!KDuzeltmeYaz, MKanit!KDuzeltmeYaz
    <3>5. MSilOku(a) => MKanit!KSilOku(a)
      BY Zenon DEF MSilOku, MDefter!KSilOku, MKanit!KSilOku
    <3>6. MSilYaz(a) => MKanit!KSilYaz(a)
      BY Zenon DEF MSilYaz, MDefter!KSilYaz, MKanit!KSilYaz
    <3>7. MGuvenliSilOku(a) => MKanit!KGuvenliSilOku(a)
      BY Zenon DEF MGuvenliSilOku, MDefter!KGuvenliSilOku, MKanit!KGuvenliSilOku
    <3>8. MGuvenliSilYaz(a) => MKanit!KGuvenliSilYaz(a)
      BY Zenon DEF MGuvenliSilYaz, MDefter!KGuvenliSilYaz, MKanit!KGuvenliSilYaz
    <3> QED BY <2>3, <3>1, <3>2, <3>3, <3>4, <3>5, <3>6, <3>7, <3>8 DEF MKanit!KasaAdimi
  <2> QED BY <2>1, <2>2, <2>3 DEF MKasaNext
<1>3. MSatir \subseteq Nat /\ MIstek \subseteq Nat /\ Yok \notin MSatir \cup MKanit!KasaKaydi
  BY MuvekkilKasaVarsayimi DEF MDefter!KasaKaydi, MKanit!KasaKaydi
<1>4. MKanit!DonusumsuzSpec => [](MKanit!KasaInv /\ MKanit!KasaTypeOK /\ MKanit!Donusumsuz)
  BY <1>3, MKanit!DonusumsuzDegismez
<1> QED BY <1>1, <1>2, <1>4, PTL
        DEF MKasaSpec, MKanit!DonusumsuzSpec

(* The rows of the client's cash book are rows of it.                      *)
THEOREM MKasaTipiKorunur == MKasaSpec => []MKasaTypeOK
<1>1. MKanit!KasaTypeOK /\ MKanit!Donusumsuz => MKasaTypeOK
  BY DEF MKanit!KasaTypeOK, MDefter!KasaTypeOK, MKanit!KasaSatiri, MDefter!KasaSatiri, MKanit!Donusumsuz,
         MKanit!KDolu, MDefter!KDolu, MKasaTypeOK
<1> QED BY <1>1, MKasaDegismez, PTL

(* Both cash books keep their rules, and a correction is in the balance of *)
(* a case only together with what it corrects, but for late and overlapped *)
(* ones (kasa.service.ts, masrafGuvenliSil.service.ts).                    *)
THEOREM KasalarTutarlidir == KasaSpec /\ MKasaSpec => []KasalarTutarli
<1> USE DEF MDefter!KDolu, MKanit!KDolu
<1>1. MKanit!KasaInv => MDefter!KasaTutarli
  BY DEF MKanit!KasaInv, MKanit!SatirlarDogru, MKanit!SatirDogru, MKanit!Bacak, MDefter!KasaTutarli
<1>2. MKanit!KasaInv => MBakiyeTutarli
  <2> SUFFICES ASSUME MKanit!KasaInv, NEW r \in MSayilan, mKasa[r].tip = "DUZELTME", mKasa[r].bag # Yok
               PROVE  mKasa[r].bag \in MSayilan \/ mKasa[r].gec \/ mKasa[r].bag \in mSasan
    BY DEF MBakiyeTutarli
  <2>1. MKanit!SatirDogru(r) /\ ~mKasa[r].silindi
    BY DEF MKanit!KasaInv, MKanit!SatirlarDogru, MSayilan
  <2> QED BY <2>1 DEF MKanit!SatirDogru, MSayilan
<1> QED BY <1>1, <1>2, KasaTutarlidir, MKasaDegismez, PTL DEF KasalarTutarli
-----------------------------------------------------------------------------

(* The SMS wallet *)

(* What requests hold: a message on its way, its job and what settles it,  *)
(* a report, a correction.                                                 *)
SGonderimK ==
  [adim : {"defter", "yaz", "var", "gonder"}, x : SMesaj, k : {"rezerve"} \X SMesaj \X {0}, sonra : {"var"},
   b : Nat, bayat : BOOLEAN]
SIsK ==
  [adim : {"is"}, x : SMesaj, k : {"tuketim", "iptal"} \X SMesaj \X {0}, sonra : {"var"}, b : Nat, bayat : BOOLEAN]
SSonucK ==
  [adim : {"defter", "yaz"}, x : SMesaj, k : {"tuketim", "iptal"} \X SMesaj \X {0}, sonra : {"son"}, b : Nat,
   bayat : BOOLEAN]
SIadeK ==
  [adim : {"defter", "yaz", "BASARISIZ"}, x : SMesaj, k : {"iade"} \X SMesaj \X SHata, sonra : {"BASARISIZ"},
   b : Nat, bayat : BOOLEAN]
STeslimK == [adim : {"TESLIM_EDILDI"}, x : SMesaj]
SYonetimK ==
  [adim : {"defter", "yaz"}, x : {Yok}, k : {"yonetim"} \X SYonetim \X {0}, sonra : {"son"}, b : Nat, bayat : BOOLEAN]
SKayitTipi == SGonderimK \cup SIsK \cup SSonucK \cup SIadeK \cup STeslimK \cup SYonetimK

STipler ==
  /\ smsBakiye \in Nat /\ smsDefter \subseteq SAnahtar /\ IsFiniteSet(smsDefter)
  /\ smsIs \in [SMesaj -> SmsDurum \cup {Yok}] /\ smsMesaj \in [SMesaj -> Nat]
  /\ sIstek \in [SIstek -> SKayitTipi \cup {Bos, Bitti}]
  /\ sBayat \in BOOLEAN /\ sTekrar \subseteq SMesaj

SSurer(r) == r \notin {Bos, Bitti}
SKayitDogru(r) ==
  /\ r.adim # "TESLIM_EDILDI" /\ r.k[1] # "yonetim" => r.k[2] = r.x
  /\ r.adim \in {"var", "gonder", "is"} => <<"rezerve", r.x, 0>> \in smsDefter
  /\ r.adim = "yaz" => r.b + SDelta(r.k) >= 0 /\ (~r.bayat => r.b = smsBakiye)

\* On the way to the provider or back; with a report; with credit to let off.
SYol(r, x) == r.adim \in {"gonder", "is"} /\ r.x = x
SRap(r, x) ==
  \/ r.adim \in {"TESLIM_EDILDI", "BASARISIZ"} /\ r.x = x
  \/ r.adim \in {"defter", "yaz"} /\ r.k[1] = "iade" /\ r.x = x
SIpt(r, x) == r.adim \in {"defter", "yaz"} /\ r.k[1] = "iptal" /\ r.x = x
SIptaller(x) == {k \in smsDefter : k[1] = "iptal" /\ k[2] = x}
SIadeler(x) == {k \in smsDefter : k[1] = "iade" /\ k[2] = x}

\* A message whose calls did not overlap and were not lost.
SMesajDogru(x) ==
  /\ smsMesaj[x] \in {0, 1}
  /\ \A a, b \in SIstek : SYol(sIstek[a], x) /\ SYol(sIstek[b], x) => a = b
  /\ \A a \in SIstek : SYol(sIstek[a], x) =>
       smsIs[x] = Yok /\ smsMesaj[x] = IF sIstek[a].adim = "is" /\ sIstek[a].k[1] = "tuketim" THEN 1 ELSE 0
  /\ smsIs[x] = Yok => smsMesaj[x] = 0 \/ \E a \in SIstek : SYol(sIstek[a], x)
  /\ \A a, b \in SIstek : SRap(sIstek[a], x) /\ SRap(sIstek[b], x) => a = b
  /\ \A a \in SIstek : SRap(sIstek[a], x) =>
       smsIs[x] = "GONDERILDI" /\ (sIstek[a].adim # "BASARISIZ" => SIadeler(x) = {})
  /\ smsIs[x] \in {"GONDERILDI", "TESLIM_EDILDI"} => smsMesaj[x] = 1
  /\ SIptaller(x) # {} \/ (\E a \in SIstek : SIpt(sIstek[a], x)) => smsIs[x] = "BASARISIZ" /\ smsMesaj[x] = 0
  /\ SIadeler(x) # {} =>
       /\ smsMesaj[x] = 1
       /\ smsIs[x] = "BASARISIZ" \/ \E a \in SIstek : sIstek[a].adim = "BASARISIZ" /\ sIstek[a].x = x
  /\ \A k, l \in SIadeler(x) : k = l

SmsInv ==
  /\ STipler
  /\ \A a \in SIstek : SSurer(sIstek[a]) => SKayitDogru(sIstek[a])
  /\ ~sBayat => smsBakiye = SBakiye + MapThenSumSet(SDelta, smsDefter)
  /\ \A x \in SMesaj : smsMesaj[x] > 0 => <<"rezerve", x, 0>> \in smsDefter
  /\ \A x \in SMesaj \ sTekrar : SMesajDogru(x)

LEMMA SKayitAlanlari ==
  ASSUME NEW r \in SKayitTipi
  PROVE  /\ r.adim \in {"defter", "yaz", "var", "gonder", "is", "BASARISIZ", "TESLIM_EDILDI"}
         /\ r.adim \in {"var", "gonder"} => r \in SGonderimK
         /\ r.adim = "is" => r \in SIsK
         /\ r.adim = "BASARISIZ" => r \in SIadeK
         /\ r.adim = "TESLIM_EDILDI" => r \in STeslimK
         /\ r.adim \in {"defter", "yaz"} => r \in SGonderimK \cup SSonucK \cup SIadeK \cup SYonetimK
BY DEF SKayitTipi, SGonderimK, SIsK, SSonucK, SIadeK, STeslimK, SYonetimK

LEMMA SBosBitti ==
  /\ ~SSurer(Bos) /\ ~SSurer(Bitti) /\ \A r \in SKayitTipi : SSurer(r)
  /\ Bos.adim = "bos" /\ Bitti.adim = "bitti"
<1>1. ~SSurer(Bos) /\ ~SSurer(Bitti)
  BY DEF SSurer
<1>2. Bos.adim = "bos" /\ Bitti.adim = "bitti"
  BY DEF Bos, Bitti
<1>3. ASSUME NEW r \in SKayitTipi PROVE SSurer(r)
  BY <1>2, SKayitAlanlari DEF SSurer
<1> QED BY <1>1, <1>2, <1>3

\* Who is at a step holds a record of that step.
LEMMA SAdimdaki ==
  ASSUME SmsInv, NEW a \in SIstek,
         sIstek[a].adim \in {"defter", "yaz", "var", "gonder", "is", "BASARISIZ", "TESLIM_EDILDI"}
  PROVE  sIstek[a] \in SKayitTipi /\ SKayitDogru(sIstek[a])
<1>1. sIstek[a] \in SKayitTipi \cup {Bos, Bitti}
  BY DEF SmsInv, STipler
<1>2. sIstek[a] \in SKayitTipi
  BY <1>1, SBosBitti
<1> QED BY <1>2, SBosBitti DEF SmsInv

\* What a booking holds.
LEMMA SDefterdeki ==
  ASSUME NEW r \in SKayitTipi, r.adim \in {"defter", "yaz"}
  PROVE  /\ r.k \in SAnahtar /\ SDelta(r.k) \in {-1, 0, 1} /\ r.b \in Nat /\ r.bayat \in BOOLEAN
         /\ r.k[1] = "rezerve" => r \in SGonderimK
         /\ r.k[1] \in {"tuketim", "iptal"} => r \in SSonucK
         /\ r.k[1] = "iade" => r \in SIadeK
         /\ r.k[1] = "yonetim" => r \in SYonetimK
         /\ r.k[1] \in {"rezerve", "tuketim", "iptal", "iade", "yonetim"}
<1>1. r \in SGonderimK \cup SSonucK \cup SIadeK \cup SYonetimK
  BY SKayitAlanlari
<1>2. SDelta(r.k) \in {-1, 0, 1}
  BY DEF SDelta
<1>3. CASE r \in SGonderimK
  BY <1>2, <1>3 DEF SGonderimK, SAnahtar
<1>4. CASE r \in SSonucK
  BY <1>2, <1>4 DEF SSonucK, SAnahtar
<1>5. CASE r \in SIadeK
  BY <1>2, <1>5 DEF SIadeK, SAnahtar
<1>6. CASE r \in SYonetimK
  BY <1>2, <1>6 DEF SYonetimK, SAnahtar
<1> QED BY <1>1, <1>3, <1>4, <1>5, <1>6

(* The ledger's sum.                                                       *)
LEMMA SToplam ==
  ASSUME NEW S, IsFiniteSet(S)
  PROVE  MapThenSumSet(SDelta, S) = Topla([k \in S |-> SDelta(k)], S)
<1> DEFINE f == [k \in S |-> SDelta(k)]
           P(h) == h = [s \in SUBSET S |->
                          IF s = {} THEN 0
                          ELSE SDelta(CHOOSE x \in s : TRUE) + h[s \ {CHOOSE x \in s : TRUE}]]
<1>1. PICK g : Ozyineli(g, f, S)
  BY OzyineliVar
<1>2. \A s \in SUBSET S : s # {} => f[CHOOSE x \in s : TRUE] = SDelta(CHOOSE x \in s : TRUE)
  OBVIOUS
<1>3. \A h : Ozyineli(h, f, S) <=> P(h)
  <2> SUFFICES ASSUME NEW h PROVE Ozyineli(h, f, S) <=> P(h)
    OBVIOUS
  <2> DEFINE k == [s \in SUBSET S |-> IF s = {} THEN 0 ELSE f[CHOOSE x \in s : TRUE] + h[s \ {CHOOSE x \in s : TRUE}]]
             l == [s \in SUBSET S |-> IF s = {} THEN 0
                          ELSE SDelta(CHOOSE x \in s : TRUE) + h[s \ {CHOOSE x \in s : TRUE}]]
  <2> HIDE DEF f
  <2>1. k = l
    BY <1>2
  <2> QED BY <2>1 DEF Ozyineli
<1>4. PICK h : h = CHOOSE hh : P(hh)
  OBVIOUS
<1>5. MapThenSumSet(SDelta, S) = h[S]
  BY <1>4, Zenon DEF MapThenSumSet, MapThenFoldSet
<1> HIDE DEF P, f
<1>6. P(g)
  BY <1>1, <1>3
<1>7. P(h)
  BY <1>4, <1>6
<1>8. Ozyineli(h, f, S)
  BY <1>3, <1>7
<1>9. Topla(f, S) = h[S]
  BY <1>8, ToplaDeger
<1> QED BY <1>5, <1>9 DEF f

LEMMA SToplamEkle ==
  ASSUME NEW S, IsFiniteSet(S), NEW k, k \notin S
  PROVE  /\ MapThenSumSet(SDelta, S \cup {k}) = SDelta(k) + MapThenSumSet(SDelta, S)
         /\ MapThenSumSet(SDelta, S) \in Int /\ IsFiniteSet(S \cup {k})
<1> DEFINE T == S \cup {k}
           f == [z \in T |-> SDelta(z)]
           g == [z \in S |-> SDelta(z)]
<1>0. IsFiniteSet(T)
  BY FS_AddElement
<1>1. MapThenSumSet(SDelta, T) = Topla(f, T) /\ MapThenSumSet(SDelta, S) = Topla(g, S)
  BY <1>0, SToplam
<1>2. (\A z \in S : f[z] = g[z] /\ g[z] \in Int) /\ (\A z \in S \cup {k} : f[z] \in Int) /\ f[k] = SDelta(k)
  BY DEF SDelta
<1> HIDE DEF f, g
<1>3. Topla(f, S) = Topla(g, S)
  BY <1>2, ToplaEsit
<1>4. Topla(f, T) = f[k] + Topla(f, S)
  BY <1>2, ToplaEkle
<1>5. Topla(g, S) \in Int
  BY <1>2, ToplaTamSayi
<1> QED BY <1>0, <1>1, <1>2, <1>3, <1>4, <1>5
-----------------------------------------------------------------------------
(* Steps of the SMS wallet *)

\* Request a, in o, takes no new part in message x, and gives up none that
\* another call would have to know of.
SRolKalir(o, k, x) ==
  /\ ~SYol(k, x)
  /\ SRap(k, x) => SRap(o, x) /\ k.adim # "BASARISIZ"
  /\ SIpt(k, x) => SIpt(o, x)
  /\ ~(o.adim \in {"is", "BASARISIZ"} /\ o.x = x)

LEMMA SRolKorur ==
  ASSUME NEW x \in SMesaj, SMesajDogru(x), NEW a \in SIstek, NEW k, sIstek'[a] = k,
         SRolKalir(sIstek[a], k, x),
         \A b \in SIstek \ {a} : /\ sIstek'[b].adim = sIstek[b].adim
                                 /\ sIstek'[b].x = sIstek[b].x /\ sIstek'[b].k = sIstek[b].k,
         smsIs'[x] = smsIs[x], smsMesaj'[x] = smsMesaj[x],
         SIptaller(x)' = SIptaller(x), SIadeler(x)' = SIadeler(x)
  PROVE  SMesajDogru(x)'
<1>1. \A b \in SIstek \ {a} : /\ SYol(sIstek'[b], x) <=> SYol(sIstek[b], x)
                              /\ SRap(sIstek'[b], x) <=> SRap(sIstek[b], x)
                              /\ SIpt(sIstek'[b], x) <=> SIpt(sIstek[b], x)
  BY DEF SYol, SRap, SIpt
<1>2. /\ ~SYol(sIstek'[a], x)
      /\ SRap(sIstek'[a], x) => SRap(sIstek[a], x) /\ sIstek'[a].adim # "BASARISIZ"
      /\ SIpt(sIstek'[a], x) => SIpt(sIstek[a], x)
      /\ ~(sIstek[a].adim \in {"is", "BASARISIZ"} /\ sIstek[a].x = x)
  BY DEF SRolKalir
<1>3. SYol(sIstek[a], x) => smsMesaj[x] = 0
  BY <1>2 DEF SMesajDogru, SYol
<1>4. SRap(sIstek[a], x) => SIadeler(x) = {} /\ smsIs[x] = "GONDERILDI"
  BY <1>2 DEF SMesajDogru, SRap
<1>5. \A b, c \in SIstek : SYol(sIstek'[b], x) /\ SYol(sIstek'[c], x) => b = c
  BY <1>1, <1>2 DEF SMesajDogru
<1>6. \A b \in SIstek : SYol(sIstek'[b], x) =>
        smsIs'[x] = Yok /\ smsMesaj'[x] = IF sIstek'[b].adim = "is" /\ sIstek'[b].k[1] = "tuketim" THEN 1 ELSE 0
  BY <1>1, <1>2 DEF SMesajDogru
<1>7. smsIs'[x] = Yok => smsMesaj'[x] = 0 \/ \E b \in SIstek : SYol(sIstek'[b], x)
  BY <1>1, <1>3 DEF SMesajDogru
<1>8. \A b, c \in SIstek : SRap(sIstek'[b], x) /\ SRap(sIstek'[c], x) => b = c
  BY <1>1, <1>2 DEF SMesajDogru
<1>9. \A b \in SIstek : SRap(sIstek'[b], x) =>
        smsIs'[x] = "GONDERILDI" /\ (sIstek'[b].adim # "BASARISIZ" => SIadeler(x)' = {})
  BY <1>1, <1>2, <1>4 DEF SMesajDogru
<1>10. SIptaller(x)' # {} \/ (\E b \in SIstek : SIpt(sIstek'[b], x)) => smsIs'[x] = "BASARISIZ" /\ smsMesaj'[x] = 0
  BY <1>1, <1>2 DEF SMesajDogru
<1>11. SIadeler(x)' # {} =>
         /\ smsMesaj'[x] = 1
         /\ smsIs'[x] = "BASARISIZ" \/ \E b \in SIstek : sIstek'[b].adim = "BASARISIZ" /\ sIstek'[b].x = x
  BY <1>2 DEF SMesajDogru
<1>12. /\ smsMesaj'[x] \in {0, 1} /\ (smsIs'[x] \in {"GONDERILDI", "TESLIM_EDILDI"} => smsMesaj'[x] = 1)
       /\ \A i, l \in SIadeler(x)' : i = l
  BY DEF SMesajDogru
<1>13. \A b \in SIstek : /\ SYol(sIstek'[b], x) <=> SYol(sIstek[b], x)'
                         /\ SRap(sIstek'[b], x) <=> SRap(sIstek[b], x)'
                         /\ SIpt(sIstek'[b], x) <=> SIpt(sIstek[b], x)'
  BY DEF SYol, SRap, SIpt
<1> QED BY <1>5, <1>6, <1>7, <1>8, <1>9, <1>10, <1>11, <1>12, <1>13 DEF SMesajDogru

\* A request moves; the balance, the ledger, jobs and messages stay.
LEMMA SAdimKorur ==
  ASSUME SmsInv, NEW a \in SIstek, NEW k \in SKayitTipi \cup {Bos, Bitti}, sIstek' = [sIstek EXCEPT ![a] = k],
         UNCHANGED <<smsBakiye, smsDefter, smsIs, smsMesaj, sBayat>>,
         sTekrar \subseteq sTekrar', sTekrar' \subseteq SMesaj,
         SSurer(k) => SKayitDogru(k),
         \A x \in SMesaj \ sTekrar' : SRolKalir(sIstek[a], k, x) \/ SMesajDogru(x)'
  PROVE  SmsInv'
<1>0. STipler
  BY DEF SmsInv
<1>1. /\ sIstek' \in [SIstek -> SKayitTipi \cup {Bos, Bitti}] /\ sIstek'[a] = k
      /\ \A b \in SIstek \ {a} : sIstek'[b] = sIstek[b]
  BY <1>0 DEF STipler
<1>2. STipler'
  BY <1>0, <1>1 DEF STipler
<1>3. ASSUME NEW b \in SIstek, SSurer(sIstek[b])' PROVE SKayitDogru(sIstek[b])'
  BY <1>1, <1>3 DEF SmsInv, SKayitDogru, SSurer
<1>4. \A x \in SMesaj : SIptaller(x)' = SIptaller(x) /\ SIadeler(x)' = SIadeler(x)
  BY DEF SIptaller, SIadeler
<1>5. ASSUME NEW x \in SMesaj \ sTekrar' PROVE SMesajDogru(x)'
  <2>1. SMesajDogru(x)
    BY DEF SmsInv
  <2>2. CASE SRolKalir(sIstek[a], k, x)
    BY <1>1, <1>4, <2>1, <2>2, SRolKorur
  <2> QED BY <2>2
<1>6. ~sBayat' => smsBakiye' = SBakiye + MapThenSumSet(SDelta, smsDefter')
  BY DEF SmsInv
<1> QED BY <1>2, <1>3, <1>5, <1>6 DEF SmsInv

LEMMA SmsBaslaKorur ==
  ASSUME SmsInv, NEW a \in SIstek, NEW x \in SMesaj, SmsBasla(a, x)
  PROVE  SmsInv'
<1>1. PICK k : k = SKayit(x, <<"rezerve", x, 0>>, "var")
  OBVIOUS
<1>2. k \in SGonderimK /\ k.adim = "defter" /\ k.k[1] = "rezerve" /\ k.k[2] = x /\ k.x = x
  BY <1>1 DEF SKayit, SGonderimK
<1>3. /\ sIstek' = [sIstek EXCEPT ![a] = k] /\ sIstek[a] = Bos
      /\ UNCHANGED <<smsBakiye, smsDefter, smsIs, smsMesaj, sBayat, sTekrar>>
  BY <1>1 DEF SmsBasla, SGelir, Ilk
<1>4. SKayitDogru(k)
  BY <1>2 DEF SKayitDogru
<1>5. \A y \in SMesaj : SRolKalir(sIstek[a], k, y)
  BY <1>2, <1>3, SBosBitti DEF SRolKalir, SYol, SRap, SIpt
<1>6. k \in SKayitTipi /\ sTekrar' \subseteq SMesaj /\ sTekrar \subseteq sTekrar'
  BY <1>2, <1>3 DEF SKayitTipi, SmsInv, STipler
<1> QED BY <1>3, <1>4, <1>5, <1>6, SAdimKorur

LEMMA SmsYonetKorur ==
  ASSUME SmsInv, NEW a \in SIstek, NEW y \in SYonetim, SmsYonet(a, y)
  PROVE  SmsInv'
<1>1. PICK k : k = SKayit(Yok, <<"yonetim", y, 0>>, "son")
  OBVIOUS
<1>2. k \in SYonetimK /\ k.adim = "defter" /\ k.k[1] = "yonetim"
  BY <1>1 DEF SKayit, SYonetimK
<1>3. /\ sIstek' = [sIstek EXCEPT ![a] = k] /\ sIstek[a] = Bos
      /\ UNCHANGED <<smsBakiye, smsDefter, smsIs, smsMesaj, sBayat, sTekrar>>
  BY <1>1 DEF SmsYonet, SGelir, Ilk
<1>4. SKayitDogru(k)
  BY <1>2 DEF SKayitDogru
<1>5. \A x \in SMesaj : SRolKalir(sIstek[a], k, x)
  BY <1>2, <1>3, SBosBitti DEF SRolKalir, SYol, SRap, SIpt
<1>6. k \in SKayitTipi /\ sTekrar' \subseteq SMesaj /\ sTekrar \subseteq sTekrar'
  BY <1>2, <1>3 DEF SKayitTipi, SmsInv, STipler
<1> QED BY <1>3, <1>4, <1>5, <1>6, SAdimKorur

\* A request ends; calls lost after the provider or a refund are known to be.
LEMMA SBiterKorur ==
  ASSUME SmsInv, NEW a \in SIstek, NEW k \in {Bitti}, sIstek' = [sIstek EXCEPT ![a] = k],
         UNCHANGED <<smsBakiye, smsDefter, smsIs, smsMesaj, sBayat>>,
         sTekrar \subseteq sTekrar', sTekrar' \subseteq SMesaj,
         sIstek[a].adim \in {"is", "BASARISIZ"} => sIstek[a].x \in sTekrar'
  PROVE  SmsInv'
<1>1. k \in SKayitTipi \cup {Bos, Bitti} /\ ~SSurer(k) /\ k.adim = "bitti"
  BY SBosBitti
<1>2. \A x \in SMesaj \ sTekrar' : SRolKalir(sIstek[a], k, x)
  BY <1>1 DEF SRolKalir, SYol, SRap, SIpt
<1> QED BY <1>1, <1>2, SAdimKorur

LEMMA SDuserKorur ==
  ASSUME SmsInv, NEW a \in SIstek, SDuser(a)
  PROVE  SmsInv'
<1>1. /\ sIstek' = [sIstek EXCEPT ![a] = Bitti]
      /\ sTekrar' = IF sIstek[a].adim \in {"is", "BASARISIZ"} THEN sTekrar \cup {sIstek[a].x} ELSE sTekrar
      /\ UNCHANGED <<smsBakiye, smsDefter, smsIs, smsMesaj, sBayat>>
  BY DEF SDuser
<1>2. sIstek[a].adim \in {"is", "BASARISIZ"} => sIstek[a].x \in SMesaj
  BY SAdimdaki, SKayitAlanlari DEF SIsK, SIadeK
<1>3. sTekrar \subseteq sTekrar' /\ sTekrar' \subseteq SMesaj
  BY <1>1, <1>2 DEF SmsInv, STipler
<1>4. PICK k \in {Bitti} : sIstek' = [sIstek EXCEPT ![a] = k]
  BY <1>1
<1>5. sIstek[a].adim \in {"is", "BASARISIZ"} => sIstek[a].x \in sTekrar'
  BY <1>1
<1> QED BY <1>1, <1>3, <1>4, <1>5, SBiterKorur

LEMMA SDefterOkuKorur ==
  ASSUME SmsInv, NEW a \in SIstek, SDefterOku(a)
  PROVE  SmsInv'
<1>0. sIstek[a].adim = "defter" /\ UNCHANGED <<smsBakiye, smsDefter, smsIs, smsMesaj, sBayat, sTekrar>>
  BY DEF SDefterOku
<1>1. PICK r \in SKayitTipi : r = sIstek[a] /\ r.adim = "defter" /\ SKayitDogru(r)
  BY <1>0, SAdimdaki
<1>2. sTekrar \subseteq sTekrar' /\ sTekrar' \subseteq SMesaj
  BY <1>0 DEF SmsInv, STipler
<1>3. CASE sIstek' = [sIstek EXCEPT ![a] = Bitti]
  <2>1. PICK k \in {Bitti} : sIstek' = [sIstek EXCEPT ![a] = k]
    BY <1>3
  <2> QED BY <1>0, <1>2, <2>1, SBiterKorur
<1>4. CASE r.k \in smsDefter /\ r.sonra # "son"
  <2>1. PICK k : k = [r EXCEPT !.adim = r.sonra]
    OBVIOUS
  <2>2. sIstek' = [sIstek EXCEPT ![a] = k]
    BY <1>1, <1>4, <2>1 DEF SDefterOku, SIlerlet
  <2>3. CASE r.k[1] = "rezerve"
    <3>1. r \in SGonderimK /\ r.k[2] = r.x
      BY <1>1, <2>3, SDefterdeki DEF SKayitDogru
    <3>2. k \in SGonderimK /\ k.adim = "var" /\ k.x = r.x /\ k.k = r.k /\ k.k = <<"rezerve", r.x, 0>>
      BY <2>1, <3>1 DEF SGonderimK
    <3>3. SKayitDogru(k)
      BY <1>4, <3>1, <3>2 DEF SKayitDogru
    <3>4. \A x \in SMesaj : SRolKalir(sIstek[a], k, x)
      BY <1>1, <3>2 DEF SRolKalir, SYol, SRap, SIpt
    <3>5. k \in SKayitTipi
      BY <3>2 DEF SKayitTipi
    <3> QED BY <1>0, <1>2, <2>2, <3>3, <3>4, <3>5, SAdimKorur
  <2>4. CASE r.k[1] = "iade"
    <3>1. r \in SIadeK /\ r.k[2] = r.x /\ r.x \in SMesaj
      BY <1>1, <2>4, SDefterdeki DEF SKayitDogru, SIadeK
    <3>2. k \in SIadeK /\ k.adim = "BASARISIZ" /\ k.x = r.x /\ k.k = r.k
      BY <2>1, <3>1 DEF SIadeK
    <3>3. SKayitDogru(k)
      BY <3>1, <3>2 DEF SKayitDogru
    <3>4. ASSUME NEW x \in SMesaj \ sTekrar' PROVE SRolKalir(sIstek[a], k, x)
      <4>1. CASE x = r.x
        <5>1. r.k \in SIadeler(x)
          BY <1>4, <2>4, <3>1, <4>1 DEF SIadeler
        <5>2. SRap(sIstek[a], x) /\ sIstek[a].adim # "BASARISIZ"
          BY <1>1, <2>4, <4>1 DEF SRap
        <5>3. SMesajDogru(x)
          BY <1>0 DEF SmsInv
        <5> QED BY <5>1, <5>2, <5>3 DEF SMesajDogru
      <4>2. CASE x # r.x
        BY <1>1, <3>2, <4>2 DEF SRolKalir, SYol, SRap, SIpt
      <4> QED BY <4>1, <4>2
    <3>5. k \in SKayitTipi
      BY <3>2 DEF SKayitTipi
    <3> QED BY <1>0, <1>2, <2>2, <3>3, <3>4, <3>5, SAdimKorur
  <2>5. CASE r.k[1] \in {"tuketim", "iptal", "yonetim"}
    <3>1. r.sonra = "son"
      BY <1>1, <2>5, SDefterdeki DEF SSonucK, SYonetimK
    <3> QED BY <1>4, <3>1
  <2> QED BY <1>1, <2>3, <2>4, <2>5, SDefterdeki
<1>5. CASE r.k \notin smsDefter /\ ~(smsBakiye + SDelta(r.k) < 0)
  <2>1. PICK k : k = [r EXCEPT !.adim = "yaz", !.b = smsBakiye, !.bayat = FALSE]
    OBVIOUS
  <2>2. sIstek' = [sIstek EXCEPT ![a] = k]
    BY <1>1, <1>5, <2>1 DEF SDefterOku
  <2>3. smsBakiye \in Nat /\ SDelta(r.k) \in Int
    BY <1>1, SDefterdeki DEF SmsInv, STipler
  <2>4. /\ k \in SKayitTipi /\ k.adim = "yaz" /\ k.b = smsBakiye /\ k.bayat = FALSE
        /\ k.x = r.x /\ k.k = r.k /\ r.adim # "TESLIM_EDILDI"
    <3>1. r \in SGonderimK \cup SSonucK \cup SIadeK \cup SYonetimK
      BY <1>1, SKayitAlanlari
    <3>2. CASE r \in SGonderimK
      BY <1>1, <2>1, <2>3, <3>2 DEF SKayitTipi, SGonderimK
    <3>3. CASE r \in SSonucK
      BY <1>1, <2>1, <2>3, <3>3 DEF SKayitTipi, SSonucK
    <3>4. CASE r \in SIadeK
      BY <1>1, <2>1, <2>3, <3>4 DEF SKayitTipi, SIadeK
    <3>5. CASE r \in SYonetimK
      BY <1>1, <2>1, <2>3, <3>5 DEF SKayitTipi, SYonetimK
    <3> QED BY <3>1, <3>2, <3>3, <3>4, <3>5
  <2>5. SKayitDogru(k)
    BY <1>1, <1>5, <2>3, <2>4 DEF SKayitDogru
  <2>6. \A x \in SMesaj : SRolKalir(sIstek[a], k, x)
    BY <1>1, <2>4 DEF SRolKalir, SYol, SRap, SIpt
  <2> QED BY <1>0, <1>2, <2>2, <2>4, <2>5, <2>6, SAdimKorur
<1>6. \/ sIstek' = [sIstek EXCEPT ![a] = Bitti]
      \/ r.k \in smsDefter /\ r.sonra # "son"
      \/ r.k \notin smsDefter /\ ~(smsBakiye + SDelta(r.k) < 0)
  BY <1>1 DEF SDefterOku, SIlerlet
<1> QED BY <1>3, <1>4, <1>5, <1>6
LEMMA SVarOkuKorur ==
  ASSUME SmsInv, NEW a \in SIstek, SVarOku(a)
  PROVE  SmsInv'
<1>0. sIstek[a].adim = "var" /\ UNCHANGED <<smsBakiye, smsDefter, smsIs, smsMesaj, sBayat>>
  BY DEF SVarOku
<1>1. PICK r \in SGonderimK : r = sIstek[a] /\ r.adim = "var" /\ SKayitDogru(r)
  BY <1>0, SAdimdaki, SKayitAlanlari
<1>2. PICK x \in SMesaj : x = r.x
  BY <1>1 DEF SGonderimK
<1>3. sTekrar' = IF smsIs[x] = Yok /\ SYolda(a, x) THEN sTekrar \cup {x} ELSE sTekrar
  BY <1>1, <1>2 DEF SVarOku
<1>4. sTekrar \subseteq sTekrar' /\ sTekrar' \subseteq SMesaj
  BY <1>3 DEF SmsInv, STipler
<1>5. CASE smsIs[x] # Yok
  <2>1. PICK k \in {Bitti} : sIstek' = [sIstek EXCEPT ![a] = k]
    BY <1>1, <1>2, <1>5 DEF SVarOku, SIlerlet
  <2> QED BY <1>0, <1>1, <1>4, <2>1, SBiterKorur
<1>6. CASE smsIs[x] = Yok
  <2>1. PICK k : k = [r EXCEPT !.adim = "gonder"]
    OBVIOUS
  <2>2. sIstek' = [sIstek EXCEPT ![a] = k]
    BY <1>1, <1>2, <1>6, <2>1 DEF SVarOku, SIlerlet
  <2>3. k \in SGonderimK /\ k.adim = "gonder" /\ k.x = x /\ k.k = r.k
    BY <1>1, <1>2, <2>1 DEF SGonderimK
  <2>4. k \in SKayitTipi
    BY <2>3 DEF SKayitTipi
  <2>5. SKayitDogru(k)
    BY <1>1, <1>2, <2>3 DEF SKayitDogru
  <2>6. /\ sIstek' \in [SIstek -> SKayitTipi \cup {Bos, Bitti}] /\ sIstek'[a] = k
        /\ \A b \in SIstek \ {a} : sIstek'[b] = sIstek[b]
    BY <2>2, <2>4 DEF SmsInv, STipler
  <2>7. ASSUME x \notin sTekrar' PROVE SMesajDogru(x)'
    <3>1. SMesajDogru(x)
      BY <1>4, <2>7 DEF SmsInv
    <3>2. \A b \in SIstek \ {a} : ~SYol(sIstek[b], x)
      BY <1>3, <1>6, <2>7 DEF SYolda, SYol
    <3>3. ~SYol(sIstek[a], x) /\ ~SRap(sIstek[a], x) /\ ~SIpt(sIstek[a], x)
      BY <1>1 DEF SYol, SRap, SIpt
    <3>4. smsMesaj[x] = 0
      BY <1>6, <3>1, <3>2, <3>3 DEF SMesajDogru
    <3>5. ~SRap(k, x) /\ ~SIpt(k, x)
      BY <2>3 DEF SRap, SIpt
    <3>6. \A b \in SIstek : b # a => (SYol(sIstek[b], x)' <=> SYol(sIstek[b], x)) /\ (SRap(sIstek[b], x)' <=> SRap(sIstek[b], x))
                            /\ (SIpt(sIstek[b], x)' <=> SIpt(sIstek[b], x))
      BY <2>6 DEF SYol, SRap, SIpt
    <3>7. ~SRap(sIstek[a], x)' /\ ~SIpt(sIstek[a], x)'
      BY <2>6, <3>5 DEF SRap, SIpt
    <3>8. SIptaller(x)' = SIptaller(x) /\ SIadeler(x)' = SIadeler(x)
      BY <1>0 DEF SIptaller, SIadeler
    <3>9. sIstek'[a].adim # "is" /\ sIstek[a].adim # "BASARISIZ" /\ smsIs' = smsIs /\ smsMesaj' = smsMesaj
      BY <1>0, <2>3, <2>6
    <3>10. SYol(sIstek[a], x)'
      BY <2>3, <2>6 DEF SYol
    <3>11. /\ \A b, c \in SIstek : SYol(sIstek[b], x)' /\ SYol(sIstek[c], x)' => b = c
           /\ \A b \in SIstek : SYol(sIstek[b], x)' =>
                smsIs'[x] = Yok /\ smsMesaj'[x] = IF sIstek'[b].adim = "is" /\ sIstek'[b].k[1] = "tuketim" THEN 1 ELSE 0
      BY <1>6, <3>2, <3>4, <3>6, <3>9
    <3>12. /\ \A b, c \in SIstek : SRap(sIstek[b], x)' /\ SRap(sIstek[c], x)' => b = c
           /\ ~\E b \in SIstek : SRap(sIstek[b], x)'
           /\ SIptaller(x)' = {} /\ ~\E b \in SIstek : SIpt(sIstek[b], x)'
      BY <1>6, <3>1, <3>3, <3>6, <3>7, <3>8, SmsVarsayimi DEF SMesajDogru, SmsDurum
    <3>13. SIadeler(x)' = {}
      BY <3>1, <3>4, <3>8 DEF SMesajDogru
    <3> QED BY <1>6, <3>4, <3>9, <3>11, <3>12, <3>13, SmsVarsayimi DEF SMesajDogru, SmsDurum
  <2>8. \A y \in SMesaj \ {x} : SRolKalir(sIstek[a], k, y)
    BY <1>1, <2>3 DEF SRolKalir, SYol, SRap, SIpt
  <2>9. \A y \in SMesaj \ sTekrar' : SRolKalir(sIstek[a], k, y) \/ SMesajDogru(y)'
    BY <2>7, <2>8
  <2> QED BY <1>0, <1>4, <2>2, <2>4, <2>5, <2>9, SAdimKorur
<1> QED BY <1>5, <1>6

LEMMA SRaporOkuKorur ==
  ASSUME SmsInv, NEW a \in SIstek, NEW x \in SMesaj, SRaporOku(a, x)
  PROVE  SmsInv'
<1>0. /\ smsIs[x] = "GONDERILDI" /\ sIstek[a] = Bos /\ UNCHANGED <<smsBakiye, smsDefter, smsIs, smsMesaj, sBayat>>
      /\ sTekrar' = IF \E b \in SIstek \ {a} : sIstek[b] \notin {Bos, Bitti} /\ sIstek[b].x = x THEN sTekrar \cup {x} ELSE sTekrar
  BY DEF SRaporOku, SGelir, Ilk
<1>1. PICK k : /\ sIstek' = [sIstek EXCEPT ![a] = k]
               /\ \/ k = [adim |-> "TESLIM_EDILDI", x |-> x]
                  \/ \E h \in SHata : k = SKayit(x, <<"iade", x, h>>, "BASARISIZ")
  BY DEF SRaporOku, SGelir
<1>2. /\ k \in STeslimK \cup SIadeK /\ k.x = x /\ k.adim \in {"TESLIM_EDILDI", "defter"}
      /\ k.adim = "defter" => k.k[1] = "iade" /\ k.k[2] = x
  <2>1. CASE k = [adim |-> "TESLIM_EDILDI", x |-> x]
    BY <2>1 DEF STeslimK
  <2>2. ASSUME NEW h \in SHata, k = SKayit(x, <<"iade", x, h>>, "BASARISIZ")
        PROVE  k \in SIadeK /\ k.x = x /\ k.adim = "defter" /\ k.k[1] = "iade" /\ k.k[2] = x
    BY <2>2 DEF SIadeK, SKayit
  <2> QED BY <1>1, <2>1, <2>2
<1>3. k \in SKayitTipi
  BY <1>2 DEF SKayitTipi
<1>4. SKayitDogru(k)
  BY <1>2 DEF SKayitDogru
<1>5. sTekrar \subseteq sTekrar' /\ sTekrar' \subseteq SMesaj
  BY <1>0 DEF SmsInv, STipler
<1>6. /\ sIstek' \in [SIstek -> SKayitTipi \cup {Bos, Bitti}] /\ sIstek'[a] = k
      /\ \A b \in SIstek \ {a} : sIstek'[b] = sIstek[b]
  BY <1>1, <1>3 DEF SmsInv, STipler
<1>7. ASSUME x \notin sTekrar' PROVE SMesajDogru(x)'
  <2>1. SMesajDogru(x)
    BY <1>5, <1>7 DEF SmsInv
  <2>2. \A b \in SIstek \ {a} : ~SYol(sIstek[b], x) /\ ~SRap(sIstek[b], x) /\ ~SIpt(sIstek[b], x)
    <3>1. ASSUME NEW b \in SIstek \ {a} PROVE sIstek[b] \in {Bos, Bitti} \/ sIstek[b].x # x
      BY <1>0, <1>7
    <3> QED BY <3>1, SBosBitti DEF SYol, SRap, SIpt
  <2>3. ~SYol(k, x) /\ ~SIpt(k, x) /\ k.adim # "BASARISIZ" /\ sIstek[a].adim = "bos"
    BY <1>0, <1>2, SBosBitti DEF SYol, SIpt
  <2>4. \A b \in SIstek : ~SYol(sIstek[b], x)' /\ ~SIpt(sIstek[b], x)' /\ (b # a => ~SRap(sIstek[b], x)')
    BY <1>6, <2>2, <2>3 DEF SYol, SIpt, SRap
  <2>5. SIptaller(x)' = SIptaller(x) /\ SIadeler(x)' = SIadeler(x)
    BY <1>0 DEF SIptaller, SIadeler
  <2>6. SIptaller(x) = {} /\ smsMesaj[x] = 1
    BY <1>0, <2>1 DEF SMesajDogru
  <2>7. SIadeler(x) = {}
    <3>1. \A b \in SIstek : ~(sIstek[b].adim = "BASARISIZ" /\ sIstek[b].x = x)
      BY <2>2, <2>3 DEF SRap
    <3> QED BY <1>0, <2>1, <3>1 DEF SMesajDogru
  <2> QED BY <1>0, <2>4, <2>5, <2>6, <2>7, SmsVarsayimi DEF SMesajDogru, SmsDurum
<1>8. \A y \in SMesaj \ {x} : SRolKalir(sIstek[a], k, y)
  BY <1>0, <1>2, SBosBitti DEF SRolKalir, SYol, SRap, SIpt
<1>9. \A y \in SMesaj \ sTekrar' : SRolKalir(sIstek[a], k, y) \/ SMesajDogru(y)'
  BY <1>7, <1>8
<1> QED BY <1>0, <1>1, <1>3, <1>4, <1>5, <1>9, SAdimKorur
\* A request moves, and the job or the messages of x change with it.
LEMMA SMesajKorur ==
  ASSUME SmsInv, NEW a \in SIstek, NEW x \in SMesaj, NEW k \in SKayitTipi \cup {Bos, Bitti},
         sIstek' = [sIstek EXCEPT ![a] = k], UNCHANGED <<smsBakiye, smsDefter, sBayat, sTekrar>>,
         smsIs' \in [SMesaj -> SmsDurum \cup {Yok}], smsMesaj' \in [SMesaj -> Nat],
         \A y \in SMesaj \ {x} : /\ smsIs'[y] = smsIs[y] /\ smsMesaj'[y] = smsMesaj[y]
                                 /\ SRolKalir(sIstek[a], k, y),
         SSurer(k) => SKayitDogru(k),
         smsMesaj'[x] > 0 => <<"rezerve", x, 0>> \in smsDefter,
         x \notin sTekrar => SMesajDogru(x)'
  PROVE  SmsInv'
<1>0. STipler
  BY DEF SmsInv
<1>1. /\ sIstek' \in [SIstek -> SKayitTipi \cup {Bos, Bitti}] /\ sIstek'[a] = k
      /\ \A b \in SIstek \ {a} : sIstek'[b] = sIstek[b]
  BY <1>0 DEF STipler
<1>2. STipler'
  BY <1>0, <1>1 DEF STipler
<1>3. ASSUME NEW b \in SIstek, SSurer(sIstek[b])' PROVE SKayitDogru(sIstek[b])'
  BY <1>1, <1>3 DEF SmsInv, SKayitDogru, SSurer
<1>4. \A y \in SMesaj : SIptaller(y)' = SIptaller(y) /\ SIadeler(y)' = SIadeler(y)
  BY DEF SIptaller, SIadeler
<1>5. ASSUME NEW y \in SMesaj \ sTekrar' PROVE SMesajDogru(y)'
  <2>1. CASE y = x
    BY <2>1
  <2>2. CASE y # x
    <3>1. SMesajDogru(y) /\ SRolKalir(sIstek[a], k, y) /\ smsIs'[y] = smsIs[y] /\ smsMesaj'[y] = smsMesaj[y]
      BY <2>2 DEF SmsInv
    <3> QED BY <1>1, <1>4, <3>1, SRolKorur
  <2> QED BY <2>1, <2>2
<1>6. ~sBayat' => smsBakiye' = SBakiye + MapThenSumSet(SDelta, smsDefter')
  BY DEF SmsInv
<1>7. \A y \in SMesaj : smsMesaj'[y] > 0 => <<"rezerve", y, 0>> \in smsDefter'
  BY DEF SmsInv
<1> QED BY <1>2, <1>3, <1>5, <1>6, <1>7 DEF SmsInv

LEMMA SGonderKorur ==
  ASSUME SmsInv, NEW a \in SIstek, NEW ok \in BOOLEAN, SGonder(a, ok)
  PROVE  SmsInv'
<1>0. sIstek[a].adim = "gonder" /\ UNCHANGED <<smsBakiye, smsDefter, smsIs, sBayat, sTekrar>> /\ STipler
  BY DEF SGonder, SmsInv
<1>1. PICK r \in SGonderimK : r = sIstek[a] /\ r.adim = "gonder" /\ SKayitDogru(r)
  BY <1>0, SAdimdaki, SKayitAlanlari
<1>2. PICK x \in SMesaj : x = r.x
  BY <1>1 DEF SGonderimK
<1>3. PICK t : t = IF ok THEN "tuketim" ELSE "iptal"
  OBVIOUS
<1>4. PICK k : k = [r EXCEPT !.adim = "is", !.k = <<t, x, 0>>]
  OBVIOUS
<1>5. k \in SIsK /\ k.adim = "is" /\ k.x = x /\ k.k[1] = t /\ k.k[2] = x
  BY <1>1, <1>2, <1>3, <1>4 DEF SGonderimK, SIsK
<1>6. sIstek' = [sIstek EXCEPT ![a] = k]
  BY <1>0, <1>1, <1>2, <1>3, <1>4 DEF SGonder, STipler
<1>7. smsMesaj' = [smsMesaj EXCEPT ![x] = IF ok THEN smsMesaj[x] + 1 ELSE smsMesaj[x]]
  BY <1>1, <1>2 DEF SGonder
<1>8. /\ smsMesaj' \in [SMesaj -> Nat] /\ smsMesaj'[x] = (IF ok THEN smsMesaj[x] + 1 ELSE smsMesaj[x])
      /\ \A y \in SMesaj \ {x} : smsMesaj'[y] = smsMesaj[y]
  BY <1>0, <1>7 DEF STipler
<1>9. k \in SKayitTipi
  BY <1>5 DEF SKayitTipi
<1>10. <<"rezerve", x, 0>> \in smsDefter
  BY <1>1, <1>2 DEF SKayitDogru
<1>11. SKayitDogru(k)
  BY <1>5, <1>10 DEF SKayitDogru
<1>12. \A y \in SMesaj \ {x} : SRolKalir(sIstek[a], k, y)
  BY <1>1, <1>5 DEF SRolKalir, SYol, SRap, SIpt
<1>13. /\ sIstek' \in [SIstek -> SKayitTipi \cup {Bos, Bitti}] /\ sIstek'[a] = k
       /\ \A b \in SIstek \ {a} : sIstek'[b] = sIstek[b]
  BY <1>0, <1>6, <1>9 DEF STipler
<1>14. ASSUME x \notin sTekrar PROVE SMesajDogru(x)'
  <2>1. SMesajDogru(x)
    BY <1>14 DEF SmsInv
  <2>2. SYol(sIstek[a], x) /\ ~SRap(sIstek[a], x) /\ ~SIpt(sIstek[a], x)
    BY <1>1, <1>2 DEF SYol, SRap, SIpt
  <2>3. smsIs[x] = Yok /\ smsMesaj[x] = 0 /\ \A b \in SIstek \ {a} : ~SYol(sIstek[b], x)
    BY <1>1, <2>1, <2>2 DEF SMesajDogru
  <2>4. smsMesaj'[x] = IF t = "tuketim" THEN 1 ELSE 0
    BY <1>3, <1>8, <2>3
  <2>5. \A b \in SIstek : ~SRap(sIstek[b], x)' /\ ~SIpt(sIstek[b], x)' /\ (b # a => ~SYol(sIstek[b], x)')
    <3>1. \A b \in SIstek : ~SRap(sIstek[b], x) /\ ~SIpt(sIstek[b], x)
      BY <2>1, <2>3, SmsVarsayimi DEF SMesajDogru, SmsDurum
    <3>2. ~SRap(k, x) /\ ~SIpt(k, x)
      BY <1>5 DEF SRap, SIpt
    <3> QED BY <1>13, <2>3, <3>1, <3>2 DEF SRap, SIpt, SYol
  <2>6. SYol(sIstek[a], x)' /\ sIstek'[a].adim = "is" /\ sIstek'[a].k[1] = t
    BY <1>5, <1>13 DEF SYol
  <2>7. SIptaller(x)' = {} /\ SIadeler(x)' = {}
    <3>1. SIptaller(x) = {} /\ SIadeler(x) = {}
      BY <2>1, <2>3, SmsVarsayimi DEF SMesajDogru, SmsDurum
    <3> QED BY <1>0, <3>1 DEF SIptaller, SIadeler
  <2> QED BY <1>0, <2>3, <2>4, <2>5, <2>6, <2>7, SmsVarsayimi DEF SMesajDogru, SmsDurum
<1> QED BY <1>0, <1>6, <1>8, <1>9, <1>10, <1>11, <1>12, <1>14, SMesajKorur DEF STipler

LEMMA SIsYazKorur ==
  ASSUME SmsInv, NEW a \in SIstek, SIsYaz(a)
  PROVE  SmsInv'
<1>0. sIstek[a].adim = "is" /\ UNCHANGED <<smsBakiye, smsDefter, smsMesaj, sBayat, sTekrar>> /\ STipler
  BY DEF SIsYaz, SmsInv
<1>1. PICK r \in SIsK : r = sIstek[a] /\ r.adim = "is" /\ SKayitDogru(r)
  BY <1>0, SAdimdaki, SKayitAlanlari
<1>2. PICK x \in SMesaj : x = r.x /\ r.k[2] = x /\ r.k[1] \in {"tuketim", "iptal"}
  BY <1>1 DEF SIsK, SKayitDogru
<1>3. SYol(sIstek[a], x) /\ ~SRap(sIstek[a], x) /\ ~SIpt(sIstek[a], x)
  BY <1>1, <1>2 DEF SYol, SRap, SIpt
<1>4. ASSUME x \notin sTekrar
      PROVE  /\ SMesajDogru(x) /\ smsIs[x] = Yok /\ smsMesaj[x] = (IF r.k[1] = "tuketim" THEN 1 ELSE 0)
             /\ \A b \in SIstek \ {a} : ~SYol(sIstek[b], x)
             /\ \A b \in SIstek : ~SRap(sIstek[b], x) /\ ~SIpt(sIstek[b], x)
             /\ SIptaller(x) = {} /\ SIadeler(x) = {}
  <2>1. SMesajDogru(x)
    BY <1>4 DEF SmsInv
  <2>2. smsIs[x] = Yok /\ smsMesaj[x] = (IF r.k[1] = "tuketim" THEN 1 ELSE 0)
    BY <1>1, <1>3, <2>1 DEF SMesajDogru
  <2>3. \A b \in SIstek \ {a} : ~SYol(sIstek[b], x)
    BY <1>3, <2>1 DEF SMesajDogru
  <2>4. \A b \in SIstek : ~SRap(sIstek[b], x) /\ ~SIpt(sIstek[b], x)
    BY <2>1, <2>2, SmsVarsayimi DEF SMesajDogru, SmsDurum
  <2>5. SIptaller(x) = {}
    BY <2>1, <2>2, SmsVarsayimi DEF SMesajDogru, SmsDurum
  <2>6. SIadeler(x) = {}
    <3>1. \A b \in SIstek : ~(sIstek[b].adim = "BASARISIZ" /\ sIstek[b].x = x)
      BY <2>4 DEF SRap
    <3> QED BY <2>1, <2>2, <3>1, SmsVarsayimi DEF SMesajDogru, SmsDurum
  <2> QED BY <2>1, <2>2, <2>3, <2>4, <2>5, <2>6
<1>5. CASE smsIs[x] # Yok
  <2>1. PICK k \in {Bitti} : sIstek' = [sIstek EXCEPT ![a] = k]
    BY <1>1, <1>2, <1>5 DEF SIsYaz, SIlerlet
  <2>2. smsIs' = smsIs /\ k \in SKayitTipi \cup {Bos, Bitti} /\ ~SSurer(k) /\ k.adim = "bitti"
    BY <1>1, <1>2, <1>5, SBosBitti DEF SIsYaz
  <2>3. \A y \in SMesaj \ {x} : SRolKalir(sIstek[a], k, y)
    BY <1>1, <1>2, <2>2 DEF SRolKalir, SYol, SRap, SIpt
  <2>4. x \in sTekrar
    BY <1>4, <1>5
  <2>5. smsMesaj'[x] > 0 => <<"rezerve", x, 0>> \in smsDefter
    BY <1>0 DEF SmsInv
  <2> QED BY <1>0, <2>1, <2>2, <2>3, <2>4, <2>5, SMesajKorur DEF STipler
<1>6. CASE smsIs[x] = Yok
  <2>1. PICK d \in SmsDurum : /\ d = IF r.k[1] = "tuketim" THEN "GONDERILDI" ELSE "BASARISIZ"
                              /\ smsIs' = [smsIs EXCEPT ![x] = d]
    BY <1>1, <1>2, <1>6 DEF SIsYaz, SmsDurum
  <2>2. PICK k : k = SKayit(x, r.k, "son")
    OBVIOUS
  <2>3. sIstek' = [sIstek EXCEPT ![a] = k]
    BY <1>1, <1>2, <1>6, <2>2 DEF SIsYaz
  <2>4. k \in SSonucK /\ k.adim = "defter" /\ k.x = x /\ k.k = r.k
    BY <1>1, <1>2, <2>2 DEF SKayit, SIsK, SSonucK
  <2>5. k \in SKayitTipi
    BY <2>4 DEF SKayitTipi
  <2>6. SKayitDogru(k)
    BY <1>2, <2>4 DEF SKayitDogru
  <2>7. \A y \in SMesaj \ {x} : SRolKalir(sIstek[a], k, y)
    BY <1>1, <1>2, <2>4 DEF SRolKalir, SYol, SRap, SIpt
  <2>8. /\ smsIs' \in [SMesaj -> SmsDurum \cup {Yok}] /\ smsIs'[x] = d
        /\ \A y \in SMesaj \ {x} : smsIs'[y] = smsIs[y]
    BY <1>0, <2>1 DEF STipler
  <2>9. /\ sIstek' \in [SIstek -> SKayitTipi \cup {Bos, Bitti}] /\ sIstek'[a] = k
        /\ \A b \in SIstek \ {a} : sIstek'[b] = sIstek[b]
    BY <1>0, <2>3, <2>5 DEF STipler
  <2>10. ASSUME x \notin sTekrar PROVE SMesajDogru(x)'
    <3>1. ~SYol(k, x) /\ ~SRap(k, x) /\ (SIpt(k, x) => r.k[1] = "iptal")
      BY <1>2, <2>4 DEF SYol, SRap, SIpt
    <3>2. \A b \in SIstek : /\ ~SYol(sIstek[b], x)' /\ ~SRap(sIstek[b], x)'
                            /\ (SIpt(sIstek[b], x)' => r.k[1] = "iptal")
      BY <1>4, <2>9, <2>10, <3>1 DEF SYol, SRap, SIpt
    <3>3. SIptaller(x)' = {} /\ SIadeler(x)' = {}
      BY <1>0, <1>4, <2>10 DEF SIptaller, SIadeler
    <3>4. smsIs'[x] = d /\ d # Yok /\ smsMesaj'[x] = (IF r.k[1] = "tuketim" THEN 1 ELSE 0)
      BY <1>0, <1>4, <2>8, <2>10, <2>1, SmsVarsayimi
    <3> QED BY <1>2, <2>1, <3>2, <3>3, <3>4 DEF SMesajDogru
  <2>11. smsMesaj'[x] > 0 => <<"rezerve", x, 0>> \in smsDefter
    BY <1>0 DEF SmsInv
  <2> QED BY <1>0, <2>3, <2>5, <2>6, <2>7, <2>8, <2>10, <2>11, SMesajKorur DEF STipler
<1> QED BY <1>5, <1>6

LEMMA SRaporYazKorur ==
  ASSUME SmsInv, NEW a \in SIstek, SRaporYaz(a)
  PROVE  SmsInv'
<1>0. /\ sIstek[a].adim \in {"TESLIM_EDILDI", "BASARISIZ"} /\ STipler
      /\ UNCHANGED <<smsBakiye, smsDefter, smsMesaj, sBayat, sTekrar>>
  BY DEF SRaporYaz, SmsInv
<1>1. PICK r \in SIadeK \cup STeslimK : r = sIstek[a] /\ r.adim \in {"TESLIM_EDILDI", "BASARISIZ"}
  BY <1>0, SAdimdaki, SKayitAlanlari
<1>2. PICK x \in SMesaj : x = r.x
  BY <1>1 DEF SIadeK, STeslimK
<1>3. PICK k \in {Bitti} : sIstek' = [sIstek EXCEPT ![a] = k]
  BY DEF SRaporYaz, SIlerlet
<1>4. k \in SKayitTipi \cup {Bos, Bitti} /\ ~SSurer(k) /\ k.adim = "bitti"
  BY SBosBitti
<1>5. \A y \in SMesaj \ {x} : SRolKalir(sIstek[a], k, y)
  BY <1>1, <1>2, <1>4 DEF SRolKalir, SYol, SRap, SIpt
<1>6. /\ smsIs' \in [SMesaj -> SmsDurum \cup {Yok}] /\ smsIs'[x] = r.adim
      /\ \A y \in SMesaj \ {x} : smsIs'[y] = smsIs[y]
  BY <1>0, <1>1, <1>2 DEF SRaporYaz, STipler, SmsDurum
<1>7. /\ sIstek' \in [SIstek -> SKayitTipi \cup {Bos, Bitti}] /\ sIstek'[a] = k
      /\ \A b \in SIstek \ {a} : sIstek'[b] = sIstek[b]
  BY <1>0, <1>3, <1>4 DEF STipler
<1>8. ASSUME x \notin sTekrar PROVE SMesajDogru(x)'
  <2>1. SMesajDogru(x)
    BY <1>8 DEF SmsInv
  <2>2. SRap(sIstek[a], x)
    BY <1>1, <1>2 DEF SRap
  <2>3. smsIs[x] = "GONDERILDI" /\ smsMesaj[x] = 1 /\ \A b \in SIstek \ {a} : ~SRap(sIstek[b], x)
    BY <2>1, <2>2 DEF SMesajDogru
  <2>4. \A b \in SIstek : ~SYol(sIstek[b], x) /\ ~SIpt(sIstek[b], x)
    BY <2>1, <2>3, SmsVarsayimi DEF SMesajDogru, SmsDurum
  <2>5. \A b \in SIstek : ~SYol(sIstek[b], x)' /\ ~SRap(sIstek[b], x)' /\ ~SIpt(sIstek[b], x)'
    <3>1. ~SYol(k, x) /\ ~SRap(k, x) /\ ~SIpt(k, x)
      BY <1>4 DEF SYol, SRap, SIpt
    <3> QED BY <1>7, <2>3, <2>4, <3>1 DEF SYol, SRap, SIpt
  <2>6. SIptaller(x)' = SIptaller(x) /\ SIadeler(x)' = SIadeler(x) /\ smsMesaj'[x] = 1
    BY <1>0, <2>3 DEF SIptaller, SIadeler
  <2>7. SIptaller(x) = {}
    BY <2>1, <2>3 DEF SMesajDogru
  <2>8. \A i, l \in SIadeler(x) : i = l
    BY <2>1 DEF SMesajDogru
  <2>9. SIadeler(x) # {} => smsIs'[x] = "BASARISIZ"
    <3>1. r.adim = "TESLIM_EDILDI" => SIadeler(x) = {}
      BY <1>1, <2>1, <2>2 DEF SMesajDogru
    <3> QED BY <1>1, <1>6, <3>1
  <2>10. smsIs'[x] # Yok
    BY <1>1, <1>6, SmsVarsayimi DEF SmsDurum
  <2> QED BY <2>5, <2>6, <2>7, <2>8, <2>9, <2>10 DEF SMesajDogru
<1>9. smsMesaj'[x] > 0 => <<"rezerve", x, 0>> \in smsDefter
  BY <1>0 DEF SmsInv
<1> QED BY <1>0, <1>3, <1>4, <1>5, <1>6, <1>8, <1>9, SMesajKorur DEF STipler
\* A booking makes what other requests have read of the balance stale.
LEMMA SBayatla ==
  ASSUME NEW r \in SKayitTipi, r.adim = "yaz", NEW y, y = [r EXCEPT !.bayat = TRUE]
  PROVE  y \in SKayitTipi /\ y.adim = "yaz" /\ y.bayat /\ y.x = r.x /\ y.k = r.k /\ y.b = r.b
<1>1. r \in SGonderimK \cup SSonucK \cup SIadeK \cup SYonetimK
  BY SKayitAlanlari
<1>2. CASE r \in SGonderimK
  BY <1>2 DEF SKayitTipi, SGonderimK
<1>3. CASE r \in SSonucK
  BY <1>3 DEF SKayitTipi, SSonucK
<1>4. CASE r \in SIadeK
  BY <1>4 DEF SKayitTipi, SIadeK
<1>5. CASE r \in SYonetimK
  BY <1>5 DEF SKayitTipi, SYonetimK
<1> QED BY <1>1, <1>2, <1>3, <1>4, <1>5

\* Where a booking leaves its request.
LEMMA SKayittanSonra ==
  ASSUME NEW r \in SKayitTipi, r.adim = "yaz", SKayitDogru(r), NEW k,
         k = IF r.sonra = "son" THEN Bitti ELSE [r EXCEPT !.adim = r.sonra]
  PROVE  /\ k \in SKayitTipi \cup {Bitti}
         /\ r.k[1] \in {"tuketim", "iptal", "yonetim"} => k = Bitti
         /\ r.k[1] = "rezerve" => /\ k \in SGonderimK /\ k.adim = "var" /\ k.x = r.x /\ k.k = r.k
                                  /\ r.k = <<"rezerve", r.x, 0>>
         /\ r.k[1] = "iade" => /\ k \in SIadeK /\ k.adim = "BASARISIZ" /\ k.x = r.x /\ k.k = r.k
                               /\ r.k[2] = r.x /\ r.x \in SMesaj
         /\ r.k[1] \in {"tuketim", "iptal"} => r.k[2] = r.x /\ r.x \in SMesaj
<1>1. CASE r.k[1] \in {"tuketim", "iptal"}
  <2>1. r \in SSonucK /\ r.k[2] = r.x
    BY <1>1, SDefterdeki DEF SKayitDogru
  <2> QED BY <1>1, <2>1 DEF SSonucK
<1>2. CASE r.k[1] = "yonetim"
  <2>1. r \in SYonetimK
    BY <1>2, SDefterdeki
  <2> QED BY <1>2, <2>1 DEF SYonetimK
<1>3. CASE r.k[1] = "rezerve"
  <2>1. r \in SGonderimK /\ r.k[2] = r.x
    BY <1>3, SDefterdeki DEF SKayitDogru
  <2>2. k \in SGonderimK /\ k.adim = "var" /\ k.x = r.x /\ k.k = r.k
    BY <2>1 DEF SGonderimK
  <2>3. r.k = <<"rezerve", r.x, 0>>
    BY <2>1 DEF SGonderimK
  <2> QED BY <1>3, <2>2, <2>3 DEF SKayitTipi
<1>4. CASE r.k[1] = "iade"
  <2>1. r \in SIadeK /\ r.k[2] = r.x
    BY <1>4, SDefterdeki DEF SKayitDogru
  <2>2. k \in SIadeK /\ k.adim = "BASARISIZ" /\ k.x = r.x /\ k.k = r.k
    BY <2>1 DEF SIadeK
  <2>3. r.x \in SMesaj
    BY <2>1 DEF SIadeK
  <2> QED BY <1>4, <2>1, <2>2, <2>3 DEF SKayitTipi
<1> QED BY <1>1, <1>2, <1>3, <1>4, SDefterdeki

LEMMA SYerDegis == \A i, j, n \in Int : i + (j + n) = (i + n) + j
OBVIOUS

LEMMA SDefterYazKorur ==
  ASSUME SmsInv, NEW a \in SIstek, SDefterYaz(a)
  PROVE  SmsInv'
<1>0. sIstek[a].adim = "yaz" /\ UNCHANGED <<smsIs, smsMesaj, sTekrar>> /\ STipler
  BY DEF SDefterYaz, SmsInv
<1>1. PICK r \in SKayitTipi : r = sIstek[a] /\ r.adim = "yaz" /\ SKayitDogru(r)
  BY <1>0, SAdimdaki
<1>2. PICK kk : kk = IF r.sonra = "son" THEN Bitti ELSE [r EXCEPT !.adim = r.sonra]
  OBVIOUS
<1>3. /\ kk \in SKayitTipi \cup {Bitti}
      /\ r.k[1] \in {"tuketim", "iptal", "yonetim"} => kk = Bitti
      /\ r.k[1] = "rezerve" => /\ kk \in SGonderimK /\ kk.adim = "var" /\ kk.x = r.x /\ kk.k = r.k
                               /\ r.k = <<"rezerve", r.x, 0>>
      /\ r.k[1] = "iade" => /\ kk \in SIadeK /\ kk.adim = "BASARISIZ" /\ kk.x = r.x /\ kk.k = r.k
                            /\ r.k[2] = r.x /\ r.x \in SMesaj
      /\ r.k[1] \in {"tuketim", "iptal"} => r.k[2] = r.x /\ r.x \in SMesaj
  BY <1>1, <1>2, SKayittanSonra
<1>4. /\ r.k \in SAnahtar /\ SDelta(r.k) \in Int /\ r.b \in Nat /\ r.bayat \in BOOLEAN
      /\ r.k[1] \in {"rezerve", "tuketim", "iptal", "iade", "yonetim"}
  BY <1>1, SDefterdeki
<1>5. CASE r.k \in smsDefter
  <2>1. UNCHANGED <<smsBakiye, smsDefter, sBayat>>
    BY <1>1, <1>5 DEF SDefterYaz
  <2>2. sTekrar \subseteq sTekrar' /\ sTekrar' \subseteq SMesaj
    BY <1>0 DEF STipler
  <2>3. CASE r.k[1] = "rezerve"
    <3>1. r \in SGonderimK
      BY <1>1, <2>3, SDefterdeki
    <3>2. sIstek' = [sIstek EXCEPT ![a] = kk]
      BY <1>1, <1>2, <1>5, <2>3 DEF SDefterYaz, SIlerlet
    <3>3. SKayitDogru(kk) /\ kk \in SKayitTipi
      BY <1>3, <1>5, <2>3 DEF SKayitDogru, SKayitTipi
    <3>4. \A x \in SMesaj : SRolKalir(sIstek[a], kk, x)
      BY <1>1, <1>3, <2>3 DEF SRolKalir, SYol, SRap, SIpt
    <3> QED BY <1>0, <2>1, <2>2, <3>2, <3>3, <3>4, SAdimKorur
  <2>4. CASE r.k[1] # "rezerve"
    <3>1. PICK k \in {Bitti} : sIstek' = [sIstek EXCEPT ![a] = k]
      BY <1>1, <1>5, <2>4 DEF SDefterYaz, SIlerlet
    <3> QED BY <1>0, <1>1, <2>1, <2>2, <3>1, SBiterKorur
  <2> QED BY <2>3, <2>4
<1>6. CASE r.k \notin smsDefter
  <2>1. /\ smsBakiye' = r.b + SDelta(r.k) /\ smsDefter' = smsDefter \cup {r.k} /\ sBayat' = (sBayat \/ r.bayat)
        /\ sIstek' = [b \in SIstek |->
              IF b = a THEN kk ELSE IF sIstek[b].adim = "yaz" THEN [sIstek[b] EXCEPT !.bayat = TRUE] ELSE sIstek[b]]
    BY <1>1, <1>2, <1>6 DEF SDefterYaz
  <2>2. sIstek'[a] = kk
    BY <2>1
  <2>3. ASSUME NEW b \in SIstek \ {a}
        PROVE  /\ sIstek'[b] \in SKayitTipi \cup {Bos, Bitti}
               /\ sIstek'[b].adim = sIstek[b].adim /\ sIstek'[b].x = sIstek[b].x /\ sIstek'[b].k = sIstek[b].k
               /\ SSurer(sIstek'[b]) => SKayitDogru(sIstek[b])'
    <3>1. CASE sIstek[b].adim = "yaz"
      <4>1. PICK q \in SKayitTipi : q = sIstek[b] /\ q.adim = "yaz" /\ SKayitDogru(q)
        BY <3>1, SAdimdaki
      <4>2. PICK y : y = [q EXCEPT !.bayat = TRUE]
        OBVIOUS
      <4>3. y \in SKayitTipi /\ y.adim = "yaz" /\ y.bayat /\ y.x = q.x /\ y.k = q.k /\ y.b = q.b
        BY <4>1, <4>2, SBayatla
      <4>4. sIstek'[b] = y
        BY <2>1, <3>1, <4>1, <4>2
      <4>5. SKayitDogru(sIstek[b])'
        BY <4>1, <4>3, <4>4 DEF SKayitDogru
      <4> QED BY <4>1, <4>3, <4>4, <4>5
    <3>2. CASE sIstek[b].adim # "yaz"
      <4>1. sIstek'[b] = sIstek[b] /\ (SSurer(sIstek[b]) => SKayitDogru(sIstek[b]))
        BY <2>1, <3>2 DEF SmsInv
      <4>2. SSurer(sIstek[b]) => SKayitDogru(sIstek[b])'
        BY <2>1, <3>2, <4>1 DEF SKayitDogru
      <4> QED BY <1>0, <4>1, <4>2 DEF STipler
    <3> QED BY <3>1, <3>2
  <2>4. sIstek' \in [SIstek -> SKayitTipi \cup {Bos, Bitti}]
    <3>1. sIstek' = [b \in SIstek |-> sIstek'[b]]
      BY <2>1
    <3>2. \A b \in SIstek : sIstek'[b] \in SKayitTipi \cup {Bos, Bitti}
      BY <1>3, <2>2, <2>3
    <3> QED BY <3>1, <3>2
  <2>5. /\ MapThenSumSet(SDelta, smsDefter') = SDelta(r.k) + MapThenSumSet(SDelta, smsDefter)
        /\ MapThenSumSet(SDelta, smsDefter) \in Int /\ IsFiniteSet(smsDefter')
    BY <1>0, <1>6, <2>1, SToplamEkle DEF STipler
  <2>6. smsBakiye' \in Nat /\ (~r.bayat => r.b = smsBakiye)
    BY <1>1, <1>4, <2>1 DEF SKayitDogru
  <2>7. STipler'
    BY <1>0, <1>4, <2>1, <2>4, <2>5, <2>6 DEF STipler
  <2>8. ~sBayat' => smsBakiye' = SBakiye + MapThenSumSet(SDelta, smsDefter')
    <3>1. SUFFICES ASSUME ~sBayat' PROVE smsBakiye' = SBakiye + MapThenSumSet(SDelta, smsDefter')
      OBVIOUS
    <3>2. ~sBayat /\ ~r.bayat
      BY <2>1, <3>1
    <3>3. smsBakiye = SBakiye + MapThenSumSet(SDelta, smsDefter)
      BY <3>2 DEF SmsInv
    <3>4. PICK m \in Int : m = MapThenSumSet(SDelta, smsDefter)
      BY <2>5
    <3>5. PICK d \in Int : d = SDelta(r.k)
      BY <1>4
    <3>6. MapThenSumSet(SDelta, smsDefter') = d + m
      BY <2>5, <3>4, <3>5
    <3>7. smsBakiye' = r.b + d /\ r.b = SBakiye + m
      BY <2>1, <2>6, <3>2, <3>3, <3>4, <3>5
    <3>8. SBakiye + (d + m) = (SBakiye + m) + d
      <4>1. SBakiye \in Int
        BY SmsVarsayimi
      <4> QED BY <3>4, <3>5, <4>1, SYerDegis
    <3> QED BY <3>6, <3>7, <3>8
  <2>9. ASSUME NEW b \in SIstek, SSurer(sIstek[b])' PROVE SKayitDogru(sIstek[b])'
    <3>1. CASE b = a
      <4>1. kk # Bitti
        BY <2>2, <2>9, <3>1 DEF SSurer
      <4>2. CASE r.k[1] = "rezerve"
        <5>1. kk.adim = "var" /\ kk.k[2] = kk.x /\ <<"rezerve", kk.x, 0>> \in smsDefter'
          BY <1>3, <2>1, <4>2
        <5> QED BY <2>2, <3>1, <5>1 DEF SKayitDogru
      <4>3. CASE r.k[1] = "iade"
        <5>1. kk.adim = "BASARISIZ" /\ kk.k[2] = kk.x
          BY <1>3, <4>3
        <5> QED BY <2>2, <3>1, <5>1 DEF SKayitDogru
      <4> QED BY <1>3, <1>4, <4>1, <4>2, <4>3
    <3>2. CASE b # a
      BY <2>3, <2>9, <3>2 DEF SSurer
    <3> QED BY <3>1, <3>2
  <2>10. \A x \in SMesaj : smsMesaj'[x] > 0 => <<"rezerve", x, 0>> \in smsDefter'
    BY <1>0, <2>1 DEF SmsInv
  <2>11. ASSUME NEW x \in SMesaj, ~(r.k[1] \in {"iptal", "iade"} /\ r.k[2] = x)
         PROVE  SIptaller(x)' = SIptaller(x) /\ SIadeler(x)' = SIadeler(x)
    BY <2>1, <2>11 DEF SIptaller, SIadeler
  <2>12. ASSUME NEW x \in SMesaj \ sTekrar', ~(r.k[1] \in {"iptal", "iade"} /\ r.k[2] = x)
         PROVE  SMesajDogru(x)'
    <3>1. SMesajDogru(x) /\ smsIs'[x] = smsIs[x] /\ smsMesaj'[x] = smsMesaj[x]
      BY <1>0 DEF SmsInv
    <3>2. kk = Bitti \/ (kk.adim = "var" /\ kk.x = r.x) \/ (kk.adim = "BASARISIZ" /\ kk.x = r.x /\ r.x # x)
      BY <1>3, <1>4, <2>12
    <3>3. SRolKalir(sIstek[a], kk, x)
      BY <1>1, <3>2, SBosBitti DEF SRolKalir, SYol, SRap, SIpt
    <3>4. SIptaller(x)' = SIptaller(x) /\ SIadeler(x)' = SIadeler(x)
      BY <2>11, <2>12
    <3> QED BY <2>2, <2>3, <3>1, <3>3, <3>4, SRolKorur
  <2>13. ASSUME NEW x \in SMesaj \ sTekrar', r.k[1] = "iptal", r.k[2] = x
         PROVE  SMesajDogru(x)'
    <3>1. SMesajDogru(x) /\ smsIs'[x] = smsIs[x] /\ smsMesaj'[x] = smsMesaj[x] /\ r.x = x /\ kk = Bitti
      BY <1>0, <1>3, <2>13 DEF SmsInv
    <3>2. SIpt(sIstek[a], x) /\ ~SYol(kk, x) /\ ~SRap(kk, x) /\ ~SIpt(kk, x) /\ sIstek[a].adim # "BASARISIZ"
      BY <1>1, <2>13, <3>1, SBosBitti DEF SIpt, SYol, SRap
    <3>3. smsIs[x] = "BASARISIZ" /\ smsMesaj[x] = 0
      BY <3>1, <3>2 DEF SMesajDogru
    <3>4. \A b \in SIstek : ~SYol(sIstek[b], x) /\ ~SRap(sIstek[b], x)
      BY <3>1, <3>3, SmsVarsayimi DEF SMesajDogru, SmsDurum
    <3>5. \A b \in SIstek : ~SYol(sIstek[b], x)' /\ ~SRap(sIstek[b], x)'
      BY <2>2, <2>3, <3>2, <3>4 DEF SYol, SRap
    <3>6. SIadeler(x)' = {}
      <4>1. SIadeler(x) = {}
        BY <3>1, <3>3 DEF SMesajDogru
      <4> QED BY <2>1, <2>13, <4>1 DEF SIadeler
    <3> QED BY <3>1, <3>3, <3>5, <3>6, SmsVarsayimi DEF SMesajDogru, SmsDurum
  <2>14. ASSUME NEW x \in SMesaj \ sTekrar', r.k[1] = "iade", r.k[2] = x
         PROVE  SMesajDogru(x)'
    <3>1. /\ SMesajDogru(x) /\ smsIs'[x] = smsIs[x] /\ smsMesaj'[x] = smsMesaj[x] /\ r.x = x
          /\ kk.adim = "BASARISIZ" /\ kk.x = x
      BY <1>0, <1>3, <2>14 DEF SmsInv
    <3>2. SRap(sIstek[a], x) /\ sIstek[a].adim # "BASARISIZ"
      BY <1>1, <2>14, <3>1 DEF SRap
    <3>3. /\ smsIs[x] = "GONDERILDI" /\ smsMesaj[x] = 1 /\ SIadeler(x) = {} /\ SIptaller(x) = {}
          /\ \A b \in SIstek \ {a} : ~SRap(sIstek[b], x)
      BY <3>1, <3>2 DEF SMesajDogru
    <3>4. \A b \in SIstek : ~SYol(sIstek[b], x) /\ ~SIpt(sIstek[b], x)
      BY <3>1, <3>3, SmsVarsayimi DEF SMesajDogru, SmsDurum
    <3>5. ~SYol(kk, x) /\ ~SIpt(kk, x) /\ SRap(kk, x)
      BY <3>1 DEF SYol, SIpt, SRap
    <3>6. \A b \in SIstek : ~SYol(sIstek[b], x)' /\ ~SIpt(sIstek[b], x)' /\ (b # a => ~SRap(sIstek[b], x)')
      BY <2>2, <2>3, <3>3, <3>4, <3>5 DEF SYol, SIpt, SRap
    <3>7. SIptaller(x)' = {} /\ \A i, l \in SIadeler(x)' : i = l
      BY <2>1, <2>14, <3>3 DEF SIptaller, SIadeler
    <3>8. sIstek'[a].adim = "BASARISIZ" /\ sIstek'[a].x = x
      BY <2>2, <3>1
    <3> QED BY <3>1, <3>3, <3>6, <3>7, <3>8, SmsVarsayimi DEF SMesajDogru, SmsDurum
  <2>15. \A x \in SMesaj \ sTekrar' : SMesajDogru(x)'
    BY <2>12, <2>13, <2>14
  <2> QED BY <2>7, <2>8, <2>9, <2>10, <2>15 DEF SmsInv
<1> QED BY <1>5, <1>6

\* The ledger adds up to the balance unless bookings overlapped, and a message
\* is at one step only unless its calls overlapped or one was lost
\* (smsWallet.service.ts, manualSms.service.ts, smsReportWorker.service.ts).
THEOREM SmsDegismez == SmsSpec => []SmsInv
<1>1. ASSUME SmsInit PROVE SmsInv
  <2>1. smsDefter = {} /\ IsFiniteSet(smsDefter)
    BY <1>1, FS_EmptySet DEF SmsInit
  <2>2. STipler
    BY <1>1, <2>1, SmsVarsayimi DEF SmsInit, STipler
  <2>3. \A a \in SIstek : ~SSurer(sIstek[a]) /\ sIstek[a].adim = "bos"
    BY <1>1, SBosBitti DEF SmsInit
  <2>4. MapThenSumSet(SDelta, smsDefter) = 0
    <3>1. MapThenSumSet(SDelta, {}) = Topla([k \in {} |-> SDelta(k)], {})
      BY <2>1, SToplam
    <3>2. Topla([k \in {} |-> SDelta(k)], {}) = 0
      BY ToplaBos
    <3> QED BY <2>1, <3>1, <3>2
  <2>5. ASSUME NEW x \in SMesaj PROVE SMesajDogru(x)
    <3>1. SIptaller(x) = {} /\ SIadeler(x) = {}
      BY <2>1 DEF SIptaller, SIadeler
    <3>2. smsIs[x] = Yok /\ smsMesaj[x] = 0
      BY <1>1 DEF SmsInit
    <3>3. \A a \in SIstek : ~SYol(sIstek[a], x) /\ ~SRap(sIstek[a], x) /\ ~SIpt(sIstek[a], x)
      BY <2>3 DEF SYol, SRap, SIpt
    <3> QED BY <3>1, <3>2, <3>3, SmsVarsayimi DEF SMesajDogru, SmsDurum
  <2> QED BY <1>1, <2>2, <2>3, <2>4, <2>5, SmsVarsayimi DEF SmsInit, SmsInv
<1>2. ASSUME SmsInv, [SmsNext]_smsVars PROVE SmsInv'
  <2>1. ASSUME NEW a \in SIstek, SmsAdimi(a) PROVE SmsInv'
    <3>1. CASE SDefterOku(a) \/ SDefterYaz(a) \/ SVarOku(a) \/ SIsYaz(a) \/ SRaporYaz(a) \/ SDuser(a)
      BY <1>2, <3>1, SDefterOkuKorur, SDefterYazKorur, SVarOkuKorur, SIsYazKorur, SRaporYazKorur, SDuserKorur
    <3>2. CASE \E x \in SMesaj : SmsBasla(a, x) \/ SRaporOku(a, x)
      BY <1>2, <3>2, SmsBaslaKorur, SRaporOkuKorur
    <3>3. CASE \E y \in SYonetim : SmsYonet(a, y)
      BY <1>2, <3>3, SmsYonetKorur
    <3>4. CASE \E ok \in BOOLEAN : SGonder(a, ok)
      BY <1>2, <3>4, SGonderKorur
    <3> QED BY <2>1, <3>1, <3>2, <3>3, <3>4 DEF SmsAdimi
  <2>2. CASE UNCHANGED smsVars
    <3>1. STipler'
      BY <1>2, <2>2 DEF smsVars, SmsInv, STipler
    <3>2. ASSUME NEW b \in SIstek, SSurer(sIstek[b])' PROVE SKayitDogru(sIstek[b])'
      BY <1>2, <2>2, <3>2 DEF smsVars, SmsInv, SKayitDogru, SSurer
    <3>3. ASSUME NEW x \in SMesaj \ sTekrar' PROVE SMesajDogru(x)'
      <4>1. SMesajDogru(x)
        BY <1>2, <2>2 DEF smsVars, SmsInv
      <4> QED BY <2>2, <4>1 DEF smsVars, SMesajDogru, SYol, SRap, SIpt, SIptaller, SIadeler
    <3>4. ~sBayat' => smsBakiye' = SBakiye + MapThenSumSet(SDelta, smsDefter')
      BY <1>2, <2>2 DEF smsVars, SmsInv
    <3> QED BY <1>2, <2>2, <3>1, <3>2, <3>3, <3>4 DEF smsVars, SmsInv
  <2> QED BY <1>2, <2>1, <2>2 DEF SmsNext
<1> QED BY <1>1, <1>2, PTL DEF SmsSpec

LEMMA EnCokBir ==
  ASSUME NEW S, \A p, q \in S : p = q
  PROVE  Cardinality(S) <= 1
<1>1. CASE S = {}
  BY <1>1, FS_EmptySet
<1>2. CASE S # {}
  <2>1. PICK p \in S : S = {p}
    BY <1>2
  <2>2. Cardinality({p}) = 1
    BY FS_Singleton
  <2> QED BY <2>1, <2>2
<1> QED BY <1>1, <1>2

\* A sent message is charged; it is sent, refunded or let off once but for
\* calls that overlapped or were lost; the balance is the ledger's sum unless
\* bookings overlapped.
THEOREM SmsTutarlidir == SmsSpec => []SmsTutarli
<1>1. ASSUME SmsInv PROVE SmsTutarli
  <2>1. ASSUME NEW x \in SMesaj \ sTekrar
        PROVE  /\ smsMesaj[x] <= 1
               /\ Cardinality({k \in smsDefter : k[1] \in {"iptal", "iade"} /\ k[2] = x}) <= 1
               /\ <<"iptal", x, 0>> \in smsDefter => smsMesaj[x] = 0
    <3>1. SMesajDogru(x) /\ smsDefter \subseteq SAnahtar
      BY <1>1 DEF SmsInv, STipler
    <3>2. smsMesaj[x] <= 1
      BY <3>1 DEF SMesajDogru
    <3>3. SIptaller(x) = {} \/ SIadeler(x) = {}
      BY <3>1 DEF SMesajDogru
    <3>4. \A i, l \in SIptaller(x) : i = l
      BY <3>1 DEF SIptaller, SAnahtar
    <3>5. \A i, l \in SIadeler(x) : i = l
      BY <3>1 DEF SMesajDogru
    <3>6. \A p, q \in {k \in smsDefter : k[1] \in {"iptal", "iade"} /\ k[2] = x} : p = q
      <4>1. {k \in smsDefter : k[1] \in {"iptal", "iade"} /\ k[2] = x} = SIptaller(x) \cup SIadeler(x)
        BY DEF SIptaller, SIadeler
      <4> QED BY <3>3, <3>4, <3>5, <4>1
    <3>7. <<"iptal", x, 0>> \in smsDefter => <<"iptal", x, 0>> \in SIptaller(x)
      BY DEF SIptaller
    <3>8. SIptaller(x) # {} => smsMesaj[x] = 0
      BY <3>1 DEF SMesajDogru
    <3> QED BY <3>2, <3>6, <3>7, <3>8, EnCokBir
  <2> QED BY <1>1, <2>1 DEF SmsInv, SmsTutarli
<1> QED BY <1>1, SmsDegismez, PTL

\* Type correctness of the SMS wallet.
THEOREM SmsTipiKorunur == SmsSpec => []SmsTypeOK
<1>1. ASSUME SmsInv PROVE SmsTypeOK
  <2>1. STipler
    BY <1>1 DEF SmsInv
  <2>2. \A a \in SIstek : sIstek[a].adim \in
          {"bos", "bitti", "defter", "yaz", "var", "gonder", "is", "TESLIM_EDILDI", "BASARISIZ"}
    BY <2>1, SKayitAlanlari, SBosBitti DEF STipler
  <2> QED BY <2>1, <2>2 DEF STipler, SmsTypeOK
<1> QED BY <1>1, SmsDegismez, PTL
-----------------------------------------------------------------------------
(* The plan of a fee *)

\* What a request keeps.
VUcretKaydi == [adim : {"ucret"}, toplam : VTutar, pb : VPara, eski : VPara, bayat : BOOLEAN]
VEkleKaydi == [adim : {"numarali", "plan"}, tutarlar : UNION {[1..n -> Nat] : n \in Nat}, pb : VPara, bayat : BOOLEAN]
VTutarKaydi == [adim : {"tutar"}, t : VTaksit, tutar : VTutar, bayat : BOOLEAN]
VSilKaydi == [adim : {"sil"}, t : VTaksit, bayat : BOOLEAN]
VKayit == VUcretKaydi \cup VEkleKaydi \cup VTutarKaydi \cup VSilKaydi

PlanTipi ==
  /\ vUcret \in VUcretSatiri \cup {Yok}
  /\ vTaksit \in [VTaksit -> VTaksitSatiri \cup {Yok}]
  /\ vOdeme \in [VOdeme -> VOdemeSatiri \cup {Yok}]
  /\ vIstek \in [VIstek -> VKayit \cup {Bos, Bitti}]
  /\ vAsan \in BOOLEAN /\ vSasan \in BOOLEAN

\* Before the fee there is nothing.
UcretsizBos ==
  vUcret = Yok => /\ \A t \in VTaksit : vTaksit[t] = Yok
                  /\ \A o \in VOdeme : vOdeme[o] = Yok
                  /\ \A a \in VIstek : vIstek[a] = Bos

\* What a list of amounts adds up to.
VListe(s) == MapThenSumSet(LAMBDA i : s[i], DOMAIN s)

\* What was read for r is still so.
VDogru(r) ==
  /\ vUcret # Yok
  /\ r.adim = "ucret" => r.eski = vUcret.pb /\ (r.pb = vUcret.pb \/ VAktif = {})
  /\ r.adim \in {"numarali", "plan"} => r.pb = vUcret.pb
  /\ r.adim = "plan" =>
       VTaksitToplami(vTaksit) + VListe(r.tutarlar) <= vUcret.toplam
  /\ r.adim = "sil" => \A o \in VAktif : vOdeme[o].t # r.t

VOkunanDogru == \A a \in VIstek : vIstek[a] \notin {Bos, Bitti} /\ ~vIstek[a].bayat => VDogru(vIstek[a])

\* An instalment a request names is there.
VAdliVar ==
  \A a \in VIstek : vIstek[a].adim \in {"tutar", "sil"} => vTaksit[vIstek[a].t] # Yok

\* And so is the instalment of a payment.
VOdemeBagli == \A o \in VOdeme : vOdeme[o] # Yok => vTaksit[vOdeme[o].t] # Yok

VInv == PlanTipi /\ UcretsizBos /\ VOkunanDogru /\ VAdliVar /\ VOdemeBagli /\ PlanTutarli
VCanlilar(x) == {t \in VTaksit : x[t] # Yok /\ ~x[t].iptal}

(* The model's sum of instalments is the sum of their amounts.             *)
LEMMA VToplamTopla ==
  ASSUME NEW x
  PROVE  VTaksitToplami(x) = Topla([t \in VCanlilar(x) |-> x[t].tutar], VCanlilar(x))
<1> DEFINE S == VCanlilar(x)
           f == [t \in S |-> x[t].tutar]
           P(h) == h = [s \in SUBSET S |->
                          IF s = {} THEN 0
                          ELSE x[CHOOSE t \in s : TRUE].tutar + h[s \ {CHOOSE t \in s : TRUE}]]
<1>0. S \in SUBSET VTaksit /\ IsFiniteSet(S)
  <2>1. S \in SUBSET VTaksit
    BY DEF VCanlilar
  <2> HIDE DEF S
  <2> QED BY <2>1, VekaletPlanVarsayimi, FS_Subset
<1>1. VTaksitToplami(x) = MapThenSumSet(LAMBDA t : x[t].tutar, S)
  BY DEF VTaksitToplami, VCanlilar
<1> HIDE DEF S
<1>2. PICK g : Ozyineli(g, f, S)
  BY <1>0, OzyineliVar
<1>3. \A s \in SUBSET S : s # {} => f[CHOOSE t \in s : TRUE] = x[CHOOSE t \in s : TRUE].tutar
  OBVIOUS
<1>4. \A h : Ozyineli(h, f, S) <=> P(h)
  <2> SUFFICES ASSUME NEW h PROVE Ozyineli(h, f, S) <=> P(h)
    OBVIOUS
  <2> DEFINE k == [s \in SUBSET S |-> IF s = {} THEN 0 ELSE f[CHOOSE t \in s : TRUE] + h[s \ {CHOOSE t \in s : TRUE}]]
             l == [s \in SUBSET S |-> IF s = {} THEN 0
                          ELSE x[CHOOSE t \in s : TRUE].tutar + h[s \ {CHOOSE t \in s : TRUE}]]
  <2> HIDE DEF f
  <2>1. k = l
    BY <1>3
  <2> QED BY <2>1 DEF Ozyineli
<1>5. PICK h : h = CHOOSE hh : P(hh)
  OBVIOUS
<1>6. MapThenSumSet(LAMBDA t : x[t].tutar, S) = h[S]
  BY <1>5, Zenon DEF MapThenSumSet, MapThenFoldSet
<1> HIDE DEF P, f
<1>7. P(g)
  BY <1>2, <1>4
<1>8. P(h)
  BY <1>5, <1>7, Zenon
<1>9. Ozyineli(h, f, S)
  BY <1>4, <1>8
<1>10. Topla(f, S) = h[S]
  BY <1>0, <1>9, ToplaDeger
<1> QED BY <1>1, <1>6, <1>10 DEF f, S

(* The same, for any set and function that say the same.                   *)
LEMMA VToplamKume ==
  ASSUME NEW taksit, NEW K, K = VCanlilar(taksit), NEW f, \A t \in K : f[t] = taksit[t].tutar
  PROVE  VTaksitToplami(taksit) = Topla(f, K) /\ IsFiniteSet(K) /\ K \subseteq VTaksit
<1>1. K \in SUBSET VTaksit
  BY DEF VCanlilar
<1>2. IsFiniteSet(K)
  BY <1>1, VekaletPlanVarsayimi, FS_Subset
<1> DEFINE g == [t \in K |-> taksit[t].tutar]
<1>3. VTaksitToplami(taksit) = Topla(g, K)
  BY VToplamTopla
<1>4. \A t \in K : g[t] = f[t]
  OBVIOUS
<1> HIDE DEF g
<1>5. Topla(g, K) = Topla(f, K)
  BY <1>2, <1>4, ToplaEsit
<1> QED BY <1>1, <1>2, <1>3, <1>5

(* Instalments that are cancelled, and none that is raised: no more in all.*)
LEMMA VToplamAzalir ==
  ASSUME NEW x, NEW y, \A t \in VCanlilar(x) : x[t].tutar \in Nat,
         VCanlilar(y) \subseteq VCanlilar(x), \A t \in VCanlilar(y) : y[t].tutar = x[t].tutar
  PROVE  /\ VTaksitToplami(y) <= VTaksitToplami(x)
         /\ VTaksitToplami(x) \in Nat /\ VTaksitToplami(y) \in Nat
<1> DEFINE S == VCanlilar(x)
           T == VCanlilar(y)
           f == [t \in S |-> x[t].tutar]
<1>1. (\A t \in S : f[t] = x[t].tutar /\ f[t] \in Nat) /\ (\A t \in T : f[t] = y[t].tutar) /\ T \in SUBSET S
  OBVIOUS
<1> HIDE DEF f
<1>2. VTaksitToplami(x) = Topla(f, S) /\ IsFiniteSet(S)
  BY <1>1, VToplamKume
<1>3. VTaksitToplami(y) = Topla(f, T)
  BY <1>1, VToplamKume
<1> HIDE DEF S, T
<1>4. Topla(f, S) \in Nat /\ Topla(f, T) \in Nat /\ Topla(f, T) <= Topla(f, S)
  BY <1>1, <1>2, ToplaArtar
<1> QED BY <1>2, <1>3, <1>4

(* Numbers counted from the least: different for different ones.           *)
LEMMA SiraTek ==
  ASSUME NEW S \in SUBSET Nat, IsFiniteSet(S), NEW j, j = [t \in S |-> Cardinality({u \in S : u <= t})]
  PROVE  /\ \A t \in S : j[t] \in Nat \ {0}
         /\ \A t, u \in S : j[t] = j[u] => t = u
<1> DEFINE A(t) == {u \in S : u <= t}
<1>1. ASSUME NEW t \in S PROVE IsFiniteSet(A(t)) /\ Cardinality(A(t)) \in Nat \ {0} /\ t \in A(t)
  <2>1. A(t) \in SUBSET S /\ t \in A(t)
    OBVIOUS
  <2> HIDE DEF A
  <2>2. IsFiniteSet(A(t))
    BY <2>1, FS_Subset
  <2>3. Cardinality(A(t)) \in Nat
    BY <2>2, FS_CardinalityType
  <2>4. Cardinality(A(t)) # 0
    BY <2>1, <2>2, FS_EmptySet
  <2> QED BY <2>1, <2>2, <2>3, <2>4
<1>2. ASSUME NEW t \in S, NEW u \in S, t < u PROVE Cardinality(A(t)) # Cardinality(A(u))
  <2>0. t \in Nat /\ u \in Nat /\ S \subseteq Nat
    OBVIOUS
  <2>3. \A v \in S : v <= t => v <= u
    BY <1>2, <2>0
  <2>4. ~(u <= t) /\ u <= u
    BY <1>2, <2>0
  <2>1. A(t) \in SUBSET A(u) /\ u \notin A(t) /\ u \in A(u)
    BY <2>3, <2>4
  <2>2. IsFiniteSet(A(u))
    BY <1>1
  <2> HIDE DEF A
  <2> QED BY <2>1, <2>2, FS_Subset
<1>3. \A t \in S : j[t] = Cardinality(A(t))
  OBVIOUS
<1> HIDE DEF A
<1>4. \A t \in S : j[t] \in Nat \ {0}
  BY <1>1, <1>3
<1>5. ASSUME NEW t \in S, NEW u \in S, j[t] = j[u] PROVE t = u
  <2>1. t \in Nat /\ u \in Nat /\ Cardinality(A(t)) = Cardinality(A(u))
    BY <1>3, <1>5
  <2>2. ~(t < u) /\ ~(u < t)
    BY <1>2, <2>1
  <2> QED BY <2>1, <2>2
<1> QED BY <1>4, <1>5

\* Going from x to y, the instalments of N are added: t gets entry j[t] of the list s of n amounts.
VEklenir(x, y, N, n, s, j) ==
  /\ n \in Nat /\ s \in [1..n -> Nat] /\ N \in SUBSET VTaksit
  /\ \A t \in VCanlilar(x) : x[t].tutar \in Nat /\ y[t].tutar = x[t].tutar
  /\ \A t \in N : t \notin VCanlilar(x) /\ j[t] \in 1..n /\ y[t].tutar = s[j[t]]
  /\ \A t, u \in N : j[t] = j[u] => t = u
  /\ \A t : t \in VCanlilar(y) <=> t \in VCanlilar(x) \/ t \in N

(* Instalments added from a list bring no more than the list adds up to.   *)
LEMMA VToplamArtar ==
  ASSUME NEW x, NEW y, NEW N, NEW n, NEW s, NEW j, VEklenir(x, y, N, n, s, j)
  PROVE  /\ VTaksitToplami(y) <= VTaksitToplami(x) + VListe(s)
         /\ VTaksitToplami(x) \in Nat /\ VTaksitToplami(y) \in Nat
         /\ VListe(s) \in Nat
<1> USE DEF VEklenir
<1>0. \A S, g : S = VCanlilar(y) /\ (\A t \in S : g[t] = y[t].tutar) => VTaksitToplami(y) = Topla(g, S)
  BY VToplamKume
<1> DEFINE C == VCanlilar(x)
           f == [t \in C \cup N |-> y[t].tutar]
           k == [t \in N |-> j[t]]
           I == 1..n
<1>1. /\ \A t \in C \cup N : f[t] = y[t].tutar /\ f[t] \in Nat
      /\ \A t \in C : f[t] = x[t].tutar
      /\ \A t \in N : f[t] = s[k[t]]
  OBVIOUS
<1>2. k \in [N -> I] /\ (\A t, u \in N : k[t] = k[u] => t = u) /\ (\A i \in I : s[i] \in Nat) /\ DOMAIN s = I
  OBVIOUS
<1>3. IsFiniteSet(N) /\ IsFiniteSet(I)
  <2>1. IsFiniteSet(N)
    BY VekaletPlanVarsayimi, FS_Subset
  <2>2. 1 \in Int /\ n \in Int
    OBVIOUS
  <2>3. IsFiniteSet(I)
    BY <2>2, FS_Interval
  <2> QED BY <2>1, <2>3
<1>4. VListe(s) = Topla(s, I)
  BY <1>2 DEF VListe, Topla
<1> HIDE DEF f, k, I
<1>5. VTaksitToplami(x) = Topla(f, C) /\ IsFiniteSet(C)
  BY <1>1, VToplamKume
<1>6. VTaksitToplami(y) = Topla(f, C \cup N)
  <2>1. VCanlilar(y) = C \cup N
    OBVIOUS
  <2>2. \A t \in VCanlilar(y) : f[t] = y[t].tutar
    BY <1>1
  <2>3. VTaksitToplami(y) = Topla(f, VCanlilar(y))
    BY <1>0, <2>2
  <2> QED BY <2>1, <2>3
<1> HIDE DEF C
<1>7. Topla(f, C \cup N) = Topla(f, C) + Topla(f, N)
  <2>1. C \cap N = {} /\ \A t \in C \cup N : f[t] \in Int
    BY <1>1 DEF C
  <2> QED BY <1>3, <1>5, <2>1, ToplaBirlesim
<1>8. Topla(f, N) <= Topla(s, I)
  BY <1>1, <1>2, <1>3, ToplaAktar
<1>9. Topla(s, I) \in Nat
  BY <1>2, <1>3, ToplaArtar
<1>10. Topla(f, C) \in Nat
  <2>1. \A t \in C : f[t] \in Nat
    BY <1>1
  <2> QED BY <1>5, <2>1, ToplaArtar
<1>11. Topla(f, N) \in Nat
  <2>1. \A t \in N : f[t] \in Nat
    BY <1>1
  <2> QED BY <1>3, <2>1, ToplaArtar
<1> QED BY <1>4, <1>5, <1>6, <1>7, <1>8, <1>9, <1>10, <1>11

(* A step that writes: the other requests are overtaken.                   *)
LEMMA VBayatlar ==
  ASSUME PlanTipi, NEW a, NEW k \in {Bos, Bitti}, vIstek' = Bayatlat(vIstek, a, k)
  PROVE  /\ vIstek' \in [VIstek -> VKayit \cup {Bos, Bitti}]
         /\ \A b \in VIstek : vIstek'[b] \notin {Bos, Bitti} =>
              /\ vIstek'[b].bayat
              /\ vIstek'[b].adim = vIstek[b].adim
              /\ vIstek[b].adim \in {"tutar", "sil"} => vIstek'[b].t = vIstek[b].t
<1>1. DOMAIN vIstek = VIstek
  BY DEF PlanTipi
<1>2. ASSUME NEW b \in VIstek, vIstek[b] \notin {Bos, Bitti}
      PROVE  /\ [vIstek[b] EXCEPT !.bayat = TRUE] \in VKayit
             /\ [vIstek[b] EXCEPT !.bayat = TRUE].bayat
             /\ [vIstek[b] EXCEPT !.bayat = TRUE].adim = vIstek[b].adim
             /\ vIstek[b].adim \in {"tutar", "sil"} => [vIstek[b] EXCEPT !.bayat = TRUE].t = vIstek[b].t
  <2> DEFINE r == vIstek[b]
             q == [r EXCEPT !.bayat = TRUE]
  <2>1. r \in VKayit
    BY <1>2 DEF PlanTipi
  <2>2. CASE r \in VUcretKaydi
    <3>1. q \in VUcretKaydi /\ q.bayat /\ q.adim = r.adim /\ r.adim = "ucret"
      BY <2>2 DEF VUcretKaydi
    <3> QED BY <3>1 DEF VKayit
  <2>3. CASE r \in VEkleKaydi
    <3>1. q \in VEkleKaydi /\ q.bayat /\ q.adim = r.adim /\ r.adim \in {"numarali", "plan"}
      BY <2>3 DEF VEkleKaydi
    <3> QED BY <3>1 DEF VKayit
  <2>4. CASE r \in VTutarKaydi
    <3>1. q \in VTutarKaydi /\ q.bayat /\ q.adim = r.adim /\ q.t = r.t
      BY <2>4 DEF VTutarKaydi
    <3> QED BY <3>1 DEF VKayit
  <2>5. CASE r \in VSilKaydi
    <3>1. q \in VSilKaydi /\ q.bayat /\ q.adim = r.adim /\ q.t = r.t
      BY <2>5 DEF VSilKaydi
    <3> QED BY <3>1 DEF VKayit
  <2> HIDE DEF r, q
  <2>6. CASE TRUE
    BY <2>1, <2>2, <2>3, <2>4, <2>5 DEF VKayit, r, q
  <2> QED BY <2>6
<1>3. ASSUME NEW b \in VIstek
      PROVE  vIstek'[b] = IF b = a THEN k
                          ELSE IF vIstek[b] \in {Bos, Bitti} THEN vIstek[b] ELSE [vIstek[b] EXCEPT !.bayat = TRUE]
  BY <1>1 DEF Bayatlat
<1>4. vIstek' = [b \in VIstek |-> vIstek'[b]]
  BY <1>1 DEF Bayatlat
<1>5. ASSUME NEW b \in VIstek
      PROVE  /\ vIstek'[b] \in VKayit \cup {Bos, Bitti}
             /\ vIstek'[b] \notin {Bos, Bitti} =>
              /\ vIstek'[b].bayat
              /\ vIstek'[b].adim = vIstek[b].adim
              /\ vIstek[b].adim \in {"tutar", "sil"} => vIstek'[b].t = vIstek[b].t
  <2>1. CASE b = a
    BY <1>3, <2>1
  <2>2. CASE b # a /\ vIstek[b] \in {Bos, Bitti}
    BY <1>3, <2>2
  <2>3. CASE b # a /\ vIstek[b] \notin {Bos, Bitti}
    BY <1>2, <1>3, <2>3
  <2> QED BY <2>1, <2>2, <2>3
<1> QED BY <1>4, <1>5

(* Who writes unmarked has read what is so; who writes marked leaves it in *)
(* the history.                                                            *)
LEMMA VYazanDogru ==
  ASSUME VInv, NEW a \in VIstek, vIstek[a] \notin {Bos, Bitti}, vSasan' = (vSasan \/ vIstek[a].bayat), ~vSasan'
  PROVE  ~vSasan /\ VDogru(vIstek[a])
<1>1. ~vSasan /\ ~vIstek[a].bayat
  OBVIOUS
<1> QED BY <1>1 DEF VInv, VOkunanDogru

(* A step that writes preserves what does not speak of the rows written.   *)
LEMMA VYazKorur ==
  ASSUME VInv, NEW a, NEW k \in {Bos, Bitti}, vIstek' = Bayatlat(vIstek, a, k),
         vUcret' \in VUcretSatiri, vTaksit' \in [VTaksit -> VTaksitSatiri \cup {Yok}],
         vOdeme' \in [VOdeme -> VOdemeSatiri \cup {Yok}], vAsan' \in BOOLEAN, vSasan' \in BOOLEAN,
         \A t \in VTaksit : vTaksit[t] # Yok => vTaksit'[t] # Yok,
         \A o \in VOdeme : vOdeme'[o] = vOdeme[o] \/ vTaksit[vOdeme'[o].t] # Yok, PlanTutarli'
  PROVE  VInv'
<1>1. /\ vIstek' \in [VIstek -> VKayit \cup {Bos, Bitti}]
      /\ \A b \in VIstek : vIstek'[b] \notin {Bos, Bitti} =>
              /\ vIstek'[b].bayat
              /\ vIstek'[b].adim = vIstek[b].adim
              /\ vIstek[b].adim \in {"tutar", "sil"} => vIstek'[b].t = vIstek[b].t
  BY VBayatlar DEF VInv
<1>2. PlanTipi'
  BY <1>1 DEF PlanTipi
<1>3. UcretsizBos'
  BY VekaletPlanVarsayimi DEF UcretsizBos
<1>4. VOkunanDogru'
  <2> SUFFICES ASSUME NEW b \in VIstek, vIstek'[b] \notin {Bos, Bitti}, ~vIstek'[b].bayat PROVE FALSE
    BY DEF VOkunanDogru
  <2> QED BY <1>1
<1>5. VAdliVar'
  <2> SUFFICES ASSUME NEW b \in VIstek, vIstek'[b].adim \in {"tutar", "sil"}
               PROVE  vTaksit'[vIstek'[b].t] # Yok
    BY DEF VAdliVar
  <2>1. vIstek'[b] \notin {Bos, Bitti}
    BY DEF Bos, Bitti
  <2>2. vIstek[b].adim \in {"tutar", "sil"} /\ vIstek'[b].t = vIstek[b].t /\ vIstek[b] \in VKayit
    <3>1. vIstek[b].adim \in {"tutar", "sil"} /\ vIstek'[b].t = vIstek[b].t
      BY <1>1, <2>1
    <3>2. vIstek[b] \in VKayit \cup {Bos, Bitti}
      BY DEF VInv, PlanTipi
    <3> QED BY <3>1, <3>2 DEF Bos, Bitti
  <2>3. vIstek[b].t \in VTaksit
    BY <2>2 DEF VKayit, VUcretKaydi, VEkleKaydi, VTutarKaydi, VSilKaydi
  <2>4. vTaksit[vIstek[b].t] # Yok
    BY <2>2 DEF VInv, VAdliVar
  <2> QED BY <2>2, <2>3, <2>4
<1>6. VOdemeBagli'
  <2> SUFFICES ASSUME NEW o \in VOdeme, vOdeme'[o] # Yok PROVE vTaksit'[vOdeme'[o].t] # Yok
    BY DEF VOdemeBagli
  <2>1. vTaksit[vOdeme'[o].t] # Yok
    BY DEF VInv, VOdemeBagli
  <2>2. vOdeme'[o].t \in VTaksit
    BY DEF VOdemeSatiri
  <2> QED BY <2>1, <2>2
<1> QED BY <1>2, <1>3, <1>4, <1>5, <1>6 DEF VInv

(* A step that reads keeps what is so.                                     *)
LEMMA VOkuKorur ==
  ASSUME VInv, NEW a, NEW k \in VKayit, VGelir(a, k), VDogru(k),
         k.adim \in {"tutar", "sil"} => vTaksit[k.t] # Yok
  PROVE  VInv'
<1>1. /\ a \in VIstek /\ vIstek[a] = Bos /\ vUcret # Yok
      /\ vIstek' = [vIstek EXCEPT ![a] = k] /\ UNCHANGED <<vUcret, vTaksit, vOdeme, vAsan, vSasan>>
  BY DEF VGelir, Ilk
<1>2. PlanTipi'
  BY <1>1 DEF VInv, PlanTipi
<1>3. \A b \in VIstek : vIstek'[b] = IF b = a THEN k ELSE vIstek[b]
  BY <1>1 DEF VInv, PlanTipi
<1>4. UcretsizBos'
  BY <1>1 DEF UcretsizBos
<1>5. \A r : VDogru(r)' <=> VDogru(r)
  <2> SUFFICES ASSUME NEW r PROVE VDogru(r)' <=> VDogru(r)
    OBVIOUS
  <2> QED BY <1>1 DEF VDogru, VAktif
<1>6. VOkunanDogru'
  <2> SUFFICES ASSUME NEW b \in VIstek, vIstek'[b] \notin {Bos, Bitti}, ~vIstek'[b].bayat
               PROVE  VDogru(vIstek[b])'
    BY DEF VOkunanDogru
  <2>1. PICK r : r = vIstek'[b]
    OBVIOUS
  <2>2. VDogru(r)
    BY <1>3, <2>1 DEF VInv, VOkunanDogru
  <2>3. VDogru(r)'
    BY <1>5, <2>2
  <2> QED BY <2>1, <2>3 DEF VDogru, VAktif
<1>7. VAdliVar'
  BY <1>1, <1>3 DEF VInv, VAdliVar
<1>8. PlanTutarli'
  BY <1>1 DEF VInv, PlanTutarli, VAsilir, VAktif, VCanli
<1>9. VOdemeBagli'
  BY <1>1 DEF VInv, VOdemeBagli
<1> QED BY <1>2, <1>4, <1>6, <1>7, <1>8, <1>9 DEF VInv

(* What the record of a request holds.                                     *)
LEMMA VKayitAlani ==
  ASSUME PlanTipi, NEW a \in VIstek
  PROVE  /\ vIstek[a].adim = "ucret" => vIstek[a] \in VUcretKaydi
         /\ vIstek[a].adim \in {"numarali", "plan"} => vIstek[a] \in VEkleKaydi
         /\ vIstek[a].adim = "tutar" => vIstek[a] \in VTutarKaydi
         /\ vIstek[a].adim = "sil" => vIstek[a] \in VSilKaydi
         /\ vIstek[a].adim \in {"ucret", "numarali", "plan", "tutar", "sil"} => vIstek[a] \notin {Bos, Bitti}
<1>1. vIstek[a] \in VKayit \cup {Bos, Bitti}
  BY DEF PlanTipi
<1>2. \A r : /\ r \in VUcretKaydi => r.adim = "ucret"
             /\ r \in VEkleKaydi => r.adim \in {"numarali", "plan"}
             /\ r \in VTutarKaydi => r.adim = "tutar"
             /\ r \in VSilKaydi => r.adim = "sil"
  BY DEF VUcretKaydi, VEkleKaydi, VTutarKaydi, VSilKaydi
<1> QED BY <1>1, <1>2 DEF VKayit, Bos, Bitti

LEMMA VBaslangic == ASSUME PlanInit PROVE VInv
<1>1. PlanTipi
  BY DEF PlanInit, PlanTipi
<1>2. UcretsizBos
  BY DEF PlanInit, UcretsizBos
<1>3. VOkunanDogru
  BY DEF PlanInit, VOkunanDogru
<1>4. VAdliVar
  BY DEF PlanInit, VAdliVar, Bos
<1>5. PlanTutarli
  BY DEF PlanInit, PlanTutarli, VAktif
<1>6. VOdemeBagli
  BY DEF PlanInit, VOdemeBagli
<1> QED BY <1>1, <1>2, <1>3, <1>4, <1>5, <1>6 DEF VInv

LEMMA VUcretAcKorur == ASSUME VInv, VUcretAc PROVE VInv'
<1>1. PICK y \in VTutar, p \in VPara : vUcret' = [toplam |-> y, pb |-> p]
  BY DEF VUcretAc
<1>2. vUcret = Yok /\ UNCHANGED <<vTaksit, vOdeme, vIstek, vAsan, vSasan>>
  BY DEF VUcretAc
<1>3. /\ \A t \in VTaksit : vTaksit'[t] = Yok
      /\ \A o \in VOdeme : vOdeme'[o] = Yok
      /\ \A a \in VIstek : vIstek'[a] = Bos
  BY <1>2 DEF VInv, UcretsizBos
<1>4. vUcret' \in VUcretSatiri /\ vUcret'.toplam = y
  BY <1>1 DEF VUcretSatiri
<1>5. PlanTipi'
  BY <1>2, <1>4 DEF VInv, PlanTipi
<1>6. UcretsizBos'
  BY <1>4, VekaletPlanVarsayimi DEF UcretsizBos
<1>7. VOkunanDogru'
  BY <1>3 DEF VOkunanDogru
<1>8. VAdliVar'
  BY <1>3 DEF VAdliVar, Bos
<1>9. ~VAsilir(vUcret, vTaksit)'
  <2>1. PICK x : x = vTaksit'
    OBVIOUS
  <2>2. VCanlilar(x) = {}
    BY <1>3, <2>1 DEF VCanlilar
  <2>3. VTaksitToplami(x) = Topla([t \in {} |-> x[t].tutar], {})
    BY <2>2, VToplamTopla
  <2>4. VTaksitToplami(x) = 0
    BY <2>3, ToplaBos
  <2>5. ~(0 > y)
    BY VekaletPlanVarsayimi
  <2> QED BY <1>4, <2>1, <2>4, <2>5 DEF VAsilir
<1>10. PlanTutarli'
  BY <1>3, <1>9 DEF PlanTutarli, VAktif
<1>11. VOdemeBagli'
  BY <1>3 DEF VOdemeBagli
<1> QED BY <1>5, <1>6, <1>7, <1>8, <1>10, <1>11 DEF VInv

(* The reads.                                                              *)
LEMMA VUcretOkuKorur == ASSUME VInv, NEW a \in VIstek, VUcretOku(a) PROVE VInv'
<1>1. vUcret # Yok /\ vUcret \in VUcretSatiri
  BY DEF VUcretOku, VInv, PlanTipi
<1>2. PICK y \in VTutar, p \in VPara : /\ VParaDegisir(p)
        /\ VGelir(a, [adim |-> "ucret", toplam |-> y, pb |-> p, eski |-> vUcret.pb, bayat |-> FALSE])
  BY DEF VUcretOku
<1>3. PICK k : k = [adim |-> "ucret", toplam |-> y, pb |-> p, eski |-> vUcret.pb, bayat |-> FALSE]
  OBVIOUS
<1>4. k \in VUcretKaydi /\ k.adim = "ucret" /\ k.eski = vUcret.pb /\ k.pb = p
  BY <1>1, <1>3 DEF VUcretKaydi, VUcretSatiri
<1>5. k \in VKayit
  BY <1>4 DEF VKayit
<1>6. VDogru(k)
  BY <1>1, <1>2, <1>4 DEF VDogru, VParaDegisir
<1>7. VGelir(a, k)
  BY <1>2, <1>3
<1> QED BY <1>4, <1>5, <1>6, <1>7, VOkuKorur

LEMMA VEkleKorur ==
  ASSUME VInv, vUcret # Yok, NEW a, NEW adim \in {"numarali", "plan"}, NEW n \in Nat, NEW s \in [1..n -> Nat],
         VGelir(a, VEkle(adim, s)), adim = "plan" => VTaksitToplami(vTaksit) + VListe(s) <= vUcret.toplam
  PROVE  VInv'
<1>1. vUcret \in VUcretSatiri
  BY DEF VInv, PlanTipi
<1>2. PICK k : k = VEkle(adim, s)
  OBVIOUS
<1>3. k \in VEkleKaydi /\ k.adim = adim /\ k.tutarlar = s /\ k.pb = vUcret.pb
  <2>1. s \in UNION {[1..m -> Nat] : m \in Nat}
    OBVIOUS
  <2> QED BY <1>1, <1>2, <2>1 DEF VEkle, VEkleKaydi, VUcretSatiri
<1>4. k \in VKayit
  BY <1>3 DEF VKayit
<1>5. VDogru(k)
  BY <1>3 DEF VDogru
<1>6. VGelir(a, k)
  BY <1>2
<1> QED BY <1>3, <1>4, <1>5, <1>6, VOkuKorur

LEMMA VNumaraliOkuKorur == ASSUME VInv, NEW a \in VIstek, VNumaraliOku(a) PROVE VInv'
<1>1. PICK x \in VTutar : VGelir(a, VEkle("numarali", <<x>>))
  BY DEF VNumaraliOku
<1>2. vUcret # Yok /\ x \in Nat
  BY VekaletPlanVarsayimi DEF VNumaraliOku
<1>3. <<x>> \in [1..1 -> Nat]
  BY <1>2
<1> QED BY <1>1, <1>2, <1>3, VEkleKorur

(* The least of two numbers is no more than the first.                     *)
LEMMA EnAz ==
  ASSUME NEW p \in Int, NEW q \in Int
  PROVE  Min({p, q}) \in Int /\ Min({p, q}) <= p
<1>1. \E z \in {p, q} : \A w \in {p, q} : z <= w
  <2>1. CASE p <= q
    BY <2>1
  <2>2. CASE ~(p <= q)
    BY <2>2
  <2> QED BY <2>1, <2>2
<1>2. PICK m : m = Min({p, q})
  OBVIOUS
<1>3. m \in {p, q} /\ \A w \in {p, q} : m <= w
  BY <1>1, <1>2, Zenon DEF Min
<1> QED BY <1>2, <1>3

(* And the most of nothing and a number is a number.                       *)
LEMMA EnCok ==
  ASSUME NEW d \in Int
  PROVE  Max({0, d}) \in {0, d} /\ Max({0, d}) >= 0
<1>1. \E z \in {0, d} : \A w \in {0, d} : z >= w
  <2>1. CASE d >= 0
    BY <2>1
  <2>2. CASE ~(d >= 0)
    BY <2>2
  <2> QED BY <2>1, <2>2
<1>2. PICK m : m = Max({0, d})
  OBVIOUS
<1>3. m \in {0, d} /\ \A w \in {0, d} : m >= w
  BY <1>1, <1>2, Zenon DEF Max
<1> QED BY <1>2, <1>3

(* What is left to plan: more than nothing only while the instalments are  *)
(* within the fee.                                                         *)
LEMMA VKalanDegeri ==
  ASSUME VInv, vUcret # Yok
  PROVE  /\ VKalanPlan \in Nat /\ vUcret.toplam \in Nat /\ VTaksitToplami(vTaksit) \in Nat
         /\ VKalanPlan >= 1 => VKalanPlan = vUcret.toplam - VTaksitToplami(vTaksit)
<1>1. vUcret.toplam \in Nat
  BY VekaletPlanVarsayimi DEF VInv, PlanTipi, VUcretSatiri
<1>2. PICK x : x = vTaksit
  OBVIOUS
<1>3. \A t \in VCanlilar(x) : x[t].tutar \in Nat
  BY <1>2 DEF VCanlilar, VInv, PlanTipi, VTaksitSatiri
<1>4. VTaksitToplami(x) \in Nat
  BY <1>3, VToplamAzalir
<1>5. PICK d : d = vUcret.toplam - VTaksitToplami(vTaksit)
  OBVIOUS
<1>6. d \in Int
  BY <1>1, <1>2, <1>4, <1>5
<1>7. PICK m : m = Max({0, d})
  OBVIOUS
<1>8. m \in {0, d} /\ m >= 0
  BY <1>6, <1>7, EnCok
<1>9. VKalanPlan = m
  BY <1>5, <1>7 DEF VKalanPlan
<1> QED BY <1>1, <1>2, <1>4, <1>5, <1>6, <1>8, <1>9

LEMMA VPlanOkuKorur == ASSUME VInv, NEW a \in VIstek, VPlanOku(a) PROVE VInv'
<1>1. vUcret # Yok
  BY DEF VPlanOku
<1>2. PICK n \in 1..Cardinality(VBos) : \E s \in [1..n -> 1..VKalanPlan] : VPlanTutar(s) /\ VGelir(a, VEkle("plan", s))
  BY DEF VPlanOku
<1>3. PICK s \in [1..n -> 1..VKalanPlan] : VPlanTutar(s) /\ VGelir(a, VEkle("plan", s))
  BY <1>2
<1>4. /\ VKalanPlan \in Nat /\ vUcret.toplam \in Nat /\ VTaksitToplami(vTaksit) \in Nat
      /\ VKalanPlan >= 1 => VKalanPlan = vUcret.toplam - VTaksitToplami(vTaksit)
  BY <1>1, VKalanDegeri
<1>5. n \in Nat /\ 1 \in 1..n
  <2>1. n \in Int /\ 1 <= n
    BY <1>2
  <2> QED BY <2>1
<1>6. VKalanPlan >= 1
  BY <1>3, <1>4, <1>5
<1>7. s \in [1..n -> Nat] /\ DOMAIN s = 1..n /\ \A i \in 1..n : s[i] \in Nat
  BY <1>3, <1>4
<1>8. VListe(s) \in Nat
  <2>1. VListe(s) = Topla(s, 1..n)
    BY <1>7 DEF VListe, Topla
  <2>2. IsFiniteSet(1..n)
    BY <1>5, FS_Interval
  <2> QED BY <1>7, <2>1, <2>2, ToplaArtar
<1>9. VListe(s) <= VKalanPlan
  <2>1. VListe(s) = VKalanPlan \/ VListe(s) <= VKalanPlan
    BY <1>3 DEF VPlanTutar, VListe
  <2> QED BY <1>4, <1>8, <2>1
<1>10. VTaksitToplami(vTaksit) + VListe(s) <= vUcret.toplam
  BY <1>4, <1>6, <1>8, <1>9
<1> QED BY <1>1, <1>3, <1>5, <1>7, <1>10, VEkleKorur

(* The model's sum of payments is a sum.                                   *)
LEMMA VOdenenTipi ==
  ASSUME PlanTipi, NEW S \in SUBSET VOdeme, \A o \in S : vOdeme[o] # Yok
  PROVE  VOdenen(S) \in Nat
<1> DEFINE f == [o \in S |-> vOdeme[o].tutar]
           P(h) == h = [s \in SUBSET S |->
                          IF s = {} THEN 0
                          ELSE vOdeme[CHOOSE o \in s : TRUE].tutar + h[s \ {CHOOSE o \in s : TRUE}]]
<1>0. IsFiniteSet(S) /\ \A o \in S : f[o] \in Nat
  BY VekaletPlanVarsayimi, FS_Subset DEF PlanTipi, VOdemeSatiri
<1>1. VOdenen(S) = MapThenSumSet(LAMBDA o : vOdeme[o].tutar, S)
  BY DEF VOdenen
<1>2. PICK g : Ozyineli(g, f, S)
  BY <1>0, OzyineliVar
<1>3. \A s \in SUBSET S : s # {} => f[CHOOSE o \in s : TRUE] = vOdeme[CHOOSE o \in s : TRUE].tutar
  OBVIOUS
<1>4. \A h : Ozyineli(h, f, S) <=> P(h)
  <2> SUFFICES ASSUME NEW h PROVE Ozyineli(h, f, S) <=> P(h)
    OBVIOUS
  <2> DEFINE k == [s \in SUBSET S |-> IF s = {} THEN 0 ELSE f[CHOOSE o \in s : TRUE] + h[s \ {CHOOSE o \in s : TRUE}]]
             l == [s \in SUBSET S |-> IF s = {} THEN 0
                          ELSE vOdeme[CHOOSE o \in s : TRUE].tutar + h[s \ {CHOOSE o \in s : TRUE}]]
  <2> HIDE DEF f
  <2>1. k = l
    BY <1>3
  <2> QED BY <2>1 DEF Ozyineli
<1>5. PICK h : h = CHOOSE hh : P(hh)
  OBVIOUS
<1>6. MapThenSumSet(LAMBDA o : vOdeme[o].tutar, S) = h[S]
  BY <1>5, Zenon DEF MapThenSumSet, MapThenFoldSet
<1> HIDE DEF P, f
<1>7. P(g)
  BY <1>2, <1>4
<1>8. P(h)
  BY <1>5, <1>7, Zenon
<1>9. Ozyineli(h, f, S)
  BY <1>4, <1>8
<1>10. Topla(f, S) = h[S]
  BY <1>0, <1>9, ToplaDeger
<1>11. Topla(f, S) \in Nat
  BY <1>0, ToplaArtar
<1> QED BY <1>1, <1>6, <1>10, <1>11

LEMMA VTekOkuKorur == ASSUME VInv, NEW a \in VIstek, VTekOku(a) PROVE VInv'
<1>1. vUcret # Yok
  BY DEF VTekOku
<1>2. PICK x \in 1..Min({VKalanPlan, VKalanVekalet}) : VGelir(a, VEkle("plan", <<x>>))
  BY DEF VTekOku
<1>4. /\ VKalanPlan \in Nat /\ vUcret.toplam \in Nat /\ VTaksitToplami(vTaksit) \in Nat
      /\ VKalanPlan >= 1 => VKalanPlan = vUcret.toplam - VTaksitToplami(vTaksit)
  BY <1>1, VKalanDegeri
<1>5. x \in Nat /\ 1 <= x /\ x <= VKalanPlan
  <2>1. PICK S : S = {o \in VOdeme : vOdeme[o] # Yok /\ vOdeme[o].t \in VCanli}
    OBVIOUS
  <2>2. VOdenen(S) \in Nat
    <3>1. S \in SUBSET VOdeme /\ \A o \in S : vOdeme[o] # Yok
      BY <2>1
    <3> QED BY <3>1, VOdenenTipi DEF VInv
  <2>3. PICK d : d = vUcret.toplam - VOdenen(S)
    OBVIOUS
  <2>4. d \in Int
    BY <1>4, <2>2, <2>3
  <2>5. VKalanVekalet = Max({0, d})
    BY <2>1, <2>3 DEF VKalanVekalet
  <2>6. VKalanVekalet \in Int
    BY <2>4, <2>5, EnCok
  <2>7. Min({VKalanPlan, VKalanVekalet}) \in Int /\ Min({VKalanPlan, VKalanVekalet}) <= VKalanPlan
    BY <1>4, <2>6, EnAz
  <2> QED BY <1>2, <1>4, <2>7
<1>6. <<x>> \in [1..1 -> Nat] /\ DOMAIN <<x>> = 1..1 /\ <<x>>[1] = x
  BY <1>5
<1>7. VListe(<<x>>) = x
  <2>1. PICK s : s = <<x>>
    OBVIOUS
  <2>2. VListe(s) = Topla(s, 1..1)
    BY <1>6, <2>1 DEF VListe, Topla
  <2>3. 1..1 = {} \cup {1} /\ 1 \notin {} /\ IsFiniteSet({}) /\ s[1] = x
    BY <1>6, <2>1, FS_EmptySet
  <2>4. \A i \in {} \cup {1} : s[i] \in Int
    BY <1>5, <2>3
  <2>5. Topla(s, {} \cup {1}) = s[1] + Topla(s, {})
    BY <2>3, <2>4, ToplaEkle
  <2>6. Topla(s, {}) = 0
    BY ToplaBos
  <2> QED BY <1>5, <2>1, <2>2, <2>3, <2>5, <2>6
<1>8. VTaksitToplami(vTaksit) + VListe(<<x>>) <= vUcret.toplam
  BY <1>4, <1>5, <1>7
<1> QED BY <1>1, <1>2, <1>6, <1>8, VEkleKorur

LEMMA VTutarOkuKorur == ASSUME VInv, NEW a \in VIstek, VTutarOku(a) PROVE VInv'
<1>1. PICK t \in VCanli, y \in VTutar : VGelir(a, [adim |-> "tutar", t |-> t, tutar |-> y, bayat |-> FALSE])
  BY DEF VTutarOku
<1>2. PICK k : k = [adim |-> "tutar", t |-> t, tutar |-> y, bayat |-> FALSE]
  OBVIOUS
<1>3. t \in VTaksit /\ vTaksit[t] # Yok
  BY DEF VCanli
<1>4. k \in VTutarKaydi /\ k.adim = "tutar" /\ k.t = t
  BY <1>2, <1>3 DEF VTutarKaydi
<1>5. k \in VKayit
  BY <1>4 DEF VKayit
<1>6. vUcret # Yok
  BY <1>3 DEF VInv, UcretsizBos
<1>7. VDogru(k)
  BY <1>4, <1>6 DEF VDogru
<1>8. VGelir(a, k)
  BY <1>1, <1>2
<1> QED BY <1>3, <1>4, <1>5, <1>7, <1>8, VOkuKorur

LEMMA VSilOkuKorur == ASSUME VInv, NEW a \in VIstek, VSilOku(a) PROVE VInv'
<1>1. PICK t \in VCanli : VOdemeleri(t) \cap VAktif = {} /\ VGelir(a, [adim |-> "sil", t |-> t, bayat |-> FALSE])
  BY DEF VSilOku
<1>2. PICK k : k = [adim |-> "sil", t |-> t, bayat |-> FALSE]
  OBVIOUS
<1>3. t \in VTaksit /\ vTaksit[t] # Yok
  BY DEF VCanli
<1>4. k \in VSilKaydi /\ k.adim = "sil" /\ k.t = t
  BY <1>2, <1>3 DEF VSilKaydi
<1>5. k \in VKayit
  BY <1>4 DEF VKayit
<1>6. vUcret # Yok
  BY <1>3 DEF VInv, UcretsizBos
<1>7. \A o \in VAktif : vOdeme[o].t # t
  BY <1>1 DEF VOdemeleri, VAktif
<1>8. VDogru(k)
  BY <1>4, <1>6, <1>7 DEF VDogru
<1>9. VGelir(a, k)
  BY <1>1, <1>2
<1> QED BY <1>3, <1>4, <1>5, <1>8, <1>9, VOkuKorur

(* The writes.  Sums are compared by name: x and y are the instalments     *)
(* before and after.                                                       *)
LEMMA VTutarlidir ==
  ASSUME vSasan' \in BOOLEAN,
         ~vSasan' => /\ VTaksitToplami(vTaksit') > vUcret'.toplam => vAsan'
                     /\ \A t \in VTaksit : vTaksit'[t] # Yok => vTaksit'[t].pb = vUcret'.pb
                     /\ \A o \in VOdeme : vOdeme'[o] # Yok /\ ~vOdeme'[o].iptal =>
                          /\ vOdeme'[o].pb = vUcret'.pb /\ vOdeme'[o].t \in VTaksit
                          /\ vTaksit'[vOdeme'[o].t] # Yok /\ ~vTaksit'[vOdeme'[o].t].iptal
  PROVE  PlanTutarli'
BY DEF PlanTutarli, VAsilir, VAktif, VCanli

(* What the invariant says of the rows.                                    *)
LEMMA VSatirlar ==
  ASSUME VInv, ~vSasan, vUcret # Yok
  PROVE  /\ VTaksitToplami(vTaksit) > vUcret.toplam => vAsan
         /\ \A t \in VTaksit : vTaksit[t] # Yok => vTaksit[t].pb = vUcret.pb
         /\ \A o \in VOdeme : vOdeme[o] # Yok /\ ~vOdeme[o].iptal =>
              /\ vOdeme[o].pb = vUcret.pb /\ vOdeme[o].t \in VTaksit
              /\ vTaksit[vOdeme[o].t] # Yok /\ ~vTaksit[vOdeme[o].t].iptal
BY DEF VInv, PlanTutarli, VAsilir, VAktif, VCanli

(* The types before a write.                                               *)
LEMMA VTipler ==
  ASSUME VInv
  PROVE  /\ vAsan \in BOOLEAN /\ vSasan \in BOOLEAN
         /\ vUcret # Yok => vUcret \in VUcretSatiri
         /\ vTaksit \in [VTaksit -> VTaksitSatiri \cup {Yok}] /\ vOdeme \in [VOdeme -> VOdemeSatiri \cup {Yok}]
         /\ \A t \in VTaksit : vTaksit[t] # Yok => vTaksit[t] \in VTaksitSatiri
         /\ \A o \in VOdeme : vOdeme[o] # Yok => vOdeme[o] \in VOdemeSatiri
         /\ \A a \in VIstek : vIstek[a] # Bos => vUcret # Yok
         /\ \A t \in VTaksit : vTaksit[t] # Yok => vUcret # Yok
         /\ Yok \notin VUcretSatiri /\ Yok \notin VTaksitSatiri /\ Yok \notin VOdemeSatiri
BY VekaletPlanVarsayimi DEF VInv, PlanTipi, UcretsizBos

(* Instalments that stay and keep their amounts add up to the same or,     *)
(* when one is cancelled, to less.                                         *)
LEMMA VToplamSonra ==
  ASSUME VInv,
         \A t \in VTaksit : vTaksit'[t] # Yok /\ ~vTaksit'[t].iptal =>
           vTaksit[t] # Yok /\ ~vTaksit[t].iptal /\ vTaksit'[t].tutar = vTaksit[t].tutar
  PROVE  /\ VTaksitToplami(vTaksit') <= VTaksitToplami(vTaksit)
         /\ VTaksitToplami(vTaksit) \in Nat /\ VTaksitToplami(vTaksit') \in Nat
<1>1. PICK x : x = vTaksit
  OBVIOUS
<1>2. PICK y : y = vTaksit'
  OBVIOUS
<1>3. \A t \in VCanlilar(x) : x[t].tutar \in Nat
  BY <1>1, VTipler DEF VCanlilar, VTaksitSatiri
<1>4. VCanlilar(y) \subseteq VCanlilar(x)
  BY <1>1, <1>2 DEF VCanlilar
<1>5. \A t \in VCanlilar(y) : y[t].tutar = x[t].tutar
  BY <1>1, <1>2 DEF VCanlilar
<1>6. /\ VTaksitToplami(y) <= VTaksitToplami(x)
      /\ VTaksitToplami(x) \in Nat /\ VTaksitToplami(y) \in Nat
  BY <1>3, <1>4, <1>5, VToplamAzalir
<1> QED BY <1>1, <1>2, <1>6

LEMMA VUcretYazKorur == ASSUME VInv, NEW a \in VIstek, VUcretYaz(a) PROVE VInv'
<1>1. PICK r : r = vIstek[a]
  OBVIOUS
<1>2. /\ r.adim = "ucret" /\ vIstek' = Bayatlat(vIstek, a, Bitti) /\ vSasan' = (vSasan \/ r.bayat) /\ vOdeme' = vOdeme
      /\ vUcret' = [toplam |-> r.toplam, pb |-> r.pb]
      /\ vTaksit' = [t \in VTaksit |-> IF r.pb # r.eski /\ vTaksit[t] # Yok THEN [vTaksit[t] EXCEPT !.pb = r.pb] ELSE vTaksit[t]]
      /\ vAsan' = (vAsan \/ VTaksitToplami(vTaksit) > vUcret'.toplam)
  BY <1>1 DEF VUcretYaz, VSonuc, VAsilir
<1>3. r \in VUcretKaydi /\ r \notin {Bos, Bitti}
  BY <1>1, <1>2, VKayitAlani DEF VInv
<1>4. r.toplam \in VTutar /\ r.pb \in VPara /\ r.eski \in VPara /\ r.bayat \in BOOLEAN
  BY <1>3 DEF VUcretKaydi
<1>5. vUcret # Yok /\ vUcret \in VUcretSatiri
  BY <1>1, <1>3, VTipler
<1>6. vUcret' \in VUcretSatiri /\ vUcret'.pb = r.pb /\ vUcret'.toplam = r.toplam
  BY <1>2, <1>4 DEF VUcretSatiri
<1>7. ASSUME NEW t \in VTaksit
      PROVE  /\ vTaksit'[t] \in VTaksitSatiri \cup {Yok}
             /\ vTaksit[t] # Yok <=> vTaksit'[t] # Yok
             /\ vTaksit[t] # Yok => /\ vTaksit'[t].iptal = vTaksit[t].iptal /\ vTaksit'[t].tutar = vTaksit[t].tutar
                                    /\ vTaksit'[t].pb = IF r.pb # r.eski THEN r.pb ELSE vTaksit[t].pb
  <2>1. vTaksit'[t] = IF r.pb # r.eski /\ vTaksit[t] # Yok THEN [vTaksit[t] EXCEPT !.pb = r.pb] ELSE vTaksit[t]
    BY <1>2
  <2>2. CASE vTaksit[t] = Yok
    BY <2>1, <2>2
  <2>3. CASE vTaksit[t] # Yok /\ r.pb # r.eski
    <3>1. PICK v : v = vTaksit[t]
      OBVIOUS
    <3>2. v \in VTaksitSatiri /\ vTaksit'[t] = [v EXCEPT !.pb = r.pb]
      BY <2>1, <2>3, <3>1, VTipler
    <3>3. /\ [v EXCEPT !.pb = r.pb] \in VTaksitSatiri /\ [v EXCEPT !.pb = r.pb].pb = r.pb
          /\ [v EXCEPT !.pb = r.pb].iptal = v.iptal /\ [v EXCEPT !.pb = r.pb].tutar = v.tutar
      BY <1>4, <3>2 DEF VTaksitSatiri
    <3> QED BY <2>3, <3>1, <3>2, <3>3, VTipler
  <2>4. CASE vTaksit[t] # Yok /\ r.pb = r.eski
    BY <2>1, <2>4, VTipler
  <2> QED BY <2>2, <2>3, <2>4
<1>8. vTaksit' \in [VTaksit -> VTaksitSatiri \cup {Yok}]
  BY <1>2, <1>7
<1>9. /\ VTaksitToplami(vTaksit') <= VTaksitToplami(vTaksit)
      /\ VTaksitToplami(vTaksit) \in Nat /\ VTaksitToplami(vTaksit') \in Nat
  BY <1>7, VToplamSonra
<1>10. vSasan' \in BOOLEAN /\ vAsan' \in BOOLEAN
  BY <1>2, <1>4, VTipler
<1>11. ASSUME ~vSasan'
       PROVE  /\ VTaksitToplami(vTaksit') > vUcret'.toplam => vAsan'
              /\ \A t \in VTaksit : vTaksit'[t] # Yok => vTaksit'[t].pb = vUcret'.pb
              /\ \A o \in VOdeme : vOdeme'[o] # Yok /\ ~vOdeme'[o].iptal =>
                   /\ vOdeme'[o].pb = vUcret'.pb /\ vOdeme'[o].t \in VTaksit
                   /\ vTaksit'[vOdeme'[o].t] # Yok /\ ~vTaksit'[vOdeme'[o].t].iptal
  <2>1. ~vSasan /\ VDogru(r)
    BY <1>1, <1>2, <1>3, <1>11, VYazanDogru
  <2>2. r.eski = vUcret.pb /\ (r.pb = vUcret.pb \/ VAktif = {})
    BY <1>2, <2>1 DEF VDogru
  <2>3. VTaksitToplami(vTaksit') > vUcret'.toplam => vAsan'
    <3>1. r.toplam \in Nat
      BY <1>4, VekaletPlanVarsayimi
    <3>2. VTaksitToplami(vTaksit') > vUcret'.toplam => VTaksitToplami(vTaksit) > vUcret'.toplam
      BY <1>6, <1>9, <3>1
    <3>3. VTaksitToplami(vTaksit) > vUcret'.toplam => vAsan'
      BY <1>2
    <3> QED BY <3>2, <3>3
  <2>4. ASSUME NEW t \in VTaksit, vTaksit'[t] # Yok PROVE vTaksit'[t].pb = vUcret'.pb
    BY <1>5, <1>6, <1>7, <2>1, <2>2, <2>4, VSatirlar
  <2>5. ASSUME NEW o \in VOdeme, vOdeme'[o] # Yok, ~vOdeme'[o].iptal
        PROVE  /\ vOdeme'[o].pb = vUcret'.pb /\ vOdeme'[o].t \in VTaksit
               /\ vTaksit'[vOdeme'[o].t] # Yok /\ ~vTaksit'[vOdeme'[o].t].iptal
    <3>1. vOdeme'[o] = vOdeme[o] /\ vOdeme[o] # Yok /\ ~vOdeme[o].iptal
      BY <1>2, <2>5
    <3>2. r.pb = vUcret.pb
      BY <2>2, <3>1 DEF VAktif
    <3>3. /\ vOdeme[o].pb = vUcret.pb /\ vOdeme[o].t \in VTaksit
          /\ vTaksit[vOdeme[o].t] # Yok /\ ~vTaksit[vOdeme[o].t].iptal
      BY <1>5, <2>1, <3>1, VSatirlar
    <3> QED BY <1>6, <1>7, <3>1, <3>2, <3>3
  <2> QED BY <2>3, <2>4, <2>5
<1>12. PlanTutarli'
  BY <1>10, <1>11, VTutarlidir
<1> QED BY <1>2, <1>6, <1>7, <1>8, <1>10, <1>12, VTipler, VYazKorur

LEMMA VTutarYazKorur == ASSUME VInv, NEW a \in VIstek, VTutarYaz(a) PROVE VInv'
<1>1. PICK r : r = vIstek[a]
  OBVIOUS
<1>2. /\ r.adim = "tutar" /\ vIstek' = Bayatlat(vIstek, a, Bitti) /\ vSasan' = (vSasan \/ r.bayat) /\ vOdeme' = vOdeme
      /\ vTaksit' = [vTaksit EXCEPT ![r.t].tutar = r.tutar] /\ vUcret' = vUcret
      /\ vAsan' = (vAsan \/ VTaksitToplami(vTaksit') > vUcret.toplam)
  BY <1>1 DEF VTutarYaz, VSonuc, VAsilir
<1>3. r \in VTutarKaydi /\ r \notin {Bos, Bitti}
  BY <1>1, <1>2, VKayitAlani DEF VInv
<1>4. r.t \in VTaksit /\ r.tutar \in Nat /\ r.bayat \in BOOLEAN
  BY <1>3, VekaletPlanVarsayimi DEF VTutarKaydi
<1>5. vUcret # Yok /\ vUcret \in VUcretSatiri
  BY <1>1, <1>3, VTipler
<1>6. vTaksit[r.t] # Yok /\ vTaksit[r.t] \in VTaksitSatiri
  BY <1>1, <1>2, <1>4, VTipler DEF VInv, VAdliVar
<1>7. /\ vTaksit' \in [VTaksit -> VTaksitSatiri \cup {Yok}]
      /\ \A t \in VTaksit : (vTaksit[t] # Yok <=> vTaksit'[t] # Yok)
      /\ \A t \in VTaksit : vTaksit[t] # Yok => vTaksit'[t].iptal = vTaksit[t].iptal /\ vTaksit'[t].pb = vTaksit[t].pb
  <2>1. PICK v : v = [vTaksit[r.t] EXCEPT !.tutar = r.tutar]
    OBVIOUS
  <2>2. v \in VTaksitSatiri /\ v.iptal = vTaksit[r.t].iptal /\ v.pb = vTaksit[r.t].pb
    BY <1>4, <1>6, <2>1 DEF VTaksitSatiri
  <2>3. \A t \in VTaksit : vTaksit'[t] = IF t = r.t THEN v ELSE vTaksit[t]
    BY <1>2, <2>1, VTipler
  <2>4. vTaksit' = [t \in VTaksit |-> vTaksit'[t]]
    BY <1>2, VTipler
  <2> QED BY <1>6, <2>2, <2>3, <2>4, VTipler
<1>8. vSasan' \in BOOLEAN /\ vAsan' \in BOOLEAN
  BY <1>2, <1>4, VTipler
<1>9. ASSUME ~vSasan'
       PROVE  /\ VTaksitToplami(vTaksit') > vUcret'.toplam => vAsan'
              /\ \A t \in VTaksit : vTaksit'[t] # Yok => vTaksit'[t].pb = vUcret'.pb
              /\ \A o \in VOdeme : vOdeme'[o] # Yok /\ ~vOdeme'[o].iptal =>
                   /\ vOdeme'[o].pb = vUcret'.pb /\ vOdeme'[o].t \in VTaksit
                   /\ vTaksit'[vOdeme'[o].t] # Yok /\ ~vTaksit'[vOdeme'[o].t].iptal
  <2>1. ~vSasan
    BY <1>2, <1>9
  <2>2. VTaksitToplami(vTaksit') > vUcret'.toplam => vAsan'
    BY <1>2
  <2> QED BY <1>2, <1>5, <1>7, <2>1, <2>2, VSatirlar
<1>10. PlanTutarli'
  BY <1>8, <1>9, VTutarlidir
<1> QED BY <1>2, <1>5, <1>7, <1>8, <1>10, VTipler, VYazKorur

LEMMA VSilYazKorur == ASSUME VInv, NEW a \in VIstek, VSilYaz(a) PROVE VInv'
<1>1. PICK r : r = vIstek[a]
  OBVIOUS
<1>2. /\ r.adim = "sil" /\ vIstek' = Bayatlat(vIstek, a, Bitti) /\ vSasan' = (vSasan \/ r.bayat) /\ vOdeme' = vOdeme
      /\ vTaksit' = [vTaksit EXCEPT ![r.t].iptal = TRUE] /\ vUcret' = vUcret /\ vAsan' = vAsan
  BY <1>1 DEF VSilYaz, VSonuc
<1>3. r \in VSilKaydi /\ r \notin {Bos, Bitti}
  BY <1>1, <1>2, VKayitAlani DEF VInv
<1>4. r.t \in VTaksit /\ r.bayat \in BOOLEAN
  BY <1>3 DEF VSilKaydi
<1>5. vUcret # Yok /\ vUcret \in VUcretSatiri
  BY <1>1, <1>3, VTipler
<1>6. vTaksit[r.t] # Yok /\ vTaksit[r.t] \in VTaksitSatiri
  BY <1>1, <1>2, <1>4, VTipler DEF VInv, VAdliVar
<1>7. /\ vTaksit' \in [VTaksit -> VTaksitSatiri \cup {Yok}]
      /\ \A t \in VTaksit : (vTaksit[t] # Yok <=> vTaksit'[t] # Yok)
      /\ \A t \in VTaksit : vTaksit[t] # Yok => vTaksit'[t].pb = vTaksit[t].pb
      /\ \A t \in VTaksit : vTaksit[t] # Yok => vTaksit'[t].tutar = vTaksit[t].tutar
      /\ \A t \in VTaksit : t # r.t => vTaksit'[t] = vTaksit[t]
      /\ vTaksit'[r.t].iptal
  <2>1. PICK v : v = [vTaksit[r.t] EXCEPT !.iptal = TRUE]
    OBVIOUS
  <2>2. v \in VTaksitSatiri /\ v.pb = vTaksit[r.t].pb /\ v.tutar = vTaksit[r.t].tutar /\ v.iptal
    BY <1>4, <1>6, <2>1 DEF VTaksitSatiri
  <2>3. \A t \in VTaksit : vTaksit'[t] = IF t = r.t THEN v ELSE vTaksit[t]
    BY <1>2, <2>1, VTipler
  <2>4. vTaksit' = [t \in VTaksit |-> vTaksit'[t]]
    BY <1>2, VTipler
  <2> QED BY <1>4, <1>6, <2>2, <2>3, <2>4, VTipler
<1>8. vSasan' \in BOOLEAN /\ vAsan' \in BOOLEAN
  BY <1>2, <1>4, VTipler
<1>9. /\ VTaksitToplami(vTaksit') <= VTaksitToplami(vTaksit)
      /\ VTaksitToplami(vTaksit) \in Nat /\ VTaksitToplami(vTaksit') \in Nat
  BY <1>4, <1>7, VToplamSonra
<1>10. ASSUME ~vSasan'
       PROVE  /\ VTaksitToplami(vTaksit') > vUcret'.toplam => vAsan'
              /\ \A t \in VTaksit : vTaksit'[t] # Yok => vTaksit'[t].pb = vUcret'.pb
              /\ \A o \in VOdeme : vOdeme'[o] # Yok /\ ~vOdeme'[o].iptal =>
                   /\ vOdeme'[o].pb = vUcret'.pb /\ vOdeme'[o].t \in VTaksit
                   /\ vTaksit'[vOdeme'[o].t] # Yok /\ ~vTaksit'[vOdeme'[o].t].iptal
  <2>1. ~vSasan /\ VDogru(r)
    BY <1>1, <1>2, <1>3, <1>10, VYazanDogru
  <2>2. VTaksitToplami(vTaksit') > vUcret'.toplam => vAsan'
    <3>1. vUcret.toplam \in Nat
      BY <1>5, VekaletPlanVarsayimi DEF VUcretSatiri
    <3>2. VTaksitToplami(vTaksit) > vUcret.toplam => vAsan
      BY <1>5, <2>1, VSatirlar
    <3> QED BY <1>2, <1>9, <3>1, <3>2
  <2>3. \A t \in VTaksit : vTaksit'[t] # Yok => vTaksit'[t].pb = vUcret'.pb
    BY <1>2, <1>5, <1>7, <2>1, VSatirlar
  <2>4. ASSUME NEW o \in VOdeme, vOdeme'[o] # Yok, ~vOdeme'[o].iptal
        PROVE  /\ vOdeme'[o].pb = vUcret'.pb /\ vOdeme'[o].t \in VTaksit
               /\ vTaksit'[vOdeme'[o].t] # Yok /\ ~vTaksit'[vOdeme'[o].t].iptal
    <3>1. vOdeme'[o] = vOdeme[o] /\ vOdeme[o] # Yok /\ ~vOdeme[o].iptal
      BY <1>2, <2>4
    <3>2. vOdeme[o].t # r.t
      BY <1>2, <2>1, <3>1 DEF VDogru, VAktif
    <3>3. /\ vOdeme[o].pb = vUcret.pb /\ vOdeme[o].t \in VTaksit
          /\ vTaksit[vOdeme[o].t] # Yok /\ ~vTaksit[vOdeme[o].t].iptal
      BY <1>5, <2>1, <3>1, VSatirlar
    <3>4. vTaksit'[vOdeme[o].t] = vTaksit[vOdeme[o].t]
      BY <1>7, <3>2, <3>3
    <3> QED BY <1>2, <3>1, <3>3, <3>4
  <2> QED BY <2>2, <2>3, <2>4
<1>11. PlanTutarli'
  BY <1>8, <1>10, VTutarlidir
<1> QED BY <1>2, <1>5, <1>7, <1>8, <1>11, VTipler, VYazKorur

LEMMA VTaksitYazKorur == ASSUME VInv, NEW a \in VIstek, VTaksitYaz(a) PROVE VInv'
<1>1. PICK r : r = vIstek[a]
  OBVIOUS
<1>2. PICK j : j = [t \in VBos |-> Cardinality({u \in VBos : u <= t})]
  OBVIOUS
<1>3. PICK n : n = Cardinality(DOMAIN r.tutarlar)
  OBVIOUS
<1>4. /\ r.adim \in {"numarali", "plan"} /\ vIstek' = Bayatlat(vIstek, a, Bitti) /\ vSasan' = (vSasan \/ r.bayat) /\ vOdeme' = vOdeme
      /\ vUcret' = vUcret /\ vAsan' = (vAsan \/ (r.adim = "numarali" /\ VTaksitToplami(vTaksit') > vUcret.toplam))
  BY <1>1 DEF VTaksitYaz, VSonuc, VAsilir
<1>5. vTaksit' = [t \in VTaksit |-> IF t \in VBos /\ j[t] <= n
                   THEN [tutar |-> r.tutarlar[j[t]], pb |-> r.pb, iptal |-> FALSE, odendi |-> FALSE] ELSE vTaksit[t]]
  <2>1. vTaksit' = [t \in VTaksit |-> IF t \in VBos /\ Cardinality({u \in VBos : u <= t}) <= n
                   THEN [tutar |-> r.tutarlar[Cardinality({u \in VBos : u <= t})], pb |-> r.pb, iptal |-> FALSE, odendi |-> FALSE]
                   ELSE vTaksit[t]]
    BY <1>1, <1>3 DEF VTaksitYaz
  <2>2. \A t \in VBos : j[t] = Cardinality({u \in VBos : u <= t})
    BY <1>2
  <2> QED BY <2>1, <2>2
<1>6. r \in VEkleKaydi /\ r \notin {Bos, Bitti}
  BY <1>1, <1>4, VKayitAlani DEF VInv
<1>7. r.pb \in VPara /\ r.bayat \in BOOLEAN /\ r.tutarlar \in UNION {[1..m -> Nat] : m \in Nat}
  BY <1>6 DEF VEkleKaydi
<1>8. PICK s : s = r.tutarlar
  OBVIOUS
<1>9. n \in Nat /\ s \in [1..n -> Nat]
  <2>1. PICK m \in Nat : s \in [1..m -> Nat]
    BY <1>7, <1>8
  <2>2. Cardinality(1..m) = m
    <3>1. 1 \in Int /\ m \in Int /\ (1 > m <=> m = 0)
      BY <2>1
    <3>2. Cardinality(1..m) = IF 1 > m THEN 0 ELSE m - 1 + 1
      BY <3>1, FS_Interval
    <3> QED BY <2>1, <3>1, <3>2
  <2>3. DOMAIN s = 1..m
    BY <2>1
  <2> QED BY <1>3, <1>8, <2>1, <2>2, <2>3
<1>10. /\ \A t \in VBos : j[t] \in Nat \ {0}
       /\ \A t, u \in VBos : j[t] = j[u] => t = u
  <2>1. PICK S : S = VBos
    OBVIOUS
  <2>2. S \in SUBSET VTaksit
    BY <2>1 DEF VBos
  <2>3. S \in SUBSET Nat /\ IsFiniteSet(S)
    BY <2>2, VekaletPlanVarsayimi, FS_Subset
  <2>4. j = [t \in S |-> Cardinality({u \in S : u <= t})]
    BY <1>2, <2>1
  <2>5. /\ \A t \in S : j[t] \in Nat \ {0}
        /\ \A t, u \in S : j[t] = j[u] => t = u
    BY <2>3, <2>4, SiraTek
  <2> QED BY <2>1, <2>5
<1>11. PICK N : N = {t \in VBos : j[t] <= n}
  OBVIOUS
<1>12. /\ N \in SUBSET VTaksit /\ \A t \in N : vTaksit[t] = Yok /\ j[t] \in 1..n
       /\ \A t, u \in N : j[t] = j[u] => t = u
  BY <1>9, <1>10, <1>11 DEF VBos
<1>13. ASSUME NEW t \in VTaksit
       PROVE  /\ t \in N => /\ vTaksit'[t] \in VTaksitSatiri /\ vTaksit'[t].tutar = s[j[t]] /\ vTaksit'[t].pb = r.pb
                            /\ ~vTaksit'[t].iptal
              /\ t \notin N => vTaksit'[t] = vTaksit[t]
  <2>1. CASE t \in N
    <3>1. vTaksit'[t] = [tutar |-> s[j[t]], pb |-> r.pb, iptal |-> FALSE, odendi |-> FALSE]
      BY <1>5, <1>8, <1>11, <2>1
    <3>2. s[j[t]] \in Nat
      BY <1>9, <1>12, <2>1
    <3> QED BY <1>7, <2>1, <3>1, <3>2 DEF VTaksitSatiri
  <2>2. CASE t \notin N
    BY <1>5, <1>11, <2>2
  <2> QED BY <2>1, <2>2
<1>14. vTaksit' \in [VTaksit -> VTaksitSatiri \cup {Yok}]
  <2>1. vTaksit' = [t \in VTaksit |-> vTaksit'[t]]
    BY <1>5
  <2>2. \A t \in VTaksit : vTaksit'[t] \in VTaksitSatiri \cup {Yok}
    BY <1>13, VTipler
  <2> QED BY <2>1, <2>2
<1>15. \A t \in VTaksit : vTaksit[t] # Yok => vTaksit'[t] = vTaksit[t]
  BY <1>12, <1>13
<1>16. vUcret # Yok /\ vUcret \in VUcretSatiri
  BY <1>1, <1>6, VTipler
<1>17. vSasan' \in BOOLEAN /\ vAsan' \in BOOLEAN
  BY <1>4, <1>7, VTipler
<1>18. /\ VTaksitToplami(vTaksit') <= VTaksitToplami(vTaksit) + VListe(s)
       /\ VTaksitToplami(vTaksit) \in Nat /\ VTaksitToplami(vTaksit') \in Nat /\ VListe(s) \in Nat
  <2>1. PICK x : x = vTaksit
    OBVIOUS
  <2>2. PICK y : y = vTaksit'
    OBVIOUS
  <2>3. (\A t \in VCanlilar(x) : x[t].tutar \in Nat) /\ \A t \in N : t \notin VCanlilar(x)
    BY <1>12, <2>1, VTipler DEF VCanlilar, VTaksitSatiri
  <2>4. \A t : t \in VCanlilar(y) <=> t \in VCanlilar(x) \/ t \in N
    BY <1>12, <1>13, <2>1, <2>2, VTipler DEF VCanlilar
  <2>5. (\A t \in VCanlilar(x) : y[t].tutar = x[t].tutar) /\ \A t \in N : y[t].tutar = s[j[t]]
    BY <1>12, <1>13, <2>1, <2>2 DEF VCanlilar
  <2>6. /\ VTaksitToplami(y) <= VTaksitToplami(x) + VListe(s)
        /\ VTaksitToplami(x) \in Nat /\ VTaksitToplami(y) \in Nat /\ VListe(s) \in Nat
    <3>1. VEklenir(x, y, N, n, s, j)
      BY <1>9, <1>12, <2>3, <2>4, <2>5 DEF VEklenir
    <3> QED BY <3>1, VToplamArtar
  <2> QED BY <2>1, <2>2, <2>6
<1>19. ASSUME ~vSasan'
       PROVE  /\ VTaksitToplami(vTaksit') > vUcret'.toplam => vAsan'
              /\ \A t \in VTaksit : vTaksit'[t] # Yok => vTaksit'[t].pb = vUcret'.pb
              /\ \A o \in VOdeme : vOdeme'[o] # Yok /\ ~vOdeme'[o].iptal =>
                   /\ vOdeme'[o].pb = vUcret'.pb /\ vOdeme'[o].t \in VTaksit
                   /\ vTaksit'[vOdeme'[o].t] # Yok /\ ~vTaksit'[vOdeme'[o].t].iptal
  <2>1. ~vSasan /\ VDogru(r)
    BY <1>1, <1>4, <1>6, <1>19, VYazanDogru
  <2>2. VTaksitToplami(vTaksit') > vUcret'.toplam => vAsan'
    <3>1. CASE r.adim = "numarali"
      BY <1>4, <3>1
    <3>2. CASE r.adim = "plan"
      <4>1. VTaksitToplami(vTaksit) + VListe(s) <= vUcret.toplam
        BY <1>8, <2>1, <3>2 DEF VDogru
      <4>2. vUcret.toplam \in Nat
        BY <1>16, VekaletPlanVarsayimi DEF VUcretSatiri
      <4>3. ~(VTaksitToplami(vTaksit') > vUcret.toplam)
        BY <1>18, <4>1, <4>2
      <4> QED BY <1>4, <4>3
    <3> QED BY <1>4, <3>1, <3>2
  <2>3. \A t \in VTaksit : vTaksit'[t] # Yok => vTaksit'[t].pb = vUcret'.pb
    <3>1. r.pb = vUcret.pb
      BY <1>4, <2>1 DEF VDogru
    <3> QED BY <1>4, <1>13, <1>16, <2>1, <3>1, VSatirlar
  <2>4. \A o \in VOdeme : vOdeme'[o] # Yok /\ ~vOdeme'[o].iptal =>
                   /\ vOdeme'[o].pb = vUcret'.pb /\ vOdeme'[o].t \in VTaksit
                   /\ vTaksit'[vOdeme'[o].t] # Yok /\ ~vTaksit'[vOdeme'[o].t].iptal
    BY <1>4, <1>15, <1>16, <2>1, VSatirlar
  <2> QED BY <2>2, <2>3, <2>4
<1>20. PlanTutarli'
  BY <1>17, <1>19, VTutarlidir
<1> QED BY <1>4, <1>14, <1>15, <1>16, <1>17, <1>20, VTipler, VYazKorur

(* A payment, and one cancelled, change of its instalment only whether it  *)
(* is paid.                                                                *)
LEMMA VEsleKorur ==
  ASSUME VInv, NEW t \in VTaksit, vTaksit[t] # Yok, VEsle(t)
  PROVE  /\ vTaksit' \in [VTaksit -> VTaksitSatiri \cup {Yok}]
         /\ \A u \in VTaksit : (vTaksit[u] # Yok <=> vTaksit'[u] # Yok)
         /\ \A u \in VTaksit : vTaksit[u] # Yok => /\ vTaksit'[u].iptal = vTaksit[u].iptal /\ vTaksit'[u].pb = vTaksit[u].pb
                                                   /\ vTaksit'[u].tutar = vTaksit[u].tutar
<1>1. PICK b \in BOOLEAN : vTaksit' = [vTaksit EXCEPT ![t].odendi = b]
  <2>1. PICK c : c = (MapThenSumSet(LAMBDA o : vOdeme'[o].tutar, {o \in VOdeme : vOdeme'[o] # Yok /\ vOdeme'[o].t = t /\ ~vOdeme'[o].iptal}) >= vTaksit[t].tutar)
    OBVIOUS
  <2>2. c \in BOOLEAN
    BY <2>1
  <2>3. vTaksit' = [vTaksit EXCEPT ![t].odendi = IF vTaksit[t].iptal THEN vTaksit[t].odendi ELSE c]
    BY <2>1 DEF VEsle
  <2>4. vTaksit[t].odendi \in BOOLEAN
    BY VTipler DEF VTaksitSatiri
  <2> QED BY <2>2, <2>3, <2>4
<1>2. PICK v : v = [vTaksit[t] EXCEPT !.odendi = b]
  OBVIOUS
<1>3. /\ v \in VTaksitSatiri /\ v.iptal = vTaksit[t].iptal /\ v.pb = vTaksit[t].pb /\ v.tutar = vTaksit[t].tutar
  BY <1>1, <1>2, VTipler DEF VTaksitSatiri
<1>4. \A u \in VTaksit : vTaksit'[u] = IF u = t THEN v ELSE vTaksit[u]
  BY <1>1, <1>2, VTipler
<1>5. vTaksit' = [u \in VTaksit |-> vTaksit'[u]]
  BY <1>1, VTipler
<1> QED BY <1>3, <1>4, <1>5, VTipler

(* A write under a lock, with nothing read before it.                      *)
LEMMA VKilitliKorur ==
  ASSUME VInv, NEW u \in VTaksit, vTaksit[u] # Yok, VEsle(u),
         vIstek' = Bayatlat(vIstek, Yok, Bos), UNCHANGED <<vUcret, vAsan, vSasan>>,
         vOdeme' \in [VOdeme -> VOdemeSatiri \cup {Yok}],
         \A o \in VOdeme : vOdeme'[o] = vOdeme[o] \/ vTaksit[vOdeme'[o].t] # Yok,
         ~vSasan => \A o \in VOdeme : vOdeme'[o] # Yok /\ ~vOdeme'[o].iptal =>
                      /\ vOdeme'[o].pb = vUcret.pb /\ vOdeme'[o].t \in VTaksit
                      /\ vTaksit[vOdeme'[o].t] # Yok /\ ~vTaksit[vOdeme'[o].t].iptal
  PROVE  VInv'
<1>1. /\ vTaksit' \in [VTaksit -> VTaksitSatiri \cup {Yok}]
      /\ \A t \in VTaksit : (vTaksit[t] # Yok <=> vTaksit'[t] # Yok)
      /\ \A t \in VTaksit : vTaksit[t] # Yok => /\ vTaksit'[t].iptal = vTaksit[t].iptal /\ vTaksit'[t].pb = vTaksit[t].pb
                                                /\ vTaksit'[t].tutar = vTaksit[t].tutar
  BY VEsleKorur
<1>2. vUcret # Yok /\ vUcret \in VUcretSatiri
  BY VTipler
<1>3. /\ VTaksitToplami(vTaksit') <= VTaksitToplami(vTaksit)
      /\ VTaksitToplami(vTaksit) \in Nat /\ VTaksitToplami(vTaksit') \in Nat
  BY <1>1, VToplamSonra
<1>4. ASSUME ~vSasan'
      PROVE  /\ VTaksitToplami(vTaksit') > vUcret'.toplam => vAsan'
             /\ \A t \in VTaksit : vTaksit'[t] # Yok => vTaksit'[t].pb = vUcret'.pb
             /\ \A o \in VOdeme : vOdeme'[o] # Yok /\ ~vOdeme'[o].iptal =>
                  /\ vOdeme'[o].pb = vUcret'.pb /\ vOdeme'[o].t \in VTaksit
                  /\ vTaksit'[vOdeme'[o].t] # Yok /\ ~vTaksit'[vOdeme'[o].t].iptal
  <2>1. ~vSasan
    BY <1>4
  <2>2. VTaksitToplami(vTaksit') > vUcret'.toplam => vAsan'
    <3>1. vUcret.toplam \in Nat
      BY <1>2, VekaletPlanVarsayimi DEF VUcretSatiri
    <3>2. VTaksitToplami(vTaksit) > vUcret.toplam => vAsan
      BY <1>2, <2>1, VSatirlar
    <3>3. VTaksitToplami(vTaksit') > vUcret.toplam => VTaksitToplami(vTaksit) > vUcret.toplam
      BY <1>3, <3>1
    <3> QED BY <3>2, <3>3
  <2>3. \A t \in VTaksit : vTaksit'[t] # Yok => vTaksit'[t].pb = vUcret'.pb
    BY <1>1, <1>2, <2>1, VSatirlar
  <2> QED BY <1>1, <2>1, <2>2, <2>3
<1>5. PlanTutarli'
  <2>1. vSasan' \in BOOLEAN
    BY VTipler
  <2> QED BY <1>4, <2>1, VTutarlidir
<1>6. Bos \in {Bos, Bitti} /\ vUcret' \in VUcretSatiri /\ vAsan' \in BOOLEAN /\ vSasan' \in BOOLEAN
  BY <1>2, VTipler
<1> QED BY <1>1, <1>5, <1>6, VYazKorur

LEMMA VOdeKorur ==
  ASSUME VInv, NEW o \in VOdeme, NEW t \in VTaksit, NEW x \in VTutar, VOde(o, t, x)
  PROVE  VInv'
<1>1. /\ vTaksit[t] # Yok /\ ~vTaksit[t].iptal /\ VEsle(t)
      /\ vOdeme' = [vOdeme EXCEPT ![o] = [t |-> t, tutar |-> x, pb |-> vTaksit[t].pb, iptal |-> FALSE]]
      /\ vIstek' = Bayatlat(vIstek, Yok, Bos) /\ UNCHANGED <<vUcret, vAsan, vSasan>>
  BY DEF VOde, VCanli
<1>2. PICK v : v = [t |-> t, tutar |-> x, pb |-> vTaksit[t].pb, iptal |-> FALSE]
  OBVIOUS
<1>3. v \in VOdemeSatiri /\ v.t = t /\ v.pb = vTaksit[t].pb
  <2>1. vTaksit[t].pb \in VPara
    BY <1>1, VTipler DEF VTaksitSatiri
  <2> QED BY <1>2, <2>1 DEF VOdemeSatiri
<1>4. /\ vOdeme' \in [VOdeme -> VOdemeSatiri \cup {Yok}]
      /\ \A p \in VOdeme : vOdeme'[p] = IF p = o THEN v ELSE vOdeme[p]
  BY <1>1, <1>2, <1>3, VTipler
<1>5. ASSUME ~vSasan, NEW p \in VOdeme, vOdeme'[p] # Yok, ~vOdeme'[p].iptal
      PROVE  /\ vOdeme'[p].pb = vUcret.pb /\ vOdeme'[p].t \in VTaksit
             /\ vTaksit[vOdeme'[p].t] # Yok /\ ~vTaksit[vOdeme'[p].t].iptal
  <2>1. vUcret # Yok
    BY <1>1, VTipler
  <2>2. CASE p = o
    BY <1>1, <1>3, <1>4, <1>5, <2>1, <2>2, VSatirlar
  <2>3. CASE p # o
    BY <1>4, <1>5, <2>1, <2>3, VSatirlar
  <2> QED BY <2>2, <2>3
<1>6. \A p \in VOdeme : vOdeme'[p] = vOdeme[p] \/ vTaksit[vOdeme'[p].t] # Yok
  BY <1>1, <1>3, <1>4
<1> QED BY <1>1, <1>4, <1>5, <1>6, VKilitliKorur

LEMMA VOdemeIptalKorur == ASSUME VInv, NEW o \in VOdeme, VOdemeIptal(o) PROVE VInv'
<1>1. /\ vOdeme[o] # Yok /\ vOdeme' = [vOdeme EXCEPT ![o].iptal = TRUE] /\ VEsle(vOdeme[o].t)
      /\ vIstek' = Bayatlat(vIstek, Yok, Bos) /\ UNCHANGED <<vUcret, vAsan, vSasan>>
  BY DEF VOdemeIptal, VAktif
<1>2. PICK v : v = [vOdeme[o] EXCEPT !.iptal = TRUE]
  OBVIOUS
<1>3. v \in VOdemeSatiri /\ v.iptal /\ v.t = vOdeme[o].t /\ vOdeme[o].t \in VTaksit
  BY <1>1, <1>2, VTipler DEF VOdemeSatiri
<1>4. /\ vOdeme' \in [VOdeme -> VOdemeSatiri \cup {Yok}]
      /\ \A p \in VOdeme : vOdeme'[p] = IF p = o THEN v ELSE vOdeme[p]
  BY <1>1, <1>2, <1>3, VTipler
<1>5. vTaksit[vOdeme[o].t] # Yok
  BY <1>1 DEF VInv, VOdemeBagli
<1>6. vUcret # Yok
  BY <1>3, <1>5, VTipler
<1>7. ~vSasan => \A p \in VOdeme : vOdeme'[p] # Yok /\ ~vOdeme'[p].iptal =>
                      /\ vOdeme'[p].pb = vUcret.pb /\ vOdeme'[p].t \in VTaksit
                      /\ vTaksit[vOdeme'[p].t] # Yok /\ ~vTaksit[vOdeme'[p].t].iptal
  BY <1>3, <1>4, <1>6, VSatirlar
<1>8. \A p \in VOdeme : vOdeme'[p] = vOdeme[p] \/ vTaksit[vOdeme'[p].t] # Yok
  BY <1>3, <1>4, <1>5
<1> QED BY <1>1, <1>3, <1>4, <1>5, <1>7, <1>8, VKilitliKorur

LEMMA VBosAdim == ASSUME VInv, UNCHANGED planVars PROVE VInv'
<1>1. vUcret' = vUcret /\ vTaksit' = vTaksit /\ vOdeme' = vOdeme /\ vIstek' = vIstek /\ vAsan' = vAsan /\ vSasan' = vSasan
  BY DEF planVars
<1>2. \A r : VDogru(r)' <=> VDogru(r)
  <2> SUFFICES ASSUME NEW r PROVE VDogru(r)' <=> VDogru(r)
    OBVIOUS
  <2> QED BY <1>1 DEF VDogru, VAktif
<1>3. VOkunanDogru'
  <2> SUFFICES ASSUME NEW b \in VIstek, vIstek'[b] \notin {Bos, Bitti}, ~vIstek'[b].bayat
               PROVE  VDogru(vIstek[b])'
    BY DEF VOkunanDogru
  <2>1. PICK r : r = vIstek'[b]
    OBVIOUS
  <2>2. VDogru(r)
    BY <1>1, <2>1 DEF VInv, VOkunanDogru
  <2>3. VDogru(r)'
    BY <1>2, <2>2
  <2> QED BY <2>1, <2>3 DEF VDogru, VAktif
<1>4. PlanTipi' /\ UcretsizBos' /\ VAdliVar' /\ VOdemeBagli' /\ PlanTutarli'
  BY <1>1 DEF VInv, PlanTipi, UcretsizBos, VAdliVar, VOdemeBagli, PlanTutarli, VAsilir, VAktif, VCanli
<1> QED BY <1>3, <1>4 DEF VInv

(* Every step of a fee's plan preserves its invariant.                     *)
LEMMA PlanKorunur == ASSUME VInv, [PlanNext]_planVars PROVE VInv'
<1>1. ASSUME VUcretAc PROVE VInv'
  BY <1>1, VUcretAcKorur
<1>2. ASSUME NEW a \in VIstek,
             \/ VUcretOku(a) \/ VUcretYaz(a) \/ VNumaraliOku(a) \/ VPlanOku(a) \/ VTekOku(a)
             \/ VTaksitYaz(a) \/ VTutarOku(a) \/ VTutarYaz(a) \/ VSilOku(a) \/ VSilYaz(a)
      PROVE  VInv'
  <2>1. CASE VUcretOku(a)
    BY <2>1, VUcretOkuKorur
  <2>2. CASE VUcretYaz(a)
    BY <2>2, VUcretYazKorur
  <2>3. CASE VNumaraliOku(a)
    BY <2>3, VNumaraliOkuKorur
  <2>4. CASE VPlanOku(a)
    BY <2>4, VPlanOkuKorur
  <2>5. CASE VTekOku(a)
    BY <2>5, VTekOkuKorur
  <2>6. CASE VTaksitYaz(a)
    BY <2>6, VTaksitYazKorur
  <2>7. CASE VTutarOku(a)
    BY <2>7, VTutarOkuKorur
  <2>8. CASE VTutarYaz(a)
    BY <2>8, VTutarYazKorur
  <2>9. CASE VSilOku(a)
    BY <2>9, VSilOkuKorur
  <2>10. CASE VSilYaz(a)
    BY <2>10, VSilYazKorur
  <2> QED BY <1>2, <2>1, <2>2, <2>3, <2>4, <2>5, <2>6, <2>7, <2>8, <2>9, <2>10
<1>3. ASSUME NEW o \in VOdeme, NEW t \in VTaksit, NEW x \in VTutar, VOde(o, t, x) PROVE VInv'
  BY <1>3, VOdeKorur
<1>4. ASSUME NEW o \in VOdeme, VOdemeIptal(o) PROVE VInv'
  BY <1>4, VOdemeIptalKorur
<1>5. ASSUME UNCHANGED planVars PROVE VInv'
  BY <1>5, VBosAdim
<1> QED BY <1>1, <1>2, <1>3, <1>4, <1>5 DEF PlanNext

\* The inductive invariant of a fee's plan (vekalet.service.ts): what a request
\* that nobody overtook has read is still so, a list of new instalments that it
\* compared with the fee still fits beside those there are, and the rows agree.
THEOREM PlanDegismez == PlanSpec => []VInv
<1>1. PlanInit => VInv
  BY VBaslangic
<1>2. VInv /\ [PlanNext]_planVars => VInv'
  BY PlanKorunur
<1> QED BY <1>1, <1>2, PTL DEF PlanSpec

\* For any number of requests, instalments and payments: without a write on
\* stale reads, the instalments add up to more than the fee only where nobody
\* compares them with it, and the fee, its instalments and the active payments
\* on them have one currency (vekalet.service.ts:480, :653, :726).
THEOREM PlanTutarlidir == PlanSpec => []PlanTutarli
<1>1. VInv => PlanTutarli
  BY DEF VInv
<1> QED BY <1>1, PlanDegismez, PTL

\* The rows of a fee's plan are always rows of their tables (vekalet.service.ts).
THEOREM PlanTipiKorunur == PlanSpec => []PlanTypeOK
<1>1. VInv => PlanTypeOK
  BY DEF VInv, PlanTipi, PlanTypeOK
<1> QED BY <1>1, PlanDegismez, PTL

-----------------------------------------------------------------------------
(* Enforcement collections *)

\* What a request keeps.
IYazacak == [adim : {"ode", "tutar"}, t : INo, x : IToplam, bayat : BOOLEAN]
ISilecek == [adim : {"sil"}, t : INo, bayat : BOOLEAN]

IcraTipi ==
  /\ icra \in IcraSatiri \cup {Yok}
  /\ icraTaksit \in [INo -> Int \cup {Yok}]
  /\ icraOdeme \in [IOdeme -> IOdemeSatiri \cup {Yok}]
  /\ iIstek \in [IIstek -> IYazacak \cup ISilecek \cup {Bos, Bitti}]
  /\ iSasan \subseteq INo

\* Before the claim there is nothing.
IcrasizBos ==
  icra = Yok => /\ \A t \in INo : icraTaksit[t] = Yok
                /\ \A o \in IOdeme : icraOdeme[o] = Yok
                /\ \A a \in IIstek : iIstek[a] = Bos

\* What was paid on t, cancelled payments included.
IOdenen(t) == Topla(ITutarlar, ITaksitte(t))

\* Cancelled payments included, an instalment holds what was paid on it.
ITaksitSigar ==
  \A t \in INo \ iSasan : icraTaksit[t] # Yok /\ IOdenen(t) > 0 => IOdenen(t) <= icraTaksit[t]

\* A payment is on an instalment that is there, on none, or was cut off.
IOdemeBagli ==
  \A o \in IOdemeler :
    /\ icraOdeme[o].t \in INo => icraTaksit[icraOdeme[o].t] # Yok
    /\ icraOdeme[o].t = Yok => iSasan # {}
    /\ icraOdeme[o].iptalde => iSasan # {}

\* What was read for r is still so.
IDogru(r) ==
  /\ icra # Yok /\ icraTaksit[r.t] # Yok
  /\ r.adim = "ode" => ~icra.iptal /\ r.x <= icraTaksit[r.t] - IOdenen(r.t)
  /\ r.adim = "tutar" => (IOdenen(r.t) > 0 => r.x >= IOdenen(r.t))
  /\ r.adim = "sil" => IOdenen(r.t) = 0

IOkunanDogru == \A a \in IIstek : iIstek[a] \notin {Bos, Bitti} /\ ~iIstek[a].bayat => IDogru(iIstek[a])

\* A plan nobody edited divides the claim, and the advance is all that was
\* paid outside it.
IPlanDogru ==
  icra # Yok /\ ~icra.elle /\ IPlan # {} =>
    /\ Topla(icraTaksit, IPlan) = icra.toplam - icra.pesinat
    /\ Topla(ITutarlar, ITaksitte(0)) <= icra.pesinat

IcraInv == IcraTipi /\ IcrasizBos /\ ITaksitSigar /\ IOdemeBagli /\ IOkunanDogru /\ IPlanDogru

(* What the payments are.                                                  *)
LEMMA IOdemelerdir ==
  ASSUME IcraTipi
  PROVE  /\ IsFiniteSet(IOdemeler) /\ \A S \in SUBSET IOdemeler : IsFiniteSet(S)
         /\ \A o \in IOdemeler : icraOdeme[o] \in IOdemeSatiri /\ ITutarlar[o] \in Nat \ {0} /\ ITutarlar[o] = icraOdeme[o].tutar
         /\ \A t : ITaksitte(t) \in SUBSET IOdemeler
         /\ ISayilan \in SUBSET IOdemeler
<1>1. IOdemeler \in SUBSET IOdeme
  BY DEF IOdemeler
<1>2. IsFiniteSet(IOdemeler)
  BY <1>1, IcraVarsayimi, FS_Subset
<1>3. \A S \in SUBSET IOdemeler : IsFiniteSet(S)
  BY <1>2, FS_Subset
<1>4. \A o \in IOdemeler : icraOdeme[o] \in IOdemeSatiri
  BY DEF IOdemeler, IcraTipi
<1>5. \A o \in IOdemeler : icraOdeme[o].tutar \in IToplam
  BY <1>4 DEF IOdemeSatiri
<1>6. \A o \in IOdemeler : ITutarlar[o] \in Nat \ {0} /\ ITutarlar[o] = icraOdeme[o].tutar
  BY <1>5, IcraVarsayimi DEF ITutarlar
<1> QED BY <1>2, <1>3, <1>4, <1>6 DEF ITaksitte, ISayilan

(* Their sums, as sums.                                                    *)
LEMMA IToplamlar ==
  ASSUME IcraTipi
  PROVE  /\ \A S \in SUBSET IOdemeler : Topla(ITutarlar, S) \in Nat
         /\ \A S \in SUBSET IOdemeler : (Topla(ITutarlar, S) = 0 => S = {})
         /\ \A S \in SUBSET IOdemeler, T \in SUBSET IOdemeler : T \subseteq S => Topla(ITutarlar, T) <= Topla(ITutarlar, S)
<1>1. /\ \A S \in SUBSET IOdemeler : IsFiniteSet(S)
      /\ \A o \in IOdemeler : ITutarlar[o] \in Nat \ {0}
  BY IOdemelerdir
<1>2. ASSUME NEW S \in SUBSET IOdemeler, NEW T \in SUBSET S
      PROVE  Topla(ITutarlar, S) \in Nat /\ Topla(ITutarlar, T) \in Nat /\ Topla(ITutarlar, T) <= Topla(ITutarlar, S)
  <2>1. IsFiniteSet(S) /\ \A o \in S : ITutarlar[o] \in Nat
    BY <1>1
  <2> QED BY <2>1, ToplaArtar
<1>3. ASSUME NEW S \in SUBSET IOdemeler, Topla(ITutarlar, S) = 0, S # {} PROVE FALSE
  <2>1. PICK o : o \in S
    BY <1>3
  <2>2. IsFiniteSet(S) /\ (\A p \in S : ITutarlar[p] \in Int) /\ ITutarlar[o] \in Nat \ {0}
    BY <1>1, <2>1
  <2>3. Topla(ITutarlar, S) = ITutarlar[o] + Topla(ITutarlar, S \ {o})
    BY <2>1, <2>2, ToplaCikar
  <2>4. Topla(ITutarlar, S \ {o}) \in Nat
    BY <1>2
  <2> QED BY <1>3, <2>2, <2>3, <2>4
<1> QED BY <1>2, <1>3

(* The model's sums are these.                                             *)
LEMMA IToplaDir ==
  /\ \A S : ITopla(S) = Topla(ITutarlar, S)
  /\ \A t : TaksitOdenen(t) = IOdenen(t)
  /\ \A t : TaksitGecerli(t) = Topla(ITutarlar, ITaksitte(t) \cap ISayilan)
  /\ AlacakOdenen = Topla(ITutarlar, ISayilan)
BY DEF ITopla, Topla, IOdenen, TaksitOdenen, TaksitGecerli, AlacakOdenen

(* What a request is.                                                      *)
LEMMA IIstektir ==
  ASSUME IcraTipi, NEW a \in IIstek, iIstek[a] \notin {Bos, Bitti}
  PROVE  /\ iIstek[a] \in IYazacak \cup ISilecek
         /\ iIstek[a].t \in INo /\ iIstek[a].bayat \in BOOLEAN
         /\ iIstek[a].adim \in {"ode", "tutar", "sil"}
         /\ iIstek[a].adim \in {"ode", "tutar"} => iIstek[a].x \in IToplam
         /\ [iIstek[a] EXCEPT !.bayat = TRUE] \in IYazacak \cup ISilecek
<1>1. iIstek[a] \in IYazacak \cup ISilecek
  BY DEF IcraTipi
<1>2. CASE iIstek[a] \in IYazacak
  BY <1>1, <1>2 DEF IYazacak
<1>3. CASE iIstek[a] \in ISilecek
  BY <1>1, <1>3 DEF ISilecek
<1> QED BY <1>1, <1>2, <1>3

LEMMA ITutarSayi == \A x \in IToplam : x \in Nat /\ x \in Int /\ x > 0
BY IcraVarsayimi

LEMMA IBosBitti == Bos.adim = "bos" /\ Bitti.adim = "bitti"
BY DEF Bos, Bitti

(* A write leaves nobody with a read that counts.                          *)
LEMMA IBayatlatir ==
  ASSUME IcraTipi, NEW a, NEW k \in {Bos, Bitti}, iIstek' = Bayatlat(iIstek, a, k)
  PROVE  /\ iIstek' \in [IIstek -> IYazacak \cup ISilecek \cup {Bos, Bitti}]
         /\ IOkunanDogru'
<1>1. DOMAIN iIstek = IIstek
  BY DEF IcraTipi
<1>2. iIstek' = [b \in IIstek |-> IF b = a THEN k
                   ELSE IF iIstek[b] \in {Bos, Bitti} THEN iIstek[b] ELSE [iIstek[b] EXCEPT !.bayat = TRUE]]
  BY <1>1 DEF Bayatlat
<1>3. ASSUME NEW b \in IIstek
      PROVE  iIstek'[b] \in IYazacak \cup ISilecek \cup {Bos, Bitti} /\ (iIstek'[b] \in {Bos, Bitti} \/ iIstek'[b].bayat)
  <2>1. CASE b = a \/ iIstek[b] \in {Bos, Bitti}
    BY <1>2, <2>1
  <2>2. CASE ~(b = a \/ iIstek[b] \in {Bos, Bitti})
    <3>1. iIstek'[b] = [iIstek[b] EXCEPT !.bayat = TRUE]
      BY <1>2, <2>2
    <3>2. [iIstek[b] EXCEPT !.bayat = TRUE] \in IYazacak \cup ISilecek
      BY <2>2, IIstektir
    <3>3. [iIstek[b] EXCEPT !.bayat = TRUE].bayat
      <4>1. iIstek[b] \in IYazacak \cup ISilecek
        BY <2>2, IIstektir
      <4> QED BY <4>1 DEF IYazacak, ISilecek
    <3> QED BY <3>1, <3>2, <3>3
  <2> QED BY <2>1, <2>2
<1> QED BY <1>2, <1>3 DEF IOkunanDogru

(* A new payment adds its amount where it belongs.                         *)
LEMMA IYeniOdeme ==
  ASSUME IcraTipi, NEW t \in INo \cup {0}, NEW x \in IToplam, YeniOdeme(t, x)
  PROVE  /\ icraOdeme' \in [IOdeme -> IOdemeSatiri \cup {Yok}]
         /\ \A u : u # t => Topla(ITutarlar', ITaksitte(u)') = Topla(ITutarlar, ITaksitte(u))
         /\ Topla(ITutarlar', ITaksitte(t)') = x + Topla(ITutarlar, ITaksitte(t))
         /\ \E o \in IOdeme : /\ icraOdeme'[o] = OdemeKaydi(t, x)
                              /\ \A p \in IOdemeler' : p = o \/ (p \in IOdemeler /\ icraOdeme'[p] = icraOdeme[p])
<1>1. PICK o \in IOdeme : icraOdeme[o] = Yok /\ icraOdeme' = [icraOdeme EXCEPT ![o] = OdemeKaydi(t, x)]
  BY DEF YeniOdeme, Ilk
<1>2. OdemeKaydi(t, x) \in IOdemeSatiri /\ OdemeKaydi(t, x).t = t /\ OdemeKaydi(t, x).tutar = x /\ OdemeKaydi(t, x) # Yok
  <2>1. (icra # Yok /\ icra.iptal) \in BOOLEAN
    OBVIOUS
  <2>2. OdemeKaydi(t, x) \in IOdemeSatiri
    BY <2>1 DEF OdemeKaydi, IOdemeSatiri
  <2> QED BY <2>2, IcraVarsayimi DEF OdemeKaydi
<1>3. icraOdeme \in [IOdeme -> IOdemeSatiri \cup {Yok}]
  BY DEF IcraTipi
<1>4. icraOdeme' \in [IOdeme -> IOdemeSatiri \cup {Yok}] /\ icraOdeme'[o] = OdemeKaydi(t, x)
      /\ \A p \in IOdeme \ {o} : icraOdeme'[p] = icraOdeme[p]
  BY <1>1, <1>2, <1>3
<1>5. IOdemeler' = IOdemeler \cup {o} /\ o \notin IOdemeler /\ IOdemeler \subseteq IOdeme
  BY <1>1, <1>2, <1>4 DEF IOdemeler
<1>6. \A u : u # t => ITaksitte(u)' = ITaksitte(u)
  BY <1>2, <1>4, <1>5 DEF ITaksitte
<1>7. ITaksitte(t)' = ITaksitte(t) \cup {o}
  BY <1>2, <1>4, <1>5 DEF ITaksitte
<1>8. (\A p \in IOdemeler : ITutarlar'[p] = ITutarlar[p]) /\ ITutarlar'[o] = x
  BY <1>2, <1>4, <1>5 DEF ITutarlar
<1>9. \A S \in SUBSET IOdemeler : Topla(ITutarlar', S) = Topla(ITutarlar, S)
  <2> SUFFICES ASSUME NEW S \in SUBSET IOdemeler PROVE Topla(ITutarlar', S) = Topla(ITutarlar, S)
    OBVIOUS
  <2>1. IsFiniteSet(S)
    BY IOdemelerdir
  <2>2. \A p \in S : ITutarlar'[p] = ITutarlar[p]
    BY <1>8
  <2> QED BY <2>1, <2>2, ToplaEsit
<1>10. \A u : ITaksitte(u) \in SUBSET IOdemeler
  BY DEF ITaksitte
<1>11. Topla(ITutarlar', ITaksitte(t) \cup {o}) = ITutarlar'[o] + Topla(ITutarlar', ITaksitte(t))
  <2>1. IsFiniteSet(ITaksitte(t)) /\ o \notin ITaksitte(t)
    BY <1>5, <1>10, IOdemelerdir
  <2>2. \A p \in ITaksitte(t) \cup {o} : ITutarlar'[p] \in Int
    BY <1>8, <1>10, IOdemelerdir, IcraVarsayimi
  <2> QED BY <2>1, <2>2, ToplaEkle
<1>12. \A u : u # t => Topla(ITutarlar', ITaksitte(u)') = Topla(ITutarlar, ITaksitte(u))
  BY <1>6, <1>9, <1>10
<1>13. Topla(ITutarlar', ITaksitte(t)') = x + Topla(ITutarlar, ITaksitte(t))
  BY <1>7, <1>8, <1>9, <1>10, <1>11
<1>14. \A p \in IOdemeler' : p = o \/ (p \in IOdemeler /\ icraOdeme'[p] = icraOdeme[p])
  BY <1>4, <1>5
<1> QED BY <1>4, <1>12, <1>13, <1>14
(* The shares add up to what was divided, whatever they round to.          *)
LEMMA IBolunur ==
  ASSUME NEW x \in Int, NEW n \in 1..IAdet
  PROVE  /\ IBol(x, n) \in [INo -> Int \cup {Yok}]
         /\ {t \in INo : IBol(x, n)[t] # Yok} = 1..n
         /\ Topla(IBol(x, n), 1..n) = x
<1> DEFINE f == IBol(x, n)  y == Yuvarla(x, n)
<1>1. n \in Nat \ {0} /\ IAdet \in Nat /\ 1..n \subseteq INo /\ Yok \notin Int
  BY IcraVarsayimi DEF INo
<1>2. y \in Int
  <2>1. 2 * n \in Nat \ {0} /\ 2 * x + n \in Int
    BY <1>1
  <2>2. ASSUME NEW a \in Int, NEW b \in Nat \ {0} PROVE a \div b \in Int
    BY <2>2
  <2> QED BY <2>1, <2>2 DEF Yuvarla
<1>3. x - (n - 1) * y \in Int
  <2>1. (n - 1) * y \in Int
    BY <1>1, <1>2
  <2> QED BY <1>2, <2>1
<1>4. f = [i \in INo |-> IF i < n THEN y ELSE IF i = n THEN x - (n - 1) * y ELSE Yok]
  BY DEF IBol
<1> HIDE DEF f, y
<1>5. f \in [INo -> Int \cup {Yok}]
  BY <1>2, <1>3, <1>4
<1>6. \A t \in INo : t \in Int /\ t >= 1
  BY DEF INo
<1>7. {t \in INo : f[t] # Yok} = 1..n
  BY <1>1, <1>2, <1>3, <1>4, <1>6
<1>8. 1..n = (1..(n - 1)) \cup {n} /\ n \notin 1..(n - 1)
  BY <1>1
<1>9. IsFiniteSet(1..(n - 1)) /\ Cardinality(1..(n - 1)) = n - 1
  <2>1. 1 \in Int /\ n - 1 \in Int
    BY <1>1
  <2>2. IsFiniteSet(1..(n - 1)) /\ Cardinality(1..(n - 1)) = IF 1 > n - 1 THEN 0 ELSE (n - 1) - 1 + 1
    BY <2>1, FS_Interval
  <2> QED BY <1>1, <2>2
<1>10. (\A i \in 1..(n - 1) : f[i] = y) /\ f[n] = x - (n - 1) * y
  BY <1>1, <1>4
<1>11. Topla(f, 1..(n - 1)) = y * (n - 1)
  BY <1>2, <1>9, <1>10, ToplaSabit
<1>12. Topla(f, (1..(n - 1)) \cup {n}) = f[n] + Topla(f, 1..(n - 1))
  <2>1. \A i \in (1..(n - 1)) \cup {n} : f[i] \in Int
    BY <1>2, <1>3, <1>10
  <2> QED BY <1>8, <1>9, <2>1, ToplaEkle
<1>13. (n - 1) * y = y * (n - 1) /\ y * (n - 1) \in Int
  BY <1>1, <1>2
<1>14. Topla(f, 1..n) = x
  <2>1. Topla(f, 1..n) = (x - (n - 1) * y) + y * (n - 1)
    BY <1>8, <1>10, <1>11, <1>12
  <2>2. PICK z \in Int : z = y * (n - 1)
    BY <1>13
  <2>3. Topla(f, 1..n) = (x - z) + z
    BY <1>13, <2>1, <2>2
  <2> QED BY <2>3
<1> QED BY <1>5, <1>7, <1>14 DEF f

LEMMA IcraBaslangic == IcraInit => IcraInv
<1> SUFFICES ASSUME IcraInit PROVE IcraInv
  OBVIOUS
<1>1. IcraTipi
  BY DEF IcraInit, IcraTipi
<1>2. IOdemeler = {} /\ IPlan = {}
  BY DEF IcraInit, IOdemeler, IPlan
<1>3. IcrasizBos /\ IOdemeBagli /\ IOkunanDogru /\ IPlanDogru /\ ITaksitSigar
  BY <1>2 DEF IcraInit, IcrasizBos, IOdemeBagli, IOkunanDogru, IPlanDogru, ITaksitSigar
<1> QED BY <1>1, <1>3 DEF IcraInv

(* A claim that is opened.                                                 *)
LEMMA IcraAcilir ==
  ASSUME IcraInv, IcraPesin \/ IcraTaksitli
  PROVE  IcraInv'
<1>0. IcraTipi /\ icra = Yok /\ (\A t \in INo : icraTaksit[t] = Yok) /\ IOdemeler = {} /\ (\A a \in IIstek : iIstek[a] = Bos)
      /\ UNCHANGED <<iIstek, iSasan>>
  BY DEF IcraInv, IcrasizBos, IcraPesin, IcraTaksitli, IcraYeni, IOdemeler
<1>1. PICK x \in IToplam, p \in {0} \cup IToplam : IcraYeni(x, p) /\ p <= x
  <2>1. CASE IcraPesin
    <3>1. PICK x \in IToplam : IcraYeni(x, 0)
      BY <2>1 DEF IcraPesin
    <3>2. 0 <= x
      BY IcraVarsayimi
    <3> QED BY <3>1, <3>2
  <2>2. CASE IcraTaksitli
    <3>1. PICK x \in IToplam, p \in {0} \cup IToplam : p < x /\ IcraYeni(x, p)
      BY <2>2 DEF IcraTaksitli
    <3>2. p <= x
      BY <3>1, IcraVarsayimi
    <3> QED BY <3>1, <3>2
  <2> QED BY <2>1, <2>2
<1>2. icra' \in IcraSatiri /\ icra'.toplam = x /\ icra'.pesinat = p /\ ~icra'.elle /\ ~icra'.iptal /\ icra' # Yok
  <2>1. icra' = [toplam |-> x, pesinat |-> p, iptal |-> FALSE, elle |-> FALSE]
    BY <1>1 DEF IcraYeni
  <2>2. icra' \in IcraSatiri
    BY <2>1 DEF IcraSatiri
  <2> QED BY <2>1, <2>2, IcraVarsayimi
<1>3. \A u : Topla(ITutarlar, ITaksitte(u)) = 0
  <2>1. \A u : ITaksitte(u) = {}
    BY <1>0 DEF ITaksitte
  <2> QED BY <2>1, ToplaBos
<1>4. ~(icra # Yok /\ icra.iptal)
  BY <1>0
<1>5. /\ icraOdeme' \in [IOdeme -> IOdemeSatiri \cup {Yok}]
      /\ \A u \in INo : Topla(ITutarlar', ITaksitte(u)') = 0
      /\ \A o \in IOdemeler' : icraOdeme'[o].t = 0 /\ ~icraOdeme'[o].iptalde
      /\ Topla(ITutarlar', ITaksitte(0)') = p \/ IPlan' = {}
  <2>0. 0 \notin INo /\ 0 \in INo \cup {0}
    BY DEF INo
  <2>1. ASSUME NEW y \in IToplam, YeniOdeme(0, y)
        PROVE  /\ icraOdeme' \in [IOdeme -> IOdemeSatiri \cup {Yok}]
               /\ \A u \in INo : Topla(ITutarlar', ITaksitte(u)') = 0
               /\ \A o \in IOdemeler' : icraOdeme'[o].t = 0 /\ ~icraOdeme'[o].iptalde
               /\ Topla(ITutarlar', ITaksitte(0)') = y
    <3>1. /\ icraOdeme' \in [IOdeme -> IOdemeSatiri \cup {Yok}]
          /\ \A u : u # 0 => Topla(ITutarlar', ITaksitte(u)') = Topla(ITutarlar, ITaksitte(u))
          /\ Topla(ITutarlar', ITaksitte(0)') = y + Topla(ITutarlar, ITaksitte(0))
          /\ \E o \in IOdeme : /\ icraOdeme'[o] = OdemeKaydi(0, y)
                               /\ \A q \in IOdemeler' : q = o \/ (q \in IOdemeler /\ icraOdeme'[q] = icraOdeme[q])
      BY <1>0, <2>0, <2>1, IYeniOdeme
    <3>2. OdemeKaydi(0, y).t = 0 /\ ~OdemeKaydi(0, y).iptalde
      BY <1>4 DEF OdemeKaydi
    <3>3. y + 0 = y
      BY IcraVarsayimi
    <3> QED BY <1>0, <1>3, <2>0, <3>1, <3>2, <3>3
  <2>2. CASE IcraPesin
    <3>1. PICK y \in IToplam : YeniOdeme(0, y) /\ UNCHANGED icraTaksit
      BY <2>2 DEF IcraPesin
    <3>2. IPlan' = {}
      BY <1>0, <3>1 DEF IPlan
    <3> QED BY <2>1, <3>1, <3>2
  <2>3. CASE IcraTaksitli
    <3>1. PICK y \in IToplam, q \in {0} \cup IToplam : IcraYeni(y, q) /\ IF q > 0 THEN YeniOdeme(0, q) ELSE UNCHANGED icraOdeme
      BY <2>3 DEF IcraTaksitli
    <3>2. q = p
      BY <1>1, <3>1 DEF IcraYeni
    <3>3. CASE p > 0
      <4>1. p \in IToplam /\ YeniOdeme(0, p)
        BY <3>1, <3>2, <3>3
      <4> QED BY <2>1, <4>1
    <3>4. CASE ~(p > 0)
      <4>1. p = 0 /\ UNCHANGED icraOdeme
        BY <3>1, <3>2, <3>4, IcraVarsayimi
      <4>2. IOdemeler' = {} /\ \A u : ITaksitte(u)' = {}
        BY <1>0, <4>1 DEF IOdemeler, ITaksitte
      <4>3. Topla(ITutarlar', {}) = 0
        BY ToplaBos
      <4>4. icraOdeme' \in [IOdeme -> IOdemeSatiri \cup {Yok}]
        BY <1>0, <4>1 DEF IcraTipi
      <4> QED BY <4>1, <4>2, <4>3, <4>4
    <3> QED BY <3>3, <3>4
  <2> QED BY <2>2, <2>3
<1>6. /\ icraTaksit' \in [INo -> Int \cup {Yok}]
      /\ IPlan' # {} => Topla(icraTaksit', IPlan') = x - p
  <2>1. CASE IcraPesin
    <3>1. UNCHANGED icraTaksit
      BY <2>1 DEF IcraPesin
    <3>2. IPlan' = {}
      BY <1>0, <3>1 DEF IPlan
    <3> QED BY <1>0, <3>1, <3>2 DEF IcraTipi
  <2>2. CASE IcraTaksitli
    <3>1. PICK y \in IToplam, q \in {0} \cup IToplam, n \in 1..IAdet : IcraYeni(y, q) /\ icraTaksit' = IBol(y - q, n)
      BY <2>2 DEF IcraTaksitli
    <3>2. q = p /\ y = x
      BY <1>1, <3>1 DEF IcraYeni
    <3>3. x - p \in Int
      BY IcraVarsayimi
    <3>4. /\ icraTaksit' \in [INo -> Int \cup {Yok}] /\ {t \in INo : icraTaksit'[t] # Yok} = 1..n
          /\ Topla(icraTaksit', 1..n) = x - p
      BY <3>1, <3>2, <3>3, IBolunur
    <3> QED BY <3>4 DEF IPlan
  <2> QED BY <2>1, <2>2
<1>7. IcraTipi'
  BY <1>0, <1>2, <1>5, <1>6 DEF IcraTipi
<1>8. IcrasizBos' /\ IOkunanDogru'
  BY <1>0, <1>2 DEF IcrasizBos, IOkunanDogru
<1>9. ITaksitSigar'
  <2>1. \A u \in INo : IOdenen(u)' = 0
    BY <1>5 DEF IOdenen
  <2> QED BY <2>1 DEF ITaksitSigar
<1>10. IOdemeBagli'
  <2>1. 0 \notin INo /\ 0 # Yok
    BY IcraVarsayimi DEF INo
  <2> QED BY <1>5, <2>1 DEF IOdemeBagli
<1>11. IPlanDogru'
  <2>1. p \in Int
    BY IcraVarsayimi
  <2> QED BY <1>2, <1>5, <1>6, <2>1 DEF IPlanDogru
<1> QED BY <1>7, <1>8, <1>9, <1>10, <1>11 DEF IcraInv

(* The sums after a step that keeps amounts.                               *)
LEMMA IAyniToplam ==
  ASSUME IcraTipi, NEW S \in SUBSET IOdemeler, \A o \in S : o \in IOdemeler' /\ icraOdeme'[o].tutar = icraOdeme[o].tutar
  PROVE  Topla(ITutarlar', S) = Topla(ITutarlar, S)
<1>1. IsFiniteSet(S)
  BY IOdemelerdir
<1>2. \A o \in S : ITutarlar'[o] = ITutarlar[o]
  BY DEF ITutarlar
<1> QED BY <1>1, <1>2, ToplaEsit

(* A request reads.                                                        *)
LEMMA IOkur ==
  ASSUME IcraInv, NEW a \in IIstek, NEW k \in IYazacak \cup ISilecek, IGelir(a, k), IDogru(k),
         UNCHANGED <<icra, icraTaksit, icraOdeme, iSasan>>
  PROVE  IcraInv'
<1>1. /\ IcraTipi /\ icra # Yok /\ iIstek' = [iIstek EXCEPT ![a] = k]
  BY DEF IcraInv, IGelir
<1>2. IcraTipi' /\ iIstek'[a] = k /\ \A b \in IIstek \ {a} : iIstek'[b] = iIstek[b]
  BY <1>1 DEF IcraTipi
<1>3. /\ IOdemeler' = IOdemeler /\ ITutarlar' = ITutarlar /\ IPlan' = IPlan /\ \A u : ITaksitte(u)' = ITaksitte(u)
      /\ \A u : IOdenen(u)' = IOdenen(u)
  BY DEF IOdemeler, ITutarlar, IPlan, ITaksitte, IOdenen
<1>4. ASSUME NEW r, IDogru(r) PROVE IDogru(r)'
  BY <1>3, <1>4 DEF IDogru
<1>5. IOkunanDogru'
  <2>1. \A b \in IIstek : iIstek'[b] \notin {Bos, Bitti} /\ ~iIstek'[b].bayat => IDogru(iIstek'[b])
    BY <1>2 DEF IcraInv, IOkunanDogru
  <2>2. ASSUME NEW b \in IIstek, iIstek'[b] \notin {Bos, Bitti} /\ ~iIstek'[b].bayat PROVE IDogru(iIstek[b])'
    <3>1. PICK r : r = iIstek'[b] /\ IDogru(r)
      BY <2>1, <2>2
    <3>2. IDogru(r)'
      BY <1>4, <3>1
    <3> QED BY <3>1, <3>2 DEF IDogru
  <2> QED BY <2>2 DEF IOkunanDogru
<1>6. IcrasizBos' /\ ITaksitSigar' /\ IOdemeBagli' /\ IPlanDogru'
  BY <1>1, <1>3 DEF IcraInv, IcrasizBos, ITaksitSigar, IOdemeBagli, IPlanDogru
<1> QED BY <1>2, <1>5, <1>6 DEF IcraInv

(* Whether what a request is about to do was read of rows as they are.     *)
LEMMA IOkudugu ==
  ASSUME IcraInv, NEW a \in IIstek, iIstek[a].adim \in {"ode", "tutar", "sil"}
  PROVE  /\ iIstek[a] \notin {Bos, Bitti} /\ iIstek[a].t \in INo /\ iIstek[a].bayat \in BOOLEAN
         /\ iIstek[a].adim \in {"ode", "tutar"} => iIstek[a].x \in IToplam
         /\ ~iIstek[a].bayat => IDogru(iIstek[a])
<1>1. iIstek[a] \notin {Bos, Bitti}
  BY IBosBitti
<1> QED BY <1>1, IIstektir DEF IcraInv, IOkunanDogru

(* The reads of requests.                                                  *)
LEMMA IOkumalar ==
  ASSUME IcraInv, NEW a \in IIstek, IOdemeOku(a) \/ ITutarOku(a) \/ ISilOku(a)
  PROVE  IcraInv'
<1>0. IcraTipi
  BY DEF IcraInv
<1>1. CASE IOdemeOku(a)
  <2>1. PICK t \in INo, x \in IToplam :
          /\ icraTaksit[t] # Yok /\ ~icra.iptal /\ x <= icraTaksit[t] - TaksitOdenen(t)
          /\ IGelir(a, [adim |-> "ode", t |-> t, x |-> x, bayat |-> FALSE])
    BY <1>1 DEF IOdemeOku
  <2> DEFINE k == [adim |-> "ode", t |-> t, x |-> x, bayat |-> FALSE]
  <2>2. k \in IYazacak \cup ISilecek
    BY DEF IYazacak
  <2>3. IDogru(k)
    BY <2>1, <1>0, IToplaDir DEF IDogru, IGelir
  <2>4. UNCHANGED <<icra, icraTaksit, icraOdeme, iSasan>>
    BY <1>1 DEF IOdemeOku
  <2> QED BY <2>1, <2>2, <2>3, <2>4, IOkur
<1>2. CASE ITutarOku(a)
  <2>1. PICK t \in INo, y \in IToplam :
          /\ icraTaksit[t] \notin {Yok, y} /\ ~icra.iptal
          /\ TaksitOdenen(t) < icraTaksit[t] /\ (TaksitOdenen(t) > 0 => y >= TaksitOdenen(t))
          /\ IGelir(a, [adim |-> "tutar", t |-> t, x |-> y, bayat |-> FALSE])
    BY <1>2 DEF ITutarOku
  <2> DEFINE k == [adim |-> "tutar", t |-> t, x |-> y, bayat |-> FALSE]
  <2>2. k \in IYazacak \cup ISilecek
    BY DEF IYazacak
  <2>3. IDogru(k)
    BY <2>1, <1>0, IToplaDir DEF IDogru, IGelir
  <2>4. UNCHANGED <<icra, icraTaksit, icraOdeme, iSasan>>
    BY <1>2 DEF ITutarOku
  <2> QED BY <2>1, <2>2, <2>3, <2>4, IOkur
<1>3. CASE ISilOku(a)
  <2>1. PICK t \in INo : /\ icraTaksit[t] # Yok /\ TaksitOdenen(t) = 0
                         /\ IGelir(a, [adim |-> "sil", t |-> t, bayat |-> FALSE])
    BY <1>3 DEF ISilOku
  <2> DEFINE k == [adim |-> "sil", t |-> t, bayat |-> FALSE]
  <2>2. k \in IYazacak \cup ISilecek
    BY DEF ISilecek
  <2>3. IDogru(k)
    BY <2>1, <1>0, IToplaDir DEF IDogru, IGelir
  <2>4. UNCHANGED <<icra, icraTaksit, icraOdeme, iSasan>>
    BY <1>3 DEF ISilOku
  <2> QED BY <2>1, <2>2, <2>3, <2>4, IOkur
<1> QED BY <1>1, <1>2, <1>3

(* A request whose instalment is gone.                                     *)
LEMMA IVazgecer ==
  ASSUME IcraInv, NEW a \in IIstek, iIstek[a] # Bos, IOlmaz(a)
  PROVE  IcraInv'
<1>1. IcraTipi /\ icra # Yok
  BY DEF IcraInv, IcrasizBos
<1>2. IcraTipi' /\ iIstek'[a] = Bitti /\ \A b \in IIstek \ {a} : iIstek'[b] = iIstek[b]
  BY <1>1 DEF IcraTipi, IOlmaz
<1>3. UNCHANGED <<icra, icraTaksit, icraOdeme, iSasan>>
  BY DEF IOlmaz
<1>4. /\ IOdemeler' = IOdemeler /\ ITutarlar' = ITutarlar /\ IPlan' = IPlan /\ \A u : ITaksitte(u)' = ITaksitte(u)
      /\ \A u : IOdenen(u)' = IOdenen(u)
  BY <1>3 DEF IOdemeler, ITutarlar, IPlan, ITaksitte, IOdenen
<1>5. IOkunanDogru'
  <2>1. \A b \in IIstek : iIstek'[b] \notin {Bos, Bitti} => iIstek'[b] = iIstek[b]
    BY <1>2
  <2>2. ASSUME NEW r, IDogru(r) PROVE IDogru(r)'
    BY <1>3, <1>4, <2>2 DEF IDogru
  <2>3. ASSUME NEW b \in IIstek, iIstek'[b] \notin {Bos, Bitti} /\ ~iIstek'[b].bayat PROVE IDogru(iIstek[b])'
    <3>1. PICK r : r = iIstek'[b] /\ IDogru(r)
      BY <2>1, <2>3 DEF IcraInv, IOkunanDogru
    <3>2. IDogru(r)'
      BY <2>2, <3>1
    <3> QED BY <3>1, <3>2 DEF IDogru
  <2> QED BY <2>3 DEF IOkunanDogru
<1>6. IcrasizBos' /\ ITaksitSigar' /\ IOdemeBagli' /\ IPlanDogru'
  BY <1>1, <1>3, <1>4 DEF IcraInv, IcrasizBos, ITaksitSigar, IOdemeBagli, IPlanDogru
<1> QED BY <1>2, <1>5, <1>6 DEF IcraInv

(* What a write leaves of the requests.                                    *)
LEMMA ISonuclar ==
  ASSUME IcraInv, NEW a \in IIstek, NEW t \in INo, ISonuc(a, t)
  PROVE  /\ iIstek' \in [IIstek -> IYazacak \cup ISilecek \cup {Bos, Bitti}] /\ IOkunanDogru'
         /\ iSasan \subseteq iSasan' /\ iSasan' \subseteq INo /\ (iIstek[a].bayat => t \in iSasan')
<1>1. iIstek' = Bayatlat(iIstek, a, Bitti)
  BY DEF ISonuc
<1>2. /\ iIstek' \in [IIstek -> IYazacak \cup ISilecek \cup {Bos, Bitti}]
      /\ IOkunanDogru'
  BY <1>1, IBayatlatir DEF IcraInv
<1> QED BY <1>2 DEF ISonuc, IcraInv, IcraTipi

(* A payment is booked.                                                    *)
LEMMA IOdemeYazilir ==
  ASSUME IcraInv, NEW a \in IIstek, IOdemeYaz(a)
  PROVE  IcraInv'
<1>0. PICK r : r = iIstek[a]
  OBVIOUS
<1>1. r.adim = "ode" /\ r \notin {Bos, Bitti} /\ r.t \in INo /\ r.bayat \in BOOLEAN /\ r.x \in IToplam
      /\ (~r.bayat => IDogru(r))
  BY <1>0, IOkudugu DEF IOdemeYaz
<1>2. CASE icraTaksit[r.t] = Yok /\ IOlmaz(a)
  BY <1>0, <1>1, <1>2, IVazgecer
<1>3. CASE icraTaksit[r.t] # Yok /\ YeniOdeme(r.t, r.x) /\ ISonuc(a, r.t) /\ UNCHANGED <<icra, icraTaksit>>
  <2>0. IcraTipi /\ icra # Yok /\ ISonuc(a, r.t)
    BY <1>0, <1>1, <1>3 DEF IcraInv, IcrasizBos
  <2>1. /\ iIstek' \in [IIstek -> IYazacak \cup ISilecek \cup {Bos, Bitti}] /\ IOkunanDogru'
        /\ iSasan \subseteq iSasan' /\ iSasan' \subseteq INo /\ (r.bayat => r.t \in iSasan')
    BY <1>0, <1>1, <2>0, ISonuclar
  <2>2. /\ icraOdeme' \in [IOdeme -> IOdemeSatiri \cup {Yok}]
        /\ \A u : u # r.t => Topla(ITutarlar', ITaksitte(u)') = Topla(ITutarlar, ITaksitte(u))
        /\ Topla(ITutarlar', ITaksitte(r.t)') = r.x + Topla(ITutarlar, ITaksitte(r.t))
        /\ \E o \in IOdeme : /\ icraOdeme'[o] = OdemeKaydi(r.t, r.x)
                             /\ \A p \in IOdemeler' : p = o \/ (p \in IOdemeler /\ icraOdeme'[p] = icraOdeme[p])
    <3>1. r.t \in INo \cup {0} /\ r.x \in IToplam /\ YeniOdeme(r.t, r.x)
      BY <1>1, <1>3
    <3> HIDE <1>3
    <3> QED BY <2>0, <3>1, IYeniOdeme
  <2>3. (\A u : u # r.t => IOdenen(u)' = IOdenen(u)) /\ IOdenen(r.t)' = r.x + IOdenen(r.t)
    <3>1. PICK t : t = r.t
      OBVIOUS
    <3>2. IOdenen(t)' = r.x + IOdenen(t)
      BY <2>2, <3>1 DEF IOdenen
    <3> QED BY <2>2, <3>1, <3>2 DEF IOdenen
  <2>4. IcraTipi'
    BY <1>3, <2>0, <2>1, <2>2 DEF IcraTipi
  <2>5. IcrasizBos'
    BY <1>3, <2>0 DEF IcrasizBos
  <2>6. ITaksitSigar'
    <3> SUFFICES ASSUME NEW u \in INo, u \notin iSasan', icraTaksit[u] # Yok, IOdenen(u)' > 0 PROVE IOdenen(u)' <= icraTaksit[u]
      BY <1>3 DEF ITaksitSigar
    <3>1. u \notin iSasan
      BY <2>1
    <3>2. CASE u # r.t
      BY <2>3, <3>1, <3>2 DEF IcraInv, ITaksitSigar
    <3>3. CASE u = r.t
      <4>1. ~r.bayat
        BY <1>1, <2>1, <3>3
      <4>2. r.x <= icraTaksit[u] - IOdenen(u)
        BY <1>1, <3>3, <4>1 DEF IDogru
      <4>3. icraTaksit[u] \in Int /\ IOdenen(u) \in Int /\ r.x \in Int
        <5>1. IOdenen(u) \in Nat
          BY <2>0, IToplamlar, IOdemelerdir DEF IOdenen
        <5>2. r.x \in Int
          <6>1. r.x \in IToplam
            BY <1>1
          <6> QED BY <6>1, ITutarSayi
        <5>3. icraTaksit[u] \in Int
          BY <2>0 DEF IcraTipi
        <5> QED BY <5>1, <5>2, <5>3
      <4>4. IOdenen(u)' = r.x + IOdenen(u)
        BY <2>3, <3>3
      <4> QED BY <4>2, <4>3, <4>4
    <3> QED BY <3>2, <3>3
  <2>7. IOdemeBagli'
    <3>1. PICK o \in IOdeme : /\ icraOdeme'[o] = OdemeKaydi(r.t, r.x)
                              /\ \A p \in IOdemeler' : p = o \/ (p \in IOdemeler /\ icraOdeme'[p] = icraOdeme[p])
      BY <2>2
    <3>2. OdemeKaydi(r.t, r.x).t = r.t /\ (OdemeKaydi(r.t, r.x).iptalde => icra.iptal)
      BY DEF OdemeKaydi
    <3>3. r.t # Yok
      BY <1>1, IcraVarsayimi DEF INo
    <3>4. icra.iptal => iSasan' # {}
      BY <1>1, <2>1 DEF IDogru
    <3> SUFFICES ASSUME NEW p \in IOdemeler'
                 PROVE  /\ icraOdeme'[p].t \in INo => icraTaksit[icraOdeme'[p].t] # Yok
                        /\ icraOdeme'[p].t = Yok => iSasan' # {}
                        /\ icraOdeme'[p].iptalde => iSasan' # {}
      BY <1>3 DEF IOdemeBagli
    <3>5. CASE p = o
      BY <1>3, <3>1, <3>2, <3>3, <3>4, <3>5
    <3>6. CASE p \in IOdemeler /\ icraOdeme'[p] = icraOdeme[p]
      BY <2>1, <3>6 DEF IcraInv, IOdemeBagli
    <3> QED BY <3>1, <3>5, <3>6
  <2>8. IPlanDogru'
    <3>1. r.t # 0
      BY <1>1 DEF INo
    <3>2. Topla(ITutarlar', ITaksitte(0)') = Topla(ITutarlar, ITaksitte(0))
      BY <2>2, <3>1
    <3>3. IPlan' = IPlan /\ icraTaksit' = icraTaksit /\ icra' = icra
      BY <1>3 DEF IPlan
    <3> QED BY <3>2, <3>3 DEF IcraInv, IPlanDogru
  <2> QED BY <2>1, <2>4, <2>5, <2>6, <2>7, <2>8 DEF IcraInv
<1> QED BY <1>0, <1>2, <1>3 DEF IOdemeYaz

(* An amount is changed.                                                   *)
LEMMA ITutarYazilir ==
  ASSUME IcraInv, NEW a \in IIstek, ITutarYaz(a)
  PROVE  IcraInv'
<1>0. PICK r : r = iIstek[a]
  OBVIOUS
<1>1. r.adim = "tutar" /\ r \notin {Bos, Bitti} /\ r.t \in INo /\ r.bayat \in BOOLEAN /\ r.x \in IToplam
      /\ (~r.bayat => IDogru(r))
  BY <1>0, IOkudugu DEF ITutarYaz
<1>2. CASE icraTaksit[r.t] = Yok /\ IOlmaz(a)
  BY <1>0, <1>1, <1>2, IVazgecer
<1>3. CASE /\ icraTaksit[r.t] # Yok /\ icraTaksit' = [icraTaksit EXCEPT ![r.t] = r.x]
           /\ icra' = [icra EXCEPT !.elle = TRUE] /\ ISonuc(a, r.t) /\ UNCHANGED icraOdeme
  <2>0. IcraTipi /\ icra # Yok /\ icra \in IcraSatiri /\ ISonuc(a, r.t)
    BY <1>0, <1>1, <1>3 DEF IcraInv, IcrasizBos, IcraTipi
  <2>1. /\ iIstek' \in [IIstek -> IYazacak \cup ISilecek \cup {Bos, Bitti}] /\ IOkunanDogru'
        /\ iSasan \subseteq iSasan' /\ iSasan' \subseteq INo /\ (r.bayat => r.t \in iSasan')
    BY <1>0, <1>1, <2>0, ISonuclar
  <2>2. r.x \in Int /\ r.x # Yok
    BY <1>1, ITutarSayi, IcraVarsayimi
  <2>3. /\ icraTaksit' \in [INo -> Int \cup {Yok}] /\ icraTaksit'[r.t] = r.x
        /\ \A u \in INo \ {r.t} : icraTaksit'[u] = icraTaksit[u]
    BY <1>1, <1>3, <2>0, <2>2 DEF IcraTipi
  <2>4. icra' \in IcraSatiri /\ icra'.elle /\ icra' # Yok
    BY <1>3, <2>0, IcraVarsayimi DEF IcraSatiri
  <2>5. IcraTipi'
    BY <1>3, <2>0, <2>1, <2>3, <2>4 DEF IcraTipi
  <2>6. IOdemeler' = IOdemeler /\ \A u : IOdenen(u)' = IOdenen(u)
    BY <1>3 DEF IOdemeler, ITutarlar, ITaksitte, IOdenen
  <2>7. ITaksitSigar'
    <3> SUFFICES ASSUME NEW u \in INo, u \notin iSasan', icraTaksit'[u] # Yok, IOdenen(u) > 0 PROVE IOdenen(u) <= icraTaksit'[u]
      BY <2>6 DEF ITaksitSigar
    <3>1. u \notin iSasan
      BY <2>1
    <3>2. CASE u # r.t
      BY <2>3, <3>1, <3>2 DEF IcraInv, ITaksitSigar
    <3>3. CASE u = r.t
      <4>1. ~r.bayat
        BY <1>1, <2>1, <3>3
      <4>2. r.x >= IOdenen(u)
        BY <1>1, <3>3, <4>1 DEF IDogru
      <4>3. IOdenen(u) \in Int
        BY <2>0, IToplamlar, IOdemelerdir DEF IOdenen
      <4> QED BY <2>2, <2>3, <3>3, <4>2, <4>3
    <3> QED BY <3>2, <3>3
  <2>8. IOdemeBagli'
    BY <1>3, <2>1, <2>2, <2>3, <2>6 DEF IcraInv, IOdemeBagli
  <2>9. IcrasizBos' /\ IPlanDogru'
    BY <2>4 DEF IcrasizBos, IPlanDogru
  <2> QED BY <2>1, <2>5, <2>7, <2>8, <2>9 DEF IcraInv
<1> QED BY <1>0, <1>2, <1>3 DEF ITutarYaz

(* An instalment is deleted.                                               *)
LEMMA ISilinir ==
  ASSUME IcraInv, NEW a \in IIstek, ISilYaz(a)
  PROVE  IcraInv'
<1>0. PICK r : r = iIstek[a]
  OBVIOUS
<1>1. r.adim = "sil" /\ r \notin {Bos, Bitti} /\ r.t \in INo /\ r.bayat \in BOOLEAN
      /\ (~r.bayat => IDogru(r))
  BY <1>0, IOkudugu DEF ISilYaz
<1>2. CASE icraTaksit[r.t] = Yok /\ IOlmaz(a)
  BY <1>0, <1>1, <1>2, IVazgecer
<1>3. CASE /\ icraTaksit[r.t] # Yok /\ icraTaksit' = [icraTaksit EXCEPT ![r.t] = Yok]
           /\ icra' = [icra EXCEPT !.elle = TRUE] /\ ISonuc(a, r.t)
           /\ icraOdeme' = [o \in IOdeme |-> IF icraOdeme[o] # Yok /\ icraOdeme[o].t = r.t
                                             THEN [icraOdeme[o] EXCEPT !.t = Yok] ELSE icraOdeme[o]]
  <2>0. IcraTipi /\ icra # Yok /\ icra \in IcraSatiri /\ ISonuc(a, r.t)
    BY <1>0, <1>1, <1>3 DEF IcraInv, IcrasizBos, IcraTipi
  <2>1. /\ iIstek' \in [IIstek -> IYazacak \cup ISilecek \cup {Bos, Bitti}] /\ IOkunanDogru'
        /\ iSasan \subseteq iSasan' /\ iSasan' \subseteq INo /\ (r.bayat => r.t \in iSasan')
    BY <1>0, <1>1, <2>0, ISonuclar
  <2>3. /\ icraTaksit' \in [INo -> Int \cup {Yok}] /\ icraTaksit'[r.t] = Yok
        /\ \A u \in INo \ {r.t} : icraTaksit'[u] = icraTaksit[u]
    BY <1>1, <1>3, <2>0 DEF IcraTipi
  <2>4. icra' \in IcraSatiri /\ icra'.elle /\ icra' # Yok
    BY <1>3, <2>0, IcraVarsayimi DEF IcraSatiri
  <2>5. \A o \in IOdeme : /\ icraOdeme[o] # Yok /\ icraOdeme[o].t = r.t => icraOdeme'[o] = [icraOdeme[o] EXCEPT !.t = Yok]
                          /\ ~(icraOdeme[o] # Yok /\ icraOdeme[o].t = r.t) => icraOdeme'[o] = icraOdeme[o]
    BY <1>3
  <2>6. \A o \in IOdemeler : icraOdeme[o].t = r.t =>
           /\ icraOdeme'[o] \in IOdemeSatiri /\ icraOdeme'[o].t = Yok
           /\ icraOdeme'[o].tutar = icraOdeme[o].tutar /\ icraOdeme'[o].iptalde = icraOdeme[o].iptalde
    <3> SUFFICES ASSUME NEW o \in IOdemeler, icraOdeme[o].t = r.t
                 PROVE  /\ icraOdeme'[o] \in IOdemeSatiri /\ icraOdeme'[o].t = Yok
                        /\ icraOdeme'[o].tutar = icraOdeme[o].tutar /\ icraOdeme'[o].iptalde = icraOdeme[o].iptalde
      OBVIOUS
    <3>1. icraOdeme[o] \in IOdemeSatiri
      BY <2>0, IOdemelerdir
    <3>2. icraOdeme'[o] = [icraOdeme[o] EXCEPT !.t = Yok]
      BY <2>5 DEF IOdemeler
    <3> QED BY <3>1, <3>2 DEF IOdemeSatiri
  <2>7. IOdemeler' = IOdemeler
    BY <2>5, <2>6, IcraVarsayimi DEF IOdemeler
  <2>8. icraOdeme' \in [IOdeme -> IOdemeSatiri \cup {Yok}]
    <3>1. \A o \in IOdeme : icraOdeme'[o] \in IOdemeSatiri \cup {Yok}
      <4> SUFFICES ASSUME NEW o \in IOdeme PROVE icraOdeme'[o] \in IOdemeSatiri \cup {Yok}
        OBVIOUS
      <4>1. icraOdeme[o] \in IOdemeSatiri \cup {Yok}
        BY <2>0 DEF IcraTipi
      <4> QED BY <2>5, <2>6, <4>1 DEF IOdemeler
    <3> QED BY <1>3, <3>1
  <2>9. IcraTipi'
    BY <2>0, <2>1, <2>3, <2>4, <2>8 DEF IcraTipi
  <2>10. \A u \in INo \ {r.t} : ITaksitte(u)' = ITaksitte(u)
    <3> SUFFICES ASSUME NEW u \in INo, u # r.t PROVE ITaksitte(u)' = ITaksitte(u)
      OBVIOUS
    <3>1. u # Yok
      BY IcraVarsayimi DEF INo
    <3>2. \A o \in IOdemeler : icraOdeme'[o].t = u <=> icraOdeme[o].t = u
      BY <2>5, <2>6, <3>1 DEF IOdemeler
    <3> QED BY <2>7, <3>2 DEF ITaksitte
  <2>11. \A u \in INo \ {r.t} : IOdenen(u)' = IOdenen(u)
    <3> SUFFICES ASSUME NEW u \in INo, u # r.t PROVE IOdenen(u)' = IOdenen(u)
      OBVIOUS
    <3>1. ITaksitte(u) \in SUBSET IOdemeler /\ \A o \in ITaksitte(u) : o \in IOdemeler' /\ icraOdeme'[o].tutar = icraOdeme[o].tutar
      <4>1. \A o \in ITaksitte(u) : o \in IOdemeler /\ icraOdeme[o].t = u
        BY DEF ITaksitte
      <4> QED BY <2>5, <2>7, <4>1 DEF IOdemeler
    <3>2. Topla(ITutarlar', ITaksitte(u)) = Topla(ITutarlar, ITaksitte(u))
      BY <2>0, <3>1, IAyniToplam
    <3> QED BY <2>10, <3>2 DEF IOdenen
  <2>12. ITaksitSigar'
    BY <2>1, <2>3, <2>11 DEF IcraInv, ITaksitSigar
  <2>13. IOdemeBagli'
    <3> SUFFICES ASSUME NEW p \in IOdemeler
                 PROVE  /\ icraOdeme'[p].t \in INo => icraTaksit'[icraOdeme'[p].t] # Yok
                        /\ icraOdeme'[p].t = Yok => iSasan' # {}
                        /\ icraOdeme'[p].iptalde => iSasan' # {}
      BY <2>7 DEF IOdemeBagli
    <3>0. /\ icraOdeme[p].t \in INo => icraTaksit[icraOdeme[p].t] # Yok
          /\ icraOdeme[p].t = Yok => iSasan' # {}
          /\ icraOdeme[p].iptalde => iSasan' # {}
      BY <2>1 DEF IcraInv, IOdemeBagli
    <3>1. CASE icraOdeme[p].t = r.t
      <4>1. iSasan' # {}
        <5>1. CASE r.bayat
          BY <2>1, <5>1
        <5>2. CASE ~r.bayat
          <6>1. IOdenen(r.t) = 0 /\ ITaksitte(r.t) \in SUBSET IOdemeler
            BY <1>1, <2>0, <5>2, IOdemelerdir DEF IDogru
          <6>2. ITaksitte(r.t) = {}
            BY <2>0, <6>1, IToplamlar DEF IOdenen
          <6> QED BY <3>1, <6>2 DEF ITaksitte
        <5> QED BY <5>1, <5>2
      <4>2. Yok \notin INo
        BY IcraVarsayimi DEF INo
      <4> QED BY <2>6, <3>1, <4>1, <4>2
    <3>2. CASE icraOdeme[p].t # r.t
      <4>1. icraOdeme'[p] = icraOdeme[p]
        BY <2>5, <3>2 DEF IOdemeler
      <4> QED BY <2>3, <3>0, <3>2, <4>1
    <3> QED BY <3>1, <3>2
  <2>14. IcrasizBos' /\ IPlanDogru'
    BY <2>4 DEF IcrasizBos, IPlanDogru
  <2> QED BY <2>1, <2>9, <2>12, <2>13, <2>14 DEF IcraInv
<1> QED BY <1>0, <1>2, <1>3 DEF ISilYaz

(* The claim is cancelled, or the income of a payment goes.                *)
LEMMA IIptalSil ==
  ASSUME IcraInv, AlacakIptal \/ \E o \in IOdeme, g \in {"silindi", "yok"} : IGelirSil(o, g)
  PROVE  IcraInv'
<1>0. IcraTipi
  BY DEF IcraInv
<1>1. CASE AlacakIptal
  <2>1. icra # Yok /\ icra \in IcraSatiri /\ icra' = [icra EXCEPT !.iptal = TRUE] /\ UNCHANGED <<icraTaksit, icraOdeme, iSasan>>
        /\ iIstek' = Bayatlat(iIstek, Yok, Bos)
    BY <1>0, <1>1 DEF AlacakIptal, IcraTipi
  <2>2. icra' \in IcraSatiri /\ icra'.elle = icra.elle /\ icra'.toplam = icra.toplam /\ icra'.pesinat = icra.pesinat
    BY <2>1 DEF IcraSatiri
  <2>3. /\ iIstek' \in [IIstek -> IYazacak \cup ISilecek \cup {Bos, Bitti}]
        /\ IOkunanDogru'
    BY <1>0, <2>1, IBayatlatir
  <2>4. IcraTipi'
    BY <1>0, <2>1, <2>2, <2>3 DEF IcraTipi
  <2>5. /\ IOdemeler' = IOdemeler /\ ITutarlar' = ITutarlar /\ IPlan' = IPlan /\ \A u : ITaksitte(u)' = ITaksitte(u)
        /\ \A u : IOdenen(u)' = IOdenen(u)
    BY <2>1 DEF IOdemeler, ITutarlar, IPlan, ITaksitte, IOdenen
  <2>6. icra' # Yok
    BY <2>2, IcraVarsayimi
  <2>7. IcrasizBos' /\ ITaksitSigar' /\ IOdemeBagli' /\ IPlanDogru'
    BY <2>1, <2>2, <2>5, <2>6 DEF IcraInv, IcrasizBos, ITaksitSigar, IOdemeBagli, IPlanDogru
  <2> QED BY <2>3, <2>4, <2>7 DEF IcraInv
<1>2. ASSUME NEW o \in IOdeme, NEW g \in {"silindi", "yok"}, IGelirSil(o, g) PROVE IcraInv'
  <2>1. /\ icraOdeme[o] # Yok /\ icraOdeme' = [icraOdeme EXCEPT ![o].gelir = g]
        /\ UNCHANGED <<icra, icraTaksit, iIstek, iSasan>>
    BY <1>2 DEF IGelirSil
  <2>2. icraOdeme[o] \in IOdemeSatiri
    BY <1>0, <2>1 DEF IcraTipi
  <2>3. /\ [icraOdeme[o] EXCEPT !.gelir = g] \in IOdemeSatiri /\ [icraOdeme[o] EXCEPT !.gelir = g].t = icraOdeme[o].t
        /\ [icraOdeme[o] EXCEPT !.gelir = g].tutar = icraOdeme[o].tutar
        /\ [icraOdeme[o] EXCEPT !.gelir = g].iptalde = icraOdeme[o].iptalde
    BY <2>2 DEF IOdemeSatiri
  <2>4. /\ icraOdeme' \in [IOdeme -> IOdemeSatiri \cup {Yok}] /\ icraOdeme'[o] = [icraOdeme[o] EXCEPT !.gelir = g]
        /\ \A p \in IOdeme \ {o} : icraOdeme'[p] = icraOdeme[p]
    BY <1>0, <2>1, <2>3 DEF IcraTipi
  <2>5. IOdemeler' = IOdemeler /\ \A p \in IOdemeler : /\ icraOdeme'[p].t = icraOdeme[p].t
          /\ icraOdeme'[p].tutar = icraOdeme[p].tutar /\ icraOdeme'[p].iptalde = icraOdeme[p].iptalde
    <3>1. icraOdeme'[o] # Yok
      BY <2>3, <2>4, IcraVarsayimi
    <3> QED BY <2>1, <2>3, <2>4, <3>1 DEF IOdemeler
  <2>6. ITutarlar' = ITutarlar /\ IPlan' = IPlan /\ \A u : ITaksitte(u)' = ITaksitte(u)
    BY <2>1, <2>5 DEF ITutarlar, IPlan, ITaksitte
  <2>7. \A u : IOdenen(u)' = IOdenen(u)
    BY <2>6 DEF IOdenen
  <2>8. IcraTipi'
    BY <1>0, <2>1, <2>4 DEF IcraTipi
  <2>9. IcrasizBos'
    BY <2>1 DEF IcraInv, IcrasizBos
  <2>10. ITaksitSigar' /\ IOdemeBagli' /\ IPlanDogru'
    BY <2>1, <2>5, <2>6, <2>7 DEF IcraInv, ITaksitSigar, IOdemeBagli, IPlanDogru
  <2>11. IOkunanDogru'
    <3>1. ASSUME NEW r, IDogru(r) PROVE IDogru(r)'
      BY <2>1, <2>7, <3>1 DEF IDogru
    <3>2. ASSUME NEW b \in IIstek, iIstek'[b] \notin {Bos, Bitti} /\ ~iIstek'[b].bayat PROVE IDogru(iIstek[b])'
      <4>1. PICK r : r = iIstek'[b] /\ IDogru(r)
        BY <2>1, <3>2 DEF IcraInv, IOkunanDogru
      <4>2. IDogru(r)'
        BY <3>1, <4>1
      <4> QED BY <4>1, <4>2 DEF IDogru
    <3> QED BY <3>2 DEF IOkunanDogru
  <2> QED BY <2>8, <2>9, <2>10, <2>11 DEF IcraInv
<1> QED BY <1>1, <1>2

LEMMA IcraAdimi ==
  ASSUME IcraInv, [IcraNext]_icraVars
  PROVE  IcraInv'
<1>1. CASE IcraPesin \/ IcraTaksitli
  BY <1>1, IcraAcilir
<1>2. CASE AlacakIptal \/ \E o \in IOdeme, g \in {"silindi", "yok"} : IGelirSil(o, g)
  BY <1>2, IIptalSil
<1>3. ASSUME NEW a \in IIstek, IOdemeOku(a) \/ IOdemeYaz(a) \/ ITutarOku(a) \/ ITutarYaz(a) \/ ISilOku(a) \/ ISilYaz(a)
      PROVE  IcraInv'
  BY <1>3, IOkumalar, IOdemeYazilir, ITutarYazilir, ISilinir
<1>4. CASE UNCHANGED icraVars
  BY <1>4 DEF icraVars, IcraInv, IcraTipi, IcrasizBos, ITaksitSigar, IOdemeBagli, IOkunanDogru, IDogru, IPlanDogru,
     IOdenen, IOdemeler, ITutarlar, ITaksitte, IPlan
<1> QED BY <1>1, <1>2, <1>3, <1>4 DEF IcraNext

THEOREM IcraDegismez == IcraSpec => []IcraInv
<1>1. IcraInit => IcraInv
  BY IcraBaslangic
<1>2. IcraInv /\ [IcraNext]_icraVars => IcraInv'
  BY IcraAdimi
<1> QED BY <1>1, <1>2, PTL DEF IcraSpec

-----------------------------------------------------------------------------
(* What the claim shows                                                    *)

\* What is counted on t.
IGecerli(t) == Topla(ITutarlar, ITaksitte(t) \cap ISayilan)

(* The figures the statuses are computed from.                             *)
LEMMA IFigurler ==
  ASSUME IcraInv
  PROVE  /\ \A t : IOdenen(t) \in Nat /\ IGecerli(t) \in Nat /\ IGecerli(t) <= IOdenen(t)
         /\ \A t : TaksitOdenen(t) = IOdenen(t) /\ TaksitGecerli(t) = IGecerli(t)
         /\ \A t : IOdenen(t) = 0 <=> ITaksitte(t) = {}
         /\ AlacakOdenen \in Nat /\ ITopla(IOdemeler) \in Nat /\ AlacakOdenen <= ITopla(IOdemeler)
         /\ \A t \in INo \ iSasan : icraTaksit[t] # Yok /\ IOdenen(t) > 0 => IOdenen(t) <= icraTaksit[t]
         /\ \A t \in IPlan : icraTaksit[t] \in Int
<1>0. IcraTipi
  BY DEF IcraInv
<1>1. /\ \A S \in SUBSET IOdemeler : Topla(ITutarlar, S) \in Nat
      /\ \A S \in SUBSET IOdemeler : (Topla(ITutarlar, S) = 0 => S = {})
      /\ \A S \in SUBSET IOdemeler, T \in SUBSET IOdemeler : T \subseteq S => Topla(ITutarlar, T) <= Topla(ITutarlar, S)
  BY <1>0, IToplamlar
<1>2. \A t : ITaksitte(t) \in SUBSET IOdemeler /\ ITaksitte(t) \cap ISayilan \in SUBSET IOdemeler
             /\ ITaksitte(t) \cap ISayilan \subseteq ITaksitte(t)
  BY DEF ITaksitte
<1>3. ISayilan \in SUBSET IOdemeler /\ IOdemeler \in SUBSET IOdemeler
  BY DEF ISayilan
<1>4. \A t : IOdenen(t) \in Nat /\ IGecerli(t) \in Nat /\ IGecerli(t) <= IOdenen(t)
  BY <1>1, <1>2 DEF IOdenen, IGecerli
<1>5. \A t : TaksitOdenen(t) = IOdenen(t) /\ TaksitGecerli(t) = IGecerli(t)
  BY IToplaDir DEF IGecerli
<1>6. \A t : IOdenen(t) = 0 <=> ITaksitte(t) = {}
  <2>1. Topla(ITutarlar, {}) = 0
    BY ToplaBos
  <2> QED BY <1>1, <1>2, <2>1 DEF IOdenen
<1>7. AlacakOdenen \in Nat /\ ITopla(IOdemeler) \in Nat /\ AlacakOdenen <= ITopla(IOdemeler)
  BY <1>1, <1>3, IToplaDir
<1>8. \A t \in IPlan : icraTaksit[t] \in Int
  BY <1>0 DEF IcraTipi, IPlan
<1> QED BY <1>4, <1>5, <1>6, <1>7, <1>8 DEF IcraInv, ITaksitSigar

(* A claim is a record, and its figures are amounts.                       *)
LEMMA IAlacaktir ==
  ASSUME IcraInv, icra # Yok
  PROVE  icra.iptal \in BOOLEAN /\ icra.toplam \in Nat /\ icra.pesinat \in Nat
<1>1. icra \in IcraSatiri
  BY DEF IcraInv, IcraTipi
<1>2. icra.iptal \in BOOLEAN /\ icra.toplam \in IToplam /\ icra.pesinat \in IToplam \cup {0}
  BY <1>1 DEF IcraSatiri
<1> QED BY <1>2, ITutarSayi

(* The fields of the overview and of the report.                           *)
LEMMA IOzetAlanlari ==
  ASSUME NEW g
  PROVE  /\ IOzet(g).alacak = (IF icra.iptal THEN 0 ELSE icra.toplam)
         /\ IOzet(g).tahsil = (IF icra.iptal THEN 0 ELSE AlacakOdenen)
         /\ IOzet(g).ay = ITopla(IOdemeler)
         /\ IOzet(g).geciken = Cardinality({t \in IPlan \cap g : ~icra.iptal /\ TaksitGecerli(t) < icraTaksit[t]})
BY DEF IOzet

LEMMA IRaporAlanlari ==
  ASSUME NEW g, icra.iptal \in BOOLEAN
  PROVE  /\ IRapor(Yok, g).alacak = (IF icra.iptal THEN 0 ELSE icra.toplam)
         /\ IRapor(Yok, g).tahsil = (IF icra.iptal THEN 0 ELSE ITopla(IOdemeler))
         /\ IRapor(Yok, g).kalan = IKalan(IRapor(Yok, g).alacak, IRapor(Yok, g).tahsil)
         /\ IRapor(Yok, g).geciken = Cardinality({t \in IPlan \cap g : ~icra.iptal /\ TaksitOdenen(t) < icraTaksit[t]})
<1>1. IRaporda(Yok, g) <=> ~icra.iptal
  <2>1. Yok # "IPTAL"
    BY IcraVarsayimi DEF IDurumlar
  <2> QED BY <2>1 DEF IRaporda
<1>2. IRapor(Yok, g) =
        [alacak |-> IF IRaporda(Yok, g) THEN icra.toplam ELSE 0, tahsil |-> IF IRaporda(Yok, g) THEN ITopla(IOdemeler) ELSE 0,
         kalan |-> IKalan(IF IRaporda(Yok, g) THEN icra.toplam ELSE 0, IF IRaporda(Yok, g) THEN ITopla(IOdemeler) ELSE 0),
         geciken |-> Cardinality({t \in IPlan \cap g : ~icra.iptal /\ TaksitOdenen(t) < icraTaksit[t]})]
  BY Zenon DEF IRapor
<1>3. CASE icra.iptal
  BY <1>1, <1>2, <1>3
<1>4. CASE ~icra.iptal
  BY <1>1, <1>2, <1>4
<1> QED BY <1>3, <1>4

(* A claim is listed under one status.                                     *)
LEMMA IDurumBir ==
  ASSUME NEW g, icra.iptal \in BOOLEAN
  PROVE  /\ {d \in IDurumlar : IListede(d, g)} = {AlacakDurum(g)}
         /\ {d \in IDurumlar : IRaporda(d, g)} = {IRaporDurum(g)}
<1>1. AlacakDurum(g) \in IDurumlar /\ (AlacakDurum(g) = "IPTAL" <=> icra.iptal)
  BY DEF AlacakDurum, IDurumlar
<1>2. IRaporDurum(g) \in IDurumlar /\ (IRaporDurum(g) = "IPTAL" <=> icra.iptal)
  BY DEF IRaporDurum, IDurumlar
<1>3. Yok \notin IDurumlar
  BY IcraVarsayimi
<1>4. \A d \in IDurumlar : IListede(d, g) <=> d = AlacakDurum(g)
  BY <1>1 DEF IListede
<1>5. \A d \in IDurumlar : IRaporda(d, g) <=> d = IRaporDurum(g)
  BY <1>2, <1>3 DEF IRaporda
<1> QED BY <1>1, <1>2, <1>4, <1>5

(* The difference that is not in the plan.                                 *)
LEMMA IFarkYok ==
  ASSUME IcraInv, icra # Yok, ~icra.elle, IPlan # {}
  PROVE  IFark = 0
<1>1. Topla(icraTaksit, IPlan) = icra.toplam - icra.pesinat
  BY DEF IcraInv, IPlanDogru
<1>2. MapThenSumSet(LAMBDA t : icraTaksit[t], IPlan) = Topla(icraTaksit, IPlan)
  BY DEF Topla
<1>3. IFark = icra.toplam - icra.pesinat - MapThenSumSet(LAMBDA t : icraTaksit[t], IPlan)
  BY DEF IFark
<1>4. icra.toplam \in Int /\ icra.pesinat \in Int
  BY IAlacaktir
<1> QED BY <1>1, <1>2, <1>3, <1>4

(* The instalments are finitely many.                                      *)
LEMMA IPlanSonlu == IsFiniteSet(IPlan) /\ (\A S : S \subseteq IPlan => IsFiniteSet(S)) /\ IPlan \subseteq INo /\ 0 \notin INo
<1>1. IsFiniteSet(INo) /\ 0 \notin INo
  BY IcraVarsayimi, FS_Interval DEF INo
<1>2. IPlan \subseteq INo
  BY DEF IPlan
<1> QED BY <1>1, <1>2, FS_Subset

(* The report says no less collected and no more late than the overview.   *)
LEMMA IRaporUyar ==
  ASSUME IcraInv, icra # Yok, NEW g
  PROVE  /\ IOzet(g).ay >= IOzet(g).tahsil
         /\ IRapor(Yok, g).alacak = IOzet(g).alacak /\ IRapor(Yok, g).tahsil >= IOzet(g).tahsil
         /\ IRapor(Yok, g).geciken <= IOzet(g).geciken
         /\ IRapor(Yok, g).tahsil = ITopla(IRaporOdemeler)
<1>1. icra.iptal \in BOOLEAN
  BY IAlacaktir
<1>2. AlacakOdenen \in Nat /\ ITopla(IOdemeler) \in Nat /\ AlacakOdenen <= ITopla(IOdemeler)
  BY IFigurler
<1>3. ITopla({}) = 0
  BY ToplaBos, IToplaDir
<1>4. ITopla(IRaporOdemeler) = IF icra.iptal THEN 0 ELSE ITopla(IOdemeler)
  BY <1>3 DEF IRaporOdemeler
<1>5. IRapor(Yok, g).geciken <= IOzet(g).geciken
  <2> DEFINE R == {t \in IPlan \cap g : ~icra.iptal /\ TaksitOdenen(t) < icraTaksit[t]}
             O == {t \in IPlan \cap g : ~icra.iptal /\ TaksitGecerli(t) < icraTaksit[t]}
  <2>1. R \subseteq O
    <3> SUFFICES ASSUME NEW t \in R PROVE t \in O
      OBVIOUS
    <3>1. TaksitOdenen(t) \in Nat /\ TaksitGecerli(t) \in Nat /\ TaksitGecerli(t) <= TaksitOdenen(t) /\ icraTaksit[t] \in Int
      BY IFigurler
    <3> QED BY <3>1
  <2>2. IsFiniteSet(O)
    BY IPlanSonlu
  <2>3. Cardinality(R) <= Cardinality(O)
    BY <2>1, <2>2, FS_Subset
  <2> QED BY <1>1, <2>3, IOzetAlanlari, IRaporAlanlari
<1>6. /\ IOzet(g).alacak = (IF icra.iptal THEN 0 ELSE icra.toplam)
      /\ IOzet(g).tahsil = (IF icra.iptal THEN 0 ELSE AlacakOdenen)
      /\ IOzet(g).ay = ITopla(IOdemeler)
  BY IOzetAlanlari
<1>7. /\ IRapor(Yok, g).alacak = (IF icra.iptal THEN 0 ELSE icra.toplam)
      /\ IRapor(Yok, g).tahsil = (IF icra.iptal THEN 0 ELSE ITopla(IOdemeler))
      /\ IRapor(Yok, g).kalan = IKalan(IRapor(Yok, g).alacak, IRapor(Yok, g).tahsil)
      /\ IRapor(Yok, g).geciken = Cardinality({t \in IPlan \cap g : ~icra.iptal /\ TaksitOdenen(t) < icraTaksit[t]})
  BY <1>1, IRaporAlanlari
<1> QED BY <1>1, <1>2, <1>4, <1>5, <1>6, <1>7

(* With every payment counted the report and the overview agree.           *)
LEMMA IHepsiSayilir ==
  ASSUME IcraInv, icra # Yok, NEW g, IOdemeler \subseteq ISayilan
  PROVE  /\ IRapor(Yok, g).tahsil = IOzet(g).tahsil /\ IRapor(Yok, g).geciken = IOzet(g).geciken
         /\ IRapor(Yok, g).kalan = IKalan(IOzet(g).alacak, IOzet(g).tahsil)
         /\ IRaporDurum(g) = AlacakDurum({t \in IPlan \cap g : icraTaksit[t] > 0})
<1>0. icra.iptal \in BOOLEAN
  BY IAlacaktir
<1>1. ISayilan = IOdemeler /\ \A t : ITaksitte(t) \cap ISayilan = ITaksitte(t)
  BY DEF ISayilan, ITaksitte
<1>2. AlacakOdenen = ITopla(IOdemeler) /\ \A t : TaksitGecerli(t) = TaksitOdenen(t)
  BY <1>1 DEF AlacakOdenen, TaksitGecerli, TaksitOdenen
<1>8. /\ IRapor(Yok, g).alacak = (IF icra.iptal THEN 0 ELSE icra.toplam)
      /\ IRapor(Yok, g).tahsil = (IF icra.iptal THEN 0 ELSE ITopla(IOdemeler))
      /\ IRapor(Yok, g).kalan = IKalan(IRapor(Yok, g).alacak, IRapor(Yok, g).tahsil)
      /\ IRapor(Yok, g).geciken = Cardinality({t \in IPlan \cap g : ~icra.iptal /\ TaksitOdenen(t) < icraTaksit[t]})
  BY <1>0, IRaporAlanlari
<1>9. /\ IOzet(g).alacak = (IF icra.iptal THEN 0 ELSE icra.toplam)
      /\ IOzet(g).tahsil = (IF icra.iptal THEN 0 ELSE AlacakOdenen)
      /\ IOzet(g).geciken = Cardinality({t \in IPlan \cap g : ~icra.iptal /\ TaksitGecerli(t) < icraTaksit[t]})
  BY IOzetAlanlari, Zenon
<1>3. IRapor(Yok, g).tahsil = IOzet(g).tahsil /\ IRapor(Yok, g).alacak = IOzet(g).alacak
  BY <1>2, <1>8, <1>9
<1>4. IRapor(Yok, g).geciken = IOzet(g).geciken
  <2>1. {t \in IPlan \cap g : ~icra.iptal /\ TaksitOdenen(t) < icraTaksit[t]}
          = {t \in IPlan \cap g : ~icra.iptal /\ TaksitGecerli(t) < icraTaksit[t]}
    BY <1>2
  <2> QED BY <1>8, <1>9, <2>1, Zenon
<1>5. IRapor(Yok, g).kalan = IKalan(IOzet(g).alacak, IOzet(g).tahsil)
  BY <1>3, <1>8
<1> DEFINE G == {t \in IPlan \cap g : icraTaksit[t] > 0}
<1>6. (\E t \in IPlan \cap g : TaksitOdenen(t) < icraTaksit[t])
        <=> \E t \in G : icraTaksit[t] # Yok /\ (TaksitGecerli(t) < icraTaksit[t] \/ ITaksitte(t) = {})
  <2>1. \A t \in IPlan : /\ icraTaksit[t] \in Int /\ TaksitOdenen(t) \in Nat
                         /\ (TaksitOdenen(t) = 0 <=> ITaksitte(t) = {}) /\ icraTaksit[t] # Yok
    BY IFigurler DEF IPlan
  <2>2. ASSUME NEW t \in IPlan \cap g, TaksitOdenen(t) < icraTaksit[t]
        PROVE  t \in G /\ icraTaksit[t] # Yok /\ TaksitGecerli(t) < icraTaksit[t]
    BY <1>2, <2>1, <2>2
  <2>3. ASSUME NEW t \in G, TaksitGecerli(t) < icraTaksit[t] \/ ITaksitte(t) = {}
        PROVE  t \in IPlan \cap g /\ TaksitOdenen(t) < icraTaksit[t]
    BY <1>2, <2>1, <2>3
  <2> HIDE DEF G
  <2> QED BY <2>2, <2>3
<1>7. IRaporDurum(g) = AlacakDurum(G)
  <2> HIDE DEF G
  <2> QED BY <1>2, <1>6, Zenon DEF IRaporDurum, AlacakDurum
<1> QED BY <1>3, <1>4, <1>5, <1>7

(* The overview counts the instalments shown as late.                      *)
LEMMA IGecikenler ==
  ASSUME IcraInv, icra # Yok, NEW g
  PROVE  /\ IOzet(g).geciken = (IF icra.iptal THEN 0 ELSE Cardinality({t \in IPlan : TaksitDurum(t, g) = "GECIKTI"}))
         /\ ~icra.iptal => (IOzet(g).geciken > 0 <=> \E t \in IPlan \cap g : TaksitGecerli(t) < icraTaksit[t])
         /\ IOzet(g).geciken \in Nat
<1> DEFINE O == {t \in IPlan \cap g : ~icra.iptal /\ TaksitGecerli(t) < icraTaksit[t]}
<1>1. \A t \in IPlan : icraTaksit[t] \in Int /\ TaksitGecerli(t) \in Nat
  BY IFigurler
<1>2. \A t \in IPlan : TaksitDurum(t, g) = "GECIKTI" <=> t \in g /\ TaksitGecerli(t) < icraTaksit[t]
  BY <1>1 DEF TaksitDurum
<1>3. IsFiniteSet(O) /\ IOzet(g).geciken = Cardinality(O)
  BY IPlanSonlu, IOzetAlanlari
<1>4. CASE icra.iptal
  <2>1. O = {}
    BY <1>4
  <2>2. Cardinality(O) = 0
    BY <2>1, FS_EmptySet
  <2> QED BY <1>3, <1>4, <2>2
<1>5. CASE ~icra.iptal
  <2>1. O = {t \in IPlan : TaksitDurum(t, g) = "GECIKTI"}
    BY <1>2, <1>5
  <2>2. Cardinality(O) \in Nat /\ (Cardinality(O) = 0 <=> O = {})
    BY <1>3, FS_CardinalityType, FS_EmptySet
  <2>3. O # {} <=> \E t \in IPlan \cap g : TaksitGecerli(t) < icraTaksit[t]
    BY <1>5
  <2> HIDE DEF O
  <2> QED BY <1>3, <1>5, <2>1, <2>2, <2>3
<1> QED BY <1>4, <1>5

(* What is counted belongs to an instalment that is there, or to none.     *)
LEMMA ISayilanBolunur ==
  ASSUME IcraInv, iSasan = {}, NEW f, \A t \in IPlan \cup {0} : f[t] = TaksitGecerli(t)
  PROVE  AlacakOdenen = Topla(f, IPlan) + TaksitGecerli(0)
<1> DEFINE C == IPlan \cup {0}
           p == [x \in ISayilan |-> icraOdeme[x].t]
<1>0. IcraTipi
  BY DEF IcraInv
<1>1. IsFiniteSet(C) /\ 0 \notin IPlan /\ IsFiniteSet(IPlan)
  BY IPlanSonlu, FS_AddElement
<1>2. ISayilan \in SUBSET IOdemeler /\ IsFiniteSet(ISayilan) /\ \A x \in ISayilan : ITutarlar[x] \in Int
  BY <1>0, IOdemelerdir
<1>3. \A x \in ISayilan : p[x] \in C
  <2>1. ASSUME NEW x \in ISayilan PROVE icraOdeme[x].t \in IPlan \cup {0}
    <3>1. x \in IOdemeler /\ icraOdeme[x] \in IOdemeSatiri
      BY <1>0, <1>2, IOdemelerdir
    <3>2. icraOdeme[x].t \in INo \cup {0, Yok}
      BY <3>1 DEF IOdemeSatiri
    <3>3. icraOdeme[x].t # Yok /\ (icraOdeme[x].t \in INo => icraTaksit[icraOdeme[x].t] # Yok)
      BY <3>1 DEF IcraInv, IOdemeBagli
    <3> QED BY <3>2, <3>3 DEF IPlan
  <2> QED BY <2>1
<1> DEFINE v == [c \in C |-> ITaksitte(c) \cap ISayilan]
<1>4. \A c \in C : f[c] = Topla(ITutarlar, v[c]) /\ \A x : x \in v[c] <=> x \in ISayilan /\ p[x] = c
  <2>1. ASSUME NEW c \in C PROVE f[c] = Topla(ITutarlar, v[c]) /\ \A x : x \in v[c] <=> x \in ISayilan /\ p[x] = c
    <3>1. v[c] = ITaksitte(c) \cap ISayilan /\ \A x : x \in ITaksitte(c) \cap ISayilan <=> x \in ISayilan /\ p[x] = c
      BY <1>2 DEF ITaksitte
    <3>2. f[c] = Topla(ITutarlar, ITaksitte(c) \cap ISayilan)
      BY IToplaDir
    <3> HIDE DEF p, C, v
    <3> QED BY <3>1, <3>2
  <2> QED BY <2>1
<1>5. \A c \in C : f[c] \in Int
  BY IFigurler
<1> HIDE DEF p, v
<1>6. Topla(f, C) = Topla(ITutarlar, ISayilan)
  <2> HIDE DEF C
  <2>1. IsFiniteSet(C) /\ IsFiniteSet(ISayilan) /\ \A x \in ISayilan : ITutarlar[x] \in Int
    BY <1>1, <1>2
  <2> QED BY <1>3, <1>4, <2>1, ToplaGrup
<1>7. Topla(f, C) = f[0] + Topla(f, IPlan)
  BY <1>1, <1>5, ToplaEkle
<1>8. Topla(f, IPlan) \in Int /\ f[0] \in Int
  BY <1>1, <1>5, ToplaTamSayi
<1>9. f[0] = TaksitGecerli(0)
  OBVIOUS
<1> QED BY <1>6, <1>7, <1>8, <1>9, IToplaDir

(* What is left of the claim is what is left of its instalments and of the *)
(* advance, and each instalment has no more than it asks for.              *)
LEMMA IKalanBolunur ==
  ASSUME IcraInv, icra # Yok, iSasan = {}, ~icra.elle, IPlan # {}, \A t \in IPlan : icraTaksit[t] >= 0
  PROVE  /\ \A t \in IPlan : IKalanlar[t] = icraTaksit[t] - TaksitGecerli(t) /\ IKalanlar[t] \in Nat
         /\ Topla(IKalanlar, IPlan) \in Int
         /\ icra.toplam - AlacakOdenen = Topla(IKalanlar, IPlan) + icra.pesinat - TaksitGecerli(0)
         /\ TaksitGecerli(0) \in Nat /\ TaksitGecerli(0) <= icra.pesinat
<1>1. \A t : /\ TaksitGecerli(t) \in Nat /\ TaksitOdenen(t) \in Nat /\ TaksitGecerli(t) <= TaksitOdenen(t)
             /\ TaksitOdenen(t) = IOdenen(t)
  BY IFigurler
<1>2. \A t \in IPlan : icraTaksit[t] \in Int /\ (IOdenen(t) > 0 => IOdenen(t) <= icraTaksit[t])
  BY IFigurler, IPlanSonlu DEF IPlan
<1>3. ASSUME NEW t \in IPlan
      PROVE  IKalanlar[t] = icraTaksit[t] - TaksitGecerli(t) /\ IKalanlar[t] \in Nat
  <2>1. IKalanlar[t] = IKalan(icraTaksit[t], TaksitGecerli(t))
    BY DEF IKalanlar
  <2>2. TaksitGecerli(t) <= icraTaksit[t] /\ TaksitGecerli(t) \in Nat /\ icraTaksit[t] \in Int
    BY <1>1, <1>2
  <2> QED BY <2>1, <2>2 DEF IKalan
<1> DEFINE f == [t \in IPlan \cup {0} |-> TaksitGecerli(t)]
<1>4. \A t \in IPlan \cup {0} : f[t] = TaksitGecerli(t)
  OBVIOUS
<1> HIDE DEF f
<1>5. AlacakOdenen = Topla(f, IPlan) + TaksitGecerli(0)
  BY <1>4, ISayilanBolunur
<1>6. IsFiniteSet(IPlan) /\ \A t \in IPlan : icraTaksit[t] \in Int /\ f[t] \in Int /\ IKalanlar[t] = icraTaksit[t] - f[t]
  BY <1>1, <1>2, <1>3, <1>4, IPlanSonlu
<1>7. Topla(IKalanlar, IPlan) = Topla(icraTaksit, IPlan) - Topla(f, IPlan)
  BY <1>6, ToplaFark
<1>8. Topla(icraTaksit, IPlan) \in Int /\ Topla(f, IPlan) \in Int
  BY <1>6, ToplaTamSayi
<1>9. Topla(icraTaksit, IPlan) = icra.toplam - icra.pesinat /\ IOdenen(0) <= icra.pesinat
  BY DEF IcraInv, IPlanDogru, IOdenen
<1>10. icra.toplam \in Nat /\ icra.pesinat \in Nat
  BY IAlacaktir
<1>11. TaksitGecerli(0) \in Nat /\ TaksitGecerli(0) <= icra.pesinat
  BY <1>1, <1>9, <1>10
<1> QED BY <1>3, <1>5, <1>7, <1>8, <1>9, <1>10, <1>11

(* A paid claim has nothing left in any instalment.                        *)
LEMMA IOdendiyse ==
  ASSUME IcraInv, icra # Yok, iSasan = {}, ~icra.elle, IPlan # {}, \A t \in IPlan : icraTaksit[t] >= 0,
         AlacakOdenen >= icra.toplam, NEW t \in IPlan
  PROVE  TaksitGecerli(t) = icraTaksit[t]
<1>1. /\ \A u \in IPlan : IKalanlar[u] = icraTaksit[u] - TaksitGecerli(u) /\ IKalanlar[u] \in Nat
      /\ Topla(IKalanlar, IPlan) \in Int
      /\ icra.toplam - AlacakOdenen = Topla(IKalanlar, IPlan) + icra.pesinat - TaksitGecerli(0)
      /\ TaksitGecerli(0) \in Nat /\ TaksitGecerli(0) <= icra.pesinat
  BY IKalanBolunur
<1>2. AlacakOdenen \in Nat /\ icra.toplam \in Nat /\ icra.pesinat \in Nat
  BY IFigurler, IAlacaktir
<1>3. Topla(IKalanlar, IPlan) <= 0
  BY <1>1, <1>2
<1>4. IsFiniteSet(IPlan) /\ IPlan \ {t} \in SUBSET IPlan
  BY IPlanSonlu
<1>5. Topla(IKalanlar, IPlan) = IKalanlar[t] + Topla(IKalanlar, IPlan \ {t})
  BY <1>1, <1>4, ToplaCikar
<1>6. Topla(IKalanlar, IPlan \ {t}) \in Nat
  BY <1>1, <1>4, ToplaArtar
<1>7. icraTaksit[t] \in Int /\ TaksitGecerli(t) \in Nat
  BY IFigurler
<1>8. IKalanlar[t] = icraTaksit[t] - TaksitGecerli(t) /\ IKalanlar[t] \in Nat
  BY <1>1
<1>9. IKalanlar[t] = 0
  BY <1>3, <1>5, <1>6, <1>8
<1> QED BY <1>7, <1>8, <1>9

(* What the plan says of the claim, without a negative instalment.         *)
LEMMA IEksisizPlan ==
  ASSUME IcraInv, icra # Yok, iSasan = {}, ~icra.elle, ~icra.iptal, IPlan # {}, \A t \in IPlan : icraTaksit[t] >= 0,
         NEW g \in SUBSET INo
  PROVE  /\ IOzet(g).alacak - IOzet(g).tahsil =
              MapThenSumSet(LAMBDA t : IKalanlar[t], IPlan) + icra.pesinat - ITopla(ITaksitte(0) \cap ISayilan)
         /\ AlacakDurum(g) = "ODENDI" =>
              IOzet(g).geciken = 0 /\ \A t \in IPlan : icraTaksit[t] > 0 => TaksitDurum(t, g) = "ODENDI"
         /\ AlacakDurum(g) = "GECIKTI" <=>
              IOzet(g).geciken > 0 \/ (AlacakOdenen < icra.toplam /\ \E t \in IPlan \cap g : icraTaksit[t] = 0)
<1>1. IOzet(g).alacak = icra.toplam /\ IOzet(g).tahsil = AlacakOdenen
  BY IOzetAlanlari
<1>2. AlacakOdenen \in Nat /\ icra.toplam \in Nat
  BY IFigurler, IAlacaktir
<1>3. IOzet(g).alacak - IOzet(g).tahsil =
        MapThenSumSet(LAMBDA t : IKalanlar[t], IPlan) + icra.pesinat - ITopla(ITaksitte(0) \cap ISayilan)
  <2>1. MapThenSumSet(LAMBDA t : IKalanlar[t], IPlan) = Topla(IKalanlar, IPlan)
    BY DEF Topla
  <2>2. ITopla(ITaksitte(0) \cap ISayilan) = TaksitGecerli(0)
    BY DEF TaksitGecerli
  <2>3. icra.toplam - AlacakOdenen = Topla(IKalanlar, IPlan) + icra.pesinat - TaksitGecerli(0)
    BY IKalanBolunur
  <2> QED BY <1>1, <2>1, <2>2, <2>3
<1>4. AlacakDurum(g) = "ODENDI" <=> AlacakOdenen >= icra.toplam
  BY DEF AlacakDurum
<1>5. \A t \in IPlan : icraTaksit[t] \in Int /\ TaksitGecerli(t) \in Nat
  BY IFigurler
<1>6. IOzet(g).geciken \in Nat /\ (IOzet(g).geciken > 0 <=> \E t \in IPlan \cap g : TaksitGecerli(t) < icraTaksit[t])
  BY IGecikenler
<1>7. ASSUME AlacakOdenen >= icra.toplam
      PROVE  IOzet(g).geciken = 0 /\ \A t \in IPlan : icraTaksit[t] > 0 => TaksitDurum(t, g) = "ODENDI"
  <2>1. \A t \in IPlan : TaksitGecerli(t) = icraTaksit[t]
    BY <1>7, IOdendiyse
  <2>2. IOzet(g).geciken = 0
    BY <1>5, <1>6, <2>1
  <2>3. \A t \in IPlan : icraTaksit[t] > 0 => TaksitDurum(t, g) = "ODENDI"
    BY <1>5, <2>1 DEF TaksitDurum
  <2> QED BY <2>2, <2>3
<1>8. AlacakDurum(g) = "GECIKTI" <=>
        AlacakOdenen < icra.toplam /\ \E t \in IPlan \cap g : TaksitGecerli(t) < icraTaksit[t] \/ ITaksitte(t) = {}
  <2> DEFINE gec == \E t \in g : icraTaksit[t] # Yok /\ (TaksitGecerli(t) < icraTaksit[t] \/ ITaksitte(t) = {})
             gecP == \E t \in IPlan \cap g : TaksitGecerli(t) < icraTaksit[t] \/ ITaksitte(t) = {}
  <2>1. gec <=> gecP
    <3>1. gecP => gec
      BY DEF IPlan
    <3>2. ASSUME NEW t \in g, icraTaksit[t] # Yok, TaksitGecerli(t) < icraTaksit[t] \/ ITaksitte(t) = {}
          PROVE  t \in IPlan \cap g
      BY <3>2 DEF IPlan
    <3>3. gec => gecP
      BY <3>2
    <3> HIDE DEF gec, gecP
    <3> QED BY <3>1, <3>3
  <2>2. AlacakDurum(g) = IF AlacakOdenen >= icra.toplam THEN "ODENDI" ELSE IF gec THEN "GECIKTI"
                         ELSE IF AlacakOdenen > 0 THEN "KISMI_ODENDI" ELSE "ACIK"
    BY Zenon DEF AlacakDurum
  <2> HIDE DEF gec, gecP
  <2>3. AlacakDurum(g) = "GECIKTI" <=> AlacakOdenen < icra.toplam /\ gecP
    BY <1>2, <2>1, <2>2
  <2> QED BY <2>3 DEF gecP
<1>9. AlacakDurum(g) = "GECIKTI" <=>
        IOzet(g).geciken > 0 \/ (AlacakOdenen < icra.toplam /\ \E t \in IPlan \cap g : icraTaksit[t] = 0)
  <2>1. ASSUME IOzet(g).geciken > 0 PROVE AlacakDurum(g) = "GECIKTI"
    <3>1. AlacakOdenen < icra.toplam
      BY <1>2, <1>7, <2>1
    <3> QED BY <1>6, <1>8, <2>1, <3>1
  <2>2. ASSUME NEW t \in IPlan \cap g, icraTaksit[t] = 0 PROVE ITaksitte(t) = {}
    BY <2>2, IFigurler, IPlanSonlu DEF IPlan
  <2>3. ASSUME NEW t \in IPlan \cap g, ITaksitte(t) = {} PROVE TaksitGecerli(t) = 0
    BY <2>3, IFigurler
  <2>4. ASSUME NEW t \in IPlan \cap g, TaksitGecerli(t) < icraTaksit[t] \/ ITaksitte(t) = {}
        PROVE  TaksitGecerli(t) < icraTaksit[t] \/ icraTaksit[t] = 0
    BY <1>5, <2>3, <2>4
  <2> QED BY <1>6, <1>8, <2>1, <2>2, <2>4
<1> QED BY <1>3, <1>4, <1>7, <1>9

(* IcraTutarli: the overview, the list and the printed report of a claim   *)
(* agree with its instalments and payments.                                *)
LEMMA ITutarlidir == IcraInv => IcraTutarli
<1> SUFFICES ASSUME IcraInv PROVE IcraTutarli
  OBVIOUS
<1>1. \A t \in INo \ iSasan : icraTaksit[t] # Yok /\ TaksitGecerli(t) > 0 => TaksitGecerli(t) <= icraTaksit[t]
  <2> SUFFICES ASSUME NEW t \in INo \ iSasan, icraTaksit[t] # Yok, TaksitGecerli(t) > 0
               PROVE  TaksitGecerli(t) <= icraTaksit[t]
    OBVIOUS
  <2>1. TaksitGecerli(t) \in Nat /\ IOdenen(t) \in Nat /\ TaksitGecerli(t) <= IOdenen(t) /\ icraTaksit[t] \in Int
        /\ (IOdenen(t) > 0 => IOdenen(t) <= icraTaksit[t])
    BY IFigurler DEF IPlan
  <2> QED BY <2>1
<1>2. \A o \in IOdeme : icraOdeme[o] # Yok =>
        /\ icraOdeme[o].t = Yok => iSasan # {}
        /\ icraOdeme[o].iptalde => iSasan # {}
  BY DEF IcraInv, IOdemeBagli, IOdemeler
<1>3. ASSUME icra # Yok, iSasan = {}, ~icra.elle, NEW g \in SUBSET INo
      PROVE  /\ IPlan # {} => IFark = 0
             /\ {d \in IDurumlar : IListede(d, g)} = {AlacakDurum(g)}
             /\ {d \in IDurumlar : IRaporda(d, g)} = {IRaporDurum(g)}
  BY <1>3, IFarkYok, IDurumBir, IAlacaktir
<1> QED BY <1>1, <1>2, <1>3, IRaporUyar, IHepsiSayilir, IGecikenler, IEksisizPlan, Zenon DEF IcraTutarli

THEOREM IcraTutarlidir == IcraSpec => []IcraTutarli
BY IcraDegismez, ITutarlidir, PTL

(* The type invariant.                                                     *)
THEOREM IcraTipiKorunur == IcraSpec => []IcraTypeOK
<1>1. IcraInv => IcraTypeOK
  BY DEF IcraInv, IcraTipi, IcraTypeOK
<1> QED BY <1>1, IcraDegismez, PTL

-----------------------------------------------------------------------------
(* Bonuses *)

\* What a request keeps at each of its steps.
PKOku == [adim : {"oku"}, r : PKural, aktif : {"acik", "kapali", Yok}, acik : BOOLEAN, bayat : BOOLEAN]
PKYaz == [adim : {"kural"}, r : PKural \cup {Yok}, aktif : {"acik", "kapali", Yok}, kapsam : Kapsam, tarife : PTarife,
          kapat : SUBSET PKural, kilit : SUBSET PKural, bayat : BOOLEAN]
PKTop == [adim : {"topla"}, kural : PKural, tarife : PTarife, bayat : BOOLEAN]
PKRap == [adim : {"rapor"}, kural : PKural, tarife : PTarife, bayat : BOOLEAN, matrah : Nat]
PKayit == PKOku \cup PKYaz \cup PKTop \cup PKRap

PrimTipi ==
  /\ pKural \in [PKural -> PKuralSatiri \cup {Yok}]
  /\ pOdeme \in [POdeme -> POdemeSatiri \cup {Yok}]
  /\ pDonem \in PDonemSatiri \cup {Yok}
  /\ pIstek \in [PIstek -> PKayit \cup {Bos, Bitti}]
  /\ pSasan \subseteq PKural /\ pEski \in BOOLEAN

\* Of the rules of a scope that were saved alone, one is active.
PTekAktif == \A kapsam \in Kapsam : \A r, s \in PAktif(kapsam) \ pSasan : r = s

\* The base of the month, as a sum.
PToplam(t) == Topla(PTutarlar(TRUE), PDahil(t))

\* Rules that were read are still there.
PSaglam(i) ==
  /\ i.adim = "oku" => i.r \in PDolu
  /\ i.adim = "kural" => /\ i.r = Yok => i.aktif # Yok
                         /\ i.r # Yok => i.r \in PDolu
                         /\ i.kapat \subseteq PDolu

\* Whether the rule r is active once the request has been served.
PAcilir(aktif, r) == aktif = "acik" \/ (aktif = Yok /\ pKural[r].aktif)

\* What was read is still so.
PTaze(i) ==
  /\ i.adim = "oku" => (i.acik <=> PAcilir(i.aktif, i.r))
  /\ i.adim = "kural" => (PAcilir(i.aktif, i.r) => i.kapat = PAktif(i.kapsam) \ {i.r})
  /\ i.adim \in {"topla", "rapor"} => i.kural \in PUygulanan /\ i.tarife = pKural[i.kural].tarife
  /\ i.adim = "rapor" => i.matrah = PToplam(i.tarife)

PDogru(i) == PSaglam(i) /\ (~i.bayat => PTaze(i))
POkunanDogru == \A a \in PIstek : pIstek[a] \notin {Bos, Bitti} => PDogru(pIstek[a])

\* A month nothing was changed under is what the rule in force comes to.
PDonemDogru ==
  pDonem # Yok /\ ~pEski =>
    /\ pDonem.kural \in PUygulanan /\ pDonem.matrah = PToplam(pKural[pDonem.kural].tarife)
    /\ pDonem.prim = PHesap(pDonem.matrah, pKural[pDonem.kural].tarife)

PrimInv == PrimTipi /\ PTekAktif /\ POkunanDogru /\ PDonemDogru

(* The steps of a request tell its records apart; being outdated changes   *)
(* nothing else.                                                           *)
LEMMA PKayitlar ==
  ASSUME NEW i \in PKayit
  PROVE  /\ i \notin {Bos, Bitti} /\ i.bayat \in BOOLEAN
         /\ i.adim \in {"oku", "kural", "topla", "rapor"}
         /\ i.adim = "oku" <=> i \in PKOku
         /\ i.adim = "kural" <=> i \in PKYaz
         /\ i.adim = "topla" <=> i \in PKTop
         /\ i.adim = "rapor" <=> i \in PKRap
<1>1. CASE i \in PKOku
  BY <1>1 DEF PKOku, PKYaz, PKTop, PKRap, Bos, Bitti
<1>2. CASE i \in PKYaz
  BY <1>2 DEF PKOku, PKYaz, PKTop, PKRap, Bos, Bitti
<1>3. CASE i \in PKTop
  BY <1>3 DEF PKOku, PKYaz, PKTop, PKRap, Bos, Bitti
<1>4. CASE i \in PKRap
  BY <1>4 DEF PKOku, PKYaz, PKTop, PKRap, Bos, Bitti
<1> QED BY <1>1, <1>2, <1>3, <1>4 DEF PKayit

LEMMA PBayatlar ==
  ASSUME NEW i \in PKayit, NEW j, j = [i EXCEPT !.bayat = TRUE]
  PROVE  j \in PKayit /\ j.bayat /\ j.adim = i.adim /\ (PSaglam(i) => PSaglam(j))
<1>1. CASE i \in PKOku
  <2>1. j \in PKOku /\ j.bayat /\ j.adim = i.adim /\ j.r = i.r
    BY <1>1 DEF PKOku
  <2>2. j.adim = "oku"
    BY <2>1 DEF PKOku
  <2> QED BY <2>1, <2>2 DEF PKayit, PSaglam
<1>2. CASE i \in PKYaz
  <2>1. j \in PKYaz /\ j.bayat /\ j.adim = i.adim /\ j.r = i.r /\ j.aktif = i.aktif /\ j.kapat = i.kapat
    BY <1>2 DEF PKYaz
  <2>2. j.adim = "kural"
    BY <2>1 DEF PKYaz
  <2> QED BY <2>1, <2>2 DEF PKayit, PSaglam
<1>3. CASE i \in PKTop
  <2>1. j \in PKTop /\ j.bayat /\ j.adim = i.adim
    BY <1>3 DEF PKTop
  <2>2. j.adim = "topla"
    BY <2>1 DEF PKTop
  <2> QED BY <2>1, <2>2 DEF PKayit, PSaglam
<1>4. CASE i \in PKRap
  <2>1. j \in PKRap /\ j.bayat /\ j.adim = i.adim
    BY <1>4 DEF PKRap
  <2>2. j.adim = "rapor"
    BY <2>1 DEF PKRap
  <2> QED BY <2>1, <2>2 DEF PKayit, PSaglam
<1> QED BY <1>1, <1>2, <1>3, <1>4 DEF PKayit

(* Rows are rows.                                                          *)
LEMMA PSatirlar ==
  ASSUME PrimTipi
  PROVE  /\ \A r \in PDolu : r \in PKural /\ pKural[r] \in PKuralSatiri /\ pKural[r].aktif \in BOOLEAN
                             /\ pKural[r].kapsam \in Kapsam /\ pKural[r].tarife \in PTarife
         /\ \A kapsam : PAktif(kapsam) \subseteq PDolu
         /\ PUygulanan \subseteq PDolu
         /\ Yok \notin PKural /\ Yok \notin PKuralSatiri
<1>1. \A r \in PDolu : r \in PKural /\ pKural[r] \in PKuralSatiri
  BY DEF PDolu, PrimTipi
<1>2. Yok \notin PKural /\ Yok \notin PKuralSatiri
  BY PrimVarsayimi
<1> QED BY <1>1, <1>2 DEF PKuralSatiri, PAktif, PUygulanan

(* The base is an amount.                                                  *)
LEMMA PToplamlar ==
  ASSUME PrimTipi, NEW t
  PROVE  PMatrah(t) = PToplam(t) /\ PToplam(t) \in Nat
<1>1. PMatrah(t) = PToplam(t)
  BY DEF PMatrah, PToplam, Topla
<1>2. PTahsilatlar \subseteq POdeme /\ \A o \in PTahsilatlar : pOdeme[o] \in POdemeSatiri
  BY DEF PTahsilatlar, PrimTipi
<1>3. PDahil(t) \subseteq PTahsilatlar
  BY DEF PDahil
<1>4. IsFiniteSet(PDahil(t))
  BY <1>2, <1>3, PrimVarsayimi, FS_Subset
<1>5. \A o \in PTahsilatlar : PTutarlar(TRUE)[o] = pOdeme[o].tutar /\ pOdeme[o].tutar \in PTutar
  BY <1>2 DEF PTutarlar, POdemeSatiri
<1>6. \A o \in PDahil(t) : PTutarlar(TRUE)[o] \in Nat
  BY <1>3, <1>5, PrimVarsayimi
<1>7. PToplam(t) \in Nat
  BY <1>4, <1>6, ToplaArtar DEF PToplam
<1> QED BY <1>1, <1>7

(* Tiers pay an amount.                                                    *)
LEMMA PHesapSayi ==
  ASSUME NEW n \in Nat, NEW t \in PTarife
  PROVE  PHesap(n, t) \in Nat
<1> DEFINE k == t.kademe
<1>1. k \in Seq(PKademe) /\ \A i \in DOMAIN k : k[i] \in PKademe
  BY PrimVarsayimi
<1>2. IsFiniteSet(DOMAIN k)
  <2>1. DOMAIN k = 1 .. Len(k) /\ Len(k) \in Nat
    BY <1>1
  <2>2. 1 \in Int /\ Len(k) \in Int
    BY <2>1
  <2>3. IsFiniteSet(1 .. Len(k))
    BY <2>2, FS_Interval
  <2> QED BY <2>1, <2>3
<1>3. \A i \in DOMAIN k : k[i].min \in Nat /\ k[i].oran \in Nat /\ k[i].max \in Nat \cup {Yok}
  BY <1>1 DEF PKademe
<1> HIDE DEF k
<1>4. ASSUME NEW x \in Nat, NEW y \in Nat PROVE x * y \in Nat
  BY <1>4
<1>5. PTekDilim(n, k) \in Nat
  <2> DEFINE S == Ilk({j \in DOMAIN k : n >= k[j].min /\ PAlt(n, k[j].max) = n})
  <2>1. S \subseteq DOMAIN k /\ IsFiniteSet(S)
    BY <1>2, FS_Subset DEF Ilk
  <2>2. \A i \in S : PTumu(n, k)[i] \in Nat
    BY <1>3, <1>4, <2>1 DEF PTumu
  <2>3. Topla(PTumu(n, k), S) \in Nat
    BY <2>1, <2>2, ToplaArtar
  <2> QED BY <2>3 DEF PTekDilim, Topla
<1>6. PDilimli(n, k) \in Nat
  <2>1. \A i \in DOMAIN k : PPay(n, k, i) \in Int
    BY <1>3 DEF PPay, PAlt
  <2>2. ASSUME NEW i \in DOMAIN k PROVE PPaylar(n, k)[i] \in Nat
    <3>1. PPay(n, k, i) > 0 => PPay(n, k, i) \in Nat
      BY <2>1
    <3>2. PPay(n, k, i) > 0 => PPay(n, k, i) * k[i].oran \in Nat
      BY <1>3, <1>4, <3>1
    <3>3. PPaylar(n, k)[i] = IF PPay(n, k, i) > 0 THEN PPay(n, k, i) * k[i].oran ELSE 0
      BY DEF PPaylar
    <3> QED BY <3>2, <3>3
  <2>3. Topla(PPaylar(n, k), DOMAIN k) \in Nat
    BY <1>2, <2>2, ToplaArtar
  <2> QED BY <2>3 DEF PDilimli, Topla
<1> QED BY <1>5, <1>6 DEF PHesap, k

(* Every state begins so.                                                  *)
LEMMA PrimBaslangic == PrimInit => PrimInv
<1> SUFFICES ASSUME PrimInit PROVE PrimInv
  OBVIOUS
<1>1. PICK v \in {Yok} \cup {[kapsam |-> "TENANT_DEFAULT", aktif |-> TRUE, tarife |-> t] : t \in PTarife} :
           pKural = [r \in PKural |-> IF r \in Ilk(PKural) THEN v ELSE Yok]
  BY DEF PrimInit
<1>2. v \in PKuralSatiri \cup {Yok}
  <2>1. ASSUME NEW t \in PTarife, v = [kapsam |-> "TENANT_DEFAULT", aktif |-> TRUE, tarife |-> t]
        PROVE  v \in PKuralSatiri
    BY <2>1 DEF PKuralSatiri, Kapsam
  <2>2. v = Yok \/ \E t \in PTarife : v = [kapsam |-> "TENANT_DEFAULT", aktif |-> TRUE, tarife |-> t]
    OBVIOUS
  <2> QED BY <2>1, <2>2
<1>3. /\ pOdeme = [o \in POdeme |-> Yok] /\ pDonem = Yok
      /\ pIstek = [a \in PIstek |-> Bos] /\ pSasan = {} /\ pEski = FALSE
  BY DEF PrimInit
<1>4. PrimTipi
  BY <1>1, <1>2, <1>3 DEF PrimTipi
<1>5. \A r, s \in PDolu : r = s
  <2>1. PDolu \subseteq Ilk(PKural)
    BY <1>1 DEF PDolu
  <2>2. \A r, s \in Ilk(PKural) : r \in Int /\ s \in Int /\ r <= s /\ s <= r
    BY PrimVarsayimi DEF Ilk
  <2>3. \A r, s \in Ilk(PKural) : r = s
    BY <2>2
  <2> QED BY <2>1, <2>3
<1>6. PTekAktif
  BY <1>5 DEF PTekAktif, PAktif
<1>7. POkunanDogru /\ PDonemDogru
  BY <1>3 DEF POkunanDogru, PDonemDogru
<1> QED BY <1>4, <1>6, <1>7 DEF PrimInv

(* What holds of a record depends on the rules and the collections only.   *)
LEMMA PAyniSatirlar ==
  ASSUME UNCHANGED <<pKural, pOdeme>>
  PROVE  /\ PDolu' = PDolu /\ (\A kapsam : PAktif(kapsam)' = PAktif(kapsam)) /\ PUygulanan' = PUygulanan
         /\ \A t : PToplam(t)' = PToplam(t)
         /\ \A i : PDogru(i) => PDogru(i)'
<1>1. PDolu' = PDolu
  BY DEF PDolu
<1>2. \A kapsam : PAktif(kapsam)' = PAktif(kapsam)
  BY <1>1 DEF PAktif
<1>3. PUygulanan' = PUygulanan
  BY <1>2 DEF PUygulanan
<1>4. \A t : PToplam(t)' = PToplam(t)
  <2>1. PTahsilatlar' = PTahsilatlar
    BY DEF PTahsilatlar
  <2>2. PTutarlar(TRUE)' = PTutarlar(TRUE) /\ \A t : PDahil(t)' = PDahil(t)
    BY <2>1 DEF PTutarlar, PDahil
  <2>3. ASSUME NEW t PROVE PToplam(t)' = PToplam(t)
    BY <2>2, Zenon DEF PToplam
  <2> QED BY <2>3
<1>5. \A aktif, r : PAcilir(aktif, r)' <=> PAcilir(aktif, r)
  BY DEF PAcilir
<1>6. ASSUME NEW i, PDogru(i) PROVE PDogru(i)'
  BY <1>1, <1>2, <1>3, <1>4, <1>5, <1>6 DEF PDogru, PSaglam, PTaze
<1> QED BY <1>1, <1>2, <1>3, <1>4, <1>6

(* A request that keeps what it has read, or is answered.                  *)
LEMMA POkur ==
  ASSUME PrimInv, NEW a \in PIstek, NEW k \in PKayit \cup {Bitti}, pIstek' = [pIstek EXCEPT ![a] = k],
         k \in PKayit => PDogru(k), UNCHANGED <<pKural, pOdeme>>
  PROVE  pIstek' \in [PIstek -> PKayit \cup {Bos, Bitti}] /\ POkunanDogru'
<1>0. pIstek \in [PIstek -> PKayit \cup {Bos, Bitti}] /\ POkunanDogru
  BY DEF PrimInv, PrimTipi
<1>1. pIstek' \in [PIstek -> PKayit \cup {Bos, Bitti}] /\ pIstek'[a] = k /\ \A b \in PIstek \ {a} : pIstek'[b] = pIstek[b]
  BY <1>0
<1>2. \A i : PDogru(i) => PDogru(i)'
  BY PAyniSatirlar
<1>3. ASSUME NEW b \in PIstek, pIstek'[b] \notin {Bos, Bitti} PROVE PDogru(pIstek[b])'
  <2>1. PICK i : i = pIstek'[b]
    OBVIOUS
  <2>2. PDogru(i)
    BY <1>0, <1>1, <1>3, <2>1 DEF POkunanDogru
  <2>3. PDogru(i)'
    BY <1>2, <2>2
  <2> QED BY <2>1, <2>3 DEF PDogru, PSaglam, PTaze
<1> QED BY <1>1, <1>3 DEF POkunanDogru

(* Nothing but what the requests keep changes.                             *)
LEMMA POkumaKorur ==
  ASSUME PrimInv, NEW a \in PIstek, NEW k \in PKayit \cup {Bitti}, pIstek' = [pIstek EXCEPT ![a] = k],
         k \in PKayit => PDogru(k), UNCHANGED <<pKural, pOdeme, pDonem, pSasan, pEski>>
  PROVE  PrimInv'
<1>1. pIstek' \in [PIstek -> PKayit \cup {Bos, Bitti}] /\ POkunanDogru'
  BY POkur
<1>2. PrimTipi'
  BY <1>1 DEF PrimInv, PrimTipi
<1>3. (\A kapsam : PAktif(kapsam)' = PAktif(kapsam)) /\ PUygulanan' = PUygulanan /\ \A t : PToplam(t)' = PToplam(t)
  BY PAyniSatirlar
<1>4. PTekAktif'
  BY <1>3 DEF PrimInv, PTekAktif
<1>5. PDonemDogru'
  BY <1>3 DEF PrimInv, PDonemDogru
<1> QED BY <1>1, <1>2, <1>4, <1>5 DEF PrimInv

(* The first step of a request.                                            *)
LEMMA POkumalar ==
  ASSUME PrimInv, NEW a \in PIstek, PKuralOku(a) \/ PRaporOku(a)
  PROVE  PrimInv'
<1>0. PrimTipi
  BY DEF PrimInv
<1>1. CASE PKuralOku(a)
  <2>1. PICK r \in PDolu, aktif \in {"acik", "kapali", Yok} :
             /\ pIstek' = [pIstek EXCEPT ![a] = [adim |-> "oku", r |-> r, aktif |-> aktif,
                             acik |-> aktif = "acik" \/ (aktif = Yok /\ pKural[r].aktif), bayat |-> FALSE]]
             /\ UNCHANGED <<pKural, pOdeme, pDonem, pSasan, pEski>>
    BY <1>1 DEF PKuralOku, PGelir
  <2>2. PICK c : c = (aktif = "acik" \/ (aktif = Yok /\ pKural[r].aktif)) /\ c \in BOOLEAN
    OBVIOUS
  <2>3. PICK k : k = [adim |-> "oku", r |-> r, aktif |-> aktif, acik |-> c, bayat |-> FALSE]
    OBVIOUS
  <2>4. r \in PKural
    BY <1>0, PSatirlar
  <2>5. k \in PKOku /\ k.adim = "oku" /\ k.r = r /\ k.aktif = aktif /\ k.acik = c
    BY <2>2, <2>3, <2>4 DEF PKOku
  <2>6. PSaglam(k)
    BY <2>5 DEF PSaglam
  <2>7. PTaze(k)
    BY <2>2, <2>5 DEF PTaze, PAcilir
  <2>8. k \in PKayit /\ pIstek' = [pIstek EXCEPT ![a] = k]
    BY <2>1, <2>2, <2>3, <2>5 DEF PKayit
  <2> QED BY <2>1, <2>6, <2>7, <2>8, POkumaKorur DEF PDogru
<1>2. CASE PRaporOku(a)
  <2>1. PICK r \in PUygulanan :
             /\ pIstek' = [pIstek EXCEPT ![a] = [adim |-> "topla", kural |-> r, tarife |-> pKural[r].tarife, bayat |-> FALSE]]
             /\ UNCHANGED <<pKural, pOdeme, pDonem, pSasan, pEski>>
    BY <1>2 DEF PRaporOku, PGelir
  <2>2. PICK k : k = [adim |-> "topla", kural |-> r, tarife |-> pKural[r].tarife, bayat |-> FALSE]
    OBVIOUS
  <2>3. r \in PKural /\ pKural[r].tarife \in PTarife
    BY <1>0, PSatirlar
  <2>4. k \in PKTop /\ k.adim = "topla" /\ k.kural = r /\ k.tarife = pKural[r].tarife
    BY <2>2, <2>3 DEF PKTop
  <2>5. PDogru(k)
    BY <2>4 DEF PDogru, PSaglam, PTaze
  <2>6. k \in PKayit /\ pIstek' = [pIstek EXCEPT ![a] = k]
    BY <2>1, <2>2, <2>4 DEF PKayit
  <2> QED BY <2>1, <2>5, <2>6, POkumaKorur
<1> QED BY <1>1, <1>2

(* The rules that will be switched off.                                    *)
LEMMA PKapatir ==
  ASSUME PrimInv, NEW a \in PIstek, PKuralKapat(a)
  PROVE  PrimInv'
<1>0. PrimTipi /\ POkunanDogru
  BY DEF PrimInv
<1>12. PICK kapsam \in Kapsam, t \in PTarife :
        /\ \/ \E aktif \in {"acik", "kapali"} : PGelir(a, PAcik(a, kapsam, t, Yok, aktif, aktif = "acik"))
           \/ /\ PAdimda(a, "oku")
              /\ pIstek' = [pIstek EXCEPT ![a] = PAcik(a, kapsam, t, pIstek[a].r, pIstek[a].aktif, pIstek[a].acik)]
        /\ UNCHANGED <<pKural, pOdeme, pDonem, pSasan, pEski>>
  BY DEF PKuralKapat
<1>1. PICK r, aktif, acik :
           /\ \/ r = Yok /\ aktif \in {"acik", "kapali"} /\ acik = (aktif = "acik") /\ pIstek[a] = Bos
              \/ PAdimda(a, "oku") /\ r = pIstek[a].r /\ aktif = pIstek[a].aktif /\ acik = pIstek[a].acik
           /\ pIstek' = [pIstek EXCEPT ![a] = PAcik(a, kapsam, t, r, aktif, acik)]
           /\ UNCHANGED <<pKural, pOdeme, pDonem, pSasan, pEski>>
  <2>1. CASE \E aktif \in {"acik", "kapali"} : PGelir(a, PAcik(a, kapsam, t, Yok, aktif, aktif = "acik"))
    <3>1. PICK aktif \in {"acik", "kapali"} : PGelir(a, PAcik(a, kapsam, t, Yok, aktif, aktif = "acik"))
      BY <2>1
    <3>2. pIstek[a] = Bos /\ pIstek' = [pIstek EXCEPT ![a] = PAcik(a, kapsam, t, Yok, aktif, aktif = "acik")]
      BY <3>1 DEF PGelir, Ilk
    <3> QED BY <1>12, <3>2, Zenon
  <2>2. CASE /\ PAdimda(a, "oku")
             /\ pIstek' = [pIstek EXCEPT ![a] = PAcik(a, kapsam, t, pIstek[a].r, pIstek[a].aktif, pIstek[a].acik)]
    BY <1>12, <2>2, Zenon
  <2> QED BY <1>12, <2>1, <2>2
<1>2. PICK b : b = (pIstek[a] # Bos /\ pIstek[a].bayat) /\ b \in BOOLEAN
  OBVIOUS
<1>3. PICK k : k = PAcik(a, kapsam, t, r, aktif, acik)
  OBVIOUS
<1>11. k = [adim |-> "kural", r |-> r, aktif |-> aktif, kapsam |-> kapsam, tarife |-> t,
            kapat |-> PKapat(kapsam, r, acik), kilit |-> PKapat(kapsam, r, acik) \ PKilitli(a), bayat |-> b]
  BY <1>2, <1>3 DEF PAcik
<1>4. /\ r \in PKural \cup {Yok} /\ aktif \in {"acik", "kapali", Yok} /\ (r = Yok => aktif # Yok) /\ (r # Yok => r \in PDolu)
      /\ ~b => (acik <=> PAcilir(aktif, r))
  <2>1. CASE r = Yok /\ aktif \in {"acik", "kapali"} /\ acik = (aktif = "acik") /\ pIstek[a] = Bos
    <3>1. aktif # Yok
      BY <2>1, PrimVarsayimi
    <3> QED BY <2>1, <3>1 DEF PAcilir
  <2>2. CASE PAdimda(a, "oku") /\ r = pIstek[a].r /\ aktif = pIstek[a].aktif /\ acik = pIstek[a].acik
    <3>1. pIstek[a] \in PKayit \cup {Bos, Bitti} /\ pIstek[a].adim = "oku"
      BY <1>0, <2>2 DEF PrimTipi, PAdimda
    <3>2. pIstek[a] \in PKayit
      BY <3>1 DEF Bos, Bitti
    <3>3. pIstek[a] \in PKOku /\ pIstek[a] \notin {Bos, Bitti}
      BY <3>1, <3>2, PKayitlar
    <3>4. PDogru(pIstek[a])
      BY <1>0, <3>3 DEF POkunanDogru
    <3>5. r \in PKural /\ aktif \in {"acik", "kapali", Yok} /\ r \in PDolu
      BY <2>2, <3>1, <3>3, <3>4 DEF PKOku, PDogru, PSaglam
    <3>6. r # Yok
      BY <1>0, <3>5, PSatirlar
    <3>7. ~b => (acik <=> PAcilir(aktif, r))
      BY <1>2, <2>2, <3>1, <3>3, <3>4 DEF PDogru, PTaze
    <3> QED BY <3>5, <3>6, <3>7
  <2> QED BY <1>1, <2>1, <2>2
<1>5. PKapat(kapsam, r, acik) \subseteq PDolu /\ PDolu \subseteq PKural
      /\ (acik => PKapat(kapsam, r, acik) = PAktif(kapsam) \ {r})
  BY DEF PKapat, PAktif, PDolu
<1>6. k \in PKYaz
  BY <1>2, <1>4, <1>5, <1>11 DEF PKYaz
<1>7. k.adim = "kural" /\ k.r = r /\ k.aktif = aktif /\ k.kapsam = kapsam /\ k.kapat = PKapat(kapsam, r, acik) /\ k.bayat = b
  BY <1>11
<1>8. PSaglam(k)
  BY <1>4, <1>5, <1>7 DEF PSaglam
<1>9. ~b => PTaze(k)
  BY <1>4, <1>5, <1>7 DEF PTaze
<1>10. k \in PKayit /\ pIstek' = [pIstek EXCEPT ![a] = k]
  BY <1>1, <1>3, <1>6 DEF PKayit
<1> QED BY <1>1, <1>7, <1>8, <1>9, <1>10, POkumaKorur DEF PDogru

(* What a request keeps, once it has begun.                                *)
LEMMA PAdimi ==
  ASSUME PrimInv, NEW a \in PIstek, pIstek[a].adim \in {"oku", "kural", "topla", "rapor"}
  PROVE  pIstek[a] \in PKayit /\ PDogru(pIstek[a])
<1>1. pIstek[a] \in PKayit \cup {Bos, Bitti}
  BY DEF PrimInv, PrimTipi
<1>2. pIstek[a] \notin {Bos, Bitti}
  BY DEF Bos, Bitti
<1> QED BY <1>1, <1>2 DEF PrimInv, POkunanDogru

(* The report sums up the collections, and is written; a lost request.     *)
LEMMA PToplar ==
  ASSUME PrimInv, NEW a \in PIstek, PRaporTopla(a)
  PROVE  PrimInv'
<1>0. PrimTipi
  BY DEF PrimInv
<1>1. PICK i : i = pIstek[a]
  OBVIOUS
<1>2. /\ i.adim = "topla"
      /\ pIstek' = [pIstek EXCEPT ![a] = [adim |-> "rapor", kural |-> i.kural, tarife |-> i.tarife, bayat |-> i.bayat,
                                          matrah |-> PMatrah(i.tarife)]]
      /\ UNCHANGED <<pKural, pOdeme, pDonem, pSasan, pEski>>
  BY <1>1 DEF PRaporTopla, PAdimda
<1>3. i \in PKayit /\ PDogru(i)
  BY <1>1, <1>2, PAdimi
<1>4. i \in PKTop
  BY <1>2, <1>3, PKayitlar
<1>5. PICK k : k = [adim |-> "rapor", kural |-> i.kural, tarife |-> i.tarife, bayat |-> i.bayat, matrah |-> PMatrah(i.tarife)]
  OBVIOUS
<1>6. PMatrah(i.tarife) = PToplam(i.tarife) /\ PToplam(i.tarife) \in Nat
  BY <1>0, PToplamlar
<1>7. /\ k \in PKRap /\ k.adim = "rapor" /\ k.kural = i.kural /\ k.tarife = i.tarife /\ k.bayat = i.bayat
      /\ k.matrah = PToplam(i.tarife)
  BY <1>4, <1>5, <1>6 DEF PKTop, PKRap
<1>8. PDogru(k)
  BY <1>2, <1>3, <1>7 DEF PDogru, PSaglam, PTaze
<1>9. k \in PKayit /\ pIstek' = [pIstek EXCEPT ![a] = k]
  BY <1>2, <1>5, <1>7 DEF PKayit
<1> QED BY <1>2, <1>8, <1>9, POkumaKorur

LEMMA PRaporYazilir ==
  ASSUME PrimInv, NEW a \in PIstek, PRaporYaz(a)
  PROVE  PrimInv'
<1>0. PrimTipi
  BY DEF PrimInv
<1>1. PICK i : i = pIstek[a]
  OBVIOUS
<1>2. /\ i.adim = "rapor" /\ pIstek' = [pIstek EXCEPT ![a] = Bitti] /\ pEski' = i.bayat
      /\ pDonem' = [matrah |-> i.matrah, prim |-> PHesap(i.matrah, i.tarife), kural |-> i.kural, odendi |-> FALSE]
      /\ UNCHANGED <<pKural, pOdeme, pSasan>>
  BY <1>1 DEF PRaporYaz, PAdimda
<1>3. i \in PKayit /\ PDogru(i)
  BY <1>1, <1>2, PAdimi
<1>4. i \in PKRap
  BY <1>2, <1>3, PKayitlar
<1>5. i.kural \in PKural /\ i.tarife \in PTarife /\ i.bayat \in BOOLEAN /\ i.matrah \in Nat
  BY <1>4 DEF PKRap
<1>6. PHesap(i.matrah, i.tarife) \in Nat
  BY <1>5, PHesapSayi
<1>7. pDonem' \in PDonemSatiri
  BY <1>2, <1>5, <1>6 DEF PDonemSatiri
<1>8. pIstek' \in [PIstek -> PKayit \cup {Bos, Bitti}] /\ POkunanDogru'
  <2>1. Bitti \notin PKayit
    BY PKayitlar
  <2> QED BY <1>2, <2>1, POkur
<1>9. PrimTipi'
  BY <1>0, <1>2, <1>5, <1>7, <1>8 DEF PrimTipi
<1>10. (\A kapsam : PAktif(kapsam)' = PAktif(kapsam)) /\ PUygulanan' = PUygulanan /\ \A t : PToplam(t)' = PToplam(t)
  BY <1>2, PAyniSatirlar
<1>11. PTekAktif'
  BY <1>2, <1>10 DEF PrimInv, PTekAktif
<1>12. PDonemDogru'
  <2>1. pDonem'.kural = i.kural /\ pDonem'.matrah = i.matrah /\ pDonem'.prim = PHesap(i.matrah, i.tarife)
    BY <1>2
  <2>2. ~i.bayat => i.kural \in PUygulanan /\ i.tarife = pKural[i.kural].tarife /\ i.matrah = PToplam(i.tarife)
    BY <1>2, <1>3 DEF PDogru, PTaze
  <2> QED BY <1>2, <1>10, <2>1, <2>2 DEF PDonemDogru
<1> QED BY <1>8, <1>9, <1>11, <1>12 DEF PrimInv

LEMMA PDuserOder ==
  ASSUME PrimInv, (\E a \in PIstek : PDuser(a)) \/ PrimOdendi
  PROVE  PrimInv'
<1>0. PrimTipi
  BY DEF PrimInv
<1>1. ASSUME NEW a \in PIstek, PDuser(a) PROVE PrimInv'
  <2>1. Bitti \notin PKayit
    BY PKayitlar
  <2>2. pIstek' = [pIstek EXCEPT ![a] = Bitti] /\ UNCHANGED <<pKural, pOdeme, pDonem, pSasan, pEski>>
    BY <1>1 DEF PDuser
  <2> QED BY <2>1, <2>2, POkumaKorur
<1>2. CASE PrimOdendi
  <2>1. /\ pDonem # Yok /\ pDonem \in PDonemSatiri /\ pDonem' = [pDonem EXCEPT !.odendi = TRUE]
        /\ UNCHANGED <<pKural, pOdeme, pIstek, pSasan, pEski>>
    BY <1>0, <1>2 DEF PrimOdendi, PrimTipi
  <2>2. pDonem' \in PDonemSatiri /\ pDonem'.kural = pDonem.kural /\ pDonem'.matrah = pDonem.matrah /\ pDonem'.prim = pDonem.prim
    BY <2>1 DEF PDonemSatiri
  <2>3. /\ (\A kapsam : PAktif(kapsam)' = PAktif(kapsam)) /\ PUygulanan' = PUygulanan /\ (\A t : PToplam(t)' = PToplam(t))
        /\ \A i : PDogru(i) => PDogru(i)'
    BY <2>1, PAyniSatirlar
  <2>4. PrimTipi'
    BY <1>0, <2>1, <2>2 DEF PrimTipi
  <2>5. PTekAktif'
    BY <2>1, <2>3 DEF PrimInv, PTekAktif
  <2>6. PDonemDogru'
    BY <2>1, <2>2, <2>3 DEF PrimInv, PDonemDogru
  <2>7. POkunanDogru'
    <3>1. ASSUME NEW b \in PIstek, pIstek[b] \notin {Bos, Bitti} PROVE PDogru(pIstek[b])'
      <4>1. PICK i : i = pIstek[b] /\ PDogru(i)
        BY <3>1 DEF PrimInv, POkunanDogru
      <4>2. PDogru(i)'
        BY <2>3, <4>1
      <4> QED BY <2>1, <4>1, <4>2 DEF PDogru, PSaglam, PTaze
    <3> QED BY <2>1, <3>1 DEF POkunanDogru
  <2> QED BY <2>4, <2>5, <2>6, <2>7 DEF PrimInv
<1> QED BY <1>1, <1>2

(* What a change of the rules leaves to the requests: all they keep is     *)
(* outdated.                                                               *)
LEMMA PHepsiBayat ==
  ASSUME PrimInv, NEW a \in PIstek, PDolu \subseteq PDolu',
         PDegisti([pIstek EXCEPT ![a] = Bitti], {"oku", "kural", "topla", "rapor"})
  PROVE  pIstek' \in [PIstek -> PKayit \cup {Bos, Bitti}] /\ POkunanDogru'
<1>0. pIstek \in [PIstek -> PKayit \cup {Bos, Bitti}] /\ POkunanDogru
  BY DEF PrimInv, PrimTipi
<1>1. PICK k : k = [pIstek EXCEPT ![a] = Bitti]
  OBVIOUS
<1>2. /\ k \in [PIstek -> PKayit \cup {Bos, Bitti}]
      /\ \A b \in PIstek : k[b] = IF b = a THEN Bitti ELSE pIstek[b]
  BY <1>0, <1>1
<1>3. pIstek' = [b \in PIstek |-> IF k[b].adim \in {"oku", "kural", "topla", "rapor"}
                                  THEN [k[b] EXCEPT !.bayat = TRUE] ELSE k[b]]
  BY <1>1 DEF PDegisti
<1>4. ASSUME NEW b \in PIstek
      PROVE  /\ pIstek'[b] \in PKayit \cup {Bos, Bitti}
             /\ pIstek'[b] \notin {Bos, Bitti} => PSaglam(pIstek'[b]) /\ pIstek'[b].bayat
  <2>1. CASE k[b] \in PKayit
    <3>1. k[b].adim \in {"oku", "kural", "topla", "rapor"} /\ k[b] \notin {Bos, Bitti}
      BY <2>1, PKayitlar
    <3>2. b # a /\ k[b] = pIstek[b]
      BY <1>2, <3>1
    <3>3. PICK i \in PKayit : i = k[b] /\ PSaglam(i)
      BY <1>0, <2>1, <3>1, <3>2 DEF POkunanDogru, PDogru
    <3>4. PICK j : j = [i EXCEPT !.bayat = TRUE]
      OBVIOUS
    <3>5. j \in PKayit /\ j.bayat /\ PSaglam(j)
      BY <3>3, <3>4, PBayatlar
    <3>6. pIstek'[b] = j
      BY <1>3, <3>1, <3>3, <3>4
    <3> QED BY <3>5, <3>6
  <2>2. CASE k[b] \in {Bos, Bitti}
    <3>1. k[b].adim \notin {"oku", "kural", "topla", "rapor"}
      BY <2>2 DEF Bos, Bitti
    <3> QED BY <1>3, <2>2, <3>1
  <2> QED BY <1>2, <2>1, <2>2
<1>5. ASSUME NEW b \in PIstek, pIstek'[b] \notin {Bos, Bitti} PROVE PDogru(pIstek[b])'
  <2>1. PICK j : j = pIstek'[b] /\ PSaglam(j) /\ j.bayat
    BY <1>4, <1>5
  <2>2. PSaglam(j)'
    BY <2>1 DEF PSaglam
  <2>3. PDogru(j)'
    BY <2>1, <2>2 DEF PDogru
  <2> QED BY <2>1, <2>3 DEF PDogru, PSaglam, PTaze
<1> QED BY <1>3, <1>4, <1>5 DEF POkunanDogru

(* A change of the rules.                                                  *)
LEMMA PKuralDegisir ==
  ASSUME PrimInv, NEW a \in PIstek, pKural' \in [PKural -> PKuralSatiri \cup {Yok}], PDolu \subseteq PDolu',
         PDegisti([pIstek EXCEPT ![a] = Bitti], {"oku", "kural", "topla", "rapor"}),
         pSasan' \subseteq PKural, PTekAktif', UNCHANGED <<pOdeme, pDonem>>
  PROVE  PrimInv'
<1>1. pIstek' \in [PIstek -> PKayit \cup {Bos, Bitti}] /\ POkunanDogru'
  BY PHepsiBayat
<1>2. pEski' = (pDonem # Yok)
  BY DEF PDegisti
<1>3. PrimTipi'
  BY <1>1, <1>2 DEF PrimInv, PrimTipi
<1>4. PDonemDogru'
  BY <1>2 DEF PDonemDogru
<1> QED BY <1>1, <1>3, <1>4 DEF PrimInv

LEMMA PPasif ==
  ASSUME PrimInv, NEW a \in PIstek, PKuralPasif(a)
  PROVE  PrimInv'
<1>0. PrimTipi
  BY DEF PrimInv
<1>1. PICK r \in PDolu :
           /\ pKural' = [pKural EXCEPT ![r].aktif = FALSE]
           /\ PDegisti([pIstek EXCEPT ![a] = Bitti], {"oku", "kural", "topla", "rapor"}) /\ UNCHANGED <<pOdeme, pDonem, pSasan>>
  BY DEF PKuralPasif
<1>2. PICK x \in PKuralSatiri : x = pKural[r] /\ r \in PKural
  BY <1>0, PSatirlar
<1>3. PICK y : y = [x EXCEPT !.aktif = FALSE]
  OBVIOUS
<1>4. y \in PKuralSatiri /\ ~y.aktif /\ y # Yok
  BY <1>0, <1>2, <1>3, PSatirlar DEF PKuralSatiri
<1>5. /\ pKural' \in [PKural -> PKuralSatiri \cup {Yok}] /\ pKural'[r] = y
      /\ \A s \in PKural \ {r} : pKural'[s] = pKural[s]
  BY <1>0, <1>1, <1>2, <1>3, <1>4 DEF PrimTipi
<1>6. PDolu \subseteq PDolu'
  BY <1>4, <1>5 DEF PDolu
<1>7. \A kapsam : PAktif(kapsam)' \subseteq PAktif(kapsam)
  BY <1>4, <1>5 DEF PAktif, PDolu
<1>8. PTekAktif'
  BY <1>1, <1>7 DEF PrimInv, PTekAktif
<1> QED BY <1>0, <1>1, <1>5, <1>6, <1>8, PKuralDegisir DEF PrimTipi

LEMMA PKuralYazilir ==
  ASSUME PrimInv, NEW a \in PIstek, PKuralYaz(a)
  PROVE  PrimInv'
<1>0. PrimTipi
  BY DEF PrimInv
<1>1. PICK i : i = pIstek[a]
  OBVIOUS
<1>2. PICK r : /\ i.adim = "kural" /\ r \in IF i.r = Yok THEN Ilk(PKural \ PDolu) ELSE {i.r}
               /\ pKural' = [s \in PKural |->
                    IF s = r THEN [kapsam |-> i.kapsam, tarife |-> i.tarife,
                                   aktif |-> IF i.aktif = Yok THEN pKural[r].aktif ELSE i.aktif = "acik"]
                    ELSE IF s \in i.kapat THEN [pKural[s] EXCEPT !.aktif = FALSE] ELSE pKural[s]]
               /\ pSasan' = (IF i.bayat THEN pSasan \cup {r} ELSE pSasan)
               /\ PDegisti([pIstek EXCEPT ![a] = Bitti], {"oku", "kural", "topla", "rapor"}) /\ UNCHANGED <<pOdeme, pDonem>>
  <2> DEFINE kural(r) == [kapsam |-> i.kapsam, tarife |-> i.tarife,
                          aktif |-> IF i.aktif = Yok THEN pKural[r].aktif ELSE i.aktif = "acik"]
  <2>1. /\ PAdimda(a, "kural")
        /\ \E r \in IF i.r = Yok THEN Ilk(PKural \ PDolu) ELSE {i.r} :
             /\ pKural' = [s \in PKural |-> IF s = r THEN kural(r)
                             ELSE IF s \in i.kapat THEN [pKural[s] EXCEPT !.aktif = FALSE] ELSE pKural[s]]
             /\ pSasan' = IF i.bayat THEN pSasan \cup {r} ELSE pSasan
        /\ PDegisti([pIstek EXCEPT ![a] = Bitti], {"oku", "kural", "topla", "rapor"}) /\ UNCHANGED <<pOdeme, pDonem>>
    BY <1>1, Zenon DEF PKuralYaz
  <2>2. i.adim = "kural"
    BY <1>1, <2>1 DEF PAdimda
  <2>3. PICK r \in IF i.r = Yok THEN Ilk(PKural \ PDolu) ELSE {i.r} :
             /\ pKural' = [s \in PKural |-> IF s = r THEN kural(r)
                             ELSE IF s \in i.kapat THEN [pKural[s] EXCEPT !.aktif = FALSE] ELSE pKural[s]]
             /\ pSasan' = IF i.bayat THEN pSasan \cup {r} ELSE pSasan
    BY <2>1
  <2>4. PDegisti([pIstek EXCEPT ![a] = Bitti], {"oku", "kural", "topla", "rapor"}) /\ UNCHANGED <<pOdeme, pDonem>>
    BY <2>1
  <2> QED BY <2>2, <2>3, <2>4
<1>3. i \in PKayit /\ PDogru(i)
  BY <1>1, <1>2, PAdimi
<1>4. /\ i \in PKYaz /\ i.r \in PKural \cup {Yok} /\ i.kapsam \in Kapsam /\ i.tarife \in PTarife /\ i.bayat \in BOOLEAN
      /\ (i.r = Yok => i.aktif # Yok) /\ (i.r # Yok => i.r \in PDolu) /\ i.kapat \subseteq PDolu
      /\ ~i.bayat => (PAcilir(i.aktif, i.r) => i.kapat = PAktif(i.kapsam) \ {i.r})
  <2>1. i \in PKYaz
    BY <1>2, <1>3, PKayitlar
  <2> QED BY <1>2, <1>3, <2>1 DEF PKYaz, PDogru, PSaglam, PTaze
<1>5. r \in PKural /\ (i.r = Yok => r \notin PDolu) /\ (i.r # Yok => r = i.r)
  BY <1>2, <1>4 DEF Ilk
<1>6. PICK c : c = (IF i.aktif = Yok THEN pKural[r].aktif ELSE i.aktif = "acik") /\ c \in BOOLEAN /\ (c <=> PAcilir(i.aktif, r))
  <2>1. CASE i.aktif = Yok
    <3>1. r \in PDolu
      BY <1>4, <1>5, <2>1
    <3>2. pKural[r].aktif \in BOOLEAN /\ Yok # "acik"
      BY <1>0, <3>1, PSatirlar, PrimVarsayimi
    <3> QED BY <2>1, <3>2 DEF PAcilir
  <2>2. CASE i.aktif # Yok
    BY <2>2 DEF PAcilir
  <2> QED BY <2>1, <2>2
<1>7. PICK y : y = [kapsam |-> i.kapsam, tarife |-> i.tarife, aktif |-> c]
  OBVIOUS
<1>8. y \in PKuralSatiri /\ y # Yok /\ y.aktif = c /\ y.kapsam = i.kapsam
  <2>1. y \in PKuralSatiri
    BY <1>4, <1>6, <1>7 DEF PKuralSatiri
  <2> QED BY <1>0, <1>7, <2>1, PSatirlar
<1>9. pKural' = [s \in PKural |-> IF s = r THEN y
                   ELSE IF s \in i.kapat THEN [pKural[s] EXCEPT !.aktif = FALSE] ELSE pKural[s]]
  BY <1>2, <1>6, <1>7
<1>10. ASSUME NEW s \in PKural \ {r}
       PROVE  /\ pKural'[s] \in PKuralSatiri \cup {Yok} /\ (s \in PDolu => pKural'[s] # Yok)
              /\ pKural'[s] # Yok /\ pKural'[s].aktif => pKural'[s] = pKural[s] /\ s \notin i.kapat
  <2>1. CASE s \in i.kapat
    <3>1. PICK x \in PKuralSatiri : x = pKural[s]
      BY <1>0, <1>4, <2>1, PSatirlar
    <3>2. [x EXCEPT !.aktif = FALSE] \in PKuralSatiri /\ ~[x EXCEPT !.aktif = FALSE].aktif
      BY <3>1 DEF PKuralSatiri
    <3>3. pKural'[s] = [x EXCEPT !.aktif = FALSE]
      BY <1>9, <2>1, <3>1
    <3> QED BY <1>0, <3>2, <3>3, PSatirlar
  <2>2. CASE s \notin i.kapat
    <3>1. pKural'[s] = pKural[s]
      BY <1>9, <2>2
    <3> QED BY <1>0, <2>2, <3>1 DEF PrimTipi, PDolu
  <2> QED BY <2>1, <2>2
<1>11. pKural'[r] = y
  BY <1>5, <1>9
<1>12. pKural' \in [PKural -> PKuralSatiri \cup {Yok}]
  BY <1>8, <1>9, <1>10, <1>11
<1>13. PDolu \subseteq PDolu'
  BY <1>8, <1>10, <1>11 DEF PDolu
<1>14. ASSUME NEW kapsam, NEW s \in PAktif(kapsam)', s # r PROVE s \in PAktif(kapsam) /\ s \notin i.kapat
  <2>1. s \in PKural \ {r} /\ pKural'[s] # Yok /\ pKural'[s].aktif /\ pKural'[s].kapsam = kapsam
    BY <1>14 DEF PAktif, PDolu
  <2>2. pKural'[s] = pKural[s] /\ s \notin i.kapat
    BY <1>10, <2>1
  <2> QED BY <2>1, <2>2 DEF PAktif, PDolu
<1>15. PTekAktif'
  <2> SUFFICES ASSUME NEW kapsam \in Kapsam, NEW s \in (PAktif(kapsam) \ pSasan)', NEW t \in (PAktif(kapsam) \ pSasan)'
               PROVE  s = t
    BY DEF PTekAktif
  <2>1. CASE r \notin {s, t}
    <3>1. s \in PAktif(kapsam) \ pSasan /\ t \in PAktif(kapsam) \ pSasan
      BY <1>2, <1>14, <2>1
    <3> QED BY <3>1 DEF PrimInv, PTekAktif
  <2>2. ASSUME NEW u \in (PAktif(kapsam) \ pSasan)', u # r, r \in (PAktif(kapsam) \ pSasan)' PROVE FALSE
    <3>1. ~i.bayat
      BY <1>2, <2>2
    <3>2. c /\ i.kapsam = kapsam
      BY <1>8, <1>11, <2>2 DEF PAktif, PDolu
    <3>3. PAcilir(i.aktif, i.r)
      <4>1. CASE i.r = Yok
        BY <1>4, <1>6, <3>2, <4>1 DEF PAcilir
      <4>2. CASE i.r # Yok
        BY <1>5, <1>6, <3>2, <4>2
      <4> QED BY <4>1, <4>2
    <3>4. u \in PAktif(kapsam) /\ u \notin i.kapat
      BY <1>14, <2>2
    <3>5. u = i.r
      BY <1>4, <3>1, <3>2, <3>3, <3>4
    <3>6. u # Yok
      BY <1>0, <3>4, PSatirlar
    <3> QED BY <1>5, <2>2, <3>5, <3>6
  <2> QED BY <2>1, <2>2
<1>16. pSasan' \subseteq PKural
  BY <1>0, <1>2, <1>5 DEF PrimTipi
<1> QED BY <1>2, <1>12, <1>13, <1>15, <1>16, PKuralDegisir

(* A collection comes in or is cancelled: the reports are outdated, and    *)
(* what was read of the rules is not.                                      *)
LEMMA PTahsilatOlur ==
  ASSUME PrimInv, PTahsilat
  PROVE  PrimInv'
<1>0. PrimTipi /\ POkunanDogru
  BY DEF PrimInv
<1>1. UNCHANGED <<pKural, pDonem, pSasan>> /\ pEski' = (pDonem # Yok)
  BY DEF PTahsilat, PDegisti
<1>2. pOdeme' \in [POdeme -> POdemeSatiri \cup {Yok}]
  <2>1. PICK o \in POdeme :
             \/ \E x \in PTutar : pOdeme' = [pOdeme EXCEPT ![o] = [tutar |-> x, iptal |-> FALSE]]
             \/ pOdeme[o] # Yok /\ pOdeme' = [pOdeme EXCEPT ![o].iptal = TRUE]
    BY DEF PTahsilat
  <2>2. CASE \E x \in PTutar : pOdeme' = [pOdeme EXCEPT ![o] = [tutar |-> x, iptal |-> FALSE]]
    BY <1>0, <2>2 DEF PrimTipi, POdemeSatiri
  <2>3. CASE pOdeme[o] # Yok /\ pOdeme' = [pOdeme EXCEPT ![o].iptal = TRUE]
    <3>1. PICK x \in POdemeSatiri : x = pOdeme[o]
      BY <1>0, <2>3 DEF PrimTipi
    <3>2. [x EXCEPT !.iptal = TRUE] \in POdemeSatiri
      BY <3>1 DEF POdemeSatiri
    <3>3. pOdeme' = [pOdeme EXCEPT ![o] = [x EXCEPT !.iptal = TRUE]]
      BY <2>3, <3>1
    <3> QED BY <1>0, <3>2, <3>3 DEF PrimTipi
  <2> QED BY <2>1, <2>2, <2>3
<1>3. PDolu' = PDolu /\ (\A kapsam : PAktif(kapsam)' = PAktif(kapsam)) /\ \A aktif, r : PAcilir(aktif, r)' <=> PAcilir(aktif, r)
  <2>1. PDolu' = PDolu
    BY <1>1 DEF PDolu
  <2>2. \A kapsam : PAktif(kapsam)' = PAktif(kapsam)
    BY <1>1, <2>1 DEF PAktif
  <2> QED BY <1>1, <2>1, <2>2 DEF PAcilir
<1>4. pIstek' = [b \in PIstek |-> IF pIstek[b].adim \in {"topla", "rapor"} THEN [pIstek[b] EXCEPT !.bayat = TRUE] ELSE pIstek[b]]
  BY DEF PTahsilat, PDegisti
<1>5. ASSUME NEW b \in PIstek
      PROVE  /\ pIstek'[b] \in PKayit \cup {Bos, Bitti}
             /\ pIstek'[b] \notin {Bos, Bitti} => PDogru(pIstek[b])'
  <2>1. CASE pIstek[b].adim \in {"topla", "rapor"}
    <3>1. PICK i \in PKayit : i = pIstek[b] /\ PSaglam(i)
      BY <2>1, PAdimi DEF PDogru
    <3>2. PICK j : j = [i EXCEPT !.bayat = TRUE]
      OBVIOUS
    <3>3. j \in PKayit /\ j.bayat /\ PSaglam(j)
      BY <3>1, <3>2, PBayatlar
    <3>4. pIstek'[b] = j
      BY <1>4, <2>1, <3>1, <3>2
    <3>5. PDogru(j)'
      BY <1>3, <3>3 DEF PDogru, PSaglam
    <3> QED BY <3>3, <3>4, <3>5 DEF PDogru, PSaglam, PTaze
  <2>2. CASE pIstek[b].adim \notin {"topla", "rapor"}
    <3>1. pIstek'[b] = pIstek[b] /\ pIstek[b] \in PKayit \cup {Bos, Bitti}
      BY <1>0, <1>4, <2>2 DEF PrimTipi
    <3>2. ASSUME pIstek[b] \notin {Bos, Bitti} PROVE PDogru(pIstek[b])'
      <4>1. PICK i : i = pIstek[b] /\ PDogru(i) /\ i.adim \notin {"topla", "rapor"}
        BY <1>0, <2>2, <3>2 DEF POkunanDogru
      <4>2. PDogru(i)'
        BY <1>3, <4>1 DEF PDogru, PSaglam, PTaze
      <4> QED BY <3>1, <4>1, <4>2 DEF PDogru, PSaglam, PTaze
    <3> QED BY <3>1, <3>2
  <2> QED BY <2>1, <2>2
<1>6. POkunanDogru'
  BY <1>5 DEF POkunanDogru
<1>7. PrimTipi'
  BY <1>0, <1>1, <1>2, <1>4, <1>5 DEF PrimTipi
<1>8. PTekAktif'
  BY <1>1, <1>3 DEF PrimInv, PTekAktif
<1>9. PDonemDogru'
  BY <1>1 DEF PDonemDogru
<1> QED BY <1>6, <1>7, <1>8, <1>9 DEF PrimInv

LEMMA PrimAdimi ==
  ASSUME PrimInv, [PrimNext]_primVars
  PROVE  PrimInv'
<1>1. CASE PrimOdendi \/ \E a \in PIstek : PDuser(a)
  BY <1>1, PDuserOder
<1>2. CASE PTahsilat
  BY <1>2, PTahsilatOlur
<1>3. ASSUME NEW a \in PIstek,
             PKuralOku(a) \/ PKuralKapat(a) \/ PKuralYaz(a) \/ PKuralPasif(a) \/ PRaporOku(a) \/ PRaporTopla(a) \/ PRaporYaz(a)
      PROVE  PrimInv'
  BY <1>3, POkumalar, PKapatir, PKuralYazilir, PPasif, PToplar, PRaporYazilir
<1>4. CASE UNCHANGED primVars
  <2>1. UNCHANGED <<pKural, pOdeme, pDonem, pIstek, pSasan, pEski>>
    BY <1>4 DEF primVars
  <2>2. /\ (\A kapsam : PAktif(kapsam)' = PAktif(kapsam)) /\ PUygulanan' = PUygulanan /\ (\A t : PToplam(t)' = PToplam(t))
        /\ \A i : PDogru(i) => PDogru(i)'
    BY <2>1, PAyniSatirlar
  <2>3. ASSUME NEW b \in PIstek, pIstek[b] \notin {Bos, Bitti} PROVE PDogru(pIstek[b])'
    <3>1. PICK i : i = pIstek[b] /\ PDogru(i)
      BY <2>3 DEF PrimInv, POkunanDogru
    <3>2. PDogru(i)'
      BY <2>2, <3>1
    <3> QED BY <2>1, <3>1, <3>2 DEF PDogru, PSaglam, PTaze
  <2>4. POkunanDogru'
    BY <2>1, <2>3 DEF POkunanDogru
  <2>5. PrimTipi' /\ PTekAktif' /\ PDonemDogru'
    BY <2>1, <2>2 DEF PrimInv, PrimTipi, PTekAktif, PDonemDogru
  <2> QED BY <2>4, <2>5 DEF PrimInv
<1> QED BY <1>1, <1>2, <1>3, <1>4 DEF PrimNext

THEOREM PrimDegismez == PrimSpec => []PrimInv
<1>1. PrimInit => PrimInv
  BY PrimBaslangic
<1>2. PrimInv /\ [PrimNext]_primVars => PrimInv'
  BY PrimAdimi
<1> QED BY <1>1, <1>2, PTL DEF PrimSpec

-----------------------------------------------------------------------------
(* Tiers without a gap *)

(* Of some numbers, one is the least.                                      *)
LEMMA EnKucukSayi ==
  ASSUME NEW B \in SUBSET Nat, B # {}
  PROVE  \E m \in B : \A n \in B : m <= n
<1> DEFINE R == OpToRel(<, Nat)
<1>1. IsWellFoundedOn(R, Nat)
  BY NatLessThanWellFounded
<1>2. \A x, y \in Nat : y < x => <<y, x>> \in R
  BY DEF OpToRel
<1> HIDE DEF R
<1>3. PICK m \in B : \A n \in B : ~(<<n, m>> \in R)
  BY <1>1, WFMin
<1>4. ASSUME NEW n \in B PROVE m <= n
  <2>1. m \in Nat /\ n \in Nat /\ ~(n < m)
    BY <1>2, <1>3
  <2> QED BY <2>1
<1> QED BY <1>4

\* The tier i takes the unit u.
PAlir(k, u, i) == i \in DOMAIN k /\ k[i].min < u /\ PAlt(u, k[i].max) = u

(* What tiers are.                                                         *)
LEMMA PKademeler ==
  ASSUME NEW k \in Seq(PKademe), k # <<>>
  PROVE  /\ Len(k) \in Nat \ {0} /\ DOMAIN k = 1 .. Len(k) /\ IsFiniteSet(DOMAIN k)
         /\ \A i \in DOMAIN k : k[i].min \in Nat /\ k[i].oran \in Nat /\ k[i].max \in Nat \cup {Yok}
<1>1. Len(k) \in Nat \ {0} /\ DOMAIN k = 1 .. Len(k)
  OBVIOUS
<1>2. 1 \in Int /\ Len(k) \in Int
  BY <1>1
<1>3. IsFiniteSet(1 .. Len(k))
  BY <1>2, FS_Interval
<1>4. \A i \in DOMAIN k : k[i] \in PKademe
  OBVIOUS
<1>5. \A i \in DOMAIN k : k[i].min \in Nat /\ k[i].oran \in Nat /\ k[i].max \in Nat \cup {Yok}
  BY <1>4 DEF PKademe
<1> QED BY <1>1, <1>3, <1>5

(* The tiers after one begin where it ends or later.                       *)
LEMMA PSirali ==
  ASSUME NEW k \in Seq(PKademe), k # <<>>, PAraliksiz(k), NEW i \in DOMAIN k, NEW j \in DOMAIN k, i < j
  PROVE  k[i].max \in Nat /\ k[i].max <= k[j].min
<1> DEFINE B == {n \in DOMAIN k : i < n /\ ~(k[i].max <= k[n].min)}
<1>0. /\ Len(k) \in Nat \ {0} /\ DOMAIN k = 1 .. Len(k) /\ Yok \notin Nat
      /\ \A n \in DOMAIN k : k[n].min \in Nat /\ k[n].max \in Nat \cup {Yok}
  BY PKademeler, PrimVarsayimi
<1>1. \A n \in 1 .. Len(k) - 1 : n \in DOMAIN k /\ n + 1 \in DOMAIN k /\ k[n].min < k[n].max /\ k[n].max = k[n + 1].min
  BY <1>0 DEF PAraliksiz
<1>2. i \in 1 .. Len(k) - 1 /\ k[i].max \in Nat
  <2>1. i \in 1 .. Len(k) - 1
    BY <1>0
  <2> QED BY <1>0, <1>1, <2>1
<1>3. SUFFICES ASSUME B # {} PROVE FALSE
  BY <1>2
<1>4. B \in SUBSET Nat
  BY <1>0
<1>5. PICK n \in B : \A m \in B : n <= m
  <2> HIDE DEF B
  <2> QED BY <1>3, <1>4, EnKucukSayi
<1>6. n \in Nat /\ i \in Nat /\ n \in 1 .. Len(k) /\ i < n /\ ~(k[i].max <= k[n].min)
  BY <1>0, <1>5
<1>7. CASE n = i + 1
  BY <1>0, <1>1, <1>2, <1>6, <1>7
<1>8. CASE n # i + 1
  <2>1. n - 1 \in 1 .. Len(k) - 1 /\ i < n - 1 /\ n - 1 \notin B /\ (n - 1) + 1 = n
    BY <1>0, <1>5, <1>6, <1>8
  <2>2. n - 1 \in DOMAIN k /\ k[n - 1].min < k[n - 1].max /\ k[n - 1].max = k[n].min
    BY <1>1, <2>1
  <2>3. k[i].max <= k[n - 1].min
    BY <2>1, <2>2
  <2>4. k[n - 1].min \in Nat /\ k[n].min \in Nat
    BY <1>0, <1>6, <2>2
  <2>5. PICK a \in Nat : a = k[i].max
    BY <1>2
  <2>6. PICK b \in Nat : b = k[n - 1].min
    BY <2>4
  <2>7. PICK c \in Nat : c = k[n].min
    BY <2>4
  <2>8. ~(a <= c) /\ b < c /\ a <= b
    BY <1>6, <2>2, <2>3, <2>5, <2>6, <2>7
  <2> QED BY <2>8
<1> QED BY <1>7, <1>8

(* Each unit belongs to one of them.                                       *)
LEMMA PKademesi ==
  ASSUME NEW k \in Seq(PKademe), k # <<>>, PAraliksiz(k), NEW u \in Nat \ {0}
  PROVE  /\ \E i \in DOMAIN k : PAlir(k, u, i)
         /\ \A i, j : PAlir(k, u, i) /\ PAlir(k, u, j) => i = j
<1>0. /\ Len(k) \in Nat \ {0} /\ DOMAIN k = 1 .. Len(k) /\ Yok \notin Nat
      /\ \A n \in DOMAIN k : k[n].min \in Nat /\ k[n].max \in Nat \cup {Yok}
  BY PKademeler, PrimVarsayimi
<1>1. /\ k[1].min = 0 /\ k[Len(k)].max = Yok
      /\ \A n \in 1 .. Len(k) - 1 : n \in DOMAIN k /\ n + 1 \in DOMAIN k /\ k[n].max = k[n + 1].min
  BY <1>0 DEF PAraliksiz
<1> DEFINE B == {n \in DOMAIN k : ~(k[n].min < u)}
<1>2. ASSUME B = {} PROVE \E i \in DOMAIN k : PAlir(k, u, i)
  <2>1. Len(k) \in DOMAIN k /\ k[Len(k)].min < u
    BY <1>0, <1>2
  <2>2. PAlt(u, k[Len(k)].max) = u
    BY <1>1 DEF PAlt
  <2>3. PAlir(k, u, Len(k))
    BY <2>1, <2>2 DEF PAlir
  <2> QED BY <2>1, <2>3
<1>3. ASSUME B # {} PROVE \E i \in DOMAIN k : PAlir(k, u, i)
  <2>1. B \in SUBSET Nat
    BY <1>0
  <2>2. PICK n \in B : \A m \in B : n <= m
    <3> HIDE DEF B
    <3> QED BY <1>3, <2>1, EnKucukSayi
  <2>3. n \in 1 .. Len(k) /\ ~(k[n].min < u) /\ n # 1
    BY <1>0, <1>1, <2>2
  <2>4. n - 1 \in 1 .. Len(k) - 1 /\ (n - 1) + 1 = n /\ n - 1 \notin B
    BY <1>0, <2>2, <2>3
  <2>5. n - 1 \in DOMAIN k /\ k[n - 1].min < u /\ k[n - 1].max = k[n].min
    BY <1>1, <2>4
  <2>6. u <= k[n - 1].max
    BY <1>0, <2>3, <2>5
  <2>7. PAlt(u, k[n - 1].max) = u
    BY <2>6 DEF PAlt
  <2>8. PAlir(k, u, n - 1)
    BY <2>5, <2>7 DEF PAlir
  <2> QED BY <2>5, <2>8
<1>4. ASSUME NEW i, NEW j, PAlir(k, u, i), PAlir(k, u, j), i < j PROVE FALSE
  <2>1. i \in DOMAIN k /\ j \in DOMAIN k /\ k[j].min < u /\ PAlt(u, k[i].max) = u
    BY <1>4 DEF PAlir
  <2>2. k[i].max \in Nat /\ k[i].max <= k[j].min /\ k[j].min \in Nat
    BY <1>0, <1>4, <2>1, PSirali
  <2>3. u <= k[i].max
    BY <1>0, <2>1, <2>2 DEF PAlt
  <2> QED BY <2>1, <2>2, <2>3
<1>5. ASSUME NEW i, NEW j, PAlir(k, u, i), PAlir(k, u, j) PROVE i = j
  <2>1. i \in 1 .. Len(k) /\ j \in 1 .. Len(k)
    BY <1>0, <1>5 DEF PAlir
  <2>2. ~(i < j) /\ ~(j < i)
    BY <1>4, <1>5
  <2> QED BY <2>1, <2>2
<1>6. \E i \in DOMAIN k : PAlir(k, u, i)
  <2> HIDE DEF B
  <2> QED BY <1>2, <1>3
<1>7. \A i, j : PAlir(k, u, i) /\ PAlir(k, u, j) => i = j
  BY <1>5
<1> QED BY <1>6, <1>7

(* Tiers that follow each other without a gap pay every unit once, at the  *)
(* rate of its tier.                                                       *)
LEMMA PBirimBirimdir ==
  ASSUME NEW k \in Seq(PKademe), k # <<>>, PAraliksiz(k), NEW n \in Nat
  PROVE  PDilimli(n, k) = PBirimBirim(n, k)
<1> DEFINE K == 1 .. n  C == DOMAIN k  f == PPaylar(n, k)  w == PBirimler(n, k)
           p == [u \in K |-> CHOOSE i \in C : k[i].min < u /\ PAlt(u, k[i].max) = u]
           v == [i \in C |-> (k[i].min + 1) .. PAlt(n, k[i].max)]
<1>0. /\ IsFiniteSet(C) /\ Yok \notin Nat
      /\ \A i \in C : k[i].min \in Nat /\ k[i].oran \in Nat /\ k[i].max \in Nat \cup {Yok}
  BY PKademeler, PrimVarsayimi
<1>1. IsFiniteSet(K) /\ \A u \in K : u \in Nat \ {0} /\ u <= n
  <2>1. 1 \in Int /\ n \in Int
    OBVIOUS
  <2> QED BY <2>1, FS_Interval
<1>2. ASSUME NEW u \in K PROVE p[u] \in C /\ \A i \in C : PAlir(k, u, i) <=> p[u] = i
  <2>1. (\E i \in C : PAlir(k, u, i)) /\ \A i, j : PAlir(k, u, i) /\ PAlir(k, u, j) => i = j
    BY <1>1, PKademesi
  <2>2. p[u] = CHOOSE i \in C : k[i].min < u /\ PAlt(u, k[i].max) = u
    OBVIOUS
  <2>3. \E i \in C : k[i].min < u /\ PAlt(u, k[i].max) = u
    BY <2>1 DEF PAlir
  <2>4. p[u] \in C /\ k[p[u]].min < u /\ PAlt(u, k[p[u]].max) = u
    <3> HIDE DEF p
    <3> QED BY <2>2, <2>3, Zenon
  <2>5. PAlir(k, u, p[u])
    BY <2>4 DEF PAlir
  <2> HIDE DEF p
  <2> QED BY <2>1, <2>4, <2>5
<1>3. \A u \in K : w[u] = k[p[u]].oran
  BY DEF PBirimler
<1>4. ASSUME NEW i \in C PROVE PAlt(n, k[i].max) \in Nat
  BY <1>0 DEF PAlt
<1>5. ASSUME NEW i \in C, NEW x PROVE x \in v[i] <=> x \in K /\ p[x] = i
  <2>1. v[i] = (k[i].min + 1) .. PAlt(n, k[i].max)
    OBVIOUS
  <2>2. ASSUME NEW u \in Nat PROVE u <= PAlt(n, k[i].max) <=> u <= n /\ PAlt(u, k[i].max) = u
    BY <1>0, <2>2 DEF PAlt
  <2>3. x \in v[i] <=> x \in Nat /\ k[i].min < x /\ x <= PAlt(n, k[i].max)
    BY <1>0, <1>4, <2>1
  <2>4. x \in v[i] <=> x \in K /\ PAlir(k, x, i)
    BY <1>0, <2>2, <2>3 DEF PAlir
  <2> HIDE DEF p, v
  <2> QED BY <1>2, <2>4
<1>6. ASSUME NEW i \in C PROVE f[i] = Topla(w, v[i])
  <2>1. PICK a \in Nat : a = k[i].min
    BY <1>0
  <2>2. PICK b \in Nat : b = PAlt(n, k[i].max)
    BY <1>4
  <2>3. PICK c \in Nat : c = k[i].oran
    BY <1>0
  <2>4. v[i] = (a + 1) .. b
    BY <2>1, <2>2
  <2>5. a + 1 \in Int /\ b \in Int
    OBVIOUS
  <2>6. IsFiniteSet(v[i]) /\ Cardinality(v[i]) = IF a + 1 > b THEN 0 ELSE b - (a + 1) + 1
    BY <2>4, <2>5, FS_Interval
  <2>7. \A u \in v[i] : w[u] = c
    <3> HIDE DEF p, v, w
    <3> QED BY <1>3, <1>5, <2>3
  <2>8. Topla(w, v[i]) = c * Cardinality(v[i])
    <3> HIDE DEF v, w
    <3>1. PICK V : V = v[i]
      OBVIOUS
    <3>2. IsFiniteSet(V) /\ c \in Int /\ \A u \in V : w[u] = c
      BY <2>6, <2>7, <3>1
    <3>3. Topla(w, V) = c * Cardinality(V)
      BY <3>2, ToplaSabit
    <3> QED BY <3>1, <3>3
  <2>9. f[i] = IF b - a > 0 THEN (b - a) * c ELSE 0
    BY <2>1, <2>2, <2>3 DEF PPaylar, PPay
  <2>10. ASSUME a + 1 > b PROVE c * 0 = 0 /\ ~(b - a > 0)
    BY <2>10
  <2>11. ASSUME ~(a + 1 > b) PROVE b - a > 0 /\ b - (a + 1) + 1 = b - a /\ (b - a) * c = c * (b - a)
    BY <2>11
  <2> HIDE DEF f, v, w
  <2> QED BY <2>6, <2>8, <2>9, <2>10, <2>11
<1>7. (\A u \in K : p[u] \in C) /\ (\A u \in K : w[u] \in Int)
  <2>1. \A u \in K : p[u] \in C
    BY <1>2
  <2> HIDE DEF K, C, w, p
  <2>2. \A u \in K : w[u] \in Nat
    BY <1>0, <1>3, <2>1
  <2> QED BY <2>1, <2>2
<1>10. \A i \in C : f[i] = Topla(w, v[i]) /\ \A x : x \in v[i] <=> x \in K /\ p[x] = i
  BY <1>5, <1>6
<1>11. IsFiniteSet(C) /\ IsFiniteSet(K)
  BY <1>0, <1>1
<1> HIDE DEF K, C, f, w, p, v
<1>8. Topla(f, C) = Topla(w, K)
  BY <1>7, <1>10, <1>11, ToplaGrup
<1>9. PDilimli(n, k) = Topla(f, C) /\ PBirimBirim(n, k) = Topla(w, K)
  BY DEF PDilimli, PBirimBirim, Topla, f, w, C, K
<1> QED BY <1>8, <1>9

\* The collections in S, added up as the details show them.
PSatirToplami(dahil, S) == MapThenSumSet(LAMBDA o : PTutarlar(dahil)[o], S)

(* PrimTutarli, from the invariant.                                        *)
LEMMA PTutarlidir == PrimInv => PrimTutarli
<1> SUFFICES ASSUME PrimInv PROVE PrimTutarli
  OBVIOUS
<1>0. PrimTipi
  BY DEF PrimInv
<1>1. ASSUME NEW kapsam \in Kapsam PROVE Cardinality(PAktif(kapsam) \ pSasan) <= 1
  <2> DEFINE S == PAktif(kapsam) \ pSasan
  <2>1. \A r, s \in S : r = s
    BY DEF PrimInv, PTekAktif
  <2> HIDE DEF S
  <2>2. CASE S = {}
    BY <2>2, FS_EmptySet DEF S
  <2>3. CASE S # {}
    <3>1. PICK r : S = {r}
      BY <2>1, <2>3
    <3>2. Cardinality(S) = 1
      BY <3>1, FS_Singleton
    <3> QED BY <3>2 DEF S
  <2> QED BY <2>2, <2>3
<1>2. ASSUME pDonem # Yok, ~pEski, NEW tarife, tarife = pKural[pDonem.kural].tarife
      PROVE  /\ pDonem.kural \in PUygulanan /\ pDonem.matrah = PMatrah(tarife)
             /\ pDonem.prim = PHesap(PMatrah(tarife), tarife)
             /\ PPanel(pDonem.kural).tahmin = pDonem.prim /\ PPanel(pDonem.kural).matrah = pDonem.matrah
             /\ PPanel(pDonem.kural).odenmis = (IF pDonem.odendi THEN pDonem.prim ELSE 0)
             /\ PDetay.ozet.matrah = PSatirToplami(tarife.icra, PDetay.satir)
  <2>1. pDonem.kural \in PUygulanan /\ pDonem.matrah = PToplam(tarife) /\ pDonem.prim = PHesap(pDonem.matrah, tarife)
    BY <1>2 DEF PrimInv, PDonemDogru
  <2>2. PMatrah(tarife) = PToplam(tarife)
    BY <1>0, PToplamlar
  <2>3. /\ pDonem.kural \in PUygulanan /\ pDonem.matrah = PMatrah(tarife)
        /\ pDonem.prim = PHesap(PMatrah(tarife), tarife)
    BY <2>1, <2>2
  <2>4. pDonem.odendi \in BOOLEAN
    BY <1>0, <1>2 DEF PrimTipi, PDonemSatiri
  <2>5. PPanel(pDonem.kural) =
          [matrah |-> PMatrah(tarife), tahmin |-> IF pDonem # Yok /\ pDonem.odendi THEN pDonem.prim ELSE PHesap(PMatrah(tarife), tarife),
           odenmis |-> IF pDonem # Yok /\ pDonem.odendi THEN pDonem.prim ELSE 0]
    BY <1>2, Zenon DEF PPanel
  <2>6. /\ PPanel(pDonem.kural).tahmin = pDonem.prim /\ PPanel(pDonem.kural).matrah = pDonem.matrah
        /\ PPanel(pDonem.kural).odenmis = (IF pDonem.odendi THEN pDonem.prim ELSE 0)
    BY <1>2, <2>3, <2>4, <2>5
  <2>7. tarife \in PTarife /\ tarife.icra \in BOOLEAN
    <3>1. tarife \in PTarife
      BY <1>0, <1>2, <2>1, PSatirlar
    <3> QED BY <3>1, PrimVarsayimi
  <2>8. IsFiniteSet(PTahsilatlar) /\ \A o \in PTahsilatlar : pOdeme[o].tutar \in Int
    <3>1. PTahsilatlar \subseteq POdeme /\ \A o \in PTahsilatlar : pOdeme[o] \in POdemeSatiri
      BY <1>0 DEF PTahsilatlar, PrimTipi
    <3>2. \A o \in PTahsilatlar : pOdeme[o].tutar \in PTutar
      BY <3>1 DEF POdemeSatiri
    <3>5. PTutar \subseteq Int
      BY PrimVarsayimi
    <3>3. \A o \in PTahsilatlar : pOdeme[o].tutar \in Int
      BY <3>2, <3>5
    <3>4. IsFiniteSet(PTahsilatlar)
      BY <3>1, PrimVarsayimi, FS_Subset
    <3> QED BY <3>3, <3>4
  <2>9. PToplam(tarife) = Topla(PTutarlar(tarife.icra), PTahsilatlar)
    <3>1. CASE tarife.icra
      <4>1. PDahil(tarife) = PTahsilatlar
        BY <3>1 DEF PDahil
      <4>2. \A o \in PTahsilatlar : PTutarlar(TRUE)[o] = PTutarlar(tarife.icra)[o]
        BY <3>1 DEF PTutarlar
      <4> QED BY <2>8, <4>1, <4>2, ToplaEsit DEF PToplam
    <3>2. CASE ~tarife.icra
      <4>1. PDahil(tarife) = {}
        BY <3>2 DEF PDahil
      <4>2. \A o \in PTahsilatlar : PTutarlar(tarife.icra)[o] = 0
        BY <3>2 DEF PTutarlar
      <4>3. Topla(PTutarlar(TRUE), {}) = 0 /\ Topla(PTutarlar(tarife.icra), PTahsilatlar) = 0
        BY <2>8, <4>2, ToplaBos, ToplaSifir
      <4> QED BY <4>1, <4>3 DEF PToplam
    <3> QED BY <3>1, <3>2
  <2>10. PDetay.ozet = pDonem /\ PDetay.satir = PTahsilatlar
    BY DEF PDetay
  <2>11. PSatirToplami(tarife.icra, PTahsilatlar) = Topla(PTutarlar(tarife.icra), PTahsilatlar)
    BY DEF Topla, PSatirToplami
  <2> QED BY <2>1, <2>3, <2>6, <2>9, <2>10, <2>11
<1>3. ASSUME NEW t \in PTarife, pDonem # Yok, PAraliksiz(t.kademe)
      PROVE  PDilimli(pDonem.matrah, t.kademe) = PBirimBirim(pDonem.matrah, t.kademe)
  <2>1. t.kademe \in Seq(PKademe) /\ t.kademe # <<>>
    BY PrimVarsayimi
  <2>2. pDonem.matrah \in Nat
    BY <1>0, <1>3 DEF PrimTipi, PDonemSatiri
  <2> QED BY <1>3, <2>1, <2>2, PBirimBirimdir
<1>4. pDonem # Yok /\ ~pEski =>
        LET tarife == pKural[pDonem.kural].tarife  panel == PPanel(pDonem.kural) IN
        /\ pDonem.kural \in PUygulanan /\ pDonem.matrah = PMatrah(tarife)
        /\ pDonem.prim = PHesap(PMatrah(tarife), tarife)
        /\ panel.tahmin = pDonem.prim /\ panel.matrah = pDonem.matrah
        /\ panel.odenmis = (IF pDonem.odendi THEN pDonem.prim ELSE 0)
        /\ PDetay.ozet.matrah = PSatirToplami(tarife.icra, PDetay.satir)
  BY <1>2
<1>5. \A kapsam \in Kapsam : Cardinality(PAktif(kapsam) \ pSasan) <= 1
  BY <1>1
<1>6. \A t \in PTarife : pDonem # Yok /\ PAraliksiz(t.kademe) =>
        PDilimli(pDonem.matrah, t.kademe) = PBirimBirim(pDonem.matrah, t.kademe)
  BY <1>3
<1> QED BY <1>4, <1>5, <1>6, Zenon DEF PrimTutarli, PSatirToplami

\* PrimTutarli: bonuses are what the rule in force and the collections come to.
THEOREM PrimTutarlidir == PrimSpec => []PrimTutarli
BY PrimDegismez, PTutarlidir, PTL

\* The type invariant of the bonuses.
THEOREM PrimTipiKorunur == PrimSpec => []PrimTypeOK
<1>1. PrimInv => PrimTypeOK
  BY DEF PrimInv, PrimTipi, PrimTypeOK, PDolu
<1> QED BY <1>1, PrimDegismez, PTL
=============================================================================
