--------------------------- MODULE IletisimProofs ---------------------------
(***************************************************************************)
(* Proofs about messages to clients, one section each: the status of a     *)
(* message, the connection to Meta and its redirection, the reminders of   *)
(* appointments, and the templates.                                        *)
(***************************************************************************)
EXTENDS IletiDurumu, Baglanti, Randevu, Sablon, FiniteSetTheorems, TLAPS

-----------------------------------------------------------------------------
(***************************************************************************)
(* The status of a reminder.  As long as nobody wrote over a newer status  *)
(* and no answer was lost, the job gets a message id once and is finished  *)
(* from then on; who has not been overtaken still sees what it read; and   *)
(* an accepted message is in the job or in the hands of its sender.        *)
(***************************************************************************)
WIstekKaydi ==
  {Bos, Bitti}
  \cup [adim : {"oku", "gonder", "ac", "isaret"}, bayat : BOOLEAN]
  \cup [adim : {"yaz"}, d : {"GONDERILDI", "BASARISIZ"}, mid : WIleti \cup {Yok}, bayat : BOOLEAN]
  \cup [adim : {"olay", "kaydet"}, e : WOlaylari, ok : BOOLEAN, bayat : BOOLEAN]

\* Who holds an accepted message.
WElinde(k) == k.adim = "yaz" /\ k.d = "GONDERILDI"

WIstekDogru(k) ==
  /\ k.adim = "yaz" /\ k.d = "GONDERILDI" => k.mid \in wKabul
  /\ k.adim = "oku" /\ ~k.bayat => wIs.durum = "KUYRUKTA"
  /\ k.adim \in {"gonder", "ac", "isaret", "yaz"} /\ ~k.bayat => wIs.durum \notin WBitmis
  /\ k.adim \in {"olay", "kaydet"} /\ k.ok => wIs.mid = k.e[1]
  /\ k.adim = "olay" => k.ok
  /\ k.adim = "olay" /\ ~k.bayat => WRank(WMeta(k.e[2])) > WRank(wIs.durum)
  /\ k.adim = "kaydet" /\ k.ok => WRank(wIs.durum) >= WRank(WMeta(k.e[2]))

WIsDogru ==
  /\ WRank(wIs.durum) >= wEn
  /\ wIs.mid # Yok => wEn >= 20
  /\ \A e \in WOlaylari : <<e, TRUE>> \in wOlay =>
       wIs.mid = e[1] /\ WRank(wIs.durum) >= WRank(WMeta(e[2]))
  /\ \A m \in wKabul, n \in wKabul : m = n
  /\ wKabul # {} /\ wIs.mid = Yok => \E b \in WIstek : WElinde(wIstek[b])

IletiInv ==
  /\ IletiTypeOK /\ wIstek \in [WIstek -> WIstekKaydi]
  /\ ~wSasan => WIsDogru /\ \A a \in WIstek : WIstekDogru(wIstek[a])

(* The ranks of the states and of Meta's events.                           *)
LEMMA WRankDegeri ==
  /\ \A d : WRank(d) \in {0, 10, 20, 30, 40}
  /\ \A d : WRank(d) >= 20 => d \in WBitmis
  /\ \A d \in WBitmis : d # "IPTAL_EDILDI" => WRank(d) >= 20
  /\ WRank("PLANLANDI") = 0 /\ WRank("KUYRUKTA") = 0 /\ WRank("IPTAL_EDILDI") = 0
  /\ WRank("SIMULASYON_TAMAMLANDI") = 0
  /\ WRank("GONDERILDI") = 20 /\ WRank("BASARISIZ") = 10
  /\ \A s \in {"sent", "delivered", "read", "failed"} : WMeta(s) \in (WBitmis \ {"IPTAL_EDILDI"}) \cup {"BASARISIZ"}
BY DEF WRank, WMeta, WBitmis

(* What a request holds at each of its steps.                              *)
LEMMA WIstekAlanlari ==
  ASSUME NEW k \in WIstekKaydi
  PROVE  /\ k.adim \in {"oku", "gonder", "ac", "isaret"} => k \in [adim : {"oku", "gonder", "ac", "isaret"}, bayat : BOOLEAN]
         /\ k.adim = "yaz" => k \in [adim : {"yaz"}, d : {"GONDERILDI", "BASARISIZ"}, mid : WIleti \cup {Yok}, bayat : BOOLEAN]
         /\ k.adim \in {"olay", "kaydet"} => k \in [adim : {"olay", "kaydet"}, e : WOlaylari, ok : BOOLEAN, bayat : BOOLEAN]
         /\ k.adim \in {"bos", "bitti"} => k \in {Bos, Bitti}
         /\ k.adim \in {"oku", "gonder", "ac", "isaret", "yaz", "olay", "kaydet", "bos", "bitti"}
BY DEF WIstekKaydi, Bos, Bitti

(* Marking a request as overtaken.                                         *)
LEMMA WBayatKayit ==
  ASSUME NEW k \in WIstekKaydi
  PROVE  LET y == IF k \in {Bos, Bitti} THEN k ELSE [k EXCEPT !.bayat = TRUE] IN
         /\ y \in WIstekKaydi /\ y.adim = k.adim
         /\ k.adim = "yaz" => y.d = k.d /\ y.mid = k.mid
         /\ k.adim \in {"olay", "kaydet"} => y.e = k.e /\ y.ok = k.ok
         /\ k.adim \notin {"bos", "bitti"} => y.bayat
<1>1. CASE k \in {Bos, Bitti}
  BY <1>1 DEF Bos, Bitti
<1>2. CASE k \notin {Bos, Bitti} /\ k \in [adim : {"oku", "gonder", "ac", "isaret"}, bayat : BOOLEAN]
  BY <1>2 DEF WIstekKaydi
<1>3. CASE k \notin {Bos, Bitti} /\ k \in [adim : {"yaz"}, d : {"GONDERILDI", "BASARISIZ"}, mid : WIleti \cup {Yok}, bayat : BOOLEAN]
  BY <1>3 DEF WIstekKaydi
<1>4. CASE k \notin {Bos, Bitti} /\ k \in [adim : {"olay", "kaydet"}, e : WOlaylari, ok : BOOLEAN, bayat : BOOLEAN]
  BY <1>4 DEF WIstekKaydi
<1> QED BY <1>1, <1>2, <1>3, <1>4 DEF WIstekKaydi

(* A request moves, and the job stays as it is.                            *)
LEMMA WIlerletKorur ==
  ASSUME IletiInv, NEW a \in WIstek, NEW k \in WIstekKaydi, WIlerlet(a, k), UNCHANGED <<wIs, wEn>>,
         wKabul \subseteq wKabul', wKabul' \subseteq WIleti,
         wOlay' \subseteq WOlaylari \X BOOLEAN,
         wSasan' \in BOOLEAN, wSasan => wSasan',
         ~wSasan' =>
           /\ WIstekDogru(k)'
           /\ \A e \in WOlaylari : <<e, TRUE>> \in wOlay' => <<e, TRUE>> \in wOlay \/
                (wIs.mid = e[1] /\ WRank(wIs.durum) >= WRank(WMeta(e[2])))
           /\ \/ wKabul' = wKabul /\ (WElinde(wIstek[a]) => WElinde(k))
              \/ WElinde(k) /\ \A m \in wKabul', n \in wKabul' : m = n
  PROVE  IletiInv'
<1>1. \A b \in WIstek : wIstek'[b] = IF b = a THEN k ELSE wIstek[b]
  BY DEF WIlerlet, IletiInv
<1>2. IletiTypeOK' /\ wIstek' \in [WIstek -> WIstekKaydi]
  BY DEF WIlerlet, IletiInv, IletiTypeOK
<1>3. ASSUME ~wSasan'
      PROVE  WIsDogru' /\ \A b \in WIstek : WIstekDogru(wIstek[b])'
  <2>1. ~wSasan /\ WIsDogru /\ \A b \in WIstek : WIstekDogru(wIstek[b])
    BY <1>3 DEF IletiInv, IletiTypeOK
  <2>2. WIsDogru'
    <3>1. wKabul' # {} /\ wIs.mid = Yok => \E b \in WIstek : WElinde(wIstek'[b])
      <4>1. CASE WElinde(k)
        BY <1>1, <4>1
      <4>2. CASE ~WElinde(k)
        <5>1. wKabul' = wKabul /\ ~WElinde(wIstek[a])
          BY <1>3, <4>2
        <5> QED BY <1>1, <2>1, <5>1 DEF WIsDogru
      <4> QED BY <4>1, <4>2
    <3>2. \A m \in wKabul', n \in wKabul' : m = n
      BY <1>3, <2>1 DEF WIsDogru
    <3>3. \A e \in WOlaylari : <<e, TRUE>> \in wOlay' =>
            wIs.mid = e[1] /\ WRank(wIs.durum) >= WRank(WMeta(e[2]))
      BY <1>3, <2>1 DEF WIsDogru
    <3> QED BY <2>1, <3>1, <3>2, <3>3 DEF WIsDogru, WElinde
  <2>3. ASSUME NEW b \in WIstek PROVE WIstekDogru(wIstek[b])'
    <3>1. CASE b = a
      BY <1>1, <1>3, <3>1 DEF WIstekDogru
    <3>2. CASE b # a
      BY <1>1, <2>1, <3>2 DEF WIstekDogru
    <3> QED BY <3>1, <3>2
  <2> QED BY <2>2, <2>3
<1> QED BY <1>2, <1>3 DEF IletiInv

(* A request writes the job.                                               *)
LEMMA WYazKorur ==
  ASSUME IletiInv, NEW a, a \in WIstek \cup {Yok}, NEW k \in WIstekKaydi, NEW j \in WIsSatiri,
         wIs' = j, wIstek' = Bayatlat(wIstek, a, k),
         UNCHANGED <<wKabul, wOlay>>,
         wEn' \in {0, 20, 30, 40}, wSasan' \in BOOLEAN, wSasan => wSasan',
         ~wSasan' =>
           /\ WIstekDogru(k)'
           /\ WRank(j.durum) >= wEn'
           /\ j.mid # Yok => wEn' >= 20
           /\ wIs.mid # Yok => j.mid = wIs.mid /\ WRank(j.durum) >= WRank(wIs.durum)
           /\ a \in WIstek /\ WElinde(wIstek[a]) => j.mid # Yok
  PROVE  IletiInv'
<1>0. IletiTypeOK /\ wIstek \in [WIstek -> WIstekKaydi] /\ Yok \notin WIstek /\ Yok \notin WIleti
  BY IletiVarsayimi DEF IletiInv
<1>1. \A b \in WIstek : wIstek'[b] = IF b = a THEN k ELSE IF wIstek[b] \in {Bos, Bitti} THEN wIstek[b]
                                                         ELSE [wIstek[b] EXCEPT !.bayat = TRUE]
  BY <1>0 DEF Bayatlat
<1>2. wIstek' \in [WIstek -> WIstekKaydi]
  <2>1. wIstek' = [b \in WIstek |-> wIstek'[b]]
    BY <1>0 DEF Bayatlat
  <2>2. \A b \in WIstek : wIstek'[b] \in WIstekKaydi
    <3>1. ASSUME NEW b \in WIstek PROVE wIstek'[b] \in WIstekKaydi
      <4>1. wIstek[b] \in WIstekKaydi
        BY <1>0
      <4> QED BY <1>1, <4>1, WBayatKayit
    <3> QED BY <3>1
  <2> QED BY <2>1, <2>2
<1>3. IletiTypeOK'
  BY <1>0 DEF IletiTypeOK
<1>4. ASSUME NEW b \in WIstek, b # a
      PROVE  /\ wIstek'[b].adim = wIstek[b].adim
             /\ wIstek[b].adim = "yaz" => wIstek'[b].d = wIstek[b].d /\ wIstek'[b].mid = wIstek[b].mid
             /\ wIstek[b].adim \in {"olay", "kaydet"} => wIstek'[b].e = wIstek[b].e /\ wIstek'[b].ok = wIstek[b].ok
             /\ wIstek[b].adim \notin {"bos", "bitti"} => wIstek'[b].bayat
  <2>1. PICK c \in WIstekKaydi : c = wIstek[b]
    BY <1>0
  <2>2. PICK y : y = IF c \in {Bos, Bitti} THEN c ELSE [c EXCEPT !.bayat = TRUE]
    OBVIOUS
  <2>3. wIstek'[b] = y
    BY <1>1, <1>4, <2>1, <2>2
  <2> QED BY <2>1, <2>2, <2>3, WBayatKayit
<1>5. ASSUME ~wSasan'
      PROVE  WIsDogru' /\ \A b \in WIstek : WIstekDogru(wIstek[b])'
  <2>1. ~wSasan /\ WIsDogru /\ \A b \in WIstek : WIstekDogru(wIstek[b])
    BY <1>0, <1>5 DEF IletiInv, IletiTypeOK
  <2>2. \A m, s : wIs.mid = m /\ m # Yok /\ WRank(wIs.durum) >= WRank(s) =>
                  j.mid = m /\ WRank(j.durum) >= WRank(s)
    BY <1>5, WRankDegeri
  <2>3. WIsDogru'
    <3>1. wKabul' # {} /\ j.mid = Yok => \E b \in WIstek : WElinde(wIstek'[b])
      <4>1. ASSUME wKabul' # {}, j.mid = Yok PROVE \E b \in WIstek : WElinde(wIstek'[b])
        <5>1. wIs.mid = Yok /\ wKabul # {}
          BY <1>5, <4>1
        <5>2. PICK b \in WIstek : WElinde(wIstek[b])
          BY <2>1, <5>1 DEF WIsDogru
        <5>3. b # a
          BY <1>5, <4>1, <5>2
        <5> QED BY <1>4, <5>2, <5>3 DEF WElinde
      <4> QED BY <4>1
    <3>2. ASSUME NEW e \in WOlaylari, <<e, TRUE>> \in wOlay'
          PROVE  j.mid = e[1] /\ WRank(j.durum) >= WRank(WMeta(e[2]))
      <4>1. wIs.mid = e[1] /\ WRank(wIs.durum) >= WRank(WMeta(e[2])) /\ e[1] # Yok
        BY <1>0, <2>1, <3>2 DEF WIsDogru, WOlaylari
      <4> QED BY <2>2, <4>1
    <3> QED BY <1>5, <2>1, <3>1, <3>2 DEF WIsDogru, WElinde
  <2>4. ASSUME NEW b \in WIstek PROVE WIstekDogru(wIstek[b])'
    <3>1. CASE b = a
      BY <1>1, <1>5, <3>1 DEF WIstekDogru
    <3>2. CASE b # a
      <4>1. PICK c \in WIstekKaydi : c = wIstek[b]
        BY <1>0
      <4>2. PICK y : y = wIstek'[b]
        OBVIOUS
      <4>3. /\ y.adim = c.adim
            /\ c.adim = "yaz" => y.d = c.d /\ y.mid = c.mid
            /\ c.adim \in {"olay", "kaydet"} => y.e = c.e /\ y.ok = c.ok
            /\ c.adim \notin {"bos", "bitti"} => y.bayat
        BY <1>4, <3>2, <4>1, <4>2
      <4>4. WIstekDogru(c)
        BY <2>1, <4>1
      <4>5. c.adim \in {"olay", "kaydet"} /\ c.ok => c.e[1] # Yok /\ j.mid = c.e[1]
        <5>1. c.adim \in {"olay", "kaydet"} => c.e[1] \in WIleti
          BY <4>1, WIstekAlanlari DEF WOlaylari
        <5> QED BY <1>0, <1>5, <4>4, <5>1 DEF WIstekDogru
      <4>6. c.adim = "kaydet" /\ c.ok => WRank(j.durum) >= WRank(WMeta(c.e[2]))
        BY <2>2, <4>4, <4>5 DEF WIstekDogru
      <4>7. WIstekDogru(y)'
        BY <4>3, <4>4, <4>5, <4>6 DEF WIstekDogru
      <4> QED BY <4>2, <4>7 DEF WIstekDogru
    <3> QED BY <3>1, <3>2
  <2> QED BY <2>3, <2>4
<1> QED BY <1>2, <1>3, <1>5 DEF IletiInv
(* What the history says after a write.                                    *)
LEMMA WEnDegeri ==
  ASSUME IletiTypeOK, NEW a, NEW k, NEW j \in WIsSatiri, WYazilir(a, j, k)
  PROVE  /\ wEn' \in {0, 20, 30, 40}
         /\ WRank(j.durum) >= 20 => wEn' >= 20
         /\ WRank(j.durum) >= wEn => WRank(j.durum) >= wEn'
         /\ WRank(j.durum) < 20 => wEn' = wEn
<1>1. WRank(j.durum) \in {0, 10, 20, 30, 40} /\ wEn \in {0, 20, 30, 40}
  BY WRankDegeri DEF IletiTypeOK
<1>2. PICK r \in {0, 10, 20, 30, 40} : r = WRank(j.durum)
  BY <1>1
<1>3. PICK v \in {0, 20, 30, 40} : v = wEn
  BY <1>1
<1>4. /\ r < 20 => wEn' = v
      /\ r >= 20 => wEn' = r \/ (r <= v /\ wEn' = v)
  <2>1. wEn' = IF r < 20 THEN v ELSE IF j.mid # wIs.mid \/ r > v THEN r ELSE v
    BY <1>2, <1>3 DEF WYazilir
  <2> QED BY <1>2, <1>3, <2>1
<1>5. CASE r < 20
  <2>1. wEn' = wEn /\ wEn' \in {0, 20, 30, 40}
    BY <1>3, <1>4, <1>5
  <2> QED BY <1>2, <1>5, <2>1
<1>6. CASE r >= 20
  <2>0. r \in {20, 30, 40}
    BY <1>2, <1>6
  <2>1. wEn' \in {20, 30, 40} /\ (r >= v => r >= wEn')
    <3>1. CASE wEn' = r
      BY <2>0, <3>1
    <3>2. CASE r <= v /\ wEn' = v
      <4>1. v \in {20, 30, 40}
        BY <2>0, <1>3, <3>2
      <4> QED BY <2>0, <3>2, <4>1
    <3> QED BY <1>4, <1>6, <3>1, <3>2
  <2>2. wEn' \in {0, 20, 30, 40} /\ wEn' >= 20
    BY <2>1
  <2> QED BY <1>2, <1>3, <1>6, <2>1, <2>2
<1> QED BY <1>5, <1>6

(* An unfinished job has no message id and no history.                     *)
LEMMA WBitmemis ==
  ASSUME IletiInv, ~wSasan, WRank(wIs.durum) < 20
  PROVE  wIs.mid = Yok /\ wEn = 0
<1>1. wEn \in {0, 20, 30, 40} /\ WRank(wIs.durum) >= wEn /\ (wIs.mid # Yok => wEn >= 20)
  BY DEF IletiInv, IletiTypeOK, WIsDogru
<1>2. PICK r \in {0, 10, 20, 30, 40} : r = WRank(wIs.durum)
  BY WRankDegeri
<1> QED BY <1>1, <1>2

(* The steps of a worker.                                                  *)
LEMMA WAlKorur ==
  ASSUME IletiInv, NEW a \in WIstek, WAl(a)
  PROVE  IletiInv'
<1>1. PICK k : k = [adim |-> "oku", bayat |-> FALSE]
  OBVIOUS
<1>2. PICK j : j = [wIs EXCEPT !.durum = "KUYRUKTA", !.kilit = TRUE]
  OBVIOUS
<1>3. /\ j \in WIsSatiri /\ j.durum = "KUYRUKTA" /\ j.mid = wIs.mid
      /\ k \in WIstekKaydi /\ k.adim = "oku"
  BY <1>1, <1>2 DEF IletiInv, IletiTypeOK, WIsSatiri, WIstekKaydi
<1>4. /\ WYazilir(a, j, k) /\ UNCHANGED <<wKabul, wOlay, wSasan>> /\ wIstek[a] = Bos
      /\ wIs.durum \in {"PLANLANDI", "KUYRUKTA"}
  BY <1>1, <1>2 DEF WAl, Ilk
<1>5. wEn' \in {0, 20, 30, 40} /\ wEn' = wEn
  BY <1>3, <1>4, WEnDegeri, WRankDegeri DEF IletiInv
<1>6. wSasan' \in BOOLEAN
  BY <1>4 DEF IletiInv, IletiTypeOK
<1>7. ASSUME ~wSasan' PROVE wIs.mid = Yok /\ wEn = 0
  BY <1>4, <1>7, WBitmemis, WRankDegeri
<1>8. WIstekDogru(k)'
  BY <1>3, <1>4 DEF WIstekDogru, WYazilir
<1> QED BY <1>3, <1>4, <1>5, <1>6, <1>7, <1>8, WYazKorur, WRankDegeri DEF WYazilir, Bos, WElinde

LEMMA WIsciOkuKorur ==
  ASSUME IletiInv, NEW a \in WIstek, WIsciOku(a)
  PROVE  IletiInv'
<1>0. wIstek[a] \in WIstekKaydi /\ wIstek[a].adim = "oku" /\ wSasan \in BOOLEAN /\ UNCHANGED <<wKabul, wOlay, wSasan>>
  BY DEF IletiInv, IletiTypeOK, WIsciOku
<1>1. CASE wIs.durum \in {"SIMULASYON_TAMAMLANDI", "GONDERILDI", "TESLIM_EDILDI", "OKUNDU"}
  <2>1. PICK j : j = [wIs EXCEPT !.kilit = FALSE]
    OBVIOUS
  <2>2. /\ j \in WIsSatiri /\ j.durum = wIs.durum /\ j.mid = wIs.mid
        /\ Bitti \in WIstekKaydi /\ Bitti.adim = "bitti"
    BY <2>1 DEF IletiInv, IletiTypeOK, WIsSatiri, WIstekKaydi, Bitti
  <2>3. WYazilir(a, j, Bitti)
    BY <1>1, <2>1 DEF WIsciOku
  <2>4. wEn' \in {0, 20, 30, 40} /\ (WRank(j.durum) >= 20 => wEn' >= 20)
        /\ (WRank(j.durum) >= wEn => WRank(j.durum) >= wEn')
        /\ (WRank(j.durum) < 20 => wEn' = wEn)
    BY <2>2, <2>3, WEnDegeri DEF IletiInv
  <2>5. ~wSasan' => WRank(j.durum) >= wEn' /\ (j.mid # Yok => wEn' >= 20) /\ WRank(j.durum) >= WRank(wIs.durum)
    <3>1. WRank(j.durum) \in {0, 10, 20, 30, 40}
      BY WRankDegeri
    <3> QED BY <1>0, <2>2, <2>4, <3>1 DEF IletiInv, WIsDogru
  <2>6. WIstekDogru(Bitti)'
    BY <2>2 DEF WIstekDogru
  <2> QED BY <1>0, <2>2, <2>3, <2>4, <2>5, <2>6, WYazKorur DEF WYazilir, WElinde
<1>2. CASE wIs.durum \notin {"SIMULASYON_TAMAMLANDI", "GONDERILDI", "TESLIM_EDILDI", "OKUNDU"}
  <2>1. PICK k : k = [wIstek[a] EXCEPT !.adim = "gonder"]
    OBVIOUS
  <2>2. k \in WIstekKaydi /\ k.adim = "gonder" /\ k.bayat = wIstek[a].bayat
    BY <1>0, <2>1, WIstekAlanlari DEF WIstekKaydi
  <2>3. WIlerlet(a, k) /\ UNCHANGED <<wIs, wEn>>
    BY <1>2, <2>1 DEF WIsciOku
  <2>4. ASSUME ~wSasan' PROVE WIstekDogru(k)'
    <3>1. WIstekDogru(wIstek[a])
      BY <1>0, <2>4 DEF IletiInv
    <3>2. ~k.bayat => wIs.durum = "KUYRUKTA"
      BY <1>0, <2>2, <3>1 DEF WIstekDogru
    <3> QED BY <2>2, <2>3, <3>2 DEF WIstekDogru, WBitmis
  <2>5. wKabul' \subseteq WIleti /\ wOlay' \subseteq WOlaylari \X BOOLEAN
    BY <1>0 DEF IletiInv, IletiTypeOK
  <2> QED BY <1>0, <2>2, <2>3, <2>4, <2>5, WIlerletKorur DEF WElinde
<1> QED BY <1>1, <1>2

(* A user begins to send, opens or marks.                                  *)
LEMMA WElleOkuKorur ==
  ASSUME IletiInv, NEW a \in WIstek, NEW adim \in {"gonder", "ac", "isaret"}, WElleOku(a, adim)
  PROVE  IletiInv'
<1>1. PICK k : k = [adim |-> adim, bayat |-> FALSE]
  OBVIOUS
<1>2. k \in WIstekKaydi /\ k.adim \in {"gonder", "ac", "isaret"}
  BY <1>1 DEF WIstekKaydi
<1>3. /\ WIlerlet(a, k) /\ UNCHANGED <<wIs, wKabul, wOlay, wEn, wSasan>>
      /\ wIs.durum \notin WBitmis /\ wIstek[a] = Bos
  BY <1>1 DEF WElleOku, WGelir, WIlerlet, Ilk
<1>4. WIstekDogru(k)'
  BY <1>2, <1>3 DEF WIstekDogru
<1>5. wKabul' \subseteq WIleti /\ wOlay' \subseteq WOlaylari \X BOOLEAN /\ wSasan' \in BOOLEAN /\ wIstek[a].adim # "yaz"
  BY <1>3 DEF IletiInv, IletiTypeOK, Bos
<1> QED BY <1>2, <1>3, <1>4, <1>5, WIlerletKorur DEF WElinde

(* The message goes out.                                                   *)
LEMMA WGonderKorur ==
  ASSUME IletiInv, NEW a \in WIstek, WGonder(a)
  PROVE  IletiInv'
<1>0. /\ wIstek[a] \in WIstekKaydi /\ wIstek[a].adim = "gonder" /\ wSasan \in BOOLEAN
      /\ wKabul \subseteq WIleti /\ wOlay \subseteq WOlaylari \X BOOLEAN /\ wIs \in WIsSatiri
      /\ UNCHANGED <<wIs, wOlay, wEn>>
  BY DEF IletiInv, IletiTypeOK, WGonder
<1>1. wIstek[a].bayat \in BOOLEAN
  BY <1>0, WIstekAlanlari
<1>2. ASSUME NEW m \in WIleti, wKabul' = wKabul \cup {m},
             WIlerlet(a, [adim |-> "yaz", d |-> "GONDERILDI", mid |-> m, bayat |-> wIstek[a].bayat]),
             wSasan' = (wSasan \/ wIstek[a].bayat \/ \E b \in WIstek : wIstek[b].adim = "yaz")
      PROVE  IletiInv'
  <2>1. PICK k : k = [adim |-> "yaz", d |-> "GONDERILDI", mid |-> m, bayat |-> wIstek[a].bayat]
    OBVIOUS
  <2>2. k \in WIstekKaydi /\ k.adim = "yaz" /\ k.d = "GONDERILDI" /\ k.mid = m /\ k.bayat = wIstek[a].bayat
    BY <1>1, <2>1 DEF WIstekKaydi
  <2>3. wSasan' \in BOOLEAN /\ (wSasan => wSasan')
    BY <1>0, <1>1, <1>2, Zenon
  <2>4. ASSUME ~wSasan'
        PROVE  wKabul = {} /\ wIs.durum \notin WBitmis
    <3>1. ~wSasan /\ ~wIstek[a].bayat /\ ~\E b \in WIstek : wIstek[b].adim = "yaz"
      BY <1>2, <2>4, Zenon
    <3>2. wIs.durum \notin WBitmis
      BY <1>0, <3>1 DEF IletiInv, WIstekDogru
    <3>3. WRank(wIs.durum) < 20
      <4>1. PICK r \in {0, 10, 20, 30, 40} : r = WRank(wIs.durum)
        BY WRankDegeri
      <4>2. ~(r >= 20)
        BY <3>2, <4>1, WRankDegeri
      <4> QED BY <4>1, <4>2
    <3>4. wIs.mid = Yok
      BY <3>1, <3>3, WBitmemis
    <3> QED BY <3>1, <3>2, <3>4 DEF IletiInv, WIsDogru, WElinde
  <2>5. ASSUME ~wSasan' PROVE WIstekDogru(k)' /\ \A x \in wKabul', y \in wKabul' : x = y
    BY <1>0, <1>2, <2>2, <2>4, <2>5 DEF WIstekDogru
  <2>6. wKabul' \subseteq WIleti /\ wKabul \subseteq wKabul'
    BY <1>0, <1>2
  <2> QED BY <1>0, <1>2, <2>1, <2>2, <2>3, <2>5, <2>6, WIlerletKorur DEF WElinde
<1>3. PICK k : k = [adim |-> "yaz", d |-> "BASARISIZ", mid |-> wIs.mid, bayat |-> wIstek[a].bayat]
  OBVIOUS
<1>4. k \in WIstekKaydi /\ k.adim = "yaz" /\ k.d = "BASARISIZ" /\ k.bayat = wIstek[a].bayat
  BY <1>0, <1>1, <1>3 DEF WIstekKaydi, WIsSatiri
<1>5. ASSUME NEW m \in WIleti, wKabul' = wKabul \cup {m}, WIlerlet(a, k), wSasan' = TRUE
      PROVE  IletiInv'
  <2>1. wKabul' \subseteq WIleti /\ wKabul \subseteq wKabul'
    BY <1>0, <1>5
  <2> QED BY <1>0, <1>4, <1>5, <2>1, WIlerletKorur
<1>6. ASSUME WIlerlet(a, k), UNCHANGED <<wKabul, wSasan>>
      PROVE  IletiInv'
  <2>1. ASSUME ~wSasan' PROVE WIstekDogru(k)'
    <3>1. WIstekDogru(wIstek[a])
      BY <1>6, <2>1 DEF IletiInv
    <3> QED BY <1>0, <1>4, <1>6, <3>1 DEF WIstekDogru
  <2> QED BY <1>0, <1>4, <1>6, <2>1, WIlerletKorur DEF WElinde
<1> QED BY <1>2, <1>3, <1>5, <1>6 DEF WGonder, Ilk
(* Who sends, opens or marks writes what came of it.                       *)
LEMMA WYazmaKorur ==
  ASSUME IletiInv, NEW a \in WIstek, WYaz(a)
  PROVE  IletiInv'
<1>1. PICK r : r = wIstek[a]
  OBVIOUS
<1>2. /\ r \in WIstekKaydi /\ r.adim \in {"yaz", "ac", "isaret"} /\ r.bayat \in BOOLEAN
      /\ r.adim = "yaz" => r.d \in {"GONDERILDI", "BASARISIZ"} /\ r.mid \in WIleti \cup {Yok}
      /\ wIs \in WIsSatiri /\ wSasan \in BOOLEAN /\ IletiTypeOK
  BY <1>1, WIstekAlanlari DEF IletiInv, IletiTypeOK, WYaz
<1>3. PICK d : d = CASE r.adim = "yaz" -> r.d [] r.adim = "ac" -> "SIMULASYON_TAMAMLANDI" [] OTHER -> "GONDERILDI"
  OBVIOUS
<1>4. PICK m : m = IF r.adim = "yaz" /\ r.d = "GONDERILDI" THEN r.mid ELSE wIs.mid
  OBVIOUS
<1>5. PICK j : j = [durum |-> d, mid |-> m, kilit |-> FALSE]
  OBVIOUS
<1>6. d \in {"GONDERILDI", "BASARISIZ", "SIMULASYON_TAMAMLANDI"} /\ (r.adim = "yaz" => d = r.d)
  BY <1>2, <1>3
<1>7. m \in WIleti \cup {Yok}
  BY <1>2, <1>4 DEF WIsSatiri
<1>8. j \in WIsSatiri /\ j.durum = d /\ j.mid = m
  BY <1>5, <1>6, <1>7 DEF WIsSatiri, WBitmis
<1>9. /\ WYazilir(a, j, Bitti) /\ wSasan' = (wSasan \/ r.bayat) /\ UNCHANGED <<wKabul, wOlay>>
  BY <1>1, <1>3, <1>4, <1>5 DEF WYaz
<1>10. wSasan' \in BOOLEAN /\ (wSasan => wSasan')
  BY <1>2, <1>9, Zenon
<1>11. Bitti \in WIstekKaydi /\ WIstekDogru(Bitti)'
  BY DEF Bitti, WIstekKaydi, WIstekDogru
<1>12. wEn' \in {0, 20, 30, 40} /\ (WRank(d) >= 20 => wEn' >= 20)
       /\ (WRank(d) >= wEn => WRank(d) >= wEn')
  BY <1>2, <1>8, <1>9, WEnDegeri
<1>13. ASSUME ~wSasan'
       PROVE  /\ WRank(d) >= wEn' /\ (m # Yok => wEn' >= 20) /\ wIs.mid = Yok
              /\ WElinde(wIstek[a]) => m # Yok
  <2>1. ~wSasan /\ ~r.bayat
    BY <1>9, <1>13, Zenon
  <2>2. wIs.durum \notin WBitmis /\ (WElinde(r) => r.mid \in wKabul)
    BY <1>1, <1>2, <2>1 DEF IletiInv, WIstekDogru, WElinde
  <2>3. WRank(wIs.durum) < 20
    <3>1. PICK x \in {0, 10, 20, 30, 40} : x = WRank(wIs.durum)
      BY WRankDegeri
    <3>2. ~(x >= 20)
      BY <2>2, <3>1, WRankDegeri
    <3> QED BY <3>1, <3>2
  <2>4. wIs.mid = Yok /\ wEn = 0
    BY <2>1, <2>3, WBitmemis
  <2>5. WRank(d) >= wEn
    <3>1. WRank(d) \in {0, 10, 20, 30, 40}
      BY WRankDegeri
    <3> QED BY <2>4, <3>1
  <2>6. m # Yok => WRank(d) >= 20
    <3>1. m # Yok => d = "GONDERILDI"
      BY <1>4, <1>6, <2>4
    <3> QED BY <3>1, WRankDegeri
  <2>7. WElinde(r) => m # Yok
    BY <1>4, <2>2, IletiVarsayimi DEF WElinde, IletiInv, IletiTypeOK
  <2> QED BY <1>1, <1>12, <2>4, <2>5, <2>6, <2>7
<1> QED BY <1>2, <1>8, <1>9, <1>10, <1>11, <1>12, <1>13, WYazKorur DEF WYazilir

(* A payment cancels a waiting job.                                        *)
LEMMA WIptalKorur ==
  ASSUME IletiInv, WIptal
  PROVE  IletiInv'
<1>1. PICK j : j = [wIs EXCEPT !.durum = "IPTAL_EDILDI", !.kilit = FALSE]
  OBVIOUS
<1>2. /\ j \in WIsSatiri /\ j.durum = "IPTAL_EDILDI" /\ j.mid = wIs.mid
      /\ Bos \in WIstekKaydi /\ wSasan \in BOOLEAN /\ wEn \in {0, 20, 30, 40}
      /\ WIstekDogru(Bos)'
  BY <1>1 DEF IletiInv, IletiTypeOK, WIsSatiri, WIstekKaydi, WBitmis, Bos, WIstekDogru
<1>3. wIs' = j /\ wIstek' = Bayatlat(wIstek, Yok, Bos) /\ UNCHANGED <<wKabul, wOlay, wEn, wSasan>>
      /\ wIs.durum \in {"PLANLANDI", "KUYRUKTA"}
  BY <1>1 DEF WIptal
<1>4. ~wSasan' => wIs.mid = Yok /\ wEn = 0
  BY <1>3, WBitmemis, WRankDegeri
<1>5. Yok \notin WIstek
  BY IletiVarsayimi
<1>6. ~wSasan' => WRank(j.durum) >= wEn'
  BY <1>2, <1>3, <1>4, WRankDegeri
<1> QED BY <1>2, <1>3, <1>4, <1>5, <1>6, WYazKorur

(* An event of Meta is looked up ...                                       *)
LEMMA WOlayOkuKorur ==
  ASSUME IletiInv, NEW a \in WIstek, NEW e \in WOlaylari, WOlayOku(a, e)
  PROVE  IletiInv'
<1>0. wIs \in WIsSatiri /\ wIstek[a] = Bos /\ UNCHANGED <<wIs, wKabul, wOlay, wEn, wSasan>>
  BY DEF WOlayOku, WGelir, Ilk, IletiInv, IletiTypeOK
<1>1. PICK ok \in BOOLEAN : ok = (wIs.mid = e[1])
  <2>1. CASE wIs.mid = e[1]
    BY <2>1
  <2>2. CASE wIs.mid # e[1]
    BY <2>2
  <2> QED BY <2>1, <2>2
<1>2. PICK k : k = [adim |-> IF wIs.mid = e[1] /\ WIlerler(WMeta(e[2])) THEN "olay" ELSE "kaydet",
                    e |-> e, ok |-> ok, bayat |-> FALSE]
  OBVIOUS
<1>3. WIlerlet(a, k)
  BY <1>1, <1>2 DEF WOlayOku, WGelir, WIlerlet
<1>4. /\ k \in WIstekKaydi /\ k.e = e /\ k.ok = ok /\ ~k.bayat /\ k.adim \in {"olay", "kaydet"}
      /\ k.adim = "olay" <=> wIs.mid = e[1] /\ WIlerler(WMeta(e[2]))
  BY <1>2 DEF WIstekKaydi
<1>5. WIstekDogru(k)
  <2>1. ok <=> wIs.mid = e[1]
    BY <1>1
  <2>2. WRank(WMeta(e[2])) > WRank(wIs.durum) \/ WRank(wIs.durum) >= WRank(WMeta(e[2]))
    BY WRankDegeri
  <2> QED BY <1>4, <2>1, <2>2 DEF WIstekDogru, WIlerler
<1>6. WIstekDogru(k)'
  BY <1>0, <1>5 DEF WIstekDogru
<1>7. wKabul' \subseteq WIleti /\ wOlay' \subseteq WOlaylari \X BOOLEAN /\ wSasan' \in BOOLEAN /\ ~WElinde(wIstek[a])
  BY <1>0 DEF IletiInv, IletiTypeOK, Bos, WElinde
<1> QED BY <1>0, <1>3, <1>4, <1>6, <1>7, WIlerletKorur

(* ... written, ...                                                        *)
LEMMA WOlayYazKorur ==
  ASSUME IletiInv, NEW a \in WIstek, WOlayYaz(a)
  PROVE  IletiInv'
<1>1. PICK r : r = wIstek[a]
  OBVIOUS
<1>2. /\ r \in WIstekKaydi /\ r.adim = "olay" /\ r.bayat \in BOOLEAN /\ r.e \in WOlaylari /\ r.ok \in BOOLEAN
      /\ wIs \in WIsSatiri /\ wSasan \in BOOLEAN /\ IletiTypeOK
  BY <1>1, WIstekAlanlari DEF IletiInv, IletiTypeOK, WOlayYaz
<1>3. PICK d : d = WMeta(r.e[2])
  OBVIOUS
<1>4. d \in (WBitmis \ {"IPTAL_EDILDI"}) \cup {"BASARISIZ"}
  BY <1>2, <1>3, WRankDegeri DEF WOlaylari
<1>5. PICK j : j = [wIs EXCEPT !.durum = d]
  OBVIOUS
<1>6. j \in WIsSatiri /\ j.durum = d /\ j.mid = wIs.mid
  BY <1>2, <1>4, <1>5 DEF WIsSatiri
<1>7. PICK k : k = [r EXCEPT !.adim = "kaydet"]
  OBVIOUS
<1>8. k \in WIstekKaydi /\ k.adim = "kaydet" /\ k.e = r.e /\ k.ok = r.ok
  BY <1>2, <1>7, WIstekAlanlari DEF WIstekKaydi
<1>9. WYazilir(a, j, k) /\ wSasan' = (wSasan \/ r.bayat) /\ UNCHANGED <<wKabul, wOlay>>
  BY <1>1, <1>3, <1>5, <1>7 DEF WOlayYaz
<1>10. wSasan' \in BOOLEAN /\ (wSasan => wSasan')
  BY <1>2, <1>9, Zenon
<1>11. wEn' \in {0, 20, 30, 40} /\ (WRank(d) >= 20 => wEn' >= 20)
       /\ (WRank(d) >= wEn => WRank(d) >= wEn')
  BY <1>2, <1>6, <1>9, WEnDegeri
<1>12. ASSUME ~wSasan'
       PROVE  /\ WRank(d) >= wEn' /\ (j.mid # Yok => wEn' >= 20) /\ WRank(d) >= WRank(wIs.durum)
              /\ WIstekDogru(k)'
  <2>1. ~wSasan /\ ~r.bayat
    BY <1>9, <1>12, Zenon
  <2>2. WIstekDogru(r) /\ WIsDogru
    BY <1>1, <2>1 DEF IletiInv
  <2>3. /\ wIs.mid = r.e[1] /\ wIs.mid # Yok /\ wEn >= 20 /\ WRank(wIs.durum) >= wEn
        /\ WRank(d) > WRank(wIs.durum)
    BY <1>2, <1>3, <2>1, <2>2, IletiVarsayimi DEF WIstekDogru, WIsDogru, WOlaylari
  <2>4. PICK x \in {0, 10, 20, 30, 40}, y \in {0, 10, 20, 30, 40}, w \in {0, 20, 30, 40} :
          x = WRank(d) /\ y = WRank(wIs.durum) /\ w = wEn
    BY <1>2, WRankDegeri DEF IletiTypeOK
  <2>5. x >= w /\ x >= 20 /\ x >= y
    BY <2>3, <2>4
  <2>6. WRank(d) >= wEn' /\ wEn' >= 20 /\ WRank(d) >= WRank(wIs.durum)
    BY <1>11, <2>4, <2>5
  <2>7. WRank(d) >= WRank(d)
    BY <2>4
  <2>8. WIstekDogru(k)'
    BY <1>3, <1>6, <1>8, <1>9, <2>3, <2>7 DEF WIstekDogru, WYazilir
  <2> QED BY <2>6, <2>8
<1>13. ~WElinde(wIstek[a])
  BY <1>1, <1>2 DEF WElinde
<1> QED BY <1>2, <1>6, <1>8, <1>9, <1>10, <1>11, <1>12, <1>13, WYazKorur DEF WYazilir

(* ... and recorded.                                                       *)
LEMMA WOlayKaydetKorur ==
  ASSUME IletiInv, NEW a \in WIstek, WOlayKaydet(a)
  PROVE  IletiInv'
<1>1. PICK r : r = wIstek[a]
  OBVIOUS
<1>2. /\ r \in WIstekKaydi /\ r.adim = "kaydet" /\ r.e \in WOlaylari /\ r.ok \in BOOLEAN
      /\ wSasan \in BOOLEAN /\ wKabul \subseteq WIleti /\ wOlay \subseteq WOlaylari \X BOOLEAN
  BY <1>1, WIstekAlanlari DEF IletiInv, IletiTypeOK, WOlayKaydet
<1>3. /\ WIlerlet(a, Bitti) /\ UNCHANGED <<wIs, wKabul, wEn, wSasan>>
      /\ wOlay' = IF \E ok \in BOOLEAN : <<r.e, ok>> \in wOlay THEN wOlay ELSE wOlay \cup {<<r.e, r.ok>>}
  BY <1>1 DEF WOlayKaydet
<1>4. Bitti \in WIstekKaydi /\ WIstekDogru(Bitti)' /\ ~WElinde(wIstek[a])
  BY <1>1, <1>2 DEF Bitti, WIstekKaydi, WIstekDogru, WElinde
<1>5. wOlay' \subseteq WOlaylari \X BOOLEAN
  <2>1. <<r.e, r.ok>> \in WOlaylari \X BOOLEAN
    BY <1>2
  <2>2. wOlay' \subseteq wOlay \cup {<<r.e, r.ok>>}
    BY <1>3
  <2> QED BY <1>2, <2>1, <2>2
<1>6. ASSUME ~wSasan', NEW e \in WOlaylari, <<e, TRUE>> \in wOlay', <<e, TRUE>> \notin wOlay
      PROVE  wIs.mid = e[1] /\ WRank(wIs.durum) >= WRank(WMeta(e[2]))
  <2>1. r.e = e /\ r.ok
    BY <1>2, <1>3, <1>6
  <2>2. WIstekDogru(r)
    BY <1>1, <1>3, <1>6 DEF IletiInv
  <2> QED BY <1>2, <2>1, <2>2 DEF WIstekDogru
<1> QED BY <1>2, <1>3, <1>4, <1>5, <1>6, WIlerletKorur

LEMMA WDuserKorur ==
  ASSUME IletiInv, NEW a \in WIstek, WDuser(a)
  PROVE  IletiInv'
<1>1. /\ WIlerlet(a, Bitti) /\ UNCHANGED <<wIs, wKabul, wOlay, wEn>>
      /\ wSasan' = (wSasan \/ wIstek[a].adim = "yaz")
  BY DEF WDuser
<1>2. Bitti \in WIstekKaydi /\ WIstekDogru(Bitti)'
  BY DEF Bitti, WIstekKaydi, WIstekDogru
<1>3. wSasan' \in BOOLEAN /\ (wSasan => wSasan')
  <2>1. wSasan \in BOOLEAN
    BY DEF IletiInv, IletiTypeOK
  <2> QED BY <1>1, <2>1, Zenon
<1>4. ~wSasan' => ~WElinde(wIstek[a])
  BY <1>1 DEF WElinde
<1>5. wKabul' \subseteq WIleti /\ wOlay' \subseteq WOlaylari \X BOOLEAN
  BY <1>1 DEF IletiInv, IletiTypeOK
<1> QED BY <1>1, <1>2, <1>3, <1>4, <1>5, WIlerletKorur

(* The inductive invariant of the status of a reminder always holds.       *)
THEOREM IletiDegismez == IletiSpec => []IletiInv
<1>1. IletiInit => IletiInv
  <2>1. SUFFICES ASSUME IletiInit PROVE IletiInv
    OBVIOUS
  <2>2. /\ wIs \in WIsSatiri /\ wIs.durum = "PLANLANDI" /\ wIs.mid = Yok /\ wKabul = {} /\ wOlay = {}
        /\ wEn = 0 /\ wSasan = FALSE
    BY <2>1 DEF IletiInit, WIsSatiri
  <2>3. wIstek \in [WIstek -> WIstekKaydi] /\ \A a \in WIstek : wIstek[a].adim = "bos"
    BY <2>1 DEF IletiInit, WIstekKaydi, Bos
  <2>4. WIsDogru
    BY <2>2, WRankDegeri DEF WIsDogru
  <2>5. IletiTypeOK
    BY <2>2 DEF IletiTypeOK
  <2> QED BY <2>3, <2>4, <2>5 DEF IletiInv, WIstekDogru
<1>2. IletiInv /\ [IletiNext]_iletiVars => IletiInv'
  <2>1. ASSUME IletiInv, UNCHANGED iletiVars PROVE IletiInv'
    BY <2>1 DEF iletiVars, IletiInv, IletiTypeOK, WIsDogru, WIstekDogru, WElinde
  <2> QED BY <2>1, WAlKorur, WIsciOkuKorur, WGonderKorur, WYazmaKorur, WIptalKorur, WOlayOkuKorur, WOlayYazKorur,
             WOlayKaydetKorur, WDuserKorur, WElleOkuKorur DEF IletiNext, IletiAdimi, WAcilir, WIsaretlenir
<1> QED BY <1>1, <1>2, PTL DEF IletiSpec

(* The status of a reminder never goes back and misses no recorded event,  *)
(* and a second message needs overlapping senders or a lost answer, for    *)
(* any number of requests, messages and events (webhook.processor.ts:30,   *)
(* :202, bildirimJobWhatsApp.service.ts:153, graphClient.ts:187).          *)
THEOREM IletiTutarlidir == IletiSpec => []IletiTutarli
<1>1. IletiInv => IletiTutarli
  <2>1. SUFFICES ASSUME IletiInv, ~wSasan PROVE
          /\ WRank(wIs.durum) >= wEn
          /\ \A e \in WOlaylari : <<e, TRUE>> \in wOlay /\ e[1] = wIs.mid => WRank(wIs.durum) >= WRank(WMeta(e[2]))
          /\ Cardinality(wKabul) <= 1
          /\ wIs.durum = "IPTAL_EDILDI" => wKabul = {} \/ \E a \in WIstek : wIstek[a].adim = "yaz"
    BY DEF IletiTutarli
  <2>2. WIsDogru
    BY <2>1 DEF IletiInv
  <2>3. Cardinality(wKabul) <= 1
    <3>1. CASE wKabul = {}
      BY <3>1, FS_EmptySet
    <3>2. CASE wKabul # {}
      <4>1. PICK m : wKabul = {m}
        BY <2>2, <3>2 DEF WIsDogru
      <4> QED BY <4>1, FS_Singleton
    <3> QED BY <3>1, <3>2
  <2>4. wIs.durum = "IPTAL_EDILDI" => wIs.mid = Yok
    BY <2>1, WBitmemis, WRankDegeri
  <2> QED BY <2>2, <2>3, <2>4 DEF WIsDogru, WElinde
<1> QED BY <1>1, IletiDegismez, PTL

(* Rows and history of a reminder's status keep their types.               *)
THEOREM IletiTipiKorunur == IletiSpec => []IletiTypeOK
<1>1. IletiInv => IletiTypeOK
  BY DEF IletiInv
<1> QED BY <1>1, IletiDegismez, PTL
-----------------------------------------------------------------------------
(***************************************************************************)
(* Connections.  A request that nobody of its office has overtaken still   *)
(* sees the row and, if it has looked at Meta, the redirection, unless     *)
(* another office has taken that away since; and between Meta and the row  *)
(* there is always a request, or one has stopped half way.                 *)
(***************************************************************************)
BSurer(r) == r \notin {Bos, Bitti}

BKayitDogru(r) ==
  /\ r.adim \in {"isaretle", "degis"} => r.tur = "baglan"
  /\ r.adim \in {"bosalt", "yaz", "kontrol"} => r.tur \in {"baglan", "ac", "kapat"}
  /\ r.adim # "kaydet" => ~r.yon
  /\ ~r.bayat =>
       /\ r.adim = "sor" => bag[r.b].numara # Yok
       /\ r.tur \in {"ac", "kapat"} => bag[r.b].numara = r.n
       /\ r.adim = "kaydet" /\ r.yon => BHesap[r.n] \in bYonlen \/ bBosaltan[BHesap[r.n]] # r.b

BBaglanan(b) == \E a \in BIstek : BSurer(bIstek[a]) /\ bIstek[a].b = b /\ bIstek[a].tur = "baglan"
BYazan(b) ==
  \E a \in BIstek : /\ BSurer(bIstek[a]) /\ bIstek[a].b = b
                    /\ bIstek[a].tur \in {"baglan", "ac", "kapat"} /\ bIstek[a].adim \in {"yaz", "kontrol", "kaydet"}

BDurumSaglam(b) ==
  /\ BBagli(b) /\ bag[b].numara = Yok => b \in bSasan
  /\ bag[b].durum = "BAGLANIYOR" => b \in bYarim \cup bSasan \/ BBaglanan(b)

BYonSaglam(b) ==
  bag[b].yon => \/ b \in bSasan \cup bYarim \/ BYazan(b)
                \/ bag[b].numara # Yok /\ (BHesap[bag[b].numara] \in bYonlen \/ bBosaltan[BHesap[bag[b].numara]] # b)

BagInv ==
  /\ BagTypeOK
  /\ \A b, c \in BBuro : b # c /\ bag[b].numara = bag[c].numara => bag[b].numara = Yok
  /\ \A b \in BBuro : BDurumSaglam(b) /\ BYonSaglam(b)
  /\ \A a \in BIstek : BSurer(bIstek[a]) => BKayitDogru(bIstek[a])

(* A request moves; the others of its office may be overtaken.             *)
LEMMA BIstekEtkisi ==
  ASSUME BagTypeOK, NEW a \in BIstek, NEW b \in BBuro, NEW k \in BIstekKaydi \cup {Bos, Bitti},
         BIlerlet(a, k) \/ BBayat(a, b, k)
  PROVE  /\ bIstek' \in [BIstek -> BIstekKaydi \cup {Bos, Bitti}]
         /\ bIstek'[a] = k
         /\ \A d \in BIstek \ {a} :
              /\ BSurer(bIstek'[d]) <=> BSurer(bIstek[d])
              /\ BSurer(bIstek[d]) =>
                   /\ bIstek'[d].tur = bIstek[d].tur /\ bIstek'[d].adim = bIstek[d].adim
                   /\ bIstek'[d].b = bIstek[d].b /\ bIstek'[d].n = bIstek[d].n /\ bIstek'[d].yon = bIstek[d].yon
                   /\ \/ bIstek'[d].bayat = bIstek[d].bayat
                      \/ bIstek'[d].bayat = TRUE
                   /\ BBayat(a, b, k) /\ bIstek[d].b = b => bIstek'[d].bayat = TRUE
<1>1. CASE BIlerlet(a, k) /\ ~BBayat(a, b, k)
  <2>1. \A d \in BIstek : bIstek'[d] = IF d = a THEN k ELSE bIstek[d]
    BY <1>1 DEF BIlerlet, BagTypeOK
  <2>2. bIstek' \in [BIstek -> BIstekKaydi \cup {Bos, Bitti}]
    BY <1>1 DEF BIlerlet, BagTypeOK
  <2> QED BY <1>1, <2>1, <2>2
<1>2. CASE BBayat(a, b, k)
  <2>1. \A d \in BIstek : bIstek'[d] = IF d = a THEN k ELSE IF BSurer(bIstek[d]) /\ bIstek[d].b = b
                                                       THEN [bIstek[d] EXCEPT !.bayat = TRUE] ELSE bIstek[d]
    BY <1>2 DEF BBayat, BSuren, BSurer
  <2>2. ASSUME NEW r \in BIstekKaydi, NEW y, y = [r EXCEPT !.bayat = TRUE]
        PROVE  /\ y \in BIstekKaydi /\ y.bayat = TRUE
               /\ y.tur = r.tur /\ y.adim = r.adim /\ y.b = r.b /\ y.n = r.n /\ y.yon = r.yon
    BY <2>2 DEF BIstekKaydi
  <2>3. \A d \in BIstek : BSurer(bIstek[d]) => bIstek[d] \in BIstekKaydi
    BY DEF BagTypeOK, BSurer
  <2>8. ASSUME NEW d \in BIstek \ {a}, BSurer(bIstek[d])
        PROVE  /\ bIstek'[d] \in BIstekKaydi
               /\ bIstek'[d].tur = bIstek[d].tur /\ bIstek'[d].adim = bIstek[d].adim
               /\ bIstek'[d].b = bIstek[d].b /\ bIstek'[d].n = bIstek[d].n /\ bIstek'[d].yon = bIstek[d].yon
               /\ bIstek'[d].bayat = bIstek[d].bayat \/ bIstek'[d].bayat = TRUE
               /\ bIstek[d].b = b => bIstek'[d].bayat = TRUE
    <3>1. PICK r \in BIstekKaydi : r = bIstek[d]
      BY <2>3, <2>8
    <3>2. PICK y : y = [r EXCEPT !.bayat = TRUE]
      OBVIOUS
    <3>3. bIstek'[d] = IF r.b = b THEN y ELSE r
      BY <2>1, <2>8, <3>1, <3>2
    <3> QED BY <2>2, <3>1, <3>2, <3>3
  <2>9. \A r \in BIstekKaydi : BSurer(r)
    BY DEF BSurer, BIstekKaydi, BAdimlar, Bos, Bitti
  <2>10. \A d \in BIstek \ {a} : ~BSurer(bIstek[d]) => bIstek'[d] = bIstek[d]
    BY <2>1
  <2>4. \A d \in BIstek : bIstek'[d] \in BIstekKaydi \cup {Bos, Bitti}
    BY <2>1, <2>8, <2>10 DEF BSurer
  <2>5. bIstek' = [d \in BIstek |-> bIstek'[d]]
    BY <1>2 DEF BBayat
  <2>6. bIstek' \in [BIstek -> BIstekKaydi \cup {Bos, Bitti}]
    BY <2>4, <2>5
  <2>7. bIstek'[a] = k
    BY <2>1
  <2> QED BY <1>2, <2>6, <2>7, <2>8, <2>9, <2>10
<1> QED BY <1>1, <1>2

(* Who is at work at an office after a move.                               *)
LEMMA BSurenEtkisi ==
  ASSUME BagTypeOK, NEW a \in BIstek, NEW b \in BBuro, NEW k \in BIstekKaydi \cup {Bos, Bitti},
         BIlerlet(a, k) \/ BBayat(a, b, k),
         BSurer(bIstek[a]) => bIstek[a].b = b,
         BSurer(k) => k.b = b
  PROVE  /\ BSurer(k) /\ k.tur = "baglan" => BBaglanan(b)'
         /\ BBaglanan(b) => BBaglanan(b)' \/ (BSurer(bIstek[a]) /\ bIstek[a].tur = "baglan")
         /\ BSurer(k) /\ k.tur \in {"baglan", "ac", "kapat"} /\ k.adim \in {"yaz", "kontrol", "kaydet"} => BYazan(b)'
         /\ BYazan(b) => BYazan(b)' \/ (/\ BSurer(bIstek[a]) /\ bIstek[a].tur \in {"baglan", "ac", "kapat"}
                                        /\ bIstek[a].adim \in {"yaz", "kontrol", "kaydet"})
         /\ \A c \in BBuro \ {b} : (BBaglanan(c) => BBaglanan(c)') /\ (BYazan(c) => BYazan(c)')
<1>1. /\ bIstek'[a] = k
      /\ \A d \in BIstek \ {a} : BSurer(bIstek[d]) =>
           /\ BSurer(bIstek'[d]) /\ bIstek'[d].tur = bIstek[d].tur /\ bIstek'[d].adim = bIstek[d].adim
           /\ bIstek'[d].b = bIstek[d].b
  <2>1. /\ bIstek' \in [BIstek -> BIstekKaydi \cup {Bos, Bitti}]
        /\ bIstek'[a] = k
        /\ \A d \in BIstek \ {a} :
             /\ BSurer(bIstek'[d]) <=> BSurer(bIstek[d])
             /\ BSurer(bIstek[d]) =>
                  /\ bIstek'[d].tur = bIstek[d].tur /\ bIstek'[d].adim = bIstek[d].adim
                  /\ bIstek'[d].b = bIstek[d].b /\ bIstek'[d].n = bIstek[d].n /\ bIstek'[d].yon = bIstek[d].yon
                  /\ \/ bIstek'[d].bayat = bIstek[d].bayat
                     \/ bIstek'[d].bayat = TRUE
                  /\ BBayat(a, b, k) /\ bIstek[d].b = b => bIstek'[d].bayat = TRUE
    BY BIstekEtkisi
  <2> QED BY <2>1
<1> QED BY <1>1 DEF BBaglanan, BYazan, BSurer

(* A step is as good as what it leaves at its own office.                  *)
LEMMA BAdimKorur ==
  ASSUME BagInv, NEW a \in BIstek, NEW b \in BBuro, NEW k \in BIstekKaydi \cup {Bos, Bitti},
         BIlerlet(a, k) \/ BBayat(a, b, k),
         BSurer(bIstek[a]) => bIstek[a].b = b,
         BSurer(k) => k.b = b,
         bag' \in [BBuro -> BagSatiri], bYonlen' \subseteq BHesaplar, bBosaltan' \in [BHesaplar -> BBuro \cup {Yok}],
         bYarim' \subseteq BBuro, bSasan' \subseteq BBuro,
         \A c \in BBuro \ {b} : /\ bag'[c] = bag[c]
                                /\ c \in bYarim => c \in bYarim'
                                /\ c \in bSasan => c \in bSasan',
         \A h \in BHesaplar : /\ bBosaltan'[h] = bBosaltan[h] \/ bBosaltan'[h] = b
                              /\ h \in bYonlen => h \in bYonlen' \/ bBosaltan'[h] = b,
         BBayat(a, b, k) \/ UNCHANGED <<bag, bYonlen, bBosaltan>>,
         bag'[b].numara \in {Yok, bag[b].numara} \/ ~BBaskasinda(b, bag'[b].numara),
         BSurer(k) => BKayitDogru(k)',
         BDurumSaglam(b)', BYonSaglam(b)'
  PROVE  BagInv'
<1>0. BagTypeOK
  BY DEF BagInv
<1>1. /\ bIstek' \in [BIstek -> BIstekKaydi \cup {Bos, Bitti}]
      /\ bIstek'[a] = k
      /\ \A d \in BIstek \ {a} :
           /\ BSurer(bIstek'[d]) <=> BSurer(bIstek[d])
           /\ BSurer(bIstek[d]) =>
                /\ bIstek'[d].tur = bIstek[d].tur /\ bIstek'[d].adim = bIstek[d].adim
                /\ bIstek'[d].b = bIstek[d].b /\ bIstek'[d].n = bIstek[d].n /\ bIstek'[d].yon = bIstek[d].yon
                /\ \/ bIstek'[d].bayat = bIstek[d].bayat
                   \/ bIstek'[d].bayat = TRUE
                /\ BBayat(a, b, k) /\ bIstek[d].b = b => bIstek'[d].bayat = TRUE
  BY <1>0, BIstekEtkisi
<1>2. BagTypeOK'
  BY <1>1 DEF BagTypeOK
<1>3. \A c, d \in BBuro : c # d /\ bag'[c].numara = bag'[d].numara => bag'[c].numara = Yok
  BY DEF BagInv, BBaskasinda
<1>4. ASSUME NEW c \in BBuro \ {b} PROVE BDurumSaglam(c)' /\ BYonSaglam(c)'
  <2>1. BDurumSaglam(c) /\ BYonSaglam(c)
    BY DEF BagInv
  <2>2. (BBaglanan(c) => BBaglanan(c)') /\ (BYazan(c) => BYazan(c)')
    BY <1>0, BSurenEtkisi
  <2>3. BDurumSaglam(c)'
    BY <2>1, <2>2 DEF BDurumSaglam, BBagli
  <2>4. PICK n \in BNumara \cup {Yok} : n = bag[c].numara /\ n = bag'[c].numara
    BY <1>0 DEF BagTypeOK, BagSatiri
  <2>5. n # Yok => BHesap[n] \in BHesaplar
    BY <2>4 DEF BHesaplar
  <2>6. BYonSaglam(c)'
    BY <2>1, <2>2, <2>4, <2>5 DEF BYonSaglam
  <2> QED BY <2>3, <2>6
<1>5. ASSUME NEW d \in BIstek, BSurer(bIstek'[d]) PROVE BKayitDogru(bIstek[d])'
  <2>1. CASE d = a
    BY <1>1, <1>5, <2>1 DEF BKayitDogru
  <2>2. CASE d # a
    <3>1. PICK r \in BIstekKaydi : r = bIstek[d] /\ BKayitDogru(r)
      BY <1>0, <1>1, <1>5, <2>2 DEF BagInv, BagTypeOK, BSurer
    <3>2. PICK y \in BIstekKaydi : y = bIstek'[d]
      BY <1>1, <1>5 DEF BSurer
    <3>3. /\ y.tur = r.tur /\ y.adim = r.adim /\ y.b = r.b /\ y.n = r.n /\ y.yon = r.yon
          /\ y.bayat = r.bayat \/ y.bayat = TRUE
          /\ BBayat(a, b, k) /\ r.b = b => y.bayat = TRUE
      BY <1>1, <1>5, <2>2, <3>1, <3>2
    <3>4. r.b \in BBuro /\ BHesap[r.n] \in BHesaplar /\ r.bayat \in BOOLEAN
      BY <3>1 DEF BIstekKaydi, BHesaplar
    <3>5. CASE r.b # b
      BY <3>1, <3>2, <3>3, <3>4, <3>5 DEF BKayitDogru
    <3>6. CASE r.b = b /\ BBayat(a, b, k)
      BY <3>1, <3>2, <3>3, <3>4, <3>6 DEF BKayitDogru
    <3>7. CASE UNCHANGED <<bag, bYonlen, bBosaltan>>
      BY <3>1, <3>2, <3>3, <3>4, <3>7 DEF BKayitDogru
    <3> QED BY <3>5, <3>6, <3>7
  <2> QED BY <2>1, <2>2
<1> QED BY <1>2, <1>3, <1>4, <1>5 DEF BagInv
(* What a request holds.                                                   *)
LEMMA BIstekAlanlari ==
  ASSUME BagTypeOK, NEW a \in BIstek, bIstek[a].adim \in BAdimlar
  PROVE  /\ BSurer(bIstek[a]) /\ bIstek[a] \in BIstekKaydi
         /\ bIstek[a].b \in BBuro /\ bIstek[a].n \in BNumara /\ bIstek[a].n # Yok /\ BHesap[bIstek[a].n] \in BHesaplar
         /\ bIstek[a].bayat \in BOOLEAN /\ bIstek[a].yon \in BOOLEAN
         /\ bIstek[a].tur \in {"baglan", "aktar", "ac", "kapat", "dogrula"}
<1>1. bIstek[a] \in BIstekKaydi /\ BSurer(bIstek[a])
  BY DEF BagTypeOK, BSurer, BAdimlar, Bos, Bitti
<1> QED BY <1>1, BaglantiVarsayimi DEF BIstekKaydi, BHesaplar

LEMMA BBitti == ~BSurer(Bos) /\ ~BSurer(Bitti) /\ \A r \in BIstekKaydi : BSurer(r)
BY DEF BSurer, Bos, Bitti, BIstekKaydi, BAdimlar

(* A request moves, and no row and nothing at Meta changes.                *)
LEMMA BIlerletKorur ==
  ASSUME BagInv, NEW a \in BIstek, NEW b \in BBuro, NEW k \in BIstekKaydi \cup {Bos, Bitti}, BIlerlet(a, k),
         BSurer(bIstek[a]) => bIstek[a].b = b,
         BSurer(k) => k.b = b,
         UNCHANGED <<bag, bYonlen, bBosaltan, bSasan>>,
         bYarim \subseteq bYarim', bYarim' \subseteq BBuro,
         BSurer(k) => BKayitDogru(k),
         BSurer(bIstek[a]) /\ bIstek[a].tur = "baglan" => (BSurer(k) /\ k.tur = "baglan") \/ b \in bYarim',
         BSurer(bIstek[a]) /\ bIstek[a].tur \in {"baglan", "ac", "kapat"} /\ bIstek[a].adim \in {"yaz", "kontrol", "kaydet"} =>
           (BSurer(k) /\ k.tur \in {"baglan", "ac", "kapat"} /\ k.adim \in {"yaz", "kontrol", "kaydet"}) \/ b \in bYarim'
  PROVE  BagInv'
<1>0. BagTypeOK /\ BDurumSaglam(b) /\ BYonSaglam(b)
  BY DEF BagInv
<1>1. BBaglanan(b) => BBaglanan(b)' \/ b \in bYarim'
  BY <1>0, BSurenEtkisi
<1>2. BYazan(b) => BYazan(b)' \/ b \in bYarim'
  BY <1>0, BSurenEtkisi
<1>3. BDurumSaglam(b)'
  BY <1>0, <1>1 DEF BDurumSaglam, BBagli
<1>4. BYonSaglam(b)'
  BY <1>0, <1>2 DEF BYonSaglam
<1>5. BSurer(k) => BKayitDogru(k)'
  BY DEF BKayitDogru
<1>6. bag' \in [BBuro -> BagSatiri] /\ bYonlen' \subseteq BHesaplar /\ bBosaltan' \in [BHesaplar -> BBuro \cup {Yok}]
      /\ bSasan' \subseteq BBuro
  BY <1>0 DEF BagTypeOK
<1> QED BY <1>3, <1>4, <1>5, <1>6, BAdimKorur

(* A request writes its row, and leaves the number.                        *)
LEMMA BYazarKorur ==
  ASSUME BagInv, NEW a \in BIstek, NEW b \in BBuro, NEW k \in BIstekKaydi \cup {Bos, Bitti},
         NEW s \in BagSatiri, BYazar(a, b, k, s),
         NEW r \in BIstekKaydi, r = bIstek[a], r.b = b,
         BSurer(k) => k.b = b,
         UNCHANGED <<bYonlen, bBosaltan, bYarim>>,
         BSurer(k) => BKayitDogru(k)',
         s.numara = bag[b].numara,
         s.durum = "BAGLI" /\ s.numara = Yok => r.bayat \/ bag[b].durum = "BAGLI",
         s.durum = "BAGLANIYOR" => (BSurer(k) /\ k.tur = "baglan") \/ (bag[b].durum = "BAGLANIYOR" /\ r.tur # "baglan"),
         s.yon => \/ r.bayat
                  \/ s.numara # Yok /\ (BHesap[s.numara] \in bYonlen \/ bBosaltan[BHesap[s.numara]] # b)
                  \/ bag[b].yon /\ ~(r.tur \in {"baglan", "ac", "kapat"} /\ r.adim \in {"yaz", "kontrol", "kaydet"})
  PROVE  BagInv'
<1>0. BagTypeOK /\ BDurumSaglam(b) /\ BYonSaglam(b) /\ r.bayat \in BOOLEAN
  BY DEF BagInv, BIstekKaydi
<1>1. /\ bag' = [bag EXCEPT ![b] = s] /\ BBayat(a, b, k)
      /\ bSasan' = IF r.bayat THEN bSasan \cup {b} ELSE bSasan
  BY DEF BYazar
<1>2. bag' \in [BBuro -> BagSatiri] /\ bag'[b] = s /\ \A c \in BBuro \ {b} : bag'[c] = bag[c]
  BY <1>0, <1>1 DEF BagTypeOK
<1>3. BSurer(bIstek[a]) /\ BSurer(r)
  BY BBitti
<1>4. /\ BSurer(k) /\ k.tur = "baglan" => BBaglanan(b)'
      /\ BBaglanan(b) => BBaglanan(b)' \/ r.tur = "baglan"
      /\ BYazan(b) => BYazan(b)' \/ (r.tur \in {"baglan", "ac", "kapat"} /\ r.adim \in {"yaz", "kontrol", "kaydet"})
  BY <1>0, <1>1, <1>3, BSurenEtkisi
<1>5. BDurumSaglam(b)'
  BY <1>0, <1>1, <1>2, <1>4 DEF BDurumSaglam, BBagli
<1>6. BYonSaglam(b)'
  <2>1. SUFFICES ASSUME s.yon
                 PROVE  \/ b \in bSasan' \cup bYarim \/ BYazan(b)'
                        \/ s.numara # Yok /\ (BHesap[s.numara] \in bYonlen \/ bBosaltan[BHesap[s.numara]] # b)
    BY <1>2 DEF BYonSaglam
  <2>2. CASE r.bayat
    BY <1>1, <2>2
  <2>3. CASE bag[b].yon /\ ~(r.tur \in {"baglan", "ac", "kapat"} /\ r.adim \in {"yaz", "kontrol", "kaydet"})
    BY <1>0, <1>1, <1>4, <2>3 DEF BYonSaglam
  <2> QED BY <2>1, <2>2, <2>3
<1>7. bYonlen' \subseteq BHesaplar /\ bBosaltan' \in [BHesaplar -> BBuro \cup {Yok}] /\ bYarim' \subseteq BBuro
      /\ bSasan' \subseteq BBuro
  BY <1>0, <1>1 DEF BagTypeOK
<1> QED BY <1>1, <1>2, <1>3, <1>5, <1>6, <1>7, BAdimKorur

(* The steps of connecting.                                                *)
LEMMA BBaglanOkuKorur ==
  ASSUME BagInv, NEW a \in BIstek, BBaglanOku(a)
  PROVE  BagInv'
<1>1. PICK b \in BBuro, n \in BNumara, tur \in {"baglan", "aktar"} :
        BIlerlet(a, [tur |-> tur, adim |-> IF tur = "baglan" THEN "isaretle" ELSE "kaydet",
                     b |-> b, n |-> n, yon |-> FALSE, bayat |-> FALSE])
  BY DEF BBaglanOku
<1>2. PICK k : k = [tur |-> tur, adim |-> IF tur = "baglan" THEN "isaretle" ELSE "kaydet",
                    b |-> b, n |-> n, yon |-> FALSE, bayat |-> FALSE]
  OBVIOUS
<1>3. /\ k \in BIstekKaydi /\ k.tur = tur /\ k.b = b /\ ~k.yon /\ k.adim \in {"isaretle", "kaydet"}
      /\ k.adim = "isaretle" => tur = "baglan"
  BY <1>2 DEF BIstekKaydi, BAdimlar
<1>4. BKayitDogru(k)
  BY <1>3 DEF BKayitDogru
<1>5. ~BSurer(bIstek[a]) /\ UNCHANGED <<bag, bYonlen, bBosaltan, bYarim, bSasan>>
  BY BBitti DEF BBaglanOku, BGelir, Ilk
<1>6. bYarim' \subseteq BBuro
  BY <1>5 DEF BagInv, BagTypeOK
<1> QED BY <1>1, <1>2, <1>3, <1>4, <1>5, <1>6, BIlerletKorur

LEMMA BIsaretleKorur ==
  ASSUME BagInv, NEW a \in BIstek, BIsaretle(a)
  PROVE  BagInv'
<1>1. PICK r \in BIstekKaydi : r = bIstek[a] /\ r.adim = "isaretle" /\ r.b \in BBuro /\ r.tur = "baglan" /\ ~r.yon
  BY BIstekAlanlari DEF BIsaretle, BagInv, BAdimlar, BKayitDogru
<1>2. PICK k : k = [r EXCEPT !.adim = "degis"]
  OBVIOUS
<1>3. k \in BIstekKaydi /\ k.tur = "baglan" /\ k.b = r.b /\ ~k.yon /\ k.adim = "degis"
  BY <1>1, <1>2 DEF BIstekKaydi, BAdimlar
<1>4. PICK s : s = [bag[r.b] EXCEPT !.durum = "BAGLANIYOR"]
  OBVIOUS
<1>5. s \in BagSatiri /\ s.durum = "BAGLANIYOR" /\ s.numara = bag[r.b].numara /\ s.yon = bag[r.b].yon
  BY <1>1, <1>4 DEF BagInv, BagTypeOK, BagSatiri, BDurum
<1>6. BYazar(a, r.b, k, s) /\ UNCHANGED <<bYonlen, bBosaltan, bYarim>>
  BY <1>1, <1>2, <1>4 DEF BIsaretle
<1>7. BKayitDogru(k)'
  BY <1>3 DEF BKayitDogru
<1> QED BY <1>1, <1>3, <1>5, <1>6, <1>7, BYazarKorur, BBitti

LEMMA BDegisKorur ==
  ASSUME BagInv, NEW a \in BIstek, BDegis(a)
  PROVE  BagInv'
<1>1. PICK r \in BIstekKaydi : r = bIstek[a] /\ r.adim = "degis" /\ r.b \in BBuro /\ r.tur = "baglan" /\ ~r.yon
                               /\ BSurer(bIstek[a])
  BY BIstekAlanlari DEF BDegis, BagInv, BAdimlar, BKayitDogru
<1>2. UNCHANGED <<bYonlen, bBosaltan, bYarim>> /\ bYarim \subseteq BBuro
  BY DEF BDegis, BagInv, BagTypeOK
<1>3. CASE BIlerlet(a, [r EXCEPT !.adim = "bosalt"]) /\ UNCHANGED <<bag, bSasan>>
  <2>1. PICK k : k = [r EXCEPT !.adim = "bosalt"]
    OBVIOUS
  <2>2. k \in BIstekKaydi /\ k.tur = "baglan" /\ k.b = r.b /\ ~k.yon /\ k.adim = "bosalt"
    BY <1>1, <2>1 DEF BIstekKaydi, BAdimlar
  <2>3. BKayitDogru(k)
    BY <2>2 DEF BKayitDogru
  <2> QED BY <1>1, <1>2, <1>3, <2>1, <2>2, <2>3, BIlerletKorur, BBitti
<1>4. CASE BYazar(a, r.b, Bitti, [bag[r.b] EXCEPT !.durum = "HATA"])
  <2>1. PICK s : s = [bag[r.b] EXCEPT !.durum = "HATA"]
    OBVIOUS
  <2>2. s \in BagSatiri /\ s.durum = "HATA" /\ s.numara = bag[r.b].numara /\ s.yon = bag[r.b].yon
    BY <1>1, <2>1 DEF BagInv, BagTypeOK, BagSatiri, BDurum
  <2>3. PICK k \in {Bitti} : TRUE
    OBVIOUS
  <2>4. BYazar(a, r.b, k, s) /\ ~BSurer(k)
    BY <1>4, <2>1, <2>3, BBitti
  <2> QED BY <1>1, <1>2, <2>2, <2>3, <2>4, BYazarKorur
<1> QED BY <1>1, <1>3, <1>4 DEF BDegis
LEMMA BBaglanKaydetKorur ==
  ASSUME BagInv, NEW a \in BIstek, BBaglanKaydet(a)
  PROVE  BagInv'
<1>0. BagTypeOK
  BY DEF BagInv
<1>1. PICK r \in BIstekKaydi : r = bIstek[a] /\ r.adim = "kaydet" /\ r.tur \in {"baglan", "aktar"}
  BY <1>0, BIstekAlanlari DEF BBaglanKaydet, BAdimlar
<1>2. /\ r.b \in BBuro /\ r.n \in BNumara /\ r.n # Yok /\ BHesap[r.n] \in BHesaplar
      /\ r.bayat \in BOOLEAN /\ r.yon \in BOOLEAN /\ BSurer(bIstek[a]) /\ BSurer(r) /\ BKayitDogru(r)
  BY <1>0, <1>1, BIstekAlanlari DEF BagInv, BAdimlar
<1>3. PICK k \in {Bitti} : TRUE
  OBVIOUS
<1>4. ~BSurer(k) /\ UNCHANGED <<bYonlen, bBosaltan>>
  BY <1>3, BBitti DEF BBaglanKaydet
<1>5. CASE BTek(r.b, r.n)
  <2>1. PICK s : s = [durum |-> "BAGLI", numara |-> r.n, yon |-> r.yon]
    OBVIOUS
  <2>2. s \in BagSatiri /\ s.durum = "BAGLI" /\ s.numara = r.n /\ s.yon = r.yon
    BY <1>2, <2>1 DEF BagSatiri, BDurum
  <2>3. /\ bag' = [bag EXCEPT ![r.b] = s] /\ BBayat(a, r.b, k)
        /\ bSasan' = (IF r.bayat THEN bSasan \cup {r.b} ELSE bSasan \ {r.b})
        /\ bYarim' = bYarim \ {r.b}
    BY <1>1, <1>3, <1>5, <2>1 DEF BBaglanKaydet
  <2>4. bag' \in [BBuro -> BagSatiri] /\ bag'[r.b] = s /\ \A c \in BBuro \ {r.b} : bag'[c] = bag[c]
    BY <1>0, <1>2, <2>2, <2>3 DEF BagTypeOK
  <2>5. BDurumSaglam(r.b)'
    BY <1>2, <2>2, <2>4 DEF BDurumSaglam, BBagli
  <2>6. BYonSaglam(r.b)'
    BY <1>1, <1>2, <1>4, <2>2, <2>3, <2>4 DEF BYonSaglam, BKayitDogru
  <2>7. /\ bYonlen' \subseteq BHesaplar /\ bBosaltan' \in [BHesaplar -> BBuro \cup {Yok}]
        /\ bYarim' \subseteq BBuro /\ bSasan' \subseteq BBuro
    BY <1>0, <1>2, <1>4, <2>3 DEF BagTypeOK
  <2>8. ~BBaskasinda(r.b, bag'[r.b].numara)
    BY <1>5, <2>2, <2>4 DEF BTek
  <2>9. \A c \in BBuro \ {r.b} : (c \in bYarim => c \in bYarim') /\ (c \in bSasan => c \in bSasan')
    BY <2>3
  <2>10. \A h \in BHesaplar : bBosaltan'[h] = bBosaltan[h] /\ (h \in bYonlen => h \in bYonlen')
    BY <1>4
  <2>11. k \in BIstekKaydi \cup {Bos, Bitti} /\ (BSurer(bIstek[a]) => bIstek[a].b = r.b)
    BY <1>1
  <2> QED BY <1>2, <1>4, <2>11, <2>3, <2>4, <2>5, <2>6, <2>7, <2>8, <2>9, <2>10, BAdimKorur
<1>6. CASE ~BTek(r.b, r.n)
  <2>1. BIlerlet(a, k) /\ bYarim' = bYarim \cup {r.b} /\ UNCHANGED <<bag, bSasan>>
    BY <1>1, <1>3, <1>6 DEF BBaglanKaydet
  <2>2. bYarim \subseteq bYarim' /\ bYarim' \subseteq BBuro /\ r.b \in bYarim'
    BY <1>0, <1>2, <2>1 DEF BagTypeOK
  <2> QED BY <1>1, <1>2, <1>3, <1>4, <2>1, <2>2, BIlerletKorur
<1> QED BY <1>5, <1>6

(* Where Meta sends the events.                                            *)
LEMMA BYonOkuKorur ==
  ASSUME BagInv, NEW a \in BIstek, BYonOku(a)
  PROVE  BagInv'
<1>1. PICK b \in BBuro, tur \in {"ac", "kapat"} :
        /\ bag[b].numara # Yok
        /\ BIlerlet(a, [tur |-> tur, adim |-> "bosalt", b |-> b, n |-> bag[b].numara, yon |-> FALSE, bayat |-> FALSE])
  BY DEF BYonOku
<1>2. PICK n \in BNumara : n = bag[b].numara
  BY <1>1 DEF BagInv, BagTypeOK, BagSatiri
<1>3. PICK k : k = [tur |-> tur, adim |-> "bosalt", b |-> b, n |-> n, yon |-> FALSE, bayat |-> FALSE]
  OBVIOUS
<1>4. k \in BIstekKaydi /\ k.tur = tur /\ k.b = b /\ ~k.yon /\ k.adim = "bosalt" /\ k.n = n
  BY <1>3 DEF BIstekKaydi, BAdimlar
<1>5. BKayitDogru(k)
  BY <1>2, <1>4 DEF BKayitDogru
<1>6. ~BSurer(bIstek[a]) /\ UNCHANGED <<bag, bYonlen, bBosaltan, bYarim, bSasan>>
  BY BBitti DEF BYonOku, BGelir, Ilk
<1>7. bYarim' \subseteq BBuro /\ BIlerlet(a, k)
  BY <1>1, <1>2, <1>3, <1>6 DEF BagInv, BagTypeOK
<1> QED BY <1>4, <1>5, <1>6, <1>7, BIlerletKorur

(* A request between Meta's answers.                                       *)
LEMMA BMetaIstegi ==
  ASSUME BagInv, NEW a \in BIstek, bIstek[a].adim \in {"bosalt", "yaz", "kontrol"}
  PROVE  \E r \in BIstekKaydi :
           /\ r = bIstek[a] /\ r.b \in BBuro /\ r.tur \in {"baglan", "ac", "kapat"} /\ ~r.yon /\ BKayitDogru(r)
           /\ r.n \in BNumara /\ BHesap[r.n] \in BHesaplar /\ BSurer(r)
<1>1. bIstek[a].adim \in BAdimlar
  BY DEF BAdimlar
<1> QED BY <1>1, BIstekAlanlari DEF BagInv, BKayitDogru

LEMMA BMetaHatasiKorur ==
  ASSUME BagInv, NEW a \in BIstek, bIstek[a].adim \in {"bosalt", "yaz", "kontrol"}, BMetaHatasi(a)
  PROVE  BagInv'
<1>1. PICK r \in BIstekKaydi :
        /\ r = bIstek[a] /\ r.b \in BBuro /\ r.tur \in {"baglan", "ac", "kapat"} /\ ~r.yon /\ BKayitDogru(r)
        /\ r.n \in BNumara /\ BHesap[r.n] \in BHesaplar /\ BSurer(r)
  BY BMetaIstegi
<1>2. UNCHANGED <<bag, bYonlen, bBosaltan, bSasan>> /\ bYarim \subseteq BBuro
  BY DEF BMetaHatasi, BagInv, BagTypeOK
<1>3. CASE r.tur = "baglan"
  <2>1. PICK k : k = [r EXCEPT !.adim = "kaydet"]
    OBVIOUS
  <2>2. k \in BIstekKaydi /\ k.tur = "baglan" /\ k.b = r.b /\ ~k.yon /\ k.adim = "kaydet" /\ BSurer(k)
    BY <1>1, <1>3, <2>1, BBitti DEF BIstekKaydi, BAdimlar
  <2>3. BKayitDogru(k)
    BY <2>2 DEF BKayitDogru
  <2>4. BIlerlet(a, k) /\ bYarim' = bYarim
    BY <1>1, <1>3, <2>1 DEF BMetaHatasi
  <2> QED BY <1>1, <1>2, <2>2, <2>3, <2>4, BIlerletKorur
<1>4. CASE r.tur # "baglan"
  <2>1. PICK k \in {Bitti} : TRUE
    OBVIOUS
  <2>2. BIlerlet(a, k) /\ bYarim' = (IF r.adim = "bosalt" THEN bYarim ELSE bYarim \cup {r.b}) /\ ~BSurer(k)
    BY <1>1, <1>4, <2>1, BBitti DEF BMetaHatasi
  <2>3. bYarim \subseteq bYarim' /\ bYarim' \subseteq BBuro /\ (r.adim # "bosalt" => r.b \in bYarim')
    BY <1>1, <1>2, <2>2
  <2> QED BY <1>1, <1>2, <1>4, <2>1, <2>2, <2>3, BIlerletKorur
<1> QED BY <1>3, <1>4
LEMMA BMetaKorur ==
  ASSUME BagInv, NEW a \in BIstek, NEW r \in BIstekKaydi, NEW k \in BIstekKaydi,
         r = bIstek[a], r.b \in BBuro, r.tur \in {"baglan", "ac", "kapat"}, BKayitDogru(r), BHesap[r.n] \in BHesaplar,
         k.tur = r.tur, k.b = r.b, k.n = r.n, k.bayat = r.bayat, ~k.yon, k.adim \in {"yaz", "kontrol"},
         BBayat(a, r.b, k), UNCHANGED <<bag, bYarim, bSasan>>,
         bYonlen' \subseteq BHesaplar, bBosaltan' \in [BHesaplar -> BBuro \cup {Yok}],
         \A h \in BHesaplar : /\ bBosaltan'[h] = bBosaltan[h] \/ bBosaltan'[h] = r.b
                              /\ h \in bYonlen => h \in bYonlen' \/ bBosaltan'[h] = r.b
  PROVE  BagInv'
<1>0. BagTypeOK /\ BDurumSaglam(r.b) /\ BYonSaglam(r.b) /\ BSurer(k) /\ BSurer(bIstek[a])
  BY BBitti DEF BagInv
<1>1. /\ k.tur = "baglan" => BBaglanan(r.b)'
      /\ BBaglanan(r.b) => BBaglanan(r.b)' \/ r.tur = "baglan"
      /\ BYazan(r.b)'
  BY <1>0, BSurenEtkisi
<1>2. BDurumSaglam(r.b)'
  BY <1>0, <1>1 DEF BDurumSaglam, BBagli
<1>3. BYonSaglam(r.b)'
  BY <1>1 DEF BYonSaglam
<1>4. BKayitDogru(k)'
  BY DEF BKayitDogru
<1>5. bag' \in [BBuro -> BagSatiri] /\ bYarim' \subseteq BBuro /\ bSasan' \subseteq BBuro
  BY <1>0 DEF BagTypeOK
<1> QED BY <1>0, <1>2, <1>3, <1>4, <1>5, BAdimKorur

LEMMA BBosaltKorur ==
  ASSUME BagInv, NEW a \in BIstek, BBosalt(a)
  PROVE  BagInv'
<1>0. bIstek[a].adim = "bosalt" /\ BagTypeOK
  BY DEF BBosalt, BagInv
<1>1. PICK r \in BIstekKaydi :
        /\ r = bIstek[a] /\ r.b \in BBuro /\ r.tur \in {"baglan", "ac", "kapat"} /\ ~r.yon /\ BKayitDogru(r)
        /\ r.n \in BNumara /\ BHesap[r.n] \in BHesaplar /\ BSurer(r)
  BY <1>0, BMetaIstegi
<1>2. CASE BMetaHatasi(a)
  BY <1>0, <1>2, BMetaHatasiKorur
<1>3. CASE /\ bYonlen' = bYonlen \ {BHesap[r.n]} /\ bBosaltan' = [bBosaltan EXCEPT ![BHesap[r.n]] = r.b]
           /\ BBayat(a, r.b, [r EXCEPT !.adim = IF r.tur = "kapat" THEN "kontrol" ELSE "yaz"])
           /\ UNCHANGED <<bag, bYarim, bSasan>>
  <2>1. PICK k : k = [r EXCEPT !.adim = IF r.tur = "kapat" THEN "kontrol" ELSE "yaz"]
    OBVIOUS
  <2>2. /\ k \in BIstekKaydi /\ k.tur = r.tur /\ k.b = r.b /\ k.n = r.n /\ k.bayat = r.bayat /\ ~k.yon
        /\ k.adim \in {"yaz", "kontrol"}
    BY <1>1, <2>1 DEF BIstekKaydi, BAdimlar
  <2>3. bYonlen' \subseteq BHesaplar /\ bBosaltan' \in [BHesaplar -> BBuro \cup {Yok}]
    BY <1>0, <1>1, <1>3 DEF BagTypeOK
  <2>4. \A h \in BHesaplar : /\ bBosaltan'[h] = bBosaltan[h] \/ bBosaltan'[h] = r.b
                             /\ h \in bYonlen => h \in bYonlen' \/ bBosaltan'[h] = r.b
    BY <1>0, <1>1, <1>3 DEF BagTypeOK
  <2>5. BBayat(a, r.b, k) /\ UNCHANGED <<bag, bYarim, bSasan>>
    BY <1>3, <2>1
  <2> QED BY <1>1, <2>2, <2>3, <2>4, <2>5, BMetaKorur
<1> QED BY <1>1, <1>2, <1>3 DEF BBosalt

LEMMA BYazKorur ==
  ASSUME BagInv, NEW a \in BIstek, BYaz(a)
  PROVE  BagInv'
<1>0. bIstek[a].adim = "yaz" /\ BagTypeOK
  BY DEF BYaz, BagInv
<1>1. PICK r \in BIstekKaydi :
        /\ r = bIstek[a] /\ r.b \in BBuro /\ r.tur \in {"baglan", "ac", "kapat"} /\ ~r.yon /\ BKayitDogru(r)
        /\ r.n \in BNumara /\ BHesap[r.n] \in BHesaplar /\ BSurer(r)
  BY <1>0, BMetaIstegi
<1>2. CASE BMetaHatasi(a)
  BY <1>0, <1>2, BMetaHatasiKorur
<1>3. CASE /\ bYonlen' = bYonlen \cup {BHesap[r.n]}
           /\ BBayat(a, r.b, [r EXCEPT !.adim = "kontrol"])
           /\ UNCHANGED <<bag, bBosaltan, bYarim, bSasan>>
  <2>1. PICK k : k = [r EXCEPT !.adim = "kontrol"]
    OBVIOUS
  <2>2. /\ k \in BIstekKaydi /\ k.tur = r.tur /\ k.b = r.b /\ k.n = r.n /\ k.bayat = r.bayat /\ ~k.yon
        /\ k.adim = "kontrol"
    BY <1>1, <2>1 DEF BIstekKaydi, BAdimlar
  <2>3. bYonlen' \subseteq BHesaplar /\ bBosaltan' \in [BHesaplar -> BBuro \cup {Yok}]
    BY <1>0, <1>1, <1>3 DEF BagTypeOK
  <2>4. \A h \in BHesaplar : bBosaltan'[h] = bBosaltan[h] /\ (h \in bYonlen => h \in bYonlen')
    BY <1>3
  <2> QED BY <1>1, <1>3, <2>1, <2>2, <2>3, <2>4, BMetaKorur
<1> QED BY <1>1, <1>2, <1>3 DEF BYaz

LEMMA BKontrolKorur ==
  ASSUME BagInv, NEW a \in BIstek, BKontrol(a)
  PROVE  BagInv'
<1>0. bIstek[a].adim = "kontrol" /\ BagTypeOK
  BY DEF BKontrol, BagInv
<1>1. PICK r \in BIstekKaydi :
        /\ r = bIstek[a] /\ r.b \in BBuro /\ r.tur \in {"baglan", "ac", "kapat"} /\ ~r.yon /\ BKayitDogru(r)
        /\ r.n \in BNumara /\ BHesap[r.n] \in BHesaplar /\ BSurer(r)
  BY <1>0, BMetaIstegi
<1>2. CASE BMetaHatasi(a)
  BY <1>0, <1>2, BMetaHatasiKorur
<1>3. CASE /\ (BHesap[r.n] \in bYonlen) = (r.tur # "kapat")
           /\ BIlerlet(a, [r EXCEPT !.adim = "kaydet", !.yon = r.tur # "kapat"])
           /\ UNCHANGED <<bag, bYonlen, bBosaltan, bYarim, bSasan>>
  <2>1. PICK y \in BOOLEAN : y <=> r.tur # "kapat"
    OBVIOUS
  <2>2. PICK k : k = [r EXCEPT !.adim = "kaydet", !.yon = y]
    OBVIOUS
  <2>3. /\ k \in BIstekKaydi /\ k.tur = r.tur /\ k.b = r.b /\ k.n = r.n /\ k.bayat = r.bayat /\ k.yon = y
        /\ k.adim = "kaydet"
    BY <1>1, <2>2 DEF BIstekKaydi, BAdimlar
  <2>4. y = (r.tur # "kapat")
    BY <2>1, Zenon
  <2>5. BIlerlet(a, k)
    BY <1>3, <2>2, <2>4
  <2>6. BKayitDogru(k)
    BY <1>1, <1>3, <2>1, <2>3 DEF BKayitDogru
  <2>7. bYarim' \subseteq BBuro /\ bYarim \subseteq bYarim'
    BY <1>0, <1>3 DEF BagTypeOK
  <2> QED BY <1>1, <1>3, <2>3, <2>5, <2>6, <2>7, BIlerletKorur, BBitti
<1> QED BY <1>1, <1>2, <1>3 DEF BKontrol

LEMMA BYonKaydetKorur ==
  ASSUME BagInv, NEW a \in BIstek, BYonKaydet(a)
  PROVE  BagInv'
<1>0. BagTypeOK
  BY DEF BagInv
<1>1. PICK r \in BIstekKaydi : r = bIstek[a] /\ r.adim = "kaydet" /\ r.tur \in {"ac", "kapat"}
  BY <1>0, BIstekAlanlari DEF BYonKaydet, BAdimlar
<1>2. /\ r.b \in BBuro /\ r.n # Yok /\ r.yon \in BOOLEAN /\ BKayitDogru(r)
  BY <1>0, <1>1, BIstekAlanlari DEF BagInv, BAdimlar
<1>3. PICK k \in {Bitti} : TRUE
  OBVIOUS
<1>4. PICK s : s = [bag[r.b] EXCEPT !.yon = r.yon]
  OBVIOUS
<1>5. s \in BagSatiri /\ s.durum = bag[r.b].durum /\ s.numara = bag[r.b].numara /\ s.yon = r.yon
  BY <1>0, <1>2, <1>4 DEF BagTypeOK, BagSatiri
<1>6. BYazar(a, r.b, k, s) /\ ~BSurer(k) /\ UNCHANGED <<bYonlen, bBosaltan, bYarim>>
  BY <1>1, <1>3, <1>4, BBitti DEF BYonKaydet
<1>7. r.yon => r.bayat \/ (bag[r.b].numara = r.n /\ (BHesap[r.n] \in bYonlen \/ bBosaltan[BHesap[r.n]] # r.b))
  BY <1>1, <1>2 DEF BKayitDogru
<1>8. s.yon => r.bayat \/ (s.numara # Yok /\ (BHesap[s.numara] \in bYonlen \/ bBosaltan[BHesap[s.numara]] # r.b))
  BY <1>2, <1>5, <1>7
<1> QED BY <1>1, <1>2, <1>3, <1>5, <1>6, <1>8, BYazarKorur

(* Looking after a connection.                                             *)
LEMMA BDogrulaOkuKorur ==
  ASSUME BagInv, NEW a \in BIstek, BDogrulaOku(a)
  PROVE  BagInv'
<1>1. PICK b \in BBuro :
        /\ bag[b].numara # Yok
        /\ BIlerlet(a, [tur |-> "dogrula", adim |-> "sor", b |-> b, n |-> bag[b].numara, yon |-> FALSE, bayat |-> FALSE])
  BY DEF BDogrulaOku
<1>2. PICK n \in BNumara : n = bag[b].numara
  BY <1>1 DEF BagInv, BagTypeOK, BagSatiri
<1>3. PICK k : k = [tur |-> "dogrula", adim |-> "sor", b |-> b, n |-> n, yon |-> FALSE, bayat |-> FALSE]
  OBVIOUS
<1>4. k \in BIstekKaydi /\ k.tur = "dogrula" /\ k.b = b /\ ~k.yon /\ k.adim = "sor"
  BY <1>3 DEF BIstekKaydi, BAdimlar
<1>5. BKayitDogru(k)
  BY <1>1, <1>4 DEF BKayitDogru
<1>6. ~BSurer(bIstek[a]) /\ UNCHANGED <<bag, bYonlen, bBosaltan, bYarim, bSasan>>
  BY BBitti DEF BDogrulaOku, BGelir, Ilk
<1>7. bYarim' \subseteq BBuro /\ BIlerlet(a, k)
  BY <1>1, <1>2, <1>3, <1>6 DEF BagInv, BagTypeOK
<1> QED BY <1>4, <1>5, <1>6, <1>7, BIlerletKorur

LEMMA BDogrulaKorur ==
  ASSUME BagInv, NEW a \in BIstek, BDogrula(a)
  PROVE  BagInv'
<1>0. BagTypeOK
  BY DEF BagInv
<1>1. PICK r \in BIstekKaydi : r = bIstek[a] /\ r.adim = "sor"
  BY <1>0, BIstekAlanlari DEF BDogrula, BAdimlar
<1>2. /\ r.b \in BBuro /\ r.bayat \in BOOLEAN /\ BKayitDogru(r)
  BY <1>0, <1>1, BIstekAlanlari DEF BagInv, BAdimlar
<1>3. PICK k \in {Bitti} : TRUE
  OBVIOUS
<1>4. PICK d \in {"BAGLI", "HATA"} : BYazar(a, r.b, k, [bag[r.b] EXCEPT !.durum = d])
  BY <1>1, <1>3 DEF BDogrula
<1>5. PICK s : s = [bag[r.b] EXCEPT !.durum = d]
  OBVIOUS
<1>6. s \in BagSatiri /\ s.durum = d /\ s.numara = bag[r.b].numara /\ s.yon = bag[r.b].yon
  BY <1>0, <1>2, <1>5 DEF BagTypeOK, BagSatiri, BDurum
<1>7. BYazar(a, r.b, k, s) /\ ~BSurer(k) /\ UNCHANGED <<bYonlen, bBosaltan, bYarim>>
  BY <1>3, <1>4, <1>5, BBitti DEF BDogrula
<1>8. r.bayat \/ s.numara # Yok
  BY <1>1, <1>2, <1>6 DEF BKayitDogru
<1> QED BY <1>1, <1>2, <1>3, <1>6, <1>7, <1>8, BYazarKorur

LEMMA BKesKorur ==
  ASSUME BagInv, NEW a \in BIstek, BKes(a)
  PROVE  BagInv'
<1>0. BagTypeOK
  BY DEF BagInv
<1>1. PICK b \in BBuro : /\ bag' = [bag EXCEPT ![b] = BKesilen(b)] /\ BBayat(a, b, Bitti)
                         /\ bSasan' = bSasan \ {b} /\ bYarim' = bYarim \ {b}
  BY DEF BKes
<1>2. PICK k \in {Bitti} : BBayat(a, b, k)
  BY <1>1
<1>3. ~BSurer(k) /\ ~BSurer(bIstek[a]) /\ UNCHANGED <<bYonlen, bBosaltan>>
  BY <1>2, BBitti DEF BKes, BGelir, Ilk
<1>4a. PICK s : s = BKesilen(b)
  OBVIOUS
<1>4. s \in BagSatiri /\ s.durum = "BAGLANTI_KESILDI" /\ s.numara = Yok /\ ~s.yon
  BY <1>4a DEF BKesilen, BagSatiri, BDurum
<1>5. bag' \in [BBuro -> BagSatiri] /\ bag'[b] = s /\ \A c \in BBuro \ {b} : bag'[c] = bag[c]
  BY <1>0, <1>1, <1>4a, <1>4 DEF BagTypeOK
<1>6. BDurumSaglam(b)' /\ BYonSaglam(b)'
  BY <1>4, <1>5 DEF BDurumSaglam, BYonSaglam, BBagli
<1>7. /\ bYonlen' \subseteq BHesaplar /\ bBosaltan' \in [BHesaplar -> BBuro \cup {Yok}]
      /\ bYarim' \subseteq BBuro /\ bSasan' \subseteq BBuro
  BY <1>0, <1>1, <1>3 DEF BagTypeOK
<1>8. \A c \in BBuro \ {b} : (c \in bYarim => c \in bYarim') /\ (c \in bSasan => c \in bSasan')
  BY <1>1
<1>9. \A h \in BHesaplar : bBosaltan'[h] = bBosaltan[h] /\ (h \in bYonlen => h \in bYonlen')
  BY <1>3
<1>10. bag'[b].numara \in {Yok, bag[b].numara} /\ k \in BIstekKaydi \cup {Bos, Bitti}
  BY <1>4, <1>5
<1> QED BY <1>2, <1>3, <1>5, <1>6, <1>7, <1>8, <1>9, <1>10, BAdimKorur

LEMMA BKaybolKorur ==
  ASSUME BagInv, NEW a \in BIstek, BKaybol(a)
  PROVE  BagInv'
<1>0. BagTypeOK
  BY DEF BagInv
<1>1. PICK r \in BIstekKaydi : r = bIstek[a] /\ r.b \in BBuro /\ BSurer(r)
  BY <1>0 DEF BKaybol, BagTypeOK, BSurer, BIstekKaydi
<1>2. PICK k \in {Bitti} : BIlerlet(a, k)
  BY DEF BKaybol
<1>3. bYarim' = bYarim \cup {r.b} /\ UNCHANGED <<bag, bYonlen, bBosaltan, bSasan>> /\ ~BSurer(k)
  BY <1>1, <1>2, BBitti DEF BKaybol
<1>4. bYarim \subseteq bYarim' /\ bYarim' \subseteq BBuro /\ r.b \in bYarim'
  BY <1>0, <1>1, <1>3 DEF BagTypeOK
<1> QED BY <1>1, <1>2, <1>3, <1>4, BIlerletKorur

\* BagSpec => []BagInv: a request that nobody of its office has overtaken
\* still sees the row it read, and between Meta and the row there is always a
\* request, one that stopped half way, or one that wrote over another.
THEOREM BagDegismez == BagSpec => []BagInv
<1>1. BagInit => BagInv
  <2> SUFFICES ASSUME BagInit PROVE BagInv
    OBVIOUS
  <2>1. \A b \in BBuro : bag[b] \in BagSatiri /\ ~bag[b].yon /\ bag[b].durum \in {"DISABLED", "BAGLI"}
                         /\ (bag[b].durum = "BAGLI" => bag[b].numara \in BNumara)
    BY DEF BagInit, BagSatiri, BDurum
  <2>2. BagTypeOK
    BY <2>1 DEF BagInit, BagTypeOK
  <2>3. \A b \in BBuro : BDurumSaglam(b) /\ BYonSaglam(b)
    BY <2>1, BaglantiVarsayimi DEF BDurumSaglam, BYonSaglam, BBagli
  <2>4. \A a \in BIstek : ~BSurer(bIstek[a])
    BY BBitti DEF BagInit
  <2> QED BY <2>2, <2>3, <2>4 DEF BagInit, BagInv
<1>2. BagInv /\ [BagNext]_bagVars => BagInv'
  <2> SUFFICES ASSUME BagInv, [BagNext]_bagVars PROVE BagInv'
    OBVIOUS
  <2>1. CASE UNCHANGED bagVars
    BY <2>1 DEF bagVars, BagInv, BagTypeOK, BDurumSaglam, BYonSaglam, BKayitDogru, BBaglanan, BYazan, BBagli
  <2>2. ASSUME NEW a \in BIstek,
               \/ BBaglanOku(a) \/ BIsaretle(a) \/ BDegis(a) \/ BBaglanKaydet(a)
               \/ BYonOku(a) \/ BBosalt(a) \/ BYaz(a) \/ BKontrol(a) \/ BYonKaydet(a)
               \/ BDogrulaOku(a) \/ BDogrula(a) \/ BKes(a) \/ BKaybol(a)
        PROVE  BagInv'
    BY <2>2, BBaglanOkuKorur, BIsaretleKorur, BDegisKorur, BBaglanKaydetKorur, BYonOkuKorur, BBosaltKorur, BYazKorur,
       BKontrolKorur, BYonKaydetKorur, BDogrulaOkuKorur, BDogrulaKorur, BKesKorur, BKaybolKorur
  <2> QED BY <2>1, <2>2 DEF BagNext
<1> QED BY <1>1, <1>2, PTL DEF BagSpec

\* BagSpec => []BaglantiTutarli: a number belongs to one office; a row that
\* says it works has a number, and one that says its events come here is
\* right, unless one of the named accidents has happened to it.
THEOREM BaglantiTutarlidir == BagSpec => []BaglantiTutarli
<1>1. BagInv => BaglantiTutarli
  <2> SUFFICES ASSUME BagInv PROVE BaglantiTutarli
    OBVIOUS
  <2>1. ASSUME NEW b \in BBuro PROVE BDurumDogru(b) /\ BYonDogru(b)
    <3>1. BDurumSaglam(b) /\ BYonSaglam(b)
      BY DEF BagInv
    <3>2. BBaglanan(b) => \E a \in BSuren(b) : bIstek[a].tur = "baglan"
      BY DEF BBaglanan, BSuren, BSurer
    <3>3. BYazan(b) => \E a \in BSuren(b) : bIstek[a].tur \in {"baglan", "ac", "kapat"}
      BY DEF BYazan, BSuren, BSurer
    <3> QED BY <3>1, <3>2, <3>3 DEF BDurumSaglam, BYonSaglam, BDurumDogru, BYonDogru
  <2> QED BY <2>1 DEF BagInv, BaglantiTutarli
<1> QED BY <1>1, BagDegismez, PTL

\* BagSpec => []BagTypeOK
THEOREM BagTipiKorunur == BagSpec => []BagTypeOK
<1>1. BagInv => BagTypeOK
  BY DEF BagInv
<1> QED BY <1>1, BagDegismez, PTL

-----------------------------------------------------------------------------
(***************************************************************************)
(* Reminders of an appointment.  A waiting reminder is at the time of the  *)
(* appointment and of its plan, or a request is on its way to cancel it    *)
(* that nobody has overtaken; a reminder that a pass holds is locked, is   *)
(* held once, and was not sent before the pass comes to send it.           *)
(***************************************************************************)
RIstekKaydi ==
  [adim : {"planla", "iptal"}, bayat : BOOLEAN] \cup [adim : {"plan"}, an : RZaman, bayat : BOOLEAN]
    \cup [adim : {"degistir"}, an : RZaman, bayat : BOOLEAN, k : RAnahtar]
    \cup [adim : {"olustur"}, an : RZaman, bayat : BOOLEAN, k : RAnahtar, vardi : BOOLEAN]
RIsAdimi == {"ucret", "gonder", "PLANLANDI", "ATLANDI", "GONDERILDI", "BASARISIZ"}
RKosuKaydi == [adim : {"oku"}, isler : SUBSET RAnahtar] \cup [adim : RIsAdimi, k : RAnahtar, isler : SUBSET RAnahtar]

RTipler ==
  /\ simdi \in Nat /\ randevu \in RandevuSatiri /\ rPlan \in RPlanSatiri /\ rSasan \subseteq RAnahtar
  /\ rPlan.mode = "OZEL" => rPlan.v \in RSurum
  /\ rIs \in [RAnahtar -> RIsSatiri \cup {Yok}]
  /\ rIstek \in [RIstek -> RIstekKaydi \cup {Bos, Bitti}]
  /\ rKosu \in [RKosu -> RKosuKaydi \cup {Bos, Bitti}]

RSurer(r) == r \notin {Bos, Bitti}
RBekler(k) == rIs[k] # Yok /\ rIs[k].durum \in Bekler

\* What a request that nobody has overtaken has read, and what waits for whom.
RGecerli == IF rPlan.mode = "OZEL" THEN <<"OZEL", rPlan.v>> ELSE <<"VARSAYILAN", 1>>
RIstekDogru(r) ==
  ~r.bayat => /\ r.adim \in {"plan", "degistir", "olustur"} => randevu.aktif /\ r.an = randevu.an
              /\ r.adim \in {"degistir", "olustur"} => r.k = RGecerli
RIptalci == \E i \in RIstek : RSurer(rIstek[i]) /\ ~rIstek[i].bayat /\ rIstek[i].adim # "olustur"
RGuncel(k) == RBekler(k) => RIptalci \/ (randevu.aktif /\ rIs[k].an = randevu.an /\ k = RGecerli)

RPlanInv ==
  /\ \A i \in RIstek : RSurer(rIstek[i]) => RIstekDogru(rIstek[i])
  /\ \A k \in RAnahtar \ rSasan : RGuncel(k)

\* Who holds a reminder, and what has become of it by then.
RListede(w, k) == RSurer(rKosu[w]) /\ k \in rKosu[w].isler
RElinde(w, k) == RSurer(rKosu[w]) /\ rKosu[w].adim # "oku" /\ rKosu[w].k = k
RTutar(w, k) == RListede(w, k) \/ RElinde(w, k)
RGitmedi(k) == rIs[k].mesaj = 0 /\ rIs[k].ucret # "iade"

RTekTutan(k) ==
  /\ \A w, x \in RKosu : RTutar(w, k) /\ RTutar(x, k) => w = x
  /\ \A w \in RKosu : ~(RListede(w, k) /\ RElinde(w, k))
RMesaj(k) ==
  /\ \A w \in RKosu :
       /\ RTutar(w, k) /\ RBekler(k) => rIs[k].kilit
       /\ RListede(w, k) => RGitmedi(k)
       /\ RElinde(w, k) /\ rKosu[w].adim \in {"ucret", "gonder", "PLANLANDI", "ATLANDI"} => RGitmedi(k)
  /\ RBekler(k) /\ ~rIs[k].kilit => RGitmedi(k)
  /\ rIs[k].mesaj <= 1 /\ ~(rIs[k].mesaj = 1 /\ rIs[k].ucret = "iade")

RKosuInv ==
  /\ \A w \in RKosu, k \in RAnahtar : RTutar(w, k) => rIs[k] # Yok
  /\ \A k \in RAnahtar \ rSasan : rIs[k] # Yok => RTekTutan(k) /\ RMesaj(k)

RandevuInv == RTipler /\ RPlanInv /\ RKosuInv

(* Records of requests and passes.                                         *)
LEMMA RIstekAlanlari ==
  /\ ~RSurer(Bos) /\ ~RSurer(Bitti)
  /\ \A r \in RIstekKaydi : /\ RSurer(r) /\ r.bayat \in BOOLEAN
                            /\ r.adim \in {"planla", "iptal", "plan", "degistir", "olustur"}
                            /\ r.adim \in {"plan", "degistir", "olustur"} => r.an \in RZaman
                            /\ r.adim \in {"degistir", "olustur"} => r.k \in RAnahtar
<1>1. ~RSurer(Bos) /\ ~RSurer(Bitti)
  BY DEF RSurer
<1>2. ASSUME NEW r \in RIstekKaydi
      PROVE  /\ r.bayat \in BOOLEAN /\ r.adim \in {"planla", "iptal", "plan", "degistir", "olustur"}
             /\ r.adim \in {"plan", "degistir", "olustur"} => r.an \in RZaman
             /\ r.adim \in {"degistir", "olustur"} => r.k \in RAnahtar
  BY DEF RIstekKaydi
<1>3. ASSUME NEW r \in RIstekKaydi PROVE RSurer(r)
  BY <1>2 DEF RSurer, Bos, Bitti
<1> QED BY <1>1, <1>2, <1>3

LEMMA RBayatKaydi ==
  ASSUME NEW r \in RIstekKaydi, NEW y, y = [r EXCEPT !.bayat = TRUE]
  PROVE  y \in RIstekKaydi /\ y.bayat = TRUE
BY DEF RIstekKaydi

LEMMA RKosuAlanlari ==
  /\ ~RSurer(Bos) /\ ~RSurer(Bitti)
  /\ \A r \in RKosuKaydi : /\ RSurer(r) /\ r.isler \subseteq RAnahtar /\ r.adim \in {"oku"} \cup RIsAdimi
                           /\ r.adim # "oku" => r.k \in RAnahtar
<1>1. ~RSurer(Bos) /\ ~RSurer(Bitti)
  BY DEF RSurer
<1>2. ASSUME NEW r \in RKosuKaydi
      PROVE  /\ r.isler \subseteq RAnahtar /\ r.adim \in {"oku"} \cup RIsAdimi
             /\ r.adim # "oku" => r.k \in RAnahtar
  BY DEF RKosuKaydi, RIsAdimi
<1>3. ASSUME NEW r \in RKosuKaydi PROVE RSurer(r)
  BY <1>2 DEF RSurer, Bos, Bitti, RIsAdimi
<1> QED BY <1>1, <1>2, <1>3

(* A request that is at one of its statements is under way.                *)
LEMMA RAdimdaki ==
  ASSUME RTipler, NEW i \in RIstek, rIstek[i].adim \in {"planla", "iptal", "plan", "degistir", "olustur"}
  PROVE  rIstek[i] \in RIstekKaydi /\ RSurer(rIstek[i])
BY RIstekAlanlari DEF RTipler, Bos, Bitti

LEMMA RKosudaki ==
  ASSUME RTipler, NEW w \in RKosu, rKosu[w].adim \in {"oku"} \cup RIsAdimi
  PROVE  rKosu[w] \in RKosuKaydi /\ RSurer(rKosu[w])
BY RKosuAlanlari DEF RTipler, Bos, Bitti, RIsAdimi

(* The first write of a request: what the others have read is stale.       *)
LEMMA RYazdiEtkisi ==
  ASSUME RTipler, NEW i \in RIstek, NEW k \in RIstekKaydi, RYazdi(i, k)
  PROVE  /\ rIstek' \in [RIstek -> RIstekKaydi \cup {Bos, Bitti}]
         /\ rIstek'[i] = k
         /\ \A j \in RIstek \ {i} : RSurer(rIstek'[j]) => rIstek'[j].bayat = TRUE
<1>1. rIstek' = [j \in RIstek |-> IF j = i THEN k ELSE
                   IF rIstek[j] \in {Bos, Bitti} THEN rIstek[j] ELSE [rIstek[j] EXCEPT !.bayat = TRUE]]
  BY DEF RYazdi, Bayatlat, RTipler
<1>2. ASSUME NEW j \in RIstek \ {i}
      PROVE  rIstek'[j] \in RIstekKaydi \cup {Bos, Bitti} /\ (RSurer(rIstek'[j]) => rIstek'[j].bayat = TRUE)
  <2>1. CASE rIstek[j] \in {Bos, Bitti}
    BY <1>1, <2>1 DEF RSurer
  <2>2. CASE rIstek[j] \notin {Bos, Bitti}
    <3>1. PICK r \in RIstekKaydi : r = rIstek[j]
      BY <2>2 DEF RTipler
    <3>2. PICK y : y = [r EXCEPT !.bayat = TRUE]
      OBVIOUS
    <3>3. rIstek'[j] = y
      BY <1>1, <2>2, <3>1, <3>2
    <3> QED BY <3>1, <3>2, <3>3, RBayatKaydi
  <2> QED BY <2>1, <2>2
<1> QED BY <1>1, <1>2

(* Planning leaves the passes alone: a row stays, is cancelled, is new, or *)
(* is named in the history.                                                *)
RSatirAdimi(k) ==
  \/ rIs'[k] = rIs[k]
  \/ /\ rIs[k] # Yok /\ rIs'[k] # Yok /\ rIs'[k].durum \notin Bekler
     /\ rIs'[k].mesaj = rIs[k].mesaj /\ rIs'[k].ucret = rIs[k].ucret
  \/ rIs[k] = Yok /\ rIs'[k].mesaj = 0 /\ rIs'[k].ucret = "yok"
  \/ k \in rSasan' /\ (rIs[k] # Yok => rIs'[k] # Yok)

LEMMA RKosuKorur ==
  ASSUME RKosuInv, UNCHANGED rKosu, rSasan \subseteq rSasan', \A k \in RAnahtar : RSatirAdimi(k)
  PROVE  RKosuInv'
<1>1. \A w, k : /\ RListede(w, k)' <=> RListede(w, k)
                /\ RElinde(w, k)' <=> RElinde(w, k)
                /\ RTutar(w, k)' <=> RTutar(w, k)
  BY DEF RListede, RElinde, RTutar
<1>2. ASSUME NEW w \in RKosu, NEW k \in RAnahtar, RTutar(w, k)' PROVE rIs'[k] # Yok
  BY <1>1, <1>2 DEF RKosuInv, RSatirAdimi
<1>3. ASSUME NEW k \in RAnahtar \ rSasan', rIs'[k] # Yok PROVE RTekTutan(k)' /\ RMesaj(k)'
  <2>1. CASE rIs[k] = Yok /\ rIs'[k] # rIs[k]
    <3>1. \A w \in RKosu : ~RTutar(w, k)
      BY <2>1 DEF RKosuInv
    <3>2. \A w \in RKosu : ~RTutar(w, k)' /\ ~RListede(w, k)' /\ ~RElinde(w, k)'
      BY <1>1, <3>1 DEF RTutar
    <3>3. rIs'[k].mesaj = 0 /\ rIs'[k].ucret = "yok"
      BY <1>3, <2>1 DEF RSatirAdimi
    <3> QED BY <3>2, <3>3 DEF RTekTutan, RMesaj, RGitmedi
  <2>2. CASE rIs[k] # Yok
    <3>1. RTekTutan(k) /\ RMesaj(k)
      BY <1>3, <2>2 DEF RKosuInv
    <3>2. RTekTutan(k)'
      BY <1>1, <3>1 DEF RTekTutan
    <3>3. CASE rIs'[k] = rIs[k]
      BY <1>1, <3>1, <3>2, <3>3 DEF RMesaj, RBekler, RGitmedi
    <3>4. CASE /\ rIs'[k].durum \notin Bekler
               /\ rIs'[k].mesaj = rIs[k].mesaj /\ rIs'[k].ucret = rIs[k].ucret
      BY <1>1, <3>1, <3>2, <3>4 DEF RMesaj, RBekler, RGitmedi
    <3> QED BY <1>3, <2>2, <3>2, <3>3, <3>4 DEF RSatirAdimi
  <2> QED BY <1>3, <2>1, <2>2
<1> QED BY <1>2, <1>3 DEF RKosuInv

(* A pass leaves the plan alone: it makes no reminder wait again.          *)
LEMMA RPlanKorur ==
  ASSUME RPlanInv, UNCHANGED <<randevu, rPlan, rIstek>>, rSasan \subseteq rSasan',
         \A k \in RAnahtar \ rSasan' : RBekler(k)' => RBekler(k) /\ rIs'[k].an = rIs[k].an
  PROVE  RPlanInv'
<1>1. (RIptalci' <=> RIptalci) /\ RGecerli' = RGecerli
  BY DEF RIptalci, RGecerli
<1>2. \A k \in RAnahtar \ rSasan' : RGuncel(k)'
  BY <1>1 DEF RPlanInv, RGuncel
<1>3. \A i \in RIstek : RSurer(rIstek[i])' => RIstekDogru(rIstek[i])'
  BY <1>1 DEF RPlanInv, RIstekDogru, RSurer
<1> QED BY <1>2, <1>3 DEF RPlanInv
(* The moves of a request.                                                 *)
LEMMA RIlerletEtkisi ==
  ASSUME RTipler, NEW i \in RIstek, NEW k \in RIstekKaydi \cup {Bos, Bitti}, RIlerlet(i, k)
  PROVE  /\ rIstek' \in [RIstek -> RIstekKaydi \cup {Bos, Bitti}]
         /\ rIstek'[i] = k
         /\ \A j \in RIstek \ {i} : rIstek'[j] = rIstek[j]
BY DEF RIlerlet, RTipler

LEMMA ROkuKorur ==
  ASSUME RandevuInv, NEW i \in RIstek, NEW k \in RIstekKaydi, RIlerlet(i, k),
         UNCHANGED <<simdi, randevu, rPlan, rIs, rKosu, rSasan>>,
         ~rIstek[i].bayat => ~k.bayat,
         k.adim # "olustur", RIstekDogru(k)
  PROVE  RandevuInv'
<1>1. /\ rIstek' \in [RIstek -> RIstekKaydi \cup {Bos, Bitti}]
      /\ rIstek'[i] = k
      /\ \A j \in RIstek \ {i} : rIstek'[j] = rIstek[j]
  BY RIlerletEtkisi DEF RandevuInv
<1>2. RTipler'
  BY <1>1 DEF RandevuInv, RTipler
<1>3. RGecerli' = RGecerli
  BY DEF RGecerli
<1>4. \A j \in RIstek : RSurer(rIstek'[j]) => RIstekDogru(rIstek'[j])
  BY <1>1 DEF RandevuInv, RPlanInv
<1>5. \A j \in RIstek : RSurer(rIstek[j])' => RIstekDogru(rIstek[j])'
  BY <1>3, <1>4 DEF RIstekDogru, RSurer
<1>6. RIptalci => RIptalci'
  BY <1>1, RIstekAlanlari DEF RIptalci, RSurer
<1>7. \A d \in RAnahtar \ rSasan' : RGuncel(d)'
  BY <1>3, <1>6 DEF RandevuInv, RPlanInv, RGuncel, RBekler
<1>8. RKosuInv'
  <2>1. \A d \in RAnahtar : RSatirAdimi(d)
    BY DEF RSatirAdimi
  <2> QED BY <2>1, RKosuKorur DEF RandevuInv
<1> QED BY <1>2, <1>5, <1>7, <1>8 DEF RandevuInv, RPlanInv

LEMMA RandevuOkuKorur ==
  ASSUME RandevuInv, NEW i \in RIstek, RandevuOku(i)
  PROVE  RandevuInv'
<1>1. CASE RIlerlet(i, [adim |-> "iptal", bayat |-> FALSE])
  <2>1. PICK k : k = [adim |-> "iptal", bayat |-> FALSE]
    OBVIOUS
  <2>2. k \in RIstekKaydi /\ ~k.bayat /\ k.adim = "iptal"
    BY <2>1 DEF RIstekKaydi
  <2>3. RIstekDogru(k)
    BY <2>2 DEF RIstekDogru
  <2> QED BY <1>1, <2>1, <2>2, <2>3, ROkuKorur DEF RandevuOku
<1>2. CASE randevu.aktif /\ RIlerlet(i, [adim |-> "plan", an |-> randevu.an, bayat |-> FALSE])
  <2>1. PICK k : k = [adim |-> "plan", an |-> randevu.an, bayat |-> FALSE]
    OBVIOUS
  <2>2. k \in RIstekKaydi /\ ~k.bayat /\ k.adim = "plan" /\ k.an = randevu.an
    BY <2>1 DEF RIstekKaydi, RandevuInv, RTipler, RandevuSatiri
  <2>3. RIstekDogru(k)
    BY <1>2, <2>2 DEF RIstekDogru
  <2> QED BY <1>2, <2>1, <2>2, <2>3, ROkuKorur DEF RandevuOku
<1> QED BY <1>1, <1>2 DEF RandevuOku

LEMMA RGecerliAnahtar ==
  ASSUME RTipler
  PROVE  RGecerli \in RAnahtar
BY DEF RTipler, RGecerli, RAnahtar

LEMMA PlanOkuKorur ==
  ASSUME RandevuInv, NEW i \in RIstek, PlanOku(i)
  PROVE  RandevuInv'
<1>1. PICK r \in RIstekKaydi : /\ r = rIstek[i] /\ r.adim = "plan" /\ r.bayat \in BOOLEAN /\ r.an \in RZaman
                               /\ RIstekDogru(r)
  BY RAdimdaki, RIstekAlanlari DEF PlanOku, RandevuInv, RPlanInv
<1>2. PICK k : k = [adim |-> "degistir", an |-> r.an, bayat |-> r.bayat, k |-> RGecerli]
  OBVIOUS
<1>3. k \in RIstekKaydi /\ k.bayat = r.bayat /\ k.adim = "degistir" /\ k.an = r.an /\ k.k = RGecerli
  BY <1>1, <1>2, RGecerliAnahtar DEF RIstekKaydi, RandevuInv
<1>4. RIlerlet(i, k) /\ UNCHANGED <<simdi, randevu, rPlan, rIs, rKosu, rSasan>>
  BY <1>1, <1>2 DEF PlanOku, RGecerli
<1>5. RIstekDogru(k)
  BY <1>1, <1>3 DEF RIstekDogru
<1> QED BY <1>1, <1>3, <1>4, <1>5, ROkuKorur

(* Cancelling.                                                             *)
LEMMA RIptalEtkisi ==
  ASSUME RTipler, RIptal
  PROVE  /\ rIs' \in [RAnahtar -> RIsSatiri \cup {Yok}]
         /\ \A k \in RAnahtar : ~RBekler(k)'
         /\ \A k \in RAnahtar : RSatirAdimi(k)
<1>1. ASSUME NEW k \in RAnahtar PROVE rIs'[k] \in RIsSatiri \cup {Yok} /\ ~RBekler(k)' /\ RSatirAdimi(k)
  <2>1. CASE k \in Bekleyenler
    <3>1. PICK r \in RIsSatiri : r = rIs[k] /\ rIs[k] # Yok
      BY <2>1 DEF RTipler, Bekleyenler
    <3>2. PICK y : y = [r EXCEPT !.durum = "IPTAL_EDILDI", !.kilit = FALSE]
      OBVIOUS
    <3>3. y \in RIsSatiri /\ y.durum = "IPTAL_EDILDI" /\ y.mesaj = r.mesaj /\ y.ucret = r.ucret
      BY <3>2 DEF RIsSatiri, Bekler
    <3>4. rIs'[k] = y
      BY <2>1, <3>1, <3>2 DEF RIptal
    <3>5. y # Yok
      BY <3>3, RandevuVarsayimi
    <3> QED BY <3>1, <3>3, <3>4, <3>5 DEF RBekler, RSatirAdimi, Bekler
  <2>2. CASE k \notin Bekleyenler
    <3>1. rIs'[k] = rIs[k]
      BY <2>2 DEF RIptal
    <3> QED BY <2>2, <3>1 DEF RBekler, RSatirAdimi, Bekleyenler, RTipler
  <2> QED BY <2>1, <2>2
<1>2. rIs' = [k \in RAnahtar |-> rIs'[k]]
  BY DEF RIptal
<1> QED BY <1>1, <1>2

LEMMA RIptalKorur ==
  ASSUME RandevuInv, NEW i \in RIstek, NEW k \in RIstekKaydi \cup {Bos, Bitti}, RIlerlet(i, k), RIptal,
         UNCHANGED <<simdi, randevu, rPlan, rKosu, rSasan>>,
         RSurer(k) => RIstekDogru(k)
  PROVE  RandevuInv'
<1>1. /\ rIstek' \in [RIstek -> RIstekKaydi \cup {Bos, Bitti}]
      /\ rIstek'[i] = k
      /\ \A j \in RIstek \ {i} : rIstek'[j] = rIstek[j]
  BY RIlerletEtkisi DEF RandevuInv
<1>2. /\ rIs' \in [RAnahtar -> RIsSatiri \cup {Yok}]
      /\ \A d \in RAnahtar : ~RBekler(d)'
      /\ \A d \in RAnahtar : RSatirAdimi(d)
  BY RIptalEtkisi DEF RandevuInv
<1>3. RTipler'
  BY <1>1, <1>2 DEF RandevuInv, RTipler
<1>4. \A j \in RIstek : RSurer(rIstek'[j]) => RIstekDogru(rIstek'[j])
  BY <1>1 DEF RandevuInv, RPlanInv
<1>5. \A j \in RIstek : RSurer(rIstek[j])' => RIstekDogru(rIstek[j])'
  BY <1>4 DEF RIstekDogru, RSurer, RGecerli
<1>6. \A d \in RAnahtar \ rSasan' : RGuncel(d)'
  BY <1>2 DEF RGuncel
<1>7. RKosuInv'
  BY <1>2, RKosuKorur DEF RandevuInv
<1> QED BY <1>3, <1>5, <1>6, <1>7 DEF RandevuInv, RPlanInv

LEMMA RIptalEtKorur ==
  ASSUME RandevuInv, NEW i \in RIstek, RIptalEt(i)
  PROVE  RandevuInv'
<1>1. PICK k \in {Bitti} : RIlerlet(i, k) /\ ~RSurer(k)
  BY RIstekAlanlari DEF RIptalEt
<1> QED BY <1>1, RIptalKorur DEF RIptalEt

LEMMA RDegistirKorur ==
  ASSUME RandevuInv, NEW i \in RIstek, RDegistir(i)
  PROVE  RandevuInv'
<1>1. PICK r \in RIstekKaydi : /\ r = rIstek[i] /\ r.adim = "degistir" /\ r.bayat \in BOOLEAN /\ r.an \in RZaman
                               /\ r.k \in RAnahtar /\ RIstekDogru(r)
  BY RAdimdaki, RIstekAlanlari DEF RDegistir, RandevuInv, RPlanInv
<1>2. PICK v : v = (r.k \in Bekleyenler)
  OBVIOUS
<1>3. v \in BOOLEAN
  BY <1>2
<1>4. PICK k : k = [adim |-> "olustur", an |-> r.an, bayat |-> r.bayat, k |-> r.k, vardi |-> v]
  OBVIOUS
<1>5. k \in RIstekKaydi /\ k.bayat = r.bayat /\ k.adim = "olustur" /\ k.an = r.an /\ k.k = r.k
  BY <1>1, <1>3, <1>4 DEF RIstekKaydi
<1>6. RIlerlet(i, k) /\ RIptal /\ UNCHANGED <<simdi, randevu, rPlan, rKosu, rSasan>>
  BY <1>1, <1>2, <1>4 DEF RDegistir
<1>7. RIstekDogru(k)
  BY <1>1, <1>5 DEF RIstekDogru
<1> QED BY <1>5, <1>6, <1>7, RIptalKorur
(* Creating, and being lost.                                               *)
LEMMA ROlusturKorur ==
  ASSUME RandevuInv, NEW i \in RIstek, ROlustur(i)
  PROVE  RandevuInv'
<1>0. RTipler
  BY DEF RandevuInv
<1>1. PICK r \in RIstekKaydi : /\ r = rIstek[i] /\ r.adim = "olustur" /\ r.bayat \in BOOLEAN /\ r.an \in RZaman
                               /\ r.k \in RAnahtar /\ RIstekDogru(r)
  BY <1>0, RAdimdaki, RIstekAlanlari DEF ROlustur, RandevuInv, RPlanInv
<1>2. PICK b \in {Bitti} : RIlerlet(i, b) /\ ~RSurer(b)
  BY RIstekAlanlari DEF ROlustur
<1>3. /\ rIstek' \in [RIstek -> RIstekKaydi \cup {Bos, Bitti}]
      /\ rIstek'[i] = b
      /\ \A j \in RIstek \ {i} : rIstek'[j] = rIstek[j]
  BY <1>0, <1>2, RIlerletEtkisi
<1>4. UNCHANGED <<simdi, randevu, rPlan, rKosu>> /\ RGecerli' = RGecerli
  BY DEF ROlustur, RGecerli
<1>5. \A j \in RIstek : RSurer(rIstek'[j]) => RIstekDogru(rIstek'[j])
  BY <1>2, <1>3 DEF RandevuInv, RPlanInv
<1>6. \A j \in RIstek : RSurer(rIstek[j])' => RIstekDogru(rIstek[j])'
  BY <1>4, <1>5 DEF RIstekDogru, RSurer
<1>7. RIptalci => RIptalci'
  BY <1>1, <1>3 DEF RIptalci, RSurer
<1>8. ASSUME /\ rIs' \in [RAnahtar -> RIsSatiri \cup {Yok}]
             /\ rSasan \subseteq rSasan' /\ rSasan' \subseteq RAnahtar
             /\ \A k \in RAnahtar : RSatirAdimi(k)
             /\ \A k \in RAnahtar \ rSasan' : rIs'[k] = rIs[k] \/ (k = r.k /\ ~r.bayat /\ rIs'[k].an = r.an)
      PROVE  RandevuInv'
  <2>1. RTipler'
    BY <1>0, <1>3, <1>4, <1>8 DEF RTipler
  <2>2. ASSUME NEW k \in RAnahtar \ rSasan' PROVE RGuncel(k)'
    <3>1. CASE rIs'[k] = rIs[k]
      BY <1>4, <1>7, <1>8, <3>1 DEF RandevuInv, RPlanInv, RGuncel, RBekler
    <3>2. CASE k = r.k /\ ~r.bayat /\ rIs'[k].an = r.an
      <4>1. randevu.aktif /\ r.an = randevu.an /\ r.k = RGecerli
        BY <1>1, <3>2 DEF RIstekDogru
      <4> QED BY <1>4, <3>2, <4>1 DEF RGuncel
    <3> QED BY <1>8, <3>1, <3>2
  <2>3. RKosuInv'
    BY <1>4, <1>8, RKosuKorur DEF RandevuInv
  <2> QED BY <1>6, <2>1, <2>2, <2>3 DEF RandevuInv, RPlanInv
<1>9. CASE UNCHANGED <<rIs, rSasan>>
  BY <1>0, <1>8, <1>9 DEF RTipler, RSatirAdimi
<1>10. CASE ~UNCHANGED <<rIs, rSasan>>
  <2>1. /\ rIs' = [rIs EXCEPT ![r.k] =
                IF @ = Yok THEN [durum |-> "PLANLANDI", an |-> r.an, kilit |-> FALSE, ucret |-> "yok", mesaj |-> 0]
                ELSE [@ EXCEPT !.an = r.an, !.kilit = FALSE]]
        /\ rSasan' = IF r.bayat \/ rIs[r.k] # Yok THEN rSasan \cup {r.k} ELSE rSasan
    BY <1>1, <1>10 DEF ROlustur
  <2>2. \A k \in RAnahtar \ {r.k} : rIs'[k] = rIs[k]
    BY <1>0, <2>1 DEF RTipler
  <2>3. rSasan \subseteq rSasan' /\ rSasan' \subseteq RAnahtar
    BY <1>0, <1>1, <2>1 DEF RTipler
  <2>4. CASE rIs[r.k] = Yok
    <3>1. PICK y : y = [durum |-> "PLANLANDI", an |-> r.an, kilit |-> FALSE, ucret |-> "yok", mesaj |-> 0]
      OBVIOUS
    <3>2. y \in RIsSatiri /\ y.an = r.an /\ y.mesaj = 0 /\ y.ucret = "yok"
      BY <1>1, <3>1 DEF RIsSatiri, Bekler
    <3>3. rIs' = [rIs EXCEPT ![r.k] = y]
      BY <2>1, <2>4, <3>1
    <3>4. rIs' \in [RAnahtar -> RIsSatiri \cup {Yok}] /\ rIs'[r.k] = y
      BY <1>0, <1>1, <3>2, <3>3 DEF RTipler
    <3>5. \A k \in RAnahtar : RSatirAdimi(k)
      BY <2>2, <2>4, <3>2, <3>4 DEF RSatirAdimi
    <3>6. \A k \in RAnahtar \ rSasan' : rIs'[k] = rIs[k] \/ (k = r.k /\ ~r.bayat /\ rIs'[k].an = r.an)
      BY <2>1, <2>2, <3>2, <3>4
    <3> QED BY <1>8, <2>3, <3>4, <3>5, <3>6
  <2>5. CASE rIs[r.k] # Yok
    <3>1. PICK x \in RIsSatiri : x = rIs[r.k]
      BY <1>0, <1>1, <2>5 DEF RTipler
    <3>2. PICK y : y = [x EXCEPT !.an = r.an, !.kilit = FALSE]
      OBVIOUS
    <3>3. y \in RIsSatiri /\ y # Yok
      BY <1>1, <3>2, RandevuVarsayimi DEF RIsSatiri
    <3>4. rIs' = [rIs EXCEPT ![r.k] = y]
      BY <2>1, <2>5, <3>1, <3>2
    <3>5. rIs' \in [RAnahtar -> RIsSatiri \cup {Yok}] /\ rIs'[r.k] = y
      BY <1>0, <1>1, <3>3, <3>4 DEF RTipler
    <3>6. r.k \in rSasan'
      BY <2>1, <2>5
    <3>7. \A k \in RAnahtar : RSatirAdimi(k)
      BY <2>2, <3>3, <3>5, <3>6 DEF RSatirAdimi
    <3> QED BY <1>8, <2>2, <2>3, <3>5, <3>6, <3>7
  <2> QED BY <2>4, <2>5
<1> QED BY <1>9, <1>10

LEMMA RDuserKorur ==
  ASSUME RandevuInv, NEW i \in RIstek, RDuser(i)
  PROVE  RandevuInv'
<1>1. PICK b \in {Bitti} : RIlerlet(i, b) /\ ~RSurer(b)
  BY RIstekAlanlari DEF RDuser
<1>2. /\ rIstek' \in [RIstek -> RIstekKaydi \cup {Bos, Bitti}]
      /\ rIstek'[i] = b
      /\ \A j \in RIstek \ {i} : rIstek'[j] = rIstek[j]
  BY <1>1, RIlerletEtkisi DEF RandevuInv
<1>3. UNCHANGED <<simdi, randevu, rPlan, rIs, rKosu>> /\ rSasan' = RAnahtar /\ rSasan \subseteq rSasan'
  BY DEF RDuser, RandevuInv, RTipler
<1>4. RTipler'
  BY <1>2, <1>3 DEF RandevuInv, RTipler
<1>5. \A j \in RIstek : RSurer(rIstek'[j]) => RIstekDogru(rIstek'[j])
  BY <1>1, <1>2 DEF RandevuInv, RPlanInv
<1>6. \A j \in RIstek : RSurer(rIstek[j])' => RIstekDogru(rIstek[j])'
  BY <1>3, <1>5 DEF RIstekDogru, RSurer, RGecerli
<1>7. RKosuInv'
  BY <1>3, RKosuKorur DEF RandevuInv, RSatirAdimi
<1>8. \A k \in RAnahtar \ rSasan' : RGuncel(k)'
  BY <1>3
<1> QED BY <1>4, <1>6, <1>7, <1>8 DEF RandevuInv, RPlanInv

(* The first writes of a request.                                          *)
LEMMA RYazKorur ==
  ASSUME RandevuInv, NEW i \in RIstek, NEW k \in RIstekKaydi, RYazdi(i, k), ~k.bayat, k.adim \in {"planla", "iptal"},
         UNCHANGED <<simdi, rIs, rKosu, rSasan>>,
         randevu' \in RandevuSatiri, rPlan' \in RPlanSatiri, rPlan'.mode = "OZEL" => rPlan'.v \in RSurum
  PROVE  RandevuInv'
<1>1. /\ rIstek' \in [RIstek -> RIstekKaydi \cup {Bos, Bitti}]
      /\ rIstek'[i] = k
      /\ \A j \in RIstek \ {i} : RSurer(rIstek'[j]) => rIstek'[j].bayat = TRUE
  BY RYazdiEtkisi DEF RandevuInv
<1>2. RTipler'
  BY <1>1 DEF RandevuInv, RTipler
<1>3. \A j \in RIstek : RSurer(rIstek[j])' => RIstekDogru(rIstek[j])'
  BY <1>1 DEF RIstekDogru, RSurer
<1>4. RSurer(k)
  BY RIstekAlanlari
<1>5. RIptalci'
  BY <1>1, <1>4 DEF RIptalci, RSurer
<1>6. \A d \in RAnahtar \ rSasan' : RGuncel(d)'
  BY <1>5 DEF RGuncel
<1>7. RKosuInv'
  BY RKosuKorur DEF RandevuInv, RSatirAdimi
<1> QED BY <1>2, <1>3, <1>6, <1>7 DEF RandevuInv, RPlanInv

LEMMA RYazilarKorur ==
  ASSUME RandevuInv, NEW i \in RIstek, RandevuYaz(i) \/ PlanYaz(i) \/ RandevuKapat(i)
  PROVE  RandevuInv'
<1>1. PICK p : p = Planla
  OBVIOUS
<1>2. p \in RIstekKaydi /\ ~p.bayat /\ p.adim = "planla"
  BY <1>1 DEF Planla, RIstekKaydi
<1>3. PICK q : q = [adim |-> "iptal", bayat |-> FALSE]
  OBVIOUS
<1>4. q \in RIstekKaydi /\ ~q.bayat /\ q.adim = "iptal"
  BY <1>3 DEF RIstekKaydi
<1>5. CASE RandevuYaz(i)
  <2>1. RYazdi(i, p) /\ UNCHANGED <<simdi, rIs, rKosu, rSasan, rPlan>>
    BY <1>1, <1>5 DEF RandevuYaz
  <2>2. randevu' \in RandevuSatiri
    BY <1>5 DEF RandevuYaz, RandevuInv, RTipler, RandevuSatiri
  <2>3. rPlan' \in RPlanSatiri /\ (rPlan'.mode = "OZEL" => rPlan'.v \in RSurum)
    BY <2>1 DEF RandevuInv, RTipler
  <2> QED BY <1>2, <2>1, <2>2, <2>3, RYazKorur
<1>6. CASE PlanYaz(i)
  <2>1. RYazdi(i, p) /\ UNCHANGED <<simdi, rIs, rKosu, rSasan, randevu>>
    BY <1>1, <1>6 DEF PlanYaz
  <2>2. rPlan' \in RPlanSatiri /\ (rPlan'.mode = "OZEL" => rPlan'.v \in RSurum)
    BY <1>6 DEF PlanYaz, RPlanSatiri
  <2>3. randevu' \in RandevuSatiri
    BY <2>1 DEF RandevuInv, RTipler
  <2> QED BY <1>2, <2>1, <2>2, <2>3, RYazKorur
<1>7. CASE RandevuKapat(i)
  <2>1. RYazdi(i, q) /\ UNCHANGED <<simdi, rIs, rKosu, rSasan, rPlan>>
    BY <1>3, <1>7 DEF RandevuKapat
  <2>2. randevu' \in RandevuSatiri
    BY <1>7 DEF RandevuKapat, RandevuInv, RTipler, RandevuSatiri
  <2>3. rPlan' \in RPlanSatiri /\ (rPlan'.mode = "OZEL" => rPlan'.v \in RSurum)
    BY <2>1 DEF RandevuInv, RTipler
  <2> QED BY <1>4, <2>1, <2>2, <2>3, RYazKorur
<1> QED BY <1>5, <1>6, <1>7

(* The clock, and a lock that grows old.                                   *)
LEMMA RBosAdimKorur ==
  ASSUME RandevuInv, RZamanGecer \/ \E k \in RAnahtar : KilitDolar(k)
  PROVE  RandevuInv'
<1>1. CASE RZamanGecer
  <2>1. RTipler'
    BY <1>1 DEF RZamanGecer, RandevuInv, RTipler
  <2>2. RPlanInv'
    BY <1>1, RPlanKorur DEF RZamanGecer, RandevuInv, RBekler
  <2>3. RKosuInv'
    BY <1>1, RKosuKorur DEF RZamanGecer, RandevuInv, RSatirAdimi
  <2> QED BY <2>1, <2>2, <2>3 DEF RandevuInv
<1>2. ASSUME NEW k \in RAnahtar, KilitDolar(k) PROVE RandevuInv'
  <2>0. RTipler
    BY DEF RandevuInv
  <2>1. PICK x \in RIsSatiri : x = rIs[k]
    BY <1>2, <2>0 DEF KilitDolar, RTipler
  <2>2. PICK y : y = [x EXCEPT !.kilit = FALSE]
    OBVIOUS
  <2>3. y \in RIsSatiri /\ y # Yok
    BY <2>2, RandevuVarsayimi DEF RIsSatiri
  <2>4. rIs' = [rIs EXCEPT ![k] = y] /\ rSasan' = rSasan \cup {k} /\ UNCHANGED <<simdi, randevu, rPlan, rIstek, rKosu>>
    BY <1>2, <2>1, <2>2 DEF KilitDolar
  <2>5. rIs' \in [RAnahtar -> RIsSatiri \cup {Yok}] /\ rIs'[k] = y /\ \A d \in RAnahtar \ {k} : rIs'[d] = rIs[d]
    BY <2>0, <2>3, <2>4 DEF RTipler
  <2>6. RTipler'
    BY <2>0, <2>4, <2>5 DEF RTipler
  <2>7. \A d \in RAnahtar \ rSasan' : RBekler(d)' => RBekler(d) /\ rIs'[d].an = rIs[d].an
    BY <2>4, <2>5 DEF RBekler
  <2>8. \A d \in RAnahtar : RSatirAdimi(d)
    BY <2>3, <2>4, <2>5 DEF RSatirAdimi
  <2> QED BY <2>4, <2>6, <2>7, <2>8, RPlanKorur, RKosuKorur DEF RandevuInv
<1> QED BY <1>1, <1>2
(* What a pass holds after it has moved to y.                              *)
RListesi(y, d) == RSurer(y) /\ d \in y.isler
REli(y, d) == RSurer(y) /\ y.adim # "oku" /\ y.k = d

LEMMA RSonKaydi ==
  ASSUME NEW S \in SUBSET RAnahtar, NEW y, y = IF S = {} THEN Bitti ELSE [adim |-> "oku", isler |-> S]
  PROVE  y \in RKosuKaydi \cup {Bos, Bitti} /\ \A d : ~REli(y, d) /\ (RListesi(y, d) => d \in S)
<1>1. CASE S = {}
  BY <1>1, RKosuAlanlari DEF REli, RListesi
<1>2. CASE S # {}
  <2>1. y = [adim |-> "oku", isler |-> S]
    BY <1>2
  <2>2. y \in RKosuKaydi /\ y.adim = "oku" /\ y.isler = S
    BY <2>1 DEF RKosuKaydi
  <2> QED BY <2>2 DEF REli, RListesi
<1> QED BY <1>1, <1>2

LEMMA RElKaydi ==
  ASSUME NEW S \in SUBSET RAnahtar, NEW k \in RAnahtar, NEW a \in RIsAdimi, NEW y, y = [adim |-> a, k |-> k, isler |-> S]
  PROVE  /\ y \in RKosuKaydi \cup {Bos, Bitti} /\ y.adim = a
         /\ \A d : (REli(y, d) <=> d = k) /\ (RListesi(y, d) => d \in S)
<1>1. y \in RKosuKaydi /\ y.adim = a /\ y.isler = S /\ y.k = k /\ a # "oku"
  BY DEF RKosuKaydi, RIsAdimi
<1>2. RSurer(y)
  BY <1>1, RKosuAlanlari
<1> QED BY <1>1, <1>2 DEF REli, RListesi

(* A pass moves, and writes the reminder that it holds.                    *)
LEMMA RKosuAdimKorur ==
  ASSUME RandevuInv, NEW w \in RKosu, NEW k \in RAnahtar, RTutar(w, k),
         NEW y \in RKosuKaydi \cup {Bos, Bitti}, NEW z \in RIsSatiri,
         rKosu' = [rKosu EXCEPT ![w] = y],
         rIs' \in [RAnahtar -> RIsSatiri \cup {Yok}], rIs'[k] = z, \A d \in RAnahtar \ {k} : rIs'[d] = rIs[d],
         rSasan' \in {rSasan, rSasan \cup {k}}, UNCHANGED <<simdi, randevu, rPlan, rIstek>>,
         \A d \in RAnahtar \ {k} : ~REli(y, d) /\ (RListesi(y, d) => RListede(w, d)),
         k \notin rSasan' =>
           /\ ~RListesi(y, k)
           /\ z.durum \in Bekler => RBekler(k) /\ z.an = rIs[k].an
           /\ REli(y, k) /\ z.durum \in Bekler => z.kilit
           /\ REli(y, k) /\ y.adim \in {"ucret", "gonder", "PLANLANDI", "ATLANDI"} => z.mesaj = 0 /\ z.ucret # "iade"
           /\ z.durum \in Bekler /\ ~z.kilit => z.mesaj = 0 /\ z.ucret # "iade"
           /\ z.mesaj <= 1 /\ ~(z.mesaj = 1 /\ z.ucret = "iade")
  PROVE  RandevuInv'
<1>0. RTipler /\ z # Yok /\ rSasan \subseteq rSasan'
  BY RandevuVarsayimi DEF RandevuInv
<1>1. /\ rKosu' \in [RKosu -> RKosuKaydi \cup {Bos, Bitti}]
      /\ rKosu'[w] = y /\ \A x \in RKosu \ {w} : rKosu'[x] = rKosu[x]
  BY <1>0 DEF RTipler
<1>2. RTipler'
  BY <1>0, <1>1 DEF RTipler
<1>3. /\ \A d : RListede(w, d)' <=> RListesi(y, d)
      /\ \A d : RElinde(w, d)' <=> REli(y, d)
  BY <1>1 DEF RListede, RElinde, RListesi, REli
<1>4. \A x \in RKosu \ {w} : \A d : /\ RListede(x, d)' <=> RListede(x, d)
                                    /\ RElinde(x, d)' <=> RElinde(x, d)
  BY <1>1 DEF RListede, RElinde
<1>5. \A x \in RKosu, d \in RAnahtar \ {k} :
        /\ RListede(x, d)' => RListede(x, d)
        /\ RElinde(x, d)' => RElinde(x, d) /\ x # w
  BY <1>3, <1>4
<1>6. \A x \in RKosu, d \in RAnahtar \ {k} : RTutar(x, d)' => RTutar(x, d)
  BY <1>5 DEF RTutar
<1>7. ASSUME NEW x \in RKosu, NEW d \in RAnahtar, RTutar(x, d)' PROVE rIs'[d] # Yok
  <2>1. CASE d = k
    BY <1>0, <2>1
  <2>2. CASE d # k
    BY <1>6, <1>7, <2>2 DEF RandevuInv, RKosuInv
  <2> QED BY <2>1, <2>2
<1>8. ASSUME NEW d \in RAnahtar \ rSasan', rIs'[d] # Yok PROVE RTekTutan(d)' /\ RMesaj(d)'
  <2>1. CASE d # k
    <3>1. RTekTutan(d) /\ RMesaj(d)
      BY <1>0, <1>8, <2>1 DEF RandevuInv, RKosuInv
    <3>2. rIs'[d] = rIs[d]
      BY <2>1
    <3>3. RTekTutan(d)'
      <4>1. \A x, v \in RKosu : RTutar(x, d)' /\ RTutar(v, d)' => x = v
        BY <1>6, <2>1, <3>1 DEF RTekTutan
      <4>2. \A x \in RKosu : ~(RListede(x, d)' /\ RElinde(x, d)')
        BY <1>5, <2>1, <3>1 DEF RTekTutan
      <4> QED BY <4>1, <4>2 DEF RTekTutan
    <3>4. RBekler(d)' <=> RBekler(d)
      BY <3>2 DEF RBekler
    <3>5. RGitmedi(d)' <=> RGitmedi(d)
      BY <3>2 DEF RGitmedi
    <3>6. ASSUME NEW x \in RKosu
          PROVE  /\ RTutar(x, d)' /\ RBekler(d)' => rIs'[d].kilit
                 /\ RListede(x, d)' => RGitmedi(d)'
                 /\ RElinde(x, d)' /\ rKosu'[x].adim \in {"ucret", "gonder", "PLANLANDI", "ATLANDI"} => RGitmedi(d)'
      BY <1>1, <1>5, <1>6, <2>1, <3>1, <3>2, <3>4, <3>5 DEF RMesaj
    <3>7. RMesaj(d)'
      BY <3>1, <3>2, <3>4, <3>5, <3>6 DEF RMesaj
    <3> QED BY <3>3, <3>7
  <2>2. CASE d = k
    <3>1. RTekTutan(k)
      <4>1. rIs[k] # Yok
        BY DEF RandevuInv, RKosuInv
      <4> QED BY <1>0, <1>8, <2>2, <4>1 DEF RandevuInv, RKosuInv
    <3>2. \A x \in RKosu \ {w} : ~RListede(x, k) /\ ~RElinde(x, k)
      BY <3>1 DEF RTekTutan, RTutar
    <3>3. \A x \in RKosu : ~RListede(x, k)' /\ (RElinde(x, k)' => x = w /\ REli(y, k))
      BY <1>3, <1>4, <1>8, <2>2, <3>2
    <3>4. \A x \in RKosu : RTutar(x, k)' => x = w /\ REli(y, k)
      BY <3>3 DEF RTutar
    <3>5. RTekTutan(k)'
      BY <3>3, <3>4 DEF RTekTutan
    <3>6. (RBekler(k)' <=> z.durum \in Bekler) /\ (RGitmedi(k)' <=> z.mesaj = 0 /\ z.ucret # "iade")
      BY <1>0 DEF RBekler, RGitmedi
    <3>7. ASSUME NEW x \in RKosu
          PROVE  /\ RTutar(x, k)' /\ RBekler(k)' => rIs'[k].kilit
                 /\ RListede(x, k)' => RGitmedi(k)'
                 /\ RElinde(x, k)' /\ rKosu'[x].adim \in {"ucret", "gonder", "PLANLANDI", "ATLANDI"} => RGitmedi(k)'
      BY <1>1, <1>8, <2>2, <3>3, <3>4, <3>6
    <3>8. RMesaj(k)'
      BY <1>8, <2>2, <3>6, <3>7 DEF RMesaj
    <3> QED BY <2>2, <3>5, <3>8
  <2> QED BY <2>1, <2>2
<1>9. RKosuInv'
  BY <1>7, <1>8 DEF RKosuInv
<1>10. RPlanInv'
  <2>1. \A d \in RAnahtar \ rSasan' : RBekler(d)' => RBekler(d) /\ rIs'[d].an = rIs[d].an
    BY DEF RBekler
  <2> QED BY <1>0, <2>1, RPlanKorur DEF RandevuInv
<1> QED BY <1>2, <1>9, <1>10 DEF RandevuInv
(* The steps of a pass.                                                    *)
LEMMA KosuAlKorur ==
  ASSUME RandevuInv, NEW w \in RKosu, KosuAl(w)
  PROVE  RandevuInv'
<1> DEFINE S == {k \in RAnahtar : RAlinir(k)}
<1>0. RTipler
  BY DEF RandevuInv
<1>1. PICK y : y = [adim |-> "oku", isler |-> S]
  OBVIOUS
<1>2. S \subseteq RAnahtar /\ \A k \in S : RBekler(k) /\ ~rIs[k].kilit
  BY DEF RAlinir, Bekleyenler, RBekler
<1>3. y \in RKosuKaydi /\ y.adim = "oku" /\ y.isler = S
  BY <1>1, <1>2 DEF RKosuKaydi
<1>4. /\ rIs' = [k \in RAnahtar |-> IF k \in S THEN [rIs[k] EXCEPT !.durum = "KUYRUKTA", !.kilit = TRUE] ELSE rIs[k]]
      /\ rKosu' = [rKosu EXCEPT ![w] = y] /\ rKosu[w] = Bos
      /\ UNCHANGED <<simdi, randevu, rPlan, rIstek, rSasan>>
  BY <1>1 DEF KosuAl
<1> HIDE DEF S
<1>5. /\ rKosu' \in [RKosu -> RKosuKaydi \cup {Bos, Bitti}]
      /\ rKosu'[w] = y /\ \A x \in RKosu \ {w} : rKosu'[x] = rKosu[x]
  BY <1>0, <1>3, <1>4 DEF RTipler
<1>6. ASSUME NEW k \in RAnahtar
      PROVE  /\ rIs'[k] \in RIsSatiri \cup {Yok}
             /\ rIs[k] # Yok => rIs'[k] # Yok
             /\ k \notin S => rIs'[k] = rIs[k]
             /\ k \in S => /\ rIs'[k].kilit = TRUE /\ rIs'[k].an = rIs[k].an
                           /\ rIs'[k].mesaj = rIs[k].mesaj /\ rIs'[k].ucret = rIs[k].ucret
  <2>1. CASE k \notin S
    BY <1>0, <1>4, <2>1 DEF RTipler
  <2>2. CASE k \in S
    <3>1. PICK x \in RIsSatiri : x = rIs[k]
      BY <1>0, <1>2, <2>2 DEF RTipler, RBekler
    <3>2. PICK z : z = [x EXCEPT !.durum = "KUYRUKTA", !.kilit = TRUE]
      OBVIOUS
    <3>3. z \in RIsSatiri /\ z.kilit = TRUE /\ z.an = x.an /\ z.mesaj = x.mesaj /\ z.ucret = x.ucret
      BY <3>2 DEF RIsSatiri, Bekler
    <3>4. rIs'[k] = z /\ z # Yok
      BY <1>4, <2>2, <3>1, <3>2, <3>3, RandevuVarsayimi
    <3> QED BY <2>2, <3>1, <3>3, <3>4
  <2> QED BY <2>1, <2>2
<1>7. rIs' \in [RAnahtar -> RIsSatiri \cup {Yok}]
  <2>1. rIs' = [k \in RAnahtar |-> rIs'[k]]
    BY <1>4
  <2> QED BY <1>6, <2>1
<1>8. RTipler'
  BY <1>0, <1>4, <1>5, <1>7 DEF RTipler
<1>9. \A k : /\ RListede(w, k)' <=> k \in S
             /\ ~RElinde(w, k)' /\ ~RListede(w, k) /\ ~RElinde(w, k)
  BY <1>3, <1>4, <1>5, RKosuAlanlari DEF RListede, RElinde
<1>10. \A x \in RKosu \ {w} : \A d : /\ RListede(x, d)' <=> RListede(x, d)
                                     /\ RElinde(x, d)' <=> RElinde(x, d)
  BY <1>5 DEF RListede, RElinde
<1>11. \A x \in RKosu : \A d : /\ RElinde(x, d)' => RElinde(x, d) /\ x # w
                               /\ RListede(x, d)' => RListede(x, d) \/ (x = w /\ d \in S)
                               /\ RTutar(x, d)' => RTutar(x, d) \/ (x = w /\ d \in S)
  BY <1>9, <1>10 DEF RTutar
<1>12. ASSUME NEW x \in RKosu, NEW d \in RAnahtar, RTutar(x, d)' PROVE rIs'[d] # Yok
  <2>1. rIs[d] # Yok
    BY <1>2, <1>11, <1>12 DEF RandevuInv, RKosuInv, RBekler
  <2> QED BY <1>6, <2>1
<1>13. ASSUME NEW d \in RAnahtar \ rSasan', rIs'[d] # Yok PROVE RTekTutan(d)' /\ RMesaj(d)'
  <2>1. CASE d \notin S
    <3>1. rIs'[d] = rIs[d] /\ d \notin rSasan
      BY <1>4, <1>6, <2>1
    <3>2. RTekTutan(d) /\ RMesaj(d)
      BY <1>13, <3>1 DEF RandevuInv, RKosuInv
    <3>3. \A x \in RKosu : /\ RElinde(x, d)' => RElinde(x, d) /\ x # w
                           /\ RListede(x, d)' => RListede(x, d)
                           /\ RTutar(x, d)' => RTutar(x, d)
      BY <1>11, <2>1
    <3>4. RTekTutan(d)'
      <4>1. \A x, v \in RKosu : RTutar(x, d)' /\ RTutar(v, d)' => x = v
        BY <3>2, <3>3 DEF RTekTutan
      <4>2. \A x \in RKosu : ~(RListede(x, d)' /\ RElinde(x, d)')
        BY <3>2, <3>3 DEF RTekTutan
      <4> QED BY <4>1, <4>2 DEF RTekTutan
    <3>5. (RBekler(d)' <=> RBekler(d)) /\ (RGitmedi(d)' <=> RGitmedi(d))
      BY <3>1 DEF RBekler, RGitmedi
    <3>6. ASSUME NEW x \in RKosu
          PROVE  /\ RTutar(x, d)' /\ RBekler(d)' => rIs'[d].kilit
                 /\ RListede(x, d)' => RGitmedi(d)'
                 /\ RElinde(x, d)' /\ rKosu'[x].adim \in {"ucret", "gonder", "PLANLANDI", "ATLANDI"} => RGitmedi(d)'
      BY <1>5, <3>1, <3>2, <3>3, <3>5 DEF RMesaj
    <3>7. RMesaj(d)'
      BY <3>1, <3>2, <3>5, <3>6 DEF RMesaj
    <3> QED BY <3>4, <3>7
  <2>2. CASE d \in S
    <3>1. RTekTutan(d) /\ RMesaj(d) /\ rIs[d] # Yok
      BY <1>2, <1>4, <1>13, <2>2 DEF RandevuInv, RKosuInv, RBekler
    <3>2. RGitmedi(d) /\ \A x \in RKosu : ~RTutar(x, d)
      BY <1>2, <2>2, <3>1 DEF RMesaj
    <3>3. \A x \in RKosu : ~RElinde(x, d)' /\ (RListede(x, d)' => x = w) /\ (RTutar(x, d)' => x = w)
      BY <1>11, <3>2 DEF RTutar
    <3>4a. rIs'[d].kilit = TRUE /\ rIs'[d].mesaj = rIs[d].mesaj /\ rIs'[d].ucret = rIs[d].ucret
      BY <1>6, <2>2
    <3>4. RGitmedi(d)' /\ rIs'[d].kilit = TRUE /\ rIs'[d].mesaj = 0
      BY <3>2, <3>4a DEF RGitmedi
    <3>5. RTekTutan(d)'
      BY <3>3 DEF RTekTutan
    <3>6. RMesaj(d)'
      BY <3>3, <3>4 DEF RMesaj
    <3> QED BY <3>5, <3>6
  <2> QED BY <2>1, <2>2
<1>14. RKosuInv'
  BY <1>12, <1>13 DEF RKosuInv
<1>15. RPlanInv'
  <2>1. \A d \in RAnahtar \ rSasan' : RBekler(d)' => RBekler(d) /\ rIs'[d].an = rIs[d].an
    BY <1>2, <1>6 DEF RBekler
  <2> QED BY <1>4, <2>1, RPlanKorur DEF RandevuInv
<1> QED BY <1>8, <1>14, <1>15 DEF RandevuInv

LEMMA RTutulan ==
  ASSUME RandevuInv, NEW w \in RKosu, NEW k \in RAnahtar, RTutar(w, k)
  PROVE  /\ rIs[k] \in RIsSatiri /\ rIs[k] # Yok
         /\ k \notin rSasan => RTekTutan(k) /\ RMesaj(k)
BY DEF RandevuInv, RKosuInv, RTipler

LEMMA KosuOkuKorur ==
  ASSUME RandevuInv, NEW w \in RKosu, KosuOku(w)
  PROVE  RandevuInv'
<1>0. RTipler
  BY DEF RandevuInv
<1>1. PICK r \in RKosuKaydi : r = rKosu[w] /\ r.adim = "oku" /\ r.isler \subseteq RAnahtar /\ RSurer(rKosu[w])
  BY <1>0, RKosudaki, RKosuAlanlari DEF KosuOku
<1>2. PICK k \in r.isler :
       IF ~randevu.aktif THEN KosuSon(w, Kalanlar(w, k)) /\ UNCHANGED rIs
       ELSE IF rIs[k].durum = "GONDERILDI"
       THEN KosuSon(w, Kalanlar(w, k)) /\ rIs' = [rIs EXCEPT ![k].kilit = FALSE]
       ELSE /\ \E a \in {"PLANLANDI", "ATLANDI", "ucret"} : RKosuIlerlet(w, a, k, Kalanlar(w, k))
            /\ UNCHANGED rIs
  BY <1>1 DEF KosuOku
<1>3. k \in RAnahtar /\ RListede(w, k) /\ RTutar(w, k)
  BY <1>1 DEF RListede, RTutar
<1>4. PICK x \in RIsSatiri : x = rIs[k]
  BY <1>3, RTutulan
<1>5. k \notin rSasan => RMesaj(k) /\ RGitmedi(k) /\ (RBekler(k) => x.kilit)
  BY <1>3, <1>4, RTutulan DEF RMesaj
<1>6a. PICK S : S = Kalanlar(w, k)
  OBVIOUS
<1>6. S = Kalanlar(w, k) /\ S \in SUBSET RAnahtar /\ k \notin S /\ \A d \in S : RListede(w, d)
  BY <1>1, <1>6a DEF Kalanlar, RListede
<1>7. UNCHANGED <<simdi, randevu, rPlan, rIstek, rSasan>>
  BY DEF KosuOku
<1>8. CASE KosuSon(w, Kalanlar(w, k)) /\ UNCHANGED rIs
  <2>1. PICK y : y = IF S = {} THEN Bitti ELSE [adim |-> "oku", isler |-> S]
    OBVIOUS
  <2>2. y \in RKosuKaydi \cup {Bos, Bitti} /\ \A d : ~REli(y, d) /\ (RListesi(y, d) => d \in S)
    BY <1>6, <2>1, RSonKaydi
  <2>3. rKosu' = [rKosu EXCEPT ![w] = y]
    BY <1>6, <1>8, <2>1 DEF KosuSon
  <2>4. rIs' \in [RAnahtar -> RIsSatiri \cup {Yok}] /\ rIs'[k] = x /\ \A d \in RAnahtar \ {k} : rIs'[d] = rIs[d]
    BY <1>0, <1>4, <1>8 DEF RTipler
  <2>5. k \notin rSasan' =>
           /\ ~RListesi(y, k) /\ ~REli(y, k)
           /\ x.durum \in Bekler => RBekler(k) /\ x.an = rIs[k].an
           /\ x.durum \in Bekler /\ ~x.kilit => x.mesaj = 0 /\ x.ucret # "iade"
           /\ x.mesaj <= 1 /\ ~(x.mesaj = 1 /\ x.ucret = "iade")
    BY <1>3, <1>4, <1>5, <1>6, <1>7, <2>2, RTutulan DEF RMesaj, RGitmedi, RBekler
  <2>6. \A d \in RAnahtar \ {k} : ~REli(y, d) /\ (RListesi(y, d) => RListede(w, d))
    BY <1>6, <2>2
  <2> QED BY <1>3, <1>7, <2>2, <2>3, <2>4, <2>5, <2>6, RKosuAdimKorur
<1>9. CASE KosuSon(w, Kalanlar(w, k)) /\ rIs' = [rIs EXCEPT ![k].kilit = FALSE] /\ rIs[k].durum = "GONDERILDI"
  <2>1. PICK y : y = IF S = {} THEN Bitti ELSE [adim |-> "oku", isler |-> S]
    OBVIOUS
  <2>2. y \in RKosuKaydi \cup {Bos, Bitti} /\ \A d : ~REli(y, d) /\ (RListesi(y, d) => d \in S)
    BY <1>6, <2>1, RSonKaydi
  <2>3. rKosu' = [rKosu EXCEPT ![w] = y]
    BY <1>6, <1>9, <2>1 DEF KosuSon
  <2>4. PICK z : z = [x EXCEPT !.kilit = FALSE]
    OBVIOUS
  <2>5. z \in RIsSatiri /\ z.durum = "GONDERILDI" /\ z.mesaj = x.mesaj /\ z.ucret = x.ucret
    BY <1>4, <1>9, <2>4 DEF RIsSatiri
  <2>6. rIs' = [rIs EXCEPT ![k] = z]
    BY <1>4, <1>9, <2>4
  <2>7. rIs' \in [RAnahtar -> RIsSatiri \cup {Yok}] /\ rIs'[k] = z /\ \A d \in RAnahtar \ {k} : rIs'[d] = rIs[d]
    BY <1>0, <1>3, <2>5, <2>6 DEF RTipler
  <2>8. k \notin rSasan' =>
           /\ ~RListesi(y, k) /\ ~REli(y, k)
           /\ z.durum \notin Bekler
           /\ z.mesaj <= 1 /\ ~(z.mesaj = 1 /\ z.ucret = "iade")
    BY <1>4, <1>5, <1>6, <1>7, <2>2, <2>5 DEF RMesaj, RGitmedi, Bekler
  <2>9. \A d \in RAnahtar \ {k} : ~REli(y, d) /\ (RListesi(y, d) => RListede(w, d))
    BY <1>6, <2>2
  <2> QED BY <1>3, <1>7, <2>2, <2>3, <2>5, <2>7, <2>8, <2>9, RKosuAdimKorur
<1>10. ASSUME NEW a \in {"PLANLANDI", "ATLANDI", "ucret"}, RKosuIlerlet(w, a, k, Kalanlar(w, k)), UNCHANGED rIs
       PROVE  RandevuInv'
  <2>1. PICK y : y = [adim |-> a, k |-> k, isler |-> S]
    OBVIOUS
  <2>2. /\ y \in RKosuKaydi \cup {Bos, Bitti} /\ y.adim = a
        /\ \A d : (REli(y, d) <=> d = k) /\ (RListesi(y, d) => d \in S)
    <3>1. a \in RIsAdimi
      BY DEF RIsAdimi
    <3>2. S \in SUBSET RAnahtar /\ k \in RAnahtar
      BY <1>3, <1>6
    <3>3. /\ y \in RKosuKaydi \cup {Bos, Bitti} /\ y.adim = a
          /\ \A d : (REli(y, d) <=> d = k) /\ (RListesi(y, d) => d \in S)
      BY ONLY <2>1, <3>1, <3>2, RElKaydi
    <3> QED BY <3>3
  <2>3. rKosu' = [rKosu EXCEPT ![w] = y]
    BY <1>6, <1>10, <2>1 DEF RKosuIlerlet
  <2>4. rIs' \in [RAnahtar -> RIsSatiri \cup {Yok}] /\ rIs'[k] = x /\ \A d \in RAnahtar \ {k} : rIs'[d] = rIs[d]
    BY <1>0, <1>4, <1>10 DEF RTipler
  <2>5. k \notin rSasan' =>
           /\ ~RListesi(y, k)
           /\ x.durum \in Bekler => RBekler(k) /\ x.an = rIs[k].an /\ x.kilit
           /\ x.mesaj = 0 /\ x.ucret # "iade"
           /\ x.mesaj <= 1 /\ ~(x.mesaj = 1 /\ x.ucret = "iade")
    BY <1>3, <1>4, <1>5, <1>6, <1>7, <2>2, RTutulan DEF RGitmedi, RBekler
  <2>6. \A d \in RAnahtar \ {k} : ~REli(y, d) /\ (RListesi(y, d) => RListede(w, d))
    BY <1>6, <2>2
  <2> QED BY <1>3, <1>7, <2>2, <2>3, <2>4, <2>5, <2>6, RKosuAdimKorur
<1> QED BY <1>2, <1>8, <1>9, <1>10
(* A pass with a reminder in its hand.                                     *)
LEMMA REldeki ==
  ASSUME RandevuInv, NEW w \in RKosu, rKosu[w].adim \in RIsAdimi
  PROVE  \E r \in RKosuKaydi :
           /\ r = rKosu[w] /\ r.isler \subseteq RAnahtar /\ r.k \in RAnahtar /\ r.adim \in RIsAdimi
           /\ RElinde(w, r.k) /\ RTutar(w, r.k) /\ \A d \in r.isler : RListede(w, d)
           /\ r.k \notin rSasan =>
                /\ r.k \notin r.isler
                /\ RBekler(r.k) => rIs[r.k].kilit
                /\ r.adim \in {"ucret", "gonder", "PLANLANDI", "ATLANDI"} => RGitmedi(r.k)
                /\ rIs[r.k].mesaj <= 1 /\ ~(rIs[r.k].mesaj = 1 /\ rIs[r.k].ucret = "iade")
<1>1. PICK r \in RKosuKaydi : /\ r = rKosu[w] /\ r.isler \subseteq RAnahtar /\ r.k \in RAnahtar /\ r.adim \in RIsAdimi
                              /\ r.adim # "oku" /\ RSurer(rKosu[w])
  BY RKosudaki, RKosuAlanlari DEF RandevuInv, RIsAdimi
<1>2. RElinde(w, r.k) /\ RTutar(w, r.k) /\ \A d \in r.isler : RListede(w, d)
  BY <1>1 DEF RElinde, RTutar, RListede
<1>3. r.k \notin rSasan => RTekTutan(r.k) /\ RMesaj(r.k)
  BY <1>1, <1>2, RTutulan
<1>4. r.k \notin rSasan => r.k \notin r.isler
  BY <1>2, <1>3 DEF RTekTutan
<1> QED BY <1>1, <1>2, <1>3, <1>4 DEF RMesaj

LEMMA KosuUcretKorur ==
  ASSUME RandevuInv, NEW w \in RKosu, KosuUcret(w)
  PROVE  RandevuInv'
<1>0. RTipler /\ rKosu[w].adim = "ucret" /\ rKosu[w].adim \in RIsAdimi
  BY DEF RandevuInv, KosuUcret, RIsAdimi
<1>1. PICK r \in RKosuKaydi :
           /\ r = rKosu[w] /\ r.isler \subseteq RAnahtar /\ r.k \in RAnahtar /\ r.adim \in RIsAdimi
           /\ RElinde(w, r.k) /\ RTutar(w, r.k) /\ \A d \in r.isler : RListede(w, d)
           /\ r.k \notin rSasan =>
                /\ r.k \notin r.isler
                /\ RBekler(r.k) => rIs[r.k].kilit
                /\ r.adim \in {"ucret", "gonder", "PLANLANDI", "ATLANDI"} => RGitmedi(r.k)
                /\ rIs[r.k].mesaj <= 1 /\ ~(rIs[r.k].mesaj = 1 /\ rIs[r.k].ucret = "iade")
  BY <1>0, REldeki
<1>2. PICK x \in RIsSatiri : x = rIs[r.k] /\ x # Yok
  BY <1>1, RTutulan
<1>3. PICK u : u = IF x.ucret = "yok" THEN "alindi" ELSE x.ucret
  OBVIOUS
<1>4. PICK z : z = [x EXCEPT !.ucret = u]
  OBVIOUS
<1>5. /\ z \in RIsSatiri /\ z.durum = x.durum /\ z.an = x.an /\ z.kilit = x.kilit /\ z.mesaj = x.mesaj
      /\ z.ucret = u /\ (u = "iade" => x.ucret = "iade")
  BY <1>3, <1>4 DEF RIsSatiri
<1>6. PICK y : y = [adim |-> "gonder", k |-> r.k, isler |-> r.isler]
  OBVIOUS
<1>7. "gonder" \in RIsAdimi
  BY DEF RIsAdimi
<1>8. /\ y \in RKosuKaydi \cup {Bos, Bitti} /\ y.adim = "gonder"
      /\ \A d : (REli(y, d) <=> d = r.k) /\ (RListesi(y, d) => d \in r.isler)
  <2>1. r.isler \in SUBSET RAnahtar /\ r.k \in RAnahtar
    BY <1>1
  <2> QED BY ONLY <1>6, <1>7, <2>1, RElKaydi
<1>9. rKosu' = [rKosu EXCEPT ![w] = y] /\ UNCHANGED <<simdi, randevu, rPlan, rIstek, rSasan>>
  BY <1>1, <1>6 DEF KosuUcret, RKosuIlerlet
<1>10. rIs' = [rIs EXCEPT ![r.k] = z]
  BY <1>1, <1>2, <1>3, <1>4 DEF KosuUcret
<1>11. rIs' \in [RAnahtar -> RIsSatiri \cup {Yok}] /\ rIs'[r.k] = z /\ \A d \in RAnahtar \ {r.k} : rIs'[d] = rIs[d]
  BY <1>0, <1>1, <1>5, <1>10 DEF RTipler
<1>12. r.k \notin rSasan' =>
           /\ ~RListesi(y, r.k)
           /\ z.durum \in Bekler => RBekler(r.k) /\ z.an = rIs[r.k].an /\ z.kilit
           /\ z.mesaj = 0 /\ z.ucret # "iade"
           /\ z.mesaj <= 1 /\ ~(z.mesaj = 1 /\ z.ucret = "iade")
  BY <1>0, <1>1, <1>2, <1>5, <1>8, <1>9 DEF RGitmedi, RBekler
<1>13. \A d \in RAnahtar \ {r.k} : ~REli(y, d) /\ (RListesi(y, d) => RListede(w, d))
  BY <1>1, <1>8
<1> QED BY <1>1, <1>5, <1>8, <1>9, <1>11, <1>12, <1>13, RKosuAdimKorur

LEMMA KosuGonderKorur ==
  ASSUME RandevuInv, NEW w \in RKosu, KosuGonder(w)
  PROVE  RandevuInv'
<1>0. RTipler /\ rKosu[w].adim = "gonder" /\ rKosu[w].adim \in RIsAdimi
  BY DEF RandevuInv, KosuGonder, RIsAdimi
<1>1. PICK r \in RKosuKaydi :
           /\ r = rKosu[w] /\ r.isler \subseteq RAnahtar /\ r.k \in RAnahtar /\ r.adim \in RIsAdimi
           /\ RElinde(w, r.k) /\ RTutar(w, r.k) /\ \A d \in r.isler : RListede(w, d)
           /\ r.k \notin rSasan =>
                /\ r.k \notin r.isler
                /\ RBekler(r.k) => rIs[r.k].kilit
                /\ r.adim \in {"ucret", "gonder", "PLANLANDI", "ATLANDI"} => RGitmedi(r.k)
                /\ rIs[r.k].mesaj <= 1 /\ ~(rIs[r.k].mesaj = 1 /\ rIs[r.k].ucret = "iade")
  BY <1>0, REldeki
<1>2. PICK x \in RIsSatiri : x = rIs[r.k] /\ x # Yok
  BY <1>1, RTutulan
<1>3. \E z \in RIsSatiri, a \in {"GONDERILDI", "BASARISIZ"} :
        /\ rIs' = [rIs EXCEPT ![r.k] = z] /\ RKosuIlerlet(w, a, r.k, r.isler)
        /\ z.durum = x.durum /\ z.an = x.an /\ z.kilit = x.kilit
        /\ \/ z.mesaj = x.mesaj + 1 /\ z.ucret = x.ucret
           \/ z.mesaj = x.mesaj /\ z.ucret = "iade"
  <2>1. CASE rIs[r.k].mesaj < 2 /\ rIs' = [rIs EXCEPT ![r.k].mesaj = @ + 1] /\ RKosuIlerlet(w, "GONDERILDI", r.k, r.isler)
    <3>1. PICK z : z = [x EXCEPT !.mesaj = x.mesaj + 1]
      OBVIOUS
    <3>2. /\ z \in RIsSatiri /\ z.durum = x.durum /\ z.an = x.an /\ z.kilit = x.kilit
          /\ z.mesaj = x.mesaj + 1 /\ z.ucret = x.ucret
      BY <1>2, <2>1, <3>1 DEF RIsSatiri
    <3>3. rIs' = [rIs EXCEPT ![r.k] = z]
      BY <1>2, <2>1, <3>1
    <3> QED BY <2>1, <3>2, <3>3
  <2>2. CASE rIs' = [rIs EXCEPT ![r.k].ucret = "iade"] /\ RKosuIlerlet(w, "BASARISIZ", r.k, r.isler)
    <3>1. PICK z : z = [x EXCEPT !.ucret = "iade"]
      OBVIOUS
    <3>2. /\ z \in RIsSatiri /\ z.durum = x.durum /\ z.an = x.an /\ z.kilit = x.kilit
          /\ z.mesaj = x.mesaj /\ z.ucret = "iade"
      BY <1>2, <2>2, <3>1 DEF RIsSatiri
    <3>3. rIs' = [rIs EXCEPT ![r.k] = z]
      BY <1>2, <2>2, <3>1
    <3> QED BY <2>2, <3>2, <3>3
  <2> QED BY <1>1, <2>1, <2>2 DEF KosuGonder
<1>4. PICK z \in RIsSatiri, a \in {"GONDERILDI", "BASARISIZ"} :
        /\ rIs' = [rIs EXCEPT ![r.k] = z] /\ RKosuIlerlet(w, a, r.k, r.isler)
        /\ z.durum = x.durum /\ z.an = x.an /\ z.kilit = x.kilit
        /\ \/ z.mesaj = x.mesaj + 1 /\ z.ucret = x.ucret
           \/ z.mesaj = x.mesaj /\ z.ucret = "iade"
  BY <1>3
<1>6. PICK y : y = [adim |-> a, k |-> r.k, isler |-> r.isler]
  OBVIOUS
<1>7. a \in RIsAdimi /\ a \notin {"ucret", "gonder", "PLANLANDI", "ATLANDI"}
  BY DEF RIsAdimi
<1>8. /\ y \in RKosuKaydi \cup {Bos, Bitti} /\ y.adim = a
      /\ \A d : (REli(y, d) <=> d = r.k) /\ (RListesi(y, d) => d \in r.isler)
  <2>1. r.isler \in SUBSET RAnahtar /\ r.k \in RAnahtar
    BY <1>1
  <2> QED BY ONLY <1>6, <1>7, <2>1, RElKaydi
<1>9. rKosu' = [rKosu EXCEPT ![w] = y] /\ UNCHANGED <<simdi, randevu, rPlan, rIstek, rSasan>>
  BY <1>4, <1>6 DEF KosuGonder, RKosuIlerlet
<1>11. rIs' \in [RAnahtar -> RIsSatiri \cup {Yok}] /\ rIs'[r.k] = z /\ \A d \in RAnahtar \ {r.k} : rIs'[d] = rIs[d]
  BY <1>0, <1>1, <1>4 DEF RTipler
<1>12. r.k \notin rSasan' =>
           /\ ~RListesi(y, r.k)
           /\ z.durum \in Bekler => RBekler(r.k) /\ z.an = rIs[r.k].an /\ z.kilit
           /\ z.mesaj <= 1 /\ ~(z.mesaj = 1 /\ z.ucret = "iade")
  <2>1. SUFFICES ASSUME r.k \notin rSasan'
                 PROVE  /\ ~RListesi(y, r.k)
                        /\ z.durum \in Bekler => RBekler(r.k) /\ z.an = rIs[r.k].an /\ z.kilit
                        /\ z.mesaj <= 1 /\ ~(z.mesaj = 1 /\ z.ucret = "iade")
    OBVIOUS
  <2>2. r.k \notin r.isler /\ x.mesaj = 0 /\ x.ucret # "iade" /\ (RBekler(r.k) => x.kilit)
    BY <1>0, <1>1, <1>2, <1>9, <2>1 DEF RGitmedi
  <2> QED BY <1>2, <1>4, <1>8, <2>2 DEF RBekler
<1>13. \A d \in RAnahtar \ {r.k} : ~REli(y, d) /\ (RListesi(y, d) => RListede(w, d))
  BY <1>1, <1>8
<1>14. r.k \notin rSasan' =>
           /\ ~RListesi(y, r.k)
           /\ z.durum \in Bekler => RBekler(r.k) /\ z.an = rIs[r.k].an
           /\ REli(y, r.k) /\ z.durum \in Bekler => z.kilit
           /\ REli(y, r.k) /\ y.adim \in {"ucret", "gonder", "PLANLANDI", "ATLANDI"} => z.mesaj = 0 /\ z.ucret # "iade"
           /\ z.durum \in Bekler /\ ~z.kilit => z.mesaj = 0 /\ z.ucret # "iade"
           /\ z.mesaj <= 1 /\ ~(z.mesaj = 1 /\ z.ucret = "iade")
  BY <1>7, <1>8, <1>12
<1>15. RTutar(w, r.k) /\ r.k \in RAnahtar /\ rSasan' \in {rSasan, rSasan \cup {r.k}}
  BY <1>1, <1>9
<1>16. PICK k \in RAnahtar : k = r.k
  BY <1>1
<1>17. /\ RTutar(w, k) /\ rIs'[k] = z /\ \A d \in RAnahtar \ {k} : rIs'[d] = rIs[d]
       /\ rSasan' \in {rSasan, rSasan \cup {k}}
       /\ \A d \in RAnahtar \ {k} : ~REli(y, d) /\ (RListesi(y, d) => RListede(w, d))
  BY <1>11, <1>13, <1>15, <1>16
<1>18. k \notin rSasan' =>
           /\ ~RListesi(y, k)
           /\ z.durum \in Bekler => RBekler(k) /\ z.an = rIs[k].an
           /\ REli(y, k) /\ z.durum \in Bekler => z.kilit
           /\ REli(y, k) /\ y.adim \in {"ucret", "gonder", "PLANLANDI", "ATLANDI"} => z.mesaj = 0 /\ z.ucret # "iade"
           /\ z.durum \in Bekler /\ ~z.kilit => z.mesaj = 0 /\ z.ucret # "iade"
           /\ z.mesaj <= 1 /\ ~(z.mesaj = 1 /\ z.ucret = "iade")
  BY <1>14, <1>16
<1> QED BY <1>8, <1>9, <1>11, <1>17, <1>18, RKosuAdimKorur

LEMMA KosuYazKorur ==
  ASSUME RandevuInv, NEW w \in RKosu, KosuYaz(w)
  PROVE  RandevuInv'
<1>0. RTipler /\ rKosu[w].adim \in {"PLANLANDI", "ATLANDI", "GONDERILDI", "BASARISIZ"} /\ rKosu[w].adim \in RIsAdimi
  BY DEF RandevuInv, KosuYaz, RIsAdimi
<1>1. PICK r \in RKosuKaydi :
           /\ r = rKosu[w] /\ r.isler \subseteq RAnahtar /\ r.k \in RAnahtar /\ r.adim \in RIsAdimi
           /\ RElinde(w, r.k) /\ RTutar(w, r.k) /\ \A d \in r.isler : RListede(w, d)
           /\ r.k \notin rSasan =>
                /\ r.k \notin r.isler
                /\ RBekler(r.k) => rIs[r.k].kilit
                /\ r.adim \in {"ucret", "gonder", "PLANLANDI", "ATLANDI"} => RGitmedi(r.k)
                /\ rIs[r.k].mesaj <= 1 /\ ~(rIs[r.k].mesaj = 1 /\ rIs[r.k].ucret = "iade")
  BY <1>0, REldeki
<1>2. PICK x \in RIsSatiri : x = rIs[r.k] /\ x # Yok
  BY <1>1, RTutulan
<1>3. PICK d : d = r.adim
  OBVIOUS
<1>4. PICK z : z = [x EXCEPT !.durum = d, !.kilit = FALSE]
  OBVIOUS
<1>5. z \in RIsSatiri /\ z.durum = d /\ z.an = x.an /\ z.mesaj = x.mesaj /\ z.ucret = x.ucret
  BY <1>0, <1>1, <1>3, <1>4 DEF RIsSatiri, Bekler
<1>6. PICK y : y = IF r.isler = {} THEN Bitti ELSE [adim |-> "oku", isler |-> r.isler]
  OBVIOUS
<1>8. y \in RKosuKaydi \cup {Bos, Bitti} /\ \A e : ~REli(y, e) /\ (RListesi(y, e) => e \in r.isler)
  BY <1>1, <1>6, RSonKaydi
<1>9. rKosu' = [rKosu EXCEPT ![w] = y] /\ UNCHANGED <<simdi, randevu, rPlan, rIstek>>
  BY <1>1, <1>6 DEF KosuYaz, KosuSon
<1>10. /\ rIs' = [rIs EXCEPT ![r.k] = z]
       /\ rSasan' = IF d = "PLANLANDI" /\ x.durum # "KUYRUKTA" THEN rSasan \cup {r.k} ELSE rSasan
  <2>1. /\ rIs' = [rIs EXCEPT ![r.k].durum = d, ![r.k].kilit = FALSE]
        /\ rSasan' = IF d = "PLANLANDI" /\ rIs[r.k].durum # "KUYRUKTA" THEN rSasan \cup {r.k} ELSE rSasan
    BY <1>1, <1>3 DEF KosuYaz
  <2> QED BY <1>0, <1>1, <1>2, <1>4, <2>1 DEF RTipler, RIsSatiri
<1>11. rIs' \in [RAnahtar -> RIsSatiri \cup {Yok}] /\ rIs'[r.k] = z /\ \A e \in RAnahtar \ {r.k} : rIs'[e] = rIs[e]
  BY <1>0, <1>1, <1>5, <1>10 DEF RTipler
<1>12. r.k \notin rSasan' =>
           /\ ~RListesi(y, r.k) /\ ~REli(y, r.k)
           /\ z.durum \in Bekler => RBekler(r.k) /\ z.an = rIs[r.k].an
           /\ z.durum \in Bekler /\ ~z.kilit => z.mesaj = 0 /\ z.ucret # "iade"
           /\ z.mesaj <= 1 /\ ~(z.mesaj = 1 /\ z.ucret = "iade")
  <2>1. SUFFICES ASSUME r.k \notin rSasan'
                 PROVE  /\ ~RListesi(y, r.k) /\ ~REli(y, r.k)
                        /\ z.durum \in Bekler => RBekler(r.k) /\ z.an = rIs[r.k].an
                        /\ z.durum \in Bekler /\ ~z.kilit => z.mesaj = 0 /\ z.ucret # "iade"
                        /\ z.mesaj <= 1 /\ ~(z.mesaj = 1 /\ z.ucret = "iade")
    OBVIOUS
  <2>2. r.k \notin rSasan
    BY <1>10, <2>1
  <2>3. ~RListesi(y, r.k) /\ ~REli(y, r.k)
    BY <1>1, <1>8, <2>2
  <2>4. z.mesaj <= 1 /\ ~(z.mesaj = 1 /\ z.ucret = "iade")
    BY <1>1, <1>2, <1>5, <2>2
  <2>5. CASE d = "PLANLANDI"
    <3>1. x.durum = "KUYRUKTA"
      BY <1>10, <2>1, <2>5
    <3>2. RBekler(r.k) /\ RGitmedi(r.k)
      BY <1>1, <1>2, <1>3, <2>2, <2>5, <3>1 DEF RBekler, Bekler
    <3> QED BY <1>2, <1>5, <2>3, <2>4, <3>2 DEF RGitmedi
  <2>6. CASE d # "PLANLANDI"
    BY <1>0, <1>1, <1>3, <1>5, <2>3, <2>4, <2>6 DEF Bekler
  <2> QED BY <2>5, <2>6
<1>13. \A e \in RAnahtar \ {r.k} : ~REli(y, e) /\ (RListesi(y, e) => RListede(w, e))
  BY <1>1, <1>8
<1>14. rSasan' \in {rSasan, rSasan \cup {r.k}}
  BY <1>10
<1>15. r.k \in RAnahtar /\ RTutar(w, r.k) /\ y \in RKosuKaydi \cup {Bos, Bitti} /\ z \in RIsSatiri
  BY <1>1, <1>5, <1>8
<1>16. r.k \notin rSasan' =>
           /\ ~RListesi(y, r.k)
           /\ z.durum \in Bekler => RBekler(r.k) /\ z.an = rIs[r.k].an
           /\ REli(y, r.k) /\ z.durum \in Bekler => z.kilit
           /\ REli(y, r.k) /\ y.adim \in {"ucret", "gonder", "PLANLANDI", "ATLANDI"} => z.mesaj = 0 /\ z.ucret # "iade"
           /\ z.durum \in Bekler /\ ~z.kilit => z.mesaj = 0 /\ z.ucret # "iade"
           /\ z.mesaj <= 1 /\ ~(z.mesaj = 1 /\ z.ucret = "iade")
  BY <1>12
<1> QED BY <1>9, <1>11, <1>13, <1>14, <1>15, <1>16, RKosuAdimKorur

\* RandevuSpec => []RandevuInv: a waiting reminder is of the plan and at the
\* time of the appointment, or a request that nobody has overtaken is on its
\* way to cancel it; a reminder that a pass holds is locked, held once and not
\* sent before.
THEOREM RandevuDegismez == RandevuSpec => []RandevuInv
<1>1. RandevuInit => RandevuInv
  <2> SUFFICES ASSUME RandevuInit PROVE RandevuInv
    OBVIOUS
  <2>1. randevu \in RandevuSatiri /\ rPlan \in RPlanSatiri /\ rPlan.mode # "OZEL"
    BY DEF RandevuInit, RandevuSatiri, RPlanSatiri
  <2>2. RTipler
    BY <2>1 DEF RandevuInit, RTipler
  <2>3. \A i \in RIstek : ~RSurer(rIstek[i])
    BY RIstekAlanlari DEF RandevuInit
  <2>4. \A w \in RKosu : ~RSurer(rKosu[w])
    BY RIstekAlanlari DEF RandevuInit
  <2>5. \A k \in RAnahtar : rIs[k] = Yok
    BY DEF RandevuInit
  <2> QED BY <2>2, <2>3, <2>4, <2>5 DEF RandevuInv, RPlanInv, RKosuInv, RTutar, RListede, RElinde, RGuncel, RBekler
<1>2. RandevuInv /\ [RandevuNext]_randevuVars => RandevuInv'
  <2> SUFFICES ASSUME RandevuInv, [RandevuNext]_randevuVars PROVE RandevuInv'
    OBVIOUS
  <2>1. CASE UNCHANGED randevuVars
    <3>1. UNCHANGED <<simdi, randevu, rPlan, rIs, rIstek, rKosu, rSasan>>
      BY <2>1 DEF randevuVars
    <3>2. RTipler'
      BY <3>1 DEF RandevuInv, RTipler
    <3>3. RPlanInv'
      BY <3>1, RPlanKorur DEF RandevuInv, RBekler
    <3>4. RKosuInv'
      BY <3>1, RKosuKorur DEF RandevuInv, RSatirAdimi
    <3> QED BY <3>2, <3>3, <3>4 DEF RandevuInv
  <2>2. CASE RZamanGecer \/ \E k \in RAnahtar : KilitDolar(k)
    BY <2>2, RBosAdimKorur
  <2>3. ASSUME NEW i \in RIstek,
               \/ RandevuYaz(i) \/ PlanYaz(i) \/ RandevuKapat(i) \/ RandevuOku(i) \/ PlanOku(i)
               \/ RIptalEt(i) \/ RDegistir(i) \/ ROlustur(i) \/ RDuser(i)
        PROVE  RandevuInv'
    BY <2>3, RYazilarKorur, RandevuOkuKorur, PlanOkuKorur, RIptalEtKorur, RDegistirKorur, ROlusturKorur, RDuserKorur
  <2>4. ASSUME NEW w \in RKosu, KosuAl(w) \/ KosuOku(w) \/ KosuUcret(w) \/ KosuGonder(w) \/ KosuYaz(w)
        PROVE  RandevuInv'
    BY <2>4, KosuAlKorur, KosuOkuKorur, KosuUcretKorur, KosuGonderKorur, KosuYazKorur
  <2> QED BY <2>1, <2>2, <2>3, <2>4 DEF RandevuNext
<1> QED BY <1>1, <1>2, PTL DEF RandevuSpec

\* RandevuSpec => []RandevuTutarli: with every request answered, a waiting
\* reminder is the one the appointment and its plan ask for, and no reminder
\* is sent twice or for a refunded credit, but for the named accidents.
THEOREM RandevuTutarlidir == RandevuSpec => []RandevuTutarli
<1>1. RandevuInv => RandevuTutarli
  <2> SUFFICES ASSUME RandevuInv, NEW k \in RAnahtar \ rSasan, rIs[k] # Yok
               PROVE  /\ rIs[k].durum = "PLANLANDI" /\ (\A i \in RIstek : rIstek[i] \in {Bos, Bitti}) =>
                           /\ randevu.aktif /\ rIs[k].an = randevu.an
                           /\ k = IF rPlan.mode = "OZEL" THEN <<"OZEL", rPlan.v>> ELSE <<"VARSAYILAN", 1>>
                      /\ rIs[k].mesaj <= 1 /\ ~(rIs[k].mesaj = 1 /\ rIs[k].ucret = "iade")
    BY DEF RandevuTutarli
  <2>1. RGuncel(k) /\ RMesaj(k)
    BY DEF RandevuInv, RPlanInv, RKosuInv
  <2>2. ASSUME rIs[k].durum = "PLANLANDI", \A i \in RIstek : rIstek[i] \in {Bos, Bitti}
        PROVE  /\ randevu.aktif /\ rIs[k].an = randevu.an
               /\ k = IF rPlan.mode = "OZEL" THEN <<"OZEL", rPlan.v>> ELSE <<"VARSAYILAN", 1>>
    <3>1. RBekler(k) /\ ~RIptalci
      BY <2>2 DEF RBekler, Bekler, RIptalci, RSurer
    <3> QED BY <2>1, <3>1 DEF RGuncel, RGecerli
  <2> QED BY <2>1, <2>2 DEF RMesaj
<1> QED BY <1>1, RandevuDegismez, PTL

\* RandevuSpec => []RandevuTypeOK
THEOREM RandevuTipiKorunur == RandevuSpec => []RandevuTypeOK
<1>1. RandevuInv => RandevuTypeOK
  BY DEF RandevuInv, RTipler, RandevuTypeOK
<1> QED BY <1>1, RandevuDegismez, PTL
-----------------------------------------------------------------------------
(* Templates: what a request has read, and what its row owes to Meta.      *)

TDuzelt == [adim : {"duzenle", "sil"}, no : TNolar, bayat : SUBSET (0..TNo)]
TGonderim ==
  [adim : {"isaretle", "olustur", "kaydet", "geri"}, is : {"ozel", "hazir"}, no : TNolar \cup {Yok}, ad : TAd,
   metin : TMetin \cup {HazirMetin, Yok}, onceki : TDurum \cup {Yok}, kimlik : TKimlikler \cup {Yok}, durum : TMetaDurum,
   bayat : SUBSET (0..TNo)]
TListe == UNION {[S -> [kimlik : TKimlikler, durum : TMetaDurum]] : S \in SUBSET TAd}
TEsleme == [adim : {"esle", "hayalet"}, liste : TListe, tam : BOOLEAN, bayat : SUBSET (0..TNo)]
TKayit == TDuzelt \cup TGonderim \cup TEsleme

SVeri ==
  /\ tSatir \in [TAd -> SablonSatiri \cup {Yok}] /\ tSonNo \in 0..TNo
  /\ tMeta \in [TAd -> TMetaSablonu \cup {Yok}]
  /\ tAcan \in [TKimlikler -> -1..TNo \cup {Yok}] /\ tAsili \subseteq TNolar
  /\ tYarim \subseteq 0..TNo /\ tSasan \subseteq 0..TNo
STip == SVeri /\ tIstek \in [TIstek -> TKayit \cup {Bos, Bitti}]

\* A row has its id alone, and ids are handed out in order.
SNolar ==
  /\ \A n, m \in TAd : tSatir[n] # Yok /\ tSatir[m] # Yok /\ tSatir[n].no = tSatir[m].no => n = m
  /\ \A n \in TAd : tSatir[n] # Yok => tSatir[n].no <= tSonNo
  /\ \A k \in TKimlikler : tAcan[k] # Yok => tAcan[k] <= tSonNo
STek ==
  /\ SNolar
  /\ \A c \in TSuren : tIstek[c] \notin TEsleme /\ tIstek[c].no # Yok => tIstek[c].no <= tSonNo

\* Submissions that will write over a row another has written.
TBorclu(no) ==
  {c \in TSuren : /\ tIstek[c].adim \in {"kaydet", "geri"} /\ tIstek[c].is = "ozel"
                  /\ tIstek[c].no = no /\ no \in tIstek[c].bayat}

\* Meta has no template that row no asked for.
TAcmamis(no) == \A m \in TAd : tMeta[m] # Yok => tAcan[tMeta[m].kimlik] # no

\* f tells for which name Meta gave an id.
TAdli(f, k, n) == tAcan[k] # Yok /\ f[k] = n
SMeta(f) == \A m \in TAd : tMeta[m] # Yok => TAdli(f, tMeta[m].kimlik, m)

\* A row that nobody overwrote has an id Meta gave for its name; a draft has
\* none; one being submitted has a request; and what it asked for has its text.
SBekler(s, n) ==
  /\ s.ozel \/ n = THazirAd
  /\ s.no \in tAsili \/ \E c \in TGonderen(s.no) : tIstek[c].is = "hazir" => n = THazirAd
SIstenen(s, n) ==
  \A m \in TAd : tMeta[m] # Yok /\ tAcan[tMeta[m].kimlik] = s.no =>
    s.durum # "TASLAK" /\ n = m /\ s.metin = tMeta[m].metin
STemiz(f, s, n) ==
  /\ s.kimlik # Yok => f[s.kimlik] = n
  /\ s.durum = "TASLAK" => s.kimlik = Yok
  /\ s.durum = "GONDERILIYOR" => SBekler(s, n)
  /\ s.ozel /\ s.no \notin tYarim /\ TBorclu(s.no) = {} => SIstenen(s, n)
SSatir(f, n) ==
  tSatir[n] # Yok =>
    /\ tSatir[n].kimlik # Yok => tAcan[tSatir[n].kimlik] # Yok
    /\ tSatir[n].no \notin tSasan => STemiz(f, tSatir[n], n)

\* An edit or a deletion that nobody overtook: its row is a draft.
SDuzelt(r) ==
  r.no \notin r.bayat =>
    \E n \in TAd : tSatir[n] # Yok /\ tSatir[n].no = r.no /\ tSatir[n].ozel /\ tSatir[n].durum = "TASLAK"

\* A submission that nobody overtook: the row it has read is as it was.
SOkunan(r) ==
  r.no # Yok /\ r.no \notin r.bayat =>
    LET s == tSatir[r.ad] IN
    /\ s # Yok /\ s.no = r.no
    /\ r.is = "ozel" \/ r.adim # "kaydet" => s.durum = IF r.adim = "isaretle" THEN r.onceki ELSE "GONDERILIYOR"
    /\ r.is = "ozel" => s.ozel /\ s.metin = r.metin
    /\ r.adim # "kaydet" =>
         /\ r.no \in tSasan \/ s.kimlik = r.kimlik
         /\ r.onceki = "TASLAK" => r.no \in tSasan \/ s.kimlik = Yok
         /\ r.onceki = "TASLAK" /\ s.ozel => r.no \in TBelirsiz \/ TBorclu(r.no) # {} \/ TAcmamis(r.no)

SGonderim(f, r) ==
  /\ r.is = "ozel" => r.no # Yok /\ r.onceki = "TASLAK"
  /\ r.is = "hazir" => r.ad = THazirAd /\ (r.no = Yok <=> r.onceki = Yok)
  /\ r.adim = "isaretle" => r.no # Yok
  /\ r.kimlik # Yok => tAcan[r.kimlik] # Yok
  /\ r.adim = "kaydet" => r.kimlik # Yok /\ (f[r.kimlik] = r.ad \/ (r.is = "hazir" /\ r.no \in tSasan))
  /\ SOkunan(r)

\* A list: what Meta had; what came since was asked for by rows that changed.
SListe(f, r) ==
  /\ \A x \in DOMAIN r.liste : TAdli(f, r.liste[x].kimlik, x)
  /\ r.tam => \A m \in TAd \ DOMAIN r.liste : tMeta[m] # Yok => tAcan[tMeta[m].kimlik] \in r.bayat
  /\ r.adim = "hayalet" =>
       r.tam /\ (r.bayat = {} => \A n \in DOMAIN r.liste : tSatir[n] # Yok => tSatir[n].durum # "GONDERILIYOR")

SBilgi(f, r) ==
  /\ r \in TDuzelt => SDuzelt(r)
  /\ r \in TGonderim => SGonderim(f, r)
  /\ r \in TEsleme => SListe(f, r)

SAdli(f) == SMeta(f) /\ (\A n \in TAd : SSatir(f, n)) /\ \A c \in TSuren : SBilgi(f, tIstek[c])

\* The template K of the catalogue is on the row of its name, whose id is no:
\* a request that goes on to write that row knows K or is overtaken.
SYazacak(K, no, r) ==
  no \in r.bayat \/
    /\ r \in TDuzelt => r.no # no
    /\ r \in TGonderim =>
         IF r.is = "ozel" THEN r.no # no
         ELSE IF r.adim = "kaydet" THEN r.kimlik = K ELSE r.no = no => r.kimlik = K
    /\ r \in TEsleme => IF THazirAd \in DOMAIN r.liste THEN r.liste[THazirAd].kimlik = K ELSE ~r.tam

\* The row of the catalogue's name has the template K of Meta.
SYerinde(K) ==
  /\ tSatir[THazirAd] # Yok /\ tSatir[THazirAd].kimlik = K /\ ~tSatir[THazirAd].ozel
  /\ \A c \in TSuren : SYazacak(K, tSatir[THazirAd].no, tIstek[c])
\* A submission is about to write it.
SGelir(K) ==
  \E b \in TSuren : /\ tIstek[b] \in TGonderim /\ tIstek[b].adim = "kaydet" /\ tIstek[b].is = "hazir"
                    /\ tIstek[b].kimlik = K
SHazir ==
  TBelirsiz = {} /\ tMeta[THazirAd] # Yok /\ tAcan[tMeta[THazirAd].kimlik] = 0 =>
    SGelir(tMeta[THazirAd].kimlik) \/ SYerinde(tMeta[THazirAd].kimlik)

SInvF(f) == STip /\ STek /\ SHazir /\ SAdli(f)
SablonInv == \E f \in [TKimlikler -> TAd] : SInvF(f)

(* A request in flight is of one kind.                                     *)
LEMMA TAyri ==
  /\ \A r \in TKayit : r # Bos /\ r # Bitti
  /\ \A r \in TDuzelt : r.adim \in {"duzenle", "sil"}
  /\ \A r \in TGonderim : r.adim \in {"isaretle", "olustur", "kaydet", "geri"}
  /\ \A r \in TEsleme : r.adim \in {"esle", "hayalet"}
  /\ Bos.adim = "bos" /\ Bitti.adim = "bitti"
BY DEF TKayit, TDuzelt, TGonderim, TEsleme, Bos, Bitti

(* ... which its step tells.                                               *)
LEMMA TKimdir ==
  ASSUME STip, NEW c \in TIstek
  PROVE  /\ tIstek[c].adim \in {"duzenle", "sil"} => c \in TSuren /\ tIstek[c] \in TDuzelt
         /\ tIstek[c].adim \in {"isaretle", "olustur", "kaydet", "geri"} => c \in TSuren /\ tIstek[c] \in TGonderim
         /\ tIstek[c].adim \in {"esle", "hayalet"} => c \in TSuren /\ tIstek[c] \in TEsleme
         /\ c \in TSuren => tIstek[c] \in TKayit
         /\ c \in TSuren => tIstek[c] \notin {Bos, Bitti}
<1>1. tIstek[c] \in TKayit \cup {Bos, Bitti}
  BY DEF STip, SVeri
<1>2. tIstek[c] \in TKayit => tIstek[c] \notin {Bos, Bitti}
  BY TAyri
<1> QED BY <1>1, <1>2, TAyri DEF TKayit, TSuren

\* q is the request r, and rows S have changed since.
SAyni(r, q, S) ==
  /\ q.bayat = r.bayat \cup S /\ q.adim = r.adim
  /\ r \in TDuzelt => q \in TDuzelt /\ q.no = r.no
  /\ r \in TGonderim => /\ q \in TGonderim /\ q.no = r.no /\ q.is = r.is /\ q.ad = r.ad /\ q.metin = r.metin
                        /\ q.onceki = r.onceki /\ q.kimlik = r.kimlik /\ q.durum = r.durum
  /\ r \in TEsleme => q \in TEsleme /\ q.liste = r.liste /\ q.tam = r.tam
  /\ q \in TDuzelt => r \in TDuzelt
  /\ q \in TGonderim => r \in TGonderim
  /\ q \in TEsleme => r \in TEsleme

LEMMA TBuyur ==
  ASSUME NEW r \in TKayit, NEW S \in SUBSET (0..TNo)
  PROVE  SAyni(r, [r EXCEPT !.bayat = @ \cup S], S)
<1>1. PICK q : q = [r EXCEPT !.bayat = @ \cup S]
  OBVIOUS
<1>2. CASE r \in TDuzelt
  <2>1. q \in TDuzelt /\ q.no = r.no /\ q.bayat = r.bayat \cup S /\ q.adim = r.adim
    BY <1>1, <1>2 DEF TDuzelt
  <2>2. q \notin TGonderim /\ q \notin TEsleme /\ r \notin TGonderim /\ r \notin TEsleme
    BY <1>2, <2>1, TAyri
  <2> QED BY <1>1, <1>2, <2>1, <2>2 DEF SAyni
<1>3. CASE r \in TGonderim
  <2>1. q \in TGonderim
    BY <1>1, <1>3 DEF TGonderim
  <2>2. /\ q.bayat = r.bayat \cup S /\ q.adim = r.adim
        /\ q.no = r.no /\ q.is = r.is /\ q.ad = r.ad /\ q.metin = r.metin
        /\ q.onceki = r.onceki /\ q.kimlik = r.kimlik /\ q.durum = r.durum
    BY <1>1, <1>3 DEF TGonderim
  <2>3. q \notin TDuzelt /\ q \notin TEsleme /\ r \notin TDuzelt /\ r \notin TEsleme
    BY <1>3, <2>1, TAyri
  <2> QED BY <1>1, <1>3, <2>1, <2>2, <2>3 DEF SAyni
<1>4. CASE r \in TEsleme
  <2>1. q \in TEsleme /\ q.liste = r.liste /\ q.tam = r.tam /\ q.bayat = r.bayat \cup S /\ q.adim = r.adim
    BY <1>1, <1>4 DEF TEsleme
  <2>2. q \notin TDuzelt /\ q \notin TGonderim /\ r \notin TDuzelt /\ r \notin TGonderim
    BY <1>4, <2>1, TAyri
  <2> QED BY <1>1, <1>4, <2>1, <2>2 DEF SAyni
<1> QED BY <1>2, <1>3, <1>4 DEF TKayit

(* When a moves to k, the others go on, and know that S has changed.       *)
LEMMA SIlerler ==
  ASSUME STip, NEW a \in TIstek, NEW k \in TKayit \cup {Bos, Bitti}, NEW S \in SUBSET (0..TNo), TIlerlet(a, k, S)
  PROVE  /\ tIstek' \in [TIstek -> TKayit \cup {Bos, Bitti}] /\ tIstek'[a] = k
         /\ TSuren' = (TSuren \ {a}) \cup {c \in {a} : k \notin {Bos, Bitti}}
         /\ \A c \in TSuren \ {a} : SAyni(tIstek[c], tIstek'[c], S)
<1>1. /\ tIstek \in [TIstek -> TKayit \cup {Bos, Bitti}]
      /\ tIstek' = [b \in TIstek |-> IF b = a THEN k ELSE IF b \in TSuren THEN [tIstek[b] EXCEPT !.bayat = @ \cup S] ELSE tIstek[b]]
  BY DEF STip, SVeri, TIlerlet
<1>2. \A c \in TSuren : c \in TIstek /\ tIstek[c] \in TKayit
  BY <1>1 DEF TSuren
<1>3. \A c \in TSuren \ {a} : SAyni(tIstek[c], tIstek'[c], S)
  <2> SUFFICES ASSUME NEW c \in TSuren \ {a} PROVE SAyni(tIstek[c], tIstek'[c], S)
    OBVIOUS
  <2>1. tIstek'[c] = [tIstek[c] EXCEPT !.bayat = @ \cup S]
    BY <1>1, <1>2
  <2> QED BY <1>2, <2>1, TBuyur
<1>4. \A c \in TSuren \ {a} : tIstek'[c] \in TKayit /\ tIstek'[c] \notin {Bos, Bitti}
  <2> SUFFICES ASSUME NEW c \in TSuren \ {a} PROVE tIstek'[c] \in TKayit
    BY TAyri
  <2> QED BY <1>2, <1>3 DEF SAyni, TKayit
<1>5. \A c \in TIstek : tIstek'[c] = IF c = a THEN k ELSE IF c \in TSuren THEN [tIstek[c] EXCEPT !.bayat = @ \cup S] ELSE tIstek[c]
  BY <1>1
<1>6. \A c \in TIstek : tIstek'[c] \in TKayit \cup {Bos, Bitti}
  BY <1>1, <1>4, <1>5
<1>7. tIstek' \in [TIstek -> TKayit \cup {Bos, Bitti}]
  BY <1>1, <1>6
<1>8. TSuren' = (TSuren \ {a}) \cup {c \in {a} : k \notin {Bos, Bitti}}
  BY <1>4, <1>5 DEF TSuren
<1> QED BY <1>3, <1>5, <1>7, <1>8

\* Rows other than S stay, ids keep their names, and what Meta has got besides
\* was asked for by S.
SGecis(f, g, S) ==
  /\ \A n \in TAd : tSatir[n] # Yok /\ tSatir[n].no \notin S => tSatir'[n] = tSatir[n]
  /\ \A q \in TKimlikler : tAcan[q] # Yok => tAcan'[q] = tAcan[q] /\ g[q] = f[q]
  /\ \A m \in TAd : tMeta'[m] # Yok =>
       \/ tMeta[m] # Yok /\ tMeta'[m].kimlik = tMeta[m].kimlik /\ tMeta'[m].metin = tMeta[m].metin
       \/ tAcan'[tMeta'[m].kimlik] \in S
  /\ tSasan \subseteq tSasan' /\ tYarim \subseteq tYarim'

\* A submission that owes a row something leaves it written, noted or without a row.
SAyrilir(a, S) == \A no \in TNolar \ S : a \in TBorclu(no) => no \in tYarim' \/ TAdi(no) = {}

(* Who owes a row goes on owing it.                                        *)
LEMMA SBorcluKalir ==
  ASSUME STip, NEW a \in TIstek, NEW k \in TKayit \cup {Bos, Bitti}, NEW S \in SUBSET (0..TNo), TIlerlet(a, k, S),
         NEW no
  PROVE  TBorclu(no) \ {a} \subseteq TBorclu(no)'
<1> SUFFICES ASSUME NEW c \in TBorclu(no), c # a PROVE c \in TBorclu(no)'
  OBVIOUS
<1>1. /\ c \in TSuren /\ c \in TIstek /\ tIstek[c].adim \in {"kaydet", "geri"} /\ tIstek[c].is = "ozel"
      /\ tIstek[c].no = no /\ no \in tIstek[c].bayat
  BY DEF TBorclu, TSuren
<1>2. tIstek[c] \in TGonderim
  BY <1>1, TKimdir
<1>3. SAyni(tIstek[c], tIstek'[c], S) /\ c \in TSuren'
  BY <1>1, SIlerler
<1> QED BY <1>1, <1>2, <1>3 DEF SAyni, TBorclu

(* A row that is not written is the same, as far as a request can tell.    *)
LEMMA SSatirAyni ==
  ASSUME STip, NEW f, NEW g, NEW S, SGecis(f, g, S), NEW n \in TAd, tSatir[n] # Yok, tSatir[n].no \notin S
  PROVE  tSatir'[n] = tSatir[n]
BY DEF SGecis

LEMMA SMetaKimlikli ==
  ASSUME STip, NEW m \in TAd, tMeta[m] # Yok
  PROVE  tMeta[m] \in TMetaSablonu /\ tMeta[m].kimlik \in TKimlikler
BY DEF STip, SVeri, TMetaSablonu

LEMMA SSatirli ==
  ASSUME STip, NEW n \in TAd, tSatir[n] # Yok
  PROVE  tSatir[n] \in SablonSatiri /\ tSatir[n].no \in TNolar /\ tSatir[n].kimlik \in TKimlikler \cup {Yok}
BY DEF STip, SVeri, SablonSatiri

LEMMA TYokDegil ==
  /\ \A x \in Int : x # Yok
  /\ (\A x \in TNolar : x # Yok) /\ (\A x \in TKimlikler : x # Yok) /\ (\A x \in TDurum : x # Yok)
  /\ \A x \in TDurum \cup SablonSatiri \cup TMetaSablonu : x # Yok
  /\ TNolar \subseteq Nat \ {0} /\ TKimlikler \subseteq Nat \ {0}
BY SablonVarsayimi DEF TNolar, TKimlikler

(* What another request knows stays true, or it is overtaken.              *)
LEMMA SDuzeltKalir ==
  ASSUME STip, NEW f, NEW g, NEW S, SGecis(f, g, S),
         NEW r \in TDuzelt, NEW q, SAyni(r, q, S), SDuzelt(r)
  PROVE  SDuzelt(q)'
<1>1. q.no = r.no /\ q.bayat = r.bayat \cup S
  BY DEF SAyni
<1> SUFFICES ASSUME q.no \notin q.bayat
             PROVE  \E n \in TAd : tSatir'[n] # Yok /\ tSatir'[n].no = q.no /\ tSatir'[n].ozel /\ tSatir'[n].durum = "TASLAK"
  BY DEF SDuzelt
<1>2. PICK n \in TAd : tSatir[n] # Yok /\ tSatir[n].no = r.no /\ tSatir[n].ozel /\ tSatir[n].durum = "TASLAK"
  BY <1>1 DEF SDuzelt
<1>3. tSatir'[n] = tSatir[n]
  BY <1>1, <1>2, SSatirAyni
<1> QED BY <1>1, <1>2, <1>3

LEMMA SAcmamisKalir ==
  ASSUME STip, NEW f, NEW g, NEW S, SGecis(f, g, S), SMeta(f), NEW no, no \notin S, TAcmamis(no)
  PROVE  TAcmamis(no)'
<1> SUFFICES ASSUME NEW m \in TAd, tMeta'[m] # Yok PROVE tAcan'[tMeta'[m].kimlik] # no
  BY DEF TAcmamis
<1>1. CASE tMeta[m] # Yok /\ tMeta'[m].kimlik = tMeta[m].kimlik
  <2>1. tMeta[m].kimlik \in TKimlikler /\ tAcan[tMeta[m].kimlik] # Yok
    BY <1>1, SMetaKimlikli DEF SMeta, TAdli
  <2> QED BY <1>1, <2>1 DEF SGecis, TAcmamis
<1>2. CASE tAcan'[tMeta'[m].kimlik] \in S
  BY <1>2
<1> QED BY <1>1, <1>2 DEF SGecis

LEMMA SOkunanKalir ==
  ASSUME STip, NEW f, NEW g, NEW S, SGecis(f, g, S), SMeta(f),
         NEW r \in TGonderim, NEW q, SAyni(r, q, S), SOkunan(r),
         r.no \notin S /\ TAdi(r.no) # {} /\ TBorclu(r.no) # {} => TBorclu(r.no)' # {} \/ r.no \in tYarim'
  PROVE  SOkunan(q)'
<1>1. /\ q.no = r.no /\ q.bayat = r.bayat \cup S /\ q.adim = r.adim /\ q.is = r.is /\ q.ad = r.ad /\ q.metin = r.metin
      /\ q.onceki = r.onceki /\ q.kimlik = r.kimlik
  BY DEF SAyni
<1>2. CASE q.no = Yok \/ q.no \in q.bayat
  BY <1>2 DEF SOkunan
<1>3. CASE ~(q.no = Yok \/ q.no \in q.bayat)
  <2>1. r.no # Yok /\ r.no \notin r.bayat /\ r.no \notin S
    BY <1>1, <1>3
  <2>2. tSatir[r.ad] # Yok /\ tSatir[r.ad].no = r.no /\ r.ad \in TAd
    BY <2>1 DEF SOkunan, TGonderim
  <2>3. tSatir'[r.ad] = tSatir[r.ad]
    BY <2>1, <2>2, SSatirAyni
  <2>4. TAdi(r.no) # {}
    BY <2>2 DEF TAdi
  <2>5. r.no \in TBelirsiz \/ TBorclu(r.no) # {} \/ TAcmamis(r.no) =>
          (r.no \in TBelirsiz \/ TBorclu(r.no) # {} \/ TAcmamis(r.no))'
    <3>1. TBelirsiz \subseteq TBelirsiz' /\ tYarim' \subseteq TBelirsiz'
      BY DEF TBelirsiz, SGecis
    <3>2. TAcmamis(r.no) => TAcmamis(r.no)'
      BY <2>1, SAcmamisKalir
    <3> QED BY <2>1, <2>4, <3>1, <3>2
  <2>6. tSasan \subseteq tSasan'
    BY DEF SGecis
  <2>7. /\ tSatir[r.ad] # Yok /\ tSatir[r.ad].no = r.no
        /\ r.is = "ozel" \/ r.adim # "kaydet" => tSatir[r.ad].durum = IF r.adim = "isaretle" THEN r.onceki ELSE "GONDERILIYOR"
        /\ r.is = "ozel" => tSatir[r.ad].ozel /\ tSatir[r.ad].metin = r.metin
        /\ r.adim # "kaydet" =>
             /\ r.no \in tSasan \/ tSatir[r.ad].kimlik = r.kimlik
             /\ r.onceki = "TASLAK" => r.no \in tSasan \/ tSatir[r.ad].kimlik = Yok
             /\ r.onceki = "TASLAK" /\ tSatir[r.ad].ozel => r.no \in TBelirsiz \/ TBorclu(r.no) # {} \/ TAcmamis(r.no)
    BY <2>1 DEF SOkunan
  <2> QED BY <1>1, <2>3, <2>5, <2>6, <2>7 DEF SOkunan
<1> QED BY <1>2, <1>3

LEMMA SListeKalir ==
  ASSUME STip, NEW f, NEW g, NEW S, SGecis(f, g, S), SMeta(f),
         \A n \in TAd : tSatir[n] = Yok /\ tSatir'[n] # Yok => S # {},
         NEW r \in TEsleme, NEW q, SAyni(r, q, S), SListe(f, r)
  PROVE  SListe(g, q)'
<1>1. q.liste = r.liste /\ q.tam = r.tam /\ q.bayat = r.bayat \cup S /\ q.adim = r.adim
  BY DEF SAyni
<1>2. DOMAIN r.liste \subseteq TAd /\ \A x \in DOMAIN r.liste : r.liste[x].kimlik \in TKimlikler
  BY DEF TEsleme, TListe
<1>3. \A x \in DOMAIN q.liste : TAdli(g, q.liste[x].kimlik, x)'
  BY <1>1, <1>2 DEF SListe, TAdli, SGecis
<1>4. ASSUME q.tam, NEW m \in TAd \ DOMAIN q.liste, tMeta'[m] # Yok PROVE tAcan'[tMeta'[m].kimlik] \in q.bayat
  <2>1. CASE tMeta[m] # Yok /\ tMeta'[m].kimlik = tMeta[m].kimlik
    <3>1. tMeta[m].kimlik \in TKimlikler /\ tAcan[tMeta[m].kimlik] # Yok
      BY <2>1, SMetaKimlikli DEF SMeta, TAdli
    <3>2. tAcan[tMeta[m].kimlik] \in r.bayat
      BY <1>1, <1>4, <2>1 DEF SListe
    <3> QED BY <1>1, <2>1, <3>1, <3>2 DEF SGecis
  <2>2. CASE tAcan'[tMeta'[m].kimlik] \in S
    BY <1>1, <2>2
  <2> QED BY <1>4, <2>1, <2>2 DEF SGecis
<1>5. ASSUME q.adim = "hayalet", q.bayat = {}, NEW n \in DOMAIN q.liste, tSatir'[n] # Yok
      PROVE  tSatir'[n].durum # "GONDERILIYOR"
  <2>1. S = {} /\ r.bayat = {} /\ r.adim = "hayalet" /\ n \in DOMAIN r.liste /\ n \in TAd
    BY <1>1, <1>2, <1>5
  <2>2. tSatir[n] # Yok /\ tSatir'[n] = tSatir[n]
    BY <1>5, <2>1, SSatirAyni
  <2> QED BY <2>1, <2>2 DEF SListe
<1>6. q.adim = "hayalet" => q.tam
  BY <1>1 DEF SListe
<1> QED BY <1>3, <1>4, <1>5, <1>6 DEF SListe

LEMMA SDigerleri ==
  ASSUME STip, NEW f, NEW g, SAdli(f), NEW a \in TIstek, NEW k \in TKayit \cup {Bos, Bitti},
         NEW S \in SUBSET (0..TNo), TIlerlet(a, k, S), SGecis(f, g, S), SAyrilir(a, S),
         \A n \in TAd : tSatir[n] = Yok /\ tSatir'[n] # Yok => S # {},
         NEW c \in TSuren \ {a}
  PROVE  SBilgi(g, tIstek[c])'
<1>1. SAyni(tIstek[c], tIstek'[c], S) /\ tIstek[c] \in TKayit
  BY SIlerler, TKimdir DEF TSuren
<1>2. PICK r : r = tIstek[c]
  OBVIOUS
<1>3. PICK q : q = tIstek'[c]
  OBVIOUS
<1>4. SBilgi(f, r) /\ SAyni(r, q, S) /\ SMeta(f)
  BY <1>1, <1>2, <1>3 DEF SAdli
<1>5. q \in TDuzelt => SDuzelt(q)'
  BY <1>4, SDuzeltKalir DEF SBilgi, SAyni
<1>6. ASSUME q \in TGonderim PROVE SGonderim(g, q)'
  <2>1. r \in TGonderim /\ SGonderim(f, r)
    BY <1>4, <1>6 DEF SAyni, SBilgi
  <2>2. q.no = r.no /\ q.adim = r.adim /\ q.is = r.is /\ q.ad = r.ad /\ q.onceki = r.onceki /\ q.kimlik = r.kimlik
    BY <1>4, <2>1 DEF SAyni
  <2>3. r.no \notin S /\ TAdi(r.no) # {} /\ TBorclu(r.no) # {} => TBorclu(r.no)' # {} \/ r.no \in tYarim'
    <3>1. TBorclu(r.no) \ {a} \subseteq TBorclu(r.no)'
      BY SBorcluKalir
    <3>2. TAdi(r.no) # {} => r.no \in TNolar
      BY SSatirli DEF TAdi
    <3> QED BY <3>1, <3>2 DEF SAyrilir
  <2>4. SOkunan(q)'
    BY <1>4, <2>1, <2>3, SOkunanKalir DEF SGonderim
  <2>5. r.kimlik # Yok => r.kimlik \in TKimlikler
    BY <2>1 DEF TGonderim
  <2>6. q.kimlik # Yok => tAcan'[q.kimlik] # Yok /\ g[q.kimlik] = f[r.kimlik]
    BY <2>1, <2>2, <2>5 DEF SGonderim, SGecis
  <2>7. tSasan \subseteq tSasan'
    BY DEF SGecis
  <2> QED BY <2>1, <2>2, <2>4, <2>6, <2>7 DEF SGonderim
<1>7. q \in TEsleme => SListe(g, q)'
  BY <1>4, SListeKalir DEF SBilgi, SAyni
<1> QED BY <1>3, <1>5, <1>6, <1>7 DEF SBilgi

(* A row that is not written keeps what is said of it.                     *)
LEMMA SSatirKalir ==
  ASSUME STip, NEW f, NEW g, SAdli(f), NEW a \in TIstek, NEW k \in TKayit \cup {Bos, Bitti},
         NEW S \in SUBSET (0..TNo), TIlerlet(a, k, S), SGecis(f, g, S),
         NEW n \in TAd, tSatir'[n] = tSatir[n],
         tSatir[n] # Yok /\ tSatir[n].no \notin tSasan' =>
           /\ tSatir[n].no \in tAsili /\ tSatir[n].durum = "GONDERILIYOR" => tSatir[n].no \in tAsili'
           /\ a \in TGonderen(tSatir[n].no) =>
                \/ tSatir[n].no \in tAsili'
                \/ k \in TGonderim /\ k.adim \in {"olustur", "kaydet", "geri"} /\ k.no = tIstek[a].no /\ k.is = tIstek[a].is
           /\ a \in TBorclu(tSatir[n].no) => tSatir[n].no \in tYarim'
           /\ \A m \in TAd : tMeta'[m] # Yok /\ tAcan'[tMeta'[m].kimlik] = tSatir[n].no =>
                tMeta[m] # Yok /\ tMeta'[m].kimlik = tMeta[m].kimlik /\ tMeta'[m].metin = tMeta[m].metin
  PROVE  SSatir(g, n)'
<1> SUFFICES ASSUME tSatir[n] # Yok PROVE SSatir(g, n)'
  BY DEF SSatir
<1>1. PICK s : s = tSatir[n] /\ s = tSatir'[n]
  OBVIOUS
<1>2. s.no \in TNolar /\ s.kimlik \in TKimlikler \cup {Yok}
  BY <1>1, SSatirli
<1>3. s.kimlik # Yok => tAcan[s.kimlik] # Yok /\ tAcan'[s.kimlik] # Yok /\ g[s.kimlik] = f[s.kimlik]
  BY <1>1, <1>2 DEF SAdli, SSatir, SGecis
<1>4. ASSUME s.no \notin tSasan' PROVE STemiz(g, s, n)'
  <2>1. STemiz(f, s, n)
    BY <1>1, <1>4 DEF SAdli, SSatir, SGecis
  <2>2. /\ s.no \in tAsili /\ s.durum = "GONDERILIYOR" => s.no \in tAsili'
        /\ a \in TGonderen(s.no) =>
             \/ s.no \in tAsili'
             \/ k \in TGonderim /\ k.adim \in {"olustur", "kaydet", "geri"} /\ k.no = tIstek[a].no /\ k.is = tIstek[a].is
        /\ a \in TBorclu(s.no) => s.no \in tYarim'
        /\ \A m \in TAd : tMeta'[m] # Yok /\ tAcan'[tMeta'[m].kimlik] = s.no =>
             tMeta[m] # Yok /\ tMeta'[m].kimlik = tMeta[m].kimlik /\ tMeta'[m].metin = tMeta[m].metin
    BY <1>1, <1>4
  <2>3. s.durum = "GONDERILIYOR" => SBekler(s, n)'
    <3> SUFFICES ASSUME s.durum = "GONDERILIYOR", s.no \notin tAsili'
                 PROVE  (s.ozel \/ n = THazirAd) /\ \E c \in TGonderen(s.no)' : tIstek'[c].is = "hazir" => n = THazirAd
      BY <2>1 DEF STemiz, SBekler
    <3>1. PICK c \in TGonderen(s.no) : tIstek[c].is = "hazir" => n = THazirAd
      BY <2>1, <2>2 DEF STemiz, SBekler
    <3>2. c \in TSuren /\ c \in TIstek /\ tIstek[c].adim \in {"olustur", "kaydet", "geri"} /\ tIstek[c].no = s.no
      BY DEF TGonderen, TSuren
    <3>3. c \in TGonderen(s.no)' /\ tIstek'[c].is = tIstek[c].is
      <4>1. CASE c = a
        <5>1. k \in TGonderim /\ k.adim \in {"olustur", "kaydet", "geri"} /\ k.no = s.no /\ k.is = tIstek[a].is
          BY <2>2, <3>1, <3>2, <4>1
        <5>2. tIstek'[a] = k /\ a \in TSuren'
          <6>1. k \in TKayit
            BY <5>1 DEF TKayit
          <6>2. k \notin {Bos, Bitti}
            BY <6>1, TAyri
          <6> QED BY <6>2, SIlerler
        <5> QED BY <4>1, <5>1, <5>2 DEF TGonderen
      <4>2. CASE c # a
        <5>1. tIstek[c] \in TGonderim
          BY <3>2, TKimdir
        <5>2. SAyni(tIstek[c], tIstek'[c], S) /\ c \in TSuren'
          BY <3>2, <4>2, SIlerler
        <5> QED BY <3>2, <5>1, <5>2 DEF SAyni, TGonderen
      <4> QED BY <4>1, <4>2
    <3> QED BY <2>1, <3>1, <3>3 DEF STemiz, SBekler
  <2>4. ASSUME s.ozel, s.no \notin tYarim', TBorclu(s.no)' = {} PROVE SIstenen(s, n)'
    <3>1. TBorclu(s.no) \ {a} \subseteq TBorclu(s.no)'
      BY SBorcluKalir
    <3>2. TBorclu(s.no) = {} /\ s.no \notin tYarim
      BY <2>2, <2>4, <3>1 DEF SGecis
    <3>3. SIstenen(s, n)
      BY <2>1, <2>4, <3>2 DEF STemiz
    <3> SUFFICES ASSUME NEW m \in TAd, tMeta'[m] # Yok, tAcan'[tMeta'[m].kimlik] = s.no
                 PROVE  s.durum # "TASLAK" /\ n = m /\ s.metin = tMeta'[m].metin
      BY DEF SIstenen
    <3>4. tMeta[m] # Yok /\ tMeta'[m].kimlik = tMeta[m].kimlik /\ tMeta'[m].metin = tMeta[m].metin
      BY <2>2
    <3>5. tMeta[m].kimlik \in TKimlikler /\ tAcan[tMeta[m].kimlik] # Yok
      BY <3>4, SMetaKimlikli DEF SAdli, SMeta, TAdli
    <3>6. tAcan[tMeta[m].kimlik] = s.no
      BY <3>4, <3>5 DEF SGecis
    <3> QED BY <3>3, <3>4, <3>6 DEF SIstenen
  <2>5. s.kimlik # Yok => g[s.kimlik] = n
    BY <1>3, <2>1 DEF STemiz
  <2>6. s.durum = "TASLAK" => s.kimlik = Yok
    BY <2>1 DEF STemiz
  <2> QED BY <2>3, <2>4, <2>5, <2>6 DEF STemiz
<1> QED BY <1>1, <1>3, <1>4 DEF SSatir

LEMMA SYazacakKalir ==
  ASSUME NEW K, NEW no, NEW S, NEW r, NEW q, SAyni(r, q, S), SYazacak(K, no, r)
  PROVE  SYazacak(K, no, q)
<1>1. CASE no \in r.bayat
  BY <1>1 DEF SAyni, SYazacak
<1>2. CASE no \notin r.bayat
  <2>1. q \in TDuzelt => q.no # no
    BY <1>2 DEF SAyni, SYazacak
  <2>2. q \in TGonderim => IF q.is = "ozel" THEN q.no # no
                           ELSE IF q.adim = "kaydet" THEN q.kimlik = K ELSE q.no = no => q.kimlik = K
    BY <1>2 DEF SAyni, SYazacak
  <2>3. q \in TEsleme => IF THazirAd \in DOMAIN q.liste THEN q.liste[THazirAd].kimlik = K ELSE ~q.tam
    BY <1>2 DEF SAyni, SYazacak
  <2> QED BY <2>1, <2>2, <2>3 DEF SYazacak
<1> QED BY <1>1, <1>2

(* The template of the catalogue stays on its row.                         *)
LEMMA SHazirKalir ==
  ASSUME STip, SHazir, NEW a \in TIstek, NEW k \in TKayit \cup {Bos, Bitti},
         NEW S \in SUBSET (0..TNo), TIlerlet(a, k, S), TBelirsiz \subseteq TBelirsiz',
         TBelirsiz' = {} =>
           /\ tMeta'[THazirAd] # Yok /\ tAcan'[tMeta'[THazirAd].kimlik] = 0 =>
                /\ tMeta[THazirAd] # Yok /\ tMeta'[THazirAd].kimlik = tMeta[THazirAd].kimlik
                /\ tAcan[tMeta[THazirAd].kimlik] = 0
           /\ tIstek[a].adim = "kaydet" => tIstek[a].is # "hazir"
           /\ \A K \in TKimlikler :
                SYerinde(K) /\ tMeta[THazirAd] # Yok /\ tMeta[THazirAd].kimlik = K =>
                  /\ tSatir'[THazirAd] # Yok /\ tSatir'[THazirAd].no = tSatir[THazirAd].no
                  /\ tSatir'[THazirAd].kimlik = K /\ ~tSatir'[THazirAd].ozel
                  /\ k \in TKayit => SYazacak(K, tSatir[THazirAd].no, k)
  PROVE  SHazir'
<1> SUFFICES ASSUME TBelirsiz' = {}, tMeta'[THazirAd] # Yok, tAcan'[tMeta'[THazirAd].kimlik] = 0
             PROVE  SGelir(tMeta[THazirAd].kimlik)' \/ SYerinde(tMeta[THazirAd].kimlik)'
  BY DEF SHazir
<1>1. /\ tMeta[THazirAd] # Yok /\ tMeta'[THazirAd].kimlik = tMeta[THazirAd].kimlik
      /\ tAcan[tMeta[THazirAd].kimlik] = 0 /\ TBelirsiz = {}
  OBVIOUS
<1>2. PICK K \in TKimlikler : K = tMeta[THazirAd].kimlik
  BY <1>1, SMetaKimlikli, SablonVarsayimi
<1>3. SGelir(K) \/ SYerinde(K)
  BY <1>1, <1>2 DEF SHazir
<1>4. CASE SGelir(K)
  <2>1. PICK b \in TSuren : /\ tIstek[b] \in TGonderim /\ tIstek[b].adim = "kaydet" /\ tIstek[b].is = "hazir"
                            /\ tIstek[b].kimlik = K
    BY <1>4 DEF SGelir
  <2>2. b # a
    BY <2>1
  <2>3. b \in TSuren' /\ SAyni(tIstek[b], tIstek'[b], S)
    BY <2>1, <2>2, SIlerler DEF TSuren
  <2>4. SGelir(K)'
    BY <2>1, <2>3 DEF SGelir, SAyni
  <2> QED BY <1>1, <1>2, <2>4
<1>5. CASE SYerinde(K)
  <2>1. /\ tSatir'[THazirAd] # Yok /\ tSatir'[THazirAd].no = tSatir[THazirAd].no
        /\ tSatir'[THazirAd].kimlik = K /\ ~tSatir'[THazirAd].ozel
        /\ k \in TKayit => SYazacak(K, tSatir[THazirAd].no, k)
    BY <1>1, <1>2, <1>5
  <2>2. PICK no : no = tSatir[THazirAd].no /\ no = tSatir'[THazirAd].no
    BY <2>1
  <2>3. \A c \in TSuren' : SYazacak(K, no, tIstek'[c])
    <3> SUFFICES ASSUME NEW c \in TSuren' PROVE SYazacak(K, no, tIstek'[c])
      OBVIOUS
    <3>1. CASE c = a
      <4>1. tIstek'[a] = k /\ k \in TKayit
        BY <3>1, SIlerler DEF TSuren
      <4> QED BY <2>1, <2>2, <3>1, <4>1
    <3>2. CASE c # a
      <4>1. c \in TSuren /\ SAyni(tIstek[c], tIstek'[c], S)
        BY <3>2, SIlerler
      <4>2. SYazacak(K, no, tIstek[c])
        BY <1>5, <2>2, <4>1 DEF SYerinde
      <4> QED BY <4>1, <4>2, SYazacakKalir
    <3> QED BY <3>1, <3>2
  <2>4. SYerinde(K)'
    BY <2>1, <2>2, <2>3 DEF SYerinde
  <2> QED BY <1>1, <1>2, <2>4
<1> QED BY <1>3, <1>4, <1>5

(* Requests know ids that were handed out.                                 *)
LEMMA STekIstek ==
  ASSUME STip, STek, NEW a \in TIstek, NEW k \in TKayit \cup {Bos, Bitti},
         NEW S \in SUBSET (0..TNo), TIlerlet(a, k, S), tSonNo' \in Nat, tSonNo <= tSonNo',
         k \in TKayit \ TEsleme /\ k.no # Yok => k.no <= tSonNo'
  PROVE  \A c \in TSuren' : tIstek'[c] \notin TEsleme /\ tIstek'[c].no # Yok => tIstek'[c].no <= tSonNo'
<1> SUFFICES ASSUME NEW c \in TSuren', tIstek'[c] \notin TEsleme, tIstek'[c].no # Yok
             PROVE  tIstek'[c].no <= tSonNo'
  OBVIOUS
<1>1. CASE c = a
  <2>1. tIstek'[a] = k /\ k \in TKayit
    BY <1>1, SIlerler DEF TSuren
  <2> QED BY <1>1, <2>1
<1>2. CASE c # a
  <2>1. c \in TSuren /\ SAyni(tIstek[c], tIstek'[c], S) /\ tIstek[c] \in TKayit
    BY <1>2, SIlerler, TKimdir DEF TSuren
  <2>2. tIstek[c] \notin TEsleme /\ tIstek'[c].no = tIstek[c].no
    BY <2>1 DEF SAyni, TKayit
  <2>3. tIstek[c].no <= tSonNo /\ tIstek[c].no \in Nat
    <3>1. tIstek[c].no \in TNolar \cup {Yok}
      BY <2>1, <2>2 DEF TKayit, TDuzelt, TGonderim
    <3> QED BY <2>1, <2>2, <3>1, TYokDegil DEF STek, SNolar
  <2> QED BY <2>2, <2>3 DEF STip, SVeri
<1> QED BY <1>1, <1>2

(* A step that leaves the rows and Meta alone.                             *)
LEMMA SOkur ==
  ASSUME NEW f \in [TKimlikler -> TAd], SInvF(f), NEW a \in TIstek, NEW k \in TKayit \cup {Bos, Bitti},
         TIlerlet(a, k, {}), UNCHANGED <<tSatir, tMeta, tAcan, tSonNo, tSasan>>,
         tAsili \subseteq tAsili', tAsili' \subseteq TNolar, tYarim \subseteq tYarim', tYarim' \subseteq 0..TNo,
         k \in TKayit \ TEsleme /\ k.no # Yok => k.no <= tSonNo,
         \A n \in TAd : tSatir[n] # Yok /\ a \in TGonderen(tSatir[n].no) =>
           \/ tSatir[n].no \in tAsili'
           \/ k \in TGonderim /\ k.adim \in {"olustur", "kaydet", "geri"} /\ k.no = tIstek[a].no /\ k.is = tIstek[a].is,
         \A n \in TAd : tSatir[n] # Yok /\ a \in TBorclu(tSatir[n].no) => tSatir[n].no \in tYarim',
         k \in TKayit => SBilgi(f, k)',
         TBelirsiz' = {} =>
           /\ tIstek[a].adim = "kaydet" => tIstek[a].is # "hazir"
           /\ \A K \in TKimlikler :
                SYerinde(K) /\ tMeta[THazirAd] # Yok /\ tMeta[THazirAd].kimlik = K /\ k \in TKayit =>
                  SYazacak(K, tSatir[THazirAd].no, k)
  PROVE  SInvF(f)'
<1>1. STip /\ STek /\ SHazir /\ SAdli(f) /\ {} \in SUBSET (0..TNo)
  BY DEF SInvF
<1>2. tIstek' \in [TIstek -> TKayit \cup {Bos, Bitti}] /\ tIstek'[a] = k
  BY <1>1, SIlerler
<1>3. STip'
  BY <1>1, <1>2 DEF STip, SVeri
<1>4. STek'
  <2>1. tSonNo' \in Nat /\ tSonNo <= tSonNo'
    BY <1>1, SablonVarsayimi DEF STip, SVeri
  <2>2. \A c \in TSuren' : tIstek'[c] \notin TEsleme /\ tIstek'[c].no # Yok => tIstek'[c].no <= tSonNo'
    BY <1>1, <2>1, STekIstek
  <2> QED BY <1>1, <2>2 DEF STek, SNolar
<1>5. SGecis(f, f, {})
  BY DEF SGecis
<1>6. SAyrilir(a, {})
  BY <1>1, SablonVarsayimi DEF SAyrilir, TAdi
<1>7. SMeta(f)'
  BY <1>1 DEF SAdli, SMeta, TAdli
<1>8. ASSUME NEW n \in TAd PROVE SSatir(f, n)'
  <2>1. /\ tSatir[n].no \in tAsili /\ tSatir[n].durum = "GONDERILIYOR" => tSatir[n].no \in tAsili'
        /\ \A m \in TAd : tMeta'[m] # Yok /\ tAcan'[tMeta'[m].kimlik] = tSatir[n].no =>
             tMeta[m] # Yok /\ tMeta'[m].kimlik = tMeta[m].kimlik /\ tMeta'[m].metin = tMeta[m].metin
    OBVIOUS
  <2> QED BY <1>1, <1>5, <2>1, SSatirKalir
<1>9. ASSUME NEW c \in TSuren' PROVE SBilgi(f, tIstek[c])'
  <2>1. CASE c = a
    <3>1. k \in TKayit
      BY <1>2, <2>1 DEF TSuren
    <3> QED BY <1>2, <2>1, <3>1
  <2>2. CASE c # a
    <3>1. c \in TSuren \ {a}
      BY <1>1, <2>2, SIlerler
    <3> QED BY <1>1, <1>5, <1>6, <3>1, SDigerleri
  <2> QED BY <2>1, <2>2
<1>10. SHazir'
  <2>1. TBelirsiz \subseteq TBelirsiz'
    BY DEF TBelirsiz
  <2>2. ASSUME TBelirsiz' = {}
        PROVE  /\ tMeta'[THazirAd] # Yok /\ tAcan'[tMeta'[THazirAd].kimlik] = 0 =>
                    /\ tMeta[THazirAd] # Yok /\ tMeta'[THazirAd].kimlik = tMeta[THazirAd].kimlik
                    /\ tAcan[tMeta[THazirAd].kimlik] = 0
               /\ tIstek[a].adim = "kaydet" => tIstek[a].is # "hazir"
               /\ \A K \in TKimlikler :
                    SYerinde(K) /\ tMeta[THazirAd] # Yok /\ tMeta[THazirAd].kimlik = K =>
                      /\ tSatir'[THazirAd] # Yok /\ tSatir'[THazirAd].no = tSatir[THazirAd].no
                      /\ tSatir'[THazirAd].kimlik = K /\ ~tSatir'[THazirAd].ozel
                      /\ k \in TKayit => SYazacak(K, tSatir[THazirAd].no, k)
    BY <2>2 DEF SYerinde
  <2> QED BY <1>1, <2>1, <2>2, SHazirKalir
<1> QED BY <1>3, <1>4, <1>7, <1>8, <1>9, <1>10 DEF SInvF, SAdli

-----------------------------------------------------------------------------
(* The steps that only read.                                               *)

LEMMA TBosKimse ==
  ASSUME STip, NEW a \in TIstek, tIstek[a] \in {Bos, Bitti}
  PROVE  (\A no : a \notin TGonderen(no) /\ a \notin TBorclu(no)) /\ tIstek[a].adim # "kaydet"
BY DEF TGonderen, TBorclu, TSuren, Bos, Bitti

LEMMA TTaslakOkuKorur ==
  ASSUME NEW f \in [TKimlikler -> TAd], SInvF(f), NEW a \in TIstek, TTaslakOku(a)
  PROVE  SInvF(f)'
<1>1. PICK n \in TAd, is \in {"duzenle", "sil"} :
        TDegisir(n) /\ TIlerlet(a, [adim |-> is, no |-> tSatir[n].no, bayat |-> {}], {})
  BY DEF TTaslakOku
<1>2. PICK k : k = [adim |-> is, no |-> tSatir[n].no, bayat |-> {}]
  OBVIOUS
<1>3. /\ tSatir[n] # Yok /\ tSatir[n].ozel /\ tSatir[n].durum = "TASLAK" /\ tSatir[n].no \in TNolar
      /\ tSatir[n].no <= tSonNo /\ STip /\ STek
  BY <1>1, SSatirli DEF TDegisir, SInvF, STek, SNolar
<1>4. k \in TDuzelt /\ k \in TKayit /\ k \notin TGonderim /\ k \notin TEsleme /\ k.no = tSatir[n].no
  <2>1. k \in TDuzelt
    BY <1>2, <1>3 DEF TDuzelt
  <2> QED BY <1>2, <2>1, TAyri DEF TKayit
<1>5. SBilgi(f, k)'
  BY <1>1, <1>2, <1>3, <1>4 DEF SBilgi, SDuzelt, TTaslakOku
<1>6. \A K \in TKimlikler : SYerinde(K) => SYazacak(K, tSatir[THazirAd].no, k)
  <2> SUFFICES ASSUME NEW K \in TKimlikler, SYerinde(K) PROVE tSatir[n].no # tSatir[THazirAd].no
    BY <1>4 DEF SYazacak
  <2> QED BY <1>3, SablonVarsayimi DEF SYerinde, STek, SNolar
<1>7. tIstek[a] \in {Bos, Bitti}
  BY DEF TTaslakOku, TGelir, Ilk
<1>8. \A no : a \notin TGonderen(no) /\ a \notin TBorclu(no)
  BY <1>3, <1>7, TBosKimse
<1>9. tIstek[a].adim # "kaydet"
  BY <1>3, <1>7, TBosKimse
<1>10. TIlerlet(a, k, {}) /\ UNCHANGED <<tSatir, tMeta, tAcan, tSonNo, tSasan, tAsili, tYarim>>
  BY <1>1, <1>2 DEF TTaslakOku
<1>11. tAsili \subseteq TNolar /\ tYarim \subseteq 0..TNo
  BY <1>3 DEF STip, SVeri
<1> HIDE DEF SInvF
<1> QED BY <1>3, <1>4, <1>5, <1>6, <1>8, <1>9, <1>10, <1>11, SOkur

LEMMA TGonderOkuKorur ==
  ASSUME NEW f \in [TKimlikler -> TAd], SInvF(f), NEW a \in TIstek, TGonderOku(a)
  PROVE  SInvF(f)'
<1>1. PICK n \in TAd :
        /\ TDegisir(n)
        /\ TIlerlet(a, [adim |-> "isaretle", is |-> "ozel", no |-> tSatir[n].no, ad |-> n, metin |-> tSatir[n].metin,
                        onceki |-> "TASLAK", kimlik |-> Yok, durum |-> "BEKLIYOR", bayat |-> {}], {})
  BY DEF TGonderOku
<1>2. PICK k : k = [adim |-> "isaretle", is |-> "ozel", no |-> tSatir[n].no, ad |-> n, metin |-> tSatir[n].metin,
                    onceki |-> "TASLAK", kimlik |-> Yok, durum |-> "BEKLIYOR", bayat |-> {}]
  OBVIOUS
<1>3. /\ tSatir[n] # Yok /\ tSatir[n].ozel /\ tSatir[n].durum = "TASLAK" /\ tSatir[n].no \in TNolar
      /\ tSatir[n].no <= tSonNo /\ STip /\ STek /\ tSatir[n] \in SablonSatiri /\ SSatir(f, n)
  BY <1>1, SSatirli DEF TDegisir, SInvF, STek, SNolar, SAdli
<1>4. k \in TGonderim /\ k \in TKayit /\ k \notin TDuzelt /\ k \notin TEsleme
  <2>1. k \in TGonderim
    BY <1>2, <1>3 DEF TGonderim, SablonSatiri, TDurum, TMetaDurum
  <2> QED BY <1>2, <2>1, TAyri DEF TKayit
<1>5. TIlerlet(a, k, {}) /\ UNCHANGED <<tSatir, tMeta, tAcan, tSonNo, tSasan, tAsili, tYarim>>
  BY <1>1, <1>2 DEF TGonderOku
<1>6. tIstek[a] \in {Bos, Bitti}
  BY DEF TGonderOku, TGelir, Ilk
<1>7. \A no : a \notin TGonderen(no) /\ a \notin TBorclu(no)
  BY <1>3, <1>6, TBosKimse
<1>8. tIstek[a].adim # "kaydet"
  BY <1>3, <1>6, TBosKimse
<1>9. TBorclu(k.no) \subseteq TBorclu(k.no)'
  BY <1>3, <1>4, <1>5, <1>7, SBorcluKalir
<1>10. SOkunan(k)'
  <2>1. tSatir[n].no \in tSasan \/ tSatir[n].kimlik = Yok
    BY <1>3 DEF SSatir, STemiz
  <2>2. tSatir[n].no \in TBelirsiz \/ TBorclu(tSatir[n].no) # {} \/ TAcmamis(tSatir[n].no)
    BY <1>3 DEF SSatir, STemiz, SIstenen, TAcmamis, TBelirsiz
  <2>3. (k.no \in TBelirsiz \/ TBorclu(k.no) # {} \/ TAcmamis(k.no))'
    BY <1>2, <1>5, <1>9, <2>2 DEF TBelirsiz, TAcmamis
  <2> QED BY <1>2, <1>3, <1>5, <2>1, <2>3 DEF SOkunan
<1>11. SBilgi(f, k)'
  <2>1. k.no # Yok
    BY <1>2, <1>3, TYokDegil
  <2> QED BY <1>2, <1>4, <1>10, <2>1 DEF SBilgi, SGonderim
<1>12. \A K \in TKimlikler : SYerinde(K) => SYazacak(K, tSatir[THazirAd].no, k)
  <2> SUFFICES ASSUME NEW K \in TKimlikler, SYerinde(K) PROVE tSatir[n].no # tSatir[THazirAd].no
    BY <1>2, <1>4 DEF SYazacak
  <2> QED BY <1>3, SablonVarsayimi DEF SYerinde, STek, SNolar
<1>13. tAsili \subseteq TNolar /\ tYarim \subseteq 0..TNo /\ k.no <= tSonNo
  BY <1>2, <1>3 DEF STip, SVeri
<1> HIDE DEF SInvF
<1> QED BY <1>4, <1>5, <1>7, <1>8, <1>11, <1>12, <1>13, SOkur

LEMMA THazirOkuKorur ==
  ASSUME NEW f \in [TKimlikler -> TAd], SInvF(f), NEW a \in TIstek, THazirOku(a)
  PROVE  SInvF(f)'
<1>0. /\ STip /\ STek /\ SAdli(f) /\ tIstek[a] \in {Bos, Bitti} /\ THazirAd \in TAd
      /\ UNCHANGED <<tSatir, tMeta, tAcan, tSonNo, tSasan, tAsili, tYarim>>
  BY SablonVarsayimi DEF SInvF, THazirOku, TGelir, Ilk
<1>1. PICK satir : satir = tSatir[THazirAd]
  OBVIOUS
<1>2. PICK r : r = [adim |-> IF satir = Yok THEN "olustur" ELSE "isaretle", is |-> "hazir",
                    no |-> IF satir = Yok THEN Yok ELSE satir.no, ad |-> THazirAd, metin |-> HazirMetin,
                    onceki |-> IF satir = Yok THEN Yok ELSE satir.durum,
                    kimlik |-> IF satir = Yok THEN Yok ELSE satir.kimlik, durum |-> "BEKLIYOR", bayat |-> {}]
  OBVIOUS
<1>3. PICK k : /\ TIlerlet(a, k, {})
               /\ \/ k = r
                  \/ \E u \in TUzak(r.kimlik, THazirAd) : k = [r EXCEPT !.adim = "kaydet", !.kimlik = u.kimlik, !.durum = u.durum]
  BY <1>1, <1>2 DEF THazirOku
<1>4. satir # Yok => /\ satir \in SablonSatiri /\ satir.no \in TNolar /\ satir.kimlik \in TKimlikler \cup {Yok}
                     /\ satir.no <= tSonNo /\ satir.durum \in TDurum /\ satir.no # Yok /\ satir.durum # Yok
  <2>1. satir # Yok => /\ satir \in SablonSatiri /\ satir.no \in TNolar /\ satir.kimlik \in TKimlikler \cup {Yok}
                       /\ satir.no <= tSonNo /\ satir.durum \in TDurum
    BY <1>0, <1>1, SSatirli DEF STek, SNolar, SablonSatiri
  <2> QED BY <2>1, TYokDegil
<1>5. r \in TGonderim
  BY <1>0, <1>2, <1>4 DEF TGonderim, TMetaDurum, TDurum
<1>6. \A u \in TUzak(r.kimlik, THazirAd) : \E x \in TAd :
        /\ tMeta[x] # Yok /\ u = tMeta[x] /\ (tMeta[x].kimlik = r.kimlik \/ x = THazirAd)
        /\ tMeta[THazirAd] # Yok /\ tMeta[THazirAd].kimlik = r.kimlik => tMeta[x].kimlik = r.kimlik
  BY <1>0 DEF TUzak
<1>7. ASSUME k # r
      PROVE  \E x \in TAd : /\ k = [r EXCEPT !.adim = "kaydet", !.kimlik = tMeta[x].kimlik, !.durum = tMeta[x].durum]
                            /\ tMeta[x] # Yok /\ (tMeta[x].kimlik = r.kimlik \/ x = THazirAd)
                            /\ tMeta[THazirAd] # Yok /\ tMeta[THazirAd].kimlik = r.kimlik => tMeta[x].kimlik = r.kimlik
  <2>1. PICK u \in TUzak(r.kimlik, THazirAd) : k = [r EXCEPT !.adim = "kaydet", !.kimlik = u.kimlik, !.durum = u.durum]
    BY <1>3, <1>7
  <2>2. PICK x \in TAd : /\ tMeta[x] # Yok /\ u = tMeta[x] /\ (tMeta[x].kimlik = r.kimlik \/ x = THazirAd)
                         /\ tMeta[THazirAd] # Yok /\ tMeta[THazirAd].kimlik = r.kimlik => tMeta[x].kimlik = r.kimlik
    BY <1>6, <2>1
  <2>3. k = [r EXCEPT !.adim = "kaydet", !.kimlik = tMeta[x].kimlik, !.durum = tMeta[x].durum]
    BY <2>1, <2>2
  <2> QED BY <2>2, <2>3
<1>8. /\ k \in TGonderim /\ k.no = r.no /\ k.is = "hazir" /\ k.ad = THazirAd /\ k.onceki = r.onceki /\ k.bayat = {}
      /\ \/ k = r
         \/ /\ k.adim = "kaydet" /\ k.kimlik \in TKimlikler
            /\ \E x \in TAd : tMeta[x] # Yok /\ k.kimlik = tMeta[x].kimlik /\ (k.kimlik = r.kimlik \/ x = THazirAd)
            /\ tMeta[THazirAd] # Yok /\ tMeta[THazirAd].kimlik = r.kimlik => k.kimlik = r.kimlik
  <2>1. CASE k = r
    BY <1>2, <1>5, <2>1
  <2>2. CASE k # r
    <3>1. PICK x \in TAd : /\ k = [r EXCEPT !.adim = "kaydet", !.kimlik = tMeta[x].kimlik, !.durum = tMeta[x].durum]
                           /\ tMeta[x] # Yok /\ (tMeta[x].kimlik = r.kimlik \/ x = THazirAd)
                           /\ tMeta[THazirAd] # Yok /\ tMeta[THazirAd].kimlik = r.kimlik => tMeta[x].kimlik = r.kimlik
      BY <1>7, <2>2
    <3>2. tMeta[x].kimlik \in TKimlikler /\ tMeta[x].durum \in TMetaDurum
      BY <1>0, <3>1, SMetaKimlikli DEF TMetaSablonu
    <3>3. k \in TGonderim /\ k.adim = "kaydet" /\ k.kimlik = tMeta[x].kimlik
      BY <1>5, <3>1, <3>2 DEF TGonderim
    <3>4. k.no = r.no /\ k.is = r.is /\ k.ad = r.ad /\ k.onceki = r.onceki /\ k.bayat = r.bayat
      BY <1>5, <3>1 DEF TGonderim
    <3> QED BY <1>2, <3>1, <3>2, <3>3, <3>4
  <2> QED BY <2>1, <2>2
<1>9. k \in TKayit /\ k \notin TDuzelt /\ k \notin TEsleme
  BY <1>8, TAyri DEF TKayit
<1>10. (\A no : a \notin TGonderen(no) /\ a \notin TBorclu(no)) /\ tIstek[a].adim # "kaydet"
  BY <1>0, TBosKimse
<1>11. TBorclu(k.no) \subseteq TBorclu(k.no)'
  <2>1. PICK no : no = k.no
    OBVIOUS
  <2>2. TIlerlet(a, k, {}) /\ a \notin TBorclu(no) /\ {} \in SUBSET (0..TNo)
    BY <1>3, <1>10
  <2>3. TBorclu(no) \ {a} \subseteq TBorclu(no)'
    BY <1>0, <1>9, <2>2, SBorcluKalir
  <2> QED BY <2>1, <2>2, <2>3
<1>12. k.kimlik # Yok => k.kimlik \in TKimlikler /\ tAcan[k.kimlik] # Yok
  <2>1. CASE k = r
    <3>1. r.kimlik # Yok => satir # Yok /\ r.kimlik = satir.kimlik
      BY <1>2
    <3> QED BY <1>0, <1>1, <1>4, <2>1, <3>1 DEF SAdli, SSatir
  <2>2. CASE k # r
    BY <1>0, <1>8, <2>2 DEF SAdli, SMeta, TAdli
  <2> QED BY <2>1, <2>2
<1>13. k.no # Yok => satir # Yok /\ k.no = satir.no /\ k.onceki = satir.durum /\ r.adim = "isaretle" /\ r.kimlik = satir.kimlik
  BY <1>2, <1>8
<1>14. k.no = Yok => satir = Yok /\ k.onceki = Yok /\ r.adim = "olustur" /\ r.kimlik = Yok
  BY <1>2, <1>4, <1>8
<1>15. satir # Yok => SSatir(f, THazirAd) /\ tSatir[THazirAd] = satir
  BY <1>0, <1>1 DEF SAdli
<1>16. k.adim = "kaydet" => k.kimlik # Yok /\ (f[k.kimlik] = k.ad \/ k.no \in tSasan)
  <2>0. k.adim = "kaydet" => k.kimlik # Yok
    <3>1. r.adim # "kaydet"
      BY <1>2
    <3>2. k.adim = "kaydet" => k.kimlik \in TKimlikler
      BY <1>8, <3>1
    <3> QED BY <3>2, TYokDegil
  <2> SUFFICES ASSUME k.adim = "kaydet", k.no \notin tSasan PROVE f[k.kimlik] = THazirAd
    BY <1>8, <2>0
  <2>1. k # r
    BY <1>2
  <2>2. PICK x \in TAd : tMeta[x] # Yok /\ k.kimlik = tMeta[x].kimlik /\ (k.kimlik = r.kimlik \/ x = THazirAd)
    BY <1>8, <2>1
  <2>3. f[k.kimlik] = x
    BY <1>0, <2>2 DEF SAdli, SMeta, TAdli
  <2>4. CASE k.kimlik = r.kimlik /\ x # THazirAd
    <3>1. r.kimlik # Yok
      BY <1>8, <2>1, <2>4, TYokDegil
    <3>2. k.no # Yok /\ satir # Yok /\ k.no = satir.no /\ r.kimlik = satir.kimlik
      BY <1>13, <1>14, <3>1
    <3> QED BY <1>15, <2>4, <3>1, <3>2 DEF SSatir, STemiz
  <2> QED BY <2>2, <2>3, <2>4
<1>17. SOkunan(k)'
  <2> SUFFICES ASSUME k.no # Yok PROVE SOkunan(k)'
    BY DEF SOkunan
  <2>1. satir # Yok /\ k.no = satir.no /\ k.onceki = satir.durum /\ r.adim = "isaretle" /\ r.kimlik = satir.kimlik
    BY <1>13
  <2>2. k.adim # "kaydet" => k.adim = "isaretle" /\ k.kimlik = satir.kimlik
    BY <1>8, <2>1
  <2>3. k.onceki = "TASLAK" => k.no \in tSasan \/ satir.kimlik = Yok
    BY <1>15, <2>1 DEF SSatir, STemiz
  <2>4. k.onceki = "TASLAK" /\ satir.ozel => k.no \in TBelirsiz \/ TBorclu(k.no) # {} \/ TAcmamis(k.no)
    BY <1>15, <2>1 DEF SSatir, STemiz, SIstenen, TAcmamis, TBelirsiz
  <2>5. k.no \in TBelirsiz \/ TBorclu(k.no) # {} \/ TAcmamis(k.no) =>
          (k.no \in TBelirsiz \/ TBorclu(k.no) # {} \/ TAcmamis(k.no))'
    BY <1>0, <1>11 DEF TBelirsiz, TAcmamis
  <2> QED BY <1>0, <1>1, <1>8, <2>1, <2>2, <2>3, <2>4, <2>5 DEF SOkunan
<1>18. SBilgi(f, k)'
  <2>1. k.no = Yok <=> k.onceki = Yok
    BY <1>4, <1>13, <1>14
  <2>2. k.adim = "isaretle" => k.no # Yok
    BY <1>8, <1>14
  <2> QED BY <1>0, <1>8, <1>9, <1>12, <1>16, <1>17, <2>1, <2>2 DEF SBilgi, SGonderim
<1>19. ASSUME NEW K \in TKimlikler, SYerinde(K), tMeta[THazirAd] # Yok, tMeta[THazirAd].kimlik = K
       PROVE  SYazacak(K, tSatir[THazirAd].no, k)
  <2>1. satir # Yok /\ satir.kimlik = K /\ r.kimlik = K
    BY <1>1, <1>2, <1>19 DEF SYerinde
  <2>2. k.kimlik = K
    BY <1>8, <1>19, <2>1
  <2> QED BY <1>8, <1>9, <2>2 DEF SYazacak
<1>20. tAsili \subseteq TNolar /\ tYarim \subseteq 0..TNo /\ (k.no # Yok => k.no <= tSonNo)
  BY <1>0, <1>4, <1>13 DEF STip, SVeri
<1> HIDE DEF SInvF
<1> QED BY <1>0, <1>3, <1>9, <1>10, <1>18, <1>19, <1>20, SOkur

(* Requests that end without a write.                                      *)
LEMMA SBosKorur ==
  ASSUME NEW f \in [TKimlikler -> TAd], SInvF(f), NEW a \in TIstek, TIlerlet(a, Bitti, {}),
         UNCHANGED <<tSatir, tMeta, tAcan, tSonNo, tSasan>>,
         tAsili \subseteq tAsili', tAsili' \subseteq TNolar, tYarim \subseteq tYarim', tYarim' \subseteq 0..TNo,
         tIstek[a].adim \in {"olustur", "kaydet", "geri"} => TAdi(tIstek[a].no) = {} \/ tIstek[a].no \in tAsili',
         tIstek[a].adim \in {"kaydet", "geri"} =>
           \/ TAdi(tIstek[a].no) = {} /\ (tIstek[a].adim = "kaydet" => tIstek[a].is # "hazir")
           \/ TSahip(tIstek[a]) \in tYarim'
  PROVE  SInvF(f)'
<1>1. PICK k : k = Bitti
  OBVIOUS
<1>2. k \notin TKayit
  BY <1>1, TAyri
<1>3. ASSUME NEW n \in TAd, tSatir[n] # Yok, a \in TGonderen(tSatir[n].no) PROVE tSatir[n].no \in tAsili'
  <2>1. tIstek[a].adim \in {"olustur", "kaydet", "geri"} /\ tIstek[a].no = tSatir[n].no /\ n \in TAdi(tSatir[n].no)
    BY <1>3 DEF TGonderen, TAdi
  <2> QED BY <2>1
<1>4. ASSUME NEW n \in TAd, tSatir[n] # Yok, a \in TBorclu(tSatir[n].no) PROVE tSatir[n].no \in tYarim'
  <2>1. /\ tIstek[a].adim \in {"kaydet", "geri"} /\ tIstek[a].is = "ozel" /\ tIstek[a].no = tSatir[n].no
        /\ n \in TAdi(tSatir[n].no)
    BY <1>4 DEF TBorclu, TAdi
  <2> QED BY <2>1 DEF TSahip
<1>5. TBelirsiz' = {} => (tIstek[a].adim = "kaydet" => tIstek[a].is # "hazir")
  BY DEF TBelirsiz
<1> HIDE DEF SInvF
<1> QED BY <1>1, <1>2, <1>3, <1>4, <1>5, SOkur

LEMMA SDusKorur ==
  ASSUME NEW f \in [TKimlikler -> TAd], SInvF(f), NEW a \in TIstek, TDus(a), UNCHANGED <<tMeta, tSonNo, tAcan, tAsili, tYarim>>,
         tIstek[a].adim \in {"olustur", "kaydet", "geri"} => TAdi(tIstek[a].no) = {},
         tIstek[a].adim = "kaydet" => tIstek[a].is # "hazir"
  PROVE  SInvF(f)'
<1>1. TIlerlet(a, Bitti, {}) /\ UNCHANGED <<tSatir, tMeta, tAcan, tSonNo, tSasan, tAsili, tYarim>>
  BY DEF TDus
<1>2. tAsili \subseteq TNolar /\ tYarim \subseteq 0..TNo
  BY DEF SInvF, STip, SVeri
<1> HIDE DEF SInvF
<1> QED BY <1>1, <1>2, SBosKorur

LEMMA TKaybolKorur ==
  ASSUME NEW f \in [TKimlikler -> TAd], SInvF(f), NEW a \in TIstek, TKaybol(a)
  PROVE  SInvF(f)'
<1>0. STip /\ STek
  BY DEF SInvF
<1>1. PICK r : r = tIstek[a]
  OBVIOUS
<1>2. /\ TIlerlet(a, Bitti, {}) /\ UNCHANGED <<tSatir, tMeta, tSonNo, tAcan, tSasan>>
      /\ tAsili' = IF r.adim \in {"olustur", "kaydet", "geri"} THEN tAsili \cup ({r.no} \ {Yok}) ELSE tAsili
      /\ tYarim' = IF r.adim \in {"kaydet", "geri"} THEN tYarim \cup {TSahip(r)} ELSE tYarim
  BY <1>1 DEF TKaybol
<1>3. r.adim \in {"olustur", "kaydet", "geri"} => r \in TGonderim
  BY <1>0, <1>1, TKimdir
<1>4. r.adim \in {"olustur", "kaydet", "geri"} => r.no \in TNolar \cup {Yok} /\ r.is \in {"ozel", "hazir"}
  BY <1>3 DEF TGonderim
<1>5. r.adim \in {"olustur", "kaydet", "geri"} /\ r.is = "ozel" => r.no \in TNolar
  <2> SUFFICES ASSUME r.adim \in {"olustur", "kaydet", "geri"}, r.is = "ozel" PROVE r.no # Yok
    BY <1>4
  <2>1. a \in TSuren /\ r \in TGonderim
    BY <1>0, <1>1, TKimdir
  <2> QED BY <1>1, <2>1 DEF SInvF, SAdli, SBilgi, SGonderim
<1>6. tAsili \subseteq TNolar /\ tYarim \subseteq 0..TNo /\ TNolar \subseteq 0..TNo /\ 0 \in 0..TNo
  BY <1>0, SablonVarsayimi DEF STip, SVeri, TNolar
<1>7. tAsili \subseteq tAsili' /\ tAsili' \subseteq TNolar
  BY <1>2, <1>4, <1>6
<1>8. tYarim \subseteq tYarim' /\ tYarim' \subseteq 0..TNo
  BY <1>2, <1>4, <1>5, <1>6 DEF TSahip
<1>9. r.adim \in {"olustur", "kaydet", "geri"} => TAdi(r.no) = {} \/ r.no \in tAsili'
  <2>1. r.no = Yok => TAdi(r.no) = {}
    BY <1>0, SSatirli, TYokDegil DEF TAdi
  <2> QED BY <1>2, <2>1
<1>10. r.adim \in {"kaydet", "geri"} => TSahip(r) \in tYarim'
  BY <1>2
<1> HIDE DEF SInvF
<1> QED BY <1>1, <1>2, <1>7, <1>8, <1>9, <1>10, SBosKorur

LEMMA TEsleOkuKorur ==
  ASSUME NEW f \in [TKimlikler -> TAd], SInvF(f), NEW a \in TIstek, TEsleOku(a)
  PROVE  SInvF(f)'
<1>0. /\ STip /\ STek /\ SMeta(f) /\ tIstek[a] \in {Bos, Bitti}
      /\ UNCHANGED <<tSatir, tMeta, tAcan, tSonNo, tSasan, tAsili, tYarim>>
  BY DEF SInvF, SAdli, TEsleOku, TGelir, Ilk
<1>1. PICK S \in SUBSET {n \in TAd : tMeta[n] # Yok}, tam \in BOOLEAN :
        /\ tam => \A n \in TAd : tMeta[n] # Yok => n \in S
        /\ TIlerlet(a, [adim |-> "esle", liste |-> [n \in S |-> [kimlik |-> tMeta[n].kimlik, durum |-> tMeta[n].durum]],
                        tam |-> tam, bayat |-> {}], {})
  BY DEF TEsleOku
<1>2. PICK l : l = [n \in S |-> [kimlik |-> tMeta[n].kimlik, durum |-> tMeta[n].durum]]
  OBVIOUS
<1>3. PICK k : k = [adim |-> "esle", liste |-> l, tam |-> tam, bayat |-> {}]
  OBVIOUS
<1>4. /\ DOMAIN l = S /\ S \subseteq TAd
      /\ \A n \in S : l[n].kimlik = tMeta[n].kimlik /\ tMeta[n] # Yok /\ l[n] \in [kimlik : TKimlikler, durum : TMetaDurum]
  <2>1. \A n \in S : /\ l[n] = [kimlik |-> tMeta[n].kimlik, durum |-> tMeta[n].durum] /\ tMeta[n] # Yok /\ n \in TAd
    BY <1>2
  <2>2. \A n \in S : tMeta[n].kimlik \in TKimlikler /\ tMeta[n].durum \in TMetaDurum
    BY <1>0, <2>1, SMetaKimlikli DEF TMetaSablonu
  <2> QED BY <1>2, <2>1, <2>2
<1>5. l \in TListe
  <2>1. l \in [S -> [kimlik : TKimlikler, durum : TMetaDurum]]
    BY <1>2, <1>4
  <2> QED BY <1>4, <2>1 DEF TListe
<1>6. k \in TEsleme /\ k \in TKayit /\ k \notin TDuzelt /\ k \notin TGonderim
  <2>1. k \in TEsleme
    BY <1>3, <1>5 DEF TEsleme
  <2> QED BY <1>3, <2>1, TAyri DEF TKayit
<1>7. SBilgi(f, k)'
  <2>1. \A x \in DOMAIN k.liste : TAdli(f, k.liste[x].kimlik, x)
    BY <1>0, <1>3, <1>4 DEF SMeta
  <2>2. k.tam => \A m \in TAd \ DOMAIN k.liste : tMeta[m] = Yok
    BY <1>1, <1>3, <1>4
  <2>3. k.adim # "hayalet"
    BY <1>3
  <2>4. (\A x \in DOMAIN k.liste : TAdli(f, k.liste[x].kimlik, x))'
    BY <1>0, <2>1 DEF TAdli
  <2>5. SListe(f, k)'
    BY <1>0, <2>2, <2>3, <2>4 DEF SListe
  <2> QED BY <1>6, <2>5 DEF SBilgi
<1>8. ASSUME NEW K \in TKimlikler, tMeta[THazirAd] # Yok, tMeta[THazirAd].kimlik = K
      PROVE  SYazacak(K, tSatir[THazirAd].no, k)
  <2>1. IF THazirAd \in DOMAIN k.liste THEN k.liste[THazirAd].kimlik = K ELSE ~k.tam
    <3>1. k.liste = l /\ k.tam = tam
      BY <1>3
    <3>2. CASE THazirAd \in S
      BY <1>4, <1>8, <3>1, <3>2
    <3>3. CASE THazirAd \notin S
      BY <1>1, <1>4, <1>8, <3>1, <3>3, SablonVarsayimi
    <3> QED BY <3>2, <3>3
  <2> QED BY <1>6, <2>1 DEF SYazacak
<1>9. (\A no : a \notin TGonderen(no) /\ a \notin TBorclu(no)) /\ tIstek[a].adim # "kaydet"
  BY <1>0, TBosKimse
<1>10. TIlerlet(a, k, {}) /\ tAsili \subseteq TNolar /\ tYarim \subseteq 0..TNo
  BY <1>0, <1>1, <1>2, <1>3 DEF STip, SVeri
<1> HIDE DEF SInvF
<1> QED BY <1>0, <1>6, <1>7, <1>8, <1>9, <1>10, SOkur

(* Meta decides, or loses a template.                                      *)
LEMMA TMetaKararKorur ==
  ASSUME NEW f \in [TKimlikler -> TAd], SInvF(f), NEW n \in TAd, TMetaKarar(n)
  PROVE  SInvF(f)'
<1>0. STip /\ STek /\ SHazir /\ SAdli(f) /\ THazirAd \in TAd
  BY SablonVarsayimi DEF SInvF
<1>1. UNCHANGED <<tSatir, tIstek, tSonNo, tAcan, tAsili, tYarim, tSasan>>
  BY DEF TMetaKarar
<1>2. tMeta[n] \in TMetaSablonu
  BY <1>0, SMetaKimlikli DEF TMetaKarar
<1>3. /\ tMeta' \in [TAd -> TMetaSablonu \cup {Yok}]
      /\ \A m \in TAd : tMeta'[m] # Yok =>
           tMeta[m] # Yok /\ tMeta'[m].kimlik = tMeta[m].kimlik /\ tMeta'[m].metin = tMeta[m].metin
  <2>1. CASE \E d \in {"ONAYLANDI", "REDDEDILDI"} : tMeta' = [tMeta EXCEPT ![n].durum = d]
    <3>1. PICK d \in {"ONAYLANDI", "REDDEDILDI"} : tMeta' = [tMeta EXCEPT ![n] = [tMeta[n] EXCEPT !.durum = d]]
      BY <2>1
    <3>2. PICK u : u = [tMeta[n] EXCEPT !.durum = d]
      OBVIOUS
    <3>3. u \in TMetaSablonu /\ u.kimlik = tMeta[n].kimlik /\ u.metin = tMeta[n].metin
      BY <1>2, <3>2 DEF TMetaSablonu, TMetaDurum
    <3>4. tMeta' = [tMeta EXCEPT ![n] = u]
      BY <3>1, <3>2
    <3>5. tMeta[n] # Yok
      BY DEF TMetaKarar
    <3> QED BY <1>0, <3>3, <3>4, <3>5 DEF STip, SVeri
  <2>2. CASE tMeta' = [tMeta EXCEPT ![n] = Yok]
    BY <1>0, <2>2 DEF STip, SVeri
  <2> QED BY <2>1, <2>2 DEF TMetaKarar
<1>4. STip' /\ STek'
  BY <1>0, <1>1, <1>3 DEF STip, SVeri, STek, SNolar, TSuren
<1>5. TSuren' = TSuren /\ TBelirsiz' = TBelirsiz /\ \A no : TGonderen(no)' = TGonderen(no) /\ TBorclu(no)' = TBorclu(no)
  BY <1>1 DEF TSuren, TBelirsiz, TGonderen, TBorclu
<1>6. SMeta(f)'
  BY <1>0, <1>1, <1>3 DEF SAdli, SMeta, TAdli
<1>7. ASSUME NEW m \in TAd PROVE SSatir(f, m)'
  <2> SUFFICES ASSUME tSatir[m] # Yok PROVE SSatir(f, m)'
    BY <1>1 DEF SSatir
  <2>1. PICK s : s = tSatir[m] /\ s = tSatir'[m]
    BY <1>1
  <2>2. SSatir(f, m)
    BY <1>0 DEF SAdli
  <2>3. SIstenen(s, m) => SIstenen(s, m)'
    BY <1>1, <1>3 DEF SIstenen
  <2>4. SBekler(s, m) => SBekler(s, m)'
    BY <1>1, <1>5 DEF SBekler
  <2>5. STemiz(f, s, m) => STemiz(f, s, m)'
    BY <1>1, <1>5, <2>3, <2>4 DEF STemiz
  <2> QED BY <1>1, <2>1, <2>2, <2>5 DEF SSatir
<1>8. ASSUME NEW c \in TSuren PROVE SBilgi(f, tIstek[c])'
  <2>1. PICK r : r = tIstek[c] /\ r = tIstek'[c]
    BY <1>1
  <2>2. SBilgi(f, r)
    BY <1>0, <2>1 DEF SAdli
  <2>3. SDuzelt(r) => SDuzelt(r)'
    BY <1>1 DEF SDuzelt
  <2>4. TAcmamis(r.no) => TAcmamis(r.no)'
    BY <1>1, <1>3 DEF TAcmamis
  <2>5. SOkunan(r) => SOkunan(r)'
    BY <1>1, <1>5, <2>4 DEF SOkunan
  <2>6. SGonderim(f, r) => SGonderim(f, r)'
    BY <1>1, <2>5 DEF SGonderim
  <2>7. SListe(f, r) => SListe(f, r)'
    BY <1>1, <1>3 DEF SListe, TAdli
  <2> QED BY <2>1, <2>2, <2>3, <2>6, <2>7 DEF SBilgi
<1>9. SHazir'
  <2> SUFFICES ASSUME TBelirsiz' = {}, tMeta'[THazirAd] # Yok, tAcan'[tMeta'[THazirAd].kimlik] = 0
               PROVE  SGelir(tMeta[THazirAd].kimlik)' \/ SYerinde(tMeta[THazirAd].kimlik)'
    BY DEF SHazir
  <2>1. PICK K : K = tMeta[THazirAd].kimlik /\ K = tMeta'[THazirAd].kimlik
    BY <1>0, <1>3
  <2>2. SGelir(K) \/ SYerinde(K)
    BY <1>0, <1>1, <1>3, <1>5, <2>1 DEF SHazir
  <2>3. SGelir(K) => SGelir(K)'
    BY <1>1, <1>5 DEF SGelir
  <2>4. SYerinde(K) => SYerinde(K)'
    BY <1>1, <1>5 DEF SYerinde
  <2>5. SGelir(K)' \/ SYerinde(K)'
    BY <2>2, <2>3, <2>4
  <2> QED BY <2>1, <2>5
<1> QED BY <1>4, <1>5, <1>6, <1>7, <1>8, <1>9 DEF SInvF, SAdli


-----------------------------------------------------------------------------
(* The steps that write.                                                   *)

(* What a step has to show: the rows it writes, and what its request knows.*)
LEMMA SAdim ==
  ASSUME NEW f \in [TKimlikler -> TAd], NEW g \in [TKimlikler -> TAd], SInvF(f), NEW a \in TIstek,
         NEW k \in TKayit \cup {Bos, Bitti}, NEW S \in SUBSET (0..TNo), TIlerlet(a, k, S), SGecis(f, g, S), SAyrilir(a, S),
         SVeri', SNolar', tSonNo <= tSonNo',
         \A n \in TAd : tSatir[n] = Yok /\ tSatir'[n] # Yok => S # {},
         k \in TKayit \ TEsleme /\ k.no # Yok => k.no <= tSonNo',
         SMeta(g)', \A n \in TAd : SSatir(g, n)', k \in TKayit => SBilgi(g, k)', SHazir'
  PROVE  SInvF(g)'
<1>1. STip /\ STek /\ SHazir /\ SAdli(f)
  BY DEF SInvF
<1>2. tIstek' \in [TIstek -> TKayit \cup {Bos, Bitti}] /\ tIstek'[a] = k
  BY <1>1, SIlerler
<1>3. STip'
  BY <1>2 DEF STip
<1>4. STek'
  <2>1. tSonNo' \in Nat
    BY SablonVarsayimi DEF SVeri
  <2>2. \A c \in TSuren' : tIstek'[c] \notin TEsleme /\ tIstek'[c].no # Yok => tIstek'[c].no <= tSonNo'
    BY <1>1, <2>1, STekIstek
  <2> QED BY <2>2 DEF STek
<1>5. ASSUME NEW c \in TSuren' PROVE SBilgi(g, tIstek[c])'
  <2>1. CASE c = a
    <3>1. k \in TKayit
      BY <1>2, <2>1 DEF TSuren
    <3> QED BY <1>2, <2>1, <3>1
  <2>2. CASE c # a
    <3>1. c \in TSuren \ {a}
      BY <1>1, <2>2, SIlerler
    <3> QED BY <1>1, <3>1, SDigerleri
  <2> QED BY <2>1, <2>2
<1>6. SAdli(g)'
  BY <1>5 DEF SAdli
<1> QED BY <1>3, <1>4, <1>6 DEF SInvF

(* A request at a row writes it.                                           *)
LEMMA SSatirYazKorur ==
  ASSUME NEW f \in [TKimlikler -> TAd], SInvF(f), NEW a \in TSuren, tIstek[a] \in TGonderim,
         NEW k \in TKayit \cup {Bitti}, NEW n \in TAd, tSatir[n] # Yok, NEW no, no = tSatir[n].no, no = tIstek[a].no,
         NEW s \in SablonSatiri, s.no = no, s.ozel = tSatir[n].ozel, s.metin = tSatir[n].metin,
         tSatir' = [tSatir EXCEPT ![n] = s], TYaz(a, k, {no}), UNCHANGED <<tMeta, tSonNo, tAcan, tAsili, tYarim>>,
         s.kimlik # Yok => tAcan[s.kimlik] # Yok,
         no \notin tSasan /\ no \notin tIstek[a].bayat =>
           /\ s.kimlik # Yok => f[s.kimlik] = n
           /\ s.durum = "TASLAK" => s.kimlik = Yok
           /\ s.durum = "GONDERILIYOR" => SBekler(s, n)'
           /\ s.durum = "TASLAK" /\ s.ozel => no \in tYarim \/ TBorclu(no) # {} \/ TAcmamis(no),
         k \in TKayit => k \notin TEsleme /\ k.no = no /\ SBilgi(f, k)',
         tIstek[a].adim = "kaydet" => tIstek[a].is # "hazir",
         no \notin tIstek[a].bayat =>
           \A K \in TKimlikler : SYerinde(K) => (n = THazirAd => s.kimlik = K) /\ (k \in TKayit => SYazacak(K, tSatir[THazirAd].no, k)),
         k \in TKayit => \A K \in TKimlikler : SYerinde(K) /\ n # THazirAd => SYazacak(K, tSatir[THazirAd].no, k)
  PROVE  SInvF(f)'
<1>1. STip /\ STek /\ SHazir /\ SAdli(f) /\ a \in TIstek /\ THazirAd \in TAd
  BY SablonVarsayimi DEF SInvF, TSuren
<1>2. TIlerlet(a, k, {no}) /\ tSasan' = tSasan \cup (tIstek[a].bayat \cap {no})
  BY DEF TYaz
<1>3. no \in TNolar /\ no <= tSonNo /\ {no} \in SUBSET (0..TNo) /\ s # Yok
  <2>1. no \in TNolar /\ no <= tSonNo
    BY <1>1, SSatirli DEF STek, SNolar
  <2>2. TNolar \subseteq 0..TNo
    BY SablonVarsayimi DEF TNolar
  <2> QED BY <2>1, <2>2, TYokDegil
<1>4. \A m \in TAd : tSatir'[m] = IF m = n THEN s ELSE tSatir[m]
  BY <1>1 DEF STip, SVeri
<1>5. \A m \in TAd : m # n /\ tSatir[m] # Yok => tSatir[m].no # no
  BY <1>1 DEF STek, SNolar
<1>6. SVeri'
  <2>1. tSatir' \in [TAd -> SablonSatiri \cup {Yok}]
    BY <1>1 DEF STip, SVeri
  <2>2. tSasan' \subseteq 0..TNo
    BY <1>1, <1>2, <1>3 DEF STip, SVeri
  <2> QED BY <1>1, <2>1, <2>2 DEF STip, SVeri
<1>7. SNolar'
  BY <1>1, <1>3, <1>4, <1>5 DEF STek, SNolar
<1>8. SGecis(f, f, {no})
  BY <1>2, <1>4 DEF SGecis
<1>9. \A q : q # no => a \notin TGonderen(q) /\ a \notin TBorclu(q)
  BY DEF TGonderen, TBorclu
<1>10. SAyrilir(a, {no})
  BY <1>9 DEF SAyrilir
<1>11. SMeta(f)'
  BY <1>1 DEF SAdli, SMeta, TAdli
<1>12. ASSUME NEW m \in TAd PROVE SSatir(f, m)'
  <2>1. CASE m # n
    <3>1. tSatir'[m] = tSatir[m]
      BY <1>4, <2>1
    <3>2. tSatir[m] # Yok => a \notin TGonderen(tSatir[m].no) /\ a \notin TBorclu(tSatir[m].no)
      BY <1>5, <1>9, <2>1
    <3> QED BY <1>1, <1>2, <1>3, <1>8, <3>1, <3>2, SSatirKalir
  <2>2. CASE m = n
    <3>1. tSatir'[m] = s
      BY <1>4, <2>2
    <3>2. ASSUME no \notin tSasan' PROVE STemiz(f, s, n)'
      <4>1. no \notin tSasan /\ no \notin tIstek[a].bayat
        BY <1>2, <3>2
      <4>2. STemiz(f, tSatir[n], n)
        BY <1>1, <4>1 DEF SAdli, SSatir
      <4>3. ASSUME s.ozel, no \notin tYarim', TBorclu(no)' = {} PROVE SIstenen(s, n)'
        <5>1. TBorclu(no) = {}
          <6>1. TBorclu(no) \ {a} \subseteq TBorclu(no)'
            BY <1>1, <1>2, <1>3, SBorcluKalir
          <6>2. a \notin TBorclu(no)
            BY <4>1 DEF TBorclu
          <6> QED BY <4>3, <6>1, <6>2
        <5>2. SIstenen(tSatir[n], n)
          BY <4>2, <4>3, <5>1 DEF STemiz
        <5>3. s.durum = "TASLAK" => TAcmamis(no)
          BY <4>1, <4>3, <5>1
        <5> QED BY <5>2, <5>3 DEF SIstenen, TAcmamis
      <4> QED BY <1>3, <4>1, <4>3 DEF STemiz
    <3> QED BY <2>2, <3>1, <3>2 DEF SSatir
  <2> QED BY <2>1, <2>2
<1>13. SHazir'
  <2>1. TBelirsiz \subseteq TBelirsiz'
    BY <1>2 DEF TBelirsiz
  <2>2. ASSUME TBelirsiz' = {}, NEW K \in TKimlikler, SYerinde(K)
        PROVE  /\ tSatir'[THazirAd] # Yok /\ tSatir'[THazirAd].no = tSatir[THazirAd].no
               /\ tSatir'[THazirAd].kimlik = K /\ ~tSatir'[THazirAd].ozel
               /\ k \in TKayit => SYazacak(K, tSatir[THazirAd].no, k)
    <3>1. no \notin tIstek[a].bayat
      BY <1>2, <2>2 DEF TBelirsiz
    <3>2. (n = THazirAd => s.kimlik = K) /\ (k \in TKayit => SYazacak(K, tSatir[THazirAd].no, k))
      BY <2>2, <3>1
    <3>3. tSatir[THazirAd] # Yok /\ tSatir[THazirAd].kimlik = K /\ ~tSatir[THazirAd].ozel
      BY <2>2 DEF SYerinde
    <3> QED BY <1>1, <1>3, <1>4, <3>2, <3>3
  <2> QED BY <1>1, <1>2, <1>3, <2>1, <2>2, SHazirKalir
<1>14. tSonNo <= tSonNo' /\ \A m \in TAd : tSatir[m] = Yok => tSatir'[m] = Yok
  BY <1>1, <1>4, SablonVarsayimi DEF STip, SVeri
<1>15. k \in TKayit => k.no <= tSonNo'
  BY <1>3
<1> HIDE DEF SInvF
<1> QED BY <1>1, <1>2, <1>3, <1>6, <1>7, <1>8, <1>10, <1>11, <1>12, <1>13, <1>14, <1>15, SAdim

(* A request at a row deletes it.                                          *)
LEMMA SSatirSilKorur ==
  ASSUME NEW f \in [TKimlikler -> TAd], SInvF(f), NEW a \in TSuren, NEW no \in TNolar, no = tIstek[a].no,
         tSatir' = TDegistir(no, Yok), TYaz(a, Bitti, {no}), UNCHANGED <<tMeta, tSonNo, tAcan, tAsili, tYarim>>,
         tIstek[a].adim = "kaydet" => tIstek[a].is # "hazir",
         no \notin tIstek[a].bayat => \A K \in TKimlikler : SYerinde(K) => tSatir[THazirAd].no # no
  PROVE  SInvF(f)'
<1>1. STip /\ STek /\ SHazir /\ SAdli(f) /\ a \in TIstek /\ THazirAd \in TAd
  BY SablonVarsayimi DEF SInvF, TSuren
<1>2. PICK k : k = Bitti
  OBVIOUS
<1>3. TIlerlet(a, k, {no}) /\ tSasan' = tSasan \cup (tIstek[a].bayat \cap {no}) /\ k \notin TKayit
  BY <1>2, TAyri DEF TYaz
<1>4. {no} \in SUBSET (0..TNo)
  BY SablonVarsayimi DEF TNolar
<1>5. \A m \in TAd : tSatir'[m] = IF tSatir[m] # Yok /\ tSatir[m].no = no THEN Yok ELSE tSatir[m]
  BY DEF TDegistir, TAdi
<1>6. SVeri'
  <2>1. tSatir' \in [TAd -> SablonSatiri \cup {Yok}]
    <3>1. \A m \in TAd : tSatir'[m] \in SablonSatiri \cup {Yok}
      BY <1>1, <1>5 DEF STip, SVeri
    <3> QED BY <3>1 DEF TDegistir
  <2>2. tSasan' \subseteq 0..TNo
    BY <1>1, <1>3, <1>4 DEF STip, SVeri
  <2> QED BY <1>1, <2>1, <2>2 DEF STip, SVeri
<1>7. SNolar'
  BY <1>1, <1>5 DEF STek, SNolar
<1>8. SGecis(f, f, {no})
  BY <1>3, <1>5 DEF SGecis
<1>9. \A q : q # no => a \notin TGonderen(q) /\ a \notin TBorclu(q)
  BY DEF TGonderen, TBorclu
<1>10. SAyrilir(a, {no})
  BY <1>9 DEF SAyrilir
<1>11. SMeta(f)'
  BY <1>1 DEF SAdli, SMeta, TAdli
<1>12. ASSUME NEW m \in TAd PROVE SSatir(f, m)'
  <2>1. CASE tSatir'[m] # Yok
    <3>1. tSatir'[m] = tSatir[m] /\ tSatir[m].no # no
      BY <1>5, <2>1
    <3>2. a \notin TGonderen(tSatir[m].no) /\ a \notin TBorclu(tSatir[m].no)
      BY <1>9, <3>1
    <3> QED BY <1>1, <1>2, <1>3, <1>4, <1>8, <3>1, <3>2, SSatirKalir
  <2>2. CASE tSatir'[m] = Yok
    BY <2>2 DEF SSatir
  <2> QED BY <2>1, <2>2
<1>13. SHazir'
  <2>1. TBelirsiz \subseteq TBelirsiz'
    BY <1>3 DEF TBelirsiz
  <2>2. ASSUME TBelirsiz' = {}, NEW K \in TKimlikler, SYerinde(K)
        PROVE  /\ tSatir'[THazirAd] # Yok /\ tSatir'[THazirAd].no = tSatir[THazirAd].no
               /\ tSatir'[THazirAd].kimlik = K /\ ~tSatir'[THazirAd].ozel
    <3>1. no \notin tIstek[a].bayat
      BY <1>3, <2>2 DEF TBelirsiz
    <3>2. tSatir[THazirAd].no # no
      BY <2>2, <3>1
    <3>3. tSatir[THazirAd] # Yok /\ tSatir[THazirAd].kimlik = K /\ ~tSatir[THazirAd].ozel
      BY <2>2 DEF SYerinde
    <3> QED BY <1>1, <1>5, <3>2, <3>3
  <2> QED BY <1>1, <1>2, <1>3, <1>4, <2>1, <2>2, SHazirKalir
<1>14. tSonNo <= tSonNo' /\ \A m \in TAd : tSatir[m] = Yok => tSatir'[m] = Yok
  BY <1>1, <1>5, SablonVarsayimi DEF STip, SVeri
<1> HIDE DEF SInvF
<1> QED BY <1>1, <1>2, <1>3, <1>4, <1>6, <1>7, <1>8, <1>10, <1>11, <1>12, <1>13, <1>14, SAdim


(* The request at a row, and the row it writes.                            *)
LEMMA SGonderenSatir ==
  ASSUME NEW f, SInvF(f), NEW a \in TSuren, tIstek[a] \in TGonderim, NEW n \in TAdi(tIstek[a].no)
  PROVE  /\ n \in TAd /\ tSatir[n] # Yok /\ tSatir[n].no = tIstek[a].no /\ tSatir[n] \in SablonSatiri
         /\ tIstek[a].no \in TNolar /\ tIstek[a].no # Yok /\ SSatir(f, n) /\ SGonderim(f, tIstek[a])
         /\ tIstek[a].no \notin tIstek[a].bayat => n = tIstek[a].ad
<1>1. STip /\ STek /\ SAdli(f)
  BY DEF SInvF
<1>2. n \in TAd /\ tSatir[n] # Yok /\ tSatir[n].no = tIstek[a].no
  BY DEF TAdi
<1>3. tSatir[n] \in SablonSatiri /\ tIstek[a].no \in TNolar
  BY <1>1, <1>2, SSatirli
<1>4. tIstek[a].no # Yok
  BY <1>3, TYokDegil
<1>5. SSatir(f, n) /\ SGonderim(f, tIstek[a])
  BY <1>1, <1>2 DEF SAdli, SBilgi
<1>6. ASSUME tIstek[a].no \notin tIstek[a].bayat PROVE n = tIstek[a].ad
  <2>1. tIstek[a].ad \in TAd /\ tSatir[tIstek[a].ad] # Yok /\ tSatir[tIstek[a].ad].no = tIstek[a].no
    BY <1>4, <1>5, <1>6 DEF SGonderim, SOkunan, TGonderim
  <2> QED BY <1>1, <1>2, <2>1 DEF STek, SNolar
<1> QED BY <1>2, <1>3, <1>4, <1>5, <1>6

LEMMA TIsaretleKorur ==
  ASSUME NEW f \in [TKimlikler -> TAd], SInvF(f), NEW a \in TIstek, TIsaretle(a)
  PROVE  SInvF(f)'
<1>0. STip /\ STek /\ SAdli(f) /\ UNCHANGED <<tMeta, tSonNo, tAcan, tAsili, tYarim>>
  BY DEF SInvF, TIsaretle
<1>1. PICK r : r = tIstek[a]
  OBVIOUS
<1>2. r.adim = "isaretle" /\ a \in TSuren /\ r \in TGonderim
  BY <1>0, <1>1, TKimdir DEF TIsaretle
<1>3. CASE TAdi(r.no) = {} /\ TDus(a)
  <2> HIDE DEF SInvF
  <2> QED BY <1>0, <1>1, <1>2, <1>3, SDusKorur
<1>4. CASE \E n \in TAdi(r.no) :
             /\ tSatir' = [tSatir EXCEPT ![n].durum = "GONDERILIYOR"]
             /\ TYaz(a, [r EXCEPT !.adim = "olustur"], {r.no})
  <2>1. PICK n \in TAdi(r.no) :
             /\ tSatir' = [tSatir EXCEPT ![n] = [tSatir[n] EXCEPT !.durum = "GONDERILIYOR"]]
             /\ TYaz(a, [r EXCEPT !.adim = "olustur"], {r.no})
    BY <1>4
  <2>2. PICK no : no = r.no
    OBVIOUS
  <2>3. /\ n \in TAd /\ tSatir[n] # Yok /\ tSatir[n].no = no /\ tSatir[n] \in SablonSatiri
        /\ no \in TNolar /\ no # Yok /\ SSatir(f, n) /\ SGonderim(f, r)
        /\ no \notin r.bayat => n = r.ad
    BY <1>1, <1>2, <2>2, SGonderenSatir
  <2>4. PICK s : s = [tSatir[n] EXCEPT !.durum = "GONDERILIYOR"]
    OBVIOUS
  <2>5. /\ s \in SablonSatiri /\ s.no = no /\ s.ozel = tSatir[n].ozel /\ s.metin = tSatir[n].metin
        /\ s.kimlik = tSatir[n].kimlik /\ s.durum = "GONDERILIYOR"
    BY <2>3, <2>4 DEF SablonSatiri, TDurum
  <2>6. PICK k : k = [r EXCEPT !.adim = "olustur"]
    OBVIOUS
  <2>7. /\ k \in TGonderim /\ k.adim = "olustur" /\ k.no = no /\ k.is = r.is /\ k.ad = r.ad /\ k.metin = r.metin
        /\ k.onceki = r.onceki /\ k.kimlik = r.kimlik /\ k.bayat = r.bayat
    BY <1>2, <2>2, <2>6 DEF TGonderim
  <2>8. k \in TKayit /\ k \notin TDuzelt /\ k \notin TEsleme
    BY <2>7, TAyri DEF TKayit
  <2>9. tSatir' = [tSatir EXCEPT ![n] = s] /\ TYaz(a, k, {no})
    BY <2>1, <2>2, <2>4, <2>6
  <2>10. tSatir'[n] = s
    BY <1>0, <2>3, <2>9 DEF STip, SVeri
  <2>11. {no} \in SUBSET (0..TNo)
    BY <2>3, SablonVarsayimi DEF TNolar
  <2>12. a \in TSuren' /\ tIstek'[a] = k /\ tSasan \subseteq tSasan'
    <3>1. TIlerlet(a, k, {no}) /\ tSasan \subseteq tSasan'
      BY <2>9 DEF TYaz
    <3> QED BY <1>0, <2>8, <2>11, <3>1, SIlerler, TAyri
  <2>13. ASSUME no \notin r.bayat
         PROVE  /\ n = r.ad /\ tSatir[n].durum = r.onceki /\ (r.is = "ozel" => tSatir[n].ozel /\ tSatir[n].metin = r.metin)
                /\ no \in tSasan \/ tSatir[n].kimlik = r.kimlik
                /\ r.onceki = "TASLAK" => no \in tSasan \/ tSatir[n].kimlik = Yok
                /\ r.onceki = "TASLAK" /\ tSatir[n].ozel => no \in TBelirsiz \/ TBorclu(no) # {} \/ TAcmamis(no)
    BY <1>2, <2>2, <2>3, <2>13 DEF SGonderim, SOkunan
  <2>14. no \notin tSasan => (s.kimlik # Yok => f[s.kimlik] = n)
    BY <2>3, <2>5 DEF SSatir, STemiz
  <2>15. ASSUME no \notin r.bayat PROVE SBekler(s, n)'
    <3>1. s.ozel \/ n = THazirAd
      BY <1>2, <2>3, <2>5, <2>13, <2>15 DEF SGonderim, TGonderim
    <3>2. a \in TGonderen(s.no)'
      BY <2>5, <2>7, <2>12 DEF TGonderen
    <3>3. k.is = "hazir" => n = THazirAd
      BY <2>3, <2>7, <2>15 DEF SGonderim
    <3> QED BY <2>12, <3>1, <3>2, <3>3 DEF SBekler
  <2>16. SOkunan(k)'
    <3> SUFFICES ASSUME no \notin r.bayat PROVE SOkunan(k)'
      BY <2>7 DEF SOkunan
    <3>1. no \in TBelirsiz \/ TBorclu(no) # {} \/ TAcmamis(no) => (no \in TBelirsiz \/ TBorclu(no) # {} \/ TAcmamis(no))'
      <4>1. TBorclu(no) \ {a} \subseteq TBorclu(no)'
        BY <1>0, <2>8, <2>9, <2>11, SBorcluKalir DEF TYaz
      <4>2. a \notin TBorclu(no)
        BY <1>1, <1>2 DEF TBorclu
      <4>3. TAcmamis(no) => TAcmamis(no)'
        BY <1>0 DEF TAcmamis
      <4>4. TBelirsiz \subseteq TBelirsiz'
        BY <1>0, <2>12 DEF TBelirsiz
      <4> QED BY <4>1, <4>2, <4>3, <4>4
    <3>2. k.ad = n
      BY <2>7, <2>13
    <3>3. tSatir'[k.ad] = s /\ s # Yok
      BY <2>5, <2>10, <3>2, TYokDegil
    <3>4. /\ s.no = k.no /\ s.durum = "GONDERILIYOR" /\ (k.is = "ozel" => s.ozel /\ s.metin = k.metin)
          /\ k.no \in tSasan' \/ s.kimlik = k.kimlik
          /\ k.onceki = "TASLAK" => k.no \in tSasan' \/ s.kimlik = Yok
      BY <2>5, <2>7, <2>12, <2>13
    <3>5. k.onceki = "TASLAK" /\ s.ozel => (no \in TBelirsiz \/ TBorclu(no) # {} \/ TAcmamis(no))'
      BY <2>5, <2>7, <2>13, <3>1
    <3> QED BY <2>7, <3>3, <3>4, <3>5 DEF SOkunan
  <2>17. SBilgi(f, k)'
    <3>1. /\ k.is = "ozel" => k.no # Yok /\ k.onceki = "TASLAK"
          /\ k.is = "hazir" => k.ad = THazirAd /\ (k.no = Yok <=> k.onceki = Yok)
          /\ k.kimlik # Yok => tAcan[k.kimlik] # Yok
      BY <2>2, <2>3, <2>7 DEF SGonderim
    <3>2. SGonderim(f, k)'
      BY <1>0, <2>7, <2>16, <3>1 DEF SGonderim
    <3> QED BY <2>8, <3>2 DEF SBilgi
  <2>18. ASSUME no \notin r.bayat, NEW K \in TKimlikler, SYerinde(K)
         PROVE  (n = THazirAd => s.kimlik = K) /\ SYazacak(K, tSatir[THazirAd].no, k)
    <3>1. SYazacak(K, tSatir[THazirAd].no, r)
      BY <1>1, <1>2, <2>18 DEF SYerinde
    <3>2. n = THazirAd => s.kimlik = K
      BY <2>5, <2>18 DEF SYerinde
    <3>3. SYazacak(K, tSatir[THazirAd].no, k)
      BY <1>2, <2>2, <2>7, <2>8, <3>1 DEF SYazacak
    <3> QED BY <3>2, <3>3
  <2>19. ASSUME NEW K \in TKimlikler, SYerinde(K) PROVE SYazacak(K, tSatir[THazirAd].no, k)
    <3>1. SYazacak(K, tSatir[THazirAd].no, r)
      BY <1>1, <1>2, <2>19 DEF SYerinde
    <3> QED BY <1>2, <2>2, <2>7, <2>8, <3>1 DEF SYazacak
  <2>20. s.kimlik # Yok => tAcan[s.kimlik] # Yok
    BY <2>3, <2>5 DEF SSatir
  <2>21. tIstek[a].adim # "kaydet" /\ tIstek[a] \in TGonderim /\ no = tIstek[a].no /\ r.bayat = tIstek[a].bayat
    BY <1>1, <1>2, <2>2
  <2> HIDE DEF SInvF
  <2> QED BY <1>0, <1>2, <2>3, <2>5, <2>7, <2>8, <2>9, <2>14, <2>15, <2>17, <2>18, <2>19, <2>20, <2>21, SSatirYazKorur
<1> QED BY <1>1, <1>3, <1>4 DEF TIsaretle

LEMMA TOzelKaydetKorur ==
  ASSUME NEW f \in [TKimlikler -> TAd], SInvF(f), NEW a \in TIstek, TOzelKaydet(a)
  PROVE  SInvF(f)'
<1>0. STip /\ STek /\ SAdli(f) /\ UNCHANGED <<tMeta, tSonNo, tAcan, tAsili, tYarim>>
  BY DEF SInvF, TOzelKaydet
<1>1. PICK r : r = tIstek[a]
  OBVIOUS
<1>2. r.adim = "kaydet" /\ r.is = "ozel" /\ a \in TSuren /\ r \in TGonderim
  BY <1>0, <1>1, TKimdir DEF TOzelKaydet
<1>3. CASE TAdi(r.no) = {} /\ TDus(a)
  <2> HIDE DEF SInvF
  <2> QED BY <1>0, <1>1, <1>2, <1>3, SDusKorur
<1>4. CASE \E n \in TAdi(r.no) :
             /\ tSatir' = [tSatir EXCEPT ![n].durum = r.durum, ![n].kimlik = r.kimlik]
             /\ TYaz(a, Bitti, {r.no})
  <2>1. PICK n \in TAdi(r.no) :
             /\ tSatir' = [tSatir EXCEPT ![n].durum = r.durum, ![n].kimlik = r.kimlik]
             /\ TYaz(a, Bitti, {r.no})
    BY <1>4
  <2>2. PICK no : no = r.no
    OBVIOUS
  <2>3. /\ n \in TAd /\ tSatir[n] # Yok /\ tSatir[n].no = no /\ tSatir[n] \in SablonSatiri
        /\ no \in TNolar /\ no # Yok /\ SSatir(f, n) /\ SGonderim(f, r)
        /\ no \notin r.bayat => n = r.ad
    BY <1>1, <1>2, <2>2, SGonderenSatir
  <2>4. PICK s : s = [tSatir[n] EXCEPT !.durum = r.durum, !.kimlik = r.kimlik]
    OBVIOUS
  <2>5. /\ s \in SablonSatiri /\ s.no = no /\ s.ozel = tSatir[n].ozel /\ s.metin = tSatir[n].metin
        /\ s.kimlik = r.kimlik /\ s.durum \in TMetaDurum
    BY <1>2, <2>3, <2>4 DEF SablonSatiri, TDurum, TGonderim
  <2>6. tSatir' = [tSatir EXCEPT ![n] = s] /\ TYaz(a, Bitti, {no})
    <3>1. tSatir \in [TAd -> SablonSatiri \cup {Yok}]
      BY <1>0 DEF STip, SVeri
    <3> QED BY <2>1, <2>2, <2>3, <2>4, <3>1
  <2>7. r.kimlik # Yok /\ tAcan[r.kimlik] # Yok /\ f[r.kimlik] = r.ad
    BY <1>2, <2>3 DEF SGonderim
  <2>8. ASSUME no \notin r.bayat, NEW K \in TKimlikler, SYerinde(K) PROVE n # THazirAd
    <3>1. SYazacak(K, tSatir[THazirAd].no, r)
      BY <1>1, <1>2, <2>8 DEF SYerinde
    <3> QED BY <1>2, <2>2, <2>3, <2>8, <3>1 DEF SYazacak
  <2>9. s.durum # "TASLAK" /\ s.durum # "GONDERILIYOR"
    BY <2>5 DEF TMetaDurum
  <2>10. tIstek[a].is # "hazir" /\ tIstek[a] \in TGonderim /\ no = tIstek[a].no /\ r.bayat = tIstek[a].bayat /\ Bitti \notin TKayit
    BY <1>1, <1>2, <2>2, TAyri
  <2> HIDE DEF SInvF
  <2> QED BY <1>0, <1>2, <2>3, <2>5, <2>6, <2>7, <2>8, <2>9, <2>10, SSatirYazKorur
<1> QED BY <1>1, <1>3, <1>4 DEF TOzelKaydet

LEMMA TSilKorur ==
  ASSUME NEW f \in [TKimlikler -> TAd], SInvF(f), NEW a \in TIstek, TSil(a)
  PROVE  SInvF(f)'
<1>0. STip /\ STek /\ SAdli(f) /\ UNCHANGED <<tMeta, tSonNo, tAcan, tAsili, tYarim>>
  BY DEF SInvF, TSil
<1>1. PICK r : r = tIstek[a]
  OBVIOUS
<1>2. PICK no : no = r.no
  OBVIOUS
<1>3. r.adim = "sil" /\ a \in TSuren /\ r \in TDuzelt
  BY <1>0, <1>1, TKimdir DEF TSil
<1>4. no \in TNolar
  BY <1>2, <1>3 DEF TDuzelt
<1>5. tSatir' = TDegistir(no, Yok) /\ TYaz(a, Bitti, {no})
  BY <1>1, <1>2 DEF TSil
<1>6. ASSUME no \notin r.bayat, NEW K \in TKimlikler, SYerinde(K) PROVE tSatir[THazirAd].no # no
  <2>1. SYazacak(K, tSatir[THazirAd].no, r)
    BY <1>1, <1>3, <1>6 DEF SYerinde
  <2> QED BY <1>2, <1>3, <1>6, <2>1 DEF SYazacak
<1>7. tIstek[a].adim # "kaydet" /\ no = tIstek[a].no /\ r.bayat = tIstek[a].bayat
  BY <1>1, <1>2, <1>3
<1> HIDE DEF SInvF
<1> QED BY <1>0, <1>3, <1>4, <1>5, <1>6, <1>7, SSatirSilKorur


LEMMA TGeriKorur ==
  ASSUME NEW f \in [TKimlikler -> TAd], SInvF(f), NEW a \in TIstek, TGeri(a)
  PROVE  SInvF(f)'
<1>0. STip /\ STek /\ SAdli(f) /\ UNCHANGED <<tMeta, tSonNo, tAcan, tAsili, tYarim>>
  BY DEF SInvF, TGeri
<1>1. PICK r : r = tIstek[a]
  OBVIOUS
<1>2. r.adim = "geri" /\ a \in TSuren /\ r \in TGonderim /\ tIstek[a].adim # "kaydet"
  BY <1>0, <1>1, TKimdir DEF TGeri
<1>3. PICK d : d = IF r.is = "ozel" THEN "TASLAK" ELSE IF r.onceki = "GONDERILIYOR" THEN "REDDEDILDI" ELSE r.onceki
  OBVIOUS
<1>4. PICK no : no = r.no
  OBVIOUS
<1>5. CASE r.is = "hazir" /\ r.no = Yok /\ TDus(a)
  <2>1. TAdi(r.no) = {}
    BY <1>0, <1>5, SSatirli, TYokDegil DEF TAdi
  <2> HIDE DEF SInvF
  <2> QED BY <1>0, <1>1, <1>2, <1>5, <2>1, SDusKorur
<1>6. CASE /\ r.is = "hazir" /\ r.no # Yok /\ THayaletBekleyen(r.onceki, r.kimlik)
           /\ tSatir' = TDegistir(r.no, Yok) /\ TYaz(a, Bitti, {r.no})
  <2>1. no \in TNolar
    BY <1>2, <1>4, <1>6 DEF TGonderim
  <2>2. ASSUME no \notin r.bayat, NEW K \in TKimlikler, SYerinde(K) PROVE tSatir[THazirAd].no # no
    <3>1. SYazacak(K, tSatir[THazirAd].no, r)
      BY <1>1, <1>2, <2>2 DEF SYerinde
    <3>2. tSatir[THazirAd].no = no => r.kimlik = K
      BY <1>2, <1>4, <1>6, <2>2, <3>1 DEF SYazacak
    <3>3. r.kimlik = Yok /\ K # Yok
      BY <1>6, TYokDegil DEF THayaletBekleyen
    <3> QED BY <3>2, <3>3
  <2>3. no = tIstek[a].no /\ r.bayat = tIstek[a].bayat /\ tSatir' = TDegistir(no, Yok) /\ TYaz(a, Bitti, {no})
    BY <1>1, <1>4, <1>6
  <2> HIDE DEF SInvF
  <2> QED BY <1>0, <1>2, <2>1, <2>2, <2>3, SSatirSilKorur
<1>7. CASE TAdi(r.no) = {} /\ TDus(a)
  <2> HIDE DEF SInvF
  <2> QED BY <1>0, <1>1, <1>2, <1>7, SDusKorur
<1>8. CASE \E n \in TAdi(r.no) : tSatir' = [tSatir EXCEPT ![n].durum = d] /\ TYaz(a, Bitti, {r.no})
  <2>1. PICK n \in TAdi(r.no) : tSatir' = [tSatir EXCEPT ![n] = [tSatir[n] EXCEPT !.durum = d]] /\ TYaz(a, Bitti, {r.no})
    BY <1>8
  <2>2. /\ n \in TAd /\ tSatir[n] # Yok /\ tSatir[n].no = no /\ tSatir[n] \in SablonSatiri
        /\ no \in TNolar /\ no # Yok /\ SSatir(f, n) /\ SGonderim(f, r)
        /\ no \notin r.bayat => n = r.ad
    BY <1>1, <1>2, <1>4, SGonderenSatir
  <2>3. r.is \in {"ozel", "hazir"} /\ r.onceki \in TDurum
    <3>1. r.onceki # Yok
      <4>1. "TASLAK" \in TDurum
        BY DEF TDurum
      <4> QED BY <1>2, <1>4, <2>2, <4>1, TYokDegil DEF SGonderim, TGonderim
    <3> QED BY <1>2, <3>1 DEF TGonderim
  <2>4. d \in TDurum /\ d # "GONDERILIYOR" /\ (d = "TASLAK" => r.onceki = "TASLAK")
    BY <1>3, <2>2, <2>3 DEF TDurum, TMetaDurum, SGonderim
  <2>5. PICK s : s = [tSatir[n] EXCEPT !.durum = d]
    OBVIOUS
  <2>6. /\ s \in SablonSatiri /\ s.no = no /\ s.ozel = tSatir[n].ozel /\ s.metin = tSatir[n].metin
        /\ s.kimlik = tSatir[n].kimlik /\ s.durum = d
    BY <2>2, <2>4, <2>5 DEF SablonSatiri
  <2>7. tSatir' = [tSatir EXCEPT ![n] = s] /\ TYaz(a, Bitti, {no})
    BY <1>4, <2>1, <2>5
  <2>8. ASSUME no \notin r.bayat
        PROVE  /\ n = r.ad
               /\ r.onceki = "TASLAK" => no \in tSasan \/ tSatir[n].kimlik = Yok
               /\ r.onceki = "TASLAK" /\ tSatir[n].ozel => no \in TBelirsiz \/ TBorclu(no) # {} \/ TAcmamis(no)
    BY <1>2, <1>4, <2>2, <2>8 DEF SGonderim, SOkunan
  <2>9. ASSUME no \notin tSasan, no \notin r.bayat
        PROVE  /\ s.kimlik # Yok => f[s.kimlik] = n
               /\ s.durum = "TASLAK" => s.kimlik = Yok
               /\ s.durum # "GONDERILIYOR"
               /\ s.durum = "TASLAK" /\ s.ozel => no \in tYarim \/ TBorclu(no) # {} \/ TAcmamis(no)
    <3>1. s.kimlik # Yok => f[s.kimlik] = n
      BY <2>2, <2>6, <2>9 DEF SSatir, STemiz
    <3>2. s.durum = "TASLAK" => s.kimlik = Yok
      BY <2>4, <2>6, <2>8, <2>9
    <3>3. s.durum = "TASLAK" /\ s.ozel => no \in tYarim \/ TBorclu(no) # {} \/ TAcmamis(no)
      BY <2>4, <2>6, <2>8, <2>9 DEF TBelirsiz
    <3> QED BY <2>4, <2>6, <3>1, <3>2, <3>3
  <2>10. ASSUME NEW K \in TKimlikler, SYerinde(K), n = THazirAd PROVE s.kimlik = K
    BY <2>6, <2>10 DEF SYerinde
  <2>11. s.kimlik # Yok => tAcan[s.kimlik] # Yok
    BY <2>2, <2>6 DEF SSatir
  <2>12. tIstek[a] \in TGonderim /\ no = tIstek[a].no /\ r.bayat = tIstek[a].bayat /\ Bitti \notin TKayit
    BY <1>1, <1>2, <1>4, TAyri
  <2> HIDE DEF SInvF
  <2> QED BY <1>0, <1>2, <2>2, <2>6, <2>7, <2>9, <2>10, <2>11, <2>12, SSatirYazKorur
<1> QED BY <1>1, <1>3, <1>5, <1>6, <1>7, <1>8 DEF TGeri

LEMMA TDuzenleKorur ==
  ASSUME NEW f \in [TKimlikler -> TAd], SInvF(f), NEW a \in TIstek, TDuzenle(a)
  PROVE  SInvF(f)'
<1>0. STip /\ STek /\ SAdli(f) /\ SHazir /\ THazirAd \in TAd /\ UNCHANGED <<tMeta, tSonNo, tAcan, tAsili, tYarim>>
  BY SablonVarsayimi DEF SInvF, TDuzenle
<1>1. PICK r : r = tIstek[a]
  OBVIOUS
<1>2. PICK no : no = r.no
  OBVIOUS
<1>3. r.adim = "duzenle" /\ a \in TSuren /\ r \in TDuzelt /\ tIstek[a].adim \notin {"olustur", "kaydet", "geri"}
  BY <1>0, <1>1, TKimdir DEF TDuzenle
<1>4. CASE TAdi(r.no) = {} /\ TDus(a)
  <2> HIDE DEF SInvF
  <2> QED BY <1>0, <1>3, <1>4, SDusKorur
<1>5. CASE \E n \in TAdi(r.no), yeni \in TAd, m \in TMetin :
             /\ yeni = n \/ tSatir[yeni] = Yok
             /\ tSatir' = [tSatir EXCEPT ![n] = Yok, ![yeni] = [tSatir[n] EXCEPT !.metin = m, !.ozel = TRUE]]
             /\ TYaz(a, Bitti, {r.no})
  <2>1. PICK n \in TAdi(r.no), yeni \in TAd, m \in TMetin :
             /\ yeni = n \/ tSatir[yeni] = Yok
             /\ tSatir' = [tSatir EXCEPT ![n] = Yok, ![yeni] = [tSatir[n] EXCEPT !.metin = m, !.ozel = TRUE]]
             /\ TYaz(a, Bitti, {r.no})
    BY <1>5
  <2>2. n \in TAd /\ tSatir[n] # Yok /\ tSatir[n].no = no /\ tSatir[n] \in SablonSatiri /\ SSatir(f, n) /\ SDuzelt(r)
    <3>1. n \in TAd /\ tSatir[n] # Yok /\ tSatir[n].no = no
      BY <1>2 DEF TAdi
    <3> QED BY <1>0, <1>1, <1>3, <3>1, SSatirli DEF SAdli, SBilgi
  <2>3. PICK s : s = [tSatir[n] EXCEPT !.metin = m, !.ozel = TRUE]
    OBVIOUS
  <2>4. /\ s \in SablonSatiri /\ s.no = no /\ s.ozel /\ s.metin = m /\ s # Yok
        /\ s.kimlik = tSatir[n].kimlik /\ s.durum = tSatir[n].durum
    <3>1. /\ s \in SablonSatiri /\ s.no = no /\ s.ozel /\ s.metin = m
          /\ s.kimlik = tSatir[n].kimlik /\ s.durum = tSatir[n].durum
      BY <2>2, <2>3 DEF SablonSatiri
    <3> QED BY <3>1, TYokDegil
  <2>5. /\ tSatir' \in [TAd -> SablonSatiri \cup {Yok}]
        /\ \A x \in TAd : tSatir'[x] = IF x = yeni THEN s ELSE IF x = n THEN Yok ELSE tSatir[x]
    <3>1. tSatir \in [TAd -> SablonSatiri \cup {Yok}]
      BY <1>0 DEF STip, SVeri
    <3>2. tSatir' = [tSatir EXCEPT ![n] = Yok, ![yeni] = s]
      BY <2>1, <2>3
    <3> QED BY <2>2, <2>4, <3>1, <3>2
  <2>6. PICK k : k = Bitti
    OBVIOUS
  <2>7. TIlerlet(a, k, {no}) /\ tSasan' = tSasan \cup (r.bayat \cap {no}) /\ k \notin TKayit
    BY <1>1, <1>2, <2>1, <2>6, TAyri DEF TYaz
  <2>8. no \in TNolar /\ no <= tSonNo /\ {no} \in SUBSET (0..TNo)
    <3>1. no \in TNolar /\ no <= tSonNo
      BY <1>0, <2>2, SSatirli DEF STek, SNolar
    <3> QED BY <3>1, SablonVarsayimi DEF TNolar
  <2>9. \A x \in TAd : x # n /\ tSatir[x] # Yok => tSatir[x].no # no /\ x # yeni
    BY <1>0, <2>1, <2>2 DEF STek, SNolar
  <2>10. SVeri'
    <3>1. tSasan' \subseteq 0..TNo
      BY <1>0, <2>7, <2>8 DEF STip, SVeri
    <3> QED BY <1>0, <2>5, <3>1 DEF STip, SVeri
  <2>11. SNolar'
    <3>1. \A x \in TAd : tSatir'[x] # Yok => (x = yeni /\ tSatir'[x].no = no) \/ (x # yeni /\ x # n /\ tSatir'[x] = tSatir[x])
      BY <2>4, <2>5
    <3>2. \A x, y \in TAd : tSatir'[x] # Yok /\ tSatir'[y] # Yok /\ tSatir'[x].no = tSatir'[y].no => x = y
      BY <1>0, <2>9, <3>1 DEF STek, SNolar
    <3>3. \A x \in TAd : tSatir'[x] # Yok => tSatir'[x].no <= tSonNo
      BY <1>0, <2>8, <3>1 DEF STek, SNolar
    <3> QED BY <1>0, <3>2, <3>3 DEF STek, SNolar
  <2>12. SGecis(f, f, {no})
    BY <1>0, <2>2, <2>5, <2>7, <2>9 DEF SGecis
  <2>13. \A q : a \notin TGonderen(q) /\ a \notin TBorclu(q)
    BY <1>3 DEF TGonderen, TBorclu
  <2>14. SAyrilir(a, {no})
    BY <2>13 DEF SAyrilir
  <2>15. SMeta(f)'
    BY <1>0 DEF SAdli, SMeta, TAdli
  <2>16. ASSUME NEW x \in TAd PROVE SSatir(f, x)'
    <3>1. CASE x = yeni
      <4>1. tSatir'[x] = s /\ (s.kimlik # Yok => tAcan[s.kimlik] # Yok)
        BY <2>2, <2>4, <2>5, <3>1 DEF SSatir
      <4>2. ASSUME no \notin tSasan' PROVE STemiz(f, s, x)'
        <5>1. no \notin tSasan /\ no \notin r.bayat
          BY <2>7, <4>2
        <5>2. STemiz(f, tSatir[n], n)
          BY <2>2, <5>1 DEF SSatir
        <5>3. tSatir[n].durum = "TASLAK" /\ tSatir[n].ozel
          BY <1>0, <1>2, <2>2, <5>1 DEF SDuzelt, STek, SNolar
        <5>4. s.kimlik = Yok /\ s.durum = "TASLAK"
          BY <2>4, <5>2, <5>3 DEF STemiz
        <5>5. ASSUME no \notin tYarim', TBorclu(no)' = {} PROVE TAcmamis(no)
          <6>1. TBorclu(no) = {}
            <7>1. TBorclu(no) \ {a} \subseteq TBorclu(no)'
              BY <1>0, <2>6, <2>7, <2>8, SBorcluKalir
            <7> QED BY <2>13, <5>5, <7>1
          <6>2. SIstenen(tSatir[n], n)
            BY <1>0, <2>2, <5>2, <5>3, <5>5, <6>1 DEF STemiz
          <6> QED BY <2>2, <5>3, <6>2 DEF SIstenen, TAcmamis
        <5>6. TAcmamis(no) => SIstenen(s, x)'
          BY <1>0, <2>4 DEF TAcmamis, SIstenen
        <5> QED BY <2>4, <5>4, <5>5, <5>6 DEF STemiz
      <4> QED BY <1>0, <2>4, <4>1, <4>2 DEF SSatir
    <3>2. CASE x # yeni /\ x = n
      BY <2>5, <3>2 DEF SSatir
    <3>3. CASE x # yeni /\ x # n
      <4>1. tSatir'[x] = tSatir[x]
        BY <2>5, <3>3
      <4> QED BY <1>0, <2>6, <2>7, <2>8, <2>12, <2>13, <4>1, SSatirKalir
    <3> QED BY <3>1, <3>2, <3>3
  <2>17. SHazir'
    <3>1. TBelirsiz \subseteq TBelirsiz'
      BY <1>0, <2>7 DEF TBelirsiz
    <3>2. ASSUME TBelirsiz' = {}, NEW K \in TKimlikler, SYerinde(K)
          PROVE  /\ tSatir'[THazirAd] # Yok /\ tSatir'[THazirAd].no = tSatir[THazirAd].no
                 /\ tSatir'[THazirAd].kimlik = K /\ ~tSatir'[THazirAd].ozel
      <4>1. no \notin r.bayat
        BY <2>7, <3>2 DEF TBelirsiz
      <4>2. SYazacak(K, tSatir[THazirAd].no, r) /\ tSatir[THazirAd] # Yok /\ tSatir[THazirAd].kimlik = K /\ ~tSatir[THazirAd].ozel
        BY <1>1, <1>3, <3>2 DEF SYerinde
      <4>3. n # THazirAd
        BY <1>2, <1>3, <2>2, <4>1, <4>2 DEF SYazacak
      <4>4. tSatir'[THazirAd] = tSatir[THazirAd]
        BY <1>0, <2>5, <2>9, <4>2, <4>3
      <4> QED BY <4>2, <4>4
    <3>3. tIstek[a].adim # "kaydet"
      BY <1>3
    <3> QED BY <1>0, <2>6, <2>7, <2>8, <3>1, <3>2, <3>3, SHazirKalir
  <2>18. tSonNo <= tSonNo' /\ {no} # {}
    BY <1>0, SablonVarsayimi DEF STip, SVeri
  <2> HIDE DEF SInvF
  <2> QED BY <2>6, <2>7, <2>8, <2>10, <2>11, <2>12, <2>14, <2>15, <2>16, <2>17, <2>18, SAdim
<1> QED BY <1>1, <1>4, <1>5 DEF TDuzenle


LEMMA THazirKaydetKorur ==
  ASSUME NEW f \in [TKimlikler -> TAd], SInvF(f), NEW a \in TIstek, THazirKaydet(a)
  PROVE  SInvF(f)'
<1>0. STip /\ STek /\ SAdli(f) /\ SHazir /\ THazirAd \in TAd /\ UNCHANGED <<tMeta, tAcan, tAsili, tYarim>>
  BY SablonVarsayimi DEF SInvF, THazirKaydet
<1>1. PICK r : r = tIstek[a]
  OBVIOUS
<1>2. r.adim = "kaydet" /\ r.is = "hazir" /\ a \in TSuren /\ r \in TGonderim /\ SGonderim(f, r)
  <2>1. r.adim = "kaydet" /\ r.is = "hazir" /\ a \in TSuren /\ r \in TGonderim
    BY <1>0, <1>1, TKimdir DEF THazirKaydet
  <2> QED BY <1>0, <1>1, <2>1 DEF SAdli, SBilgi
<1>3. r.ad = THazirAd /\ r.kimlik \in TKimlikler /\ tAcan[r.kimlik] # Yok /\ r.durum \in TMetaDurum /\ r.no \in TNolar \cup {Yok}
  BY <1>2 DEF SGonderim, TGonderim
<1>4. PICK no : no = IF tSatir[THazirAd] = Yok THEN tSonNo + 1 ELSE tSatir[THazirAd].no
  OBVIOUS
<1>5. PICK s : s = [no |-> no, durum |-> r.durum, ozel |-> FALSE, metin |-> HazirMetin, kimlik |-> r.kimlik]
  OBVIOUS
<1>6. /\ no \in TNolar /\ tSatir' = [tSatir EXCEPT ![THazirAd] = s]
      /\ tSonNo' = (IF no > tSonNo THEN no ELSE tSonNo)
      /\ TIlerlet(a, Bitti, {no})
      /\ tSasan' = tSasan \cup (IF r.bayat \cap {no, r.no} = {} THEN {} ELSE {no, r.no} \ {Yok})
  BY <1>1, <1>3, <1>4, <1>5 DEF THazirKaydet
<1>7. /\ s \in SablonSatiri /\ s.no = no /\ s.durum \in TMetaDurum /\ ~s.ozel /\ s.kimlik = r.kimlik /\ s # Yok
  <2>1. s \in SablonSatiri /\ s.no = no /\ s.durum \in TMetaDurum /\ ~s.ozel /\ s.kimlik = r.kimlik
    BY <1>3, <1>5, <1>6 DEF SablonSatiri, TDurum
  <2> QED BY <2>1, TYokDegil
<1>8. \A m \in TAd : tSatir'[m] = IF m = THazirAd THEN s ELSE tSatir[m]
  BY <1>0, <1>6 DEF STip, SVeri
<1>9. tSonNo \in Nat /\ no \in Nat /\ tSonNo' \in 0..TNo /\ tSonNo <= tSonNo' /\ no <= tSonNo'
  BY <1>0, <1>6, SablonVarsayimi DEF STip, SVeri, TNolar
<1>10. \A m \in TAd : m # THazirAd /\ tSatir[m] # Yok => tSatir[m].no # no /\ tSatir[m].no <= tSonNo /\ tSatir[m].no \in Nat
  <2> SUFFICES ASSUME NEW m \in TAd, m # THazirAd, tSatir[m] # Yok
               PROVE  tSatir[m].no # no /\ tSatir[m].no <= tSonNo /\ tSatir[m].no \in Nat
    OBVIOUS
  <2>1. tSatir[m].no <= tSonNo /\ tSatir[m].no \in Nat
    BY <1>0, SSatirli, TYokDegil DEF STek, SNolar
  <2>2. tSatir[THazirAd] # Yok => tSatir[m].no # tSatir[THazirAd].no
    BY <1>0 DEF STek, SNolar
  <2> QED BY <1>4, <1>9, <2>1, <2>2
<1>11. PICK k : k = Bitti
  OBVIOUS
<1>12. TIlerlet(a, k, {no}) /\ k \notin TKayit
  BY <1>6, <1>11, TAyri
<1>13. {no} \in SUBSET (0..TNo) /\ (r.no # Yok => r.no \in 0..TNo)
  BY <1>3, <1>6, SablonVarsayimi DEF TNolar
<1>14. tSasan \subseteq tSasan' /\ tSasan' \subseteq 0..TNo
  BY <1>0, <1>6, <1>13 DEF STip, SVeri
<1>15. SVeri'
  <2>1. tSatir' \in [TAd -> SablonSatiri \cup {Yok}]
    BY <1>0, <1>6, <1>7 DEF STip, SVeri
  <2> QED BY <1>0, <1>9, <1>14, <2>1 DEF STip, SVeri
<1>16. SNolar'
  <2>1. \A n, m \in TAd : tSatir'[n] # Yok /\ tSatir'[m] # Yok /\ tSatir'[n].no = tSatir'[m].no => n = m
    BY <1>0, <1>7, <1>8, <1>10 DEF STek, SNolar
  <2>2. \A n \in TAd : tSatir'[n] # Yok => tSatir'[n].no <= tSonNo'
    BY <1>7, <1>8, <1>9, <1>10
  <2>3. \A q \in TKimlikler : tAcan[q] # Yok => tAcan[q] <= tSonNo'
    <3> SUFFICES ASSUME NEW q \in TKimlikler, tAcan[q] # Yok PROVE tAcan[q] <= tSonNo'
      OBVIOUS
    <3>1. tAcan[q] <= tSonNo /\ tAcan[q] \in Int
      BY <1>0, SablonVarsayimi DEF STip, SVeri, STek, SNolar
    <3> QED BY <1>9, <3>1
  <2> QED BY <1>0, <2>1, <2>2, <2>3 DEF SNolar
<1>17. SGecis(f, f, {no})
  <2>1. \A n \in TAd : tSatir[n] # Yok /\ tSatir[n].no \notin {no} => tSatir'[n] = tSatir[n]
    BY <1>4, <1>8
  <2> QED BY <1>0, <1>14, <2>1 DEF SGecis
<1>18. \A q : a \notin TBorclu(q)
  BY <1>1, <1>2 DEF TBorclu
<1>19. SAyrilir(a, {no})
  BY <1>18 DEF SAyrilir
<1>20. SMeta(f)'
  BY <1>0 DEF SAdli, SMeta, TAdli
<1>21. no \notin tSasan' => f[r.kimlik] = THazirAd
  <2> SUFFICES ASSUME no \notin tSasan', f[r.kimlik] # THazirAd PROVE FALSE
    OBVIOUS
  <2>1. r.no \in tSasan
    BY <1>2, <1>3 DEF SGonderim
  <2>2. r.no # no /\ r.no # Yok
    <3>1. tSasan \subseteq 0..TNo /\ 0..TNo \subseteq Int
      BY <1>0, SablonVarsayimi DEF STip, SVeri
    <3>2. r.no # Yok
      BY <2>1, <3>1, TYokDegil
    <3> QED BY <1>14, <2>1, <3>2
  <2>3. r.no \notin r.bayat => tSatir[THazirAd] # Yok /\ tSatir[THazirAd].no = r.no
    BY <1>2, <1>3, <2>2 DEF SGonderim, SOkunan
  <2>4. r.no \in r.bayat
    BY <1>4, <2>2, <2>3
  <2>5. no # Yok
    BY <1>6, TYokDegil
  <2> QED BY <1>6, <2>4, <2>5
<1>22. ASSUME NEW x \in TAd PROVE SSatir(f, x)'
  <2>1. CASE x = THazirAd
    <3>1. ASSUME no \notin tSasan' PROVE STemiz(f, s, x)'
      BY <1>7, <1>21, <2>1, <3>1 DEF STemiz, TMetaDurum
    <3>2. tSatir'[x] = s
      BY <1>8, <2>1
    <3> QED BY <1>0, <1>3, <1>7, <3>1, <3>2 DEF SSatir
  <2>2. CASE x # THazirAd
    <3>1. tSatir'[x] = tSatir[x]
      BY <1>8, <2>2
    <3>2. ASSUME tSatir[x] # Yok, tSatir[x].no \notin tSasan', a \in TGonderen(tSatir[x].no) PROVE FALSE
      <4>1. r.no = tSatir[x].no
        BY <1>1, <3>2 DEF TGonderen
      <4>2. r.no # Yok /\ r.no # no
        BY <1>10, <2>2, <3>2, <4>1, TYokDegil
      <4>3. r.no \notin r.bayat => tSatir[THazirAd] # Yok /\ tSatir[THazirAd].no = r.no
        BY <1>2, <1>3, <4>2 DEF SGonderim, SOkunan
      <4>4. r.no \in r.bayat
        BY <1>4, <4>2, <4>3
      <4> QED BY <1>6, <3>2, <4>1, <4>2, <4>4
    <3> QED BY <1>0, <1>11, <1>12, <1>13, <1>17, <1>18, <3>1, <3>2, SSatirKalir
  <2> QED BY <2>1, <2>2
<1>23. SHazir'
  <2> SUFFICES ASSUME TBelirsiz' = {}, tMeta[THazirAd] # Yok, tAcan[tMeta[THazirAd].kimlik] = 0
               PROVE  SGelir(tMeta[THazirAd].kimlik)' \/ SYerinde(tMeta[THazirAd].kimlik)'
    BY <1>0 DEF SHazir
  <2>1. PICK K : K = tMeta[THazirAd].kimlik /\ K = tMeta'[THazirAd].kimlik
    BY <1>0
  <2>2. TBelirsiz = {} /\ r.bayat \cap {no, r.no} = {}
    <3>1. no # Yok
      BY <1>6, TYokDegil
    <3> QED BY <1>0, <1>6, <1>14, <3>1 DEF TBelirsiz
  <2>3. SGelir(K) \/ SYerinde(K)
    BY <1>0, <2>1, <2>2 DEF SHazir
  <2>4. ASSUME NEW b \in TSuren, b # a, tIstek[b] \in TGonderim, tIstek[b].adim = "kaydet", tIstek[b].is = "hazir",
               tIstek[b].kimlik = K
        PROVE  SGelir(K)'
    <3>1. b \in TSuren' /\ SAyni(tIstek[b], tIstek'[b], {no})
      BY <1>0, <1>11, <1>12, <1>13, <2>4, SIlerler DEF TSuren
    <3> QED BY <2>4, <3>1 DEF SGelir, SAyni
  <2>5. ASSUME r.kimlik = K PROVE SYerinde(K)'
    <3>1. tSatir'[THazirAd] = s
      BY <1>0, <1>8
    <3>2. ASSUME NEW c \in TSuren' PROVE no \in tIstek'[c].bayat
      <4>1. c # a
        BY <1>0, <1>11, <1>12, <1>13, <3>2, SIlerler DEF TSuren
      <4>2. c \in TSuren /\ SAyni(tIstek[c], tIstek'[c], {no})
        BY <1>0, <1>11, <1>12, <1>13, <3>2, <4>1, SIlerler
      <4> QED BY <4>2 DEF SAyni
    <3>3. \A c \in TSuren' : SYazacak(K, no, tIstek'[c])
      BY <3>2 DEF SYazacak
    <3> QED BY <1>7, <2>5, <3>1, <3>3 DEF SYerinde
  <2>6. CASE SGelir(K)
    <3>1. PICK b \in TSuren : tIstek[b] \in TGonderim /\ tIstek[b].adim = "kaydet" /\ tIstek[b].is = "hazir" /\ tIstek[b].kimlik = K
      BY <2>6 DEF SGelir
    <3>2. SGelir(K)' \/ SYerinde(K)'
      BY <1>1, <2>4, <2>5, <3>1
    <3> QED BY <2>1, <3>2
  <2>7. CASE SYerinde(K)
    <3>1. tSatir[THazirAd] # Yok /\ SYazacak(K, tSatir[THazirAd].no, r)
      BY <1>1, <1>2, <2>7 DEF SYerinde
    <3>2. r.kimlik = K
      BY <1>2, <1>4, <2>2, <3>1 DEF SYazacak
    <3>3. SYerinde(K)'
      BY <2>5, <3>2
    <3> QED BY <2>1, <3>3
  <2> QED BY <2>3, <2>6, <2>7
<1> HIDE DEF SInvF
<1> QED BY <1>9, <1>11, <1>12, <1>13, <1>15, <1>16, <1>17, <1>19, <1>20, <1>22, <1>23, SAdim

LEMMA TYeniTaslakKorur ==
  ASSUME NEW f \in [TKimlikler -> TAd], SInvF(f), NEW a \in TIstek, NEW m \in TMetin \cup {HazirMetin, Yok}, TYeniTaslak(a, m)
  PROVE  SInvF(f)'
<1>0. /\ STip /\ STek /\ SAdli(f) /\ SHazir /\ THazirAd \in TAd /\ UNCHANGED <<tMeta, tAcan, tAsili, tYarim, tSasan>>
      /\ tIstek[a] \in {Bos, Bitti}
  BY SablonVarsayimi DEF SInvF, TYeniTaslak, TGelir, Ilk
<1>1. PICK no : no = tSonNo + 1
  OBVIOUS
<1>2. PICK s : s = [no |-> no, durum |-> "TASLAK", ozel |-> TRUE, metin |-> m, kimlik |-> Yok]
  OBVIOUS
<1>3. PICK n \in TAd : tSatir[n] = Yok /\ tSatir' = [tSatir EXCEPT ![n] = s]
  BY <1>1, <1>2 DEF TYeniTaslak
<1>4. PICK k : k = Bitti
  OBVIOUS
<1>5. TIlerlet(a, k, {no}) /\ k \notin TKayit /\ tSonNo < TNo /\ tSonNo' = tSonNo + 1
  BY <1>1, <1>4, TAyri DEF TYeniTaslak
<1>6. tSonNo \in Nat /\ no \in TNolar /\ no \in 0..TNo /\ tSonNo' \in 0..TNo /\ tSonNo <= tSonNo' /\ no = tSonNo'
  BY <1>0, <1>1, <1>5, SablonVarsayimi DEF STip, SVeri, TNolar
<1>7. s \in SablonSatiri /\ s.no = no /\ s.durum = "TASLAK" /\ s.kimlik = Yok /\ s # Yok
  <2>1. s \in SablonSatiri /\ s.no = no /\ s.durum = "TASLAK" /\ s.kimlik = Yok
    BY <1>2, <1>6 DEF SablonSatiri, TDurum
  <2> QED BY <2>1, TYokDegil
<1>8. \A x \in TAd : tSatir'[x] = IF x = n THEN s ELSE tSatir[x]
  BY <1>0, <1>3 DEF STip, SVeri
<1>9. \A x \in TAd : tSatir[x] # Yok => tSatir[x].no <= tSonNo /\ tSatir[x].no \in Nat
  BY <1>0, SSatirli, TYokDegil DEF STek, SNolar
<1>10. \A q \in TKimlikler : tAcan[q] # Yok => tAcan[q] <= tSonNo /\ tAcan[q] \in Int
  BY <1>0, SablonVarsayimi DEF STip, SVeri, STek, SNolar
<1>11. SVeri'
  <2>1. tSatir' \in [TAd -> SablonSatiri \cup {Yok}]
    BY <1>0, <1>3, <1>7 DEF STip, SVeri
  <2> QED BY <1>0, <1>6, <2>1 DEF STip, SVeri
<1>12. SNolar'
  <2>1. \A x, y \in TAd : tSatir'[x] # Yok /\ tSatir'[y] # Yok /\ tSatir'[x].no = tSatir'[y].no => x = y
    <3>1. \A x \in TAd : x # n /\ tSatir'[x] # Yok => tSatir'[x] = tSatir[x] /\ tSatir'[x].no # no
      BY <1>1, <1>6, <1>8, <1>9
    <3>2. tSatir'[n].no = no
      BY <1>7, <1>8
    <3>3. \A x, y \in TAd : tSatir[x] # Yok /\ tSatir[y] # Yok /\ tSatir[x].no = tSatir[y].no => x = y
      BY <1>0 DEF STek, SNolar
    <3> QED BY <3>1, <3>2, <3>3
  <2>2. \A x \in TAd : tSatir'[x] # Yok => tSatir'[x].no <= tSonNo'
    BY <1>6, <1>7, <1>8, <1>9
  <2>3. \A q \in TKimlikler : tAcan[q] # Yok => tAcan[q] <= tSonNo'
    BY <1>6, <1>10
  <2> QED BY <1>0, <2>1, <2>2, <2>3 DEF SNolar
<1>13. SGecis(f, f, {no})
  BY <1>0, <1>3, <1>8 DEF SGecis
<1>14. (\A q : a \notin TGonderen(q) /\ a \notin TBorclu(q)) /\ tIstek[a].adim # "kaydet"
  BY <1>0, TBosKimse
<1>15. SAyrilir(a, {no})
  BY <1>14 DEF SAyrilir
<1>16. SMeta(f)'
  BY <1>0 DEF SAdli, SMeta, TAdli
<1>17. ASSUME NEW x \in TAd PROVE SSatir(f, x)'
  <2>1. CASE x = n
    <3>1. \A q \in TAd : tMeta[q] # Yok => tAcan[tMeta[q].kimlik] # no
      <4> SUFFICES ASSUME NEW q \in TAd, tMeta[q] # Yok PROVE tAcan[tMeta[q].kimlik] # no
        OBVIOUS
      <4>1. tMeta[q].kimlik \in TKimlikler /\ tAcan[tMeta[q].kimlik] # Yok
        BY <1>0, SMetaKimlikli DEF SAdli, SMeta, TAdli
      <4> QED BY <1>1, <1>6, <1>10, <4>1
    <3>2. SIstenen(s, x)'
      BY <1>0, <1>7, <3>1 DEF SIstenen
    <3>3. STemiz(f, s, x)'
      BY <1>7, <3>2 DEF STemiz
    <3>4. tSatir'[x] = s
      BY <1>8, <2>1
    <3> QED BY <1>7, <3>3, <3>4 DEF SSatir
  <2>2. CASE x # n
    <3>1. tSatir'[x] = tSatir[x]
      BY <1>8, <2>2
    <3>2. {no} \in SUBSET (0..TNo)
      BY <1>6
    <3> QED BY <1>0, <1>4, <1>5, <1>13, <1>14, <3>1, <3>2, SSatirKalir
  <2> QED BY <2>1, <2>2
<1>18. SHazir'
  <2>1. TBelirsiz \subseteq TBelirsiz' /\ {no} \in SUBSET (0..TNo)
    BY <1>0, <1>6 DEF TBelirsiz
  <2>2. ASSUME NEW K \in TKimlikler, SYerinde(K)
        PROVE  /\ tSatir'[THazirAd] # Yok /\ tSatir'[THazirAd].no = tSatir[THazirAd].no
               /\ tSatir'[THazirAd].kimlik = K /\ ~tSatir'[THazirAd].ozel
    <3>1. tSatir[THazirAd] # Yok /\ tSatir[THazirAd].kimlik = K /\ ~tSatir[THazirAd].ozel
      BY <2>2 DEF SYerinde
    <3>2. tSatir'[THazirAd] = tSatir[THazirAd]
      BY <1>0, <1>3, <1>8, <3>1
    <3> QED BY <3>1, <3>2
  <2> QED BY <1>0, <1>4, <1>5, <1>14, <2>1, <2>2, SHazirKalir
<1>19. {no} # {} /\ {no} \in SUBSET (0..TNo)
  BY <1>6
<1> HIDE DEF SInvF
<1> QED BY <1>4, <1>5, <1>6, <1>11, <1>12, <1>13, <1>15, <1>16, <1>17, <1>18, <1>19, SAdim


(* A submission whose name was free at Meta: it has the template now.      *)
LEMMA TOlusturYeniKorur ==
  ASSUME NEW f \in [TKimlikler -> TAd], SInvF(f), NEW a \in TSuren, NEW r \in TGonderim, r = tIstek[a], r.adim = "olustur",
         tMeta[r.ad] = Yok, NEW i \in TKimlikler, tAcan[i] = Yok, NEW d \in TMetaDurum,
         tMeta' = [tMeta EXCEPT ![r.ad] = [kimlik |-> i, metin |-> r.metin, durum |-> d]],
         tAcan' = [tAcan EXCEPT ![i] = TSahip(r)],
         NEW k \in TGonderim, k.no = r.no, k.is = r.is, k.ad = r.ad, k.metin = r.metin, k.onceki = r.onceki, k.bayat = r.bayat,
         \/ k.adim = "kaydet" /\ k.kimlik = i /\ UNCHANGED tYarim
         \/ k.adim = "geri" /\ k.kimlik = r.kimlik /\ tYarim' = tYarim \cup {TSahip(r)},
         TIlerlet(a, k, IF r.no = Yok THEN {0} ELSE {r.no, TSahip(r)}),
         UNCHANGED <<tSatir, tSonNo, tAsili, tSasan>>
  PROVE  \E g \in [TKimlikler -> TAd] : SInvF(g)'
<1>0. /\ STip /\ STek /\ SAdli(f) /\ SHazir /\ THazirAd \in TAd /\ a \in TIstek /\ SGonderim(f, r)
      /\ k \in TKayit /\ k \notin TDuzelt /\ k \notin TEsleme
  BY SablonVarsayimi, TAyri DEF SInvF, SAdli, SBilgi, TSuren, TKayit
<1>1. PICK S : S = IF r.no = Yok THEN {0} ELSE {r.no, TSahip(r)}
  OBVIOUS
<1>2. PICK sahip : sahip = TSahip(r)
  OBVIOUS
<1>3. PICK g : g = [f EXCEPT ![i] = r.ad]
  OBVIOUS
<1>4. r.ad \in TAd /\ r.metin \in TMetin \cup {HazirMetin, Yok} /\ r.no \in TNolar \cup {Yok} /\ r.is \in {"ozel", "hazir"}
  BY DEF TGonderim
<1>5. /\ r.is = "ozel" => sahip = r.no /\ r.no \in TNolar /\ r.no <= tSonNo /\ sahip # 0
      /\ r.is = "hazir" => sahip = 0 /\ r.ad = THazirAd
      /\ r.no # Yok => r.no \in TNolar /\ r.no <= tSonNo
  <2>1. r \notin TEsleme
    BY TAyri
  <2>2. r.no # Yok => r.no \in TNolar /\ r.no <= tSonNo
    BY <1>0, <1>4, <2>1 DEF STek
  <2>3. r.is = "ozel" => r.no # Yok /\ sahip = r.no
    BY <1>0, <1>2 DEF SGonderim, TSahip
  <2>4. r.is = "hazir" => sahip = 0 /\ r.ad = THazirAd
    BY <1>0, <1>2 DEF SGonderim, TSahip
  <2>5. 0 \notin TNolar
    BY DEF TNolar
  <2> QED BY <2>2, <2>3, <2>4, <2>5
<1>6. sahip \in 0..TNo /\ sahip <= tSonNo /\ sahip # Yok /\ sahip \in Int /\ tSonNo \in Nat
  <2>1. tSonNo \in Nat
    BY <1>0, SablonVarsayimi DEF STip, SVeri
  <2> QED BY <1>4, <1>5, <2>1, TYokDegil, SablonVarsayimi DEF TNolar
<1>7. S \in SUBSET (0..TNo) /\ sahip \in S /\ S # {} /\ TIlerlet(a, k, S) /\ (S = {0} \/ (r.no # Yok /\ S = {r.no, sahip}))
  <2>1. r.no = Yok => sahip = 0
    BY <1>4, <1>5, TYokDegil
  <2>2. r.no # Yok => r.no \in 0..TNo
    BY <1>5, SablonVarsayimi DEF TNolar
  <2>3. S = {0} \/ (r.no # Yok /\ S = {r.no, sahip})
    BY <1>1, <1>2
  <2>4. S \in SUBSET (0..TNo)
    BY <1>6, <2>2, <2>3, SablonVarsayimi
  <2> QED BY <1>1, <1>2, <2>1, <2>3, <2>4
<1>8. PICK u : u = [kimlik |-> i, metin |-> r.metin, durum |-> d]
  OBVIOUS
<1>9. u \in TMetaSablonu /\ u.kimlik = i /\ u.metin = r.metin /\ u # Yok
  <2>1. u \in TMetaSablonu /\ u.kimlik = i /\ u.metin = r.metin
    BY <1>4, <1>8 DEF TMetaSablonu
  <2> QED BY <2>1, TYokDegil
<1>10. \A m \in TAd : tMeta'[m] = IF m = r.ad THEN u ELSE tMeta[m]
  BY <1>0, <1>4, <1>8 DEF STip, SVeri
<1>11. \A q \in TKimlikler : tAcan'[q] = IF q = i THEN sahip ELSE tAcan[q]
  BY <1>0, <1>2 DEF STip, SVeri
<1>12. g \in [TKimlikler -> TAd] /\ \A q \in TKimlikler : g[q] = IF q = i THEN r.ad ELSE f[q]
  BY <1>3, <1>4
<1>13. \A m \in TAd : tMeta[m] # Yok => tMeta[m].kimlik \in TKimlikler /\ tMeta[m].kimlik # i /\ TAdli(f, tMeta[m].kimlik, m)
  BY <1>0, SMetaKimlikli DEF SAdli, SMeta, TAdli
<1>14. tYarim \subseteq tYarim' /\ tYarim' \subseteq 0..TNo
  BY <1>0, <1>2, <1>6 DEF STip, SVeri
<1>15. SVeri'
  <2>1. tMeta' \in [TAd -> TMetaSablonu \cup {Yok}]
    BY <1>0, <1>8, <1>9 DEF STip, SVeri
  <2>2. tAcan' \in [TKimlikler -> -1..TNo \cup {Yok}]
    <3>1. sahip \in -1..TNo
      BY <1>6, SablonVarsayimi
    <3> QED BY <1>0, <1>2, <3>1 DEF STip, SVeri
  <2> QED BY <1>0, <1>14, <2>1, <2>2 DEF STip, SVeri
<1>16. SNolar'
  BY <1>0, <1>6, <1>11 DEF STek, SNolar
<1>17. SGecis(f, g, S)
  <2>1. \A q \in TKimlikler : tAcan[q] # Yok => tAcan'[q] = tAcan[q] /\ g[q] = f[q]
    BY <1>11, <1>12
  <2>2. \A m \in TAd : tMeta'[m] # Yok =>
          \/ tMeta[m] # Yok /\ tMeta'[m].kimlik = tMeta[m].kimlik /\ tMeta'[m].metin = tMeta[m].metin
          \/ tAcan'[tMeta'[m].kimlik] \in S
    BY <1>7, <1>9, <1>10, <1>11
  <2> QED BY <1>14, <2>1, <2>2 DEF SGecis
<1>18. \A q : a \notin TBorclu(q)
  BY DEF TBorclu
<1>19. SAyrilir(a, S)
  BY <1>18 DEF SAyrilir
<1>20. SMeta(g)'
  <2> SUFFICES ASSUME NEW m \in TAd, tMeta'[m] # Yok PROVE tAcan'[tMeta'[m].kimlik] # Yok /\ g[tMeta'[m].kimlik] = m
    BY DEF SMeta, TAdli
  <2>1. CASE m = r.ad
    BY <1>6, <1>9, <1>10, <1>11, <1>12, <2>1
  <2>2. CASE m # r.ad
    BY <1>10, <1>11, <1>12, <1>13, <2>2 DEF TAdli
  <2> QED BY <2>1, <2>2
<1>21. a \in TSuren' /\ tIstek'[a] = k
  BY <1>0, <1>7, SIlerler, TAyri
<1>22. \A q : TBorclu(q) \subseteq TBorclu(q)'
  <2> SUFFICES ASSUME NEW q PROVE TBorclu(q) \subseteq TBorclu(q)'
    OBVIOUS
  <2>1. TBorclu(q) \ {a} \subseteq TBorclu(q)'
    BY <1>0, <1>7, SBorcluKalir
  <2> QED BY <1>18, <2>1
\* Who is not overtaken has found the row as it was.
<1>23. ASSUME r.no # Yok, r.no \notin r.bayat
       PROVE  /\ tSatir[r.ad] # Yok /\ tSatir[r.ad].no = r.no /\ tSatir[r.ad].durum = "GONDERILIYOR"
              /\ r.is = "ozel" => tSatir[r.ad].ozel /\ tSatir[r.ad].metin = r.metin
              /\ r.no \in tSasan \/ tSatir[r.ad].kimlik = r.kimlik
              /\ r.onceki = "TASLAK" => r.no \in tSasan \/ tSatir[r.ad].kimlik = Yok
              /\ r.onceki = "TASLAK" /\ tSatir[r.ad].ozel => r.no \in TBelirsiz \/ TBorclu(r.no) # {} \/ TAcmamis(r.no)
  BY <1>0, <1>23 DEF SGonderim, SOkunan
<1>24. ASSUME NEW x \in TAd PROVE SSatir(g, x)'
  <2>1. CASE tSatir[x] # Yok /\ tSatir[x].no # sahip
    <3>1. \A m \in TAd : tMeta'[m] # Yok /\ tAcan'[tMeta'[m].kimlik] = tSatir[x].no =>
            tMeta[m] # Yok /\ tMeta'[m].kimlik = tMeta[m].kimlik /\ tMeta'[m].metin = tMeta[m].metin
      BY <1>9, <1>10, <1>11, <2>1
    <3>2. k \in TGonderim /\ k.adim \in {"olustur", "kaydet", "geri"} /\ k.no = tIstek[a].no /\ k.is = tIstek[a].is
      OBVIOUS
    <3> QED BY <1>0, <1>7, <1>17, <1>18, <3>1, <3>2, SSatirKalir
  <2>2. CASE tSatir[x] # Yok /\ tSatir[x].no = sahip
    <3>1. PICK s : s = tSatir[x] /\ s = tSatir'[x]
      OBVIOUS
    <3>2. s.no \in TNolar /\ s.kimlik \in TKimlikler \cup {Yok} /\ r.is = "ozel" /\ s.no = r.no
      <4>1. s.no \in TNolar /\ s.kimlik \in TKimlikler \cup {Yok}
        BY <1>0, <2>2, <3>1, SSatirli
      <4>2. 0 \notin TNolar
        BY DEF TNolar
      <4> QED BY <1>4, <1>5, <2>2, <3>1, <4>1, <4>2
    <3>3. s.kimlik # Yok => tAcan[s.kimlik] # Yok /\ tAcan'[s.kimlik] # Yok /\ g[s.kimlik] = f[s.kimlik]
      BY <1>0, <1>6, <1>11, <1>12, <2>2, <3>1, <3>2 DEF SAdli, SSatir
    <3>4. ASSUME s.no \notin tSasan' PROVE STemiz(g, s, x)'
      <4>1. STemiz(f, s, x)
        BY <1>0, <2>2, <3>1, <3>4 DEF SAdli, SSatir
      <4>2. s.durum = "GONDERILIYOR" => SBekler(s, x)'
        <5>1. a \in TGonderen(s.no)'
          BY <1>21, <3>2 DEF TGonderen
        <5>2. k.is # "hazir"
          BY <3>2
        <5> QED BY <1>21, <4>1, <5>1, <5>2 DEF STemiz, SBekler
      <4>3. ASSUME s.ozel, s.no \notin tYarim', TBorclu(s.no)' = {} PROVE SIstenen(s, x)'
        <5>1. k.adim = "kaydet"
          BY <1>2, <2>2, <3>1, <4>3
        <5>2. r.no \notin r.bayat
          BY <1>21, <3>2, <4>3, <5>1 DEF TBorclu
        <5>3. r.no # Yok /\ TBorclu(r.no) = {} /\ r.no \notin TBelirsiz
          BY <1>14, <1>22, <3>2, <3>4, <4>3, TYokDegil DEF TBelirsiz
        <5>4. x = r.ad /\ s.durum = "GONDERILIYOR" /\ s.metin = r.metin /\ TAcmamis(r.no)
          <6>1. /\ tSatir[r.ad] # Yok /\ tSatir[r.ad].no = r.no /\ tSatir[r.ad].durum = "GONDERILIYOR"
                /\ tSatir[r.ad].ozel /\ tSatir[r.ad].metin = r.metin
                /\ r.onceki = "TASLAK" /\ tSatir[r.ad].ozel => r.no \in TBelirsiz \/ TBorclu(r.no) # {} \/ TAcmamis(r.no)
            BY <1>23, <3>2, <5>2, <5>3
          <6>2. x = r.ad
            BY <1>0, <1>4, <2>2, <3>1, <3>2, <6>1 DEF STek, SNolar
          <6>3. r.onceki = "TASLAK"
            BY <1>0, <3>2 DEF SGonderim
          <6> QED BY <3>1, <5>3, <6>1, <6>2, <6>3
        <5> SUFFICES ASSUME NEW m \in TAd, tMeta'[m] # Yok, tAcan'[tMeta'[m].kimlik] = s.no
                     PROVE  s.durum # "TASLAK" /\ x = m /\ s.metin = tMeta'[m].metin
          BY DEF SIstenen
        <5>5. m = r.ad
          BY <1>10, <1>11, <1>13, <3>2, <5>4 DEF TAcmamis
        <5> QED BY <1>9, <1>10, <5>4, <5>5
      <4> QED BY <3>3, <4>1, <4>2, <4>3 DEF STemiz
    <3> QED BY <3>1, <3>3, <3>4 DEF SSatir
  <2>3. CASE tSatir[x] = Yok
    BY <2>3 DEF SSatir
  <2> QED BY <2>1, <2>2, <2>3
<1>25. SBilgi(g, k)'
  <2>1. ASSUME r.no # Yok, r.no \notin r.bayat, k.adim = "geri", r.onceki = "TASLAK", tSatir[r.ad].ozel
        PROVE  r.no \in TBelirsiz' \/ TBorclu(r.no)' # {} \/ TAcmamis(r.no)'
    <3>1. CASE r.is = "ozel"
      <4>1. r.no \in tYarim'
        BY <1>2, <1>5, <2>1, <3>1
      <4> QED BY <4>1 DEF TBelirsiz
    <3>2. CASE r.is = "hazir"
      <4>1. r.no \in TBelirsiz \/ TBorclu(r.no) # {} \/ TAcmamis(r.no)
        BY <1>23, <2>1
      <4>2. TBelirsiz \subseteq TBelirsiz'
        BY <1>14 DEF TBelirsiz
      <4>3. r.no # 0
        BY <1>5, <2>1 DEF TNolar
      <4>4. TAcmamis(r.no) => TAcmamis(r.no)'
        BY <1>5, <1>9, <1>10, <1>11, <1>13, <3>2, <4>3 DEF TAcmamis
      <4> QED BY <1>22, <4>1, <4>2, <4>4
    <3> QED BY <1>4, <3>1, <3>2
  <2>2. SOkunan(k)'
    <3> SUFFICES ASSUME r.no # Yok, r.no \notin r.bayat PROVE SOkunan(k)'
      BY DEF SOkunan
    <3>1. /\ tSatir[r.ad] # Yok /\ tSatir[r.ad].no = r.no /\ tSatir[r.ad].durum = "GONDERILIYOR"
          /\ r.is = "ozel" => tSatir[r.ad].ozel /\ tSatir[r.ad].metin = r.metin
          /\ r.no \in tSasan \/ tSatir[r.ad].kimlik = r.kimlik
          /\ r.onceki = "TASLAK" => r.no \in tSasan \/ tSatir[r.ad].kimlik = Yok
      BY <1>23
    <3>2. k.adim # "isaretle" /\ (k.adim # "kaydet" => k.adim = "geri" /\ k.kimlik = r.kimlik)
      OBVIOUS
    <3> QED BY <2>1, <3>1, <3>2 DEF SOkunan
  <2>3. /\ k.is = "ozel" => k.no # Yok /\ k.onceki = "TASLAK"
        /\ k.is = "hazir" => k.ad = THazirAd /\ (k.no = Yok <=> k.onceki = Yok)
    BY <1>0 DEF SGonderim
  <2>4. k.kimlik # Yok => tAcan'[k.kimlik] # Yok
    <3>1. CASE k.kimlik = i
      BY <1>6, <1>11, <3>1
    <3>2. CASE k.kimlik = r.kimlik
      <4>1. r.kimlik # Yok => r.kimlik \in TKimlikler /\ tAcan[r.kimlik] # Yok
        BY <1>0 DEF SGonderim, TGonderim
      <4> QED BY <1>11, <1>6, <3>2, <4>1
    <3> QED BY <3>1, <3>2
  <2>5. k.adim = "kaydet" => k.kimlik # Yok /\ g[k.kimlik] = k.ad
    BY <1>12, TYokDegil
  <2>6. SGonderim(g, k)'
    BY <2>2, <2>3, <2>4, <2>5 DEF SGonderim
  <2> QED BY <1>0, <2>6 DEF SBilgi
<1>26. SHazir'
  <2>1. CASE r.is = "hazir"
    <3> SUFFICES ASSUME TBelirsiz' = {}, tMeta'[THazirAd] # Yok PROVE SGelir(tMeta[THazirAd].kimlik)'
      BY DEF SHazir
    <3>1. k.adim = "kaydet" /\ k.kimlik = i
      BY DEF TBelirsiz
    <3>2. tMeta'[THazirAd].kimlik = i
      BY <1>0, <1>5, <1>9, <1>10, <2>1
    <3>3. SGelir(i)'
      BY <1>21, <2>1, <3>1 DEF SGelir
    <3> QED BY <3>2, <3>3
  <2>2. CASE r.is = "ozel"
    <3>1. TBelirsiz \subseteq TBelirsiz'
      BY <1>14 DEF TBelirsiz
    <3>2. tMeta'[THazirAd] # Yok /\ tAcan'[tMeta'[THazirAd].kimlik] = 0 =>
            /\ tMeta[THazirAd] # Yok /\ tMeta'[THazirAd].kimlik = tMeta[THazirAd].kimlik
            /\ tAcan[tMeta[THazirAd].kimlik] = 0
      BY <1>0, <1>5, <1>9, <1>10, <1>11, <1>13, <2>2
    <3>3. ASSUME NEW K \in TKimlikler, SYerinde(K)
          PROVE  /\ tSatir'[THazirAd] # Yok /\ tSatir'[THazirAd].no = tSatir[THazirAd].no
                 /\ tSatir'[THazirAd].kimlik = K /\ ~tSatir'[THazirAd].ozel
                 /\ SYazacak(K, tSatir[THazirAd].no, k)
      <4>1. SYazacak(K, tSatir[THazirAd].no, r)
        BY <3>3 DEF SYerinde
      <4>2. SYazacak(K, tSatir[THazirAd].no, k)
        BY <1>0, <2>2, <4>1 DEF SYazacak
      <4> QED BY <3>3, <4>2 DEF SYerinde
    <3> QED BY <1>0, <1>7, <3>1, <3>2, <3>3, SHazirKalir
  <2> QED BY <1>4, <2>1, <2>2
<1>27. tSonNo <= tSonNo' /\ (k.no # Yok => k.no <= tSonNo')
  BY <1>5, <1>6
<1> HIDE DEF SInvF
<1> QED BY <1>0, <1>7, <1>12, <1>15, <1>16, <1>17, <1>19, <1>20, <1>24, <1>25, <1>26, <1>27, SAdim

(* A submission that Meta refuses, or whose name Meta has.                 *)
LEMMA TOlusturEskiKorur ==
  ASSUME NEW f \in [TKimlikler -> TAd], SInvF(f), NEW a \in TSuren, NEW r \in TGonderim, r = tIstek[a], r.adim = "olustur",
         NEW k \in TGonderim, k.no = r.no, k.is = r.is, k.ad = r.ad, k.metin = r.metin, k.onceki = r.onceki, k.bayat = r.bayat,
         \/ k.adim = "kaydet" /\ tMeta[r.ad] # Yok /\ k.kimlik = tMeta[r.ad].kimlik
         \/ k.adim = "geri" /\ k.kimlik = r.kimlik,
         TIlerlet(a, k, {}), UNCHANGED <<tSatir, tMeta, tAcan, tSonNo, tAsili, tYarim, tSasan>>
  PROVE  SInvF(f)'
<1>0. /\ STip /\ STek /\ SAdli(f) /\ a \in TIstek /\ SGonderim(f, r) /\ THazirAd \in TAd /\ r.ad \in TAd
      /\ k \in TKayit /\ k \notin TDuzelt /\ k \notin TEsleme /\ r \notin TDuzelt /\ r \notin TEsleme
  BY SablonVarsayimi, TAyri DEF SInvF, SAdli, SBilgi, TSuren, TKayit, TGonderim
<1>1. \A q : a \notin TBorclu(q)
  BY DEF TBorclu
<1>2. \A q : TBorclu(q) \subseteq TBorclu(q)'
  <2> SUFFICES ASSUME NEW q PROVE TBorclu(q) \subseteq TBorclu(q)'
    OBVIOUS
  <2>1. TBorclu(q) \ {a} \subseteq TBorclu(q)'
    BY <1>0, SBorcluKalir
  <2> QED BY <1>1, <2>1
<1>3. SOkunan(k)'
  <2> SUFFICES ASSUME r.no # Yok, r.no \notin r.bayat PROVE SOkunan(k)'
    BY DEF SOkunan
  <2>1. /\ tSatir[r.ad] # Yok /\ tSatir[r.ad].no = r.no /\ tSatir[r.ad].durum = "GONDERILIYOR"
        /\ r.is = "ozel" => tSatir[r.ad].ozel /\ tSatir[r.ad].metin = r.metin
        /\ r.no \in tSasan \/ tSatir[r.ad].kimlik = r.kimlik
        /\ r.onceki = "TASLAK" => r.no \in tSasan \/ tSatir[r.ad].kimlik = Yok
        /\ r.onceki = "TASLAK" /\ tSatir[r.ad].ozel => r.no \in TBelirsiz \/ TBorclu(r.no) # {} \/ TAcmamis(r.no)
    BY <1>0 DEF SGonderim, SOkunan
  <2>2. r.no \in TBelirsiz \/ TBorclu(r.no) # {} \/ TAcmamis(r.no) => (r.no \in TBelirsiz \/ TBorclu(r.no) # {} \/ TAcmamis(r.no))'
    BY <1>2 DEF TBelirsiz, TAcmamis
  <2>3. k.adim # "isaretle" /\ (k.adim # "kaydet" => k.kimlik = r.kimlik)
    OBVIOUS
  <2> QED BY <2>1, <2>2, <2>3 DEF SOkunan
<1>4. SBilgi(f, k)'
  <2>1. k.adim = "kaydet" => k.kimlik \in TKimlikler /\ tAcan[k.kimlik] # Yok /\ f[k.kimlik] = r.ad
    BY <1>0, SMetaKimlikli DEF SAdli, SMeta, TAdli
  <2>2. SGonderim(f, k)'
    BY <1>0, <1>3, <2>1, TYokDegil DEF SGonderim
  <2> QED BY <1>0, <2>2 DEF SBilgi
<1>5. ASSUME NEW K \in TKimlikler, SYerinde(K), tMeta[THazirAd] # Yok, tMeta[THazirAd].kimlik = K
      PROVE  SYazacak(K, tSatir[THazirAd].no, k)
  <2>1. SYazacak(K, tSatir[THazirAd].no, r)
    BY <1>5 DEF SYerinde
  <2>2. r.is = "hazir" => r.ad = THazirAd
    BY <1>0 DEF SGonderim
  <2>3. r.is \in {"ozel", "hazir"}
    BY DEF TGonderim
  <2> QED BY <1>0, <1>5, <2>1, <2>2, <2>3 DEF SYazacak
<1>6. k.no # Yok => k.no <= tSonNo
  BY <1>0 DEF STek
<1>7. /\ tAsili \subseteq TNolar /\ tYarim \subseteq 0..TNo /\ tIstek[a].adim # "kaydet"
      /\ k.adim \in {"olustur", "kaydet", "geri"} /\ k.no = tIstek[a].no /\ k.is = tIstek[a].is
  BY <1>0 DEF STip, SVeri
<1> HIDE DEF SInvF
<1> QED BY <1>0, <1>1, <1>4, <1>5, <1>6, <1>7, SOkur

LEMMA TOlusturKorur ==
  ASSUME NEW f \in [TKimlikler -> TAd], SInvF(f), NEW a \in TIstek, TOlustur(a)
  PROVE  \E g \in [TKimlikler -> TAd] : SInvF(g)'
<1>0. STip /\ STek /\ SAdli(f) /\ UNCHANGED <<tSatir, tSonNo, tAsili, tSasan>>
  BY DEF SInvF, TOlustur
<1>1. PICK r : r = tIstek[a]
  OBVIOUS
<1>2. r.adim = "olustur" /\ a \in TSuren /\ r \in TGonderim
  BY <1>0, <1>1, TKimdir DEF TOlustur
<1>4. PICK S : S = IF r.no = Yok THEN {0} ELSE {r.no, TSahip(r)}
  OBVIOUS
<1>5. PICK geri : geri = [r EXCEPT !.adim = "geri"]
  OBVIOUS
<1>6. /\ geri \in TGonderim /\ geri.adim = "geri" /\ geri.kimlik = r.kimlik
      /\ geri.no = r.no /\ geri.is = r.is /\ geri.ad = r.ad /\ geri.metin = r.metin /\ geri.onceki = r.onceki /\ geri.bayat = r.bayat
  BY <1>2, <1>5 DEF TGonderim
<1>8. CASE TIlerlet(a, geri, {}) /\ UNCHANGED <<tMeta, tAcan, tYarim>>
  <2>1. SInvF(f)'
    <3> HIDE DEF SInvF
    <3> QED BY <1>0, <1>1, <1>2, <1>6, <1>8, TOlusturEskiKorur
  <2> QED BY <2>1
<1>9. CASE /\ tMeta[r.ad] # Yok
           /\ TIlerlet(a, [r EXCEPT !.adim = "kaydet", !.kimlik = tMeta[r.ad].kimlik, !.durum = TYazilan(tMeta[r.ad].durum)], {})
           /\ UNCHANGED <<tMeta, tAcan, tYarim>>
  <2>1. PICK k : k = [r EXCEPT !.adim = "kaydet", !.kimlik = tMeta[r.ad].kimlik, !.durum = TYazilan(tMeta[r.ad].durum)]
    OBVIOUS
  <2>2. tMeta[r.ad].kimlik \in TKimlikler /\ TYazilan(tMeta[r.ad].durum) \in TMetaDurum
    <3>1. r.ad \in TAd
      BY <1>2 DEF TGonderim
    <3> QED BY <1>0, <1>9, <3>1, SMetaKimlikli DEF TYazilan, TMetaDurum
  <2>3. /\ k \in TGonderim /\ k.adim = "kaydet" /\ k.kimlik = tMeta[r.ad].kimlik
        /\ k.no = r.no /\ k.is = r.is /\ k.ad = r.ad /\ k.metin = r.metin /\ k.onceki = r.onceki /\ k.bayat = r.bayat
    BY <1>2, <2>1, <2>2 DEF TGonderim
  <2>4. TIlerlet(a, k, {})
    BY <1>9, <2>1
  <2>5. SInvF(f)'
    <3> HIDE DEF SInvF
    <3> QED BY <1>0, <1>1, <1>2, <1>9, <2>3, <2>4, TOlusturEskiKorur
  <2> QED BY <2>5
<1>10. CASE /\ tMeta[r.ad] = Yok
            /\ \E i \in Ilk(TKimlikler \ TVerilen), d \in {"BEKLIYOR", "ONAYLANDI"} :
                 /\ tMeta' = [tMeta EXCEPT ![r.ad] = [kimlik |-> i, metin |-> r.metin, durum |-> d]]
                 /\ tAcan' = [tAcan EXCEPT ![i] = TSahip(r)]
                 /\ \/ TIlerlet(a, [r EXCEPT !.adim = "kaydet", !.kimlik = i, !.durum = d], S) /\ UNCHANGED tYarim
                    \/ TIlerlet(a, geri, S) /\ tYarim' = tYarim \cup {TSahip(r)}
  <2>1. PICK i \in Ilk(TKimlikler \ TVerilen), d \in {"BEKLIYOR", "ONAYLANDI"} :
                 /\ tMeta' = [tMeta EXCEPT ![r.ad] = [kimlik |-> i, metin |-> r.metin, durum |-> d]]
                 /\ tAcan' = [tAcan EXCEPT ![i] = TSahip(r)]
                 /\ \/ TIlerlet(a, [r EXCEPT !.adim = "kaydet", !.kimlik = i, !.durum = d], S) /\ UNCHANGED tYarim
                    \/ TIlerlet(a, geri, S) /\ tYarim' = tYarim \cup {TSahip(r)}
    BY <1>10
  <2>2. i \in TKimlikler /\ tAcan[i] = Yok /\ d \in TMetaDurum
    BY DEF Ilk, TVerilen, TMetaDurum
  <2>3. PICK q : q = [r EXCEPT !.adim = "kaydet", !.kimlik = i, !.durum = d]
    OBVIOUS
  <2>4. PICK k : /\ TIlerlet(a, k, S)
                 /\ \/ k = q /\ UNCHANGED tYarim
                    \/ k = geri /\ tYarim' = tYarim \cup {TSahip(r)}
    BY <2>1, <2>3
  <2>5. /\ q \in TGonderim /\ q.adim = "kaydet" /\ q.kimlik = i
        /\ q.no = r.no /\ q.is = r.is /\ q.ad = r.ad /\ q.metin = r.metin /\ q.onceki = r.onceki /\ q.bayat = r.bayat
    BY <1>2, <2>2, <2>3 DEF TGonderim
  <2>6. /\ k \in TGonderim
        /\ k.no = r.no /\ k.is = r.is /\ k.ad = r.ad /\ k.metin = r.metin /\ k.onceki = r.onceki /\ k.bayat = r.bayat
        /\ \/ k.adim = "kaydet" /\ k.kimlik = i /\ UNCHANGED tYarim
           \/ k.adim = "geri" /\ k.kimlik = r.kimlik /\ tYarim' = tYarim \cup {TSahip(r)}
    BY <1>6, <2>4, <2>5
  <2>7. TIlerlet(a, k, IF r.no = Yok THEN {0} ELSE {r.no, TSahip(r)})
    BY <1>4, <2>4
  <2>8. /\ tMeta[r.ad] = Yok /\ tMeta' = [tMeta EXCEPT ![r.ad] = [kimlik |-> i, metin |-> r.metin, durum |-> d]]
        /\ tAcan' = [tAcan EXCEPT ![i] = TSahip(r)]
    BY <1>10, <2>1
  <2> HIDE DEF SInvF
  <2> QED BY <1>0, <1>1, <1>2, <2>2, <2>6, <2>7, <2>8, TOlusturYeniKorur
<1> QED BY <1>1, <1>4, <1>5, <1>8, <1>9, <1>10 DEF TOlustur


(* New ids are counted out, one per name.                                  *)
TKacinci(W, n) == Cardinality({x \in W : x <= n})
LEMMA TSayilir ==
  ASSUME NEW W \in SUBSET TAd
  PROVE  /\ IsFiniteSet(W) /\ Cardinality(W) \in Nat
         /\ \A n \in W : TKacinci(W, n) \in 1..Cardinality(W)
         /\ \A n, m \in W : TKacinci(W, n) = TKacinci(W, m) => n = m
<1>1. IsFiniteSet(W) /\ Cardinality(W) \in Nat /\ W \subseteq Nat
  <2>1. IsFiniteSet(W)
    BY SablonVarsayimi, FS_Subset
  <2> QED BY <2>1, SablonVarsayimi, FS_CardinalityType
<1>2. ASSUME NEW n \in W
      PROVE  /\ IsFiniteSet({x \in W : x <= n}) /\ TKacinci(W, n) \in Nat
             /\ TKacinci(W, n) <= Cardinality(W) /\ TKacinci(W, n) # 0
  <2>1. PICK Q : Q = {x \in W : x <= n}
    OBVIOUS
  <2>2. Q \in SUBSET W /\ n \in Q
    BY <1>1, <2>1
  <2>3. IsFiniteSet(Q) /\ Cardinality(Q) <= Cardinality(W)
    BY <1>1, <2>2, FS_Subset
  <2>4. Cardinality(Q) \in Nat /\ Cardinality(Q) # 0
    BY <2>2, <2>3, FS_CardinalityType, FS_EmptySet
  <2> QED BY <2>1, <2>3, <2>4 DEF TKacinci
<1>3. ASSUME NEW n \in W, NEW m \in W, n <= m, TKacinci(W, n) = TKacinci(W, m) PROVE n = m
  <2>1. PICK Q, R : Q = {x \in W : x <= n} /\ R = {x \in W : x <= m}
    OBVIOUS
  <2>2. Q \in SUBSET R /\ m \in R
    <3>1. n \in Nat /\ m \in Nat
      BY <1>1, <1>3
    <3>2. \A x \in W : x <= n => x <= m
      BY <1>1, <1>3, <3>1
    <3>3. Q \subseteq R
      BY <2>1, <3>2
    <3>4. m \in R
      BY <2>1, <3>1
    <3> QED BY <3>3, <3>4
  <2>3. IsFiniteSet(R) /\ Cardinality(R) = Cardinality(Q)
    BY <1>2, <1>3, <2>1 DEF TKacinci
  <2>4. R = Q
    BY <2>2, <2>3, FS_Subset
  <2> QED BY <1>1, <1>3, <2>1, <2>2, <2>4
<1>4. \A n, m \in W : n <= m \/ m <= n
  BY <1>1
<1>5. \A n \in W : TKacinci(W, n) \in 1..Cardinality(W)
  <2> SUFFICES ASSUME NEW n \in W PROVE TKacinci(W, n) \in 1..Cardinality(W)
    OBVIOUS
  <2>1. TKacinci(W, n) \in Nat /\ TKacinci(W, n) <= Cardinality(W) /\ TKacinci(W, n) # 0
    BY <1>2
  <2> QED BY <1>1, <2>1
<1>6. \A n, m \in W : TKacinci(W, n) = TKacinci(W, m) => n = m
  BY <1>3, <1>4
<1> QED BY <1>1, <1>5, <1>6

LEMMA TEsleKorur ==
  ASSUME NEW f \in [TKimlikler -> TAd], SInvF(f), NEW a \in TIstek, TEsle(a)
  PROVE  SInvF(f)'
<1>0. STip /\ STek /\ SAdli(f) /\ SHazir /\ THazirAd \in TAd /\ UNCHANGED <<tMeta, tAcan, tYarim>>
  BY SablonVarsayimi DEF SInvF, TEsle
<1>1. PICK r : r = tIstek[a]
  OBVIOUS
<1>2. r.adim = "esle" /\ a \in TSuren /\ r \in TEsleme /\ SListe(f, r)
  <2>1. r.adim = "esle" /\ a \in TSuren /\ r \in TEsleme
    BY <1>0, <1>1, TKimdir DEF TEsle
  <2> QED BY <1>0, <1>1, <2>1 DEF SAdli, SBilgi
<1>3. PICK L : L = DOMAIN r.liste
  OBVIOUS
<1>4. L \subseteq TAd /\ \A n \in L : r.liste[n].kimlik \in TKimlikler /\ r.liste[n].durum \in TMetaDurum
  <2>1. r.liste \in TListe
    BY <1>2 DEF TEsleme
  <2> QED BY <1>3, <2>1 DEF TListe
<1>5. PICK W : W = {n \in L : tSatir[n] = Yok}
  OBVIOUS
<1>6. PICK no : no = [n \in L |-> IF tSatir[n] = Yok THEN tSonNo + TKacinci(W, n) ELSE tSatir[n].no]
  OBVIOUS
<1>7. PICK k : k = IF r.tam THEN [r EXCEPT !.adim = "hayalet"] ELSE Bitti
  OBVIOUS
<1>8. PICK S : S = {no[n] : n \in L}
  OBVIOUS
<1>9. /\ tSonNo + Cardinality(W) <= TNo /\ tSonNo' = tSonNo + Cardinality(W)
      /\ tSatir' = [n \in TAd |->
           IF n \in L
           THEN [no |-> no[n], durum |-> r.liste[n].durum, ozel |-> tSatir[n] # Yok /\ tSatir[n].ozel,
                 metin |-> IF n = THazirAd /\ ~(tSatir[n] # Yok /\ tSatir[n].ozel) THEN HazirMetin
                           ELSE IF tSatir[n] = Yok THEN Yok ELSE tSatir[n].metin,
                 kimlik |-> r.liste[n].kimlik]
           ELSE tSatir[n]]
      /\ TYaz(a, k, S) /\ tAsili' = tAsili \ S
  <2>1. \A n \in L : no[n] = IF tSatir[n] = Yok THEN tSonNo + Cardinality({x \in W : x <= n}) ELSE tSatir[n].no
    BY <1>6 DEF TKacinci
  <2>2. S = {IF tSatir[n] = Yok THEN tSonNo + Cardinality({x \in W : x <= n}) ELSE tSatir[n].no : n \in L}
    BY <1>8, <2>1
  <2> QED BY <1>1, <1>3, <1>5, <1>7, <2>1, <2>2 DEF TEsle
<1>10. tSonNo \in Nat /\ TNo \in Nat /\ tSonNo' \in 0..TNo /\ tSonNo <= tSonNo' /\ W \in SUBSET TAd /\ Cardinality(W) \in Nat
  <2>1. W \in SUBSET TAd
    BY <1>4, <1>5
  <2>2. Cardinality(W) \in Nat
    BY <2>1, TSayilir
  <2>3. tSonNo \in Nat /\ TNo \in Nat
    BY <1>0, SablonVarsayimi DEF STip, SVeri
  <2> QED BY <1>9, <2>1, <2>2, <2>3
<1>11. \A n \in TAd : tSatir[n] # Yok => tSatir[n] \in SablonSatiri /\ tSatir[n].no \in TNolar /\ tSatir[n].no <= tSonNo
  BY <1>0, SSatirli DEF STek, SNolar
<1>12. \A n \in L : /\ tSatir[n] # Yok => no[n] = tSatir[n].no
                    /\ tSatir[n] = Yok => no[n] = tSonNo + TKacinci(W, n) /\ TKacinci(W, n) \in 1..Cardinality(W) /\ n \in W
  <2>1. \A n \in W : TKacinci(W, n) \in 1..Cardinality(W)
    BY <1>10, TSayilir
  <2> QED BY <1>5, <1>6, <2>1
<1>13. \A n \in L : no[n] \in TNolar /\ no[n] <= tSonNo' /\ (tSatir[n] = Yok => no[n] > tSonNo)
  <2> SUFFICES ASSUME NEW n \in L PROVE no[n] \in TNolar /\ no[n] <= tSonNo' /\ (tSatir[n] = Yok => no[n] > tSonNo)
    OBVIOUS
  <2>1. CASE tSatir[n] = Yok
    <3>1. no[n] = tSonNo + TKacinci(W, n) /\ TKacinci(W, n) \in 1..Cardinality(W)
      BY <1>12, <2>1
    <3> QED BY <1>9, <1>10, <2>1, <3>1 DEF TNolar
  <2>2. CASE tSatir[n] # Yok
    <3>1. no[n] = tSatir[n].no /\ tSatir[n].no \in TNolar /\ tSatir[n].no <= tSonNo
      BY <1>4, <1>11, <1>12, <2>2
    <3> QED BY <1>9, <1>10, <2>2, <3>1 DEF TNolar
  <2> QED BY <2>1, <2>2
<1>14. \A n, m \in L : no[n] = no[m] => n = m
  <2> SUFFICES ASSUME NEW n \in L, NEW m \in L, no[n] = no[m] PROVE n = m
    OBVIOUS
  <2>1. CASE tSatir[n] = Yok /\ tSatir[m] = Yok
    <3>1. \A x, y \in W : TKacinci(W, x) = TKacinci(W, y) => x = y
      BY <1>10, TSayilir
    <3>2. /\ no[n] = tSonNo + TKacinci(W, n) /\ TKacinci(W, n) \in 1..Cardinality(W) /\ n \in W
          /\ no[m] = tSonNo + TKacinci(W, m) /\ TKacinci(W, m) \in 1..Cardinality(W) /\ m \in W
      BY <1>12, <2>1
    <3>3. TKacinci(W, n) = TKacinci(W, m)
      <4>1. PICK p, q : p = TKacinci(W, n) /\ q = TKacinci(W, m)
        OBVIOUS
      <4>2. p \in 1..Cardinality(W) /\ q \in 1..Cardinality(W) /\ no[n] = tSonNo + p /\ no[m] = tSonNo + q
        BY <3>2, <4>1
      <4>3. p \in Int /\ q \in Int /\ tSonNo \in Int
        BY <1>10, <4>2
      <4>4. tSonNo + p = tSonNo + q
        BY <4>2
      <4>5. p = q
        BY <4>3, <4>4
      <4> QED BY <4>1, <4>5
    <3> QED BY <3>1, <3>2, <3>3
  <2>2. CASE tSatir[n] # Yok /\ tSatir[m] # Yok
    BY <1>0, <1>4, <1>12, <2>2 DEF STek, SNolar
  <2>3. CASE tSatir[n] = Yok /\ tSatir[m] # Yok
    <3>1. no[n] > tSonNo /\ no[m] <= tSonNo /\ no[n] \in Int
      BY <1>4, <1>11, <1>12, <1>13, <2>3 DEF TNolar
    <3> QED BY <1>10, <3>1
  <2>4. CASE tSatir[n] # Yok /\ tSatir[m] = Yok
    <3>1. no[m] > tSonNo /\ no[n] <= tSonNo /\ no[m] \in Int
      BY <1>4, <1>11, <1>12, <1>13, <2>4 DEF TNolar
    <3> QED BY <1>10, <3>1
  <2> QED BY <2>1, <2>2, <2>3, <2>4
<1>15. \A n \in L, m \in TAd \ L : tSatir[m] # Yok => no[n] # tSatir[m].no
  <2> SUFFICES ASSUME NEW n \in L, NEW m \in TAd \ L, tSatir[m] # Yok PROVE no[n] # tSatir[m].no
    OBVIOUS
  <2>1. CASE tSatir[n] # Yok
    BY <1>0, <1>4, <1>12, <2>1 DEF STek, SNolar
  <2>2. CASE tSatir[n] = Yok
    <3>1. no[n] > tSonNo /\ tSatir[m].no <= tSonNo /\ tSatir[m].no \in Int /\ no[n] \in Int
      BY <1>11, <1>13, <2>2 DEF TNolar
    <3> QED BY <1>10, <3>1
  <2> QED BY <2>1, <2>2
<1>16. \A n \in TAd \ L : tSatir'[n] = tSatir[n]
  BY <1>9
<1>17. \A n \in L : /\ tSatir'[n] \in SablonSatiri /\ tSatir'[n] # Yok /\ tSatir'[n].no = no[n]
                    /\ tSatir'[n].durum = r.liste[n].durum /\ tSatir'[n].kimlik = r.liste[n].kimlik
                    /\ tSatir'[n].ozel = (tSatir[n] # Yok /\ tSatir[n].ozel)
                    /\ tSatir[n] # Yok /\ tSatir[n].ozel => tSatir'[n].metin = tSatir[n].metin
  <2> SUFFICES ASSUME NEW n \in L
               PROVE /\ tSatir'[n] \in SablonSatiri /\ tSatir'[n].no = no[n]
                     /\ tSatir'[n].durum = r.liste[n].durum /\ tSatir'[n].kimlik = r.liste[n].kimlik
                     /\ tSatir'[n].ozel = (tSatir[n] # Yok /\ tSatir[n].ozel)
                     /\ tSatir[n] # Yok /\ tSatir[n].ozel => tSatir'[n].metin = tSatir[n].metin
    BY TYokDegil
  <2>1. PICK m : m = IF n = THazirAd /\ ~(tSatir[n] # Yok /\ tSatir[n].ozel) THEN HazirMetin
                       ELSE IF tSatir[n] = Yok THEN Yok ELSE tSatir[n].metin
    OBVIOUS
  <2>2. PICK oz : oz = (tSatir[n] # Yok /\ tSatir[n].ozel)
    OBVIOUS
  <2>3. tSatir'[n] = [no |-> no[n], durum |-> r.liste[n].durum, ozel |-> oz, metin |-> m, kimlik |-> r.liste[n].kimlik]
    BY <1>4, <1>9, <2>1, <2>2
  <2>4. oz \in BOOLEAN
    BY <2>2
  <2>5. tSatir[n] # Yok => tSatir[n].metin \in TMetin \cup {HazirMetin, Yok}
    BY <1>4, <1>11 DEF SablonSatiri
  <2>6. m \in TMetin \cup {HazirMetin, Yok} /\ (tSatir[n] # Yok /\ tSatir[n].ozel => m = tSatir[n].metin)
    <3>1. CASE tSatir[n] # Yok /\ tSatir[n].ozel
      BY <2>1, <2>5, <3>1
    <3>2. CASE ~(tSatir[n] # Yok /\ tSatir[n].ozel) /\ n = THazirAd
      BY <2>1, <3>2
    <3>3. CASE ~(tSatir[n] # Yok /\ tSatir[n].ozel) /\ n # THazirAd
      BY <2>1, <2>5, <3>3
    <3> QED BY <3>1, <3>2, <3>3
  <2>7. r.liste[n].durum \in TDurum
    BY <1>4 DEF TDurum
  <2>8. tSatir'[n] \in SablonSatiri
    BY <1>4, <1>13, <2>3, <2>4, <2>6, <2>7 DEF SablonSatiri
  <2> QED BY <2>2, <2>3, <2>6, <2>8
<1>18. S \in SUBSET (0..TNo) /\ S \subseteq TNolar
  <2>1. S \subseteq TNolar
    BY <1>8, <1>13
  <2>2. TNolar \subseteq 0..TNo
    BY SablonVarsayimi DEF TNolar
  <2> QED BY <2>1, <2>2
<1>19. k \in TKayit \cup {Bitti} /\ (k \in TKayit => k = [r EXCEPT !.adim = "hayalet"] /\ r.tam /\ k \in TEsleme)
  <2>1. [r EXCEPT !.adim = "hayalet"] \in TEsleme
    BY <1>2 DEF TEsleme
  <2> QED BY <1>7, <2>1, TAyri DEF TKayit
<1>20. k \in TKayit => /\ k \in TEsleme /\ k.adim = "hayalet" /\ k.liste = r.liste /\ k.tam = r.tam /\ r.tam /\ k.bayat = r.bayat
                       /\ k \notin TDuzelt /\ k \notin TGonderim
  <2> SUFFICES ASSUME k \in TKayit
               PROVE  k.adim = "hayalet" /\ k.liste = r.liste /\ k.tam = r.tam /\ k.bayat = r.bayat
    BY <1>19, TAyri
  <2> QED BY <1>2, <1>19 DEF TEsleme
<1>21. TIlerlet(a, k, S) /\ tSasan' = tSasan \cup (r.bayat \cap S)
  BY <1>1, <1>9 DEF TYaz
<1>22. SVeri'
  <2>1. tSatir' \in [TAd -> SablonSatiri \cup {Yok}]
    <3>1. \A n \in TAd : tSatir'[n] \in SablonSatiri \cup {Yok}
      BY <1>0, <1>16, <1>17 DEF STip, SVeri
    <3> QED BY <1>9, <3>1
  <2>2. tSasan' \subseteq 0..TNo /\ tAsili' \subseteq TNolar
    BY <1>0, <1>9, <1>18, <1>21 DEF STip, SVeri
  <2> QED BY <1>0, <1>10, <2>1, <2>2 DEF STip, SVeri
<1>23. SNolar'
  <2>1. \A n, m \in TAd : tSatir'[n] # Yok /\ tSatir'[m] # Yok /\ tSatir'[n].no = tSatir'[m].no => n = m
    <3> SUFFICES ASSUME NEW n \in TAd, NEW m \in TAd, tSatir'[n] # Yok, tSatir'[m] # Yok, tSatir'[n].no = tSatir'[m].no
                 PROVE  n = m
      OBVIOUS
    <3>1. CASE n \in L /\ m \in L
      BY <1>14, <1>17, <3>1
    <3>2. CASE n \in L /\ m \notin L
      BY <1>15, <1>16, <1>17, <3>2
    <3>3. CASE n \notin L /\ m \in L
      BY <1>15, <1>16, <1>17, <3>3
    <3>4. CASE n \notin L /\ m \notin L
      BY <1>0, <1>16, <3>4 DEF STek, SNolar
    <3> QED BY <3>1, <3>2, <3>3, <3>4
  <2>2. \A n \in TAd : tSatir'[n] # Yok => tSatir'[n].no <= tSonNo'
    <3> SUFFICES ASSUME NEW n \in TAd, tSatir'[n] # Yok PROVE tSatir'[n].no <= tSonNo'
      OBVIOUS
    <3>1. CASE n \in L
      BY <1>13, <1>17, <3>1
    <3>2. CASE n \notin L
      <4>1. tSatir'[n].no <= tSonNo /\ tSatir'[n].no \in Int
        BY <1>11, <1>16, <3>2 DEF TNolar
      <4> QED BY <1>10, <4>1
    <3> QED BY <3>1, <3>2
  <2>3. \A q \in TKimlikler : tAcan[q] # Yok => tAcan[q] <= tSonNo'
    <3> SUFFICES ASSUME NEW q \in TKimlikler, tAcan[q] # Yok PROVE tAcan[q] <= tSonNo'
      OBVIOUS
    <3>1. tAcan[q] <= tSonNo /\ tAcan[q] \in Int
      BY <1>0, SablonVarsayimi DEF STip, SVeri, STek, SNolar
    <3> QED BY <1>10, <3>1
  <2> QED BY <1>0, <2>1, <2>2, <2>3 DEF SNolar
<1>24. SGecis(f, f, S)
  <2>1. \A n \in TAd : tSatir[n] # Yok /\ tSatir[n].no \notin S => tSatir'[n] = tSatir[n]
    BY <1>8, <1>12, <1>16
  <2> QED BY <1>0, <1>21, <2>1 DEF SGecis
<1>25. \A q : a \notin TGonderen(q) /\ a \notin TBorclu(q)
  BY <1>1, <1>2 DEF TGonderen, TBorclu
<1>26. SAyrilir(a, S) /\ tIstek[a].adim # "kaydet"
  BY <1>1, <1>2, <1>25 DEF SAyrilir
<1>27. SMeta(f)'
  BY <1>0 DEF SAdli, SMeta, TAdli
<1>28. ASSUME NEW n \in TAd PROVE SSatir(f, n)'
  <2>1. CASE n \notin L
    <3>1. tSatir'[n] = tSatir[n]
      BY <1>16, <2>1
    <3>2. tSatir[n] # Yok => tSatir[n].no \notin S
      BY <1>8, <1>15, <2>1
    <3>3. tSatir[n] # Yok /\ tSatir[n].no \in tAsili => tSatir[n].no \in tAsili'
      BY <1>9, <3>2
    <3>4. \A m \in TAd : tMeta'[m] # Yok /\ tAcan'[tMeta'[m].kimlik] = tSatir[n].no =>
            tMeta[m] # Yok /\ tMeta'[m].kimlik = tMeta[m].kimlik /\ tMeta'[m].metin = tMeta[m].metin
      BY <1>0
    <3>5. k \in TKayit \cup {Bos, Bitti}
      BY <1>19
    <3> QED BY <1>0, <1>18, <1>21, <1>24, <1>25, <3>1, <3>3, <3>4, <3>5, SSatirKalir
  <2>2. CASE n \in L
    <3>1. PICK s : s = tSatir'[n]
      OBVIOUS
    <3>2. /\ s # Yok /\ s.no = no[n] /\ s.durum \in TMetaDurum /\ s.kimlik = r.liste[n].kimlik
          /\ s.ozel = (tSatir[n] # Yok /\ tSatir[n].ozel)
          /\ tSatir[n] # Yok /\ tSatir[n].ozel => s.metin = tSatir[n].metin
      BY <1>4, <1>17, <2>2, <3>1
    <3>3. tAcan[s.kimlik] # Yok /\ f[s.kimlik] = n
      BY <1>2, <1>3, <2>2, <3>2 DEF SListe, TAdli
    <3>4. ASSUME s.no \notin tSasan' PROVE STemiz(f, s, n)'
      <4>1. s.durum # "TASLAK" /\ s.durum # "GONDERILIYOR"
        BY <3>2 DEF TMetaDurum
      <4>2. ASSUME s.ozel, s.no \notin tYarim', TBorclu(s.no)' = {} PROVE SIstenen(s, n)'
        <5>1. tSatir[n] # Yok /\ tSatir[n].ozel /\ tSatir[n].no = s.no /\ s.metin = tSatir[n].metin
          BY <1>12, <2>2, <3>2, <4>2
        <5>2. TBorclu(s.no) = {}
          <6>1. k \in TKayit \cup {Bos, Bitti}
            BY <1>19
          <6>2. TBorclu(s.no) \ {a} \subseteq TBorclu(s.no)'
            BY <1>0, <1>18, <1>21, <6>1, SBorcluKalir
          <6> QED BY <1>25, <4>2, <6>2
        <5>3. STemiz(f, tSatir[n], n)
          BY <1>0, <1>21, <3>4, <5>1 DEF SAdli, SSatir
        <5>4. SIstenen(tSatir[n], n)
          BY <1>0, <4>2, <5>1, <5>2, <5>3 DEF STemiz
        <5> QED BY <1>0, <4>1, <5>1, <5>4 DEF SIstenen
      <4> QED BY <3>3, <4>1, <4>2 DEF STemiz
    <3> QED BY <1>0, <3>1, <3>3, <3>4 DEF SSatir
  <2> QED BY <2>1, <2>2
<1>29. ASSUME k \in TKayit PROVE SBilgi(f, k)'
  <2>1. /\ k \in TEsleme /\ k.adim = "hayalet" /\ k.liste = r.liste /\ k.tam = r.tam /\ r.tam /\ k.bayat = r.bayat
        /\ k \notin TDuzelt /\ k \notin TGonderim
    BY <1>20, <1>29
  <2>2. \A n \in L : tSatir'[n].durum # "GONDERILIYOR"
    BY <1>4, <1>17 DEF TMetaDurum
  <2>3. (\A x \in DOMAIN k.liste : TAdli(f, k.liste[x].kimlik, x))'
    BY <1>0, <1>2, <2>1 DEF SListe, TAdli
  <2>4. \A m \in TAd \ DOMAIN k.liste : tMeta[m] # Yok => tAcan[tMeta[m].kimlik] \in k.bayat
    BY <1>2, <2>1 DEF SListe
  <2>5. SListe(f, k)'
    BY <1>0, <1>3, <2>1, <2>2, <2>3, <2>4 DEF SListe
  <2> QED BY <2>1, <2>5 DEF SBilgi
<1>30. SHazir'
  <2>1. TBelirsiz \subseteq TBelirsiz' /\ k \in TKayit \cup {Bos, Bitti}
    BY <1>0, <1>19, <1>21 DEF TBelirsiz
  <2>2. ASSUME TBelirsiz' = {}, NEW K \in TKimlikler, SYerinde(K)
        PROVE  /\ tSatir'[THazirAd] # Yok /\ tSatir'[THazirAd].no = tSatir[THazirAd].no
               /\ tSatir'[THazirAd].kimlik = K /\ ~tSatir'[THazirAd].ozel
               /\ k \in TKayit => SYazacak(K, tSatir[THazirAd].no, k)
    <3>1. PICK h : h = tSatir[THazirAd].no
      OBVIOUS
    <3>2. SYazacak(K, h, r) /\ tSatir[THazirAd] # Yok /\ tSatir[THazirAd].kimlik = K /\ ~tSatir[THazirAd].ozel
      BY <1>1, <1>2, <2>2, <3>1 DEF SYerinde
    <3>3. k \in TKayit => SYazacak(K, h, k)
      BY <1>2, <1>20, <3>2 DEF SYazacak
    <3>4. CASE THazirAd \notin L
      <4>1. tSatir'[THazirAd] = tSatir[THazirAd]
        BY <1>0, <1>16, <3>4
      <4> QED BY <3>1, <3>2, <3>3, <4>1
    <3>5. CASE THazirAd \in L
      <4>1. no[THazirAd] = h /\ h \in S
        BY <1>8, <1>12, <3>1, <3>2, <3>5
      <4>2. h \notin r.bayat
        BY <1>21, <2>2, <4>1 DEF TBelirsiz
      <4>3. r.liste[THazirAd].kimlik = K
        BY <1>2, <1>3, <3>2, <3>5, <4>2 DEF SYazacak
      <4> QED BY <1>17, <3>1, <3>2, <3>3, <3>5, <4>1, <4>3
    <3> QED BY <3>4, <3>5
  <2> QED BY <1>0, <1>18, <1>21, <1>26, <2>1, <2>2, SHazirKalir
<1>31. \A n \in TAd : tSatir[n] = Yok /\ tSatir'[n] # Yok => S # {}
  BY <1>8, <1>16
<1>32. k \in TKayit \cup {Bos, Bitti} /\ (k \in TKayit \ TEsleme => FALSE)
  BY <1>19
<1> HIDE DEF SInvF
<1> QED BY <1>10, <1>18, <1>21, <1>22, <1>23, <1>24, <1>26, <1>27, <1>28, <1>29, <1>30, <1>31, <1>32, SAdim


LEMMA THayaletlerKorur ==
  ASSUME NEW f \in [TKimlikler -> TAd], SInvF(f), NEW a \in TIstek, THayaletler(a)
  PROVE  SInvF(f)'
<1>0. STip /\ STek /\ SAdli(f) /\ SHazir /\ THazirAd \in TAd /\ UNCHANGED <<tMeta, tSonNo, tAcan, tYarim>>
  BY SablonVarsayimi DEF SInvF, THayaletler
<1>1. PICK r : r = tIstek[a]
  OBVIOUS
<1>2. r.adim = "hayalet" /\ a \in TSuren /\ r \in TEsleme /\ SListe(f, r) /\ r.tam
  <2>1. r.adim = "hayalet" /\ a \in TSuren /\ r \in TEsleme
    BY <1>0, <1>1, TKimdir DEF THayaletler
  <2> QED BY <1>0, <1>1, <2>1 DEF SAdli, SBilgi, SListe
<1>3. PICK B : B = {n \in TAd : THayalet(r, n) /\ (tSatir[n].ozel \/ n = THazirAd)}
  OBVIOUS
<1>4. PICK S : S = {tSatir[n].no : n \in B}
  OBVIOUS
<1>5. PICK k : k = Bitti
  OBVIOUS
<1>6. /\ tSatir' = [n \in TAd |-> IF n \notin B THEN tSatir[n]
                               ELSE IF tSatir[n].ozel THEN [tSatir[n] EXCEPT !.durum = "TASLAK", !.kimlik = Yok] ELSE Yok]
      /\ tAsili' = (IF r.bayat = {} THEN {} ELSE tAsili \ S) /\ TIlerlet(a, k, S)
      /\ tSasan' = tSasan \cup (r.bayat \cap S) \cup (IF r.bayat \cap S # {} THEN {0} ELSE {})
  <2>1. B = {n \in TAd : THayalet(tIstek[a], n) /\ (tSatir[n].ozel \/ n = THazirAd)}
    BY <1>1, <1>3
  <2>2. S = {tSatir[n].no : n \in {x \in TAd : THayalet(tIstek[a], x) /\ (tSatir[x].ozel \/ x = THazirAd)}}
    BY <1>4, <2>1
  <2>3. /\ tSatir' = [n \in TAd |-> IF n \notin B THEN tSatir[n]
                               ELSE IF tSatir[n].ozel THEN [tSatir[n] EXCEPT !.durum = "TASLAK", !.kimlik = Yok] ELSE Yok]
        /\ tAsili' = (IF tIstek[a].bayat = {} THEN {} ELSE tAsili \ S)
    BY <2>1, <2>2 DEF THayaletler
  <2>4. /\ TIlerlet(a, Bitti, S)
        /\ tSasan' = tSasan \cup (tIstek[a].bayat \cap S) \cup (IF tIstek[a].bayat \cap S # {} THEN {0} ELSE {})
    BY <2>2 DEF THayaletler
  <2> QED BY <1>1, <1>5, <2>3, <2>4
<1>7. k \notin TKayit
  BY <1>5, TAyri
<1>8. \A n \in B : /\ n \in TAd /\ tSatir[n] # Yok /\ tSatir[n] \in SablonSatiri /\ tSatir[n].no \in TNolar
                   /\ n \notin DOMAIN r.liste
  BY <1>0, <1>3, SSatirli DEF THayalet
<1>9. S \in SUBSET (0..TNo) /\ S \subseteq TNolar
  <2>1. S \subseteq TNolar
    BY <1>4, <1>8
  <2>2. TNolar \subseteq 0..TNo
    BY SablonVarsayimi DEF TNolar
  <2> QED BY <2>1, <2>2
<1>10. \A n \in TAd : n \notin B => tSatir'[n] = tSatir[n]
  <2> SUFFICES ASSUME NEW n \in TAd, n \notin B PROVE tSatir'[n] = tSatir[n]
    OBVIOUS
  <2>1. tSatir'[n] = IF n \notin B THEN tSatir[n]
                     ELSE IF tSatir[n].ozel THEN [tSatir[n] EXCEPT !.durum = "TASLAK", !.kimlik = Yok] ELSE Yok
    BY <1>6
  <2> QED BY <2>1
<1>11. \A n \in B : tSatir'[n] # Yok =>
          /\ tSatir'[n] \in SablonSatiri /\ tSatir'[n].no = tSatir[n].no /\ tSatir'[n].ozel /\ tSatir[n].ozel
          /\ tSatir'[n].durum = "TASLAK" /\ tSatir'[n].kimlik = Yok /\ tSatir'[n].metin = tSatir[n].metin
  <2> SUFFICES ASSUME NEW n \in B, tSatir'[n] # Yok
               PROVE /\ tSatir'[n] \in SablonSatiri /\ tSatir'[n].no = tSatir[n].no /\ tSatir'[n].ozel /\ tSatir[n].ozel
                     /\ tSatir'[n].durum = "TASLAK" /\ tSatir'[n].kimlik = Yok /\ tSatir'[n].metin = tSatir[n].metin
    OBVIOUS
  <2>1. n \in TAd /\ tSatir[n] \in SablonSatiri
    BY <1>8
  <2>2. tSatir[n].ozel /\ tSatir'[n] = [tSatir[n] EXCEPT !.durum = "TASLAK", !.kimlik = Yok]
    BY <1>6, <2>1
  <2>3. PICK s, t : s = tSatir[n] /\ t = tSatir'[n]
    OBVIOUS
  <2>4. s \in SablonSatiri /\ t = [s EXCEPT !.durum = "TASLAK", !.kimlik = Yok]
    BY <2>1, <2>2, <2>3
  <2>5. t \in SablonSatiri /\ t.no = s.no /\ t.ozel = s.ozel /\ t.durum = "TASLAK" /\ t.kimlik = Yok /\ t.metin = s.metin
    BY <2>4 DEF SablonSatiri, TDurum
  <2> QED BY <2>2, <2>3, <2>5
<1>12. \A n \in TAd : tSatir'[n] # Yok => tSatir[n] # Yok /\ tSatir'[n] \in SablonSatiri /\ tSatir'[n].no = tSatir[n].no
  BY <1>0, <1>8, <1>10, <1>11, SSatirli
<1>13. SVeri'
  <2>1. tSatir' \in [TAd -> SablonSatiri \cup {Yok}]
    <3>1. \A n \in TAd : tSatir'[n] \in SablonSatiri \cup {Yok}
      BY <1>12
    <3> QED BY <1>6, <3>1
  <2>2. tSasan' \subseteq 0..TNo /\ tAsili' \subseteq TNolar
    <3>1. tSasan \subseteq 0..TNo /\ tAsili \subseteq TNolar /\ 0 \in 0..TNo
      BY <1>0, SablonVarsayimi DEF STip, SVeri
    <3>2. tSasan' \subseteq tSasan \cup S \cup {0} /\ tAsili' \subseteq tAsili
      BY <1>6
    <3> QED BY <1>9, <3>1, <3>2
  <2> QED BY <1>0, <2>1, <2>2 DEF STip, SVeri
<1>14. SNolar'
  BY <1>0, <1>12 DEF STek, SNolar
<1>15. SGecis(f, f, S)
  <2>1. \A n \in TAd : tSatir[n] # Yok /\ tSatir[n].no \notin S => tSatir'[n] = tSatir[n]
    BY <1>4, <1>10
  <2> QED BY <1>0, <1>6, <2>1 DEF SGecis
<1>16. \A q : a \notin TGonderen(q) /\ a \notin TBorclu(q)
  BY <1>1, <1>2 DEF TGonderen, TBorclu
<1>17. SAyrilir(a, S) /\ tIstek[a].adim # "kaydet"
  BY <1>1, <1>2, <1>16 DEF SAyrilir
<1>18. SMeta(f)'
  BY <1>0 DEF SAdli, SMeta, TAdli
<1>19. ASSUME NEW n \in TAd PROVE SSatir(f, n)'
  <2>1. CASE n \notin B
    <3>1. tSatir'[n] = tSatir[n]
      BY <1>10, <2>1
    <3>2. ASSUME tSatir[n] # Yok, tSatir[n].no \notin tSasan', tSatir[n].no \in tAsili, tSatir[n].durum = "GONDERILIYOR"
          PROVE  tSatir[n].no \in tAsili'
      <4>1. tSatir[n].no \notin S
        BY <1>0, <1>4, <1>8, <2>1, <3>2 DEF STek, SNolar
      <4>2. CASE r.bayat # {}
        BY <1>6, <3>2, <4>1, <4>2
      <4>3. CASE r.bayat = {}
        <5>1. STemiz(f, tSatir[n], n) /\ tSatir[n].kimlik \in TKimlikler \cup {Yok}
          BY <1>0, <1>6, <3>2, SSatirli DEF SAdli, SSatir
        <5>2. tSatir[n].ozel \/ n = THazirAd
          BY <3>2, <5>1 DEF STemiz, SBekler
        <5>3. ~THayalet(r, n)
          BY <1>3, <2>1, <5>2
        <5>4. n \notin DOMAIN r.liste
          BY <1>2, <3>2, <4>3 DEF SListe
        <5>5. PICK x \in DOMAIN r.liste : r.liste[x].kimlik = tSatir[n].kimlik
          BY <3>2, <5>3, <5>4 DEF THayalet
        <5>6. r.liste[x].kimlik \in TKimlikler /\ f[r.liste[x].kimlik] = x
          <6>1. r.liste \in TListe
            BY <1>2 DEF TEsleme
          <6> QED BY <1>2, <6>1 DEF TListe, SListe, TAdli
        <5>7. f[tSatir[n].kimlik] = n
          <6>1. tSatir[n].kimlik # Yok
            BY <5>5, <5>6, TYokDegil
          <6> QED BY <5>1, <6>1 DEF STemiz
        <5> QED BY <5>4, <5>5, <5>6, <5>7
      <4> QED BY <4>2, <4>3
    <3>3. \A m \in TAd : tMeta'[m] # Yok /\ tAcan'[tMeta'[m].kimlik] = tSatir[n].no =>
            tMeta[m] # Yok /\ tMeta'[m].kimlik = tMeta[m].kimlik /\ tMeta'[m].metin = tMeta[m].metin
      BY <1>0
    <3> QED BY <1>0, <1>5, <1>6, <1>9, <1>15, <1>16, <3>1, <3>2, <3>3, SSatirKalir
  <2>2. CASE n \in B /\ tSatir'[n] # Yok
    <3>1. PICK s : s = tSatir'[n]
      OBVIOUS
    <3>2. /\ s.no = tSatir[n].no /\ s.ozel /\ tSatir[n].ozel /\ s.durum = "TASLAK" /\ s.kimlik = Yok
          /\ tSatir[n] # Yok /\ n \notin DOMAIN r.liste /\ s.no \in S
      BY <1>4, <1>8, <1>11, <2>2, <3>1
    <3>3. ASSUME s.no \notin tSasan' PROVE STemiz(f, s, n)'
      <4>1. ASSUME s.no \notin tYarim', TBorclu(s.no)' = {} PROVE SIstenen(s, n)'
        <5>1. TBorclu(s.no) = {}
          <6>1. TBorclu(s.no) \ {a} \subseteq TBorclu(s.no)'
            BY <1>0, <1>5, <1>6, <1>9, SBorcluKalir
          <6> QED BY <1>16, <4>1, <6>1
        <5>2. STemiz(f, tSatir[n], n) /\ s.no \notin r.bayat
          BY <1>0, <1>6, <3>2, <3>3 DEF SAdli, SSatir
        <5>3. SIstenen(tSatir[n], n)
          BY <1>0, <3>2, <4>1, <5>1, <5>2 DEF STemiz
        <5> SUFFICES ASSUME NEW m \in TAd, tMeta[m] # Yok, tAcan[tMeta[m].kimlik] = s.no PROVE FALSE
          BY <1>0 DEF SIstenen
        <5>4. m = n
          BY <3>2, <5>3 DEF SIstenen
        <5>5. tAcan[tMeta[m].kimlik] \in r.bayat
          BY <1>2, <3>2, <5>4 DEF SListe
        <5> QED BY <5>2, <5>5
      <4> QED BY <3>2, <4>1 DEF STemiz
    <3> QED BY <3>1, <3>2, <3>3 DEF SSatir
  <2>3. CASE tSatir'[n] = Yok
    BY <2>3 DEF SSatir
  <2> QED BY <2>1, <2>2, <2>3
<1>20. SHazir'
  <2>1. TBelirsiz \subseteq TBelirsiz'
    BY <1>0, <1>6 DEF TBelirsiz
  <2>2. ASSUME TBelirsiz' = {}, NEW K \in TKimlikler, SYerinde(K)
        PROVE  /\ tSatir'[THazirAd] # Yok /\ tSatir'[THazirAd].no = tSatir[THazirAd].no
               /\ tSatir'[THazirAd].kimlik = K /\ ~tSatir'[THazirAd].ozel
    <3>1. PICK h : h = tSatir[THazirAd].no
      OBVIOUS
    <3>2. SYazacak(K, h, r) /\ tSatir[THazirAd] # Yok /\ tSatir[THazirAd].kimlik = K /\ ~tSatir[THazirAd].ozel
      BY <1>1, <1>2, <2>2, <3>1 DEF SYerinde
    <3>3. THazirAd \notin B
      <4> SUFFICES ASSUME THazirAd \in B PROVE FALSE
        OBVIOUS
      <4>1. h \in S /\ THazirAd \notin DOMAIN r.liste
        BY <1>4, <1>8, <3>1
      <4>2. h \notin r.bayat
        BY <1>6, <2>2, <4>1 DEF TBelirsiz
      <4> QED BY <1>2, <3>2, <4>1, <4>2 DEF SYazacak
    <3>4. tSatir'[THazirAd] = tSatir[THazirAd]
      BY <1>0, <1>10, <3>3
    <3> QED BY <3>2, <3>4
  <2> QED BY <1>0, <1>5, <1>6, <1>7, <1>9, <1>17, <2>1, <2>2, SHazirKalir
<1>21. tSonNo <= tSonNo' /\ \A n \in TAd : tSatir[n] = Yok => tSatir'[n] = Yok
  <2>1. tSonNo <= tSonNo'
    BY <1>0, SablonVarsayimi DEF STip, SVeri
  <2> QED BY <1>12, <2>1
<1> HIDE DEF SInvF
<1> QED BY <1>5, <1>6, <1>7, <1>9, <1>13, <1>14, <1>15, <1>17, <1>18, <1>19, <1>20, <1>21, SAdim

(* Nothing has been submitted.                                             *)
LEMMA SablonBaslar ==
  SablonInit => SablonInv
<1> SUFFICES ASSUME SablonInit PROVE SablonInv
  OBVIOUS
<1>1. PICK ad \in TAd, m \in TMetin, n \in TAd \cup {Yok} :
    /\ tSatir = [x \in TAd |-> IF x = ad THEN [no |-> 1, durum |-> "TASLAK", ozel |-> TRUE, metin |-> m, kimlik |-> Yok] ELSE Yok]
    /\ tMeta = [x \in TAd |-> IF x = n THEN [kimlik |-> 1, metin |-> Yok, durum |-> "ONAYLANDI"] ELSE Yok]
    /\ tAcan = [k \in TKimlikler |-> IF k = 1 /\ n # Yok THEN -1 ELSE Yok]
    /\ tIstek = [a \in TIstek |-> Bos] /\ tSonNo = 1 /\ tAsili = {} /\ tYarim = {} /\ tSasan = {}
  BY DEF SablonInit
<1>2. PICK s, u : /\ s = [no |-> 1, durum |-> "TASLAK", ozel |-> TRUE, metin |-> m, kimlik |-> Yok]
                  /\ u = [kimlik |-> 1, metin |-> Yok, durum |-> "ONAYLANDI"]
  OBVIOUS
<1>3. /\ s \in SablonSatiri /\ s.no = 1 /\ s.durum = "TASLAK" /\ s.kimlik = Yok
      /\ u \in TMetaSablonu /\ u.kimlik = 1 /\ 1 \in TKimlikler /\ 1 \in 0..TNo /\ THazirAd \in TAd
  BY <1>2, SablonVarsayimi DEF SablonSatiri, TMetaSablonu, TMetaDurum, TDurum, TNolar, TKimlikler
<1>4. /\ \A x \in TAd : tSatir[x] = IF x = ad THEN s ELSE Yok
      /\ \A x \in TAd : tMeta[x] = IF x = n THEN u ELSE Yok
      /\ \A k \in TKimlikler : tAcan[k] = IF k = 1 /\ n # Yok THEN -1 ELSE Yok
      /\ TSuren = {}
  BY <1>1, <1>2 DEF TSuren
<1>5. PICK f : f = [k \in TKimlikler |-> IF n \in TAd THEN n ELSE THazirAd]
  OBVIOUS
<1>6. f \in [TKimlikler -> TAd]
  BY <1>3, <1>5
<1>7. STip
  <2>1. tSatir \in [TAd -> SablonSatiri \cup {Yok}]
    BY <1>1, <1>2, <1>3
  <2>2. tMeta \in [TAd -> TMetaSablonu \cup {Yok}]
    BY <1>1, <1>2, <1>3
  <2>3. tAcan \in [TKimlikler -> -1..TNo \cup {Yok}]
    BY <1>1, SablonVarsayimi
  <2>4. tIstek \in [TIstek -> TKayit \cup {Bos, Bitti}]
    BY <1>1
  <2> QED BY <1>1, <1>3, <2>1, <2>2, <2>3, <2>4 DEF STip, SVeri
<1>8. STek
  BY <1>1, <1>3, <1>4 DEF STek, SNolar
<1>9. \A x \in TAd : tMeta[x] # Yok => x = n /\ tMeta[x].kimlik = 1 /\ tAcan[tMeta[x].kimlik] = -1 /\ n \in TAd
  <2>1. \A x \in TAd : x # Yok
    BY TYokDegil, SablonVarsayimi
  <2> QED BY <1>3, <1>4, <2>1
<1>10. -1 # Yok /\ -1 # 0 /\ -1 # 1
  BY TYokDegil
<1>11. SHazir
  BY <1>3, <1>9, <1>10 DEF SHazir
<1>12. SMeta(f)
  BY <1>3, <1>5, <1>9, <1>10 DEF SMeta, TAdli
<1>13. ASSUME NEW x \in TAd PROVE SSatir(f, x)
  <2> SUFFICES ASSUME tSatir[x] # Yok PROVE SSatir(f, x)
    BY DEF SSatir
  <2>1. tSatir[x] = s
    BY <1>4
  <2>2. SIstenen(s, x)
    BY <1>3, <1>9, <1>10 DEF SIstenen
  <2>3. STemiz(f, s, x)
    BY <1>3, <2>2 DEF STemiz
  <2> QED BY <1>3, <2>1, <2>3 DEF SSatir
<1>14. SInvF(f)
  BY <1>4, <1>7, <1>8, <1>11, <1>12, <1>13 DEF SInvF, SAdli
<1> QED BY <1>6, <1>14 DEF SablonInv

LEMMA SablonIlerler ==
  SablonInv /\ [SablonNext]_sablonVars => SablonInv'
<1> SUFFICES ASSUME SablonInv, [SablonNext]_sablonVars PROVE SablonInv'
  OBVIOUS
<1>1. PICK f \in [TKimlikler -> TAd] : SInvF(f)
  BY DEF SablonInv
<1>2. SInvF(f)' => SablonInv'
  BY DEF SablonInv
<1>3. ASSUME NEW n \in TAd, TMetaKarar(n) PROVE SInvF(f)'
  BY <1>1, <1>3, TMetaKararKorur
<1>4. ASSUME NEW a \in TIstek, TTaslak(a) \/ TKopya(a) PROVE SInvF(f)'
  <2>1. PICK m \in TMetin \cup {HazirMetin, Yok} : TYeniTaslak(a, m)
    <3>1. CASE TTaslak(a)
      BY <3>1 DEF TTaslak
    <3>2. CASE TKopya(a)
      <4>1. \A n \in TAd : tSatir[n] # Yok => tSatir[n].metin \in TMetin \cup {HazirMetin, Yok}
        <5>1. STip
          BY <1>1 DEF SInvF
        <5> QED BY <5>1, SSatirli DEF SablonSatiri
      <4> QED BY <3>2, <4>1 DEF TKopya
    <3> QED BY <1>4, <3>1, <3>2
  <2> QED BY <1>1, <2>1, TYeniTaslakKorur
<1>5. ASSUME NEW a \in TIstek, TTaslakOku(a) PROVE SInvF(f)'
  BY <1>1, <1>5, TTaslakOkuKorur
<1>6. ASSUME NEW a \in TIstek, TDuzenle(a) PROVE SInvF(f)'
  BY <1>1, <1>6, TDuzenleKorur
<1>7. ASSUME NEW a \in TIstek, TSil(a) PROVE SInvF(f)'
  BY <1>1, <1>7, TSilKorur
<1>8. ASSUME NEW a \in TIstek, TGonderOku(a) PROVE SInvF(f)'
  BY <1>1, <1>8, TGonderOkuKorur
<1>9. ASSUME NEW a \in TIstek, THazirOku(a) PROVE SInvF(f)'
  BY <1>1, <1>9, THazirOkuKorur
<1>10. ASSUME NEW a \in TIstek, TIsaretle(a) PROVE SInvF(f)'
  BY <1>1, <1>10, TIsaretleKorur
<1>11. ASSUME NEW a \in TIstek, TOlustur(a) PROVE SablonInv'
  <2>1. \E g \in [TKimlikler -> TAd] : SInvF(g)'
    BY <1>1, <1>11, TOlusturKorur
  <2> QED BY <2>1 DEF SablonInv
<1>12. ASSUME NEW a \in TIstek, TOzelKaydet(a) PROVE SInvF(f)'
  BY <1>1, <1>12, TOzelKaydetKorur
<1>13. ASSUME NEW a \in TIstek, THazirKaydet(a) PROVE SInvF(f)'
  BY <1>1, <1>13, THazirKaydetKorur
<1>14. ASSUME NEW a \in TIstek, TGeri(a) PROVE SInvF(f)'
  BY <1>1, <1>14, TGeriKorur
<1>15. ASSUME NEW a \in TIstek, TEsleOku(a) PROVE SInvF(f)'
  BY <1>1, <1>15, TEsleOkuKorur
<1>16. ASSUME NEW a \in TIstek, TEsle(a) PROVE SInvF(f)'
  BY <1>1, <1>16, TEsleKorur
<1>17. ASSUME NEW a \in TIstek, THayaletler(a) PROVE SInvF(f)'
  BY <1>1, <1>17, THayaletlerKorur
<1>18. ASSUME NEW a \in TIstek, TKaybol(a) PROVE SInvF(f)'
  BY <1>1, <1>18, TKaybolKorur
<1>19. CASE UNCHANGED sablonVars
  <2>1. UNCHANGED <<tSatir, tMeta, tIstek, tSonNo, tAcan, tAsili, tYarim, tSasan>>
    BY <1>19 DEF sablonVars
  <2>2. TSuren' = TSuren /\ TBelirsiz' = TBelirsiz /\ \A no : TGonderen(no)' = TGonderen(no) /\ TBorclu(no)' = TBorclu(no)
    BY <2>1 DEF TSuren, TBelirsiz, TGonderen, TBorclu
  <2>3. STip' /\ STek'
    BY <1>1, <2>1, <2>2 DEF SInvF, STip, SVeri, STek, SNolar
  <2>4. SHazir'
    BY <1>1, <2>1, <2>2 DEF SInvF, SHazir, SGelir, SYerinde
  <2>5. SMeta(f)' /\ \A n \in TAd : SSatir(f, n)'
    BY <1>1, <2>1, <2>2 DEF SInvF, SAdli, SMeta, TAdli, SSatir, STemiz, SBekler, SIstenen
  <2>6. \A c \in TSuren' : SBilgi(f, tIstek[c])'
    <3> SUFFICES ASSUME NEW c \in TSuren PROVE SBilgi(f, tIstek[c])'
      BY <2>2
    <3>1. SBilgi(f, tIstek[c])
      BY <1>1 DEF SInvF, SAdli
    <3> QED BY <2>1, <2>2, <3>1 DEF SBilgi, SDuzelt, SGonderim, SOkunan, TAcmamis, SListe, TAdli
  <2>7. SInvF(f)'
    BY <2>3, <2>4, <2>5, <2>6 DEF SInvF, SAdli
  <2> QED BY <1>2, <2>7
<1> QED BY <1>2, <1>3, <1>4, <1>5, <1>6, <1>7, <1>8, <1>9, <1>10, <1>11, <1>12, <1>13, <1>14, <1>15, <1>16,
           <1>17, <1>18, <1>19 DEF SablonNext

\* What the office sees of its templates is what Meta has, and a template Meta has
\* is no draft that may be edited, but for what overlapped or was cut short: the
\* requests of customTemplate.service.ts, templateLibrary.service.ts and the
\* synchronisation write over what each other has read.
THEOREM SablonTutarlidir ==
  SablonSpec => []SablonTutarli
<1>1. SablonInv => SablonTutarli
  <2> SUFFICES ASSUME SablonInv PROVE SablonTutarli
    OBVIOUS
  <2>1. PICK f \in [TKimlikler -> TAd] : SInvF(f)
    BY DEF SablonInv
  <2>2. STip /\ SHazir /\ SAdli(f)
    BY <2>1 DEF SInvF
  <2>3. THazirYazili
    BY <2>2 DEF SHazir, SGelir, SYerinde, THazirYazili
  <2>4. ASSUME NEW n \in TAd PROVE TAyniMetin(n)
    <3> SUFFICES ASSUME NEW m \in TAd, tSatir[n] # Yok, tSatir[n].ozel, tMeta[m] # Yok, tAcan[tMeta[m].kimlik] = tSatir[n].no,
                        tSatir[n].no \notin TBelirsiz, TGonderen(tSatir[n].no) = {}
                 PROVE  tSatir[n].durum # "TASLAK" /\ n = m /\ tSatir[n].metin = tMeta[m].metin
      BY DEF TAyniMetin
    <3>1. TBorclu(tSatir[n].no) = {}
      BY DEF TBorclu, TGonderen
    <3>2. STemiz(f, tSatir[n], n)
      BY <2>2 DEF SAdli, SSatir, TBelirsiz
    <3>3. SIstenen(tSatir[n], n)
      BY <3>1, <3>2 DEF STemiz, TBelirsiz
    <3> QED BY <3>3 DEF SIstenen
  <2>5. ASSUME NEW n \in TAd PROVE TGonderiliyor(n)
    <3> SUFFICES ASSUME tSatir[n] # Yok, tSatir[n].durum = "GONDERILIYOR", tSatir[n].no \notin tSasan, tSatir[n].no \notin tAsili
                 PROVE  TGonderen(tSatir[n].no) # {}
      BY DEF TGonderiliyor
    <3>1. STemiz(f, tSatir[n], n)
      BY <2>2 DEF SAdli, SSatir
    <3> QED BY <3>1 DEF STemiz, SBekler
  <2> QED BY <2>3, <2>4, <2>5 DEF SablonTutarli
<1> QED BY <1>1, SablonBaslar, SablonIlerler, PTL DEF SablonSpec

\* The rows, Meta's templates and what the requests have read have their types.
THEOREM SablonTipiKorunur ==
  SablonSpec => []SablonTypeOK
<1>1. SablonInv => SablonTypeOK
  <2> SUFFICES ASSUME SablonInv PROVE SablonTypeOK
    OBVIOUS
  <2>1. STip
    BY DEF SablonInv, SInvF
  <2>2. ASSUME NEW c \in TSuren PROVE tIstek[c].bayat \subseteq 0..TNo
    <3>1. tIstek[c] \in TKayit
      BY <2>1, TKimdir DEF TSuren
    <3> QED BY <3>1 DEF TKayit, TDuzelt, TGonderim, TEsleme
  <2> QED BY <2>1, <2>2 DEF STip, SVeri, SablonTypeOK
<1> QED BY <1>1, SablonBaslar, SablonIlerler, PTL DEF SablonSpec
=============================================================================
