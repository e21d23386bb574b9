----------------------- MODULE TahsilatBildirimProofs -----------------------
(***************************************************************************)
(* The reminder pipeline for any number of jobs, overlapping worker runs   *)
(* and planners.  Two arguments carry the safety properties.  The ledger   *)
(* only grows, so a charge or a refund a worker has seen is still there    *)
(* when it sends or marks the job; and a job whose lock was never lost is  *)
(* in the hands of one worker at most, is out of every other claim's reach *)
(* while it is, and has not been sent when that worker reads it.  Then     *)
(* which jobs there are (BildirimPlan), and at the end the accounts of an  *)
(* office put together (MCPara).                                           *)
(***************************************************************************)
EXTENDS TahsilatBildirim, MCPara, WhatsAppMesajKrediProofs, ParaProofs, WellFoundedInduction

IsciKaydi == [adim : {"bosta", "oku", "tuket", "gonder", "iade", "iadede", "yaz"},
              is : Is \cup {Yok}, parti : SUBSET Is, karar : Karar]

\* What a worker carries from one step of the loop to the next.
IsciSaglam(w) ==
  /\ isci[w] = BosIsci \/ /\ isci[w].adim # "bosta"
                          /\ isci[w].is \in Is \ isci[w].parti
  /\ isci[w].adim \in {"gonder", "iade", "iadede"} =>
       Kayitli("MESAJ_GONDERIM", isci[w].is)
  /\ isci[w].adim = "yaz" =>
       /\ isci[w].karar \notin {"GONDER", "-"}
       /\ isci[w].karar = "GONDERILDI" => gonderim[isci[w].is] > 0
       /\ isci[w].karar = "BASARISIZ" => Kayitli("IADE", isci[w].is)
  /\ IF isci[w].adim = "iadede"
     THEN /\ cagri[w].adim \in {"tuketim", "kilit"}
          /\ cagri[w].tip = "IADE"
          /\ cagri[w].ref = isci[w].is
     ELSE cagri[w] = Bosta

\* A job no claim takes.
Alinamaz(j) == durum[j] # "YOK" /\ (durum[j] \in Bekleyen => kilit[j] = "taze")

\* The worker's message for its job is on its way to the row.
Gonderdi(w) ==
  \/ isci[w].adim \in {"iade", "iadede"}
  \/ isci[w].adim = "yaz" /\ isci[w].karar \in {"GONDERILDI", "BASARISIZ"}

\* Job j while worker w has it, claimed and neither decided nor lost.
EldeSaglam(w, j) ==
  /\ Alinamaz(j)
  /\ gonderim[j] > 0 => isci[w].is = j /\ Gonderdi(w)
  /\ isci[w].is = j => isci[w].karar # "KILIT_AC"
  /\ \A v \in Isci : Elinde(v, j) => v = w

\* A job whose lock nobody took away.
KilitSaglam(j) ==
  /\ gonderim[j] <= 1
  /\ gonderim[j] > 0 => Alinamaz(j)
  /\ \A w \in Isci : Elinde(w, j) => EldeSaglam(w, j)

BildirimInv ==
  /\ KrediInv
  /\ BildirimTypeOK
  /\ \A w \in Isci : IsciSaglam(w)
  /\ OtomatikMesajKredili /\ BitenIsDogru
  /\ \A j \in Is \ kaybolan : KilitSaglam(j)

-----------------------------------------------------------------------------
(* The wallet, as the pipeline uses it *)

(* A worker that is not idle has a job.                                    *)
LEMMA IsciTipi ==
  ASSUME BildirimInv, NEW w \in Isci
  PROVE  /\ isci[w] \in IsciKaydi /\ w \in Cagiran
         /\ isci[w].adim # "bosta" => isci[w].is \in Is \ isci[w].parti
         /\ isci[w].adim = "bosta" => isci[w] = BosIsci
BY BildirimVarsayimi DEF BildirimInv, BildirimTypeOK, IsciSaglam, IsciKaydi, BosIsci

(* Whoever moves, the wallet takes one of its own steps or none.           *)
LEMMA CuzdanAdimi ==
  ASSUME BildirimInv, [Next]_vars
  PROVE  [KrediNext]_krediVars
<1>1. ASSUME NEW w \in Isci, NEW p \in SUBSET Is, ClaimDueJobs(w, p)
      PROVE  UNCHANGED krediVars
  BY <1>1 DEF ClaimDueJobs
<1>2. ASSUME NEW w \in Isci, IsciAdimi(w)
      PROVE  [KrediNext]_krediVars
  <2>1. isci[w].adim # "bosta" => isci[w].is \in Is
    BY IsciTipi
  <2>2. w \in Cagiran
    BY BildirimVarsayimi
  <2>3. CASE IsiOku(w) \/ Gonder(w) \/ IsYaz(w)
    BY <2>3 DEF IsiOku, Gonder, IsYaz
  <2>4. CASE Tuket(w)
    BY <2>1, <2>4 DEF Tuket, KrediNext, krediVars
  <2>5. CASE IadeBasla(w)
    <3>1. RefundForJob(w, isci[w].is) => CagriAdimi(w)
      BY <2>1, <2>5 DEF IadeBasla, CagriAdimi
    <3> QED BY <2>2, <2>5, <3>1 DEF IadeBasla, KrediNext
  <2>6. CASE IadeIlerle(w)
    BY <2>2, <2>6 DEF IadeIlerle, KrediNext, CagriAdimi
  <2> QED BY <1>2, <2>3, <2>4, <2>5, <2>6 DEF IsciAdimi
<1>3. ASSUME NEW w \in Isci, IsciCoker(w)
      PROVE  [KrediNext]_krediVars
  <2>1. w \in Cagiran /\ cagri \in [Cagiran -> Cagri]
    BY BildirimVarsayimi DEF BildirimInv, KrediInv
  <2>2. CASE cagri[w] = Bosta
    BY <1>3, <2>1, <2>2 DEF IsciCoker, krediVars
  <2>3. CASE cagri[w] # Bosta
    BY <1>3, <2>1, <2>3 DEF IsciCoker, KrediNext, CagriAdimi, CagriDuser
  <2> QED BY <2>2, <2>3
<1>4. ASSUME NEW p \in Planci,
             \/ PlanBasla(p) \/ PlanOku(p) \/ PlanBiter(p)
             \/ \E j \in Is : PlanIptal(p, j) \/ IsOlustur(p, j)
      PROVE  UNCHANGED krediVars
  BY <1>4 DEF PlanBasla, PlanOku, PlanBiter, PlanIptal, IsOlustur
<1>5. ASSUME NEW j \in Is, KilitBayatlar(j) \/ BekleyenIptal(j) \/ BorcDegisir(j)
      PROVE  UNCHANGED krediVars
  BY <1>5 DEF KilitBayatlar, BekleyenIptal, BorcDegisir
<1>6. CASE SaatIlerler \/ OtomasyonDegisir
  BY <1>6 DEF SaatIlerler, OtomasyonDegisir
<1>7. CASE KrediHareketi
  BY <1>7 DEF KrediHareketi, KrediNext, CagriAdimi
<1>8. CASE UNCHANGED vars
  BY <1>8 DEF vars
<1> QED BY <1>1, <1>2, <1>3, <1>4, <1>5, <1>6, <1>7, <1>8 DEF Next

(* What is in the ledger stays there.                                      *)
LEMMA KayitKalir ==
  ASSUME KrediInv, [KrediNext]_krediVars
  PROVE  KrediInv' /\ \A t, r : Kayitli(t, r) => Kayitli(t, r)'
<1>1. KrediInv' /\ [Defter!Adim]_<<bakiye, defter>>
  BY KrediAdimi
<1>2. bakiye \in Int /\ bakiye' \in Int /\ defter \in Seq(Hareket)
  BY <1>1 DEF KrediInv, DefterInv, DefterTipi
<1>3. CASE Defter!Adim
  <2>1. PICK tip \in Defter!Tip, ref \in Referans \cup {Yok} :
             Defter!Kaydet(tip, ref, bakiye' - bakiye)
    BY <1>3 DEF Defter!Adim
  <2> DEFINE n == bakiye' - bakiye
  <2>2. n \in Int /\ tip \in HareketTipi /\ HareketYaz(tip, ref, n)
    <3>1. HareketYaz(tip, ref, n)
      BY <2>1 DEF Defter!Kaydet, HareketYaz, SonrakiHareket
    <3>2. n \in Int
      BY <1>2
    <3> QED BY <3>1, <3>2 DEF Defter!Tip, HareketTipi
  <2>3. DefterTipi
    BY <1>2 DEF DefterTipi
  <2> HIDE DEF n
  <2>4. \A t, r : Kayitli(t, r) => Kayitli(t, r)'
    BY <2>2, <2>3, HareketEkle
  <2> QED BY <1>1, <2>4
<1>4. CASE UNCHANGED <<bakiye, defter>>
  BY <1>1, <1>4 DEF Kayitli
<1> QED BY <1>1, <1>3, <1>4

(* What the locked section writes is in the ledger.                        *)
LEMMA HareketYazildi ==
  ASSUME DefterTipi,
         NEW tip \in HareketTipi, NEW ref \in Referans \cup {Yok}, NEW n \in Int,
         HareketYaz(tip, ref, n)
  PROVE  Kayitli(tip, ref)'
<1>1. /\ Len(defter') = Len(defter) + 1
      /\ defter'[Len(defter) + 1] = SonrakiHareket(tip, ref, n)
  BY HareketEkle
<1>2. Len(defter) \in Nat
  BY LenProperties DEF DefterTipi
<1> QED BY <1>1, <1>2 DEF Kayitli, SonrakiHareket

-----------------------------------------------------------------------------
(* Planners, services and the clock: the workers stand still *)

LEMMA DisAdimKorur ==
  ASSUME BildirimInv, [KrediNext]_krediVars, BildirimTypeOK',
         UNCHANGED <<isci, gonderim>>,
         \A w \in Isci : cagri'[w] = cagri[w],
         \A j \in Is : durum'[j] \in {durum[j], "PLANLANDI", "IPTAL_EDILDI"},
         kaybolan \subseteq kaybolan',
         \A j \in Is \ kaybolan' : Alinamaz(j) => Alinamaz(j)'
  PROVE  BildirimInv'
<1>1. KrediInv' /\ \A t, r : Kayitli(t, r) => Kayitli(t, r)'
  BY KayitKalir DEF BildirimInv
<1>2. ASSUME NEW w \in Isci PROVE IsciSaglam(w)'
  BY <1>1 DEF BildirimInv, IsciSaglam
<1>3. OtomatikMesajKredili'
  BY <1>1 DEF BildirimInv, OtomatikMesajKredili
<1>4. BitenIsDogru'
  BY <1>1 DEF BildirimInv, BitenIsDogru, BasarisizIadeli, GonderildiDogru
<1>5. ASSUME NEW j \in Is \ kaybolan' PROVE KilitSaglam(j)'
  <2>1. KilitSaglam(j) /\ (Alinamaz(j) => Alinamaz(j)')
    BY DEF BildirimInv
  <2>2. \A w \in Isci : Elinde(w, j)' <=> Elinde(w, j)
    BY DEF Elinde
  <2>3. \A w \in Isci : Elinde(w, j) => EldeSaglam(w, j)'
    BY <2>1, <2>2 DEF KilitSaglam, EldeSaglam, Gonderdi
  <2> QED BY <2>1, <2>2, <2>3 DEF KilitSaglam
<1> QED BY <1>1, <1>2, <1>3, <1>4, <1>5 DEF BildirimInv

(* A planner's step.  Only createTaksitJobFromRule takes a lock away, and  *)
(* then the job counts as lost.                                            *)
LEMMA PlanciKorur ==
  ASSUME BildirimInv, Next, NEW p \in Planci,
         \/ PlanBasla(p) \/ PlanOku(p) \/ PlanBiter(p)
         \/ \E j \in Is : PlanIptal(p, j) \/ IsOlustur(p, j)
  PROVE  BildirimInv'
<1>1. BildirimTypeOK /\ [KrediNext]_krediVars
  BY CuzdanAdimi DEF BildirimInv
<1>2. planci[p] \in [adim : {"bosta", "iptal", "plan"}, acik : BOOLEAN, isler : SUBSET Is]
  BY <1>1 DEF BildirimTypeOK
<1>3. CASE PlanBasla(p) \/ PlanOku(p) \/ PlanBiter(p)
  <2>1. planci' \in [Planci -> [adim : {"bosta", "iptal", "plan"}, acik : BOOLEAN,
                                isler : SUBSET Is]]
    <3>1. CASE PlanBasla(p)
      BY <1>1, <3>1 DEF PlanBasla, BildirimTypeOK
    <3>2. CASE PlanOku(p)
      BY <1>1, <1>2, <3>2 DEF PlanOku, BildirimTypeOK
    <3>3. CASE PlanBiter(p)
      BY <1>1, <3>3 DEF PlanBiter, BosPlanci, BildirimTypeOK
    <3> QED BY <1>3, <3>1, <3>2, <3>3
  <2>2. UNCHANGED <<satir, dunya, gozlem, isci, olay, krediVars>>
    BY <1>3 DEF PlanBasla, PlanOku, PlanBiter
  <2>3. BildirimTypeOK'
    BY <1>1, <2>1, <2>2 DEF BildirimTypeOK, satir, dunya, gozlem
  <2> QED BY <1>1, <2>2, <2>3, DisAdimKorur DEF satir, gozlem, krediVars, Alinamaz
<1>4. ASSUME NEW j \in Is, PlanIptal(p, j)
      PROVE  BildirimInv'
  <2>1. /\ durum' = [durum EXCEPT ![j] = "IPTAL_EDILDI"]
        /\ kilit' = [kilit EXCEPT ![j] = "yok"]
        /\ planci' = [planci EXCEPT ![p].isler = @ \ {j}]
        /\ UNCHANGED <<dunya, gozlem, isci, olay, krediVars>>
    BY <1>4 DEF PlanIptal
  <2>2. BildirimTypeOK'
    BY <1>1, <1>2, <2>1 DEF BildirimTypeOK, dunya, gozlem, Durum
  <2>3. \A i \in Is : Alinamaz(i) => Alinamaz(i)'
    BY <1>1, <2>1 DEF BildirimTypeOK, Alinamaz, Bekleyen
  <2> QED BY <1>1, <2>1, <2>2, <2>3, DisAdimKorur
           DEF gozlem, krediVars, BildirimTypeOK
<1>5. ASSUME NEW j \in Is, IsOlustur(p, j)
      PROVE  BildirimInv'
  <2>1. /\ planci' = [planci EXCEPT ![p].isler = @ \ {j}]
        /\ UNCHANGED <<dunya, gonderim, isci, olay, krediVars>>
        /\ durum[j] = "YOK" => /\ durum' = [durum EXCEPT ![j] = "PLANLANDI"]
                               /\ UNCHANGED <<kilit, kaybolan>>
        /\ durum[j] # "YOK" /\ durum[j] \in Bekleyen =>
             /\ kilit' = [kilit EXCEPT ![j] = "yok"]
             /\ kaybolan' = IF kilit[j] # "yok" THEN kaybolan \cup {j} ELSE kaybolan
             /\ UNCHANGED durum
        /\ durum[j] # "YOK" /\ durum[j] \notin Bekleyen => UNCHANGED <<satir, kaybolan>>
    BY <1>5 DEF IsOlustur, satir
  <2>2. BildirimTypeOK'
    BY <1>1, <1>2, <2>1 DEF BildirimTypeOK, dunya, satir, Durum, Bekleyen
  <2>3. \A i \in Is \ kaybolan' : Alinamaz(i) => Alinamaz(i)'
    BY <1>1, <2>1 DEF BildirimTypeOK, Alinamaz, Bekleyen, satir
  <2> QED BY <1>1, <2>1, <2>2, <2>3, DisAdimKorur
           DEF krediVars, satir, BildirimTypeOK
<1> QED BY <1>3, <1>4, <1>5

(* Fifteen minutes pass, a service cancels a job, a debt or a setting      *)
(* changes, the wallet moves.                                              *)
LEMMA DisariKorur ==
  ASSUME BildirimInv, Next,
         \/ \E j \in Is : KilitBayatlar(j) \/ BekleyenIptal(j) \/ BorcDegisir(j)
         \/ SaatIlerler \/ OtomasyonDegisir \/ KrediHareketi
  PROVE  BildirimInv'
<1>1. BildirimTypeOK /\ [KrediNext]_krediVars
  BY CuzdanAdimi DEF BildirimInv
<1>2. ASSUME NEW j \in Is, KilitBayatlar(j) \/ BekleyenIptal(j)
      PROVE  BildirimInv'
  <2>1. /\ UNCHANGED <<dunya, gonderim, isci, planci, krediVars>>
        /\ kilit' = [kilit EXCEPT ![j] = "bayat"] \/ kilit' = [kilit EXCEPT ![j] = "yok"]
        /\ \/ kaybolan' = kaybolan \cup {j} /\ UNCHANGED durum
           \/ kaybolan' = kaybolan /\ durum' = [durum EXCEPT ![j] = "IPTAL_EDILDI"]
        /\ olay' \in 0..MaxOlay
    BY <1>1, <1>2, BildirimVarsayimi
       DEF KilitBayatlar, BekleyenIptal, Olay, gozlem, BildirimTypeOK
  <2>2. BildirimTypeOK'
    BY <1>1, <2>1 DEF BildirimTypeOK, dunya, Durum
  <2>3. \A i \in Is \ kaybolan' : Alinamaz(i) => Alinamaz(i)'
    BY <1>1, <2>1 DEF BildirimTypeOK, Alinamaz, Bekleyen
  <2> QED BY <1>1, <2>1, <2>2, <2>3, DisAdimKorur DEF krediVars, BildirimTypeOK
<1>3. ASSUME \/ \E j \in Is : BorcDegisir(j)
             \/ SaatIlerler \/ OtomasyonDegisir
      PROVE  BildirimInv'
  <2>1. UNCHANGED <<satir, gozlem, isci, planci, krediVars>>
    BY <1>3 DEF BorcDegisir, SaatIlerler, OtomasyonDegisir
  <2>2. /\ borcAcik' \in [Is -> BOOLEAN] /\ otomasyon' \in BOOLEAN
        /\ saat' \in Nat /\ olay' \in 0..MaxOlay
    <3>1. CASE \E j \in Is : BorcDegisir(j)
      BY <1>1, <3>1, BildirimVarsayimi DEF BorcDegisir, Olay, BildirimTypeOK
    <3>2. CASE SaatIlerler
      BY <1>1, <3>2 DEF SaatIlerler, BildirimTypeOK
    <3>3. CASE OtomasyonDegisir
      BY <1>1, <3>3, BildirimVarsayimi DEF OtomasyonDegisir, Olay, BildirimTypeOK
    <3> QED BY <1>3, <3>1, <3>2, <3>3
  <2>3. BildirimTypeOK'
    BY <1>1, <2>1, <2>2 DEF BildirimTypeOK, satir, gozlem
  <2> QED BY <1>1, <2>1, <2>3, DisAdimKorur DEF krediVars, satir, gozlem, Alinamaz
<1>4. CASE KrediHareketi
  <2>1. UNCHANGED bildirimVars
    BY <1>4 DEF KrediHareketi
  <2>2. ASSUME NEW w \in Isci PROVE cagri'[w] = cagri[w]
    <3>1. cagri \in [Cagiran -> Cagri] /\ w \in Cagiran
      BY BildirimVarsayimi DEF BildirimInv, KrediInv
    <3> QED BY <1>4, <3>1 DEF KrediHareketi, ManuelDus, ManuelEkle, GrantAnnual,
               AddCreditInTx, KilitliYaz, CagriDuser
  <2>3. BildirimTypeOK'
    BY <1>1, <2>1 DEF BildirimTypeOK, bildirimVars, satir, dunya, gozlem
  <2> QED BY <1>1, <2>1, <2>2, <2>3, DisAdimKorur
           DEF bildirimVars, satir, gozlem, Alinamaz
<1> QED BY <1>2, <1>3, <1>4
-----------------------------------------------------------------------------
(* One worker moves *)

(* ORDER BY planlanan_at: the jobs of a batch have an earliest one.        *)
LEMMA SiradaUyesi ==
  ASSUME NEW p \in SUBSET Is, p # {}
  PROVE  Sirada(p) \in p
<1> DEFINE T == {PlanlananAt[x] : x \in p}
           R == OpToRel(<, Nat)
<1>1. T \subseteq Nat /\ T # {}
  BY BildirimVarsayimi
<1>2. IsWellFoundedOn(R, Nat)
  BY NatLessThanWellFounded
<1>3. \A x, y \in Nat : y < x => <<y, x>> \in R
  BY DEF OpToRel
<1> HIDE DEF R
<1>4. PICK t \in T : \A u \in T : ~(<<u, t>> \in R)
  <2> HIDE DEF T
  <2> QED BY <1>1, <1>2, WFMin
<1>5. PICK x \in p : t = PlanlananAt[x]
  BY <1>4
<1>6. ASSUME NEW y \in p PROVE PlanlananAt[x] <= PlanlananAt[y]
  <2>1. PlanlananAt[y] \in T /\ PlanlananAt[y] \in Nat /\ t \in Nat
    BY <1>1
  <2>2. ~(PlanlananAt[y] < t)
    BY <2>1, <1>3, <1>4
  <2> QED BY <2>1, <2>2, <1>5
<1> QED BY <1>6 DEF Sirada

(* The worker takes the next job of its batch, or is done.                 *)
LEMMA SiradakiTipi ==
  ASSUME NEW p \in SUBSET Is, NEW s, s = SiradakiIs(p)
  PROVE  /\ s \in IsciKaydi
         /\ s = BosIsci \/ /\ s.adim = "oku" /\ s.karar = "-"
                           /\ s.is \in p /\ s.parti = p \ {s.is}
<1>1. CASE p = {}
  BY <1>1 DEF SiradakiIs, BosIsci, IsciKaydi, Karar
<1>2. CASE p # {}
  <2>1. Sirada(p) \in p
    BY <1>2, SiradaUyesi
  <2> QED BY <1>2, <2>1 DEF SiradakiIs, IsciKaydi, Karar
<1> QED BY <1>1, <1>2

(* The other workers' records stay right, the ledger and the counts only   *)
(* grow.                                                                   *)
LEMMA DigerIsciler ==
  ASSUME BildirimInv, [KrediNext]_krediVars, NEW w \in Isci,
         \A v \in Isci \ {w} : isci'[v] = isci[v] /\ cagri'[v] = cagri[v],
         \A j \in Is : gonderim[j] > 0 => gonderim'[j] > 0
  PROVE  \A v \in Isci \ {w} : IsciSaglam(v)'
<1>1. \A t, r : Kayitli(t, r) => Kayitli(t, r)'
  BY KayitKalir DEF BildirimInv
<1>2. ASSUME NEW v \in Isci \ {w} PROVE IsciSaglam(v)'
  <2>1. IsciSaglam(v) /\ (isci[v].adim # "bosta" => isci[v].is \in Is)
    BY IsciTipi DEF BildirimInv
  <2> QED BY <1>1, <2>1 DEF IsciSaglam
<1> QED BY <1>2

(* A step of a worker that keeps its job and its batch: it may send the    *)
(* job's message, and nothing else happens to the rows.                    *)
LEMMA IlerleKorur ==
  ASSUME BildirimInv, [KrediNext]_krediVars, NEW w \in Isci, isci[w].adim # "bosta",
         BildirimTypeOK', UNCHANGED <<satir, kaybolan>>,
         isci'[w].adim # "bosta",
         isci'[w].is = isci[w].is, isci'[w].parti = isci[w].parti,
         \A v \in Isci \ {w} : isci'[v] = isci[v] /\ cagri'[v] = cagri[v],
         IsciSaglam(w)',
         \A j \in Is : gonderim[j] > 0 => gonderim'[j] > 0,
         \A j \in Is \ {isci[w].is} : gonderim'[j] = gonderim[j],
         gonderim'[isci[w].is] > 0 => Kayitli("MESAJ_GONDERIM", isci[w].is)',
         isci[w].is \notin kaybolan =>
           /\ isci'[w].karar # "KILIT_AC"
           /\ gonderim'[isci[w].is] <= 1
           /\ gonderim'[isci[w].is] > 0 => Gonderdi(w)'
  PROVE  BildirimInv'
<1> DEFINE i == isci[w].is
<1>1. KrediInv' /\ \A t, r : Kayitli(t, r) => Kayitli(t, r)'
  BY KayitKalir DEF BildirimInv
<1>2. \A v \in Isci : IsciSaglam(v)'
  BY DigerIsciler
<1>3. OtomatikMesajKredili' /\ BitenIsDogru'
  BY <1>1 DEF BildirimInv, OtomatikMesajKredili, BitenIsDogru, BasarisizIadeli,
     GonderildiDogru, satir
<1>4. i \in Is
  BY IsciTipi
<1>5. \A v \in Isci, j \in Is : Elinde(v, j)' <=> Elinde(v, j)
  BY DEF Elinde, BosIsci
<1>6. \A j \in Is : Alinamaz(j)' <=> Alinamaz(j)
  BY DEF Alinamaz, satir
<1>7. Elinde(w, i)
  BY DEF Elinde, BosIsci
<1>8. ASSUME NEW j \in Is \ kaybolan' PROVE KilitSaglam(j)'
  <2>1. KilitSaglam(j)
    BY DEF BildirimInv
  <2>2. ASSUME NEW v \in Isci, Elinde(v, j) PROVE EldeSaglam(v, j)'
    <3>1. EldeSaglam(v, j)
      BY <2>1, <2>2 DEF KilitSaglam
    <3>2. \A u \in Isci : Elinde(u, j)' => u = v
      BY <3>1, <1>5 DEF EldeSaglam
    <3>3. CASE v = w
      BY <3>1, <3>2, <3>3, <1>6 DEF EldeSaglam
    <3>4. CASE v # w
      <4>1. j # i
        BY <3>1, <3>4, <1>7 DEF EldeSaglam
      <4> QED BY <3>1, <3>2, <3>4, <4>1, <1>6 DEF EldeSaglam, Gonderdi
    <3> QED BY <3>3, <3>4
  <2>3. gonderim'[j] <= 1
    BY <2>1 DEF KilitSaglam
  <2>4. gonderim'[j] > 0 => Alinamaz(j)'
    <3>1. CASE j = i
      BY <3>1, <2>1, <1>6, <1>7 DEF KilitSaglam, EldeSaglam
    <3>2. CASE j # i
      BY <3>2, <2>1, <1>6 DEF KilitSaglam
    <3> QED BY <3>1, <3>2
  <2> QED BY <2>2, <2>3, <2>4, <1>5 DEF KilitSaglam
<1> QED BY <1>1, <1>2, <1>3, <1>8 DEF BildirimInv
(* IsiOku, consumeForJob, provider.send and the two halves of the refund.  *)
LEMMA IlerleyenKorur ==
  ASSUME BildirimInv, Next, NEW w \in Isci,
         IsiOku(w) \/ Tuket(w) \/ Gonder(w) \/ IadeBasla(w) \/ IadeIlerle(w)
  PROVE  BildirimInv'
<1>0. PICK i : i = isci[w].is
  OBVIOUS
<1> USE <1>0
<1>1. BildirimTypeOK /\ [KrediNext]_krediVars /\ IsciSaglam(w)
  BY CuzdanAdimi DEF BildirimInv
<1>2. KrediInv /\ \A t, r : Kayitli(t, r) => Kayitli(t, r)'
  BY <1>1, KayitKalir DEF BildirimInv
<1>3. isci[w].adim # "bosta"
  BY DEF IsiOku, Tuket, Gonder, IadeBasla, IadeIlerle
<1>4. isci[w] \in IsciKaydi /\ i \in Is \ isci[w].parti /\ w \in Cagiran
  BY <1>3, IsciTipi
<1>5. isci \in [Isci -> IsciKaydi] /\ cagri \in [Cagiran -> Cagri]
  BY <1>1, <1>2 DEF BildirimTypeOK, IsciKaydi, KrediInv
<1>6. gonderim \in [Is -> 0..2] /\ (gonderim[i] > 0 => Kayitli("MESAJ_GONDERIM", i))
  BY <1>1, <1>4 DEF BildirimTypeOK, BildirimInv, OtomatikMesajKredili
<1>7. i \notin kaybolan => gonderim[i] <= 1 /\ (gonderim[i] > 0 => Gonderdi(w))
                           /\ isci[w].karar # "KILIT_AC"
  <2>1. Elinde(w, i)
    BY <1>3 DEF Elinde, BosIsci
  <2> QED BY <1>4, <2>1 DEF BildirimInv, KilitSaglam, EldeSaglam
<1>8. ASSUME NEW a, NEW k, Ilerle(w, a, k)
      PROVE  /\ isci'[w].adim = a /\ isci'[w].karar = k
             /\ isci'[w].is = i /\ isci'[w].parti = isci[w].parti
             /\ \A v \in Isci \ {w} : isci'[v] = isci[v]
  BY <1>4, <1>5, <1>8 DEF Ilerle, IsciKaydi
<1>9. ASSUME NEW a \in {"bosta", "oku", "tuket", "gonder", "iade", "iadede", "yaz"},
             NEW k \in Karar, Ilerle(w, a, k)
      PROVE  isci' \in [Isci -> IsciKaydi]
  BY <1>4, <1>5, <1>9 DEF Ilerle, IsciKaydi
<1>10. ASSUME UNCHANGED <<satir, dunya, kaybolan, planci, olay>>,
              gonderim' \in [Is -> 0..2], isci' \in [Isci -> IsciKaydi]
       PROVE  BildirimTypeOK'
  BY <1>1, <1>10 DEF BildirimTypeOK, satir, dunya, IsciKaydi
<1>11. CASE IsiOku(w)
  <2>1. UNCHANGED <<satir, dunya, gozlem, planci, olay, krediVars>>
    BY <1>11 DEF IsiOku
  <2>2. PICK k \in Kararlar(i) :
             Ilerle(w, IF k = "GONDER" THEN "tuket" ELSE "yaz", k)
    BY <1>11 DEF IsiOku, Ilerle
  <2>3. k \in Karar /\ k \notin {"-", "GONDERILDI", "BASARISIZ"}
        /\ (k = "KILIT_AC" => durum[i] = "GONDERILDI")
    BY DEF Kararlar, Karar, Durum, Bekleyen
  <2>4. i \notin kaybolan => gonderim[i] = 0
    BY <1>6, <1>7, <1>11, <1>4 DEF IsiOku, Gonderdi
  <2>5. k = "KILIT_AC" => gonderim[i] > 0
    BY <2>3, <1>4 DEF BildirimInv, BitenIsDogru, GonderildiDogru
  <2>6. IsciSaglam(w)'
    <3>1. cagri'[w] = Bosta
      BY <1>1, <1>11, <2>1 DEF IsciSaglam, IsiOku, krediVars
    <3>2. CASE k = "GONDER"
      BY <1>4, <1>8, <2>2, <3>1, <3>2 DEF IsciSaglam
    <3>3. CASE k # "GONDER"
      BY <1>4, <1>8, <2>2, <2>3, <3>1, <3>3 DEF IsciSaglam
    <3> QED BY <3>2, <3>3
  <2>7. BildirimTypeOK'
    BY <1>6, <1>9, <1>10, <2>1, <2>2, <2>3 DEF gozlem
  <2> QED BY <1>1, <1>2, <1>3, <1>4, <1>6, <1>8, <2>1, <2>2, <2>3, <2>4, <2>5, <2>6, <2>7,
             IlerleKorur DEF gozlem, krediVars
<1>12. CASE Tuket(w)
  <2>1. UNCHANGED <<satir, dunya, gozlem, planci, olay, cagri>>
    BY <1>12 DEF Tuket
  <2>2. \/ Ilerle(w, "gonder", "GONDER") /\ Kayitli("MESAJ_GONDERIM", i)'
        \/ Ilerle(w, "yaz", "PLANLANDI")
    <3>1. CASE ConsumeForJob(i)
      <4>1. HareketYaz("MESAJ_GONDERIM", i, -1) /\ DefterTipi
        BY <1>2, <3>1 DEF ConsumeForJob, KrediInv, DefterInv
      <4>2. "MESAJ_GONDERIM" \in HareketTipi /\ i \in Referans \cup {Yok}
        BY <1>4 DEF HareketTipi, Referans
      <4>3. Kayitli("MESAJ_GONDERIM", i)'
        BY <4>1, <4>2, HareketYazildi
      <4> QED BY <1>12, <4>3, <3>1 DEF Tuket, ConsumeForJob
    <3>2. CASE ~ConsumeForJob(i)
      BY <1>2, <1>12, <3>2 DEF Tuket
    <3> QED BY <3>1, <3>2
  <2>3. i \notin kaybolan => gonderim[i] = 0
    BY <1>6, <1>7, <1>12, <1>4 DEF Tuket, Gonderdi
  <2>4. IsciSaglam(w)'
    BY <1>1, <1>4, <1>8, <1>12, <2>1, <2>2 DEF IsciSaglam, Tuket, BosIsci
  <2>5. BildirimTypeOK'
    BY <1>6, <1>9, <1>10, <2>1, <2>2 DEF gozlem, Karar, Durum, Bekleyen
  <2>6. /\ isci'[w].adim # "bosta" /\ isci'[w].karar # "KILIT_AC"
        /\ isci'[w].is = i /\ isci'[w].parti = isci[w].parti
        /\ \A v \in Isci \ {w} : isci'[v] = isci[v]
    BY <1>8, <2>2
  <2> QED BY <1>1, <1>2, <1>3, <1>4, <1>6, <2>1, <2>3, <2>4, <2>5, <2>6,
             IlerleKorur DEF gozlem
<1>13. CASE Gonder(w)
  <2>1. UNCHANGED <<satir, dunya, kaybolan, planci, olay, krediVars>>
    BY <1>13 DEF Gonder
  <2>2. /\ gonderim' \in [Is -> 0..2]
        /\ \A j \in Is : gonderim[j] > 0 => gonderim'[j] > 0
        /\ \A j \in Is \ {i} : gonderim'[j] = gonderim[j]
        /\ gonderim[i] = 0 => gonderim'[i] <= 1
    BY <1>4, <1>6, <1>13 DEF Gonder, MesajKabul
  <2>3. \/ Ilerle(w, "yaz", "GONDERILDI") /\ gonderim'[i] > 0
        \/ Ilerle(w, "iade", "BASARISIZ")
    BY <1>4, <1>6, <1>13 DEF Gonder, MesajKabul
  <2>4. Kayitli("MESAJ_GONDERIM", i)'
    BY <1>1, <1>2, <1>13 DEF IsciSaglam, Gonder
  <2>5. i \notin kaybolan => gonderim[i] = 0
    BY <1>6, <1>7, <1>13, <1>4 DEF Gonder, Gonderdi
  <2>6. /\ isci'[w].adim # "bosta" /\ isci'[w].karar # "KILIT_AC" /\ Gonderdi(w)'
        /\ isci'[w].is = i /\ isci'[w].parti = isci[w].parti
        /\ \A v \in Isci \ {w} : isci'[v] = isci[v]
    BY <1>8, <2>3 DEF Gonderdi
  <2>7. IsciSaglam(w)'
    BY <1>1, <1>4, <1>8, <1>13, <2>1, <2>3, <2>4 DEF IsciSaglam, Gonder, BosIsci, krediVars
  <2>8. BildirimTypeOK'
    BY <1>9, <1>10, <2>1, <2>2, <2>3 DEF Karar, Durum, Bekleyen
  <2> QED BY <1>1, <1>3, <1>4, <2>1, <2>2, <2>4, <2>5, <2>6, <2>7, <2>8,
             IlerleKorur DEF krediVars
<1>14. CASE IadeBasla(w)
  <2>1. UNCHANGED <<satir, dunya, gozlem, planci, olay>>
    BY <1>14 DEF IadeBasla
  <2>2. \/ /\ Ilerle(w, "iadede", "BASARISIZ")
           /\ cagri'[w].adim = "tuketim" /\ cagri'[w].tip = "IADE" /\ cagri'[w].ref = i
        \/ /\ Ilerle(w, "yaz", "BASARISIZ")
           /\ Kayitli("IADE", i) /\ cagri'[w] = cagri[w]
    BY <1>4, <1>5, <1>14 DEF IadeBasla, RefundForJob, krediVars
  <2>3. \A v \in Isci \ {w} : cagri'[v] = cagri[v]
    BY <1>5, <1>14, BildirimVarsayimi DEF IadeBasla, RefundForJob, krediVars
  <2>4. /\ isci'[w].adim # "bosta" /\ isci'[w].karar # "KILIT_AC" /\ Gonderdi(w)'
        /\ isci'[w].is = i /\ isci'[w].parti = isci[w].parti
        /\ \A v \in Isci \ {w} : isci'[v] = isci[v]
    BY <1>8, <2>2 DEF Gonderdi
  <2>5. IsciSaglam(w)'
    BY <1>1, <1>2, <1>4, <1>8, <1>14, <2>2 DEF IsciSaglam, IadeBasla, BosIsci
  <2>6. BildirimTypeOK'
    BY <1>6, <1>9, <1>10, <2>1, <2>2 DEF gozlem, Karar, Durum, Bekleyen
  <2> QED BY <1>1, <1>2, <1>3, <1>4, <1>6, <1>7, <2>1, <2>3, <2>4, <2>5, <2>6,
             IlerleKorur DEF gozlem
<1>15. CASE IadeIlerle(w)
  <2>1. UNCHANGED <<satir, dunya, gozlem, planci, olay>>
    BY <1>15 DEF IadeIlerle
  <2>2. \A v \in Isci \ {w} : cagri'[v] = cagri[v]
    BY <1>5, <1>15, BildirimVarsayimi DEF IadeIlerle, RefundTuketim, KilitliYaz
  <2>3. /\ Kayitli("MESAJ_GONDERIM", i) /\ isci[w].adim = "iadede"
        /\ cagri[w].tip = "IADE" /\ cagri[w].ref = i
    BY <1>1, <1>15 DEF IsciSaglam, IadeIlerle
  <2>4. \/ /\ UNCHANGED isci /\ cagri'[w].adim = "kilit"
           /\ cagri'[w].tip = "IADE" /\ cagri'[w].ref = i
        \/ /\ Ilerle(w, "yaz", "BASARISIZ")
           /\ Kayitli("IADE", i)' /\ cagri'[w] = Bosta
    <3>1. CASE RefundTuketim(w)
      <4>1. cagri' = [cagri EXCEPT ![w].adim = "kilit"]
        BY <2>3, <3>1 DEF RefundTuketim
      <4>2. /\ cagri'[w].adim = "kilit" /\ cagri'[w].tip = "IADE" /\ cagri'[w].ref = i
            /\ cagri'[w] # Bosta
        BY <1>4, <1>5, <2>3, <4>1 DEF Cagri, Bosta
      <4> QED BY <1>15, <4>2 DEF IadeIlerle
    <3>2. CASE KilitliYaz(w)
      <4>1. cagri'[w] = Bosta
        BY <1>4, <1>5, <3>2 DEF KilitliYaz
      <4>2. Kayitli("IADE", i)'
        <5>1. CASE Cakisir("IADE", i)
          BY <1>2, <5>1 DEF Cakisir
        <5>2. CASE ~Cakisir("IADE", i)
          <6>1. PICK n : n = cagri[w].miktar
            OBVIOUS
          <6>2. HareketYaz("IADE", i, n) /\ n \in Int
            BY <1>4, <1>5, <2>3, <3>2, <5>2, <6>1 DEF KilitliYaz, Cagri
          <6>3. DefterTipi /\ "IADE" \in HareketTipi /\ i \in Referans \cup {Yok}
            BY <1>2, <1>4 DEF KrediInv, DefterInv, HareketTipi, Referans
          <6> QED BY <6>2, <6>3, HareketYazildi
        <5> QED BY <5>1, <5>2
      <4> QED BY <1>15, <4>1, <4>2 DEF IadeIlerle
    <3> QED BY <1>15, <3>1, <3>2 DEF IadeIlerle
  <2>5. /\ isci'[w].adim # "bosta" /\ isci'[w].is = i /\ isci'[w].parti = isci[w].parti
        /\ \A v \in Isci \ {w} : isci'[v] = isci[v]
        /\ Gonderdi(w)' /\ (isci'[w].karar = isci[w].karar \/ isci'[w].karar # "KILIT_AC")
    BY <1>3, <1>8, <2>3, <2>4 DEF Gonderdi
  <2>6. IsciSaglam(w)'
    BY <1>2, <1>4, <1>8, <2>3, <2>4 DEF IsciSaglam, Bosta, BosIsci
  <2>7. BildirimTypeOK'
    BY <1>5, <1>6, <1>9, <1>10, <2>1, <2>4 DEF gozlem, Karar, Durum, Bekleyen
  <2> QED BY <1>1, <1>2, <1>3, <1>4, <1>6, <1>7, <2>1, <2>2, <2>5, <2>6, <2>7,
             IlerleKorur DEF gozlem
<1> QED BY <1>11, <1>12, <1>13, <1>14, <1>15
(* A worker takes up the first job of p, or nothing: whatever it had       *)
(* before is off its hands.                                                *)
LEMMA YeniIsKorur ==
  ASSUME BildirimInv, [KrediNext]_krediVars, NEW w \in Isci, NEW p \in SUBSET Is,
         isci' = [isci EXCEPT ![w] = SiradakiIs(p)],
         durum' \in [Is -> Durum], kilit' \in [Is -> {"yok", "taze", "bayat"}],
         olay' \in 0..MaxOlay, UNCHANGED <<dunya, gozlem, planci>>,
         \A v \in Isci \ {w} : cagri'[v] = cagri[v], cagri'[w] = Bosta,
         \A j \in Is : durum'[j] \notin {durum[j], "PLANLANDI", "KUYRUKTA", "ATLANDI",
                                         "IPTAL_EDILDI"} =>
                         /\ durum'[j] = "BASARISIZ" => Kayitli("IADE", j)
                         /\ durum'[j] = "GONDERILDI" => gonderim[j] > 0,
         \A j \in Is \ kaybolan :
           /\ gonderim[j] > 0 => Alinamaz(j)'
           /\ \A v \in Isci \ {w} : Elinde(v, j) => j \notin p /\ Alinamaz(j)'
           /\ j \in p => Alinamaz(j)' /\ gonderim[j] = 0
  PROVE  BildirimInv'
<1>1. KrediInv' /\ \A t, r : Kayitli(t, r) => Kayitli(t, r)'
  BY KayitKalir DEF BildirimInv
<1>2. BildirimTypeOK /\ isci \in [Isci -> IsciKaydi]
  BY DEF BildirimInv, BildirimTypeOK, IsciKaydi
<1>3. PICK s : s = SiradakiIs(p)
  OBVIOUS
<1>4. /\ s \in IsciKaydi
      /\ s = BosIsci \/ /\ s.adim = "oku" /\ s.karar = "-"
                        /\ s.is \in p /\ s.parti = p \ {s.is}
  BY <1>3, SiradakiTipi
<1>5. isci' = [isci EXCEPT ![w] = s] /\ isci' \in [Isci -> IsciKaydi]
  BY <1>2, <1>3, <1>4
<1>6. isci'[w] = s /\ \A v \in Isci \ {w} : isci'[v] = isci[v]
  BY <1>2, <1>5
<1>7. BildirimTypeOK'
  BY <1>2, <1>5 DEF BildirimTypeOK, dunya, gozlem, IsciKaydi
<1>8. \A v \in Isci : IsciSaglam(v)'
  <2>1. IsciSaglam(w)'
    BY <1>4, <1>6 DEF IsciSaglam, BosIsci
  <2>2. \A v \in Isci \ {w} : IsciSaglam(v)'
    BY <1>6, DigerIsciler DEF gozlem
  <2> QED BY <2>1, <2>2
<1>9. OtomatikMesajKredili'
  BY <1>1 DEF BildirimInv, OtomatikMesajKredili, gozlem
<1>10. BitenIsDogru'
  BY <1>1 DEF BildirimInv, BitenIsDogru, BasarisizIadeli, GonderildiDogru, gozlem
<1>11. ASSUME NEW j \in Is \ kaybolan' PROVE KilitSaglam(j)'
  <2>1. j \in Is \ kaybolan /\ KilitSaglam(j) /\ gonderim'[j] = gonderim[j]
    BY DEF BildirimInv, gozlem
  <2>2. Elinde(w, j)' => j \in p
    BY <1>4, <1>6 DEF Elinde
  <2>3. \A v \in Isci \ {w} : Elinde(v, j)' <=> Elinde(v, j)
    BY <1>6 DEF Elinde
  <2>4. ASSUME NEW v \in Isci, Elinde(v, j)' PROVE EldeSaglam(v, j)'
    <3>1. CASE v = w
      <4>1. Alinamaz(j)' /\ gonderim'[j] = 0
        BY <2>1, <2>2, <2>4, <3>1
      <4>2. isci'[w].karar = "-"
        BY <1>4, <1>6 DEF BosIsci
      <4>3. \A u \in Isci : Elinde(u, j)' => u = w
        BY <2>1, <2>2, <2>3, <2>4, <3>1
      <4> QED BY <3>1, <4>1, <4>2, <4>3 DEF EldeSaglam
    <3>2. CASE v # w
      <4>1. Elinde(v, j) /\ EldeSaglam(v, j) /\ j \notin p /\ Alinamaz(j)'
        BY <2>1, <2>3, <2>4, <3>2 DEF KilitSaglam
      <4>2. \A u \in Isci : Elinde(u, j)' => u = v
        BY <2>2, <2>3, <4>1 DEF EldeSaglam
      <4> QED BY <1>6, <2>1, <3>2, <4>1, <4>2 DEF EldeSaglam, Gonderdi
    <3> QED BY <3>1, <3>2
  <2> QED BY <2>1, <2>4 DEF KilitSaglam
<1> QED BY <1>1, <1>7, <1>8, <1>9, <1>10, <1>11 DEF BildirimInv

(* claimDueJobs: a job whose lock was never lost is claimed only when      *)
(* nobody has it and it has not been sent.                                 *)
LEMMA ClaimKorur ==
  ASSUME BildirimInv, Next, NEW w \in Isci, NEW p \in SUBSET Is, ClaimDueJobs(w, p)
  PROVE  BildirimInv'
<1>1. BildirimTypeOK /\ [KrediNext]_krediVars /\ IsciSaglam(w)
  BY CuzdanAdimi DEF BildirimInv
<1>2. /\ isci[w] = BosIsci
      /\ durum' = [j \in Is |-> IF j \in p THEN "KUYRUKTA" ELSE durum[j]]
      /\ kilit' = [j \in Is |-> IF j \in p THEN "taze" ELSE kilit[j]]
      /\ isci' = [isci EXCEPT ![w] = SiradakiIs(p)]
      /\ UNCHANGED <<dunya, gozlem, planci, olay, krediVars>>
  BY DEF ClaimDueJobs
<1>3. \A j \in p : Alinabilir(j)
  BY DEF ClaimDueJobs, Partiler
<1>4. durum' \in [Is -> Durum] /\ kilit' \in [Is -> {"yok", "taze", "bayat"}]
      /\ olay' \in 0..MaxOlay
  BY <1>1, <1>2 DEF BildirimTypeOK, Durum, Bekleyen
<1>5. \A v \in Isci : cagri'[v] = cagri[v]
  BY <1>2 DEF krediVars
<1>6. cagri'[w] = Bosta
  BY <1>1, <1>2 DEF IsciSaglam, BosIsci, krediVars
<1>7. \A j \in Is : durum'[j] \in {durum[j], "KUYRUKTA"}
  BY <1>2
<1>8. ASSUME NEW j \in Is \ kaybolan
      PROVE  /\ gonderim[j] > 0 => Alinamaz(j)'
             /\ \A v \in Isci \ {w} : Elinde(v, j) => j \notin p /\ Alinamaz(j)'
             /\ j \in p => Alinamaz(j)' /\ gonderim[j] = 0
  <2>1. KilitSaglam(j) /\ gonderim[j] \in 0..2
    BY <1>1 DEF BildirimInv, BildirimTypeOK
  <2>2. CASE j \in p
    <3>1. ~Alinamaz(j)
      BY <1>3, <2>2 DEF Alinabilir, Alinamaz
    <3>2. gonderim[j] = 0 /\ \A v \in Isci : ~Elinde(v, j)
      BY <2>1, <3>1 DEF KilitSaglam, EldeSaglam
    <3>3. Alinamaz(j)'
      BY <1>2, <2>2 DEF Alinamaz
    <3> QED BY <3>2, <3>3
  <2>3. CASE j \notin p
    <3>1. Alinamaz(j)' <=> Alinamaz(j)
      BY <1>2, <2>3 DEF Alinamaz
    <3> QED BY <2>1, <2>3, <3>1 DEF KilitSaglam, EldeSaglam
  <2> QED BY <2>2, <2>3
<1> QED BY <1>1, <1>2, <1>4, <1>5, <1>6, <1>7, <1>8, YeniIsKorur

(* The update that ends an iteration, and the worker's next job.           *)
LEMMA IsYazKorur ==
  ASSUME BildirimInv, Next, NEW w \in Isci, IsYaz(w)
  PROVE  BildirimInv'
<1>0. PICK i, p, k : i = isci[w].is /\ p = isci[w].parti /\ k = isci[w].karar
  OBVIOUS
<1>1. BildirimTypeOK /\ [KrediNext]_krediVars /\ IsciSaglam(w)
  BY CuzdanAdimi DEF BildirimInv
<1>2. /\ isci[w].adim = "yaz"
      /\ durum' = IF k = "KILIT_AC" THEN durum ELSE [durum EXCEPT ![i] = k]
      /\ kilit' = [kilit EXCEPT ![i] = "yok"]
      /\ isci' = [isci EXCEPT ![w] = SiradakiIs(p)]
      /\ UNCHANGED <<dunya, gozlem, planci, olay, krediVars>>
  BY <1>0 DEF IsYaz
<1>3. isci[w] \in IsciKaydi /\ i \in Is \ p /\ p \in SUBSET Is
  BY <1>0, <1>2, IsciTipi DEF IsciKaydi
<1>4. k \in {"KILIT_AC", "PLANLANDI", "GONDERILDI", "BASARISIZ", "ATLANDI", "IPTAL_EDILDI"}
  BY <1>0, <1>1, <1>2, <1>3 DEF IsciSaglam, IsciKaydi, Karar, Durum, Bekleyen
<1>5. /\ k = "GONDERILDI" => gonderim[i] > 0
      /\ k = "BASARISIZ" => Kayitli("IADE", i)
  BY <1>0, <1>1, <1>2 DEF IsciSaglam
<1>6. durum' \in [Is -> Durum] /\ kilit' \in [Is -> {"yok", "taze", "bayat"}]
      /\ olay' \in 0..MaxOlay
  BY <1>1, <1>2, <1>3, <1>4 DEF BildirimTypeOK, Durum, Bekleyen
<1>7. (\A v \in Isci : cagri'[v] = cagri[v]) /\ cagri'[w] = Bosta
  BY <1>1, <1>2 DEF krediVars, IsciSaglam
<1>8. /\ durum'[i] \in {durum[i], k}
      /\ k # "KILIT_AC" => durum'[i] = k
      /\ \A j \in Is \ {i} : durum'[j] = durum[j] /\ kilit'[j] = kilit[j]
  BY <1>1, <1>2, <1>3 DEF BildirimTypeOK
<1>9. ASSUME NEW j \in Is,
             durum'[j] \notin {durum[j], "PLANLANDI", "KUYRUKTA", "ATLANDI", "IPTAL_EDILDI"}
      PROVE  /\ durum'[j] = "BASARISIZ" => Kayitli("IADE", j)
             /\ durum'[j] = "GONDERILDI" => gonderim[j] > 0
  BY <1>5, <1>8, <1>9
<1>10. ASSUME NEW j \in Is \ kaybolan
       PROVE  /\ gonderim[j] > 0 => Alinamaz(j)'
              /\ \A v \in Isci \ {w} : Elinde(v, j) => j \notin p /\ Alinamaz(j)'
              /\ j \in p => Alinamaz(j)' /\ gonderim[j] = 0
  <2>1. KilitSaglam(j) /\ gonderim[j] \in 0..2
    BY <1>1 DEF BildirimInv, BildirimTypeOK
  <2>2. CASE j = i
    <3>1. EldeSaglam(w, i)
      BY <1>0, <1>2, <2>1, <2>2 DEF KilitSaglam, Elinde, BosIsci
    <3>2. \A v \in Isci \ {w} : ~Elinde(v, j)
      BY <2>2, <3>1 DEF EldeSaglam
    <3>3. k # "KILIT_AC" /\ (gonderim[j] > 0 => k \in {"GONDERILDI", "BASARISIZ"})
      BY <1>0, <1>2, <2>2, <3>1 DEF EldeSaglam, Gonderdi
    <3>4. gonderim[j] > 0 => Alinamaz(j)'
      BY <1>8, <2>2, <3>3 DEF Alinamaz, Bekleyen
    <3> QED BY <1>3, <2>2, <3>2, <3>4
  <2>3. CASE j # i
    <3>1. Alinamaz(j)' <=> Alinamaz(j)
      BY <1>8, <2>3 DEF Alinamaz
    <3>2. j \in p => EldeSaglam(w, j) /\ \A v \in Isci \ {w} : ~Elinde(v, j)
      <4>1. j \in p => Elinde(w, j)
        BY <1>0, <1>2 DEF Elinde, BosIsci
      <4> QED BY <2>1, <4>1 DEF KilitSaglam, EldeSaglam
    <3>3. j \in p => Alinamaz(j) /\ gonderim[j] = 0
      BY <1>0, <2>1, <2>3, <3>2 DEF EldeSaglam
    <3> QED BY <2>1, <3>1, <3>2, <3>3 DEF KilitSaglam, EldeSaglam
  <2> QED BY <2>2, <2>3
<1> QED BY <1>1, <1>2, <1>3, <1>6, <1>7, <1>9, <1>10, YeniIsKorur

(* The worker dies; the rows stay as they are.                             *)
LEMMA CokerKorur ==
  ASSUME BildirimInv, Next, NEW w \in Isci, IsciCoker(w)
  PROVE  BildirimInv'
<1>0. PICK p \in SUBSET Is : p = {}
  OBVIOUS
<1>1. BildirimTypeOK /\ [KrediNext]_krediVars
  BY CuzdanAdimi DEF BildirimInv
<1>2. /\ isci' = [isci EXCEPT ![w] = SiradakiIs(p)]
      /\ cagri' = [cagri EXCEPT ![w] = Bosta]
      /\ UNCHANGED <<satir, dunya, gozlem, planci>>
  BY <1>0 DEF IsciCoker, SiradakiIs
<1>3. durum' \in [Is -> Durum] /\ kilit' \in [Is -> {"yok", "taze", "bayat"}]
      /\ olay' \in 0..MaxOlay
  BY <1>1, <1>2, BildirimVarsayimi DEF BildirimTypeOK, satir, IsciCoker, Olay
<1>4. cagri'[w] = Bosta /\ \A v \in Isci \ {w} : cagri'[v] = cagri[v]
  BY <1>2, BildirimVarsayimi DEF BildirimInv, KrediInv
<1>5. \A j \in Is : durum'[j] = durum[j] /\ (Alinamaz(j)' <=> Alinamaz(j))
  BY <1>2 DEF satir, Alinamaz
<1>6. ASSUME NEW j \in Is \ kaybolan
      PROVE  /\ gonderim[j] > 0 => Alinamaz(j)'
             /\ \A v \in Isci \ {w} : Elinde(v, j) => j \notin p /\ Alinamaz(j)'
             /\ j \in p => Alinamaz(j)' /\ gonderim[j] = 0
  BY <1>0, <1>5 DEF BildirimInv, KilitSaglam, EldeSaglam
<1> QED BY <1>1, <1>2, <1>3, <1>4, <1>5, <1>6, YeniIsKorur

-----------------------------------------------------------------------------
(* Theorems *)

LEMMA BildirimBaslangic == Init => BildirimInv
<1> SUFFICES ASSUME Init PROVE BildirimInv
  OBVIOUS
<1>1. KrediInv
  BY KrediBaslangic DEF Init
<1>2. BildirimTypeOK
  BY BildirimVarsayimi DEF Init, BildirimTypeOK, Durum, Bekleyen, Karar, BosIsci, BosPlanci
<1>3. \A w \in Isci : IsciSaglam(w)
  BY BildirimVarsayimi DEF Init, KrediInit, IsciSaglam, BosIsci
<1>4. OtomatikMesajKredili /\ BitenIsDogru
  BY DEF Init, OtomatikMesajKredili, BitenIsDogru, BasarisizIadeli, GonderildiDogru
<1>5. \A j \in Is : KilitSaglam(j)
  BY DEF Init, KilitSaglam, Elinde
<1> QED BY <1>1, <1>2, <1>3, <1>4, <1>5 DEF BildirimInv

LEMMA BildirimAdimi == BildirimInv /\ [Next]_vars => BildirimInv'
<1> SUFFICES ASSUME BildirimInv, [Next]_vars PROVE BildirimInv'
  OBVIOUS
<1>1. CASE Next
  <2>1. ASSUME NEW w \in Isci, NEW p \in SUBSET Is, ClaimDueJobs(w, p) PROVE BildirimInv'
    BY <1>1, <2>1, ClaimKorur
  <2>2. ASSUME NEW w \in Isci, IsciAdimi(w) PROVE BildirimInv'
    BY <1>1, <2>2, IlerleyenKorur, IsYazKorur DEF IsciAdimi
  <2>3. ASSUME NEW w \in Isci, IsciCoker(w) PROVE BildirimInv'
    BY <1>1, <2>3, CokerKorur
  <2>4. ASSUME NEW p \in Planci,
               \/ PlanBasla(p) \/ PlanOku(p) \/ PlanBiter(p)
               \/ \E j \in Is : PlanIptal(p, j) \/ IsOlustur(p, j)
        PROVE  BildirimInv'
    BY <1>1, <2>4, PlanciKorur
  <2>5. CASE \E p \in Planci :
               \/ PlanBasla(p) \/ PlanOku(p) \/ PlanBiter(p)
               \/ \E j \in Is : PlanIptal(p, j) \/ IsOlustur(p, j)
    BY <2>4, <2>5
  <2>6. CASE \/ \E j \in Is : KilitBayatlar(j) \/ BekleyenIptal(j) \/ BorcDegisir(j)
             \/ SaatIlerler \/ OtomasyonDegisir \/ KrediHareketi
    BY <1>1, <2>6, DisariKorur
  <2> QED BY <1>1, <2>1, <2>2, <2>3, <2>5, <2>6 DEF Next
<1>2. CASE UNCHANGED vars
  <2>1. BildirimTypeOK' /\ UNCHANGED <<satir, gozlem, isci, cagri>>
    BY <1>2 DEF BildirimInv, BildirimTypeOK, vars, bildirimVars, satir, dunya, gozlem, krediVars
  <2>2. [KrediNext]_krediVars
    BY <1>2 DEF vars
  <2> QED BY <2>1, <2>2, DisAdimKorur DEF satir, gozlem, Alinamaz
<1> QED BY <1>1, <1>2

(* The inductive invariant of the pipeline.                                *)
THEOREM BildirimDegismez == Spec => []BildirimInv
<1> QED BY BildirimBaslangic, BildirimAdimi, PTL DEF Spec

(* Jobs, workers, planners, ledger and wallet keep their types, whatever   *)
(* overlaps.                                                               *)
THEOREM BildirimTipi == Spec => []TypeOK
<1>1. BildirimInv => TypeOK
  BY DEF BildirimInv, TypeOK, KrediInv, DefterInv, DefterTipi, KrediTypeOK
<1> QED BY <1>1, BildirimDegismez, PTL

(* No automatic message leaves without its charge, for any number of       *)
(* overlapping runs and planners, crashes and expired locks included.      *)
THEOREM MesajKredisizGitmez == Spec => []OtomatikMesajKredili
<1>1. BildirimInv => OtomatikMesajKredili
  BY DEF BildirimInv
<1> QED BY <1>1, BildirimDegismez, PTL

(* A job is sent twice only after its lock expired or was cleared.         *)
THEOREM KilitKorur == Spec => []CiftMesajKilitKaybindan
<1>1. BildirimInv => CiftMesajKilitKaybindan
  BY DEF BildirimInv, BildirimTypeOK, KilitSaglam, CiftMesajKilitKaybindan
<1> QED BY <1>1, BildirimDegismez, PTL

(* A job marked BASARISIZ has its refund, one marked GONDERILDI its        *)
(* message.                                                                *)
THEOREM BitenDogrudur == Spec => []BitenIsDogru
<1>1. BildirimInv => BitenIsDogru
  BY DEF BildirimInv
<1> QED BY <1>1, BildirimDegismez, PTL

(* The pipeline moves the wallet by the wallet's own operations only, so   *)
(* everything proved of the wallet holds under it.                         *)
THEOREM CuzdanKurallari == Spec => KrediSpec /\ []BakiyeSaglam /\ []TekHareket
<1>1. Init => KrediInit
  BY DEF Init
<1>2. BildirimInv /\ [Next]_vars => [KrediNext]_krediVars
  BY CuzdanAdimi
<1>3. Spec => KrediSpec
  BY <1>1, <1>2, BildirimDegismez, PTL DEF Spec, KrediSpec
<1> QED BY <1>3, BakiyeDogru, HareketTekrarlanmaz, PTL
-----------------------------------------------------------------------------
-----------------------------------------------------------------------------
(* Which reminders an instalment gets.  A pending job is asked for, or a   *)
(* request that will cancel the pending ones is under way; and what a      *)
(* request nobody overtook has read is still so.                           *)

\* What requests hold.
GIstenen(M) == [mod : M, kural : GTarifeler, no : Nat]
GYazK == [adim : {"yaz"}, sonra : {"-"}, bilgi : [alan : GAlan \ {"buro"}, deger : BOOLEAN], bayat : BOOLEAN]
GBayrakK ==
  [adim : {"bayrak", "kaldir"}, sonra : {"-"}, bilgi : GIstenen({"KAPALI", "VARSAYILAN", "OZEL"}), bayat : BOOLEAN]
GKaydetK == [adim : {"kaydet", "sil", "ekle"}, sonra : {"-"}, bilgi : GIstenen({"VARSAYILAN", "OZEL"}), bayat : BOOLEAN]
GYolK == [adim : {"odeme", "iptal", "plan", "anlik"}, sonra : {"-", "bitti", "plan"}, bilgi : {Yok}, bayat : BOOLEAN]
GEskiK ==
  [adim : {"eski", "eskiYaz"}, sonra : {"-"}, bilgi : [acik : BOOLEAN, isler : SUBSET GAnahtar], bayat : BOOLEAN]
GModK == [adim : {"mod", "kural"}, sonra : {"-"}, bilgi : [uygun : BOOLEAN, vade : GVade], bayat : BOOLEAN]
GIsK == [adim : {"is"}, sonra : {"-"}, bilgi : SUBSET GAnahtar, bayat : BOOLEAN]
GBakK == [adim : {"bak"}, sonra : {"-"}, bilgi : GAnahtar, bayat : BOOLEAN]
GKararK ==
  [adim : {"karar"}, sonra : {"-"}, bilgi : [is : GAnahtar, izin : BOOLEAN, borc : BOOLEAN], bayat : BOOLEAN]
GSonucK ==
  [adim : {"sonuc"}, sonra : GDurum \ {"KUYRUKTA"},
   bilgi : [is : GAnahtar, izin : BOOLEAN, borc : BOOLEAN], bayat : BOOLEAN]
GKayit == GYazK \cup GBayrakK \cup GKaydetK \cup GYolK \cup GEskiK \cup GModK \cup GIsK \cup GBakK \cup GKararK
          \cup GSonucK

GTaksitTipi == [vade : GVade, borc : BOOLEAN]
GPlanTipi(n) == [mod : {"VARSAYILAN", "OZEL"}, surum : 1..GSurum, no : 1..n, kural : GTarifeler]
GAyarTipi ==
  /\ gAcik \in [GAlan -> BOOLEAN] /\ gTaksit \in GTaksitTipi /\ gKural \in GKurallar
  /\ gNo \in Nat /\ gPlan \in {Yok} \cup GPlanTipi(gNo)
GPTipler ==
  /\ GAyarTipi
  /\ gIs \in [GAnahtar -> GDurum \cup {Yok}] /\ gIstek \in [GIstek -> GKayit \cup {Bos, Bitti}]
  /\ gSasan \in BOOLEAN /\ gPlanli \in BOOLEAN

\* A rule of the office was not moved after today's job when there is none.
GIsGunu == \A q \in GKural : gIs[GBuroIsi(q)] = Yok => gKural[q].isGun = gKural[q].gun

GSurer(r) == r \notin {Bos, Bitti}
GBekleyen(j) == gIs[j] # Yok /\ GBekler(gIs[j])

\* Steps of a request that will cancel the pending jobs.
GIptalci == {"kaldir", "kaydet", "sil", "ekle", "iptal"}
GIptalYolda == \E a \in GIstek : gIstek[a].adim \in GIptalci
GOdemeYolda == \E a \in GIstek : gIstek[a].adim = "odeme"
GIstenir(j) ==
  /\ GUstAcik /\ (gTaksit.borc \/ GOdemeYolda) /\ GIsBugun(j)
  /\ j \in GEtkin \/ (GMod = "VARSAYILAN" /\ j.kaynak = "VARSAYILAN")
GDogru(j) == GIptalYolda \/ GIstenir(j)

GGuncel(r) ==
  /\ r.adim = "mod" => (r.bilgi.uygun => GUstAcik /\ gTaksit.borc) /\ (GUstAcik /\ gTaksit.borc => r.bilgi.uygun)
                       /\ r.bilgi.vade = gTaksit.vade
  /\ r.adim = "kural" => GUstAcik /\ gTaksit.borc /\ r.bilgi.vade = gTaksit.vade
  /\ r.adim = "is" => /\ GUstAcik /\ gTaksit.borc /\ r.bilgi \subseteq GEtkin
                      /\ \A k \in r.bilgi : GBugun(k, gTaksit.vade)
                      /\ \A k \in GOnizleme \ r.bilgi : gIs[k] # Yok
  /\ r.adim = "bak" => GDogru(r.bilgi)
  /\ r.adim \in {"karar", "sonuc"} => GDogru(r.bilgi.is)

BPlanInv ==
  /\ GPTipler /\ GIsGunu
  /\ ~gSasan =>
       /\ \A j \in GAnahtar : GBekleyen(j) => GDogru(j)
       /\ \A a \in GIstek : GSurer(gIstek[a]) /\ ~gIstek[a].bayat => GGuncel(gIstek[a])
       /\ gPlanli => \A j \in GOnizleme : gIs[j] # Yok

LEMMA GKayitAlanlari ==
  ASSUME NEW r \in GKayit
  PROVE  /\ r.adim \in GAdimlar /\ r.bayat \in BOOLEAN
         /\ r.adim = "yaz" => r.bilgi.alan \in GAlan \ {"buro"} /\ r.bilgi.deger \in BOOLEAN
         /\ r.adim \in {"bayrak", "kaldir"} => r.bilgi \in GIstenen({"KAPALI", "VARSAYILAN", "OZEL"})
         /\ r.adim \in {"kaydet", "sil", "ekle"} => r.bilgi \in GIstenen({"VARSAYILAN", "OZEL"})
         /\ r.adim \in {"eski", "eskiYaz"} => r.bilgi \in [acik : BOOLEAN, isler : SUBSET GAnahtar]
         /\ r.adim \in {"mod", "kural"} => r.bilgi.uygun \in BOOLEAN /\ r.bilgi.vade \in GVade
         /\ r.adim = "is" => r.bilgi \subseteq GAnahtar
         /\ r.adim = "bak" => r.bilgi \in GAnahtar
         /\ r.adim \in {"karar", "sonuc"} =>
              r.bilgi.is \in GAnahtar /\ r.bilgi.izin \in BOOLEAN /\ r.bilgi.borc \in BOOLEAN
         /\ r.adim = "sonuc" => r.sonra \in GDurum \ {"KUYRUKTA"}
BY DEF GKayit, GYazK, GBayrakK, GKaydetK, GYolK, GEskiK, GModK, GIsK, GBakK, GKararK, GSonucK, GAdimlar

LEMMA GBosBitti ==
  /\ ~GSurer(Bos) /\ ~GSurer(Bitti) /\ \A r \in GKayit : GSurer(r)
  /\ Bos.adim = "bos" /\ Bitti.adim = "bitti"
<1>1. ~GSurer(Bos) /\ ~GSurer(Bitti)
  BY DEF GSurer
<1>2. Bos.adim = "bos" /\ Bitti.adim = "bitti"
  BY DEF Bos, Bitti
<1>3. ASSUME NEW r \in GKayit PROVE GSurer(r)
  BY <1>2, GKayitAlanlari DEF GSurer, GAdimlar
<1> QED BY <1>1, <1>2, <1>3

LEMMA GAdimdaki ==
  ASSUME GPTipler, NEW a \in GIstek, gIstek[a].adim \in GAdimlar
  PROVE  gIstek[a] \in GKayit /\ GSurer(gIstek[a])
<1>1. gIstek[a] \in GKayit \cup {Bos, Bitti}
  BY DEF GPTipler
<1>2. gIstek[a] \in GKayit
  BY <1>1, GBosBitti DEF GAdimlar
<1> QED BY <1>2, GBosBitti

LEMMA GBayatla ==
  ASSUME NEW r \in GKayit, NEW y, y = [r EXCEPT !.bayat = TRUE]
  PROVE  y \in GKayit /\ y.adim = r.adim /\ y.bayat
<1>1. CASE r \in GYazK
  <2>1. y \in GYazK /\ y.adim = r.adim /\ y.bayat
    BY <1>1 DEF GYazK
  <2> QED BY <2>1 DEF GKayit
<1>2. CASE r \in GBayrakK
  <2>1. y \in GBayrakK /\ y.adim = r.adim /\ y.bayat
    BY <1>2 DEF GBayrakK
  <2> QED BY <2>1 DEF GKayit
<1>3. CASE r \in GKaydetK
  <2>1. y \in GKaydetK /\ y.adim = r.adim /\ y.bayat
    BY <1>3 DEF GKaydetK
  <2> QED BY <2>1 DEF GKayit
<1>4. CASE r \in GYolK
  <2>1. y \in GYolK /\ y.adim = r.adim /\ y.bayat
    BY <1>4 DEF GYolK
  <2> QED BY <2>1 DEF GKayit
<1>10. CASE r \in GEskiK
  <2>1. y \in GEskiK /\ y.adim = r.adim /\ y.bayat
    BY <1>10 DEF GEskiK
  <2> QED BY <2>1 DEF GKayit
<1>5. CASE r \in GModK
  <2>1. y \in GModK /\ y.adim = r.adim /\ y.bayat
    BY <1>5 DEF GModK
  <2> QED BY <2>1 DEF GKayit
<1>6. CASE r \in GIsK
  <2>1. y \in GIsK /\ y.adim = r.adim /\ y.bayat
    BY <1>6 DEF GIsK
  <2> QED BY <2>1 DEF GKayit
<1>7. CASE r \in GBakK
  <2>1. y \in GBakK /\ y.adim = r.adim /\ y.bayat
    BY <1>7 DEF GBakK
  <2> QED BY <2>1 DEF GKayit
<1>8. CASE r \in GSonucK
  <2>1. y \in GSonucK /\ y.adim = r.adim /\ y.bayat
    BY <1>8 DEF GSonucK
  <2> QED BY <2>1 DEF GKayit
<1>9. CASE r \in GKararK
  <2>1. y \in GKararK /\ y.adim = r.adim /\ y.bayat
    BY <1>9 DEF GKararK
  <2> QED BY <2>1 DEF GKayit
<1> QED BY <1>1, <1>2, <1>3, <1>4, <1>5, <1>6, <1>7, <1>8, <1>9, <1>10 DEF GKayit

\* A key that is of no plan is of the office's rules.
LEMMA GAnahtarTuru ==
  /\ \A q \in GKural : GBuroIsi(q) \in GAnahtar
  /\ \A j \in GAnahtar : j.kural \in GKural /\ (j.kaynak # "OZEL" => j = GBuroIsi(j.kural))
BY DEF GAnahtar, GAnahtarlar, GBuroIsi

\* The rules that apply are among the keys.
LEMMA GEtkinTipi ==
  ASSUME GAyarTipi
  PROVE  /\ GMod \in {"KAPALI", "VARSAYILAN", "OZEL"}
         /\ GEtkin \subseteq GAnahtar /\ GOnizleme \subseteq GEtkin
         /\ GMod = "KAPALI" => GEtkin = {}
         /\ GMod = "VARSAYILAN" => \A j \in GEtkin : j.kaynak = "VARSAYILAN"
<1>1. GMod \in {"KAPALI", "VARSAYILAN", "OZEL"}
  BY DEF GMod, GAyarTipi, GPlanTipi
<1>2. CASE GMod = "KAPALI"
  BY <1>2 DEF GEtkin, GOnizleme
<1>3. CASE GMod = "VARSAYILAN"
  <2>0. PICK K \in SUBSET GKural : K = {q \in GKural : gKural[q].aktif}
    OBVIOUS
  <2>1. GEtkin = GAnahtarlar("VARSAYILAN", 1, K)
    BY <1>3, <2>0 DEF GEtkin
  <2>2. GAnahtarlar("VARSAYILAN", 1, K) \subseteq GAnahtarlar("VARSAYILAN", 1, GKural)
    BY DEF GAnahtarlar
  <2>3. \A j \in GAnahtarlar("VARSAYILAN", 1, K) : j.kaynak = "VARSAYILAN"
    BY DEF GAnahtarlar
  <2> QED BY <1>1, <1>3, <2>1, <2>2, <2>3 DEF GAnahtar, GOnizleme
<1>4. CASE GMod = "OZEL"
  <2>0. PICK K \in SUBSET GKural : K = {q \in GKural : gPlan.kural[q] # Yok}
    OBVIOUS
  <2>1. GEtkin = GAnahtarlar("OZEL", gPlan.surum, K)
    BY <1>4, <2>0 DEF GEtkin
  <2>2. gPlan \in GPlanTipi(gNo)
    BY <1>4 DEF GMod, GAyarTipi
  <2>3. gPlan.surum \in 1..GSurum
    BY <2>2 DEF GPlanTipi
  <2>4. GAnahtarlar("OZEL", gPlan.surum, K) \subseteq GAnahtarlar("OZEL", gPlan.surum, GKural)
    BY DEF GAnahtarlar
  <2> QED BY <1>4, <2>1, <2>3, <2>4 DEF GAnahtar, GOnizleme
<1> QED BY <1>1, <1>2, <1>3, <1>4

LEMMA GIlerletEtkisi ==
  ASSUME GPTipler, NEW a \in GIstek, NEW k \in GKayit \cup {Bos, Bitti}, GIlerlet(a, k)
  PROVE  /\ gIstek' \in [GIstek -> GKayit \cup {Bos, Bitti}] /\ gIstek'[a] = k
         /\ \A b \in GIstek \ {a} : gIstek'[b] = gIstek[b]
BY DEF GIlerlet, GPTipler

LEMMA GBozarEtkisi ==
  ASSUME GPTipler, NEW a \in GIstek, NEW k \in GKayit \cup {Bos, Bitti}, GBozar(a, k)
  PROVE  /\ gIstek' \in [GIstek -> GKayit \cup {Bos, Bitti}] /\ gIstek'[a] = k
         /\ \A b \in GIstek \ {a} : gIstek'[b].adim = gIstek[b].adim /\ (GSurer(gIstek'[b]) => gIstek'[b].bayat)
<1>1. gIstek' = [b \in GIstek |-> IF b = a THEN k ELSE IF gIstek[b] \in {Bos, Bitti} THEN gIstek[b]
                                 ELSE [gIstek[b] EXCEPT !.bayat = TRUE]]
  BY DEF GBozar, Bayatlat, GPTipler
<1>2. ASSUME NEW b \in GIstek \ {a}
      PROVE  /\ gIstek'[b] \in GKayit \cup {Bos, Bitti}
             /\ gIstek'[b].adim = gIstek[b].adim /\ (GSurer(gIstek'[b]) => gIstek'[b].bayat)
  <2>1. CASE gIstek[b] \in {Bos, Bitti}
    BY <1>1, <2>1, GBosBitti
  <2>2. CASE gIstek[b] \notin {Bos, Bitti}
    <3>1. PICK r \in GKayit : r = gIstek[b]
      BY <2>2 DEF GPTipler
    <3>2. PICK y : y = [r EXCEPT !.bayat = TRUE]
      OBVIOUS
    <3>3. gIstek'[b] = y
      BY <1>1, <2>2, <3>1, <3>2
    <3> QED BY <3>1, <3>2, <3>3, GBayatla
  <2> QED BY <2>1, <2>2
<1>3. gIstek'[a] = k
  BY <1>1
<1>4. gIstek' \in [GIstek -> GKayit \cup {Bos, Bitti}]
  <2>1. gIstek' = [b \in GIstek |-> gIstek'[b]]
    BY <1>1
  <2>2. \A b \in GIstek : gIstek'[b] \in GKayit \cup {Bos, Bitti}
    BY <1>2, <1>3
  <2> QED BY <2>1, <2>2
<1> QED BY <1>2, <1>3, <1>4
-----------------------------------------------------------------------------
(* Steps that leave switches, plan, rules and instalment alone.            *)

LEMMA GAyarAyni ==
  ASSUME UNCHANGED gAyarlar
  PROVE  GMod' = GMod /\ GEtkin' = GEtkin /\ GOnizleme' = GOnizleme /\ (GUstAcik' <=> GUstAcik)
<1>1. GMod' = GMod /\ GEtkin' = GEtkin /\ (GUstAcik' <=> GUstAcik)
  BY DEF gAyarlar, GMod, GEtkin, GUstAcik
<1>2. (GOnizlenir' <=> GOnizlenir) /\ \A j : GBugun(j, gTaksit.vade)' <=> GBugun(j, gTaksit.vade)
  BY <1>1 DEF gAyarlar, GOnizlenir, GBugun
<1> QED BY <1>1, <1>2 DEF GOnizleme

\* What made a job right stays, when the request keeps its promise to cancel.
LEMMA GDogruKalir ==
  ASSUME UNCHANGED gAyarlar, NEW a \in GIstek,
         \A b \in GIstek \ {a} : gIstek'[b].adim = gIstek[b].adim,
         gIstek[a].adim \in GIptalci => gIstek'[a].adim \in GIptalci,
         gIstek[a].adim = "odeme" => gTaksit.borc \/ gIstek'[a].adim \in GIptalci,
         NEW j \in GAnahtar, GDogru(j)
  PROVE  GDogru(j)'
<1>1. /\ GMod' = GMod /\ GEtkin' = GEtkin /\ (GUstAcik' <=> GUstAcik) /\ gTaksit' = gTaksit
      /\ GIsBugun(j)' <=> GIsBugun(j)
  BY GAyarAyni DEF gAyarlar, GIsBugun
<1>2. CASE GIptalYolda
  <2>1. PICK b \in GIstek : gIstek[b].adim \in GIptalci
    BY <1>2 DEF GIptalYolda
  <2>2. gIstek'[b].adim \in GIptalci
    BY <2>1
  <2> QED BY <2>2 DEF GDogru, GIptalYolda
<1>3. CASE ~GIptalYolda /\ GIstenir(j)
  <2>1. CASE gTaksit.borc
    BY <1>1, <1>3, <2>1 DEF GIstenir, GDogru
  <2>2. CASE ~gTaksit.borc
    <3>1. PICK b \in GIstek : gIstek[b].adim = "odeme"
      BY <1>3, <2>2 DEF GIstenir, GOdemeYolda
    <3>2. CASE b = a
      BY <2>2, <3>1, <3>2 DEF GDogru, GIptalYolda
    <3>3. CASE b # a
      <4>1. GOdemeYolda'
        BY <3>1, <3>3 DEF GOdemeYolda
      <4> QED BY <1>1, <1>3, <4>1 DEF GIstenir, GDogru
    <3> QED BY <3>2, <3>3
  <2> QED BY <2>1, <2>2
<1> QED BY <1>2, <1>3 DEF GDogru

LEMMA GGuncelKalir ==
  ASSUME UNCHANGED gAyarlar, NEW r \in GKayit, GGuncel(r), GAyarTipi,
         \A j \in GAnahtar : gIs[j] # Yok => gIs'[j] # Yok,
         \A j \in GAnahtar : GDogru(j) => GDogru(j)'
  PROVE  GGuncel(r)'
<1>1. /\ GMod' = GMod /\ GEtkin' = GEtkin /\ GOnizleme' = GOnizleme /\ (GUstAcik' <=> GUstAcik)
      /\ gTaksit' = gTaksit /\ gPlan' = gPlan /\ gKural' = gKural
  BY GAyarAyni DEF gAyarlar
<1>2. GOnizleme \subseteq GAnahtar
  BY GEtkinTipi
<1>3. CASE r.adim = "is"
  BY <1>1, <1>2, <1>3 DEF GGuncel, GBugun
<1>4. CASE r.adim \in {"mod", "kural"}
  BY <1>1, <1>4 DEF GGuncel
<1>5. CASE r.adim = "bak"
  BY <1>5, GKayitAlanlari DEF GGuncel
<1>6. CASE r.adim \in {"karar", "sonuc"}
  BY <1>6, GKayitAlanlari DEF GGuncel
<1>7. CASE r.adim \notin {"is", "mod", "kural", "bak", "karar", "sonuc"}
  BY <1>7 DEF GGuncel
<1> QED BY <1>3, <1>4, <1>5, <1>6, <1>7

LEMMA GAyarTipiKalir ==
  ASSUME UNCHANGED gAyarlar, GAyarTipi
  PROVE  GAyarTipi'
BY DEF gAyarlar, GAyarTipi

LEMMA GAdimKorur ==
  ASSUME BPlanInv, NEW a \in GIstek, NEW k \in GKayit \cup {Bos, Bitti}, GIlerlet(a, k), UNCHANGED gAyarlar,
         gIs' \in [GAnahtar -> GDurum \cup {Yok}], \A j \in GAnahtar : gIs[j] # Yok => gIs'[j] # Yok,
         gSasan' \in BOOLEAN, gPlanli' \in BOOLEAN, gSasan => gSasan',
         ~gSasan' =>
           /\ gIstek[a].adim \in GIptalci => k.adim \in GIptalci
           /\ gIstek[a].adim = "odeme" => gTaksit.borc \/ k.adim \in GIptalci
           /\ \A j \in GAnahtar : GBekleyen(j)' => GBekleyen(j) \/ GDogru(j)'
           /\ GSurer(k) /\ ~k.bayat => GGuncel(k)'
           /\ gPlanli' => gPlanli \/ \A j \in GOnizleme : gIs'[j] # Yok
  PROVE  BPlanInv'
<1>t. GPTipler
  BY DEF BPlanInv
<1>1. /\ gIstek' \in [GIstek -> GKayit \cup {Bos, Bitti}] /\ gIstek'[a] = k
      /\ \A b \in GIstek \ {a} : gIstek'[b] = gIstek[b]
  BY <1>t, GIlerletEtkisi
<1>2. GPTipler'
  <2>1. GAyarTipi'
    BY <1>t, GAyarTipiKalir DEF GPTipler
  <2> QED BY <1>1, <2>1 DEF GPTipler
<1>g. GIsGunu'
  <2>1. gKural' = gKural
    BY DEF gAyarlar
  <2> QED BY <2>1, GAnahtarTuru DEF GIsGunu, BPlanInv
<1>3. ASSUME ~gSasan'
      PROVE  /\ \A j \in GAnahtar : GBekleyen(j)' => GDogru(j)'
             /\ \A b \in GIstek : GSurer(gIstek'[b]) /\ ~gIstek'[b].bayat => GGuncel(gIstek[b])'
             /\ gPlanli' => \A j \in GOnizleme' : gIs'[j] # Yok
  <2>0. ~gSasan
    BY <1>3
  <2>1. ASSUME NEW j \in GAnahtar, GDogru(j) PROVE GDogru(j)'
    <3>1. \A b \in GIstek \ {a} : gIstek'[b].adim = gIstek[b].adim
      BY <1>1
    <3>2. gIstek[a].adim \in GIptalci => gIstek'[a].adim \in GIptalci
      BY <1>1, <1>3
    <3>3. gIstek[a].adim = "odeme" => gTaksit.borc \/ gIstek'[a].adim \in GIptalci
      BY <1>1, <1>3
    <3> QED BY <2>1, <3>1, <3>2, <3>3, GDogruKalir
  <2>2. \A j \in GAnahtar : GBekleyen(j)' => GDogru(j)'
    BY <1>3, <2>0, <2>1 DEF BPlanInv
  <2>3. ASSUME NEW b \in GIstek, GSurer(gIstek'[b]), ~gIstek'[b].bayat
        PROVE  GGuncel(gIstek[b])'
    <3>1. CASE b = a
      <4>1. GGuncel(k)'
        BY <1>1, <1>3, <2>3, <3>1
      <4> QED BY <1>1, <3>1, <4>1 DEF GGuncel
    <3>2. CASE b # a
      <4>1. gIstek[b] \in GKayit
        BY <1>1, <1>t, <2>3, <3>2 DEF GPTipler, GSurer
      <4>2. PICK r \in GKayit : r = gIstek[b]
        BY <4>1
      <4>3. gIstek'[b] = r
        BY <1>1, <3>2, <4>2
      <4>4. GGuncel(gIstek[b])
        BY <2>0, <2>3, <4>2, <4>3 DEF BPlanInv
      <4>5. GGuncel(r)
        BY <4>2, <4>4
      <4>6. GGuncel(r)'
        BY <1>t, <2>1, <4>5, GGuncelKalir DEF GPTipler
      <4> QED BY <4>3, <4>6 DEF GGuncel
    <3> QED BY <3>1, <3>2
  <2>4. gPlanli' => \A j \in GOnizleme' : gIs'[j] # Yok
    <3>1. GOnizleme' = GOnizleme /\ GOnizleme \subseteq GAnahtar
      BY <1>t, GAyarAyni, GEtkinTipi DEF GPTipler
    <3>2. ASSUME gPlanli PROVE \A j \in GOnizleme : gIs'[j] # Yok
      BY <2>0, <3>1, <3>2 DEF BPlanInv
    <3> QED BY <1>3, <3>1, <3>2
  <2> QED BY <2>2, <2>3, <2>4
<1> QED BY <1>2, <1>g, <1>3 DEF BPlanInv
-----------------------------------------------------------------------------
(* What each of those steps leaves behind.                                 *)

LEMMA GGelirBos ==
  ASSUME NEW a \in GIstek, GGelir(a)
  PROVE  gIstek[a] = Bos /\ gIstek[a].adim = "bos"
BY GBosBitti DEF GGelir, Ilk

LEMMA GGuncelBos ==
  ASSUME NEW k, k.adim \notin {"mod", "kural", "is", "bak", "karar", "sonuc"}
  PROVE  GGuncel(k)'
BY DEF GGuncel

LEMMA GYolTipi ==
  ASSUME NEW adim \in {"odeme", "iptal", "plan", "anlik"}, NEW sonra \in {"-", "bitti", "plan"}
  PROVE  GAdim(adim, sonra, Yok) \in GKayit /\ GAdim(adim, sonra, Yok).adim = adim
BY DEF GAdim, GKayit, GYolK

\* Steps that only change the request.
LEMMA GSessizKorur ==
  ASSUME BPlanInv, NEW a \in GIstek, NEW k \in GKayit \cup {Bos, Bitti}, GIlerlet(a, k), UNCHANGED gAyarlar,
         UNCHANGED <<gIs, gSasan, gPlanli>>,
         gIstek[a].adim \notin GIptalci, gIstek[a].adim = "odeme" => gTaksit.borc \/ k.adim \in GIptalci,
         ~gSasan /\ GSurer(k) /\ ~k.bayat => GGuncel(k)'
  PROVE  BPlanInv'
<1>1. gIs' = gIs /\ gSasan' = gSasan /\ gPlanli' = gPlanli
  OBVIOUS
<1>2. gIs \in [GAnahtar -> GDurum \cup {Yok}] /\ gSasan \in BOOLEAN /\ gPlanli \in BOOLEAN
  BY DEF BPlanInv, GPTipler
<1>3. \A j \in GAnahtar : GBekleyen(j)' => GBekleyen(j)
  BY <1>1 DEF GBekleyen
<1> QED BY <1>1, <1>2, <1>3, GAdimKorur

LEMMA GSecenekOkuKorur == ASSUME BPlanInv, NEW a \in GIstek, GSecenekOku(a) PROVE BPlanInv'
<1>1. gIstek[a].adim = "bos"
  BY GGelirBos DEF GSecenekOku
<1>2. PICK alan \in GAlan \ {"buro"} : GIlerlet(a, GAdim("yaz", "-", [alan |-> alan, deger |-> ~gAcik[alan]]))
  BY DEF GSecenekOku
<1>3. PICK k : k = GAdim("yaz", "-", [alan |-> alan, deger |-> ~gAcik[alan]])
  OBVIOUS
<1>4. k \in GYazK /\ k.adim = "yaz"
  BY <1>3 DEF GAdim, GYazK
<1>5. k \in GKayit /\ GIlerlet(a, k)
  BY <1>2, <1>3, <1>4 DEF GKayit
<1>6. GGuncel(k)'
  BY <1>4, GGuncelBos
<1>7. UNCHANGED gAyarlar /\ UNCHANGED <<gIs, gSasan, gPlanli>>
  BY DEF GSecenekOku
<1> QED BY <1>1, <1>5, <1>6, <1>7, GSessizKorur DEF GIptalci

LEMMA GPlanIsteKorur == ASSUME BPlanInv, NEW a \in GIstek, GPlanIste(a) PROVE BPlanInv'
<1>1. gIstek[a].adim = "bos"
  BY GGelirBos DEF GPlanIste
<1>2. PICK mod \in {"KAPALI", "VARSAYILAN", "OZEL"}, t \in GTarifeler :
        GIlerlet(a, GAdim("bayrak", "-", [mod |-> mod, kural |-> t, no |-> 0]))
  BY DEF GPlanIste
<1>3. PICK k : k = GAdim("bayrak", "-", [mod |-> mod, kural |-> t, no |-> 0])
  OBVIOUS
<1>4. k \in GBayrakK /\ k.adim = "bayrak"
  BY <1>3 DEF GAdim, GBayrakK, GIstenen
<1>5. k \in GKayit /\ GIlerlet(a, k)
  BY <1>2, <1>3, <1>4 DEF GKayit
<1>6. GGuncel(k)'
  BY <1>4, GGuncelBos
<1>7. UNCHANGED gAyarlar /\ UNCHANGED <<gIs, gSasan, gPlanli>>
  BY DEF GPlanIste
<1> QED BY <1>1, <1>5, <1>6, <1>7, GSessizKorur DEF GIptalci

LEMMA GOdemeOkuKorur == ASSUME BPlanInv, NEW a \in GIstek, GOdemeOku(a) PROVE BPlanInv'
<1>1. gIstek[a].adim = "odeme" /\ UNCHANGED gAyarlar /\ UNCHANGED <<gIs, gSasan, gPlanli>>
  BY DEF GOdemeOku
<1>2. PICK k : k = IF gTaksit.borc THEN GAdim("plan", "-", Yok) ELSE GAdim("iptal", "plan", Yok)
  OBVIOUS
<1>3. GIlerlet(a, k)
  BY <1>2 DEF GOdemeOku
<1>4. k \in GKayit /\ k.adim \in {"plan", "iptal"} /\ (gTaksit.borc \/ k.adim = "iptal")
  BY <1>2, GYolTipi
<1>5. GGuncel(k)'
  BY <1>4, GGuncelBos
<1> QED BY <1>1, <1>3, <1>4, <1>5, GSessizKorur DEF GIptalci

LEMMA GPlanlaKorur == ASSUME BPlanInv, NEW a \in GIstek, GPlanla(a) PROVE BPlanInv'
<1>1. gIstek[a].adim = "bos" /\ UNCHANGED gAyarlar /\ UNCHANGED <<gIs, gSasan, gPlanli>>
  BY GGelirBos DEF GPlanla
<1>2. PICK k : k = GAdim("plan", "-", Yok)
  OBVIOUS
<1>3. GIlerlet(a, k) /\ k \in GKayit /\ k.adim = "plan"
  BY <1>2, GYolTipi DEF GPlanla
<1>4. GGuncel(k)'
  BY <1>3, GGuncelBos
<1> QED BY <1>1, <1>3, <1>4, GSessizKorur DEF GIptalci

LEMMA GPlanOkuKorur == ASSUME BPlanInv, NEW a \in GIstek, GPlanOku(a) PROVE BPlanInv'
<1>1. gIstek[a].adim = "anlik" /\ UNCHANGED gAyarlar /\ UNCHANGED <<gIs, gSasan, gPlanli>>
  BY DEF GPlanOku
<1>2. PICK k : k = GAdim("mod", "-", [uygun |-> GUstAcik /\ gTaksit.borc, vade |-> gTaksit.vade])
  OBVIOUS
<1>3. GIlerlet(a, k)
  BY <1>2 DEF GPlanOku
<1>4. gTaksit.vade \in GVade /\ gTaksit.borc \in BOOLEAN /\ (GUstAcik /\ gTaksit.borc) \in BOOLEAN
  BY DEF BPlanInv, GPTipler, GAyarTipi, GTaksitTipi, GUstAcik
<1>5. k \in GModK
  BY <1>2, <1>4 DEF GAdim, GModK
<1>6. k.adim = "mod" /\ k.bilgi.uygun = (GUstAcik /\ gTaksit.borc) /\ k.bilgi.vade = gTaksit.vade
  BY <1>2 DEF GAdim
<1>7. gTaksit' = gTaksit /\ (GUstAcik' <=> GUstAcik)
  BY <1>1, GAyarAyni DEF gAyarlar
<1>8. GGuncel(k)'
  BY <1>6, <1>7 DEF GGuncel
<1>9. k \in GKayit
  BY <1>5 DEF GKayit
<1> QED BY <1>1, <1>3, <1>6, <1>8, <1>9, GSessizKorur DEF GIptalci
\* What a request at one of these steps holds.
LEMMA GHalen ==
  ASSUME BPlanInv, NEW a \in GIstek, gIstek[a].adim \in GAdimlar
  PROVE  /\ gIstek[a] \in GKayit
         /\ ~gSasan /\ ~gIstek[a].bayat => GGuncel(gIstek[a])
<1>1. gIstek[a] \in GKayit /\ GSurer(gIstek[a])
  BY GAdimdaki DEF BPlanInv
<1> QED BY <1>1 DEF BPlanInv

LEMMA GPlanBaslaKorur == ASSUME BPlanInv, NEW a \in GIstek, GPlanBasla(a) PROVE BPlanInv'
<1>1. gIstek[a].adim = "plan" /\ UNCHANGED gAyarlar /\ UNCHANGED <<gIs, gSasan, gPlanli>>
  BY DEF GPlanBasla
<1>2. PICK k : k = GAdim("eski", "-", [acik |-> gAcik["buro"], isler |-> {}])
  OBVIOUS
<1>3. gAcik["buro"] \in BOOLEAN
  BY DEF BPlanInv, GPTipler, GAyarTipi, GAlan
<1>4. k \in GEskiK /\ k.adim = "eski"
  BY <1>2, <1>3 DEF GAdim, GEskiK
<1>5. k \in GKayit /\ GIlerlet(a, k)
  BY <1>2, <1>4 DEF GKayit, GPlanBasla
<1>6. GGuncel(k)'
  BY <1>4, GGuncelBos
<1> QED BY <1>1, <1>5, <1>6, GSessizKorur DEF GIptalci

\* Where the planner goes on after the jobs without a debt.
LEMMA GEskiSonraTipi ==
  ASSUME NEW b
  PROVE  GEskiSonra(b) \in GKayit \cup {Bos, Bitti} /\ GEskiSonra(b).adim \in {"anlik", "bitti"}
BY GYolTipi, GBosBitti DEF GEskiSonra

LEMMA GEskiAdimi ==
  ASSUME NEW b \in [acik : BOOLEAN, isler : SUBSET GAnahtar]
  PROVE  GAdim("eskiYaz", "-", b) \in GKayit /\ GAdim("eskiYaz", "-", b).adim = "eskiYaz"
<1>1. GAdim("eskiYaz", "-", b) \in GEskiK /\ GAdim("eskiYaz", "-", b).adim = "eskiYaz"
  BY DEF GAdim, GEskiK
<1> QED BY <1>1 DEF GKayit

LEMMA GEskiOkuKorur == ASSUME BPlanInv, NEW a \in GIstek, GEskiOku(a) PROVE BPlanInv'
<1>1. gIstek[a].adim = "eski" /\ UNCHANGED gAyarlar /\ UNCHANGED <<gIs, gSasan, gPlanli>>
  BY DEF GEskiOku
<1>2. PICK r \in GKayit : r = gIstek[a]
  BY <1>1, GHalen DEF GAdimlar
<1>3. r.bilgi \in [acik : BOOLEAN, isler : SUBSET GAnahtar]
  BY <1>1, <1>2, GKayitAlanlari
<1>4. PICK S \in SUBSET GAnahtar : S = {j \in GAnahtar : gIs[j] # Yok /\ GBekler(gIs[j]) /\ ~gTaksit.borc}
  OBVIOUS
<1>5. PICK b : b = [r.bilgi EXCEPT !.isler = S]
  OBVIOUS
<1>6. b \in [acik : BOOLEAN, isler : SUBSET GAnahtar]
  BY <1>3, <1>5
<1>7. PICK k : k = IF b.isler = {} THEN GEskiSonra(b) ELSE GAdim("eskiYaz", "-", b)
  OBVIOUS
<1>8. GIlerlet(a, k)
  BY <1>2, <1>4, <1>5, <1>7 DEF GEskiOku
<1>9. k \in GKayit \cup {Bos, Bitti} /\ k.adim \in {"anlik", "bitti", "eskiYaz"}
  BY <1>6, <1>7, GEskiSonraTipi, GEskiAdimi
<1>10. GGuncel(k)'
  BY <1>9, GGuncelBos
<1> QED BY <1>1, <1>8, <1>9, <1>10, GSessizKorur DEF GIptalci

\* An update by id makes no job wait.
LEMMA GEskiYazKorur == ASSUME BPlanInv, NEW a \in GIstek, GEskiYaz(a) PROVE BPlanInv'
<1>1. gIstek[a].adim = "eskiYaz" /\ UNCHANGED gAyarlar /\ gSasan' = gSasan /\ gPlanli' = gPlanli
  BY DEF GEskiYaz
<1>2. PICK r \in GKayit : r = gIstek[a]
  BY <1>1, GHalen DEF GAdimlar
<1>3. r.bilgi \in [acik : BOOLEAN, isler : SUBSET GAnahtar]
  BY <1>1, <1>2, GKayitAlanlari
<1>4. PICK b \in [acik : BOOLEAN, isler : SUBSET GAnahtar] : b = r.bilgi
  BY <1>3
<1>5. PICK j \in b.isler :
        /\ gIs' = [gIs EXCEPT ![j] = "IPTAL_EDILDI"]
        /\ GIlerlet(a, IF b.isler = {j} THEN GEskiSonra(b) ELSE GAdim("eskiYaz", "-", [b EXCEPT !.isler = @ \ {j}]))
  BY <1>2, <1>4 DEF GEskiYaz
<1>6. gIs \in [GAnahtar -> GDurum \cup {Yok}] /\ gSasan \in BOOLEAN /\ gPlanli \in BOOLEAN
  BY DEF BPlanInv, GPTipler
<1>7. /\ gIs' \in [GAnahtar -> GDurum \cup {Yok}]
      /\ \A i \in GAnahtar : gIs[i] # Yok => gIs'[i] # Yok
      /\ \A i \in GAnahtar : GBekleyen(i)' => GBekleyen(i)
  BY <1>5, <1>6, BildirimPlanVarsayimi DEF GDurum, GBekler, GBekleyen
<1>8. PICK y \in [acik : BOOLEAN, isler : SUBSET GAnahtar] : y = [b EXCEPT !.isler = @ \ {j}]
  OBVIOUS
<1>9. PICK k : k = IF b.isler = {j} THEN GEskiSonra(b) ELSE GAdim("eskiYaz", "-", y)
  OBVIOUS
<1>10. GIlerlet(a, k)
  BY <1>5, <1>8, <1>9
<1>11. k \in GKayit \cup {Bos, Bitti} /\ k.adim \in {"anlik", "bitti", "eskiYaz"}
  BY <1>8, <1>9, GEskiSonraTipi, GEskiAdimi
<1>12. GGuncel(k)'
  BY <1>11, GGuncelBos
<1> QED BY <1>1, <1>6, <1>7, <1>10, <1>11, <1>12, GAdimKorur DEF GIptalci

LEMMA GPlanModKorur == ASSUME BPlanInv, NEW a \in GIstek, GPlanMod(a) PROVE BPlanInv'
<1>1. gIstek[a].adim = "mod" /\ UNCHANGED gAyarlar /\ gIs' = gIs /\ gSasan' = gSasan
  BY DEF GPlanMod
<1>2. PICK r \in GKayit : r = gIstek[a]
  BY <1>1, GHalen DEF GAdimlar
<1>3. r.adim = "mod" /\ r.bayat \in BOOLEAN /\ (~gSasan /\ ~r.bayat => GGuncel(r))
  BY <1>1, <1>2, GHalen, GKayitAlanlari DEF GAdimlar
<1>4. gIs \in [GAnahtar -> GDurum \cup {Yok}] /\ gSasan \in BOOLEAN /\ gPlanli \in BOOLEAN
  BY DEF BPlanInv, GPTipler
<1>5. \A j \in GAnahtar : GBekleyen(j)' => GBekleyen(j)
  BY <1>1 DEF GBekleyen
<1>6. CASE GMod = "KAPALI" \/ ~r.bilgi.uygun
  <2>1. GIlerlet(a, Bitti) /\ gPlanli' = (gPlanli \/ ~r.bayat)
    BY <1>2, <1>6 DEF GPlanMod, GPlanBiter
  <2>2. ASSUME ~gSasan, ~r.bayat PROVE GOnizleme = {}
    BY <1>3, <1>6, <2>2 DEF GGuncel, GOnizleme, GOnizlenir
  <2>3. gPlanli' \in BOOLEAN
    BY <1>3, <1>4, <2>1
  <2>4. PICK k \in {Bitti} : k = Bitti
    OBVIOUS
  <2>5. GIlerlet(a, k) /\ ~GSurer(k)
    BY <2>1, <2>4, GBosBitti
  <2>6. ~gSasan' => (gPlanli' => gPlanli \/ \A j \in GOnizleme : gIs'[j] # Yok)
    BY <1>1, <2>1, <2>2
  <2> QED BY <1>1, <1>4, <1>5, <2>3, <2>4, <2>5, <2>6, GAdimKorur DEF GIptalci
<1>7. CASE ~(GMod = "KAPALI" \/ ~r.bilgi.uygun)
  <2>1. PICK k : k = [r EXCEPT !.adim = "kural"]
    OBVIOUS
  <2>2. GIlerlet(a, k) /\ gPlanli' = gPlanli
    BY <1>2, <1>7, <2>1 DEF GPlanMod
  <2>3. r \in GModK
    BY <1>3 DEF GKayit, GYazK, GBayrakK, GKaydetK, GYolK, GEskiK, GModK, GIsK, GBakK, GKararK, GSonucK
  <2>4. k \in GModK /\ k.adim = "kural" /\ k.bayat = r.bayat /\ k.bilgi = r.bilgi
    BY <2>1, <2>3 DEF GModK
  <2>5. gTaksit' = gTaksit /\ (GUstAcik' <=> GUstAcik)
    BY <1>1, GAyarAyni DEF gAyarlar
  <2>6. ~gSasan /\ ~k.bayat => GGuncel(k)'
    BY <1>3, <1>7, <2>4, <2>5 DEF GGuncel
  <2>7. k \in GKayit
    BY <2>4 DEF GKayit
  <2> QED BY <1>1, <2>2, <2>6, <2>7, GSessizKorur DEF GIptalci
<1> QED BY <1>6, <1>7

LEMMA GPlanKuralKorur == ASSUME BPlanInv, NEW a \in GIstek, GPlanKural(a) PROVE BPlanInv'
<1>1. gIstek[a].adim = "kural" /\ UNCHANGED gAyarlar /\ gIs' = gIs /\ gSasan' = gSasan
  BY DEF GPlanKural
<1>2. PICK r \in GKayit : r = gIstek[a]
  BY <1>1, GHalen DEF GAdimlar
<1>3. r.adim = "kural" /\ r.bayat \in BOOLEAN /\ (~gSasan /\ ~r.bayat => GGuncel(r))
  BY <1>1, <1>2, GHalen, GKayitAlanlari DEF GAdimlar
<1>4. gIs \in [GAnahtar -> GDurum \cup {Yok}] /\ gSasan \in BOOLEAN /\ gPlanli \in BOOLEAN
  BY DEF BPlanInv, GPTipler
<1>5. \A j \in GAnahtar : GBekleyen(j)' => GBekleyen(j)
  BY <1>1 DEF GBekleyen
<1>6. PICK bugun : bugun = {j \in GEtkin : GBugun(j, r.bilgi.vade)}
  OBVIOUS
<1>7. bugun \subseteq GEtkin /\ GEtkin \subseteq GAnahtar
  BY <1>6, GEtkinTipi DEF BPlanInv, GPTipler
<1>8. ASSUME ~gSasan, ~r.bayat
      PROVE  GUstAcik /\ gTaksit.borc /\ r.bilgi.vade = gTaksit.vade /\ GOnizleme \subseteq bugun
  <2>1. GUstAcik /\ gTaksit.borc /\ r.bilgi.vade = gTaksit.vade
    BY <1>3, <1>8 DEF GGuncel
  <2> QED BY <1>6, <2>1 DEF GOnizleme
<1>9. CASE bugun = {}
  <2>1. GIlerlet(a, Bitti) /\ gPlanli' = (gPlanli \/ ~r.bayat)
    BY <1>2, <1>6, <1>9 DEF GPlanKural, GPlanBiter
  <2>3. gPlanli' \in BOOLEAN
    BY <1>3, <1>4, <2>1
  <2>4. PICK k \in {Bitti} : k = Bitti
    OBVIOUS
  <2>5. GIlerlet(a, k) /\ ~GSurer(k)
    BY <2>1, <2>4, GBosBitti
  <2>6. ~gSasan' => (gPlanli' => gPlanli \/ \A j \in GOnizleme : gIs'[j] # Yok)
    BY <1>1, <1>8, <1>9, <2>1
  <2> QED BY <1>1, <1>4, <1>5, <2>3, <2>4, <2>5, <2>6, GAdimKorur DEF GIptalci
<1>10. CASE bugun # {}
  <2>1. PICK k : k = [r EXCEPT !.adim = "is", !.bilgi = bugun]
    OBVIOUS
  <2>2. GIlerlet(a, k) /\ gPlanli' = gPlanli
    BY <1>2, <1>6, <1>10, <2>1 DEF GPlanKural
  <2>3. r \in GModK
    BY <1>3 DEF GKayit, GYazK, GBayrakK, GKaydetK, GYolK, GEskiK, GModK, GIsK, GBakK, GKararK, GSonucK
  <2>4. k \in GIsK /\ k.adim = "is" /\ k.bayat = r.bayat /\ k.bilgi = bugun
    BY <1>7, <2>1, <2>3 DEF GModK, GIsK
  <2>5. /\ gTaksit' = gTaksit /\ gPlan' = gPlan /\ gKural' = gKural
        /\ (GUstAcik' <=> GUstAcik) /\ GEtkin' = GEtkin /\ GOnizleme' = GOnizleme
    BY <1>1, GAyarAyni DEF gAyarlar
  <2>6. ASSUME ~gSasan, ~k.bayat PROVE GGuncel(k)'
    <3>1. GUstAcik /\ gTaksit.borc /\ r.bilgi.vade = gTaksit.vade /\ GOnizleme \subseteq bugun
      BY <1>8, <2>4, <2>6
    <3>2. \A j \in bugun : GBugun(j, gTaksit.vade)'
      BY <1>6, <2>5, <3>1 DEF GBugun
    <3> QED BY <1>7, <2>4, <2>5, <3>1, <3>2 DEF GGuncel
  <2>7. k \in GKayit
    BY <2>4 DEF GKayit
  <2>8. gIstek[a].adim \notin GIptalci /\ gIstek[a].adim # "odeme" /\ UNCHANGED <<gIs, gSasan, gPlanli>>
    BY <1>1, <2>2 DEF GIptalci
  <2> QED BY <1>1, <2>2, <2>6, <2>7, <2>8, GSessizKorur
<1> QED BY <1>9, <1>10
\* A planner that nobody overtook makes a job the instalment is to have.
LEMMA GIsOlusturKorur == ASSUME BPlanInv, NEW a \in GIstek, GIsOlustur(a) PROVE BPlanInv'
<1>1. gIstek[a].adim = "is" /\ UNCHANGED gAyarlar
  BY DEF GIsOlustur
<1>2. PICK r \in GKayit : r = gIstek[a]
  BY <1>1, GHalen DEF GAdimlar
<1>3. /\ r.adim = "is" /\ r.bayat \in BOOLEAN /\ r.bilgi \subseteq GAnahtar
      /\ ~gSasan /\ ~r.bayat => GGuncel(r)
  BY <1>1, <1>2, GHalen, GKayitAlanlari DEF GAdimlar
<1>4. gIs \in [GAnahtar -> GDurum \cup {Yok}] /\ gSasan \in BOOLEAN /\ gPlanli \in BOOLEAN
  BY DEF BPlanInv, GPTipler
<1>5. PICK j \in r.bilgi :
        /\ gIs' = [gIs EXCEPT ![j] = IF @ = Yok THEN "PLANLANDI" ELSE @]
        /\ IF r.bilgi = {j} THEN GPlanBiter(a)
           ELSE GIlerlet(a, [r EXCEPT !.bilgi = @ \ {j}]) /\ UNCHANGED gPlanli
  BY <1>2 DEF GIsOlustur
<1>6. gSasan' = (gSasan \/ r.bayat)
  BY <1>2 DEF GIsOlustur
<1>7. /\ gIs' \in [GAnahtar -> GDurum \cup {Yok}]
      /\ \A i \in GAnahtar : gIs[i] # Yok => gIs'[i] # Yok
      /\ \A i \in GAnahtar \ {j} : gIs'[i] = gIs[i]
      /\ gIs'[j] # Yok /\ (gIs[j] # Yok => gIs'[j] = gIs[j])
  BY <1>3, <1>4, <1>5, BildirimPlanVarsayimi DEF GDurum
<1>8. /\ gTaksit' = gTaksit /\ (GUstAcik' <=> GUstAcik) /\ GEtkin' = GEtkin /\ GOnizleme' = GOnizleme
      /\ gPlan' = gPlan /\ gKural' = gKural /\ GOnizleme \subseteq GAnahtar
  BY <1>1, GAyarAyni, GEtkinTipi DEF gAyarlar, BPlanInv, GPTipler
<1>9. ASSUME ~gSasan'
      PROVE  /\ \A i \in GAnahtar : GBekleyen(i)' => GBekleyen(i) \/ GDogru(i)'
             /\ GUstAcik /\ gTaksit.borc /\ r.bilgi \subseteq GEtkin
             /\ \A i \in r.bilgi : GBugun(i, gTaksit.vade)
             /\ \A i \in GOnizleme \ r.bilgi : gIs[i] # Yok
  <2>1. /\ GUstAcik /\ gTaksit.borc /\ r.bilgi \subseteq GEtkin
        /\ \A i \in r.bilgi : GBugun(i, gTaksit.vade)
        /\ \A i \in GOnizleme \ r.bilgi : gIs[i] # Yok
    BY <1>3, <1>6, <1>9 DEF GGuncel
  <2>2. ASSUME gIs[j] = Yok PROVE GDogru(j)'
    <3>1. GBugun(j, gTaksit.vade) /\ j \in GAnahtar
      BY <1>3, <2>1
    <3>2. CASE j.kaynak = "OZEL"
      BY <1>8, <2>1, <3>1, <3>2 DEF GDogru, GIstenir, GBugun, GIsBugun
    <3>3. CASE j.kaynak # "OZEL"
      <4>1. j = GBuroIsi(j.kural) /\ j.kural \in GKural
        BY <3>1, <3>3, GAnahtarTuru
      <4>2. gKural[j.kural].isGun = gKural[j.kural].gun
        BY <2>2, <4>1 DEF BPlanInv, GIsGunu
      <4> QED BY <1>8, <2>1, <3>1, <3>3, <4>2 DEF GDogru, GIstenir, GBugun, GIsBugun
    <3> QED BY <3>2, <3>3
  <2>3. ASSUME NEW i \in GAnahtar, GBekleyen(i)' PROVE GBekleyen(i) \/ GDogru(i)'
    <3>1. CASE i = j
      BY <1>7, <2>2, <2>3, <3>1 DEF GBekleyen
    <3>2. CASE i # j
      BY <1>7, <2>3, <3>2 DEF GBekleyen
    <3> QED BY <3>1, <3>2
  <2> QED BY <2>1, <2>3
<1>10. gSasan' \in BOOLEAN /\ (gSasan => gSasan')
  BY <1>3, <1>4, <1>6
<1>11. gIstek[a].adim \notin GIptalci /\ gIstek[a].adim # "odeme"
  BY <1>1 DEF GIptalci
<1>12. CASE r.bilgi = {j}
  <2>1. GIlerlet(a, Bitti) /\ gPlanli' = (gPlanli \/ ~r.bayat)
    BY <1>2, <1>5, <1>12 DEF GPlanBiter
  <2>2. gPlanli' \in BOOLEAN
    BY <1>3, <1>4, <2>1
  <2>3. PICK k \in {Bitti} : k = Bitti
    OBVIOUS
  <2>4. GIlerlet(a, k) /\ ~GSurer(k)
    BY <2>1, <2>3, GBosBitti
  <2>5. ~gSasan' => \A i \in GOnizleme : gIs'[i] # Yok
    BY <1>7, <1>8, <1>9, <1>12
  <2> QED BY <1>1, <1>7, <1>9, <1>10, <1>11, <2>2, <2>3, <2>4, <2>5, GAdimKorur
<1>13. CASE r.bilgi # {j}
  <2>1. PICK k : k = [r EXCEPT !.bilgi = @ \ {j}]
    OBVIOUS
  <2>2. GIlerlet(a, k) /\ gPlanli' = gPlanli
    BY <1>5, <1>13, <2>1
  <2>3. r \in GIsK
    BY <1>3 DEF GKayit, GYazK, GBayrakK, GKaydetK, GYolK, GEskiK, GModK, GIsK, GBakK, GKararK, GSonucK
  <2>4. k \in GIsK /\ k.adim = "is" /\ k.bilgi = r.bilgi \ {j}
    BY <2>1, <2>3 DEF GIsK
  <2>5. ASSUME ~gSasan' PROVE GGuncel(k)'
    <3>1. \A i \in GOnizleme \ k.bilgi : gIs'[i] # Yok
      BY <1>7, <1>8, <1>9, <2>4, <2>5
    <3>2. k.bilgi \subseteq GEtkin /\ \A i \in k.bilgi : GBugun(i, gTaksit.vade)'
      BY <1>8, <1>9, <2>4, <2>5 DEF GBugun
    <3> QED BY <1>8, <1>9, <2>4, <2>5, <3>1, <3>2 DEF GGuncel
  <2>6. k \in GKayit
    BY <2>4 DEF GKayit
  <2>7. gPlanli' \in BOOLEAN /\ (gPlanli' => gPlanli)
    BY <1>4, <2>2
  <2> QED BY <1>1, <1>7, <1>9, <1>10, <1>11, <2>2, <2>5, <2>6, <2>7, GAdimKorur
<1> QED BY <1>12, <1>13

\* What a worker goes by stays right while it works.
LEMMA GIsciKalir ==
  ASSUME BPlanInv, NEW a \in GIstek, NEW k \in GKayit \cup {Bos, Bitti}, GIlerlet(a, k), UNCHANGED gAyarlar,
         gIstek[a].adim \notin GIptalci, gIstek[a].adim # "odeme",
         NEW j \in GAnahtar, GDogru(j)
  PROVE  GDogru(j)'
<1>1. \A b \in GIstek \ {a} : gIstek'[b].adim = gIstek[b].adim
  BY GIlerletEtkisi DEF BPlanInv
<1> QED BY <1>1, GDogruKalir

LEMMA GIsAlKorur == ASSUME BPlanInv, NEW a \in GIstek, GIsAl(a) PROVE BPlanInv'
<1>1. gIstek[a].adim = "bos" /\ UNCHANGED gAyarlar /\ gSasan' = gSasan /\ gPlanli' = gPlanli
  BY GGelirBos DEF GIsAl
<1>2. PICK j \in GAnahtar :
        /\ gIs[j] # Yok /\ GBekler(gIs[j]) /\ gIs' = [gIs EXCEPT ![j] = "KUYRUKTA"]
        /\ GIlerlet(a, GAdim("bak", "-", j))
  BY DEF GIsAl
<1>3. gIs \in [GAnahtar -> GDurum \cup {Yok}] /\ gSasan \in BOOLEAN /\ gPlanli \in BOOLEAN
  BY DEF BPlanInv, GPTipler
<1>4. PICK k : k = GAdim("bak", "-", j)
  OBVIOUS
<1>5. k \in GBakK /\ k.adim = "bak" /\ k.bilgi = j
  BY <1>4 DEF GAdim, GBakK
<1>6. k \in GKayit /\ GIlerlet(a, k)
  BY <1>2, <1>4, <1>5 DEF GKayit
<1>7. /\ gIs' \in [GAnahtar -> GDurum \cup {Yok}]
      /\ \A i \in GAnahtar : gIs[i] # Yok => gIs'[i] # Yok
      /\ \A i \in GAnahtar : GBekleyen(i)' => GBekleyen(i)
  BY <1>2, <1>3, BildirimPlanVarsayimi DEF GDurum, GBekleyen, GBekler
<1>8. gIstek[a].adim \notin GIptalci /\ gIstek[a].adim # "odeme"
  BY <1>1 DEF GIptalci
<1>9. ASSUME ~gSasan PROVE GGuncel(k)'
  <2>1. GDogru(j)
    BY <1>2, <1>9 DEF BPlanInv, GBekleyen
  <2>2. GDogru(j)'
    BY <1>1, <1>6, <1>8, <2>1, GIsciKalir
  <2> QED BY <1>5, <2>2 DEF GGuncel
<1> QED BY <1>1, <1>3, <1>6, <1>7, <1>8, <1>9, GAdimKorur

LEMMA GIsBakKorur == ASSUME BPlanInv, NEW a \in GIstek, GIsBak(a) PROVE BPlanInv'
<1>1. gIstek[a].adim = "bak" /\ UNCHANGED gAyarlar /\ UNCHANGED <<gIs, gSasan, gPlanli>>
  BY DEF GIsBak
<1>2. PICK r \in GKayit : r = gIstek[a]
  BY <1>1, GHalen DEF GAdimlar
<1>3. r.adim = "bak" /\ r.bilgi \in GAnahtar /\ (~gSasan /\ ~r.bayat => GGuncel(r))
  BY <1>1, <1>2, GHalen, GKayitAlanlari DEF GAdimlar
<1>4. gIstek[a].adim \notin GIptalci /\ gIstek[a].adim # "odeme"
  BY <1>1 DEF GIptalci
<1>5. CASE gIs[r.bilgi] = "GONDERILDI"
  <2>1. PICK k \in {Bitti} : k = Bitti
    OBVIOUS
  <2>2. GIlerlet(a, k) /\ ~GSurer(k)
    BY <1>2, <1>5, <2>1, GBosBitti DEF GIsBak
  <2> QED BY <1>1, <1>4, <2>1, <2>2, GSessizKorur
<1>6. CASE gIs[r.bilgi] # "GONDERILDI"
  <2>1. PICK k : k = [r EXCEPT !.adim = "karar", !.bilgi = [is |-> r.bilgi, izin |-> GUstAcik, borc |-> gTaksit.borc]]
    OBVIOUS
  <2>2. GIlerlet(a, k)
    BY <1>2, <1>6, <2>1 DEF GIsBak
  <2>3. r \in GBakK
    BY <1>3 DEF GKayit, GYazK, GBayrakK, GKaydetK, GYolK, GEskiK, GModK, GIsK, GBakK, GKararK, GSonucK
  <2>4. GUstAcik \in BOOLEAN /\ gTaksit.borc \in BOOLEAN
    BY DEF GUstAcik, BPlanInv, GPTipler, GAyarTipi, GTaksitTipi
  <2>5. k \in GKararK /\ k.adim = "karar" /\ k.bilgi.is = r.bilgi /\ k.bayat = r.bayat
    BY <1>3, <2>1, <2>3, <2>4 DEF GBakK, GKararK
  <2>6. k \in GKayit
    BY <2>5 DEF GKayit
  <2>7. ASSUME ~gSasan, ~k.bayat PROVE GGuncel(k)'
    <3>1. GDogru(r.bilgi)
      BY <1>3, <2>5, <2>7 DEF GGuncel
    <3>2. GDogru(r.bilgi)'
      BY <1>1, <1>3, <1>4, <2>2, <2>6, <3>1, GIsciKalir
    <3> QED BY <2>5, <3>2 DEF GGuncel
  <2> QED BY <1>1, <1>4, <2>2, <2>6, <2>7, GSessizKorur
<1> QED BY <1>5, <1>6

LEMMA GIsKararKorur == ASSUME BPlanInv, NEW a \in GIstek, GIsKarar(a) PROVE BPlanInv'
<1>1. gIstek[a].adim = "karar" /\ UNCHANGED gAyarlar /\ UNCHANGED <<gIs, gSasan, gPlanli>>
  BY DEF GIsKarar
<1>2. PICK r \in GKayit : r = gIstek[a]
  BY <1>1, GHalen DEF GAdimlar
<1>3. r.adim = "karar" /\ r.bilgi.is \in GAnahtar /\ (~gSasan /\ ~r.bayat => GGuncel(r))
  BY <1>1, <1>2, GHalen, GKayitAlanlari DEF GAdimlar
<1>4. gIstek[a].adim \notin GIptalci /\ gIstek[a].adim # "odeme"
  BY <1>1 DEF GIptalci
<1>5. PICK d : d = CASE ~gAcik["buro"] -> "PLANLANDI"
                     [] gAcik["buro"] /\ ~(r.bilgi.izin /\ gAcik["taksit"]) -> "ATLANDI"
                     [] gAcik["buro"] /\ r.bilgi.izin /\ gAcik["taksit"] /\ ~r.bilgi.borc -> "IPTAL_EDILDI"
                     [] OTHER -> "GONDERILDI"
  OBVIOUS
<1>6. d \in GDurum \ {"KUYRUKTA"}
  BY <1>5 DEF GDurum
<1>7. PICK k : k = [r EXCEPT !.adim = "sonuc", !.sonra = d]
  OBVIOUS
<1>8. GIlerlet(a, k)
  BY <1>2, <1>5, <1>7 DEF GIsKarar
<1>9. r \in GKararK
  BY <1>3 DEF GKayit, GYazK, GBayrakK, GKaydetK, GYolK, GEskiK, GModK, GIsK, GBakK, GKararK, GSonucK
<1>10. k \in GSonucK /\ k.adim = "sonuc" /\ k.bilgi = r.bilgi /\ k.bayat = r.bayat
  BY <1>6, <1>7, <1>9 DEF GKararK, GSonucK
<1>11. k \in GKayit
  BY <1>10 DEF GKayit
<1>12. ASSUME ~gSasan, ~k.bayat PROVE GGuncel(k)'
  <2>1. GDogru(r.bilgi.is)
    BY <1>3, <1>10, <1>12 DEF GGuncel
  <2>2. GDogru(r.bilgi.is)'
    BY <1>1, <1>3, <1>4, <1>8, <1>11, <2>1, GIsciKalir
  <2> QED BY <1>10, <2>2 DEF GGuncel
<1> QED BY <1>1, <1>4, <1>8, <1>11, <1>12, GSessizKorur

LEMMA GIsSonucKorur == ASSUME BPlanInv, NEW a \in GIstek, GIsSonuc(a) PROVE BPlanInv'
<1>1. gIstek[a].adim = "sonuc" /\ UNCHANGED gAyarlar /\ gPlanli' = gPlanli
  BY DEF GIsSonuc
<1>2. PICK r \in GKayit : r = gIstek[a]
  BY <1>1, GHalen DEF GAdimlar
<1>3. /\ r.adim = "sonuc" /\ r.bilgi.is \in GAnahtar /\ r.sonra \in GDurum \ {"KUYRUKTA"} /\ r.bayat \in BOOLEAN
      /\ ~gSasan /\ ~r.bayat => GGuncel(r)
  BY <1>1, <1>2, GHalen, GKayitAlanlari DEF GAdimlar
<1>4. gIs \in [GAnahtar -> GDurum \cup {Yok}] /\ gSasan \in BOOLEAN /\ gPlanli \in BOOLEAN
  BY DEF BPlanInv, GPTipler
<1>5. gIs' = [gIs EXCEPT ![r.bilgi.is] = r.sonra] /\ gSasan' = (gSasan \/ (r.bayat /\ r.sonra = "PLANLANDI"))
  BY <1>2 DEF GIsSonuc
<1>6. PICK k \in {Bitti} : k = Bitti
  OBVIOUS
<1>7. GIlerlet(a, k) /\ ~GSurer(k)
  BY <1>6, GBosBitti DEF GIsSonuc
<1>8. gIstek[a].adim \notin GIptalci /\ gIstek[a].adim # "odeme"
  BY <1>1 DEF GIptalci
<1>9. /\ gIs' \in [GAnahtar -> GDurum \cup {Yok}]
      /\ \A i \in GAnahtar : gIs[i] # Yok => gIs'[i] # Yok
      /\ \A i \in GAnahtar : GBekleyen(i)' => GBekleyen(i) \/ (i = r.bilgi.is /\ r.sonra = "PLANLANDI")
  BY <1>3, <1>4, <1>5, BildirimPlanVarsayimi DEF GDurum, GBekleyen, GBekler
<1>10. gSasan' \in BOOLEAN /\ (gSasan => gSasan')
  BY <1>4, <1>5
<1>11. ASSUME ~gSasan', NEW i \in GAnahtar, GBekleyen(i)', ~GBekleyen(i) PROVE GDogru(i)'
  <2>1. i = r.bilgi.is /\ ~gSasan /\ ~r.bayat
    BY <1>3, <1>5, <1>9, <1>11
  <2>2. GDogru(i)
    BY <1>3, <2>1 DEF GGuncel
  <2> QED BY <1>1, <1>6, <1>7, <1>8, <2>2, GIsciKalir
<1> QED BY <1>1, <1>4, <1>6, <1>7, <1>8, <1>9, <1>10, <1>11, GAdimKorur

LEMMA GDuserKorur == ASSUME BPlanInv, NEW a \in GIstek, GDuser(a) PROVE BPlanInv'
<1>1. UNCHANGED gAyarlar /\ gPlanli' = gPlanli /\ gIs' = gIs
  BY DEF GDuser
<1>2. gSasan' = (gSasan \/ gIstek[a].adim \in {"kaldir", "kaydet", "sil", "ekle", "iptal", "odeme"})
  BY DEF GDuser
<1>3. gIs \in [GAnahtar -> GDurum \cup {Yok}] /\ gSasan \in BOOLEAN /\ gPlanli \in BOOLEAN
  BY DEF BPlanInv, GPTipler
<1>4. PICK k \in {Bitti} : k = Bitti
  OBVIOUS
<1>5. GIlerlet(a, k) /\ ~GSurer(k)
  BY <1>4, GBosBitti DEF GDuser
<1>6. ~gSasan' => gIstek[a].adim \notin GIptalci /\ gIstek[a].adim # "odeme"
  BY <1>2 DEF GIptalci
<1>7. \A i \in GAnahtar : GBekleyen(i)' => GBekleyen(i)
  BY <1>1 DEF GBekleyen
<1>8. gSasan' \in BOOLEAN /\ (gSasan => gSasan')
  BY <1>2, <1>3
<1> QED BY <1>1, <1>3, <1>4, <1>5, <1>6, <1>7, <1>8, GAdimKorur
-----------------------------------------------------------------------------
(* Steps that change what others go by: who is under way has stale reads   *)
(* from then on.                                                           *)

LEMMA GBozarKorur ==
  ASSUME BPlanInv, NEW a \in GIstek, NEW k \in GKayit \cup {Bos, Bitti}, GBozar(a, k), GAyarTipi',
         gIs' \in [GAnahtar -> GDurum \cup {Yok}], gSasan' = gSasan, GIsGunu',
         k.adim \notin {"mod", "kural", "is", "bak", "karar", "sonuc"},
         ~gSasan => \A j \in GAnahtar : GBekleyen(j)' => GDogru(j)'
  PROVE  BPlanInv'
<1>1. /\ gIstek' \in [GIstek -> GKayit \cup {Bos, Bitti}] /\ gIstek'[a] = k
      /\ \A b \in GIstek \ {a} : gIstek'[b].adim = gIstek[b].adim /\ (GSurer(gIstek'[b]) => gIstek'[b].bayat)
  BY GBozarEtkisi DEF BPlanInv
<1>2. gPlanli' = FALSE
  BY DEF GBozar
<1>3. GPTipler'
  BY <1>1, <1>2 DEF BPlanInv, GPTipler
<1>4. ASSUME NEW b \in GIstek, GSurer(gIstek'[b]), ~gIstek'[b].bayat
      PROVE  GGuncel(gIstek[b])'
  <2>1. b = a
    BY <1>1, <1>4
  <2>2. GGuncel(k)'
    BY GGuncelBos
  <2> QED BY <1>1, <2>1, <2>2 DEF GGuncel
<1> QED BY <1>2, <1>3, <1>4 DEF BPlanInv

\* The request goes on to cancel.
LEMMA GIptalecekKorur ==
  ASSUME BPlanInv, NEW a \in GIstek, NEW k \in GKayit, GBozar(a, k), GAyarTipi',
         gIs' = gIs, gKural' = gKural, gSasan' = gSasan, k.adim \in GIptalci
  PROVE  BPlanInv'
<1>0. GIsGunu' /\ gIs' \in [GAnahtar -> GDurum \cup {Yok}]
  BY DEF BPlanInv, GPTipler, GIsGunu
<1>1. gIstek'[a] = k
  BY GBozarEtkisi DEF BPlanInv
<1>2. \A j \in GAnahtar : GDogru(j)'
  BY <1>1 DEF GDogru, GIptalYolda
<1>3. k.adim \notin {"mod", "kural", "is", "bak", "karar", "sonuc"}
  BY DEF GIptalci
<1> QED BY <1>0, <1>2, <1>3, GBozarKorur

\* Those on their way to cancel, or with a payment, stay on it.
LEMMA GYoldaKalir ==
  ASSUME BPlanInv, NEW a \in GIstek, NEW k \in GKayit \cup {Bos, Bitti}, GBozar(a, k),
         gIstek[a].adim \notin GIptalci, gIstek[a].adim # "odeme"
  PROVE  (GIptalYolda => GIptalYolda') /\ (GOdemeYolda => GOdemeYolda')
<1>1. \A b \in GIstek \ {a} : gIstek'[b].adim = gIstek[b].adim
  BY GBozarEtkisi DEF BPlanInv
<1> QED BY <1>1 DEF GIptalYolda, GOdemeYolda

LEMMA GSecenekYazKorur == ASSUME BPlanInv, NEW a \in GIstek, GSecenekYaz(a) PROVE BPlanInv'
<1>1. gIstek[a].adim = "yaz" /\ UNCHANGED <<gTaksit, gKural, gPlan, gNo, gIs, gSasan>>
  BY DEF GSecenekYaz
<1>2. PICK r \in GKayit : r = gIstek[a]
  BY <1>1, GHalen DEF GAdimlar
<1>3. r.adim = "yaz" /\ r.bilgi.alan \in GAlan \ {"buro"} /\ r.bilgi.deger \in BOOLEAN
  BY <1>1, <1>2, GKayitAlanlari
<1>4. gAcik' = [gAcik EXCEPT ![r.bilgi.alan] = r.bilgi.deger]
  BY <1>2 DEF GSecenekYaz
<1>5. PICK k : k = GSecenekSonra(r.bilgi.deger)
  OBVIOUS
<1>6. GBozar(a, k)
  BY <1>2, <1>5 DEF GSecenekYaz
<1>7. k \in GKayit /\ k.adim \in {"plan", "iptal"} /\ (~r.bilgi.deger => k.adim = "iptal")
  BY <1>5, GYolTipi DEF GSecenekSonra
<1>8. GPTipler /\ gAcik \in [GAlan -> BOOLEAN]
  BY DEF BPlanInv, GPTipler, GAyarTipi
<1>9. GAyarTipi'
  BY <1>1, <1>3, <1>4, <1>8 DEF GPTipler, GAyarTipi
<1>10. gIs' \in [GAnahtar -> GDurum \cup {Yok}] /\ gSasan' = gSasan
  BY <1>1, <1>8 DEF GPTipler
<1>11. CASE ~r.bilgi.deger
  BY <1>1, <1>6, <1>7, <1>9, <1>10, <1>11, GIptalecekKorur DEF GIptalci
<1>12. CASE r.bilgi.deger
  <2>1. \A alan \in GAlan : gAcik[alan] => gAcik'[alan]
    BY <1>4, <1>8, <1>12
  <2>2. GUstAcik => GUstAcik'
    BY <2>1 DEF GUstAcik, GAlan
  <2>3. gIstek[a].adim \notin GIptalci /\ gIstek[a].adim # "odeme"
    BY <1>1 DEF GIptalci
  <2>4. (GIptalYolda => GIptalYolda') /\ (GOdemeYolda => GOdemeYolda')
    BY <1>6, <1>7, <2>3, GYoldaKalir
  <2>5. ASSUME NEW j \in GAnahtar, GDogru(j) PROVE GDogru(j)'
    <3>1. CASE GIptalYolda
      BY <2>4, <3>1 DEF GDogru
    <3>2. CASE ~GIptalYolda
      <4>1. GIstenir(j)
        BY <2>5, <3>2 DEF GDogru
      <4>2. gAcik["taksit"]
        BY <4>1 DEF GIstenir, GMod, GEtkin
      <4>3. gAcik'["taksit"]
        BY <2>1, <4>2 DEF GAlan
      <4>4. GMod' = GMod
        BY <1>1, <4>2, <4>3 DEF GMod
      <4>5. GEtkin' = GEtkin
        BY <1>1, <4>4 DEF GEtkin
      <4>6. gTaksit' = gTaksit
        BY <1>1
      <4>7. GIstenir(j)'
        BY <1>1, <2>2, <2>4, <4>1, <4>4, <4>5, <4>6 DEF GIstenir, GIsBugun
      <4> QED BY <4>7 DEF GDogru
    <3> QED BY <3>1, <3>2
  <2>6. ~gSasan => \A j \in GAnahtar : GBekleyen(j)' => GDogru(j)'
    BY <1>1, <2>5 DEF BPlanInv, GBekleyen
  <2>7. GIsGunu'
    BY <1>1 DEF BPlanInv, GIsGunu
  <2> QED BY <1>6, <1>7, <1>9, <1>10, <2>6, <2>7, GBozarKorur
<1> QED BY <1>3, <1>11, <1>12

LEMMA GAyarYazKorur == ASSUME BPlanInv, NEW a \in GIstek, GAyarYaz(a) PROVE BPlanInv'
<1>1. gIstek[a].adim = "bos" /\ UNCHANGED <<gTaksit, gKural, gPlan, gNo, gIs, gSasan>>
  BY GGelirBos DEF GAyarYaz
<1>2. gAcik' = [gAcik EXCEPT !["buro"] = ~@]
  BY DEF GAyarYaz
<1>3. PICK k \in {Bitti} : k = Bitti
  OBVIOUS
<1>4. GBozar(a, k) /\ k.adim = "bitti"
  BY <1>3, GBosBitti DEF GAyarYaz
<1>5. GPTipler /\ gAcik \in [GAlan -> BOOLEAN]
  BY DEF BPlanInv, GPTipler, GAyarTipi
<1>6. GAyarTipi'
  BY <1>1, <1>2, <1>5 DEF GPTipler, GAyarTipi
<1>7. gIs' \in [GAnahtar -> GDurum \cup {Yok}] /\ gSasan' = gSasan
  BY <1>1, <1>5 DEF GPTipler
<1>8. \A alan \in GAlan \ {"buro"} : gAcik'[alan] = gAcik[alan]
  BY <1>2, <1>5
<1>9. (GUstAcik' <=> GUstAcik) /\ gAcik'["taksit"] = gAcik["taksit"]
  BY <1>8, BildirimPlanVarsayimi DEF GUstAcik, GAlan
<1>10. GMod' = GMod
  BY <1>1, <1>9 DEF GMod
<1>11. GEtkin' = GEtkin /\ gTaksit' = gTaksit
  BY <1>1, <1>10 DEF GEtkin
<1>12. (GIptalYolda => GIptalYolda') /\ (GOdemeYolda => GOdemeYolda')
  BY <1>1, <1>3, <1>4, GYoldaKalir DEF GIptalci
<1>13. \A j \in GAnahtar : GDogru(j) => GDogru(j)'
  BY <1>1, <1>9, <1>10, <1>11, <1>12 DEF GDogru, GIstenir, GIsBugun
<1>15. GIsGunu'
  BY <1>1 DEF BPlanInv, GIsGunu
<1>14. ~gSasan => \A j \in GAnahtar : GBekleyen(j)' => GDogru(j)'
  BY <1>1, <1>13 DEF BPlanInv, GBekleyen
<1> QED BY <1>3, <1>4, <1>6, <1>7, <1>14, <1>15, GBozarKorur

\* A rule that moves leaves its job for the day it was made for.
LEMMA GKuralYazKorur == ASSUME BPlanInv, NEW a \in GIstek, GKuralYaz(a) PROVE BPlanInv'
<1>1. gIstek[a].adim = "bos" /\ UNCHANGED <<gAcik, gTaksit, gPlan, gNo, gIs, gSasan>>
  BY GGelirBos DEF GKuralYaz
<1>2. PICK q \in GKural, aktif \in BOOLEAN, gun \in GGun :
        /\ gun \in GGunler[q]
        /\ gKural' = [gKural EXCEPT ![q] = [aktif |-> aktif, gun |-> gun,
                       isGun |-> IF gIs[GBuroIsi(q)] = Yok THEN gun ELSE @.isGun]]
  BY DEF GKuralYaz, GGun
<1>3. PICK k \in {Bitti} : k = Bitti
  OBVIOUS
<1>4. GBozar(a, k) /\ k.adim = "bitti"
  BY <1>3, GBosBitti DEF GKuralYaz
<1>5. GPTipler /\ GIsGunu /\ gKural \in GKurallar
  BY DEF BPlanInv, GPTipler, GAyarTipi
<1>6. /\ \A i \in GKural : gIs[GBuroIsi(i)] # Yok => gKural'[i].isGun = gKural[i].isGun
      /\ \A i \in GKural : gIs[GBuroIsi(i)] = Yok => gKural'[i].isGun = gKural'[i].gun
      /\ gKural' \in GKurallar
  <2>2. PICK y : y = [aktif |-> aktif, gun |-> gun, isGun |-> IF gIs[GBuroIsi(q)] = Yok THEN gun ELSE gKural[q].isGun]
    OBVIOUS
  <2>3. gKural' = [gKural EXCEPT ![q] = y]
    BY <1>2, <2>2
  <2>4. /\ y \in [aktif : BOOLEAN, gun : GGun, isGun : GGun] /\ y.gun \in GGunler[q] /\ y.isGun \in GGunler[q]
        /\ gIs[GBuroIsi(q)] # Yok => y.isGun = gKural[q].isGun
        /\ gIs[GBuroIsi(q)] = Yok => y.isGun = y.gun
    BY <1>2, <1>5, <2>2 DEF GKurallar
  <2>5. gKural' \in GKurallar
    BY <1>5, <2>3, <2>4 DEF GKurallar
  <2>6. /\ gKural'[q] = y
        /\ \A i \in GKural \ {q} : gKural'[i] = gKural[i]
    BY <1>5, <2>3 DEF GKurallar
  <2> QED BY <1>5, <2>4, <2>5, <2>6 DEF GIsGunu
<1>7. GAyarTipi' /\ GIsGunu'
  BY <1>1, <1>5, <1>6 DEF GPTipler, GAyarTipi, GIsGunu
<1>8. gIs' \in [GAnahtar -> GDurum \cup {Yok}] /\ gSasan' = gSasan
  BY <1>1, <1>5 DEF GPTipler
<1>9. GMod' = GMod /\ (GUstAcik' <=> GUstAcik) /\ gTaksit' = gTaksit /\ gPlan' = gPlan
  BY <1>1 DEF GMod, GUstAcik
<1>10. (GIptalYolda => GIptalYolda') /\ (GOdemeYolda => GOdemeYolda')
  BY <1>1, <1>3, <1>4, GYoldaKalir DEF GIptalci
<1>11. ASSUME NEW j \in GAnahtar, j \in GEtkin \/ (GMod = "VARSAYILAN" /\ j.kaynak = "VARSAYILAN")
       PROVE  j \in GEtkin' \/ (GMod' = "VARSAYILAN" /\ j.kaynak = "VARSAYILAN")
  <2>1. CASE GMod = "VARSAYILAN"
    BY <1>5, <1>9, <1>11, <2>1, GEtkinTipi DEF GPTipler
  <2>2. CASE GMod = "OZEL"
    <3>1. GEtkin' = GEtkin
      BY <1>1, <1>9, <2>2 DEF GEtkin
    <3> QED BY <1>11, <2>2, <3>1
  <2>3. CASE GMod = "KAPALI"
    BY <1>11, <2>3 DEF GEtkin
  <2> QED BY <1>5, <2>1, <2>2, <2>3, GEtkinTipi DEF GPTipler
<1>12. ASSUME NEW j \in GAnahtar, GBekleyen(j), GIsBugun(j) PROVE GIsBugun(j)'
  <2>1. CASE j.kaynak = "OZEL"
    BY <1>9, <1>12, <2>1 DEF GIsBugun
  <2>2. CASE j.kaynak # "OZEL"
    <3>1. j = GBuroIsi(j.kural) /\ j.kural \in GKural
      BY <2>2, GAnahtarTuru
    <3>2. gKural'[j.kural].isGun = gKural[j.kural].isGun
      BY <1>6, <1>12, <3>1 DEF GBekleyen
    <3> QED BY <1>9, <1>12, <2>2, <3>2 DEF GIsBugun
  <2> QED BY <2>1, <2>2
<1>13. ASSUME NEW j \in GAnahtar, GBekleyen(j), GDogru(j) PROVE GDogru(j)'
  BY <1>9, <1>10, <1>11, <1>12, <1>13 DEF GDogru, GIstenir
<1>14. ~gSasan => \A j \in GAnahtar : GBekleyen(j)' => GDogru(j)'
  BY <1>1, <1>13 DEF BPlanInv, GBekleyen
<1> QED BY <1>3, <1>4, <1>7, <1>8, <1>14, GBozarKorur

LEMMA GBayrakYazKorur == ASSUME BPlanInv, NEW a \in GIstek, GBayrakYaz(a) PROVE BPlanInv'
<1>1. gIstek[a].adim = "bayrak" /\ UNCHANGED <<gTaksit, gKural, gPlan, gNo, gIs, gSasan>>
  BY DEF GBayrakYaz
<1>2. PICK r \in GKayit : r = gIstek[a]
  BY <1>1, GHalen DEF GAdimlar
<1>3. r.adim = "bayrak" /\ r.bilgi \in GIstenen({"KAPALI", "VARSAYILAN", "OZEL"})
  BY <1>1, <1>2, GKayitAlanlari
<1>4. gAcik' = [gAcik EXCEPT !["taksit"] = r.bilgi.mod # "KAPALI"]
  BY <1>2 DEF GBayrakYaz
<1>5. PICK k : k = GAdim(IF r.bilgi.mod = "KAPALI" THEN "kaldir" ELSE "kaydet", "-", r.bilgi)
  OBVIOUS
<1>6. GBozar(a, k)
  BY <1>2, <1>5 DEF GBayrakYaz
<1>7. k \in GKayit /\ k.adim \in GIptalci
  <2>1. CASE r.bilgi.mod = "KAPALI"
    <3>1. k \in GBayrakK /\ k.adim = "kaldir"
      BY <1>3, <1>5, <2>1 DEF GAdim, GBayrakK
    <3> QED BY <3>1 DEF GKayit, GIptalci
  <2>2. CASE r.bilgi.mod # "KAPALI"
    <3>1. r.bilgi \in GIstenen({"VARSAYILAN", "OZEL"})
      BY <1>3, <2>2 DEF GIstenen
    <3>2. k \in GKaydetK /\ k.adim = "kaydet"
      BY <1>5, <2>2, <3>1 DEF GAdim, GKaydetK
    <3> QED BY <3>2 DEF GKayit, GIptalci
  <2> QED BY <2>1, <2>2
<1>8. GPTipler /\ gAcik \in [GAlan -> BOOLEAN]
  BY DEF BPlanInv, GPTipler, GAyarTipi
<1>9. GAyarTipi'
  BY <1>1, <1>4, <1>8 DEF GPTipler, GAyarTipi
<1> QED BY <1>1, <1>6, <1>7, <1>8, <1>9, GIptalecekKorur DEF GPTipler

LEMMA GPlanKaldirKorur == ASSUME BPlanInv, NEW a \in GIstek, GPlanKaldir(a) PROVE BPlanInv'
<1>1. UNCHANGED <<gAcik, gTaksit, gKural, gNo, gIs, gSasan>> /\ gPlan' = Yok
  BY DEF GPlanKaldir
<1>2. PICK k : k = GAdim("iptal", "bitti", Yok)
  OBVIOUS
<1>3. GBozar(a, k) /\ k \in GKayit /\ k.adim \in GIptalci
  BY <1>2, GYolTipi DEF GPlanKaldir, GIptalci
<1>4. GPTipler
  BY DEF BPlanInv
<1>5. GAyarTipi'
  BY <1>1, <1>4 DEF GPTipler, GAyarTipi
<1> QED BY <1>1, <1>3, <1>4, <1>5, GIptalecekKorur DEF GPTipler

\* The row of a plan, and the ids given so far.
LEMMA GPlanKaydetKorur == ASSUME BPlanInv, NEW a \in GIstek, GPlanKaydet(a) PROVE BPlanInv'
<1>1. gIstek[a].adim = "kaydet" /\ UNCHANGED <<gAcik, gTaksit, gKural, gIs, gSasan>>
  BY DEF GPlanKaydet
<1>2. PICK r \in GKayit : r = gIstek[a]
  BY <1>1, GHalen DEF GAdimlar
<1>3. r.adim = "kaydet" /\ r.bilgi \in GIstenen({"VARSAYILAN", "OZEL"})
  BY <1>1, <1>2, GKayitAlanlari
<1>4. r.bilgi.mod \in {"VARSAYILAN", "OZEL"} /\ GTarifesiz \in GTarifeler
  BY <1>3 DEF GIstenen, GTarifesiz, GTarifeler
<1>5. GPTipler /\ gNo \in Nat /\ gPlan \in {Yok} \cup GPlanTipi(gNo)
  BY DEF BPlanInv, GPTipler, GAyarTipi
<1>6. gNo' \in Nat /\ gPlan' \in GPlanTipi(gNo')
  <2>1. CASE gPlan = Yok
    <3>1. gNo' = gNo + 1 /\ gPlan' = [mod |-> r.bilgi.mod, surum |-> 1, no |-> gNo', kural |-> GTarifesiz]
      BY <1>2, <2>1 DEF GPlanKaydet
    <3>2. gNo' \in 1..gNo' /\ 1 \in 1..GSurum /\ gNo' \in Nat
      BY <1>5, <3>1, BildirimPlanVarsayimi
    <3> QED BY <1>4, <3>1, <3>2 DEF GPlanTipi
  <2>2. CASE gPlan # Yok
    <3>1. /\ gPlan.surum < GSurum /\ gNo' = gNo
          /\ gPlan' = [gPlan EXCEPT !.mod = r.bilgi.mod, !.surum = @ + 1]
      BY <1>2, <2>2 DEF GPlanKaydet
    <3>2. gPlan \in GPlanTipi(gNo) /\ gPlan.surum \in 1..GSurum
      BY <1>5, <2>2 DEF GPlanTipi
    <3>3. gPlan.surum + 1 \in 1..GSurum
      BY <3>1, <3>2, BildirimPlanVarsayimi
    <3> QED BY <1>4, <1>5, <3>1, <3>2, <3>3 DEF GPlanTipi
  <2> QED BY <2>1, <2>2
<1>7. gPlan'.no \in Nat
  BY <1>6 DEF GPlanTipi
<1>8. PICK y : y = [r.bilgi EXCEPT !.no = gPlan'.no]
  OBVIOUS
<1>9. y \in GIstenen({"VARSAYILAN", "OZEL"})
  BY <1>3, <1>7, <1>8 DEF GIstenen
<1>10. PICK k : k = GAdim("sil", "-", y)
  OBVIOUS
<1>11. k \in GKaydetK /\ k.adim = "sil"
  BY <1>9, <1>10 DEF GAdim, GKaydetK
<1>12. GBozar(a, k)
  BY <1>2, <1>8, <1>10 DEF GPlanKaydet
<1>13. k \in GKayit /\ k.adim \in GIptalci
  BY <1>11 DEF GKayit, GIptalci
<1>14. GAyarTipi'
  BY <1>1, <1>5, <1>6 DEF GPTipler, GAyarTipi
<1> QED BY <1>1, <1>5, <1>12, <1>13, <1>14, GIptalecekKorur DEF GPTipler

LEMMA GSonrakiTipi ==
  ASSUME NEW b \in GIstenen({"VARSAYILAN", "OZEL"})
  PROVE  GSonraki(b) \in GKayit /\ GSonraki(b).adim \in GIptalci
<1>1. CASE b.kural = GTarifesiz
  BY <1>1, GYolTipi DEF GSonraki, GIptalci
<1>2. CASE b.kural # GTarifesiz
  <2>1. PICK k : k = GAdim("ekle", "-", b)
    OBVIOUS
  <2>2. k \in GKaydetK /\ k.adim = "ekle"
    BY <2>1 DEF GAdim, GKaydetK
  <2> QED BY <1>2, <2>1, <2>2 DEF GSonraki, GKayit, GIptalci
<1> QED BY <1>1, <1>2

LEMMA GKuralSilKorur == ASSUME BPlanInv, NEW a \in GIstek, GKuralSil(a) PROVE BPlanInv'
<1>1. gIstek[a].adim = "sil" /\ UNCHANGED <<gAcik, gTaksit, gKural, gNo, gIs, gSasan>>
  BY DEF GKuralSil
<1>2. PICK r \in GKayit : r = gIstek[a]
  BY <1>1, GHalen DEF GAdimlar
<1>3. r.bilgi \in GIstenen({"VARSAYILAN", "OZEL"})
  BY <1>1, <1>2, GKayitAlanlari
<1>4. PICK k : k = GSonraki(r.bilgi)
  OBVIOUS
<1>5. GBozar(a, k) /\ k \in GKayit /\ k.adim \in GIptalci
  BY <1>2, <1>3, <1>4, GSonrakiTipi DEF GKuralSil
<1>6. GPTipler /\ gPlan \in {Yok} \cup GPlanTipi(gNo)
  BY DEF BPlanInv, GPTipler, GAyarTipi
<1>7. gPlan' \in {Yok} \cup GPlanTipi(gNo)
  <2>1. CASE GPlaninda(a)
    <3>1. gPlan \in GPlanTipi(gNo) /\ gPlan' = [gPlan EXCEPT !.kural = GTarifesiz]
      BY <1>6, <2>1 DEF GKuralSil, GPlaninda
    <3>2. GTarifesiz \in GTarifeler
      BY DEF GTarifesiz, GTarifeler
    <3>3. gPlan' \in GPlanTipi(gNo)
      BY <3>1, <3>2 DEF GPlanTipi
    <3> QED BY <3>3
  <2>2. CASE ~GPlaninda(a)
    BY <1>6, <2>2 DEF GKuralSil
  <2> QED BY <2>1, <2>2
<1>8. GAyarTipi'
  BY <1>1, <1>6, <1>7 DEF GPTipler, GAyarTipi
<1> QED BY <1>1, <1>5, <1>6, <1>8, GIptalecekKorur DEF GPTipler

LEMMA GKuralEkleKorur == ASSUME BPlanInv, NEW a \in GIstek, GKuralEkle(a) PROVE BPlanInv'
<1>1. gIstek[a].adim = "ekle" /\ GPlaninda(a) /\ UNCHANGED <<gAcik, gTaksit, gKural, gNo, gIs, gSasan>>
  BY DEF GKuralEkle
<1>2. PICK r \in GKayit : r = gIstek[a]
  BY <1>1, GHalen DEF GAdimlar
<1>3. r.bilgi \in GIstenen({"VARSAYILAN", "OZEL"})
  BY <1>1, <1>2, GKayitAlanlari
<1>4. PICK q \in GKural :
        /\ gPlan' = [gPlan EXCEPT !.kural[q] = r.bilgi.kural[q]]
        /\ GBozar(a, GSonraki([r.bilgi EXCEPT !.kural[q] = Yok]))
  BY <1>2 DEF GKuralEkle
<1>5. PICK y : y = [r.bilgi EXCEPT !.kural[q] = Yok]
  OBVIOUS
<1>6. y \in GIstenen({"VARSAYILAN", "OZEL"})
  <2>1. PICK t \in GTarifeler : t = r.bilgi.kural
    BY <1>3 DEF GIstenen
  <2>2. PICK u : u = [t EXCEPT ![q] = Yok]
    OBVIOUS
  <2>3. u \in GTarifeler
    BY <2>1, <2>2 DEF GTarifeler
  <2>4. y = [r.bilgi EXCEPT !.kural = u]
    BY <1>5, <2>1, <2>2
  <2> QED BY <1>3, <2>3, <2>4 DEF GIstenen
<1>7. PICK k : k = GSonraki(y)
  OBVIOUS
<1>8. GBozar(a, k) /\ k \in GKayit /\ k.adim \in GIptalci
  BY <1>4, <1>5, <1>6, <1>7, GSonrakiTipi
<1>9. GPTipler /\ gPlan \in GPlanTipi(gNo)
  BY <1>1 DEF GPlaninda, BPlanInv, GPTipler, GAyarTipi
<1>10. gPlan' \in GPlanTipi(gNo)
  <2>1. PICK t \in GTarifeler : t = gPlan.kural
    BY <1>9 DEF GPlanTipi
  <2>2. PICK v \in GTarifeler : v = r.bilgi.kural
    BY <1>3 DEF GIstenen
  <2>3. PICK u : u = [t EXCEPT ![q] = v[q]]
    OBVIOUS
  <2>4. u \in GTarifeler
    BY <2>1, <2>2, <2>3 DEF GTarifeler
  <2>5. gPlan' = [gPlan EXCEPT !.kural = u]
    BY <1>4, <2>1, <2>2, <2>3
  <2> QED BY <1>9, <2>4, <2>5 DEF GPlanTipi
<1>11. GAyarTipi'
  BY <1>1, <1>9, <1>10 DEF GPTipler, GAyarTipi
<1> QED BY <1>1, <1>8, <1>9, <1>11, GIptalecekKorur DEF GPTipler

LEMMA GVadeYazKorur == ASSUME BPlanInv, NEW a \in GIstek, GVadeYaz(a) PROVE BPlanInv'
<1>1. UNCHANGED <<gAcik, gKural, gPlan, gNo, gIs, gSasan>>
  BY DEF GVadeYaz
<1>2. PICK v \in GVade : gTaksit' = [gTaksit EXCEPT !.vade = v]
  BY DEF GVadeYaz
<1>3. PICK k : k = GAdim("iptal", "plan", Yok)
  OBVIOUS
<1>4. GBozar(a, k) /\ k \in GKayit /\ k.adim \in GIptalci
  BY <1>3, GYolTipi DEF GVadeYaz, GIptalci
<1>5. GPTipler /\ gTaksit' \in GTaksitTipi
  BY <1>2 DEF BPlanInv, GPTipler, GAyarTipi, GTaksitTipi
<1>6. GAyarTipi'
  BY <1>1, <1>5 DEF GPTipler, GAyarTipi
<1> QED BY <1>1, <1>4, <1>5, <1>6, GIptalecekKorur DEF GPTipler

\* After a payment, or one that is cancelled, its request is under way.
LEMMA GBorcYazKorur == ASSUME BPlanInv, NEW a \in GIstek, GBorcYaz(a) PROVE BPlanInv'
<1>1. gIstek[a].adim = "bos" /\ UNCHANGED <<gAcik, gKural, gPlan, gNo, gIs, gSasan>>
  BY GGelirBos DEF GBorcYaz
<1>2. gTaksit' = [gTaksit EXCEPT !.borc = ~@]
  BY DEF GBorcYaz
<1>3. PICK k : k = GAdim("odeme", "-", Yok)
  OBVIOUS
<1>4. GBozar(a, k) /\ k \in GKayit /\ k.adim = "odeme"
  BY <1>3, GYolTipi DEF GBorcYaz
<1>5. GPTipler /\ gTaksit' \in GTaksitTipi /\ gTaksit'.vade = gTaksit.vade
  BY <1>2 DEF BPlanInv, GPTipler, GAyarTipi, GTaksitTipi
<1>6. GAyarTipi'
  BY <1>1, <1>5 DEF GPTipler, GAyarTipi
<1>7. GMod' = GMod /\ GEtkin' = GEtkin /\ (GUstAcik' <=> GUstAcik)
  BY <1>1 DEF GMod, GEtkin, GUstAcik
<1>8. GIptalYolda => GIptalYolda'
  BY <1>1, <1>4, GYoldaKalir DEF GIptalci
<1>9. GOdemeYolda'
  <2>1. gIstek'[a] = k
    BY <1>4, <1>5, GBozarEtkisi
  <2> QED BY <1>4, <2>1 DEF GOdemeYolda
<1>10. ASSUME NEW j \in GAnahtar, GDogru(j) PROVE GDogru(j)'
  <2>1. GIstenir(j) => GIstenir(j)'
    BY <1>1, <1>5, <1>7, <1>9 DEF GIstenir, GIsBugun
  <2> QED BY <1>8, <1>10, <2>1 DEF GDogru
<1>11. ~gSasan => \A j \in GAnahtar : GBekleyen(j)' => GDogru(j)'
  BY <1>1, <1>10 DEF BPlanInv, GBekleyen
<1>12. gIs' \in [GAnahtar -> GDurum \cup {Yok}] /\ gSasan' = gSasan
  BY <1>1, <1>5 DEF GPTipler
<1>13. GIsGunu'
  BY <1>1 DEF BPlanInv, GIsGunu
<1> QED BY <1>4, <1>6, <1>11, <1>12, <1>13, GBozarKorur

LEMMA GIptalKorur == ASSUME BPlanInv, NEW a \in GIstek, GIptal(a) PROVE BPlanInv'
<1>1. UNCHANGED gAyarlar /\ gSasan' = gSasan
  BY DEF GIptal
<1>2. gIs' = [j \in GAnahtar |-> IF GBekler(gIs[j]) THEN "IPTAL_EDILDI" ELSE gIs[j]]
  BY DEF GIptal
<1>3. PICK k : k = IF gIstek[a].sonra = "plan" THEN GAdim("plan", "-", Yok) ELSE Bitti
  OBVIOUS
<1>4. GBozar(a, k) /\ k \in GKayit \cup {Bos, Bitti} /\ k.adim \in {"plan", "bitti"}
  BY <1>3, GYolTipi, GBosBitti DEF GIptal
<1>5. GPTipler
  BY DEF BPlanInv
<1>6. gIs \in [GAnahtar -> GDurum \cup {Yok}]
  BY <1>5 DEF GPTipler
<1>7. gIs' \in [GAnahtar -> GDurum \cup {Yok}] /\ \A j \in GAnahtar : ~GBekleyen(j)'
  BY <1>2, <1>6 DEF GDurum, GBekleyen, GBekler
<1>8. GAyarTipi'
  BY <1>1, <1>5, GAyarTipiKalir DEF GPTipler
<1>9. GIsGunu'
  <2>1. gKural' = gKural /\ \A j \in GAnahtar : gIs'[j] = Yok => gIs[j] = Yok
    BY <1>1, <1>2, <1>6, BildirimPlanVarsayimi DEF gAyarlar, GDurum
  <2> QED BY <2>1, GAnahtarTuru DEF BPlanInv, GIsGunu
<1> QED BY <1>1, <1>4, <1>7, <1>8, <1>9, GBozarKorur

-----------------------------------------------------------------------------

LEMMA BPlanAdimiKorur == ASSUME BPlanInv, [BPlanNext]_bPlanVars PROVE BPlanInv'
<1>1. CASE UNCHANGED bPlanVars
  <2>1. UNCHANGED gAyarlar /\ gIs' = gIs /\ gIstek' = gIstek /\ gSasan' = gSasan /\ gPlanli' = gPlanli
    BY <1>1 DEF bPlanVars, gAyarlar
  <2>2. /\ GMod' = GMod /\ GEtkin' = GEtkin /\ GOnizleme' = GOnizleme /\ (GUstAcik' <=> GUstAcik)
        /\ gTaksit' = gTaksit /\ gPlan' = gPlan /\ gKural' = gKural
    BY <2>1, GAyarAyni DEF gAyarlar
  <2>3. (GIptalYolda' <=> GIptalYolda) /\ (GOdemeYolda' <=> GOdemeYolda)
    BY <2>1 DEF GIptalYolda, GOdemeYolda
  <2>4. \A j : (GBekleyen(j)' <=> GBekleyen(j)) /\ (GDogru(j)' <=> GDogru(j))
    BY <2>1, <2>2, <2>3 DEF GBekleyen, GDogru, GIstenir, GIsBugun
  <2>5. \A a \in GIstek : GGuncel(gIstek[a])' <=> GGuncel(gIstek[a])
    BY <2>1, <2>2, <2>4 DEF GGuncel, GBugun
  <2>6. GPTipler'
    <3>1. GAyarTipi'
      BY <2>1, GAyarTipiKalir DEF BPlanInv, GPTipler
    <3> QED BY <2>1, <3>1 DEF BPlanInv, GPTipler
  <2>7. GIsGunu'
    BY <2>1, <2>2 DEF BPlanInv, GIsGunu
  <2> QED BY <2>1, <2>2, <2>4, <2>5, <2>6, <2>7 DEF BPlanInv
<1>2. ASSUME NEW a \in GIstek,
             \/ GSecenekOku(a) \/ GSecenekYaz(a) \/ GAyarYaz(a) \/ GKuralYaz(a)
             \/ GPlanIste(a) \/ GBayrakYaz(a) \/ GPlanKaldir(a) \/ GPlanKaydet(a) \/ GKuralSil(a) \/ GKuralEkle(a)
             \/ GBorcYaz(a) \/ GOdemeOku(a) \/ GVadeYaz(a) \/ GIptal(a)
             \/ GPlanla(a) \/ GPlanBasla(a) \/ GEskiOku(a) \/ GEskiYaz(a) \/ GPlanOku(a) \/ GPlanMod(a) \/ GPlanKural(a)
             \/ GIsOlustur(a) \/ GIsAl(a) \/ GIsBak(a) \/ GIsKarar(a) \/ GIsSonuc(a) \/ GDuser(a)
      PROVE  BPlanInv'
  BY <1>2, GSecenekOkuKorur, GSecenekYazKorur, GAyarYazKorur, GKuralYazKorur, GPlanIsteKorur, GBayrakYazKorur,
     GPlanKaldirKorur, GPlanKaydetKorur, GKuralSilKorur, GKuralEkleKorur, GBorcYazKorur, GOdemeOkuKorur, GVadeYazKorur,
     GIptalKorur, GPlanlaKorur, GPlanBaslaKorur, GEskiOkuKorur, GEskiYazKorur, GPlanOkuKorur, GPlanModKorur, GPlanKuralKorur, GIsOlusturKorur,
     GIsAlKorur, GIsBakKorur, GIsKararKorur, GIsSonucKorur, GDuserKorur
<1> QED BY <1>1, <1>2 DEF BPlanNext

LEMMA BPlanBaslar == ASSUME BPlanInit PROVE BPlanInv
<1>1. GAyarTipi
  <2>1. gAcik \in [GAlan -> BOOLEAN] /\ gTaksit \in GTaksitTipi /\ gKural \in GKurallar /\ gNo = 1
    BY DEF BPlanInit, GTaksitTipi
  <2>2. gPlan \in {Yok} \cup GPlanTipi(1)
    <3>1. gPlan \in {Yok} \cup [mod : {"OZEL"}, surum : {1}, no : {1}, kural : GTarifeler]
      BY DEF BPlanInit
    <3>2. 1 \in 1..GSurum /\ 1 \in 1..1
      BY BildirimPlanVarsayimi
    <3> QED BY <3>1, <3>2 DEF GPlanTipi
  <2> QED BY <2>1, <2>2 DEF GAyarTipi
<1>2. /\ \A a \in GIstek : gIstek[a] = Bos
      /\ gIstek \in [GIstek -> GKayit \cup {Bos, Bitti}]
  BY DEF BPlanInit
<1>3. gSasan = FALSE /\ GUstAcik /\ gTaksit.borc = TRUE /\ gPlanli \in BOOLEAN
  BY BildirimPlanVarsayimi DEF BPlanInit, GUstAcik, GAlan
<1>4. GEtkin \subseteq GAnahtar /\ GOnizleme \subseteq GEtkin
  BY <1>1, GEtkinTipi
<1>g. GIsGunu
  BY DEF BPlanInit, GIsGunu
<1>5. CASE gIs = [j \in GAnahtar |-> Yok] /\ gPlanli = FALSE
  <2>1. gIs \in [GAnahtar -> GDurum \cup {Yok}] /\ \A j \in GAnahtar : ~GBekleyen(j)
    BY <1>5 DEF GBekleyen
  <2> QED BY <1>1, <1>2, <1>3, <1>5, <1>g, <2>1, GBosBitti DEF BPlanInv, GPTipler
<1>6. CASE gIs = [j \in GAnahtar |-> IF j \in GEtkin /\ GBugun(j, gTaksit.vade) THEN "PLANLANDI" ELSE Yok]
  <2>1. gIs \in [GAnahtar -> GDurum \cup {Yok}]
    BY <1>6 DEF GDurum
  <2>2. \A j \in GAnahtar : GBekleyen(j) => GDogru(j)
    <3>1. ASSUME NEW j \in GAnahtar, GBekleyen(j) PROVE GDogru(j)
      <4>1. j \in GEtkin /\ GBugun(j, gTaksit.vade)
        BY <1>6, <3>1 DEF GBekleyen
      <4>2. j.kural \in GKural
        BY GAnahtarTuru
      <4>3. gKural[j.kural].isGun = gKural[j.kural].gun
        BY <4>2 DEF BPlanInit
      <4> QED BY <1>3, <4>1, <4>3 DEF GDogru, GIstenir, GBugun, GIsBugun
    <3> QED BY <3>1
  <2>3. \A j \in GOnizleme : gIs[j] # Yok
    BY <1>4, <1>6, BildirimPlanVarsayimi DEF GOnizleme, GDurum
  <2> QED BY <1>1, <1>2, <1>3, <1>g, <2>1, <2>2, <2>3, GBosBitti DEF BPlanInv, GPTipler
<1> QED BY <1>5, <1>6 DEF BPlanInit

\* What holds of switches, plans, jobs and the requests about them in every
\* reachable state (settings.service.ts, bildirimPlan.service.ts,
\* planner.service.ts, eligibility.service.ts).
THEOREM BPlanDegismez == BPlanSpec => []BPlanInv
<1>1. BPlanInit => BPlanInv
  BY BPlanBaslar
<1>2. BPlanInv /\ [BPlanNext]_bPlanVars => BPlanInv'
  BY BPlanAdimiKorur
<1> QED BY <1>1, <1>2, PTL DEF BPlanSpec

\* With nothing under way, a pending job is one that switches, plan and debt ask
\* for, made for the due date there is by the day its rule had then, also after
\* updateRule moved the rule; and what the preview lists has its job once the
\* planner has seen them all; unless a request was lost or overtaken
\* (planner.service.ts, settings.service.ts).
THEOREM BPlanTutarlidir == BPlanSpec => []BPlanTutarli
<1>1. BPlanInv => BPlanTutarli
  <2> SUFFICES ASSUME BPlanInv, ~gSasan, \A a \in GIstek : gIstek[a] \in {Bos, Bitti}
               PROVE  /\ \A j \in GAnahtar : gIs[j] # Yok /\ GBekler(gIs[j]) =>
                           /\ GUstAcik /\ gTaksit.borc
                           /\ j \in GEtkin \/ (GMod = "VARSAYILAN" /\ j.kaynak = "VARSAYILAN")
                           /\ GIsBugun(j)
                      /\ gPlanli => \A j \in GOnizleme : gIs[j] # Yok
    BY DEF BPlanTutarli
  <2>1. ~GIptalYolda /\ ~GOdemeYolda
    BY GBosBitti DEF GIptalYolda, GOdemeYolda, GIptalci
  <2> QED BY <2>1 DEF BPlanInv, GBekleyen, GDogru, GIstenir
<1> QED BY <1>1, BPlanDegismez, PTL

\* Switches, plan, jobs and requests keep their types (bildirimAyar.service.ts,
\* bildirimPlan.service.ts).
THEOREM BPlanTipiKorunur == BPlanSpec => []BPlanTypeOK
<1>1. BPlanInv => BPlanTypeOK
  <2> SUFFICES ASSUME BPlanInv PROVE BPlanTypeOK
    OBVIOUS
  <2>1. \A a \in GIstek : gIstek[a] \notin {Bos, Bitti} => gIstek[a].adim \in GAdimlar /\ gIstek[a].bayat \in BOOLEAN
    BY GKayitAlanlari DEF BPlanInv, GPTipler
  <2> QED BY <2>1 DEF BPlanTypeOK, BPlanInv, GPTipler, GAyarTipi, GTaksitTipi, GPlanTipi
<1> QED BY <1>1, BPlanDegismez, PTL

-----------------------------------------------------------------------------
(* The accounts of an office, looked at one at a time: a behaviour of the  *)
(* composition is one of every account, which the others leave alone.      *)

(* What is shown of the accounts holds of what the run checks.             *)
THEOREM ParaParcalari ==
  ParaSpec => /\ KrediSpec /\ SmsSpec /\ IcraSpec /\ KasaSpec
              /\ MKasaSpec /\ PlanSpec /\ PrimSpec /\ BPlanSpec
<1>1. ParaInit => /\ KrediInit /\ SmsInit /\ IcraInit /\ KasaInit
                  /\ MKasaInit /\ PlanInit /\ PrimInit /\ BPlanInit
  BY DEF ParaInit
<1>2. [ParaNext]_<<parca, krediVars, smsVars, icraVars, kasaVars, mKasaVars, planVars, primVars, bPlanVars>>
        => /\ [KrediNext]_krediVars /\ [SmsNext]_smsVars /\ [IcraNext]_icraVars /\ [KasaNext]_kasaVars
           /\ [MKasaNext]_mKasaVars /\ [PlanNext]_planVars /\ [PrimNext]_primVars /\ [BPlanNext]_bPlanVars
  BY DEF ParaNext, Kalan
<1> QED BY <1>1, <1>2, PTL
        DEF ParaSpec, KrediSpec, SmsSpec, IcraSpec, KasaSpec, MKasaSpec, PlanSpec, PrimSpec, BPlanSpec

(* Whichever account is looked at, its rows and requests keep their types. *)
THEOREM ParaTipi == ParaSpec => []ParaTypeOK
<1>1. KrediTypeOK /\ SmsTypeOK /\ IcraTypeOK /\ KasaTypeOK /\ MKasaTypeOK /\ PlanTypeOK /\ PrimTypeOK /\ BPlanTypeOK
        => ParaTypeOK
  BY DEF ParaTypeOK
<1> QED BY <1>1, ParaParcalari, KrediTipi, SmsTipiKorunur, IcraTipiKorunur, KasaTipiKorunur, MKasaTipiKorunur,
           PlanTipiKorunur, PrimTipiKorunur, BPlanTipiKorunur, PTL
=============================================================================
