---------------------------- MODULE BildirimPlan ----------------------------
(***************************************************************************)
(* Which reminders an instalment gets today: the switches of the office,   *)
(* the client, the case and the instalment (settings.service.ts,           *)
(* bildirimAyar.service.ts), the plan of its own (bildirimPlan.service.ts),*)
(* the planner that turns rules into jobs (planner.service.ts) and what    *)
(* cancels the pending ones (eligibility.service.ts, sync.service.ts).     *)
(* No operation is a transaction.  Credits and locks of the jobs are in    *)
(* TahsilatBildirim; here a worker only takes, looks and writes.           *)
(***************************************************************************)
EXTENDS Ortak

CONSTANTS
  GKural,    \* kinds of rules (BildirimKuralTuru)
  GGunler,   \* per kind, the days before the due date it may be set to
  GUst,      \* who above the instalment has a switch: its client, its case
  GVade,     \* days from today to a due date
  GSurum,    \* bound: versions of a plan
  GIstek     \* requests, planner and worker runs, numbered

GDurum == {"PLANLANDI", "KUYRUKTA", "IPTAL_EDILDI", "ATLANDI", "GONDERILDI"}

ASSUME BildirimPlanVarsayimi ==
  /\ GGunler \in [GKural -> SUBSET Int] /\ GVade \subseteq Int /\ GSurum \in Nat \ {0} /\ GIstek \subseteq Nat
  /\ GUst \cap {"buro", "taksit"} = {} /\ Yok \notin GDurum \cup Int

VARIABLES
  gAcik,     \* the switches
  gTaksit,   \* the instalment: days to its due date, and is anything left to pay?
  gKural,    \* the rules of the office: in use or not, for which day, and (history) the day they had for today's job
  gPlan,     \* bildirim_plan_entity of the instalment with the days of its rules in use, or Yok
  gNo,       \* ids of its rows, in order
  gIs,       \* today's jobs of the instalment, by idempotency key
  gIstek,
  gSasan,    \* history: did a lost request or one with stale reads leave its mark?
  gPlanli    \* history: has the planner seen everything as it is?

bPlanVars == <<gAcik, gTaksit, gKural, gPlan, gNo, gIs, gIstek, gSasan, gPlanli>>
gAyarlar == <<gAcik, gTaksit, gKural, gPlan, gNo>>

GGun == UNION {GGunler[k] : k \in GKural}
GTarifeler == {f \in [GKural -> GGun \cup {Yok}] : \A k \in GKural : f[k] = Yok \/ f[k] \in GGunler[k]}
GTarifesiz == [k \in GKural |-> Yok]
GKurallar == {f \in [GKural -> [aktif : BOOLEAN, gun : GGun, isGun : GGun]] :
                \A k \in GKural : f[k].gun \in GGunler[k] /\ f[k].isGun \in GGunler[k]}

GAlan == GUst \cup {"buro", "taksit"}
GUstAcik == \A u \in GUst : gAcik[u]
GBekler(d) == d \in {"PLANLANDI", "KUYRUKTA"}

GAnahtarlar(kaynak, surum, kurallar) == {[kaynak |-> kaynak, surum |-> surum, kural |-> k] : k \in kurallar}
GAnahtar == GAnahtarlar("VARSAYILAN", 1, GKural) \cup UNION {GAnahtarlar("OZEL", s, GKural) : s \in 1..GSurum}
GBuroIsi(k) == [kaynak |-> "VARSAYILAN", surum |-> 1, kural |-> k]

GGelir(a) == a \in Ilk({b \in GIstek : gIstek[b] = Bos})
GIlerlet(a, k) == gIstek' = [gIstek EXCEPT ![a] = k]
GAdim(adim, sonra, bilgi) == [adim |-> adim, sonra |-> sonra, bilgi |-> bilgi, bayat |-> FALSE]

\* a changed what others go by, and goes on with k.
GBozar(a, k) == gIstek' = Bayatlat(gIstek, a, k) /\ gPlanli' = FALSE

(* What the instalment gets. *)

\* resolveTaksitPlanMode
GMod == IF ~gAcik["taksit"] THEN "KAPALI" ELSE IF gPlan = Yok THEN "VARSAYILAN" ELSE gPlan.mod

\* loadEffectiveTaksitRules: the keys of the active rules.
GEtkin ==
  CASE GMod = "KAPALI" -> {}
    [] GMod = "OZEL" -> GAnahtarlar("OZEL", gPlan.surum, {k \in GKural : gPlan.kural[k] # Yok})
    [] GMod = "VARSAYILAN" -> GAnahtarlar("VARSAYILAN", 1, {k \in GKural : gKural[k].aktif})

\* targetYmdForRule: is the rule of a key for today, when the due date is vade days ahead?
GBugun(k, vade) == vade = IF k.kaynak = "OZEL" THEN gPlan.kural[k.kural] ELSE gKural[k.kural].gun

\* previewPlanJobsForTenant: would the planner look at the rules, and which jobs would it make?
GOnizlenir == gAcik["buro"] /\ GMod # "KAPALI" /\ GUstAcik /\ gTaksit.borc
GOnizleme == IF GOnizlenir THEN {k \in GEtkin : GBugun(k, gTaksit.vade)} ELSE {}

(* Switches, rules and plans. *)

\* setMuvekkilOtomatikBildirim, setDosyaOtomatikBildirim, setTaksitOtomatikBildirim;
\* nothing happens when the switch is there already.
GSecenekOku(a) ==
  /\ GGelir(a)
  /\ \E alan \in GAlan \ {"buro"} : GIlerlet(a, GAdim("yaz", "-", [alan |-> alan, deger |-> ~gAcik[alan]]))
  /\ UNCHANGED <<gAyarlar, gIs, gSasan, gPlanli>>

GSecenekSonra(acilir) == IF acilir THEN GAdim("plan", "-", Yok) ELSE GAdim("iptal", "bitti", Yok)

GSecenekYaz(a) ==
  LET b == gIstek[a].bilgi IN
  /\ gIstek[a].adim = "yaz"
  /\ gAcik' = [gAcik EXCEPT ![b.alan] = b.deger]
  /\ GBozar(a, GSecenekSonra(b.deger))
  /\ UNCHANGED <<gTaksit, gKural, gPlan, gNo, gIs, gSasan>>

\* updateSettings: jobs stay as they are.
GAyarYaz(a) ==
  /\ GGelir(a)
  /\ gAcik' = [gAcik EXCEPT !["buro"] = ~@]
  /\ GBozar(a, Bitti) /\ UNCHANGED <<gTaksit, gKural, gPlan, gNo, gIs, gSasan>>

\* updateRule, in use or not and its day: the jobs stay here too, for the day they were made for.
GKuralYaz(a) ==
  /\ GGelir(a)
  /\ \E k \in GKural, aktif \in BOOLEAN : \E gun \in GGunler[k] :
       /\ <<aktif, gun>> # <<gKural[k].aktif, gKural[k].gun>>
       /\ gKural' = [gKural EXCEPT ![k] = [aktif |-> aktif, gun |-> gun,
                       isGun |-> IF gIs[GBuroIsi(k)] = Yok THEN gun ELSE @.isGun]]
  /\ GBozar(a, Bitti) /\ UNCHANGED <<gAcik, gTaksit, gPlan, gNo, gIs, gSasan>>

\* setTaksitHatirlatmaPlan: the flag, the row, its rules one by one, the jobs.
GPlanIste(a) ==
  /\ GGelir(a)
  /\ \E mod \in {"KAPALI", "VARSAYILAN", "OZEL"}, t \in GTarifeler :
       /\ mod # "OZEL" => t = GTarifesiz
       /\ GIlerlet(a, GAdim("bayrak", "-", [mod |-> mod, kural |-> t, no |-> 0]))
  /\ UNCHANGED <<gAyarlar, gIs, gSasan, gPlanli>>

GBayrakYaz(a) ==
  LET b == gIstek[a].bilgi IN
  /\ gIstek[a].adim = "bayrak"
  /\ gAcik' = [gAcik EXCEPT !["taksit"] = b.mod # "KAPALI"]
  /\ GBozar(a, GAdim(IF b.mod = "KAPALI" THEN "kaldir" ELSE "kaydet", "-", b))
  /\ UNCHANGED <<gTaksit, gKural, gPlan, gNo, gIs, gSasan>>

GPlanKaldir(a) ==
  /\ gIstek[a].adim = "kaldir"
  /\ gPlan' = Yok
  /\ GBozar(a, GAdim("iptal", "bitti", Yok))
  /\ UNCHANGED <<gAcik, gTaksit, gKural, gNo, gIs, gSasan>>

GPlanKaydet(a) ==
  LET b == gIstek[a].bilgi IN
  /\ gIstek[a].adim = "kaydet"
  /\ IF gPlan = Yok
     THEN gNo' = gNo + 1 /\ gPlan' = [mod |-> b.mod, surum |-> 1, no |-> gNo', kural |-> GTarifesiz]
     ELSE /\ gPlan.surum < GSurum /\ UNCHANGED gNo
          /\ gPlan' = [gPlan EXCEPT !.mod = b.mod, !.surum = @ + 1]
  /\ GBozar(a, GAdim("sil", "-", [b EXCEPT !.no = gPlan'.no]))
  /\ UNCHANGED <<gAcik, gTaksit, gKural, gIs, gSasan>>

GPlaninda(a) == gPlan # Yok /\ gPlan.no = gIstek[a].bilgi.no
GSonraki(b) == IF b.kural = GTarifesiz THEN GAdim("iptal", "plan", Yok) ELSE GAdim("ekle", "-", b)

GKuralSil(a) ==
  /\ gIstek[a].adim = "sil"
  /\ gPlan' = IF GPlaninda(a) THEN [gPlan EXCEPT !.kural = GTarifesiz] ELSE gPlan
  /\ GBozar(a, GSonraki(gIstek[a].bilgi))
  /\ UNCHANGED <<gAcik, gTaksit, gKural, gNo, gIs, gSasan>>

\* Refused when the plan is gone or has the rule.
GKuralEkle(a) ==
  /\ gIstek[a].adim = "ekle" /\ GPlaninda(a)
  /\ \E k \in GKural :
       /\ gIstek[a].bilgi.kural[k] # Yok /\ gPlan.kural[k] = Yok
       /\ gPlan' = [gPlan EXCEPT !.kural[k] = gIstek[a].bilgi.kural[k]]
       /\ GBozar(a, GSonraki([gIstek[a].bilgi EXCEPT !.kural[k] = Yok]))
  /\ UNCHANGED <<gAcik, gTaksit, gKural, gNo, gIs, gSasan>>

(* Payments and due dates. *)

\* The payment or due date is committed; the rest is not waited for.
GBorcYaz(a) ==
  /\ GGelir(a)
  /\ gTaksit' = [gTaksit EXCEPT !.borc = ~@]
  /\ GBozar(a, GAdim("odeme", "-", Yok)) /\ UNCHANGED <<gAcik, gKural, gPlan, gNo, gIs, gSasan>>

\* onTaksitOdemeChanged
GOdemeOku(a) ==
  /\ gIstek[a].adim = "odeme"
  /\ GIlerlet(a, IF gTaksit.borc THEN GAdim("plan", "-", Yok) ELSE GAdim("iptal", "plan", Yok))
  /\ UNCHANGED <<gAyarlar, gIs, gSasan, gPlanli>>

\* updateVekaletTaksiti, then onTaksitVadeChanged
GVadeYaz(a) ==
  /\ GGelir(a)
  /\ \E v \in GVade \ {gTaksit.vade} : gTaksit' = [gTaksit EXCEPT !.vade = v]
  /\ GBozar(a, GAdim("iptal", "plan", Yok)) /\ UNCHANGED <<gAcik, gKural, gPlan, gNo, gIs, gSasan>>

GIptalMutant(a) ==   \* mutant: claimed jobs are not cancelled
  /\ gIstek[a].adim = "iptal"
  /\ gIs' = [k \in GAnahtar |-> IF gIs[k] = "PLANLANDI" THEN "IPTAL_EDILDI" ELSE gIs[k]]
  /\ GBozar(a, IF gIstek[a].sonra = "plan" THEN GAdim("plan", "-", Yok) ELSE Bitti)
  /\ UNCHANGED <<gAyarlar, gSasan>>
\* cancelPendingBildirimJobs, one statement
GIptal(a) ==
  /\ gIstek[a].adim = "iptal"
  /\ gIs' = [k \in GAnahtar |-> IF GBekler(gIs[k]) THEN "IPTAL_EDILDI" ELSE gIs[k]]
  /\ GBozar(a, IF gIstek[a].sonra = "plan" THEN GAdim("plan", "-", Yok) ELSE Bitti)
  /\ UNCHANGED <<gAyarlar, gSasan>>

(* planJobsForTenant, by cron or at the end of a request. *)

GPlanla(a) == GGelir(a) /\ GIlerlet(a, GAdim("plan", "-", Yok)) /\ UNCHANGED <<gAyarlar, gIs, gSasan, gPlanli>>

\* The setting of the office; it is looked at after the jobs without a debt.
GPlanBasla(a) ==
  /\ gIstek[a].adim = "plan"
  /\ GIlerlet(a, GAdim("eski", "-", [acik |-> gAcik["buro"], isler |-> {}]))
  /\ UNCHANGED <<gAyarlar, gIs, gSasan, gPlanli>>

GEskiSonra(b) == IF b.acik THEN GAdim("anlik", "-", Yok) ELSE Bitti

\* cancelObsoleteJobsForTenant: the pending jobs with what is left to pay.
GEskiOku(a) ==
  LET b == [gIstek[a].bilgi EXCEPT !.isler = {k \in GAnahtar : gIs[k] # Yok /\ GBekler(gIs[k]) /\ ~gTaksit.borc}] IN
  /\ gIstek[a].adim = "eski"
  /\ GIlerlet(a, IF b.isler = {} THEN GEskiSonra(b) ELSE GAdim("eskiYaz", "-", b))
  /\ UNCHANGED <<gAyarlar, gIs, gSasan, gPlanli>>

\* Each of them by its id, whatever became of it meanwhile: a message that went out is shown as cancelled.
GEskiYaz(a) ==
  LET b == gIstek[a].bilgi IN
  /\ gIstek[a].adim = "eskiYaz"
  /\ \E k \in b.isler :
       /\ gIs' = [gIs EXCEPT ![k] = "IPTAL_EDILDI"]
       /\ GIlerlet(a, IF b.isler = {k} THEN GEskiSonra(b) ELSE GAdim("eskiYaz", "-", [b EXCEPT !.isler = @ \ {k}]))
  /\ UNCHANGED <<gAyarlar, gSasan, gPlanli>>

\* The instalments with their payments, cases and clients.
GPlanOku(a) ==
  /\ gIstek[a].adim = "anlik"
  /\ GIlerlet(a, GAdim("mod", "-", [uygun |-> GUstAcik /\ gTaksit.borc, vade |-> gTaksit.vade]))
  /\ UNCHANGED <<gAyarlar, gIs, gSasan, gPlanli>>

GPlanBiter(a) == GIlerlet(a, Bitti) /\ gPlanli' = (gPlanli \/ ~gIstek[a].bayat)

\* Its plan and flag, and evaluateAutoBildirimEligibility.
GPlanMod(a) ==
  /\ gIstek[a].adim = "mod"
  /\ IF GMod = "KAPALI" \/ ~gIstek[a].bilgi.uygun
     THEN GPlanBiter(a)
     ELSE GIlerlet(a, [gIstek[a] EXCEPT !.adim = "kural"]) /\ UNCHANGED gPlanli
  /\ UNCHANGED <<gAyarlar, gIs, gSasan>>

GPlanKural(a) ==
  LET bugun == {k \in GEtkin : GBugun(k, gIstek[a].bilgi.vade)} IN
  /\ gIstek[a].adim = "kural"
  /\ IF bugun = {} THEN GPlanBiter(a)
     ELSE GIlerlet(a, [gIstek[a] EXCEPT !.adim = "is", !.bilgi = bugun]) /\ UNCHANGED gPlanli
  /\ UNCHANGED <<gAyarlar, gIs, gSasan>>

\* createTaksitJobFromRule: a job that is there is left in its state.
GIsOlustur(a) ==
  LET r == gIstek[a] IN
  /\ r.adim = "is"
  /\ \E k \in r.bilgi :
       /\ gIs' = [gIs EXCEPT ![k] = IF @ = Yok THEN "PLANLANDI" ELSE @]
       /\ IF r.bilgi = {k} THEN GPlanBiter(a)
          ELSE GIlerlet(a, [r EXCEPT !.bilgi = @ \ {k}]) /\ UNCHANGED gPlanli
  /\ gSasan' = (gSasan \/ r.bayat) /\ UNCHANGED gAyarlar

(* A worker (processDueJobs). *)

GIsAl(a) ==
  /\ GGelir(a)
  /\ \E k \in GAnahtar :
       /\ gIs[k] # Yok /\ GBekler(gIs[k])
       /\ gIs' = [gIs EXCEPT ![k] = "KUYRUKTA"]
       /\ GIlerlet(a, GAdim("bak", "-", k))
  /\ UNCHANGED <<gAyarlar, gSasan, gPlanli>>

\* The job with its client, case and instalment; only a finished one is left.
GIsBak(a) ==
  LET k == gIstek[a].bilgi IN
  /\ gIstek[a].adim = "bak"
  /\ GIlerlet(a, IF gIs[k] = "GONDERILDI" THEN Bitti
                 ELSE [gIstek[a] EXCEPT !.adim = "karar",
                         !.bilgi = [is |-> k, izin |-> GUstAcik, borc |-> gTaksit.borc]])
  /\ UNCHANGED <<gAyarlar, gIs, gSasan, gPlanli>>

GIsKarar(a) ==
  LET r == gIstek[a]
      d == CASE ~gAcik["buro"] -> "PLANLANDI"
             [] gAcik["buro"] /\ ~(r.bilgi.izin /\ gAcik["taksit"]) -> "ATLANDI"
             [] gAcik["buro"] /\ r.bilgi.izin /\ gAcik["taksit"] /\ ~r.bilgi.borc -> "IPTAL_EDILDI"
             [] OTHER -> "GONDERILDI"
  IN
  /\ r.adim = "karar"
  /\ GIlerlet(a, [r EXCEPT !.adim = "sonuc", !.sonra = d])
  /\ UNCHANGED <<gAyarlar, gIs, gSasan, gPlanli>>

GIsSonuc(a) ==
  LET r == gIstek[a] IN
  /\ r.adim = "sonuc"
  /\ gIs' = [gIs EXCEPT ![r.bilgi.is] = r.sonra]
  /\ gSasan' = (gSasan \/ (r.bayat /\ r.sonra = "PLANLANDI"))
  /\ GIlerlet(a, Bitti) /\ UNCHANGED <<gAyarlar, gPlanli>>

\* A request is lost, or refused by the database.
GDuser(a) ==
  /\ gIstek[a] \notin {Bos, Bitti}
  /\ gSasan' = (gSasan \/ gIstek[a].adim \in {"kaldir", "kaydet", "sil", "ekle", "iptal", "odeme"})
  /\ GIlerlet(a, Bitti) /\ UNCHANGED <<gAyarlar, gIs, gPlanli>>

\* A day begins, before or after the first run of the planner.
BPlanInit ==
  /\ gAcik = [alan \in GAlan |-> TRUE] /\ gNo = 1
  /\ gKural \in GKurallar /\ \A k \in GKural : gKural[k].isGun = gKural[k].gun
  /\ gTaksit \in [vade : GVade, borc : {TRUE}]
  /\ gPlan \in {Yok} \cup [mod : {"OZEL"}, surum : {1}, no : {1}, kural : GTarifeler]
  /\ \/ gIs = [k \in GAnahtar |-> Yok] /\ gPlanli = FALSE
     \/ gIs = [k \in GAnahtar |-> IF k \in GEtkin /\ GBugun(k, gTaksit.vade) THEN "PLANLANDI" ELSE Yok] /\ gPlanli = TRUE
  /\ gIstek = [a \in GIstek |-> Bos] /\ gSasan = FALSE

BPlanNext ==
  \E a \in GIstek :
    \/ GSecenekOku(a) \/ GSecenekYaz(a) \/ GAyarYaz(a) \/ GKuralYaz(a)
    \/ GPlanIste(a) \/ GBayrakYaz(a) \/ GPlanKaldir(a) \/ GPlanKaydet(a) \/ GKuralSil(a) \/ GKuralEkle(a)
    \/ GBorcYaz(a) \/ GOdemeOku(a) \/ GVadeYaz(a) \/ GIptal(a)
    \/ GPlanla(a) \/ GPlanBasla(a) \/ GEskiOku(a) \/ GEskiYaz(a) \/ GPlanOku(a) \/ GPlanMod(a) \/ GPlanKural(a)
    \/ GIsOlustur(a) \/ GIsAl(a) \/ GIsBak(a) \/ GIsKarar(a) \/ GIsSonuc(a) \/ GDuser(a)

BPlanSpec == BPlanInit /\ [][BPlanNext]_bPlanVars

GAdimlar == {"yaz", "bayrak", "kaldir", "kaydet", "sil", "ekle", "odeme", "iptal", "plan", "eski", "eskiYaz", "anlik", "mod",
             "kural", "is", "bak", "karar", "sonuc"}

\* Switches, plan, jobs and requests keep their types.
BPlanTypeOK ==
  /\ gAcik \in [GAlan -> BOOLEAN] /\ gKural \in GKurallar /\ gNo \in Nat /\ gSasan \in BOOLEAN /\ gPlanli \in BOOLEAN
  /\ gTaksit \in [vade : GVade, borc : BOOLEAN]
  /\ gPlan \in {Yok} \cup [mod : {"VARSAYILAN", "OZEL"}, surum : 1..GSurum, no : 1..gNo, kural : GTarifeler]
  /\ gIs \in [GAnahtar -> GDurum \cup {Yok}]
  /\ \A a \in GIstek : gIstek[a] \notin {Bos, Bitti} => gIstek[a].adim \in GAdimlar /\ gIstek[a].bayat \in BOOLEAN

\* Due on the day its rule had when the job was made; updateRule may have moved the rule since.
GIsBugun(k) == gTaksit.vade = IF k.kaynak = "OZEL" THEN gPlan.kural[k.kural] ELSE gKural[k.kural].isGun

\* With nothing under way, a pending job is one the switches, the plan and the
\* debt still ask for, made for the due date there is, and once the planner has
\* seen them all, what the preview lists has its job; unless a request was lost
\* or was overtaken.
BPlanTutarli ==
  gSasan \/ (\E a \in GIstek : gIstek[a] \notin {Bos, Bitti}) \/
  (/\ \A k \in GAnahtar : gIs[k] # Yok /\ GBekler(gIs[k]) =>
        /\ GUstAcik /\ gTaksit.borc
        /\ k \in GEtkin \/ (GMod = "VARSAYILAN" /\ k.kaynak = "VARSAYILAN")
        /\ GIsBugun(k)
   /\ gPlanli => \A k \in GOnizleme : gIs[k] # Yok)
=============================================================================
