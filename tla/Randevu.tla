------------------------------ MODULE Randevu ------------------------------
(***************************************************************************)
(* Reminders of one appointment (randevu.service.ts, randevuBildirim.      *)
(* planner.ts, randevuBildirim.worker.ts).  A request writes the           *)
(* appointment or its plan and then plans again: it reads both, cancels    *)
(* the pending jobs, and creates a job under a key of the plan's kind and  *)
(* version, each a statement of its own.  Worker passes claim due jobs,    *)
(* charge, send and record the outcome by id.  One reminder per plan,      *)
(* automation on; a lost lock is one older than 15 minutes.                *)
(***************************************************************************)
EXTENDS Ortak

CONSTANTS RZaman, RSurum, RIstek, RKosu   \* times, plan versions, requests, passes

RAnahtar == {<<"VARSAYILAN", 1>>} \cup ({"OZEL"} \X RSurum)
Bekler  == {"PLANLANDI", "KUYRUKTA"}

VARIABLES
  simdi,
  randevu,   \* [aktif, an]: an is the time of the reminder
  rPlan,     \* [mode, v]: the plan row, v = 0 without one
  rIs,       \* per key, the job: [durum, an, kilit, ucret, mesaj]
  rIstek, rKosu,
  rSasan     \* history: keys an overlap, a lost request or a lost lock touched

randevuVars == <<simdi, randevu, rPlan, rIs, rIstek, rKosu, rSasan>>

\* Rows of an appointment, of its reminder plan and of a reminder.
RandevuSatiri == [aktif : BOOLEAN, an : RZaman]
RPlanSatiri == [mode : {"VARSAYILAN", "OZEL"}, v : RSurum \cup {0}]
RIsSatiri == [durum : Bekler \cup {"IPTAL_EDILDI", "ATLANDI", "GONDERILDI", "BASARISIZ"}, an : RZaman,
  kilit : BOOLEAN, ucret : {"yok", "alindi", "iade"}, mesaj : 0..2]

ASSUME RandevuVarsayimi ==
  RZaman \subseteq Nat \ {0} /\ RSurum \subseteq Nat \ {0} /\ RIstek \subseteq Nat /\ Yok \notin RIsSatiri

RandevuInit ==
  /\ simdi = 0 /\ randevu \in [aktif : {TRUE}, an : RZaman] /\ rPlan = [mode |-> "VARSAYILAN", v |-> 0]
  /\ rIs = [k \in RAnahtar |-> Yok] /\ rSasan = {}
  /\ rIstek = [i \in RIstek |-> Bos] /\ rKosu = [w \in RKosu |-> Bos]

RZamanGecer ==
  /\ simdi + 1 \in RZaman /\ simdi' = simdi + 1
  /\ UNCHANGED <<randevu, rPlan, rIs, rIstek, rKosu, rSasan>>

RIlerlet(i, k) == rIstek' = [rIstek EXCEPT ![i] = k]
Planla == [adim |-> "planla", bayat |-> FALSE]
RYazdi(i, k) == i \in Ilk({j \in RIstek : rIstek[j] = Bos}) /\ randevu.aktif /\ rIstek' = Bayatlat(rIstek, i, k)

\* createRandevu, updateRandevu.
RandevuYaz(i) ==
  /\ RYazdi(i, Planla)
  /\ \E t \in RZaman : randevu' = [randevu EXCEPT !.an = t]
  /\ UNCHANGED <<simdi, rPlan, rIs, rKosu, rSasan>>

\* setRandevuHatirlatmaPlan: KAPALI deletes the row.
PlanYaz(i) ==
  /\ RYazdi(i, Planla)
  /\ \/ rPlan' = [mode |-> "VARSAYILAN", v |-> 0]
     \/ rPlan.v + 1 \in RSurum /\ \E y \in {"VARSAYILAN", "OZEL"} : rPlan' = [mode |-> y, v |-> rPlan.v + 1]
  /\ UNCHANGED <<simdi, randevu, rIs, rKosu, rSasan>>

\* deactivateRandevu.
RandevuKapat(i) ==
  /\ RYazdi(i, [adim |-> "iptal", bayat |-> FALSE])
  /\ randevu' = [randevu EXCEPT !.aktif = FALSE]
  /\ UNCHANGED <<simdi, rPlan, rIs, rKosu, rSasan>>

\* The client may have no consent now: her jobs are only cancelled.
RandevuOku(i) ==
  /\ rIstek[i].adim = "planla"
  /\ \/ randevu.aktif /\ RIlerlet(i, [adim |-> "plan", an |-> randevu.an, bayat |-> FALSE])
     \/ RIlerlet(i, [adim |-> "iptal", bayat |-> FALSE])
  /\ UNCHANGED <<simdi, randevu, rPlan, rIs, rKosu, rSasan>>

PlanOku(i) ==
  /\ rIstek[i].adim = "plan"
  /\ RIlerlet(i, [adim |-> "degistir", an |-> rIstek[i].an, bayat |-> rIstek[i].bayat,
                  k |-> IF rPlan.mode = "OZEL" THEN <<"OZEL", rPlan.v>> ELSE <<"VARSAYILAN", 1>>])
  /\ UNCHANGED <<simdi, randevu, rPlan, rIs, rKosu, rSasan>>

Bekleyenler == {k \in RAnahtar : rIs[k] # Yok /\ rIs[k].durum \in Bekler}

RIptalMutant ==   \* mutant: jobs a worker holds are not cancelled
  rIs' = [k \in RAnahtar |-> IF k \in Bekleyenler /\ ~rIs[k].kilit
                            THEN [rIs[k] EXCEPT !.durum = "IPTAL_EDILDI", !.kilit = FALSE] ELSE rIs[k]]

\* cancelPendingRandevuJobs.
RIptal ==
  rIs' = [k \in RAnahtar |-> IF k \in Bekleyenler
                            THEN [rIs[k] EXCEPT !.durum = "IPTAL_EDILDI", !.kilit = FALSE] ELSE rIs[k]]

RIptalEt(i) ==
  /\ rIstek[i].adim = "iptal" /\ RIptal /\ RIlerlet(i, Bitti)
  /\ UNCHANGED <<simdi, randevu, rPlan, rKosu, rSasan>>

RDegistir(i) ==
  LET r == rIstek[i] IN
  /\ r.adim = "degistir" /\ RIptal
  /\ RIlerlet(i, [adim |-> "olustur", an |-> r.an, bayat |-> r.bayat, k |-> r.k, vardi |-> r.k \in Bekleyenler])
  /\ UNCHANGED <<simdi, randevu, rPlan, rKosu, rSasan>>

\* A job whose time has passed is not created.  Under an existing key (P2002)
\* only a pending job gets the new time, and its lock is cleared.
ROlustur(i) ==
  LET r == rIstek[i]  k == r.k IN
  /\ r.adim = "olustur" /\ RIlerlet(i, Bitti)
  /\ IF r.an <= simdi \/ (rIs[k] # Yok /\ k \notin Bekleyenler) THEN UNCHANGED <<rIs, rSasan>>
     ELSE /\ rIs' = [rIs EXCEPT ![k] =
                IF @ = Yok THEN [durum |-> "PLANLANDI", an |-> r.an, kilit |-> FALSE, ucret |-> "yok", mesaj |-> 0]
                ELSE [@ EXCEPT !.an = r.an, !.kilit = FALSE]]
          /\ rSasan' = IF r.bayat \/ rIs[k] # Yok THEN rSasan \cup {k} ELSE rSasan
  /\ UNCHANGED <<simdi, randevu, rPlan, rKosu>>

\* Lost between two statements: what is pending is of an older plan or time.
RDuser(i) ==
  /\ rIstek[i] \notin {Bos, Bitti} /\ RIlerlet(i, Bitti)
  /\ rSasan' = RAnahtar
  /\ UNCHANGED <<simdi, randevu, rPlan, rIs, rKosu>>

RAlinir(k) == k \in Bekleyenler /\ rIs[k].an <= simdi /\ ~rIs[k].kilit

\* claimDueRandevuJobs.
KosuAl(w) ==
  LET S == {k \in RAnahtar : RAlinir(k)} IN
  /\ rKosu[w] = Bos /\ S # {}
  /\ rIs' = [k \in RAnahtar |-> IF k \in S THEN [rIs[k] EXCEPT !.durum = "KUYRUKTA", !.kilit = TRUE] ELSE rIs[k]]
  /\ rKosu' = [rKosu EXCEPT ![w] = [adim |-> "oku", isler |-> S]]
  /\ UNCHANGED <<simdi, randevu, rPlan, rIstek, rSasan>>

KilitDolar(k) ==
  /\ rIs[k] # Yok /\ rIs[k].kilit
  /\ rIs' = [rIs EXCEPT ![k].kilit = FALSE] /\ rSasan' = rSasan \cup {k}
  /\ UNCHANGED <<simdi, randevu, rPlan, rIstek, rKosu>>

Kalanlar(w, k) == rKosu[w].isler \ {k}
RKosuIlerlet(w, a, k, S) == rKosu' = [rKosu EXCEPT ![w] = [adim |-> a, k |-> k, isler |-> S]]
KosuSon(w, S) == rKosu' = [rKosu EXCEPT ![w] = IF S = {} THEN Bitti ELSE [adim |-> "oku", isler |-> S]]

\* processDueRandevuJobs, one job: a job of a cancelled appointment keeps its
\* lock; only a sent one is passed over.  Not connected or without credit it
\* is put back, without consent, phone or template skipped.
KosuOku(w) ==
  /\ rKosu[w].adim = "oku"
  /\ \E k \in rKosu[w].isler :
       IF ~randevu.aktif THEN KosuSon(w, Kalanlar(w, k)) /\ UNCHANGED rIs
       ELSE IF rIs[k].durum = "GONDERILDI"
       THEN KosuSon(w, Kalanlar(w, k)) /\ rIs' = [rIs EXCEPT ![k].kilit = FALSE]
       ELSE /\ \E a \in {"PLANLANDI", "ATLANDI", "ucret"} : RKosuIlerlet(w, a, k, Kalanlar(w, k))
            /\ UNCHANGED rIs
  /\ UNCHANGED <<simdi, randevu, rPlan, rIstek, rSasan>>

\* consumeForJob: once per job, whether refunded since or not.
KosuUcret(w) ==
  LET k == rKosu[w].k IN
  /\ rKosu[w].adim = "ucret" /\ RKosuIlerlet(w, "gonder", k, rKosu[w].isler)
  /\ rIs' = [rIs EXCEPT ![k].ucret = IF @ = "yok" THEN "alindi" ELSE @]
  /\ UNCHANGED <<simdi, randevu, rPlan, rIstek, rSasan>>

\* provider.send; refundForJob when it is refused.
KosuGonder(w) ==
  LET k == rKosu[w].k IN
  /\ rKosu[w].adim = "gonder"
  /\ \/ rIs[k].mesaj < 2 /\ rIs' = [rIs EXCEPT ![k].mesaj = @ + 1] /\ RKosuIlerlet(w, "GONDERILDI", k, rKosu[w].isler)
     \/ rIs' = [rIs EXCEPT ![k].ucret = "iade"] /\ RKosuIlerlet(w, "BASARISIZ", k, rKosu[w].isler)
  /\ UNCHANGED <<simdi, randevu, rPlan, rIstek, rSasan>>

\* The outcome is written by id: a job cancelled meanwhile may be put back.
KosuYaz(w) ==
  LET k == rKosu[w].k  d == rKosu[w].adim IN
  /\ d \in {"PLANLANDI", "ATLANDI", "GONDERILDI", "BASARISIZ"} /\ KosuSon(w, rKosu[w].isler)
  /\ rIs' = [rIs EXCEPT ![k].durum = d, ![k].kilit = FALSE]
  /\ rSasan' = IF d = "PLANLANDI" /\ rIs[k].durum # "KUYRUKTA" THEN rSasan \cup {k} ELSE rSasan
  /\ UNCHANGED <<simdi, randevu, rPlan, rIstek>>

RandevuNext ==
  \/ RZamanGecer
  \/ \E i \in RIstek : \/ RandevuYaz(i) \/ PlanYaz(i) \/ RandevuKapat(i) \/ RandevuOku(i) \/ PlanOku(i)
                       \/ RIptalEt(i) \/ RDegistir(i) \/ ROlustur(i) \/ RDuser(i)
  \/ \E k \in RAnahtar : KilitDolar(k)
  \/ \E w \in RKosu : KosuAl(w) \/ KosuOku(w) \/ KosuUcret(w) \/ KosuGonder(w) \/ KosuYaz(w)

RandevuSpec == RandevuInit /\ [][RandevuNext]_randevuVars

-----------------------------------------------------------------------------
(* Properties *)

\* The type invariant of appointments.
RandevuTypeOK ==
  /\ simdi \in Nat /\ randevu \in RandevuSatiri
  /\ rPlan \in RPlanSatiri
  /\ \A k \in RAnahtar : rIs[k] # Yok => rIs[k] \in
       RIsSatiri
  /\ rSasan \subseteq RAnahtar

\* Once every request is answered, a waiting reminder is of a live
\* appointment, at its time and of its plan, and no reminder is sent twice or
\* for a refunded credit, unless planners overlapped, a request was lost half
\* way, a worker put back a job cancelled meanwhile, or a lock was lost
\* (randevuBildirim.planner.ts:102, randevuBildirim.worker.ts:177, :270).
RandevuTutarli ==
  \A k \in RAnahtar \ rSasan : rIs[k] # Yok =>
    /\ rIs[k].durum = "PLANLANDI" /\ (\A i \in RIstek : rIstek[i] \in {Bos, Bitti}) =>
         /\ randevu.aktif /\ rIs[k].an = randevu.an
         /\ k = IF rPlan.mode = "OZEL" THEN <<"OZEL", rPlan.v>> ELSE <<"VARSAYILAN", 1>>
    /\ rIs[k].mesaj <= 1 /\ ~(rIs[k].mesaj = 1 /\ rIs[k].ucret = "iade")

\* The planner's comment (randevuBildirim.planner.ts:154): under an existing
\* key the waiting job gets the new time.
YenidenPlanlamaKorur ==
  [][\A i \in RIstek :
       ROlustur(i) /\ ~rIstek[i].bayat /\ rIstek[i].vardi /\ rIstek[i].an > simdi =>
         rIs'[rIstek[i].k].durum \in Bekler /\ rIs'[rIstek[i].k].an = rIstek[i].an]_randevuVars
=============================================================================
