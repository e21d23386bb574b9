-------------------------- MODULE TahsilatBildirim --------------------------
(***************************************************************************)
(* Automatic collection reminders over WhatsApp: the planner that creates  *)
(* a job per instalment and rule (planner.service.ts), the workers that    *)
(* claim and process due jobs (worker.service.ts), the services that       *)
(* cancel pending ones (sync.service.ts, eligibility.service.ts), and the  *)
(* credit wallet they charge.  A cron run plans and then processes; runs   *)
(* overlap, and every payment makes the API process plan as well.          *)
(*                                                                         *)
(* A worker holds a job by a lock column that expires after 15 minutes and *)
(* that later statements never look at: every update names the id only.    *)
(* Time is an abstract clock: the jobs fall due one after another, and the *)
(* fifteen minutes of a lock may pass at any moment.                       *)
(***************************************************************************)
EXTENDS WhatsAppMesajKredi

CONSTANTS
  Isci,          \* runs of processDueJobs that may overlap
  Planci,        \* concurrent calls of planJobsForTenant
  PlanlananAt,   \* job -> when it is due; claims take the oldest first
  BagliIs,       \* jobs of offices with a connected Cloud API account
  Limit,         \* jobs one run claims at most
  YavasIsci,     \* may a live worker hold a job for more than 15 minutes?
  MaxOlay        \* bound: crashes, cancellations and changes of settings or debts

ASSUME BildirimVarsayimi ==
  /\ Isci \subseteq Cagiran
  /\ PlanlananAt \in [Is -> Nat]
  /\ BagliIs \subseteq Is
  /\ Limit \in Nat \ {0}
  /\ YavasIsci \in BOOLEAN
  /\ MaxOlay \in Nat

VARIABLES
  durum,      \* tahsilat_bildirim_isi.durum; "YOK": no row with this idempotency key
  kilit,      \* locked_at: null, younger or older than 15 minutes
  borcAcik,   \* does the job's instalment still have a remainder?
  otomasyon,  \* tahsilat_bildirim_ayar.otomasyonAktif
  gonderim,   \* messages Meta accepted for the job; 2 stands for several
  saat,       \* the clock: jobs with planlanan_at <= saat are due
  kaybolan,   \* history: jobs whose lock expired or was cleared by the planner
  isci, planci, olay

satir == <<durum, kilit>>
dunya == <<borcAcik, otomasyon, saat>>
gozlem == <<gonderim, kaybolan>>
bildirimVars == <<satir, dunya, gozlem, isci, planci, olay>>
vars == <<krediVars, bildirimVars>>

-----------------------------------------------------------------------------
(* Types *)

Bekleyen == {"PLANLANDI", "KUYRUKTA"}
Durum == Bekleyen \cup {"YOK", "GONDERILDI", "BASARISIZ", "ATLANDI", "IPTAL_EDILDI"}
Karar == (Durum \ {"YOK", "KUYRUKTA"}) \cup {"KILIT_AC", "GONDER", "-"}

BosIsci == [adim |-> "bosta", is |-> Yok, parti |-> {}, karar |-> "-"]
BosPlanci == [adim |-> "bosta", acik |-> FALSE, isler |-> {}]

BildirimTypeOK ==
  /\ durum \in [Is -> Durum]
  /\ kilit \in [Is -> {"yok", "taze", "bayat"}]
  /\ borcAcik \in [Is -> BOOLEAN]
  /\ otomasyon \in BOOLEAN
  /\ gonderim \in [Is -> 0..2]
  /\ kaybolan \subseteq Is
  /\ saat \in Nat
  /\ isci \in [Isci -> [adim : {"bosta", "oku", "tuket", "gonder", "iade", "iadede", "yaz"},
                        is : Is \cup {Yok}, parti : SUBSET Is, karar : Karar]]
  /\ planci \in [Planci -> [adim : {"bosta", "iptal", "plan"}, acik : BOOLEAN,
                            isler : SUBSET Is]]
  /\ olay \in 0..MaxOlay

TypeOK == KrediTypeOK /\ BildirimTypeOK

\* A disturbance from outside; TLC needs a bound on them.
Olay == olay < MaxOlay /\ olay' = olay + 1

-----------------------------------------------------------------------------
(* The worker: processDueJobs *)

\* The WHERE clause of claimDueJobs.
AlinabilirMutant1(j) ==   \* mutant: the lock is not looked at
  durum[j] \in Bekleyen /\ PlanlananAt[j] <= saat
AlinabilirMutant2(j) ==   \* mutant: only rows never claimed before
  durum[j] = "PLANLANDI" /\ PlanlananAt[j] <= saat /\ kilit[j] # "taze"
AlinabilirMutant3(j) ==   \* mutant: "locked_at IS NULL OR" is missing
  durum[j] \in Bekleyen /\ PlanlananAt[j] <= saat /\ kilit[j] = "bayat"
Alinabilir(j) ==
  durum[j] \in Bekleyen /\ PlanlananAt[j] <= saat /\ kilit[j] # "taze"

\* The batches ORDER BY planlanan_at LIMIT can return.
Partiler ==
  LET hepsi == {j \in Is : Alinabilir(j)} IN
  {p \in SUBSET hepsi : /\ Cardinality(p) = Limit \/ (p = hepsi /\ Cardinality(p) < Limit)
                        /\ \A x \in p, y \in hepsi \ p : PlanlananAt[x] <= PlanlananAt[y]}

\* The loop over the claimed ids, in the order they were selected.
Sirada(p) == CHOOSE x \in p : \A y \in p : PlanlananAt[x] <= PlanlananAt[y]
SiradakiIs(p) ==
  IF p = {} THEN BosIsci
  ELSE [adim |-> "oku", is |-> Sirada(p), parti |-> p \ {Sirada(p)}, karar |-> "-"]

ClaimDueJobs(w, p) ==
  /\ isci[w] = BosIsci
  /\ p \in Partiler /\ p # {}
  /\ durum' = [j \in Is |-> IF j \in p THEN "KUYRUKTA" ELSE durum[j]]
  /\ kilit' = [j \in Is |-> IF j \in p THEN "taze" ELSE kilit[j]]
  /\ isci' = [isci EXCEPT ![w] = SiradakiIs(p)]
  /\ UNCHANGED <<dunya, gozlem, planci, olay, krediVars>>

\* What the reads at the top of the loop can lead to.  ATLANDI stands for a
\* missing consent, phone, template or template variable.  A job that was
\* cancelled, skipped or has failed in the meantime is processed all the same.
Kararlar(j) ==
  CASE durum[j] = "GONDERILDI" -> {"KILIT_AC"}
    [] durum[j] # "GONDERILDI" /\ ~otomasyon -> {"PLANLANDI"}
    [] OTHER -> {"ATLANDI", IF ~borcAcik[j] THEN "IPTAL_EDILDI"
                            ELSE IF j \in BagliIs THEN "GONDER" ELSE "PLANLANDI"}

IsiOku(w) ==
  /\ isci[w].adim = "oku"
  /\ \E k \in Kararlar(isci[w].is) :
       isci' = [isci EXCEPT ![w].adim = IF k = "GONDER" THEN "tuket" ELSE "yaz",
                            ![w].karar = k]
  /\ UNCHANGED <<satir, dunya, gozlem, planci, olay, krediVars>>

Ilerle(w, adim, karar) == isci' = [isci EXCEPT ![w].adim = adim, ![w].karar = karar]

\* consumeForJob; without credit the job goes back to PLANLANDI.
TuketMutant(w) ==   \* mutant: a refused charge does not stop the send
  /\ isci[w].adim = "tuket"
  /\ \/ ConsumeForJob(isci[w].is)
     \/ /\ Kayitli("MESAJ_GONDERIM", isci[w].is) \/ ~BakiyeYeter
        /\ UNCHANGED <<bakiye, defter>>
  /\ Ilerle(w, "gonder", "GONDER")
  /\ UNCHANGED <<satir, dunya, gozlem, planci, olay, cagri>>
Tuket(w) ==
  /\ isci[w].adim = "tuket"
  /\ \/ /\ ConsumeForJob(isci[w].is)
        /\ Ilerle(w, "gonder", "GONDER")
     \/ /\ Kayitli("MESAJ_GONDERIM", isci[w].is)
        /\ Ilerle(w, "gonder", "GONDER")
        /\ UNCHANGED <<bakiye, defter>>
     \/ /\ ~Kayitli("MESAJ_GONDERIM", isci[w].is)
        /\ ~BakiyeYeter
        /\ Ilerle(w, "yaz", "PLANLANDI")
        /\ UNCHANGED <<bakiye, defter>>
  /\ UNCHANGED <<satir, dunya, gozlem, planci, olay, cagri>>

\* provider.send.  Meta accepts or refuses; an accepted request whose answer
\* is lost looks like a refusal.
MesajKabul(j) == gonderim' = [gonderim EXCEPT ![j] = IF @ = 2 THEN 2 ELSE @ + 1]
GonderMutant(w) ==   \* mutant: the answer is not looked at
  /\ isci[w].adim = "gonder"
  /\ MesajKabul(isci[w].is) \/ UNCHANGED gonderim
  /\ Ilerle(w, "yaz", "GONDERILDI")
  /\ UNCHANGED <<satir, dunya, kaybolan, planci, olay, krediVars>>
Gonder(w) ==
  /\ isci[w].adim = "gonder"
  /\ \/ MesajKabul(isci[w].is) /\ Ilerle(w, "yaz", "GONDERILDI")
     \/ MesajKabul(isci[w].is) /\ Ilerle(w, "iade", "BASARISIZ")
     \/ UNCHANGED gonderim /\ Ilerle(w, "iade", "BASARISIZ")
  /\ UNCHANGED <<satir, dunya, kaybolan, planci, olay, krediVars>>

\* refundForJob, called by the worker: the wallet's own steps, then BASARISIZ.
IadeBasla(w) ==
  /\ isci[w].adim = "iade"
  /\ \/ RefundForJob(w, isci[w].is) /\ Ilerle(w, "iadede", "BASARISIZ")
     \/ /\ Kayitli("IADE", isci[w].is)
        /\ Ilerle(w, "yaz", "BASARISIZ")
        /\ UNCHANGED krediVars
  /\ UNCHANGED <<satir, dunya, gozlem, planci, olay>>

IadeIlerle(w) ==
  /\ isci[w].adim = "iadede"
  /\ RefundTuketim(w) \/ KilitliYaz(w)
  /\ IF cagri'[w] = Bosta THEN Ilerle(w, "yaz", "BASARISIZ") ELSE UNCHANGED isci
  /\ UNCHANGED <<satir, dunya, gozlem, planci, olay>>

\* The update that ends the iteration.  It names the id only, and it clears
\* the lock whoever holds it by now.
IsYazMutant(w) ==   \* mutant: the column gets the decision, not the status
  /\ isci[w].adim = "yaz"
  /\ durum' = [durum EXCEPT ![isci[w].is] = isci[w].karar]
  /\ kilit' = [kilit EXCEPT ![isci[w].is] = "yok"]
  /\ isci' = [isci EXCEPT ![w] = SiradakiIs(isci[w].parti)]
  /\ UNCHANGED <<dunya, gozlem, planci, olay, krediVars>>
IsYaz(w) ==
  /\ isci[w].adim = "yaz"
  /\ durum' = IF isci[w].karar = "KILIT_AC" THEN durum
              ELSE [durum EXCEPT ![isci[w].is] = isci[w].karar]
  /\ kilit' = [kilit EXCEPT ![isci[w].is] = "yok"]
  /\ isci' = [isci EXCEPT ![w] = SiradakiIs(isci[w].parti)]
  /\ UNCHANGED <<dunya, gozlem, planci, olay, krediVars>>

\* The process dies, or a statement throws and ends the batch: the rows stay
\* KUYRUKTA and locked.
IsciCoker(w) ==
  /\ isci[w] # BosIsci
  /\ Olay
  /\ isci' = [isci EXCEPT ![w] = BosIsci]
  /\ cagri' = [cagri EXCEPT ![w] = Bosta]
  /\ UNCHANGED <<satir, dunya, gozlem, planci, bakiye, defter>>

IsciAdimi(w) ==
  \/ IsiOku(w) \/ Tuket(w) \/ Gonder(w) \/ IadeBasla(w) \/ IadeIlerle(w) \/ IsYaz(w)

\* Fifteen minutes pass.  Unless YavasIsci only for a job no live worker holds.
Elinde(w, j) == isci[w] # BosIsci /\ (isci[w].is = j \/ j \in isci[w].parti)
KilitBayatlar(j) ==
  /\ kilit[j] = "taze"
  /\ YavasIsci \/ \A w \in Isci : ~Elinde(w, j)
  /\ kilit' = [kilit EXCEPT ![j] = "bayat"]
  /\ kaybolan' = kaybolan \cup {j}
  /\ UNCHANGED <<dunya, durum, gonderim, isci, planci, olay, krediVars>>

-----------------------------------------------------------------------------
(* The planner: planJobsForTenant *)

\* The settings row, and the pending jobs whose instalment is closed.
PlanBasla(p) ==
  /\ planci[p] = BosPlanci
  /\ planci' = [planci EXCEPT ![p] =
       [adim |-> "iptal", acik |-> otomasyon,
        isler |-> {j \in Is : durum[j] \in Bekleyen /\ ~borcAcik[j]}]]
  /\ UNCHANGED <<satir, dunya, gozlem, isci, olay, krediVars>>

\* cancelObsoleteJobsForTenant updates each of them by id.
PlanIptal(p, j) ==
  /\ planci[p].adim = "iptal"
  /\ j \in planci[p].isler
  /\ durum' = [durum EXCEPT ![j] = "IPTAL_EDILDI"]
  /\ kilit' = [kilit EXCEPT ![j] = "yok"]
  /\ planci' = [planci EXCEPT ![p].isler = @ \ {j}]
  /\ UNCHANGED <<dunya, gozlem, isci, olay, krediVars>>

\* The instalments that are open now.
PlanOku(p) ==
  /\ planci[p].adim = "iptal"
  /\ planci[p].isler = {}
  /\ planci' = [planci EXCEPT ![p].adim = "plan",
       ![p].isler = IF planci[p].acik THEN {j \in Is : borcAcik[j]} ELSE {}]
  /\ UNCHANGED <<satir, dunya, gozlem, isci, olay, krediVars>>

\* createTaksitJobFromRule: insert; when the idempotency key exists (P2002)
\* the pending job gets its hour again AND loses its lock.
IsOlustur(p, j) ==
  /\ planci[p].adim = "plan"
  /\ j \in planci[p].isler
  /\ IF durum[j] = "YOK"
     THEN /\ durum' = [durum EXCEPT ![j] = "PLANLANDI"]
          /\ UNCHANGED <<kilit, kaybolan>>
     ELSE /\ kilit' = IF durum[j] \in Bekleyen THEN [kilit EXCEPT ![j] = "yok"] ELSE kilit
          /\ kaybolan' = IF durum[j] \in Bekleyen /\ kilit[j] # "yok"
                         THEN kaybolan \cup {j} ELSE kaybolan
          /\ UNCHANGED durum
  /\ planci' = [planci EXCEPT ![p].isler = @ \ {j}]
  /\ UNCHANGED <<dunya, gonderim, isci, olay, krediVars>>

\* Done, or dead on the way: nothing of a plan is kept outside the rows.
PlanBiter(p) ==
  /\ planci[p] # BosPlanci
  /\ planci' = [planci EXCEPT ![p] = BosPlanci]
  /\ UNCHANGED <<satir, dunya, gozlem, isci, olay, krediVars>>

-----------------------------------------------------------------------------
(* The rest of the system *)

\* onTaksitVadeChanged, onTaksitOdemeChanged, a consent or plan switched off,
\* a WhatsApp account disconnected: one conditional updateMany.
BekleyenIptal(j) ==
  /\ Olay
  /\ durum[j] \in Bekleyen
  /\ durum' = [durum EXCEPT ![j] = "IPTAL_EDILDI"]
  /\ kilit' = [kilit EXCEPT ![j] = "yok"]
  /\ UNCHANGED <<dunya, gozlem, isci, planci, krediVars>>

\* A payment closes the instalment; deleting it opens the instalment again.
BorcDegisir(j) ==
  /\ Olay
  /\ borcAcik' = [borcAcik EXCEPT ![j] = ~@]
  /\ UNCHANGED <<satir, gozlem, otomasyon, saat, isci, planci, krediVars>>

\* The next planned moment is reached.
SaatIlerler ==
  /\ \E j \in Is : PlanlananAt[j] > saat
  /\ saat' = saat + 1
  /\ UNCHANGED <<satir, gozlem, borcAcik, otomasyon, isci, planci, olay, krediVars>>

OtomasyonDegisir ==
  /\ Olay
  /\ otomasyon' = ~otomasyon
  /\ UNCHANGED <<satir, gozlem, borcAcik, saat, isci, planci, krediVars>>

\* The other callers of the wallet: licence grants and corrections.
KrediHareketi ==
  /\ \/ ManuelDus
     \/ \E c \in Cagiran \ Isci :
          ManuelEkle(c) \/ GrantAnnual(c) \/ KilitliYaz(c) \/ CagriDuser(c)
  /\ UNCHANGED bildirimVars

Init ==
  /\ KrediInit
  /\ durum = [j \in Is |-> "YOK"]
  /\ kilit = [j \in Is |-> "yok"]
  /\ borcAcik = [j \in Is |-> TRUE]
  /\ otomasyon = TRUE
  /\ gonderim = [j \in Is |-> 0]
  /\ kaybolan = {}
  /\ saat = 0
  /\ isci = [w \in Isci |-> BosIsci]
  /\ planci = [p \in Planci |-> BosPlanci]
  /\ olay = 0

Next ==
  \/ \E w \in Isci : \/ \E p \in SUBSET Is : ClaimDueJobs(w, p)
                     \/ IsciAdimi(w)
                     \/ IsciCoker(w)
  \/ \E p \in Planci : \/ PlanBasla(p) \/ PlanOku(p) \/ PlanBiter(p)
                       \/ \E j \in Is : PlanIptal(p, j) \/ IsOlustur(p, j)
  \/ \E j \in Is : KilitBayatlar(j) \/ BekleyenIptal(j) \/ BorcDegisir(j)
  \/ SaatIlerler
  \/ OtomasyonDegisir
  \/ KrediHareketi

Spec == Init /\ [][Next]_vars

(* Cron starts a run every five minutes, a live worker keeps going, and    *)
(* the clock moves on.                                                     *)
Adalet ==
  /\ \A w \in Isci : /\ WF_vars(\E p \in SUBSET Is : ClaimDueJobs(w, p))
                     /\ WF_vars(IsciAdimi(w))
  /\ \A j \in Is : WF_vars(KilitBayatlar(j))
  /\ WF_vars(SaatIlerler)

FairSpec == Spec /\ Adalet

-----------------------------------------------------------------------------
(* Properties *)

(* No automatic message leaves without its charge: whatever overtakes a    *)
(* worker between the claim and the send, a message Meta accepted belongs  *)
(* to a job with a MESAJ_GONDERIM movement (lines 566-582).                *)
OtomatikMesajKredili ==
  \A j \in Is : gonderim[j] > 0 => Kayitli("MESAJ_GONDERIM", j)

(* The lock does its work as long as nobody takes it away: a customer gets *)
(* a reminder twice only if the job's lock expired or was cleared by the   *)
(* planner, never by two claims of overlapping runs (lines 111-155).       *)
CiftMesajKilitKaybindan ==
  \A j \in Is : gonderim[j] > 1 => j \in kaybolan

(* A failed job was refunded before it was marked, crashes included        *)
(* (lines 638-675).                                                        *)
BasarisizIadeli ==
  \A j \in Is : durum[j] = "BASARISIZ" => Kayitli("IADE", j)

(* The screen does not claim a message that Meta never accepted.           *)
GonderildiDogru ==
  \A j \in Is : durum[j] = "GONDERILDI" => gonderim[j] > 0

(* What a finished job says is true of the wallet and of Meta.             *)
BitenIsDogru == BasarisizIadeli /\ GonderildiDogru

(* A claimed job does not stay in the queue for ever: the worker decides   *)
(* it, or it crashes, the lock expires and another run takes it.           *)
KuyruktaKalmaz ==
  \A j \in Is : durum[j] = "KUYRUKTA" ~> durum[j] # "KUYRUKTA"

(* "ikinci mesaj olusturma" (planner.service.ts:230), "Ayni islerin        *)
(* tekrari: mevcut idempotencyKey + job lock"                              *)
(* (docs/whatsapp-automation-cron.md:36): one message per job.             *)
TekMesaj == \A j \in Is : gonderim[j] <= 1

(* "tahsilat kurallari ... planlanir/gonderilir"                           *)
(* (docs/whatsapp-automation-cron.md:33): a planned job of a connected     *)
(* office is taken up.                                                     *)
PlanlananIslenir ==
  \A j \in BagliIs : durum[j] = "PLANLANDI" ~> durum[j] # "PLANLANDI"
=============================================================================
