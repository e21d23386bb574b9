----------------------------- MODULE VekaletPlan -----------------------------
(***************************************************************************)
(* The fee of one file and how it is put into instalments (vekalet.        *)
(* service.ts, vekaletParaBirimi.ts).  Creating the fee or instalments and *)
(* editing either reads the fee, the instalments and the payments first    *)
(* and writes later, without a lock; a payment is decided under the lock   *)
(* of its instalment.  Amounts are small integers.  The numbers of         *)
(* instalments are left out (a number that is taken refuses the request);  *)
(* cancelling the fee, and what a payment does besides, are in             *)
(* VekaletTaksit.                                                          *)
(***************************************************************************)
EXTENDS Ortak, FiniteSetsExt

CONSTANTS VTutar, VPara, VTaksit, VOdeme, VIstek   \* amounts, currencies, instalments, payments, requests

\* Rows of a fee, of its instalments and of payments.
VUcretSatiri == [toplam : VTutar, pb : VPara]
VTaksitSatiri == [tutar : Nat, pb : VPara, iptal : BOOLEAN, odendi : BOOLEAN]
VOdemeSatiri == [t : VTaksit, tutar : VTutar, pb : VPara, iptal : BOOLEAN]

ASSUME VekaletPlanVarsayimi ==
  /\ VTutar \subseteq Nat \ {0} /\ VTaksit \subseteq Nat /\ IsFiniteSet(VTaksit)
  /\ VOdeme \subseteq Nat /\ IsFiniteSet(VOdeme) /\ VIstek \subseteq Nat
  /\ Yok \notin VUcretSatiri \cup VTaksitSatiri \cup VOdemeSatiri

VARIABLES
  vUcret,    \* the active fee: [toplam, pb]
  vTaksit,   \* per id, the instalment: [tutar, pb, iptal, odendi]; odendi: odemeDurumu was ODENDI when last derived
  vOdeme,    \* per id, the payment: [t, tutar, pb, iptal]
  vIstek,
  vAsan,     \* history: an amount nobody compares with the fee went beyond it
  vSasan     \* history: a write on stale reads

planVars == <<vUcret, vTaksit, vOdeme, vIstek, vAsan, vSasan>>

PlanInit ==
  /\ vUcret = Yok /\ vTaksit = [t \in VTaksit |-> Yok] /\ vOdeme = [o \in VOdeme |-> Yok]
  /\ vIstek = [a \in VIstek |-> Bos] /\ vAsan = FALSE /\ vSasan = FALSE

VBos == {t \in VTaksit : vTaksit[t] = Yok}
VCanli == {t \in VTaksit : vTaksit[t] # Yok /\ ~vTaksit[t].iptal}
VAktif == {o \in VOdeme : vOdeme[o] # Yok /\ ~vOdeme[o].iptal}
VOdenen(S) == MapThenSumSet(LAMBDA o : vOdeme[o].tutar, S)
VOdemeleri(t) == {o \in VOdeme : vOdeme[o] # Yok /\ vOdeme[o].t = t}
VTaksitToplami(taksit) ==
  MapThenSumSet(LAMBDA t : taksit[t].tutar, {t \in VTaksit : taksit[t] # Yok /\ ~taksit[t].iptal})
VAsilir(ucret, taksit) == VTaksitToplami(taksit) > ucret.toplam

\* kalanTaksitlendirmeTutari.
VKalanPlan == Max({0, vUcret.toplam - VTaksitToplami(vTaksit)})
\* kalanVekaletTutari: cancelled payments count, cancelled instalments do not.
VKalanVekalet == Max({0, vUcret.toplam - VOdenen({o \in VOdeme : vOdeme[o] # Yok /\ vOdeme[o].t \in VCanli})})

VGelir(a, k) ==
  /\ a \in Ilk({b \in VIstek : vIstek[b] = Bos}) /\ vUcret # Yok
  /\ vIstek' = [vIstek EXCEPT ![a] = k] /\ UNCHANGED <<vUcret, vTaksit, vOdeme, vAsan, vSasan>>
VSonuc(a) == vIstek' = Bayatlat(vIstek, a, Bitti) /\ vSasan' = (vSasan \/ vIstek[a].bayat) /\ UNCHANGED vOdeme

\* upsertVekaletUcreti, create: one active fee per file.
VUcretAc ==
  /\ vUcret = Yok /\ \E y \in VTutar, p \in VPara : vUcret' = [toplam |-> y, pb |-> p]
  /\ UNCHANGED <<vTaksit, vOdeme, vIstek, vAsan, vSasan>>

VParaDegisirMutant(p) == TRUE   \* mutant: payments do not fix the currency
\* assertVekaletParaBirimiDegisimiIzinli.
VParaDegisir(p) == p = vUcret.pb \/ VAktif = {}

\* upsertVekaletUcreti, edit ...
VUcretOku(a) ==
  /\ vUcret # Yok
  /\ \E y \in VTutar, p \in VPara : VParaDegisir(p) /\
       VGelir(a, [adim |-> "ucret", toplam |-> y, pb |-> p, eski |-> vUcret.pb, bayat |-> FALSE])

\* ... and its transaction: the instalments follow a new currency.
VUcretYaz(a) ==
  LET r == vIstek[a] IN
  /\ r.adim = "ucret" /\ VSonuc(a)
  /\ vUcret' = [toplam |-> r.toplam, pb |-> r.pb]
  /\ vTaksit' = [t \in VTaksit |-> IF r.pb # r.eski /\ vTaksit[t] # Yok THEN [vTaksit[t] EXCEPT !.pb = r.pb] ELSE vTaksit[t]]
  /\ vAsan' = (vAsan \/ VAsilir(vUcret', vTaksit))

VEkle(adim, tutarlar) == [adim |-> adim, tutarlar |-> tutarlar, pb |-> vUcret.pb, bayat |-> FALSE]

\* createVekaletTaksiti: the amount is not compared with anything.
VNumaraliOku(a) == vUcret # Yok /\ \E x \in VTutar : VGelir(a, VEkle("numarali", <<x>>))

VPlanTutarMutant(s) == \A i \in DOMAIN s : s[i] <= VKalanPlan   \* mutant: each instalment, not their sum
\* createVekaletTaksitPlani: OZEL adds up to the remainder, ESIT is within it.
VPlanTutar(s) ==
  LET toplam == MapThenSumSet(LAMBDA i : s[i], DOMAIN s) IN
  toplam = VKalanPlan \/ (toplam <= VKalanPlan /\ \A i, j \in DOMAIN s : s[i] = s[j])

VPlanOku(a) ==
  /\ vUcret # Yok
  /\ \E n \in 1..Cardinality(VBos) : \E s \in [1..n -> 1..VKalanPlan] : VPlanTutar(s) /\ VGelir(a, VEkle("plan", s))

\* createTekVekaletTaksiti.
VTekOku(a) ==
  /\ vUcret # Yok
  /\ \E x \in 1..Min({VKalanPlan, VKalanVekalet}) : VGelir(a, VEkle("plan", <<x>>))

\* The new instalments have the currency the fee had when it was read.
VTaksitYaz(a) ==
  LET r == vIstek[a]  n == Cardinality(DOMAIN r.tutarlar)
      sira(t) == Cardinality({u \in VBos : u <= t}) IN
  /\ r.adim \in {"numarali", "plan"} /\ n <= Cardinality(VBos) /\ VSonuc(a)
  /\ vTaksit' = [t \in VTaksit |-> IF t \in VBos /\ sira(t) <= n
                   THEN [tutar |-> r.tutarlar[sira(t)], pb |-> r.pb, iptal |-> FALSE, odendi |-> FALSE] ELSE vTaksit[t]]
  /\ vAsan' = (vAsan \/ (r.adim = "numarali" /\ VAsilir(vUcret, vTaksit')))
  /\ UNCHANGED vUcret

\* updateVekaletTaksiti: not below its payments, cancelled ones included.
VTutarOku(a) ==
  \E t \in VCanli, y \in VTutar :
    /\ y >= VOdenen(VOdemeleri(t)) /\ (vTaksit[t].odendi => y = vTaksit[t].tutar)
    /\ VGelir(a, [adim |-> "tutar", t |-> t, tutar |-> y, bayat |-> FALSE])

VTutarYaz(a) ==
  LET r == vIstek[a] IN
  /\ r.adim = "tutar" /\ VSonuc(a)
  /\ vTaksit' = [vTaksit EXCEPT ![r.t].tutar = r.tutar]
  /\ vAsan' = (vAsan \/ VAsilir(vUcret, vTaksit')) /\ UNCHANGED vUcret

\* guvenliSilVekaletTaksiti: no active payment.
VSilOku(a) ==
  \E t \in VCanli : VOdemeleri(t) \cap VAktif = {} /\ VGelir(a, [adim |-> "sil", t |-> t, bayat |-> FALSE])

VSilYaz(a) ==
  /\ vIstek[a].adim = "sil" /\ VSonuc(a)
  /\ vTaksit' = [vTaksit EXCEPT ![vIstek[a].t].iptal = TRUE] /\ UNCHANGED <<vUcret, vAsan>>

\* syncTaksitOdemeDurumu after the payments became vOdeme'.
VEsle(t) ==
  LET S == {o \in VOdeme : vOdeme'[o] # Yok /\ vOdeme'[o].t = t /\ ~vOdeme'[o].iptal} IN
  vTaksit' = [vTaksit EXCEPT ![t].odendi =
                IF vTaksit[t].iptal THEN @ ELSE MapThenSumSet(LAMBDA o : vOdeme'[o].tutar, S) >= vTaksit[t].tutar]

\* createVekaletTaksitOdeme: amount and currency of the locked instalment.
VOde(o, t, x) ==
  /\ o \in Ilk({p \in VOdeme : vOdeme[p] = Yok}) /\ t \in VCanli
  /\ x <= vTaksit[t].tutar - VOdenen(VOdemeleri(t) \cap VAktif)
  /\ vOdeme' = [vOdeme EXCEPT ![o] = [t |-> t, tutar |-> x, pb |-> vTaksit[t].pb, iptal |-> FALSE]]
  /\ VEsle(t) /\ vIstek' = Bayatlat(vIstek, Yok, Bos) /\ UNCHANGED <<vUcret, vAsan, vSasan>>

\* A cancelled payment stays, for its row.
VOdemeIptal(o) ==
  /\ o \in VAktif /\ vOdeme' = [vOdeme EXCEPT ![o].iptal = TRUE]
  /\ VEsle(vOdeme[o].t) /\ vIstek' = Bayatlat(vIstek, Yok, Bos) /\ UNCHANGED <<vUcret, vAsan, vSasan>>

PlanNext ==
  \/ VUcretAc
  \/ \E a \in VIstek : \/ VUcretOku(a) \/ VUcretYaz(a) \/ VNumaraliOku(a) \/ VPlanOku(a) \/ VTekOku(a)
                       \/ VTaksitYaz(a) \/ VTutarOku(a) \/ VTutarYaz(a) \/ VSilOku(a) \/ VSilYaz(a)
  \/ \E o \in VOdeme, t \in VTaksit, x \in VTutar : VOde(o, t, x)
  \/ \E o \in VOdeme : VOdemeIptal(o)

PlanSpec == PlanInit /\ [][PlanNext]_planVars

-----------------------------------------------------------------------------
(* Properties *)

\* The type invariant of fee plans.
PlanTypeOK ==
  /\ vUcret = Yok \/ vUcret \in VUcretSatiri
  /\ \A t \in VTaksit : vTaksit[t] # Yok => vTaksit[t] \in VTaksitSatiri
  /\ \A o \in VOdeme : vOdeme[o] # Yok => vOdeme[o] \in VOdemeSatiri
  /\ vAsan \in BOOLEAN /\ vSasan \in BOOLEAN

\* The instalments never add up to more than the fee unless a numbered or
\* edited amount, or a lower fee, which nobody compares, made them; and the
\* fee, its instalments and the active payments on them have one currency:
\* both unless a request wrote on what it had read before another
\* (vekalet.service.ts:480, :653, :726).
PlanTutarli ==
  ~vSasan =>
    /\ vUcret # Yok /\ VAsilir(vUcret, vTaksit) => vAsan
    /\ \A t \in VTaksit : vTaksit[t] # Yok => vTaksit[t].pb = vUcret.pb
    /\ \A o \in VAktif : vOdeme[o].pb = vUcret.pb /\ vOdeme[o].t \in VCanli
=============================================================================
