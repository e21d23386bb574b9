-------------------------------- MODULE Prim --------------------------------
(***************************************************************************)
(* Bonuses of the office's staff (prim.service.ts, primCalc.ts), for one   *)
(* person and one month: rules of the person or of the office with their   *)
(* tiers, the report that calculates the month, and the mark that it was   *)
(* paid.  A rule is saved in one transaction, which first switches off the *)
(* active rules of its scope that it sees; the report reads the rule, the  *)
(* collections and writes the month in separate statements.                *)
(***************************************************************************)
EXTENDS Ortak, FiniteSetsExt, Sequences

CONSTANTS
  PKural, PIstek,   \* rules and requests, numbered
  POdeme, PTutar,   \* collections of the month, and their amounts
  PTarife           \* [icra, dilimli, kademe]: whether enforcement collections count,
                    \* the kind of calculation and the tiers <<[min, max, oran]>>;
                    \* max is Yok for "and above"

Kapsam == {"USER_SPECIFIC", "TENANT_DEFAULT"}

\* Rows of a tier, a rule, a collection and a month.
PKademe == [min : Nat, max : Nat \cup {Yok}, oran : Nat]
PKuralSatiri == [kapsam : Kapsam, aktif : BOOLEAN, tarife : PTarife]
POdemeSatiri == [tutar : PTutar, iptal : BOOLEAN]
PDonemSatiri == [matrah : Nat, prim : Nat, kural : PKural, odendi : BOOLEAN]

\* A rule has at least one tier.
ASSUME PrimVarsayimi ==
  /\ PKural \subseteq Nat /\ PIstek \subseteq Nat /\ PTutar \subseteq Nat
  /\ POdeme \subseteq Nat /\ IsFiniteSet(POdeme)
  /\ \A t \in PTarife : t.icra \in BOOLEAN /\ t.dilimli \in BOOLEAN /\ t.kademe \in Seq(PKademe) /\ t.kademe # <<>>
  /\ Yok \notin Nat \cup {"acik", "kapali"} \cup PKuralSatiri \cup POdemeSatiri \cup PDonemSatiri

VARIABLES
  pKural,    \* per id, the rule
  pOdeme,    \* collections of the person; iptal: the claim was cancelled
  pDonem,    \* the month's row, and whether it is marked as paid
  pIstek,
  pSasan,    \* history: rules saved while another save committed
  pEski      \* history: what the month was calculated from has changed

primVars == <<pKural, pOdeme, pDonem, pIstek, pSasan, pEski>>

\* The office may have a rule for everyone.
PrimInit ==
  /\ \E v \in {Yok} \cup {[kapsam |-> "TENANT_DEFAULT", aktif |-> TRUE, tarife |-> t] : t \in PTarife} :
       pKural = [r \in PKural |-> IF r \in Ilk(PKural) THEN v ELSE Yok]
  /\ pOdeme = [o \in POdeme |-> Yok] /\ pDonem = Yok
  /\ pIstek = [a \in PIstek |-> Bos] /\ pSasan = {} /\ pEski = FALSE

PDolu == {r \in PKural : pKural[r] # Yok}
PAktif(kapsam) == {r \in PDolu : pKural[r].kapsam = kapsam /\ pKural[r].aktif}

-----------------------------------------------------------------------------
(* The calculation *)

PAlt(x, y) == IF y = Yok \/ x <= y THEN x ELSE y

\* calcTotalBracketPremium: the first tier that holds the total takes all of it.
PTumu(toplam, k) == [i \in DOMAIN k |-> toplam * k[i].oran]
PTekDilim(toplam, k) ==
  MapThenSumSet(LAMBDA i : PTumu(toplam, k)[i],
                Ilk({j \in DOMAIN k : toplam >= k[j].min /\ PAlt(toplam, k[j].max) = toplam}))

\* calcProgressivePremium: every tier takes its share.
PPay(toplam, k, i) == PAlt(toplam, k[i].max) - k[i].min
PPaylar(toplam, k) ==
  [i \in DOMAIN k |-> IF PPay(toplam, k, i) > 0 THEN PPay(toplam, k, i) * k[i].oran ELSE 0]
PDilimli(toplam, k) == MapThenSumSet(LAMBDA i : PPaylar(toplam, k)[i], DOMAIN k)

\* What tiers without a gap should pay: every unit at the rate of its tier.
PBirimler(toplam, k) == [u \in 1 .. toplam |-> k[CHOOSE i \in DOMAIN k : k[i].min < u /\ PAlt(u, k[i].max) = u].oran]
PBirimBirim(toplam, k) == MapThenSumSet(LAMBDA u : PBirimler(toplam, k)[u], 1 .. toplam)
PAraliksiz(k) ==
  /\ k[1].min = 0 /\ k[Len(k)].max = Yok
  /\ \A i \in 1 .. Len(k) - 1 : k[i].min < k[i].max /\ k[i].max = k[i + 1].min

\* computePremium.
PHesap(toplam, t) == IF t.dilimli THEN PDilimli(toplam, t.kademe) ELSE PTekDilim(toplam, t.kademe)

\* collectPersonelTahsilatlari: whether the income of a collection was
\* approved or deleted is not looked at.
PTahsilatlar == {o \in POdeme : pOdeme[o] # Yok /\ ~pOdeme[o].iptal}
\* kaynakRuleEnabled: a rule may leave enforcement collections out.
PDahil(t) == IF t.icra THEN PTahsilatlar ELSE {}
PTutarlar(icra) == [o \in PTahsilatlar |-> IF icra THEN pOdeme[o].tutar ELSE 0]
PMatrah(t) == MapThenSumSet(LAMBDA o : PTutarlar(TRUE)[o], PDahil(t))

\* resolvePrimKuraliForPersonel: the person's rule, otherwise the office's.
PUygulanan == IF PAktif("USER_SPECIFIC") # {} THEN PAktif("USER_SPECIFIC") ELSE PAktif("TENANT_DEFAULT")

\* buildPersonelOzetFromTahsilatlar under the rule r: a paid month shows what
\* was paid, any other what the rule comes to now.
PPanel(r) ==
  LET t == pKural[r].tarife  odendi == pDonem # Yok /\ pDonem.odendi
  IN [matrah |-> PMatrah(t), tahmin |-> IF odendi THEN pDonem.prim ELSE PHesap(PMatrah(t), t),
      odenmis |-> IF odendi THEN pDonem.prim ELSE 0]
\* getPrimRaporDetay: the stored month beside the collections of today.
PDetay == [ozet |-> pDonem, satir |-> PTahsilatlar]

-----------------------------------------------------------------------------
(* Requests *)

PGelir(a, k) == a \in Ilk({b \in PIstek : pIstek[b] = Bos}) /\ pIstek' = [pIstek EXCEPT ![a] = k]
PAdimda(a, adim) == pIstek[a].adim = adim
\* A rule or a collection changed: the month is stale, and so is what the
\* requests at the given steps have read.
PDegisti(k, adimlar) ==
  /\ pIstek' = [b \in PIstek |-> IF k[b].adim \in adimlar THEN [k[b] EXCEPT !.bayat = TRUE] ELSE k[b]]
  /\ pEski' = (pDonem # Yok)

\* Rules another transaction has switched off and not yet committed.
PKilitli(a) == UNION {pIstek[b].kilit : b \in {c \in PIstek \ {a} : PAdimda(c, "kural")}}

\* updatePrimKurali: whether the rule is active is read before the transaction,
\* and counts when the request does not say.
PKuralOku(a) ==
  \E r \in PDolu, aktif \in {"acik", "kapali", Yok} :
    /\ PGelir(a, [adim |-> "oku", r |-> r, aktif |-> aktif,
                  acik |-> aktif = "acik" \/ (aktif = Yok /\ pKural[r].aktif), bayat |-> FALSE])
    /\ UNCHANGED <<pKural, pOdeme, pDonem, pSasan, pEski>>

\* deactivateConflictingRules: the active rules it sees are locked, those of
\* another transaction when that ends.
PKapatMutant(kapsam, r, acik) == {}   \* mutant: nothing is switched off
PKapat(kapsam, r, acik) == IF acik THEN PAktif(kapsam) \ {r} ELSE {}

\* createPrimKurali and updatePrimKurali, up to there.
PAcik(a, kapsam, t, r, aktif, acik) ==
  [adim |-> "kural", r |-> r, aktif |-> aktif, kapsam |-> kapsam, tarife |-> t, kapat |-> PKapat(kapsam, r, acik),
   kilit |-> PKapat(kapsam, r, acik) \ PKilitli(a), bayat |-> pIstek[a] # Bos /\ pIstek[a].bayat]
PKuralKapat(a) ==
  \E kapsam \in Kapsam, t \in PTarife :
    /\ \/ \E aktif \in {"acik", "kapali"} : PGelir(a, PAcik(a, kapsam, t, Yok, aktif, aktif = "acik"))
       \/ LET i == pIstek[a] IN
          PAdimda(a, "oku") /\ pIstek' = [pIstek EXCEPT ![a] = PAcik(a, kapsam, t, i.r, i.aktif, i.acik)]
    /\ UNCHANGED <<pKural, pOdeme, pDonem, pSasan, pEski>>

\* The rule is written, and the transaction commits.
PKuralYaz(a) ==
  LET i == pIstek[a]
      kural(r) == [kapsam |-> i.kapsam, tarife |-> i.tarife, aktif |-> IF i.aktif = Yok THEN pKural[r].aktif ELSE i.aktif = "acik"]
  IN /\ PAdimda(a, "kural") /\ ({i.r} \cup i.kapat) \cap PKilitli(a) = {}
     /\ \E r \in IF i.r = Yok THEN Ilk(PKural \ PDolu) ELSE {i.r} :
          /\ pKural' = [s \in PKural |-> IF s = r THEN kural(r)
                          ELSE IF s \in i.kapat THEN [pKural[s] EXCEPT !.aktif = FALSE] ELSE pKural[s]]
          /\ pSasan' = IF i.bayat THEN pSasan \cup {r} ELSE pSasan
     /\ PDegisti([pIstek EXCEPT ![a] = Bitti], {"oku", "kural", "topla", "rapor"}) /\ UNCHANGED <<pOdeme, pDonem>>

\* pasifPrimKurali.
PKuralPasif(a) ==
  \E r \in {s \in PDolu : pKural[s].aktif} \ PKilitli(a) :
    /\ a \in Ilk({b \in PIstek : pIstek[b] = Bos})
    /\ pKural' = [pKural EXCEPT ![r].aktif = FALSE]
    /\ PDegisti([pIstek EXCEPT ![a] = Bitti], {"oku", "kural", "topla", "rapor"}) /\ UNCHANGED <<pOdeme, pDonem, pSasan>>

\* hesaplaPrimRaporu: the rule, any one of several, ...
PRaporOku(a) ==
  \E r \in PUygulanan :
    /\ PGelir(a, [adim |-> "topla", kural |-> r, tarife |-> pKural[r].tarife, bayat |-> FALSE])
    /\ UNCHANGED <<pKural, pOdeme, pDonem, pSasan, pEski>>

\* ... the collections, ...
PRaporTopla(a) ==
  /\ PAdimda(a, "topla")
  /\ pIstek' = [pIstek EXCEPT ![a] = [adim |-> "rapor", kural |-> pIstek[a].kural, tarife |-> pIstek[a].tarife,
                                      bayat |-> pIstek[a].bayat, matrah |-> PMatrah(pIstek[a].tarife)]]
  /\ UNCHANGED <<pKural, pOdeme, pDonem, pSasan, pEski>>

\* ... and the month, which is not paid any more.
PRaporYaz(a) ==
  LET i == pIstek[a] IN
  /\ PAdimda(a, "rapor") /\ pIstek' = [pIstek EXCEPT ![a] = Bitti] /\ pEski' = i.bayat
  /\ pDonem' = [matrah |-> i.matrah, prim |-> PHesap(i.matrah, i.tarife), kural |-> i.kural, odendi |-> FALSE]
  /\ UNCHANGED <<pKural, pOdeme, pSasan>>

\* markPrimOdendi: by id, whatever the figure is by then.
PrimOdendi ==
  /\ pDonem # Yok /\ pDonem' = [pDonem EXCEPT !.odendi = TRUE]
  /\ UNCHANGED <<pKural, pOdeme, pIstek, pSasan, pEski>>

\* A collection of the person, or the cancellation of its claim
\* (icraTahsilat.service.ts).
PTahsilat ==
  /\ \E o \in POdeme :
       \/ /\ o \in Ilk({p \in POdeme : pOdeme[p] = Yok})
          /\ \E x \in PTutar : pOdeme' = [pOdeme EXCEPT ![o] = [tutar |-> x, iptal |-> FALSE]]
       \/ pOdeme[o] # Yok /\ ~pOdeme[o].iptal /\ pOdeme' = [pOdeme EXCEPT ![o].iptal = TRUE]
  /\ PDegisti(pIstek, {"topla", "rapor"}) /\ UNCHANGED <<pKural, pDonem, pSasan>>

\* A lost request: its transaction is rolled back.
PDuser(a) == pIstek[a] \notin {Bos, Bitti} /\ pIstek' = [pIstek EXCEPT ![a] = Bitti]
             /\ UNCHANGED <<pKural, pOdeme, pDonem, pSasan, pEski>>

PrimNext ==
  \/ PrimOdendi \/ PTahsilat
  \/ \E a \in PIstek : PKuralOku(a) \/ PKuralKapat(a) \/ PKuralYaz(a) \/ PKuralPasif(a)
                         \/ PRaporOku(a) \/ PRaporTopla(a) \/ PRaporYaz(a) \/ PDuser(a)

PrimSpec == PrimInit /\ [][PrimNext]_primVars

-----------------------------------------------------------------------------
(* Properties *)

\* The type invariant of the bonuses.
PrimTypeOK ==
  /\ \A r \in PDolu : pKural[r] \in PKuralSatiri
  /\ \A o \in POdeme : pOdeme[o] # Yok => pOdeme[o] \in POdemeSatiri
  /\ pDonem # Yok => pDonem \in PDonemSatiri
  /\ pSasan \subseteq PKural /\ pEski \in BOOLEAN

\* Two rules of a scope are active only when their saves overlapped; a month
\* nothing was changed under shows what the collections come to by the rule
\* in force, and so does the panel of the person, paid or not, whose details
\* then add up to it; and tiers that follow each other without a gap pay every
\* unit of the total once, at the rate of its tier (prim.service.ts:125, :252,
\* :405, :513, :768, primCalc.ts:57).
PrimTutarli ==
  /\ \A kapsam \in Kapsam : Cardinality(PAktif(kapsam) \ pSasan) <= 1
  /\ pDonem # Yok /\ ~pEski =>
       LET tarife == pKural[pDonem.kural].tarife  panel == PPanel(pDonem.kural) IN
       /\ pDonem.kural \in PUygulanan /\ pDonem.matrah = PMatrah(tarife)
       /\ pDonem.prim = PHesap(PMatrah(tarife), tarife)
       /\ panel.tahmin = pDonem.prim /\ panel.matrah = pDonem.matrah
       /\ panel.odenmis = (IF pDonem.odendi THEN pDonem.prim ELSE 0)
       /\ PDetay.ozet.matrah = MapThenSumSet(LAMBDA o : PTutarlar(tarife.icra)[o], PDetay.satir)
  /\ \A t \in PTarife : pDonem # Yok /\ PAraliksiz(t.kademe) =>
       PDilimli(pDonem.matrah, t.kademe) = PBirimBirim(pDonem.matrah, t.kademe)
=============================================================================
