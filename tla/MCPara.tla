------------------------------- MODULE MCPara -------------------------------
(* The accounts of an office for TLC, one at a time.  A behaviour is one of: *)
(*   kredi   the wallet of message credits                                   *)
(*   sms, icra, kasa, mkasa, plan, prim: one module each                     *)
(*   bplan   two requests about an instalment whose rules are all active     *)
EXTENDS TLC, WhatsAppMesajKredi, SmsCuzdan, IcraTahsilat, MuvekkilKasa, VekaletPlan, Prim, BildirimPlan

VARIABLE parca

ParaInit ==
  /\ KrediInit /\ SmsInit /\ IcraInit /\ KasaInit /\ MKasaInit /\ PlanInit /\ PrimInit /\ BPlanInit
  /\ parca \in {"kredi", "sms", "icra", "kasa", "mkasa", "plan", "prim", "bplan"}
  /\ parca # "prim" => PDolu = {}
  /\ \A k \in GKural : gKural[k].aktif /\ (gPlan # Yok => gPlan.kural[k] # Yok)
  /\ parca # "bplan" => gPlan = Yok /\ ~gPlanli /\ gTaksit.vade = 0 /\ \A k \in GKural : gKural[k].gun < 2

\* Everything but the part p stays.
Kalan(p) ==
  /\ UNCHANGED parca
  /\ parca = p
  /\ p # "kredi" => UNCHANGED krediVars
  /\ p # "sms" => UNCHANGED smsVars
  /\ p # "icra" => UNCHANGED icraVars
  /\ p # "kasa" => UNCHANGED kasaVars
  /\ p # "mkasa" => UNCHANGED mKasaVars
  /\ p # "plan" => UNCHANGED planVars
  /\ p # "prim" => UNCHANGED primVars
  /\ p # "bplan" => UNCHANGED bPlanVars

\* At most two requests are under way.
Ikisi(istek) == Cardinality({a \in DOMAIN istek : istek[a] \notin {Bos, Bitti}}) <= 2

ParaNext ==
  \/ Kalan("kredi") /\ KrediNext
  \/ Kalan("sms") /\ SmsNext
  \/ Kalan("icra") /\ IcraNext /\ Ikisi(iIstek')
  \/ Kalan("kasa") /\ KasaNext /\ Ikisi(kasaIstek')
  \/ Kalan("mkasa") /\ MKasaNext /\ Ikisi(mIstek')
  \/ Kalan("plan") /\ PlanNext /\ Ikisi(vIstek')
  \/ Kalan("prim") /\ PrimNext
  \/ Kalan("bplan") /\ BPlanNext

ParaSpec ==
  ParaInit /\ [][ParaNext]_<<parca, krediVars, smsVars, icraVars, kasaVars, mKasaVars, planVars, primVars, bPlanVars>>

\* The type invariant of the part that is looked at; the rows of the others stay.
ParaTypeOK ==
  /\ parca = "kredi" => KrediTypeOK
  /\ parca = "sms" => SmsTypeOK
  /\ parca = "icra" => IcraTypeOK
  /\ parca = "kasa" => KasaTypeOK
  /\ parca = "mkasa" => MKasaTypeOK
  /\ parca = "plan" => PlanTypeOK
  /\ parca = "prim" => PrimTypeOK
  /\ parca = "bplan" => BPlanTypeOK

\* The callers of the wallet and the jobs are interchangeable.
Simetri == Permutations(Cagiran) \cup Permutations(Is)

\* A rule for the due date itself, and one for one or two days before.
Gunler == [k \in GKural |-> IF k = "VADE_GUNU" THEN {0} ELSE {1, 2}]

\* One tier that leaves small and large totals out, and a rule that leaves the
\* collections out, whose tiers have no gap: they are checked on either's totals.
Tarifeler ==
  {[icra |-> TRUE, dilimli |-> FALSE, kademe |-> <<[min |-> 1, max |-> 2, oran |-> 3]>>],
   [icra |-> FALSE, dilimli |-> TRUE,
    kademe |-> <<[min |-> 0, max |-> 1, oran |-> 1], [min |-> 1, max |-> 3, oran |-> 3], [min |-> 3, max |-> Yok, oran |-> 2]>>]}
=============================================================================
