---------------------------- MODULE MuvekkilKasa ----------------------------
(***************************************************************************)
(* The cash book of a client's case (kasa.service.ts,                      *)
(* masrafGuvenliSil.service.ts): advances, expenses and corrections.  It   *)
(* keeps the rules of the office cash book, with an advance where that has *)
(* an income, and has no currency exchange; its balance counts the rows    *)
(* that are approved and not deleted.                                      *)
(***************************************************************************)
EXTENDS OfisKasa

CONSTANTS MSatir, MIstek   \* rows and requests, numbered

VARIABLES mKasa, mIstek, mKayip, mSasan   \* as in OfisKasa

mKasaVars == <<mKasa, mIstek, mKayip, mSasan>>

MDefter == INSTANCE OfisKasa WITH
            KSatir <- MSatir, KasaIstek <- MIstek,
            kasa <- mKasa, kasaIstek <- mIstek, kKayip <- mKayip, kSasan <- mSasan

ASSUME MuvekkilKasaVarsayimi ==
  MSatir \subseteq Nat /\ MIstek \subseteq Nat /\ Yok \notin MSatir \cup MDefter!KasaKaydi

MKasaInit == MDefter!KasaInit

\* createKasaHareketi: an advance ("GELIR") or an expense ("GIDER").
MEkle == MDefter!KEkle

\* approveKasaHareketi, rejectKasaHareketi.
MKararOku(a) == MDefter!KKararOku(a)
MKararYaz(a) == MDefter!KKararYaz(a)

\* createDuzeltmeKasa: here too a deleted original is not refused.
MDuzeltmeOku(a) == MDefter!KDuzeltmeOku(a)
MDuzeltmeYaz(a) == MDefter!KDuzeltmeYaz(a)

\* deleteKasaHareketi: not for expenses.
MSilOku(a) == MDefter!KSilOku(a)
MSilYaz(a) == MDefter!KSilYaz(a)

\* guvenliKasaHareketSil: of two requests the update lets one through.
MGuvenliSilOku(a) == MDefter!KGuvenliSilOku(a)
MGuvenliSilYaz(a) == MDefter!KGuvenliSilYaz(a)

MKasaNext ==
  \/ MEkle
  \/ \E a \in MIstek : \/ MKararOku(a) \/ MKararYaz(a) \/ MDuzeltmeOku(a) \/ MDuzeltmeYaz(a)
                       \/ MSilOku(a) \/ MSilYaz(a) \/ MGuvenliSilOku(a) \/ MGuvenliSilYaz(a)

MKasaSpec == MKasaInit /\ [][MKasaNext]_mKasaVars

-----------------------------------------------------------------------------
(* Properties *)

\* The type invariant of the client's cash book.
MKasaTypeOK == MDefter!KasaTypeOK /\ \A r \in MDefter!KDolu : mKasa[r].tip \in {"GELIR", "GIDER", "DUZELTME"}

\* getKasaOzet: the rows in the balance.
MSayilan == {r \in MDefter!KDolu : mKasa[r].onay = "ONAYLI" /\ ~mKasa[r].silindi}

\* A correction is in the balance only together with what it corrects, unless
\* it was made after that was deleted or requests on that overlapped
\* (kasa.service.ts:352, masrafGuvenliSil.service.ts:177).
MBakiyeTutarli ==
  \A r \in MSayilan : mKasa[r].tip = "DUZELTME" /\ mKasa[r].bag # Yok =>
    mKasa[r].bag \in MSayilan \/ mKasa[r].gec \/ mKasa[r].bag \in mSasan

\* Both cash books keep their rules, and the balance of a case holds.
KasalarTutarli == KasaTutarli /\ MDefter!KasaTutarli /\ MBakiyeTutarli
=============================================================================
