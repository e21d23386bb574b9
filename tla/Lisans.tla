------------------------------- MODULE Lisans -------------------------------
(***************************************************************************)
(* The licence of one office and its extension: by the orders of the shop, *)
(* with a purchase session or without, and by a super admin.               *)
(*                                                                         *)
(* The shop repeats an order until it is answered, so an order may be      *)
(* delivered several times and its deliveries may overlap.  An extension   *)
(* reads the end date outside its transaction and writes the new one as a  *)
(* date, not as an increment; what follows it (the yearly message credit,  *)
(* closing the session) are statements of their own that may fail alone.   *)
(***************************************************************************)
EXTENDS Ortak

CONSTANTS
  Siparis,         \* orders of the shop
  YillikSiparis,   \* those for a year; the others are for one day
  Satinalma,       \* purchase sessions that can be issued (bounds the run)
  LisansIstek,     \* requests, numbered as they arrive
  Yonetici,        \* those of super admins; the others deliver orders
  Yil,             \* days in a year
  MaxGun,          \* bound: days that pass
  MaxBitis         \* bound: the last end date an extension may reach

ASSUME LisansVarsayimi ==
  /\ YillikSiparis \subseteq Siparis
  /\ Satinalma \subseteq Nat /\ LisansIstek \subseteq Nat /\ Yonetici \subseteq LisansIstek
  /\ Yil \in Nat /\ Yil > 1
  /\ MaxGun \in Nat /\ MaxBitis \in Nat

VARIABLES
  buro,         \* the tenant row: end date, demo, active
  gun,          \* today
  donem,        \* tenant_license_renewal, by order (or by the admin's request)
  satinalma,    \* license_purchase_session
  krediDonem,   \* periods whose yearly credit is booked (unique by period)
  lisansIstek,  \* requests in flight
  eksilen,      \* history: periods cut by an overlap or by the super admin
  aksayan       \* history: periods whose booking of credit failed

lisansVars == <<buro, gun, donem, satinalma, krediDonem, lisansIstek, eksilen, aksayan>>

BosDonem == [kez |-> 0, taban |-> 0, yeni |-> 0, yillik |-> FALSE, demo |-> FALSE]
Donemler == {x \in Siparis \cup LisansIstek : donem[x].kez > 0}

\* Rows of an office, of its licence periods and of a purchase session.
BuroSatiri == [bitis : Nat, demo : BOOLEAN, aktif : BOOLEAN]
DonemSatiri == [kez : Nat, taban : Nat, yeni : Nat, yillik : BOOLEAN, demo : BOOLEAN]
SatinalmaSatiri == [durum : {"yok", "CREATED", "BOUND", "CONSUMED", "EXPIRED"},
  siparis : Siparis \cup {Yok}]

LisansInit ==
  /\ buro \in [bitis : {0}, demo : BOOLEAN, aktif : {TRUE}]
  /\ gun = 0
  /\ donem = [x \in Siparis \cup LisansIstek |-> BosDonem]
  /\ satinalma = [s \in Satinalma |-> [durum |-> "yok", siparis |-> Yok]]
  /\ krediDonem = {}
  /\ lisansIstek = [a \in LisansIstek |-> Bos]
  /\ eksilen = {} /\ aksayan = {}

LisansBasla(a, k) ==
  /\ a \in Ilk({b \in LisansIstek : lisansIstek[b] = Bos /\ (b \in Yonetici) = (a \in Yonetici)})
  /\ lisansIstek' = [lisansIstek EXCEPT ![a] = k]
LisansIlerlet(a, k) == lisansIstek' = [lisansIstek EXCEPT ![a] = k]

-----------------------------------------------------------------------------
(* Purchase sessions *)

\* issueLicenseSessionLink.
LinkVer ==
  /\ buro.aktif
  /\ \E s \in Ilk({t \in Satinalma : satinalma[t].durum = "yok"}) :
       satinalma' = [satinalma EXCEPT ![s].durum = "CREATED"]
  /\ UNCHANGED <<buro, gun, donem, krediDonem, lisansIstek, eksilen, aksayan>>

\* expireSessionIfNeeded: opening or binding a link past its time ends it,
\* also one whose order is being paid.
LinkSuresiDolar(s) ==
  /\ satinalma[s].durum \in {"CREATED", "BOUND"}
  /\ satinalma' = [satinalma EXCEPT ![s].durum = "EXPIRED"]
  /\ UNCHANGED <<buro, gun, donem, krediDonem, lisansIstek, eksilen, aksayan>>

BaglaMutant(s, o) ==   \* mutant: a bound link can be bound again
  /\ satinalma[s].durum \in {"CREATED", "BOUND"}
  /\ \A t \in Satinalma : satinalma[t].siparis # o
  /\ satinalma' = [satinalma EXCEPT ![s] = [durum |-> "BOUND", siparis |-> o]]
  /\ UNCHANGED <<buro, gun, donem, krediDonem, lisansIstek, eksilen, aksayan>>

\* bindLicensePurchaseToken: the update asks again for all that the look-up
\* before it has asked; an order is bound to one link (unique).
Bagla(s, o) ==
  /\ satinalma[s].durum = "CREATED"
  /\ \A t \in Satinalma : satinalma[t].siparis # o
  /\ satinalma' = [satinalma EXCEPT ![s] = [durum |-> "BOUND", siparis |-> o]]
  /\ UNCHANGED <<buro, gun, donem, krediDonem, lisansIstek, eksilen, aksayan>>

-----------------------------------------------------------------------------
(* Delivery of an order *)

\* isEligibleForAnnualWhatsAppCredits: not for a demo or a short period.
KrediUygun(yillik, demo) == yillik /\ ~demo

\* An order that has its period is answered as such; its credit is booked
\* again, in case that failed.
Iyilestir(a, o) ==
  /\ o \in Donemler
  /\ LisansBasla(a, [adim |-> "kredi", x |-> o, oturum |-> Yok,
                     uygun |-> KrediUygun(donem[o].yillik, buro.demo)])

\* fulfillLicensePurchase and renewTenantFromWoontegraWebsite, up to the
\* extension.  The latter has no session.
TeslimAl(a, o) ==
  /\ \/ Iyilestir(a, o)
     \/ /\ o \notin Donemler
        /\ \E s \in Satinalma :
             /\ satinalma[s].siparis = o /\ satinalma[s].durum \in {"BOUND", "CONSUMED"}
             /\ LisansBasla(a, [adim |-> "uzat", x |-> o, oturum |-> s])
     \/ /\ o \notin Donemler
        /\ LisansBasla(a, [adim |-> "uzat", x |-> o, oturum |-> Yok])
  /\ UNCHANGED <<buro, gun, donem, satinalma, krediDonem, eksilen, aksayan>>

-----------------------------------------------------------------------------
(* extendTenantLicense *)

\* computeExtensionBaseDate: from the end, or from today when that has passed.
TabanMutant == gun                                                     \* mutant: always from today
Taban == IF buro.bitis >= gun THEN buro.bitis ELSE gun

UzatmaKaydi(x, s, yeni, demo, elle) ==
  [adim |-> "yaz", x |-> x, oturum |-> s, okunan |-> buro.bitis, taban |-> Taban,
   yeni |-> yeni, demo |-> demo, elle |-> elle]

\* The office is read.
UzatOku(a) ==
  LET k == lisansIstek[a]
      yeni == Taban + (IF k.x \in YillikSiparis THEN Yil ELSE 1)
  IN
  /\ k.adim = "uzat"
  /\ yeni <= MaxBitis
  /\ LisansIlerlet(a, UzatmaKaydi(k.x, k.oturum, yeni, FALSE, FALSE))
  /\ UNCHANGED <<buro, gun, donem, satinalma, krediDonem, eksilen, aksayan>>

\* adminExtendTenantLicense: a duration, or any date that is not past.
AdminUzat(a) ==
  /\ \E demo \in BOOLEAN :
       \/ \E sure \in {1, Yil} :
            /\ Taban + sure <= MaxBitis
            /\ LisansBasla(a, UzatmaKaydi(a, Yok, Taban + sure, demo, FALSE))
       \/ \E tarih \in gun .. MaxBitis : LisansBasla(a, UzatmaKaydi(a, Yok, tarih, demo, TRUE))
  /\ UNCHANGED <<buro, gun, donem, satinalma, krediDonem, eksilen, aksayan>>

\* One transaction: the period (unique by order) and the office.
UzatYaz(a) ==
  LET k == lisansIstek[a]  yillik == k.yeni - k.taban >= Yil IN
  /\ k.adim = "yaz"
  /\ k.x \notin Donemler
  /\ donem' = [donem EXCEPT ![k.x] = [kez |-> @.kez + 1, taban |-> k.taban, yeni |-> k.yeni,
                                      yillik |-> yillik, demo |-> k.demo]]
  /\ buro' = [bitis |-> k.yeni, demo |-> k.demo, aktif |-> TRUE]
  /\ eksilen' = IF k.elle \/ k.okunan # buro.bitis
                THEN eksilen \cup {k.x} \cup {x \in Donemler : donem[x].yeni > k.yeni}
                ELSE eksilen
  /\ LisansIlerlet(a, [adim |-> "kredi", x |-> k.x, oturum |-> k.oturum,
                       uygun |-> KrediUygun(yillik, k.demo)])
  /\ UNCHANGED <<gun, satinalma, krediDonem, aksayan>>

\* tryGrantAnnualIncludedCreditsAfterLicensePeriod: an error is swallowed.
KrediVer(a) ==
  LET k == lisansIstek[a] IN
  /\ k.adim = "kredi"
  /\ \/ /\ krediDonem' = IF k.uygun THEN krediDonem \cup {k.x} ELSE krediDonem
        /\ UNCHANGED aksayan
     \/ k.uygun /\ aksayan' = aksayan \cup {k.x} /\ UNCHANGED krediDonem
  /\ LisansIlerlet(a, IF k.oturum = Yok THEN Bitti ELSE [adim |-> "tuket", oturum |-> k.oturum])
  /\ UNCHANGED <<buro, gun, donem, satinalma, eksilen>>

\* fulfillLicensePurchase closes the session, by id.
SatinalmaTuket(a) ==
  /\ lisansIstek[a].adim = "tuket"
  /\ satinalma' = [satinalma EXCEPT ![lisansIstek[a].oturum].durum = "CONSUMED"]
  /\ LisansIlerlet(a, Bitti)
  /\ UNCHANGED <<buro, gun, donem, krediDonem, eksilen, aksayan>>

-----------------------------------------------------------------------------
\* The request fails or its process dies; a second period of an order fails
\* on the unique index (P2002) and takes its transaction with it.
LisansDuser(a) ==
  /\ lisansIstek[a].adim \in {"uzat", "yaz", "kredi", "tuket"}
  /\ LisansIlerlet(a, Bitti)
  /\ aksayan' = IF lisansIstek[a].adim = "kredi" THEN aksayan \cup {lisansIstek[a].x} ELSE aksayan
  /\ UNCHANGED <<buro, gun, donem, satinalma, krediDonem, eksilen>>

GunGecer ==
  /\ gun < MaxGun
  /\ gun' = gun + 1
  /\ UNCHANGED <<buro, donem, satinalma, krediDonem, lisansIstek, eksilen, aksayan>>

LisansAdimi(a) ==
  \/ a \in Yonetici /\ AdminUzat(a)
  \/ a \notin Yonetici /\ \E o \in Siparis : TeslimAl(a, o)
  \/ UzatOku(a) \/ UzatYaz(a) \/ KrediVer(a) \/ SatinalmaTuket(a) \/ LisansDuser(a)

LisansNext ==
  \/ GunGecer \/ LinkVer
  \/ \E s \in Satinalma : LinkSuresiDolar(s) \/ \E o \in Siparis : Bagla(s, o)
  \/ \E a \in LisansIstek : LisansAdimi(a)

LisansSpec == LisansInit /\ [][LisansNext]_lisansVars

-----------------------------------------------------------------------------
(* Properties *)

Anahtar == Siparis \cup LisansIstek

LisansIstekKaydi ==
  {Bos, Bitti}
  \cup [adim : {"uzat"}, x : Siparis, oturum : Satinalma \cup {Yok}]
  \cup [adim : {"yaz"}, x : Anahtar, oturum : Satinalma \cup {Yok}, okunan : Nat, taban : Nat,
        yeni : Nat, demo : BOOLEAN, elle : BOOLEAN]
  \cup [adim : {"kredi"}, x : Anahtar, oturum : Satinalma \cup {Yok}, uygun : BOOLEAN]
  \cup [adim : {"tuket"}, oturum : Satinalma]

\* The type invariant of the licence.
LisansTypeOK ==
  /\ buro \in BuroSatiri
  /\ gun \in Nat
  /\ donem \in [Anahtar -> DonemSatiri]
  /\ satinalma \in [Satinalma -> SatinalmaSatiri]
  /\ krediDonem \subseteq Anahtar /\ eksilen \subseteq Anahtar /\ aksayan \subseteq Anahtar
  /\ lisansIstek \in [LisansIstek -> LisansIstekKaydi]

\* Every period that was paid for is there: an order extends the licence
\* once, no two periods share a day, and the office keeps them to the end,
\* except for periods that were computed from an end date another request
\* was about to change, or cut by a date the super admin set
\* (extendTenantLicense reads outside its transaction and writes a date).
SureKorunur ==
  \A x \in Donemler :
    /\ donem[x].kez = 1
    /\ x \notin eksilen =>
         /\ donem[x].yeni <= buro.bitis
         /\ \A y \in Donemler \ (eksilen \cup {x}) :
              donem[x].yeni <= donem[y].taban \/ donem[y].yeni <= donem[x].taban

\* The yearly credit follows the yearly period: booked for those only, and
\* missing only where its booking is still to come or has failed.
DonemKredili ==
  /\ krediDonem \subseteq {x \in Donemler : donem[x].yillik}
  /\ \A x \in Donemler :
       donem[x].yillik /\ ~donem[x].demo
       => x \in krediDonem \cup aksayan
          \/ \E a \in LisansIstek : lisansIstek[a].adim = "kredi" /\ lisansIstek[a].x = x

\* A purchase session is closed only when its own order has its period, and
\* an order belongs to one session, whatever was expired, bound twice or
\* delivered twice in between.
SatinalmaTutarli ==
  /\ \A s \in Satinalma :
       satinalma[s].durum = "CONSUMED" => satinalma[s].siparis \in Donemler
  /\ \A s, t \in Satinalma :
       s # t => satinalma[s].siparis = Yok \/ satinalma[s].siparis # satinalma[t].siparis

\* What an order promises: its period, the yearly credit and a closed purchase
\* session (extendTenantLicense.ts:71, :142, licensePurchase.service.ts:536).
LisansTutarli == SureKorunur /\ DonemKredili /\ SatinalmaTutarli
=============================================================================
