------------------------------- MODULE Kadro -------------------------------
(***************************************************************************)
(* Who runs the platform and who runs an office                            *)
(* (adminSuperAdmin.service.ts, bootstrapOwnerAdmin.ts, users.service.ts,  *)
(* adminUpdateUser of adminTenant.service.ts).  Only a super admin changes *)
(* administrators and only an owner changes the users of an office; both   *)
(* are looked up when the request comes in, the row it changes is read     *)
(* later, and is written by its id.  Sessions are in Oturum.               *)
(***************************************************************************)
EXTENDS Ortak

CONSTANTS
  UAdmin,    \* administrators of the platform
  UKurucu,   \* the one whose e-mail the bootstrap script is given
  UUye,      \* users of an office
  UIstek     \* requests, numbered

VARIABLES
  uAdmin,    \* super_admin: per administrator, its role and activity, or Yok
  uUye,      \* users of the office, likewise
  uIstek,
  uSasan,    \* history: the tables a request wrote after another had, see UYaz
  uMudahale  \* history: has the platform taken an owner away?

kadroVars == <<uAdmin, uUye, uIstek, uSasan, uMudahale>>

AdminSatiri == [rol : {"SUPER_ADMIN", "DESTEK"}, aktif : BOOLEAN]
UyeSatiri == [rol : {"BURO_SAHIBI", "AVUKAT_YONETICI"}, aktif : BOOLEAN]
Tablo == {"admin", "uye"}

ASSUME KadroVarsayimi == UKurucu \in UAdmin /\ UIstek \subseteq Nat /\ Yok \notin AdminSatiri \cup UyeSatiri

AktifSuper == [rol |-> "SUPER_ADMIN", aktif |-> TRUE]
AktifSahip == [rol |-> "BURO_SAHIBI", aktif |-> TRUE]

UGelir(a) == a \in Ilk({b \in UIstek : uIstek[b] = Bos})
UIlerlet(a, k) == uIstek' = [uIstek EXCEPT ![a] = k]

\* Request a ends with a write to table t: the others' reads of t are stale.
UYaz(a, t) ==
  uIstek' = [b \in UIstek |->
               CASE b = a -> Bitti
                 [] b # a /\ uIstek[b] \notin {Bos, Bitti} /\ uIstek[b].tablo = t -> [uIstek[b] EXCEPT !.bayat = TRUE]
                 [] OTHER -> uIstek[b]]
USasar(a, t) == uSasan' = IF uIstek[a].bayat THEN uSasan \cup {t} ELSE uSasan

\* The fields a request gives; Yok leaves a field alone.
UYama(satir, rol, aktif) ==
  [rol |-> IF rol = Yok THEN satir.rol ELSE rol, aktif |-> IF aktif = Yok THEN satir.aktif ELSE aktif]

UAdim(tablo, adim, hedef, aktor, rol, aktif) ==
  [tablo |-> tablo, adim |-> adim, hedef |-> hedef, aktor |-> aktor, rol |-> rol, aktif |-> aktif, bayat |-> FALSE]

(* Administrators. *)

\* adminCreateSuperAdmin
UAdminEkle(a) ==
  /\ UGelir(a) /\ \E s \in UAdmin : uAdmin[s] = AktifSuper
  /\ \E s \in UAdmin, rol \in {"SUPER_ADMIN", "DESTEK"} :
       uAdmin[s] = Yok /\ uAdmin' = [uAdmin EXCEPT ![s] = [rol |-> rol, aktif |-> TRUE]]
  /\ UYaz(a, "admin") /\ UNCHANGED <<uUye, uSasan, uMudahale>>

\* adminUpdateSuperAdmin, adminSetSuperAdminActive: a change that takes an
\* active super admin away counts them first.
UAlir(satir, rol, aktif) == satir = AktifSuper /\ UYama(satir, rol, aktif) # AktifSuper

UAdminOku(a) ==
  /\ UGelir(a)
  /\ \E o, s \in UAdmin, rol \in {"SUPER_ADMIN", "DESTEK", Yok}, aktif \in {TRUE, FALSE, Yok} :
       /\ uAdmin[o] = AktifSuper /\ uAdmin[s] # Yok /\ ~(s = o /\ aktif = FALSE)
       /\ UIlerlet(a, UAdim("admin", IF UAlir(uAdmin[s], rol, aktif) THEN "say" ELSE "yaz", s, o, rol, aktif))
  /\ UNCHANGED <<uAdmin, uUye, uSasan, uMudahale>>

UIkiSuperMutant == TRUE   \* mutant: the last super admin is not looked for
\* activeSuper > 1
UIkiSuper == \E o, p \in UAdmin : o # p /\ uAdmin[o] = AktifSuper /\ uAdmin[p] = AktifSuper

UAdminSay(a) ==
  /\ uIstek[a].adim = "say" /\ UIkiSuper
  /\ UIlerlet(a, [uIstek[a] EXCEPT !.adim = "yaz"])
  /\ UNCHANGED <<uAdmin, uUye, uSasan, uMudahale>>

UAdminYaz(a) ==
  LET r == uIstek[a] IN
  /\ r.adim = "yaz" /\ r.tablo = "admin"
  /\ uAdmin' = [uAdmin EXCEPT ![r.hedef] = UYama(uAdmin[r.hedef], r.rol, r.aktif)]
  /\ UYaz(a, "admin") /\ USasar(a, "admin") /\ UNCHANGED <<uUye, uMudahale>>

\* bootstrapOwnerAdmin: one transaction that ends with one active administrator.
UKurucuKur(a) ==
  /\ UGelir(a)
  /\ uAdmin' = [s \in UAdmin |-> CASE s = UKurucu -> AktifSuper
                                   [] s # UKurucu /\ uAdmin[s] # Yok -> [uAdmin[s] EXCEPT !.aktif = FALSE]
                                   [] OTHER -> Yok]
  /\ UYaz(a, "admin") /\ UNCHANGED <<uUye, uSasan, uMudahale>>

(* Users of an office. *)

\* createUserInTenant, for an owner.
UUyeEkle(a) ==
  /\ UGelir(a) /\ \E o \in UUye : uUye[o] = AktifSahip
  /\ \E u \in UUye : uUye[u] = Yok /\ uUye' = [uUye EXCEPT ![u] = [rol |-> "AVUKAT_YONETICI", aktif |-> TRUE]]
  /\ UYaz(a, "uye") /\ UNCHANGED <<uAdmin, uSasan, uMudahale>>

\* An owner asks to update a user (updateUserInTenant), or to switch one off
\* (deactivateUserInTenant, rol = Yok).
UUyeIste(a) ==
  /\ UGelir(a)
  /\ \E o, u \in UUye, rol \in {"AVUKAT_YONETICI", Yok}, aktif \in BOOLEAN :
       /\ uUye[o] = AktifSahip /\ (rol = Yok => ~aktif)
       /\ UIlerlet(a, UAdim("uye", "oku", u, o, rol, aktif))
  /\ UNCHANGED <<uAdmin, uUye, uSasan, uMudahale>>

\* An update locks the fields of an owner, and none is refused to touch the
\* actor: both leave its role and activity alone.
UUyeOku(a) ==
  LET r == uIstek[a]   u == uUye[r.hedef] IN
  /\ r.adim = "oku" /\ r.aktor # Yok
  /\ IF u = Yok \/ r.hedef = r.aktor \/ (IF r.rol = Yok THEN ~u.aktif ELSE u.rol = "BURO_SAHIBI")
     THEN UIlerlet(a, Bitti) ELSE UIlerlet(a, [r EXCEPT !.adim = "yaz"])
  /\ UNCHANGED <<uAdmin, uUye, uSasan, uMudahale>>

\* adminUpdateUser: the platform's staff may set any role.
UYonetimIste(a) ==
  /\ UGelir(a)
  /\ \E u \in UUye, rol \in {"BURO_SAHIBI", "AVUKAT_YONETICI", Yok}, aktif \in {TRUE, FALSE, Yok} :
       uUye[u] # Yok /\ UIlerlet(a, UAdim("uye", "yaz", u, Yok, rol, aktif))
  /\ UNCHANGED <<uAdmin, uUye, uSasan, uMudahale>>

UUyeYaz(a) ==
  LET r == uIstek[a]   yeni == UYama(uUye[r.hedef], r.rol, r.aktif) IN
  /\ r.adim = "yaz" /\ r.tablo = "uye"
  /\ uUye' = [uUye EXCEPT ![r.hedef] = yeni]
  /\ uMudahale' = (uMudahale \/ (r.aktor = Yok /\ uUye[r.hedef] = AktifSahip /\ yeni # AktifSahip))
  /\ UYaz(a, "uye") /\ USasar(a, "uye") /\ UNCHANGED uAdmin

UDuser(a) ==
  /\ uIstek[a] \notin {Bos, Bitti} /\ UIlerlet(a, Bitti)
  /\ UNCHANGED <<uAdmin, uUye, uSasan, uMudahale>>

KadroInit ==
  /\ uAdmin \in [UAdmin -> AdminSatiri \cup {Yok}] /\ \E s \in UAdmin : uAdmin[s] = AktifSuper
  /\ uUye \in [UUye -> UyeSatiri \cup {Yok}] /\ \E u \in UUye : uUye[u] = AktifSahip
  /\ uIstek = [a \in UIstek |-> Bos] /\ uSasan = {} /\ uMudahale = FALSE

KadroNext ==
  \E a \in UIstek :
    \/ UAdminEkle(a) \/ UAdminOku(a) \/ UAdminSay(a) \/ UAdminYaz(a) \/ UKurucuKur(a)
    \/ UUyeEkle(a) \/ UUyeIste(a) \/ UUyeOku(a) \/ UYonetimIste(a) \/ UUyeYaz(a) \/ UDuser(a)

KadroSpec == KadroInit /\ [][KadroNext]_kadroVars

UAdminIstegi ==
  [tablo : {"admin"}, adim : {"say", "yaz"}, hedef : UAdmin, aktor : UAdmin, rol : {"SUPER_ADMIN", "DESTEK", Yok},
   aktif : BOOLEAN \cup {Yok}, bayat : BOOLEAN]
UUyeIstegi ==
  [tablo : {"uye"}, adim : {"oku", "yaz"}, hedef : UUye, aktor : UUye \cup {Yok},
   rol : {"BURO_SAHIBI", "AVUKAT_YONETICI", Yok}, aktif : BOOLEAN \cup {Yok}, bayat : BOOLEAN]

\* Tables, requests and history keep their types.
KadroTypeOK ==
  /\ uAdmin \in [UAdmin -> AdminSatiri \cup {Yok}] /\ uUye \in [UUye -> UyeSatiri \cup {Yok}]
  /\ uIstek \in [UIstek -> UAdminIstegi \cup UUyeIstegi \cup {Bos, Bitti}]
  /\ uSasan \subseteq Tablo /\ uMudahale \in BOOLEAN

\* The platform keeps a super admin and the office an owner who can sign in,
\* unless requests overlapped or the platform took the owner away.
KadroTutarli ==
  /\ "admin" \in uSasan \/ \E s \in UAdmin : uAdmin[s] = AktifSuper
  /\ "uye" \in uSasan \/ uMudahale \/ \E u \in UUye : uUye[u] = AktifSahip
=============================================================================
