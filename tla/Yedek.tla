-------------------------------- MODULE Yedek --------------------------------
(***************************************************************************)
(* Backups of one office and restoring one (backupRun.ts, backupExport.ts, *)
(* backupRetention.ts, restoreService.ts, restoreApply.ts, restoreDb.ts).  *)
(* A run exports the office in one read-only transaction, uploads the      *)
(* snapshot and then the manifest of the day, and removes older days.  A   *)
(* restore reads both objects, keeps a safety copy of what is there, and   *)
(* replaces it in one transaction of its own, while users go on working.   *)
(* A snapshot is known to its manifest by its digest: here, the number of  *)
(* the run that made it.  The objects of a safety copy have a name of      *)
(* their own and nothing removes them.                                     *)
(***************************************************************************)
EXTENDS Ortak, FiniteSetsExt

CONSTANTS
  YSatir,    \* rows of the office
  YGun,      \* the last day
  YSakla,    \* days kept (15)
  YIstek     \* runs and restores, numbered


VARIABLES
  yVeri,     \* per row, its content: 0 when there is none
  yBugun,
  yDepo,     \* per day: [s, m], the snapshot and the manifest: [no, veri] and the number it vouches for
  yIstek,
  ySasan,    \* history: days whose upload was cut short or overlapped another
  yOnay,     \* history: runs that uploaded their manifest, and for which day
  yGeri,     \* history: runs a restore brought back
  yKayip     \* history: rows a restore removed whose content the safety copy missed, see YUygula

yedekVars == <<yVeri, yBugun, yDepo, yIstek, ySasan, yOnay, yGeri, yKayip>>

YGunler == 1..YGun
YVeriTipi == [YSatir -> 0..2]
YAnlik == [no : YIstek, veri : YVeriTipi]

ASSUME YedekVarsayimi ==
  /\ YGun \in Nat \ {0} /\ YSakla \in Nat \ {0} /\ YIstek \subseteq Nat
  /\ Yok \notin YIstek \cup YAnlik

YedekInit ==
  /\ yVeri = [r \in YSatir |-> 1] /\ yBugun = 1 /\ yDepo = [d \in YGunler |-> [s |-> Yok, m |-> Yok]]
  /\ yIstek = [a \in YIstek |-> Bos]
  /\ ySasan = {} /\ yOnay = {} /\ yGeri = {} /\ yKayip = {}

YGunGecer ==
  /\ yBugun + 1 \in YGunler /\ yBugun' = yBugun + 1
  /\ UNCHANGED <<yVeri, yDepo, yIstek, ySasan, yOnay, yGeri, yKayip>>

\* What the restores in flight learn of rows S, written now: too late for the
\* safety copy, or in conflict with the transaction.
YDegisti(S) ==
  [b \in YIstek |->
     CASE yIstek[b].adim = "kopya"  -> [yIstek[b] EXCEPT !.arada = @ \cup S]
       [] yIstek[b].adim = "uygula" -> [yIstek[b] EXCEPT !.degisen = @ \cup (S \cap yIstek[b].gorulen)]
       [] OTHER -> yIstek[b]]

\* Users add, edit and remove rows.
YKullan(r) ==
  /\ \E v \in CASE yVeri[r] = 0 -> {1} [] yVeri[r] = 1 -> {0, 2} [] OTHER -> {0} : yVeri' = [yVeri EXCEPT ![r] = v]
  /\ yIstek' = YDegisti({r}) /\ UNCHANGED <<yBugun, yDepo, ySasan, yOnay, yGeri, yKayip>>

YIlerlet(a, k) == yIstek' = [yIstek EXCEPT ![a] = k]
YGelir(a) == a \in Ilk({b \in YIstek : yIstek[b] = Bos})

(* A run. *)

\* runTenantBackups, readTenantSnapshot.
YDisaAktar(a) ==
  /\ YGelir(a) /\ YIlerlet(a, [adim |-> "anlik", d |-> yBugun, veri |-> yVeri])
  /\ UNCHANGED <<yVeri, yBugun, yDepo, ySasan, yOnay, yGeri, yKayip>>

YYuklenen(d) == {b \in YIstek : yIstek[b].adim = "manifest" /\ yIstek[b].d = d}

YAnlikYukle(a) ==
  LET r == yIstek[a] IN
  /\ r.adim = "anlik" /\ YIlerlet(a, [r EXCEPT !.adim = "manifest"])
  /\ yDepo' = [yDepo EXCEPT ![r.d].s = [no |-> a, veri |-> r.veri]]
  /\ ySasan' = IF YYuklenen(r.d) # {} THEN ySasan \cup {r.d} ELSE ySasan
  /\ UNCHANGED <<yVeri, yBugun, yOnay, yGeri, yKayip>>

YManifestYukle(a) ==
  LET r == yIstek[a] IN
  /\ r.adim = "manifest" /\ YIlerlet(a, [adim |-> "sakla", d |-> r.d])
  /\ yDepo' = [yDepo EXCEPT ![r.d].m = a] /\ yOnay' = yOnay \cup {[no |-> a, d |-> r.d]}
  /\ UNCHANGED <<yVeri, yBugun, ySasan, yGeri, yKayip>>

\* selectRetentionDeletes, retentionKeepFrom.
YSilinecek(d, bugun) == d < bugun - (YSakla - 1)

YEskileriSil(a) ==
  /\ yIstek[a].adim = "sakla" /\ YIlerlet(a, Bitti)
  /\ yDepo' = [d \in YGunler |-> IF YSilinecek(d, yIstek[a].d) THEN [s |-> Yok, m |-> Yok] ELSE yDepo[d]]
  /\ UNCHANGED <<yVeri, yBugun, ySasan, yOnay, yGeri, yKayip>>

(* A restore. *)

\* runTenantRestore reads the snapshot ...
YGeriOku(a) ==
  /\ YGelir(a)
  /\ \E d \in YGunler : yDepo[d].s # Yok /\ YIlerlet(a, [adim |-> "dogrula", d |-> d, s |-> yDepo[d].s])
  /\ UNCHANGED <<yVeri, yBugun, yDepo, ySasan, yOnay, yGeri, yKayip>>

\* assertRestoreManifest.
YUyusur(s, m) == m = s.no

\* ... and then the manifest.
YDogrula(a) ==
  LET r == yIstek[a] IN
  /\ r.adim = "dogrula"
  /\ YIlerlet(a, IF YUyusur(r.s, yDepo[r.d].m) THEN [adim |-> "guvenli", s |-> r.s] ELSE Bitti)
  /\ UNCHANGED <<yVeri, yBugun, yDepo, ySasan, yOnay, yGeri, yKayip>>

\* The safety copy, exported and uploaded.
YGuvenliKopya(a) ==
  /\ yIstek[a].adim = "guvenli"
  /\ YIlerlet(a, [adim |-> "kopya", s |-> yIstek[a].s, kopya |-> yVeri, arada |-> {}])
  /\ UNCHANGED <<yVeri, yBugun, yDepo, ySasan, yOnay, yGeri, yKayip>>

\* applyRestoreSnapshot: the transaction sees the rows of this moment.  It
\* locks the office row, so a row is added meanwhile only by who held it then.
YIslem(a) ==
  LET r == yIstek[a] IN
  /\ r.adim = "kopya"
  /\ YIlerlet(a, [adim |-> "uygula", s |-> r.s, kopya |-> r.kopya, arada |-> r.arada,
                  gorulen |-> {x \in YSatir : yVeri[x] # 0}, degisen |-> {}])
  /\ UNCHANGED <<yVeri, yBugun, yDepo, ySasan, yOnay, yGeri, yKayip>>

YCakisirMutant(a) == FALSE   \* mutant: READ COMMITTED in place of REPEATABLE READ
\* A row it saw was changed meanwhile, or one it brings back exists.
YCakisir(a) ==
  \/ yIstek[a].degisen # {}
  \/ \E x \in YSatir \ yIstek[a].gorulen : yVeri[x] # 0 /\ yIstek[a].s.veri[x] # 0

\* It removes what it saw and brings the backup back; a row added meanwhile
\* stays.  Another restore in its transaction meets the updated office row.
YUygula(a) ==
  LET r == yIstek[a]
      yeni == [x \in YSatir |-> IF x \in r.gorulen \/ r.s.veri[x] # 0 THEN r.s.veri[x] ELSE yVeri[x]]
      degisen == {x \in YSatir : yeni[x] # yVeri[x]} IN
  /\ r.adim = "uygula"
  /\ IF YCakisir(a) THEN YIlerlet(a, Bitti) /\ UNCHANGED <<yVeri, yGeri, yKayip>>
     ELSE /\ yVeri' = yeni /\ yGeri' = yGeri \cup {r.s.no}
          /\ yKayip' = yKayip \cup {x \in degisen \ r.arada : yVeri[x] # 0 /\ r.kopya[x] # yVeri[x]}
          /\ yIstek' = [b \in YIstek |-> IF b = a \/ yIstek[b].adim = "uygula" THEN Bitti ELSE YDegisti(degisen)[b]]
  /\ UNCHANGED <<yBugun, yDepo, ySasan, yOnay>>

\* A failed call or the end of the process; the next run starts anew.
YDuser(a) ==
  /\ yIstek[a] \notin {Bos, Bitti} /\ YIlerlet(a, Bitti)
  /\ ySasan' = IF yIstek[a].adim = "manifest" THEN ySasan \cup {yIstek[a].d} ELSE ySasan
  /\ UNCHANGED <<yVeri, yBugun, yDepo, yOnay, yGeri, yKayip>>

YedekNext ==
  \/ YGunGecer
  \/ \E r \in YSatir : YKullan(r)
  \/ \E a \in YIstek : \/ YDisaAktar(a) \/ YAnlikYukle(a) \/ YManifestYukle(a) \/ YEskileriSil(a)
                       \/ YGeriOku(a) \/ YDogrula(a) \/ YGuvenliKopya(a) \/ YIslem(a) \/ YUygula(a) \/ YDuser(a)

YedekSpec == YedekInit /\ [][YedekNext]_yedekVars

-----------------------------------------------------------------------------
(* Properties *)

\* The type invariant of backups.
YedekTypeOK ==
  /\ yVeri \in YVeriTipi /\ yBugun \in YGunler
  /\ \A d \in YGunler : /\ yDepo[d].s = Yok \/ yDepo[d].s \in YAnlik
                        /\ yDepo[d].m \in YIstek \cup {Yok}
  /\ ySasan \subseteq YGunler /\ yOnay \subseteq [no : YIstek, d : YGunler]
  /\ yGeri \subseteq YIstek /\ yKayip \subseteq YSatir

YSaglam(d) == yDepo[d].s # Yok /\ yDepo[d].m = yDepo[d].s.no

\* A day with both objects, which the catalogue shows as successful, can be
\* restored, and so can the newest day that was completed, whatever the
\* retention removed, unless an upload of that day was cut short or
\* overlapped; only a completed run is ever brought back; and what a restore
\* removes is in its safety copy unless it was written after the copy and
\* before the transaction (backupRun.ts:113, backupRetention.ts:20,
\* restoreService.ts:76, :109, restoreDb.ts:16).
YedekTutarli ==
  /\ \A d \in YGunler \ ySasan :
       YYuklenen(d) = {} /\ yDepo[d].s # Yok /\ yDepo[d].m # Yok => YSaglam(d)
  /\ yOnay # {} => LET d == Max({o.d : o \in yOnay}) IN YSaglam(d) \/ d \in ySasan \/ YYuklenen(d) # {}
  /\ yGeri \subseteq {o.no : o \in yOnay}
  /\ yKayip = {}
=============================================================================
