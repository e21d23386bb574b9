------------------------------- MODULE MCOfis -------------------------------
(* The affairs of an office for TLC, one at a time.  A behaviour is one of:  *)
(*   talep   requests for message packages; a job spends credit meanwhile    *)
(*   mali, kur, gelen: one module each                                       *)
(* The requests for packages are interchangeable.                            *)
EXTENDS PaketTalep, MaliOzet, Kur, GelenMesaj, TLC

VARIABLE parca

OfisInit ==
  /\ Init /\ MaliInit /\ KurInit /\ GelenInit
  /\ parca \in {"talep", "mali", "kur", "gelen"}

\* Everything but the part p stays.
Kalan(p) ==
  /\ UNCHANGED parca
  /\ parca = p
  /\ p # "talep" => UNCHANGED vars
  /\ p # "mali" => UNCHANGED maliVars
  /\ p # "kur" => UNCHANGED kurVars
  /\ p # "gelen" => UNCHANGED gelenVars

OfisNext ==
  \/ Kalan("talep") /\ Next
  \/ Kalan("mali") /\ MaliNext
  \/ Kalan("kur") /\ KurNext /\ qOdeme.adim \notin {"yazildi", "red"}
  \/ Kalan("gelen") /\ GelenNext

OfisSpec == OfisInit /\ [][OfisNext]_<<parca, vars, maliVars, kurVars, gelenVars>>

\* The type invariant of the part that is looked at; the rows of the others stay.
OfisTypeOK ==
  /\ parca = "talep" => TypeOK
  /\ parca = "mali" => MaliTypeOK
  /\ parca = "kur" => KurTypeOK
  /\ parca = "gelen" => GelenTypeOK

Simetri == Permutations(TalepId)

\* Today in Turkey, when the first month has passed and the rows of the second
\* are dated ahead, and a day when every row is past.  The second case's
\* instalment was entered in between, and is late by Turkey's clock alone.
Gunler == {"tr", "sonra"}
Gecenler == [g \in Gunler \cup {"sunucu"} |-> IF g = "sunucu" THEN {1} ELSE {1, 2}]
Kadar == [g \in Gunler |-> IF g = "tr" THEN {0} ELSE {0, 1}]
Girilenler == [g \in Gunler |-> IF g = "tr" THEN {1} ELSE {1, 2}]
=============================================================================
