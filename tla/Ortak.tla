-------------------------------- MODULE Ortak --------------------------------
(***************************************************************************)
(* What the modules of one office's services share: null, and the record   *)
(* of a request.  A request is served once; between two of its statements  *)
(* it keeps what it has read, and other requests run.                      *)
(***************************************************************************)
EXTENDS Integers, FiniteSets

CONSTANT Yok   \* null, "not given"

Bos   == [adim |-> "bos"]      \* the request has not arrived
Bitti == [adim |-> "bitti"]    \* answered, refused or lost

\* The least element: ids are numbers, handed out in order.
Ilk(S) == {x \in S : \A y \in S : x <= y}

\* Requests i after a moved to k and wrote what the others in flight have read.
Bayatlat(i, a, k) ==
  [b \in DOMAIN i |-> IF b = a THEN k
                      ELSE IF i[b] \in {Bos, Bitti} THEN i[b] ELSE [i[b] EXCEPT !.bayat = TRUE]]
=============================================================================
