---------------------- MODULE WhatsAppMesajKrediProofs ----------------------
(***************************************************************************)
(* The wallet keeps its ledger for any number of callers, jobs, licence    *)
(* periods and payments.  The step that matters is HareketYaz, the locked  *)
(* section: one lemma shows what it preserves and that it is a step of the *)
(* abstract ledger, and every action is either that step or leaves the     *)
(* ledger alone.  The overview adds up because the sum of all movements is *)
(* the balance, and only charges take credit under their type.             *)
(***************************************************************************)
EXTENDS WhatsAppMesajKredi, FiniteSetTheorems, SequenceTheorems, WellFoundedInduction, TLAPS

-----------------------------------------------------------------------------
(* Sums over finite sets.  The models add up payments and ledger rows with *)
(* MapThenSumSet, a recursive function on the subsets of the set; what the *)
(* proofs need of it, here and in other modules, is stated for Topla(f, S),*)
(* the sum of f over S.  The inductions are arguments about a least        *)
(* counterexample.                                                         *)

Topla(f, S) == MapThenSumSet(LAMBDA x : f[x], S)

\* h adds up f over each subset of S.
Ozyineli(h, f, S) ==
  h = [s \in SUBSET S |->
         IF s = {} THEN 0 ELSE f[CHOOSE x \in s : TRUE] + h[s \ {CHOOSE x \in s : TRUE}]]

(* Of a set of finite sets, one contains no other.                         *)
LEMMA EnKucukKume ==
  ASSUME NEW S, IsFiniteSet(S), NEW B \in SUBSET (SUBSET S), B # {}
  PROVE  \E T \in B : \A Q \in B : Q \subseteq T => Q = T
<1> DEFINE N == {Cardinality(Q) : Q \in B}
           R == OpToRel(<, Nat)
<1>1. \A Q \in B : IsFiniteSet(Q) /\ Cardinality(Q) \in Nat
  BY FS_Subset, FS_CardinalityType
<1>2. N \subseteq Nat /\ N # {}
  BY <1>1
<1>3. IsWellFoundedOn(R, Nat)
  BY NatLessThanWellFounded
<1>4. \A x, y \in Nat : y < x => <<y, x>> \in R
  BY DEF OpToRel
<1> HIDE DEF R
<1>5. PICK n \in N : \A m \in N : ~(<<m, n>> \in R)
  <2> HIDE DEF N
  <2> QED BY <1>2, <1>3, WFMin
<1>6. PICK T \in B : n = Cardinality(T)
  BY <1>5
<1>7. ASSUME NEW Q \in B, Q \subseteq T PROVE Q = T
  <2>1. Cardinality(Q) \in N /\ Cardinality(Q) \in Nat /\ n \in Nat
    BY <1>1, <1>6
  <2>2. ~(Cardinality(Q) < n)
    BY <1>4, <1>5, <2>1
  <2>3. Cardinality(Q) <= Cardinality(T) /\ (Cardinality(T) = Cardinality(Q) => T = Q)
    BY <1>1, <1>7, FS_Subset
  <2> QED BY <1>6, <2>1, <2>2, <2>3
<1> QED BY <1>7

(* A set that is not empty loses the element that is taken first.          *)
LEMMA Secilen ==
  ASSUME NEW s, s # {}, NEW c, c = CHOOSE x \in s : TRUE
  PROVE  c \in s /\ s \ {c} \subseteq s /\ s \ {c} # s
OBVIOUS

(* Two functions that add up the same values agree wherever both do.       *)
LEMMA OzyineliTek ==
  ASSUME NEW S, IsFiniteSet(S), NEW T, NEW f, NEW g, NEW h, NEW k,
         Ozyineli(h, f, S), Ozyineli(k, g, T),
         NEW U \in SUBSET (S \cap T), \A x \in U : f[x] = g[x]
  PROVE  h[U] = k[U]
<1> DEFINE B == {Q \in SUBSET U : h[Q] # k[Q]}
<1>1. SUFFICES ASSUME B # {} PROVE FALSE
  OBVIOUS
<1>2. IsFiniteSet(U)
  BY FS_Subset
<1>3. PICK Q \in B : \A P \in B : P \subseteq Q => P = Q
  <2>1. B \in SUBSET (SUBSET U)
    OBVIOUS
  <2> HIDE DEF B
  <2> QED BY <1>1, <1>2, <2>1, EnKucukKume
<1>4. Q \in SUBSET S /\ Q \in SUBSET T /\ Q \in SUBSET U /\ h[Q] # k[Q]
  OBVIOUS
<1>5. Q # {}
  BY <1>4 DEF Ozyineli
<1>6. PICK c : c = CHOOSE x \in Q : TRUE
  OBVIOUS
<1>7. c \in Q /\ Q \ {c} \subseteq Q /\ Q \ {c} # Q
  BY <1>5, <1>6, Secilen
<1>8. h[Q \ {c}] = k[Q \ {c}]
  BY <1>3, <1>4, <1>7
<1>9. h[Q] = f[c] + h[Q \ {c}] /\ k[Q] = g[c] + k[Q \ {c}]
  BY <1>4, <1>5, <1>6 DEF Ozyineli
<1> QED BY <1>4, <1>7, <1>8, <1>9

(* Topla is the value of any function that adds up.                        *)
LEMMA ToplaDeger ==
  ASSUME NEW S, IsFiniteSet(S), NEW f, NEW g, Ozyineli(g, f, S)
  PROVE  Topla(f, S) = g[S]
<1> DEFINE P(h) == h = [s \in SUBSET S |->
                          IF s = {} THEN 0 ELSE f[CHOOSE x \in s : TRUE] + h[s \ {CHOOSE x \in s : TRUE}]]
<1>1. P(g)
  BY DEF Ozyineli
<1>2. PICK h : h = CHOOSE hh : P(hh)
  OBVIOUS
<1>3. Topla(f, S) = h[S]
  BY <1>2, Zenon DEF Topla, MapThenSumSet, MapThenFoldSet
<1> HIDE DEF P
<1>4. P(h)
  BY <1>1, <1>2, Zenon
<1>5. Ozyineli(h, f, S)
  BY <1>4 DEF P, Ozyineli
<1>6. h[S] = g[S]
  BY <1>5, OzyineliTek
<1> QED BY <1>3, <1>6

(* There is such a function.                                               *)
LEMMA OzyineliVar ==
  ASSUME NEW S, IsFiniteSet(S), NEW f
  PROVE  \E h : Ozyineli(h, f, S)
<1> DEFINE B == {Q \in SUBSET S : ~\E h : Ozyineli(h, f, Q)}
<1>1. SUFFICES ASSUME B # {} PROVE FALSE
  OBVIOUS
<1>2. PICK T \in B : \A P \in B : P \subseteq T => P = T
  <2>1. B \in SUBSET (SUBSET S)
    OBVIOUS
  <2> HIDE DEF B
  <2> QED BY <1>1, <2>1, EnKucukKume
<1>3. T \subseteq S /\ IsFiniteSet(T) /\ ~\E h : Ozyineli(h, f, T)
  BY FS_Subset
<1>4. ASSUME NEW Q \in SUBSET T, Q # T PROVE \E h : Ozyineli(h, f, Q)
  BY <1>2, <1>3, <1>4
<1> HIDE DEF B
<1> DEFINE H(s) == Topla(f, s)
           c(s) == CHOOSE x \in s : TRUE
           g == [s \in SUBSET T |-> IF s = {} THEN 0 ELSE f[c(s)] + H(s \ {c(s)})]
<1>5. ASSUME NEW Q \in SUBSET T, Q # T PROVE g[Q] = H(Q)
  <2>1. PICK h : Ozyineli(h, f, Q)
    BY <1>4, <1>5
  <2>2. IsFiniteSet(Q)
    BY <1>3, FS_Subset
  <2>3. H(Q) = h[Q]
    BY <2>1, <2>2, ToplaDeger
  <2>4. CASE Q = {}
    <3>1. h[Q] = 0
      BY <2>1, <2>4 DEF Ozyineli
    <3> QED BY <2>3, <2>4, <3>1
  <2>5. CASE Q # {}
    <3>1. PICK e : e = c(Q)
      OBVIOUS
    <3>2. e \in Q /\ Q \ {e} \subseteq Q /\ Q \ {e} # Q
      BY <2>5, <3>1, Secilen
    <3>3. h[Q] = f[e] + h[Q \ {e}]
      BY <2>1, <2>5, <3>1 DEF Ozyineli
    <3>4. Q \ {e} \in SUBSET T /\ Q \ {e} # T
      BY <1>5, <3>2
    <3>5. PICK k : Ozyineli(k, f, Q \ {e})
      BY <1>4, <3>4
    <3>6. IsFiniteSet(Q \ {e})
      BY <2>2, <3>2, FS_Subset
    <3>7. H(Q \ {e}) = k[Q \ {e}]
      BY <3>5, <3>6, ToplaDeger
    <3>8. h[Q \ {e}] = k[Q \ {e}]
      BY <2>1, <2>2, <3>2, <3>5, OzyineliTek
    <3>9. g[Q] = f[e] + H(Q \ {e})
      BY <1>5, <2>5, <3>1
    <3> QED BY <2>3, <3>3, <3>7, <3>8, <3>9
  <2> QED BY <2>4, <2>5
<1>6. ASSUME NEW s \in SUBSET T, s # {} PROVE H(s \ {c(s)}) = g[s \ {c(s)}]
  <2>1. PICK e : e = c(s)
    OBVIOUS
  <2>2. s \ {e} \in SUBSET T /\ s \ {e} # T
    BY <1>6, <2>1, Secilen
  <2> QED BY <1>5, <2>1, <2>2
<1>7. g = [s \in SUBSET T |-> IF s = {} THEN 0 ELSE f[c(s)] + g[s \ {c(s)}]]
  <2> DEFINE k == [s \in SUBSET T |-> IF s = {} THEN 0 ELSE f[c(s)] + g[s \ {c(s)}]]
  <2>1. ASSUME NEW s \in SUBSET T PROVE g[s] = k[s]
    <3> HIDE DEF H, c
    <3> QED BY <1>6
  <2>2. g = [s \in SUBSET T |-> g[s]] /\ k = [s \in SUBSET T |-> k[s]]
    OBVIOUS
  <2> HIDE DEF g, k
  <2>3. g = k
    BY <2>1, <2>2
  <2> QED BY <2>3 DEF k
<1>8. Ozyineli(g, f, T)
  <2> HIDE DEF g
  <2> QED BY <1>7 DEF Ozyineli
<1> QED BY <1>3, <1>8
-----------------------------------------------------------------------------
(* The sum *)

(* One function adds up every part of a set.                               *)
LEMMA ToplaParca ==
  ASSUME NEW S, IsFiniteSet(S), NEW f
  PROVE  \E h : Ozyineli(h, f, S) /\ \A U \in SUBSET S : Topla(f, U) = h[U]
<1>1. PICK h : Ozyineli(h, f, S)
  BY OzyineliVar
<1>2. ASSUME NEW U \in SUBSET S PROVE Topla(f, U) = h[U]
  <2>1. IsFiniteSet(U)
    BY FS_Subset
  <2>2. PICK k : Ozyineli(k, f, U)
    BY <2>1, OzyineliVar
  <2>3. Topla(f, U) = k[U]
    BY <2>1, <2>2, ToplaDeger
  <2>4. h[U] = k[U]
    BY <1>1, <2>2, OzyineliTek
  <2> QED BY <2>3, <2>4
<1> QED BY <1>1, <1>2

(* The sum over no element.                                                *)
LEMMA ToplaBos ==
  ASSUME NEW f
  PROVE  Topla(f, {}) = 0
<1>1. IsFiniteSet({})
  BY FS_EmptySet
<1>2. PICK h : Ozyineli(h, f, {}) /\ \A U \in SUBSET {} : Topla(f, U) = h[U]
  BY <1>1, ToplaParca
<1> QED BY <1>2 DEF Ozyineli

(* A sum starts with the element taken first.                              *)
LEMMA ToplaSec ==
  ASSUME NEW S, IsFiniteSet(S), S # {}, NEW f
  PROVE  \E c \in S : Topla(f, S) = f[c] + Topla(f, S \ {c})
<1>1. PICK h : Ozyineli(h, f, S) /\ \A U \in SUBSET S : Topla(f, U) = h[U]
  BY ToplaParca
<1>2. PICK c : c = CHOOSE x \in S : TRUE
  OBVIOUS
<1>3. h[S] = f[c] + h[S \ {c}] /\ c \in S
  BY <1>1, <1>2, Secilen DEF Ozyineli
<1>4. Topla(f, S) = h[S] /\ Topla(f, S \ {c}) = h[S \ {c}]
  BY <1>1
<1> QED BY <1>3, <1>4

(* Equal values have equal sums.                                           *)
LEMMA ToplaEsit ==
  ASSUME NEW S, IsFiniteSet(S), NEW f, NEW g, \A x \in S : f[x] = g[x]
  PROVE  Topla(f, S) = Topla(g, S)
<1>1. PICK h : Ozyineli(h, f, S) /\ \A U \in SUBSET S : Topla(f, U) = h[U]
  BY ToplaParca
<1>2. PICK k : Ozyineli(k, g, S) /\ \A U \in SUBSET S : Topla(g, U) = k[U]
  BY ToplaParca
<1>3. h[S] = k[S]
  BY <1>1, <1>2, OzyineliTek
<1> QED BY <1>1, <1>2, <1>3

(* The sum of integers is one.                                             *)
LEMMA ToplaTamSayi ==
  ASSUME NEW S, IsFiniteSet(S), NEW f, \A x \in S : f[x] \in Int
  PROVE  Topla(f, S) \in Int
<1> DEFINE B == {Q \in SUBSET S : Topla(f, Q) \notin Int}
<1>1. SUFFICES ASSUME B # {} PROVE FALSE
  OBVIOUS
<1>2. PICK Q \in B : \A P \in B : P \subseteq Q => P = Q
  <2>1. B \in SUBSET (SUBSET S)
    OBVIOUS
  <2> HIDE DEF B
  <2> QED BY <1>1, <2>1, EnKucukKume
<1>3. Q # {}
  BY ToplaBos
<1>4. IsFiniteSet(Q)
  BY FS_Subset
<1>5. PICK c \in Q : Topla(f, Q) = f[c] + Topla(f, Q \ {c})
  BY <1>3, <1>4, ToplaSec
<1>6. Q \ {c} \notin B
  BY <1>2
<1>7. Topla(f, Q \ {c}) \in Int /\ f[c] \in Int
  BY <1>6
<1> QED BY <1>5, <1>7

(* The order does not matter: any element can be taken first.              *)
LEMMA ToplaCikar ==
  ASSUME NEW S, IsFiniteSet(S), NEW f, \A x \in S : f[x] \in Int, NEW e \in S
  PROVE  Topla(f, S) = f[e] + Topla(f, S \ {e})
<1> DEFINE B == {Q \in SUBSET S : \E x \in Q : Topla(f, Q) # f[x] + Topla(f, Q \ {x})}
<1>1. SUFFICES ASSUME B # {} PROVE FALSE
  OBVIOUS
<1>2. PICK Q \in B : \A P \in B : P \subseteq Q => P = Q
  <2>1. B \in SUBSET (SUBSET S)
    OBVIOUS
  <2> HIDE DEF B
  <2> QED BY <1>1, <2>1, EnKucukKume
<1>3. PICK x \in Q : Topla(f, Q) # f[x] + Topla(f, Q \ {x})
  OBVIOUS
<1>4. Q \in SUBSET S /\ \A P \in SUBSET Q : IsFiniteSet(P)
  BY FS_Subset
<1>6. PICK c \in Q : Topla(f, Q) = f[c] + Topla(f, Q \ {c})
  BY <1>3, <1>4, ToplaSec
<1>7. x # c
  BY <1>3, <1>6
<1>8. Q \ {c} \notin B /\ Q \ {x} \notin B
  BY <1>2, <1>6
<1>9. Topla(f, Q \ {c}) = f[x] + Topla(f, (Q \ {c}) \ {x})
  BY <1>4, <1>7, <1>8
<1>10. Topla(f, Q \ {x}) = f[c] + Topla(f, (Q \ {x}) \ {c})
  BY <1>4, <1>6, <1>7, <1>8
<1>11. (Q \ {c}) \ {x} = (Q \ {x}) \ {c}
  OBVIOUS
<1>12. Topla(f, (Q \ {c}) \ {x}) \in Int /\ f[x] \in Int /\ f[c] \in Int
  <2>1. IsFiniteSet((Q \ {c}) \ {x}) /\ \A y \in (Q \ {c}) \ {x} : f[y] \in Int
    BY <1>4
  <2> QED BY <1>4, <1>6, <2>1, ToplaTamSayi
<1>13. PICK u : u = Topla(f, (Q \ {c}) \ {x})
  OBVIOUS
<1>14. Topla(f, Q) = f[c] + (f[x] + u) /\ Topla(f, Q \ {x}) = f[c] + u
  BY <1>6, <1>9, <1>10, <1>11, <1>13, Zenon
<1>15. u \in Int /\ f[x] \in Int /\ f[c] \in Int
  BY <1>12, <1>13
<1>16. f[c] + (f[x] + u) = f[x] + (f[c] + u)
  BY <1>15
<1> QED BY <1>3, <1>14, <1>16, Zenon

(* A new element adds its value.                                           *)
LEMMA ToplaEkle ==
  ASSUME NEW S, IsFiniteSet(S), NEW e, e \notin S, NEW f, \A x \in S \cup {e} : f[x] \in Int
  PROVE  Topla(f, S \cup {e}) = f[e] + Topla(f, S)
<1>1. IsFiniteSet(S \cup {e})
  BY FS_AddElement
<1>2. (S \cup {e}) \ {e} = S
  OBVIOUS
<1> QED BY <1>1, <1>2, ToplaCikar

(* The sum of a part is no more than the whole, and no sum is negative.    *)
LEMMA ToplaArtar ==
  ASSUME NEW S, IsFiniteSet(S), NEW T \in SUBSET S, NEW f, \A x \in S : f[x] \in Nat
  PROVE  /\ Topla(f, S) \in Nat /\ Topla(f, T) \in Nat
         /\ Topla(f, T) <= Topla(f, S)
<1>0. \A U \in SUBSET S : IsFiniteSet(U) /\ Topla(f, U) \in Int
  <2>1. ASSUME NEW U \in SUBSET S PROVE IsFiniteSet(U) /\ \A x \in U : f[x] \in Int
    BY FS_Subset
  <2> QED BY <2>1, ToplaTamSayi
<1> DEFINE B == {Q \in SUBSET S : \E P \in SUBSET Q : ~(0 <= Topla(f, P) /\ Topla(f, P) <= Topla(f, Q))}
<1>1. ASSUME B # {} PROVE FALSE
  <2>1. PICK Q \in B : \A P \in B : P \subseteq Q => P = Q
    <3>1. B \in SUBSET (SUBSET S)
      OBVIOUS
    <3> HIDE DEF B
    <3> QED BY <1>1, <3>1, EnKucukKume
  <2>2. PICK P \in SUBSET Q : ~(0 <= Topla(f, P) /\ Topla(f, P) <= Topla(f, Q))
    OBVIOUS
  <2>3. CASE Q = {}
    <3>1. Topla(f, {}) = 0
      BY ToplaBos
    <3>2. P = {}
      BY <2>3
    <3>3. Topla(f, P) = 0 /\ Topla(f, Q) = 0
      BY <2>3, <3>1, <3>2
    <3> HIDE DEF B
    <3> QED BY <2>2, <3>3
  <2>4. CASE Q # {} /\ P = Q
    <3>1. PICK e : e \in Q
      BY <2>4
    <3>2. Q \ {e} \notin B
      BY <2>1, <3>1
    <3>3. 0 <= Topla(f, Q \ {e})
      BY <3>2
    <3>4. Topla(f, Q) = f[e] + Topla(f, Q \ {e})
      <4>1. IsFiniteSet(Q) /\ \A x \in Q : f[x] \in Int
        BY <1>0
      <4> QED BY <3>1, <4>1, ToplaCikar
    <3>5. f[e] \in Nat /\ Topla(f, Q \ {e}) \in Int /\ Topla(f, Q) \in Int
      BY <1>0, <3>1
    <3> HIDE DEF B
    <3> QED BY <2>2, <2>4, <3>3, <3>4, <3>5
  <2>5. CASE P # Q
    <3>1. PICK e : e \in Q /\ e \notin P
      BY <2>5
    <3>2. Q \ {e} \notin B /\ P \in SUBSET (Q \ {e})
      BY <2>1, <3>1
    <3>3. 0 <= Topla(f, P) /\ Topla(f, P) <= Topla(f, Q \ {e})
      BY <3>2
    <3>4. Topla(f, Q) = f[e] + Topla(f, Q \ {e})
      <4>1. IsFiniteSet(Q) /\ \A x \in Q : f[x] \in Int
        BY <1>0
      <4> QED BY <3>1, <4>1, ToplaCikar
    <3>5. f[e] \in Nat /\ Topla(f, Q \ {e}) \in Int /\ Topla(f, Q) \in Int /\ Topla(f, P) \in Int
      BY <1>0, <3>1
    <3> HIDE DEF B
    <3> QED BY <2>2, <3>3, <3>4, <3>5
  <2> QED BY <2>3, <2>4, <2>5
<1>2. 0 <= Topla(f, T) /\ Topla(f, T) <= Topla(f, S)
  BY <1>1
<1>3. Topla(f, S) \in Int /\ Topla(f, T) \in Int
  BY <1>0
<1> HIDE DEF B
<1> QED BY <1>2, <1>3

(* Two sums over sets that have nothing in common.                         *)
LEMMA ToplaBirlesim ==
  ASSUME NEW S, IsFiniteSet(S), NEW T, IsFiniteSet(T), S \cap T = {},
         NEW f, \A x \in S \cup T : f[x] \in Int
  PROVE  Topla(f, S \cup T) = Topla(f, S) + Topla(f, T)
<1> DEFINE B == {Q \in SUBSET T : Topla(f, S \cup Q) # Topla(f, S) + Topla(f, Q)}
<1>0. \A Q \in SUBSET T : IsFiniteSet(Q) /\ IsFiniteSet(S \cup Q) /\ \A x \in S \cup Q : f[x] \in Int
  <2> SUFFICES ASSUME NEW Q \in SUBSET T PROVE IsFiniteSet(Q) /\ IsFiniteSet(S \cup Q)
    OBVIOUS
  <2>1. IsFiniteSet(Q)
    BY FS_Subset
  <2> QED BY <2>1, FS_Union
<1>1. ASSUME B # {} PROVE FALSE
  <2>1. PICK Q \in B : \A P \in B : P \subseteq Q => P = Q
    <3>1. B \in SUBSET (SUBSET T)
      OBVIOUS
    <3> HIDE DEF B
    <3> QED BY <1>1, <3>1, EnKucukKume
  <2>2. Q \in SUBSET T /\ Topla(f, S \cup Q) # Topla(f, S) + Topla(f, Q)
    OBVIOUS
  <2>3. CASE Q = {}
    <3>1. Topla(f, {}) = 0
      BY ToplaBos
    <3>2. S \cup Q = S /\ Topla(f, S) \in Int
      BY <2>3, ToplaTamSayi
    <3> HIDE DEF B
    <3> QED BY <2>2, <2>3, <3>1, <3>2
  <2>4. CASE Q # {}
    <3>1. PICK e : e \in Q
      BY <2>4
    <3>2. Q \ {e} \notin B /\ Q \ {e} \in SUBSET T
      BY <2>1, <3>1
    <3>3. Topla(f, S \cup (Q \ {e})) = Topla(f, S) + Topla(f, Q \ {e})
      BY <3>2
    <3> HIDE DEF B
    <3>4. Topla(f, Q) = f[e] + Topla(f, Q \ {e})
      <4>1. IsFiniteSet(Q) /\ \A x \in Q : f[x] \in Int
        BY <1>0, <2>2
      <4> QED BY <3>1, <4>1, ToplaCikar
    <3>5. Topla(f, S \cup Q) = f[e] + Topla(f, S \cup (Q \ {e}))
      <4>1. IsFiniteSet(S \cup Q) /\ (\A x \in S \cup Q : f[x] \in Int) /\ e \in S \cup Q
        BY <1>0, <2>2, <3>1
      <4>2. (S \cup Q) \ {e} = S \cup (Q \ {e})
        BY <2>2, <3>1
      <4> QED BY <4>1, <4>2, ToplaCikar
    <3>6. f[e] \in Int /\ Topla(f, Q \ {e}) \in Int /\ Topla(f, S) \in Int
      <4>1. IsFiniteSet(Q \ {e}) /\ \A x \in Q \ {e} : f[x] \in Int
        BY <1>0, <3>2
      <4>2. IsFiniteSet(S) /\ \A x \in S : f[x] \in Int
        OBVIOUS
      <4>3. Topla(f, Q \ {e}) \in Int
        BY <4>1, ToplaTamSayi
      <4>4. Topla(f, S) \in Int
        BY <4>2, ToplaTamSayi
      <4> QED BY <2>2, <3>1, <4>3, <4>4
    <3> QED BY <2>2, <3>3, <3>4, <3>5, <3>6
  <2> QED BY <2>3, <2>4
<1>2. T \notin B
  BY <1>1
<1> QED BY <1>2

(* A sum over some of the places of another is no more than that one.      *)
LEMMA ToplaAktar ==
  ASSUME NEW T, IsFiniteSet(T), NEW I, IsFiniteSet(I), NEW j \in [T -> I],
         \A t, u \in T : j[t] = j[u] => t = u,
         NEW f, \A i \in I : f[i] \in Nat, NEW g, \A t \in T : g[t] = f[j[t]]
  PROVE  Topla(g, T) <= Topla(f, I)
<1> DEFINE J(Q) == {j[t] : t \in Q}
           B == {Q \in SUBSET T : Topla(g, Q) # Topla(f, J(Q))}
<1>0. \A Q \in SUBSET T : IsFiniteSet(Q) /\ IsFiniteSet(J(Q)) /\ J(Q) \subseteq I
  <2> SUFFICES ASSUME NEW Q \in SUBSET T PROVE IsFiniteSet(Q) /\ IsFiniteSet(J(Q)) /\ J(Q) \subseteq I
    OBVIOUS
  <2>1. J(Q) \in SUBSET I
    OBVIOUS
  <2> HIDE DEF J
  <2> QED BY <2>1, FS_Subset
<1>1. ASSUME B # {} PROVE FALSE
  <2>1. PICK Q \in B : \A P \in B : P \subseteq Q => P = Q
    <3>1. B \in SUBSET (SUBSET T)
      OBVIOUS
    <3> HIDE DEF B
    <3> QED BY <1>1, <3>1, EnKucukKume
  <2>2. Q \in SUBSET T /\ Topla(g, Q) # Topla(f, J(Q))
    OBVIOUS
  <2>3. CASE Q = {}
    <3>1. Topla(f, {}) = 0 /\ Topla(g, {}) = 0
      BY ToplaBos
    <3>2. J(Q) = {}
      BY <2>3
    <3> HIDE DEF B, J
    <3> QED BY <2>2, <2>3, <3>1, <3>2
  <2>4. CASE Q # {}
    <3>1. PICK e : e \in Q
      BY <2>4
    <3>2. Q \ {e} \notin B /\ Q \ {e} \in SUBSET T
      BY <2>1, <3>1
    <3>3. Topla(g, Q \ {e}) = Topla(f, J(Q \ {e}))
      BY <3>2
    <3>4. j[e] \in J(Q) /\ J(Q) \ {j[e]} = J(Q \ {e})
      BY <2>2, <3>1
    <3>5. \A t \in Q : g[t] \in Int /\ g[e] = f[j[e]]
      BY <2>2, <3>1
    <3> HIDE DEF B, J
    <3>6. Topla(g, Q) = g[e] + Topla(g, Q \ {e})
      <4>1. IsFiniteSet(Q)
        BY <1>0, <2>2
      <4> QED BY <3>1, <3>5, <4>1, ToplaCikar
    <3>7. Topla(f, J(Q)) = f[j[e]] + Topla(f, J(Q) \ {j[e]})
      <4>1. IsFiniteSet(J(Q)) /\ \A x \in J(Q) : f[x] \in Int
        BY <1>0, <2>2
      <4> QED BY <3>4, <4>1, ToplaCikar
    <3> QED BY <2>2, <3>1, <3>3, <3>4, <3>5, <3>6, <3>7
  <2> QED BY <2>3, <2>4
<1>2. Topla(g, T) = Topla(f, J(T))
  BY <1>1
<1>3. J(T) \in SUBSET I
  BY <1>0
<1> HIDE DEF B, J
<1> QED BY <1>2, <1>3, ToplaArtar

(* The sum of a sum.                                                       *)
LEMMA ToplaToplam ==
  ASSUME NEW S, IsFiniteSet(S), NEW f, NEW g, NEW h,
         \A x \in S : f[x] \in Int /\ g[x] \in Int /\ h[x] = f[x] + g[x]
  PROVE  Topla(h, S) = Topla(f, S) + Topla(g, S)
<1> DEFINE B == {Q \in SUBSET S : Topla(h, Q) # Topla(f, Q) + Topla(g, Q)}
<1>1. SUFFICES ASSUME B # {} PROVE FALSE
  OBVIOUS
<1>2. PICK Q \in B : \A P \in B : P \subseteq Q => P = Q
  <2>1. B \in SUBSET (SUBSET S)
    OBVIOUS
  <2> HIDE DEF B
  <2> QED BY <1>1, <2>1, EnKucukKume
<1>3. Q \subseteq S /\ Topla(h, Q) # Topla(f, Q) + Topla(g, Q)
  OBVIOUS
<1>4. IsFiniteSet(Q)
  BY <1>3, FS_Subset
<1>5. Q # {}
  <2> SUFFICES ASSUME Q = {} PROVE FALSE
    OBVIOUS
  <2>1. Topla(h, {}) = 0 /\ Topla(f, {}) = 0 /\ Topla(g, {}) = 0
    BY ToplaBos
  <2> QED BY <1>3, <2>1
<1>6. PICK c \in Q : Topla(h, Q) = h[c] + Topla(h, Q \ {c})
  BY <1>4, <1>5, ToplaSec
<1>7. (\A x \in Q : f[x] \in Int /\ g[x] \in Int) /\ h[c] = f[c] + g[c] /\ f[c] \in Int /\ g[c] \in Int
  BY <1>3
<1>8. Topla(f, Q) = f[c] + Topla(f, Q \ {c}) /\ Topla(g, Q) = g[c] + Topla(g, Q \ {c})
  BY <1>4, <1>7, ToplaCikar
<1>9. PICK P : P = Q \ {c}
  OBVIOUS
<1>10. P \subseteq Q /\ P # Q /\ IsFiniteSet(P) /\ P \in SUBSET S
  BY <1>3, <1>4, <1>9, FS_Subset
<1>11. Topla(h, P) = Topla(f, P) + Topla(g, P)
  BY <1>2, <1>10
<1>12. Topla(f, P) \in Int /\ Topla(g, P) \in Int
  BY <1>7, <1>10, ToplaTamSayi
<1> QED BY <1>3, <1>6, <1>7, <1>8, <1>9, <1>11, <1>12

(* What is subtracted everywhere is subtracted from the sum.               *)
LEMMA ToplaFark ==
  ASSUME NEW S, IsFiniteSet(S), NEW f, NEW g, NEW h,
         \A x \in S : f[x] \in Int /\ g[x] \in Int /\ h[x] = f[x] - g[x]
  PROVE  Topla(h, S) = Topla(f, S) - Topla(g, S)
<1>1. \A x \in S : h[x] \in Int /\ g[x] \in Int /\ f[x] = h[x] + g[x]
  OBVIOUS
<1>2. Topla(f, S) = Topla(h, S) + Topla(g, S)
  BY <1>1, ToplaToplam
<1>3. Topla(h, S) \in Int /\ Topla(g, S) \in Int
  BY <1>1, ToplaTamSayi
<1> QED BY <1>2, <1>3

LEMMA ToplaSifir ==
  ASSUME NEW S, IsFiniteSet(S), NEW f, \A x \in S : f[x] = 0 PROVE Topla(f, S) = 0
<1>1. \A x \in S : f[x] \in Int /\ f[x] = f[x] + f[x]
  OBVIOUS
<1>2. Topla(f, S) = Topla(f, S) + Topla(f, S)
  BY <1>1, ToplaToplam
<1>3. PICK t \in Int : t = Topla(f, S)
  BY <1>1, ToplaTamSayi
<1>4. t = t + t
  BY <1>2, <1>3
<1>5. \A n \in Int : n = n + n => n = 0
  OBVIOUS
<1>6. t = 0
  BY <1>4, <1>5, Zenon
<1> QED BY <1>3, <1>6, Zenon

LEMMA ToplaEksi ==
  ASSUME NEW S, IsFiniteSet(S), NEW f, NEW h, \A x \in S : f[x] \in Int /\ h[x] = -f[x]
  PROVE  Topla(h, S) = -Topla(f, S)
<1> DEFINE k == [x \in S |-> 0]
<1>1. \A x \in S : k[x] = 0 /\ f[x] \in Int /\ k[x] \in Int /\ h[x] = k[x] - f[x]
  OBVIOUS
<1> HIDE DEF k
<1>2. Topla(k, S) = 0
  BY <1>1, ToplaSifir
<1>3. Topla(h, S) = Topla(k, S) - Topla(f, S)
  BY <1>1, ToplaFark
<1>4. Topla(f, S) \in Int
  BY <1>1, ToplaTamSayi
<1> QED BY <1>2, <1>3, <1>4

(* The parts of a set have together as many elements as the set.           *)
LEMMA ToplaParcalar ==
  ASSUME NEW C, IsFiniteSet(C), NEW K, IsFiniteSet(K), NEW p, \A x \in K : p[x] \in C, NEW f, NEW v,
         \A c \in C : f[c] = Cardinality(v[c]) /\ (\A x : x \in v[c] <=> x \in K /\ p[x] = c)
  PROVE  Topla(f, C) = Cardinality(K)
<1> DEFINE U(Q) == {x \in K : p[x] \in Q}
           B == {Q \in SUBSET C : Topla(f, Q) # Cardinality(U(Q))}
<1>1. SUFFICES ASSUME B # {} PROVE FALSE
  <2>1. C \notin B
    OBVIOUS
  <2>2. U(C) = K
    OBVIOUS
  <2> QED BY <2>1, <2>2
<1>2. PICK Q \in B : \A P \in B : P \subseteq Q => P = Q
  <2>1. B \in SUBSET (SUBSET C)
    OBVIOUS
  <2> HIDE DEF B
  <2> QED BY <1>1, <2>1, EnKucukKume
<1>3. Q \subseteq C /\ Topla(f, Q) # Cardinality(U(Q))
  OBVIOUS
<1>4. IsFiniteSet(Q) /\ \A T \in SUBSET K : IsFiniteSet(T) /\ Cardinality(T) \in Nat
  <2>1. \A T \in SUBSET K : IsFiniteSet(T)
    BY FS_Subset
  <2> QED BY <1>3, <2>1, FS_Subset, FS_CardinalityType
<1>5. Q # {}
  <2> SUFFICES ASSUME Q = {} PROVE FALSE
    OBVIOUS
  <2>1. Topla(f, {}) = 0
    BY ToplaBos
  <2>2. U({}) = {}
    OBVIOUS
  <2>3. Cardinality({}) = 0
    BY FS_EmptySet
  <2> QED BY <1>3, <2>1, <2>2, <2>3
<1>6. PICK c \in Q : Topla(f, Q) = f[c] + Topla(f, Q \ {c})
  BY <1>4, <1>5, ToplaSec
<1>7. PICK P : P = Q \ {c}
  OBVIOUS
<1>8. Topla(f, P) = Cardinality(U(P))
  <2>1. P \subseteq Q /\ P # Q /\ P \in SUBSET C
    BY <1>3, <1>7
  <2> QED BY <1>2, <2>1
<1>9. PICK V : V = v[c] /\ \A x : x \in V <=> x \in K /\ p[x] = c
  BY <1>3
<1>10. U(Q) = U(P) \cup V /\ U(P) \cap V = {} /\ U(P) \in SUBSET K /\ V \in SUBSET K
  BY <1>7, <1>9
<1>11. PICK W : W = U(P)
  OBVIOUS
<1>12. Cardinality(W \cup V) = Cardinality(W) + Cardinality(V) - Cardinality(W \cap V)
  BY <1>4, <1>10, <1>11, FS_Union
<1>13. Cardinality(W \cap V) = 0 /\ Cardinality(W) \in Nat /\ Cardinality(V) \in Nat
  BY <1>4, <1>10, <1>11, FS_EmptySet
<1>14. f[c] = Cardinality(V)
  BY <1>3, <1>9
<1>15. Cardinality(U(Q)) = Cardinality(W \cup V)
  BY <1>10, <1>11
<1> HIDE DEF U
<1> QED BY <1>3, <1>6, <1>7, <1>8, <1>11, <1>12, <1>13, <1>14, <1>15

(* A sum of equal values.                                                  *)
LEMMA ToplaSabit ==
  ASSUME NEW S, IsFiniteSet(S), NEW f, NEW c \in Int, \A x \in S : f[x] = c
  PROVE  Topla(f, S) = c * Cardinality(S)
<1> DEFINE B == {Q \in SUBSET S : Topla(f, Q) # c * Cardinality(Q)}
<1>1. SUFFICES ASSUME B # {} PROVE FALSE
  OBVIOUS
<1>2. PICK Q \in B : \A P \in B : P \subseteq Q => P = Q
  <2>1. B \in SUBSET (SUBSET S)
    OBVIOUS
  <2> HIDE DEF B
  <2> QED BY <1>1, <2>1, EnKucukKume
<1>3. IsFiniteSet(Q) /\ Q \in SUBSET S
  BY FS_Subset
<1>4. Q # {}
  <2>1. Topla(f, {}) = 0 /\ Cardinality({}) = 0 /\ c * 0 = 0
    BY ToplaBos, FS_EmptySet
  <2> QED BY <2>1
<1>5. PICK e : e \in Q
  BY <1>4
<1>6. Q \ {e} \notin B /\ Q \ {e} \in SUBSET S
  BY <1>2, <1>5
<1>7. Topla(f, Q \ {e}) = c * Cardinality(Q \ {e})
  BY <1>6
<1>8. Topla(f, Q) = f[e] + Topla(f, Q \ {e})
  <2>1. \A x \in Q : f[x] \in Int
    BY <1>3
  <2> QED BY <1>3, <1>5, <2>1, ToplaCikar
<1>9. Cardinality(Q \ {e}) = Cardinality(Q) - 1 /\ Cardinality(Q) \in Nat
  BY <1>3, <1>5, FS_RemoveElement, FS_CardinalityType
<1>10. f[e] = c /\ Topla(f, Q) # c * Cardinality(Q)
  BY <1>3, <1>5
<1> HIDE DEF B
<1>11. c + c * (Cardinality(Q) - 1) = c * Cardinality(Q)
  <2>1. ASSUME NEW n \in Nat PROVE c + c * (n - 1) = c * n
    BY <2>1
  <2> QED BY <1>9, <2>1
<1> QED BY <1>7, <1>8, <1>9, <1>10, <1>11

(* A sum over the parts of a set is the sum over the set.                  *)
LEMMA ToplaGrup ==
  ASSUME NEW C, IsFiniteSet(C), NEW K, IsFiniteSet(K), NEW p, \A x \in K : p[x] \in C,
         NEW w, \A x \in K : w[x] \in Int,
         NEW f, NEW v, \A c \in C : f[c] = Topla(w, v[c]) /\ \A x : x \in v[c] <=> x \in K /\ p[x] = c
  PROVE  Topla(f, C) = Topla(w, K)
<1> DEFINE U(Q) == {x \in K : p[x] \in Q}
           V(c) == v[c]
           B == {Q \in SUBSET C : Topla(f, Q) # Topla(w, U(Q))}
<1>1. SUFFICES ASSUME B # {} PROVE FALSE
  <2>1. Topla(f, C) = Topla(w, U(C))
    OBVIOUS
  <2>2. U(C) = K
    OBVIOUS
  <2> HIDE DEF U
  <2> QED BY <2>1, <2>2
<1>2. PICK Q \in B : \A P \in B : P \subseteq Q => P = Q
  <2>1. B \in SUBSET (SUBSET C)
    OBVIOUS
  <2> HIDE DEF B
  <2> QED BY <1>1, <2>1, EnKucukKume
<1>3. Q \subseteq C /\ Topla(f, Q) # Topla(w, U(Q))
  OBVIOUS
<1>4. IsFiniteSet(Q) /\ \A T \in SUBSET K : IsFiniteSet(T) /\ Topla(w, T) \in Int
  <2>1. \A T \in SUBSET K : IsFiniteSet(T)
    BY FS_Subset
  <2>2. ASSUME NEW T \in SUBSET K PROVE Topla(w, T) \in Int
    BY <2>1, ToplaTamSayi
  <2> QED BY <1>3, <2>1, <2>2, FS_Subset
<1>5. Q # {}
  <2> SUFFICES ASSUME Q = {} PROVE FALSE
    OBVIOUS
  <2>1. Topla(f, {}) = 0 /\ Topla(w, {}) = 0
    BY ToplaBos
  <2>2. U({}) = {}
    OBVIOUS
  <2> QED BY <1>3, <2>1, <2>2
<1>6. PICK c \in Q : Topla(f, Q) = f[c] + Topla(f, Q \ {c})
  BY <1>4, <1>5, ToplaSec
<1>7. PICK P : P = Q \ {c}
  OBVIOUS
<1>8. Topla(f, P) = Topla(w, U(P))
  <2>1. P \subseteq Q /\ P # Q /\ P \in SUBSET C
    BY <1>3, <1>7
  <2> QED BY <1>2, <2>1
<1>9. U(Q) = U(P) \cup V(c) /\ U(P) \cap V(c) = {} /\ U(P) \in SUBSET K /\ V(c) \in SUBSET K
  BY <1>7
<1>10. f[c] = Topla(w, V(c))
  BY <1>3
<1> HIDE DEF U, V, B
<1>11. Topla(w, U(P) \cup V(c)) = Topla(w, U(P)) + Topla(w, V(c))
  BY <1>4, <1>9, ToplaBirlesim
<1>12. Topla(w, U(P)) \in Int /\ Topla(w, V(c)) \in Int
  BY <1>4, <1>9
<1>13. Topla(f, Q) = f[c] + Topla(f, P)
  BY <1>6, <1>7
<1>14. Topla(w, U(Q)) = Topla(w, U(P)) + Topla(w, V(c))
  BY <1>9, <1>11
<1> QED BY <1>3, <1>8, <1>10, <1>12, <1>13, <1>14

-----------------------------------------------------------------------------
(* The wallet *)

DefterTipi == bakiye \in Int /\ defter \in Seq(Hareket)

\* What holds of the two tables alone.
DefterInv ==
  /\ DefterTipi
  /\ BakiyeDefterinSonucu
  /\ BakiyeEksiyeDusmez
  /\ TekHareket
  /\ IadeTuketimdenSonra

\* What a caller carries to the lock: the amount of a credit or a refund, and
\* a refund only for a charge that is in the ledger.  The ledger only grows,
\* so what was read before the lock still holds under it.
CagriTutarli ==
  \A c \in Cagiran :
    /\ cagri[c].adim = "tuketim" =>
         cagri[c].tip = "IADE" /\ cagri[c].ref \in Is /\ cagri[c].miktar = 1
    /\ cagri[c].adim = "kilit" =>
         /\ cagri[c].tip \in HareketTipi
         /\ cagri[c].miktar \in Nat
         /\ cagri[c].tip = "IADE" => Kayitli("MESAJ_GONDERIM", cagri[c].ref)

KrediInv == DefterInv /\ cagri \in [Cagiran -> Cagri] /\ CagriTutarli

-----------------------------------------------------------------------------

(* Appending a movement adds its key to the ledger and keeps every other.  *)
LEMMA HareketEkle ==
  ASSUME DefterTipi,
         NEW tip \in HareketTipi, NEW ref \in Referans \cup {Yok}, NEW n \in Int,
         HareketYaz(tip, ref, n)
  PROVE  /\ DefterTipi'
         /\ Len(defter') = Len(defter) + 1
         /\ \A i \in 1..Len(defter) : defter'[i] = defter[i]
         /\ defter'[Len(defter) + 1] = SonrakiHareket(tip, ref, n)
         /\ \A t, r : Kayitli(t, r) => Kayitli(t, r)'
<1> DEFINE h == SonrakiHareket(tip, ref, n)
<1>1. h \in Hareket
  BY DEF DefterTipi, SonrakiHareket, Hareket
<1>2. defter \in Seq(Hareket) /\ defter' = Append(defter, h) /\ bakiye' = bakiye + n
  BY DEF DefterTipi, HareketYaz
<1> HIDE DEF h
<1>3. /\ defter' \in Seq(Hareket)
      /\ Len(defter') = Len(defter) + 1
      /\ \A i \in 1..Len(defter) : defter'[i] = defter[i]
      /\ defter'[Len(defter) + 1] = h
  BY <1>1, <1>2, AppendProperties
<1>4. Len(defter) \in Nat
  BY <1>2, LenProperties
<1>5. \A t, r : Kayitli(t, r) => Kayitli(t, r)'
  BY <1>3, <1>4 DEF Kayitli
<1>6. DefterTipi'
  BY <1>2, <1>3 DEF DefterTipi
<1> QED BY <1>3, <1>5, <1>6 DEF h

(* The locked section preserves the ledger's invariants when it is entered *)
(* the way consumeForJob, refundForJob, addCreditInTx and                  *)
(* adjustManuelCredit enter it.                                            *)
LEMMA HareketYazKorur ==
  ASSUME DefterInv,
         NEW tip \in HareketTipi, NEW ref \in Referans \cup {Yok}, NEW n \in Int,
         ~Cakisir(tip, ref),
         bakiye + n >= 0,
         tip = "IADE" => Kayitli("MESAJ_GONDERIM", ref),
         HareketYaz(tip, ref, n)
  PROVE  DefterInv'
<1> DEFINE L == Len(defter)
<1>1. DefterTipi
  BY DEF DefterInv
<1>2. /\ DefterTipi'
      /\ Len(defter') = L + 1
      /\ \A i \in 1..L : defter'[i] = defter[i]
      /\ defter'[L + 1] = SonrakiHareket(tip, ref, n)
  BY <1>1, HareketEkle
<1>3. L \in Nat
  BY <1>1, LenProperties DEF DefterTipi
<1>4. \A i \in 1..L : defter[i] \in Hareket
  BY <1>1, ElementOfSeq DEF DefterTipi
<1>5. /\ bakiye' = bakiye + n
      /\ bakiye \in Int
      /\ defter'[L + 1].tip = tip /\ defter'[L + 1].ref = ref
      /\ defter'[L + 1].miktar = n
      /\ defter'[L + 1].onceki = bakiye /\ defter'[L + 1].sonraki = bakiye + n
  BY <1>1, <1>2 DEF DefterTipi, HareketYaz, SonrakiHareket
<1> HIDE DEF L
<1>6. BakiyeDefterinSonucu'
  <2>1. ASSUME NEW i \in 1..(L + 1)
        PROVE  /\ defter'[i].onceki = IF i = 1 THEN 0 ELSE defter'[i - 1].sonraki
               /\ defter'[i].sonraki = defter'[i].onceki + defter'[i].miktar
    <3>1. CASE i \in 1..L
      <4>1. /\ defter[i].onceki = IF i = 1 THEN 0 ELSE defter[i - 1].sonraki
            /\ defter[i].sonraki = defter[i].onceki + defter[i].miktar
        BY <3>1 DEF DefterInv, BakiyeDefterinSonucu, L
      <4>2. i # 1 => i - 1 \in 1..L
        BY <3>1, <1>3
      <4> QED BY <4>1, <4>2, <3>1, <1>2
    <3>2. CASE i = L + 1
      <4>1. bakiye = IF L = 0 THEN 0 ELSE defter[L].sonraki
        BY <1>1, EmptySeq DEF DefterInv, BakiyeDefterinSonucu, L, DefterTipi
      <4>2. L # 0 => L \in 1..L
        BY <1>3
      <4> QED BY <4>1, <4>2, <3>2, <1>2, <1>3, <1>5
    <3> QED BY <3>1, <3>2, <1>3
  <2>2. defter' # << >> /\ bakiye' = defter'[L + 1].sonraki
    BY <1>2, <1>3, <1>5
  <2> QED BY <2>1, <2>2, <1>2 DEF BakiyeDefterinSonucu
<1>7. BakiyeEksiyeDusmez'
  <2>1. bakiye' >= 0
    BY <1>5
  <2>2. ASSUME NEW i \in 1..(L + 1) PROVE defter'[i].sonraki >= 0
    <3>1. CASE i \in 1..L
      BY <3>1, <1>2 DEF DefterInv, BakiyeEksiyeDusmez, L
    <3>2. CASE i = L + 1
      BY <3>2, <1>5
    <3> QED BY <3>1, <3>2, <1>3
  <2> QED BY <2>1, <2>2, <1>2 DEF BakiyeEksiyeDusmez
<1>8. TekHareket'
  <2> SUFFICES ASSUME NEW i \in 1..(L + 1), NEW k \in 1..(L + 1), i # k,
                      defter'[i].tip = defter'[k].tip,
                      defter'[i].ref = defter'[k].ref
               PROVE  defter'[i].ref = Yok
    BY <1>2 DEF TekHareket
  <2>1. ref # Yok => \A m \in 1..L : ~(defter[m].tip = tip /\ defter[m].ref = ref)
    BY DEF Cakisir, Kayitli, L
  <2>2. CASE i \in 1..L /\ k \in 1..L
    BY <2>2, <1>2 DEF DefterInv, TekHareket, L
  <2>3. CASE i = L + 1
    <3>1. k \in 1..L
      BY <2>3, <1>3
    <3> QED BY <3>1, <2>1, <2>3, <1>2, <1>5
  <2>4. CASE k = L + 1
    <3>1. i \in 1..L
      BY <2>4, <1>3
    <3> QED BY <3>1, <2>1, <2>4, <1>2, <1>5
  <2> QED BY <2>2, <2>3, <2>4, <1>3
<1>9. IadeTuketimdenSonra'
  <2> SUFFICES ASSUME NEW i \in 1..(L + 1), defter'[i].tip = "IADE"
               PROVE  \E k \in 1..(i - 1) : /\ defter'[k].tip = "MESAJ_GONDERIM"
                                            /\ defter'[k].ref = defter'[i].ref
    BY <1>2 DEF IadeTuketimdenSonra
  <2>1. CASE i \in 1..L
    <3>1. PICK k \in 1..(i - 1) : /\ defter[k].tip = "MESAJ_GONDERIM"
                                  /\ defter[k].ref = defter[i].ref
      BY <2>1, <1>2 DEF DefterInv, IadeTuketimdenSonra, L
    <3>2. k \in 1..L
      BY <2>1, <1>3
    <3> QED BY <3>1, <3>2, <2>1, <1>2
  <2>2. CASE i = L + 1
    <3>1. PICK k \in 1..L : defter[k].tip = "MESAJ_GONDERIM" /\ defter[k].ref = ref
      BY <2>2, <1>5 DEF Kayitli, L
    <3>2. 1..(i - 1) = 1..L
      BY <2>2, <1>3
    <3> QED BY <3>1, <3>2, <2>2, <1>2, <1>5
  <2> QED BY <2>1, <2>2, <1>3
<1> QED BY <1>2, <1>6, <1>7, <1>8, <1>9 DEF DefterInv

(* The locked section is a step of the abstract ledger.                    *)
LEMMA HareketYazSozlesme ==
  ASSUME bakiye \in Int,
         NEW tip \in HareketTipi, NEW ref \in Referans \cup {Yok}, NEW n \in Int,
         ~Cakisir(tip, ref),
         bakiye + n >= 0,
         tip = "IADE" => Kayitli("MESAJ_GONDERIM", ref),
         HareketYaz(tip, ref, n)
  PROVE  Defter!Adim
<1>1. bakiye' = bakiye + n /\ bakiye' - bakiye = n
  BY DEF HareketYaz
<1>2. Defter!Kaydet(tip, ref, bakiye' - bakiye)
  BY <1>1 DEF HareketYaz, SonrakiHareket, Cakisir, Kayitli, Defter!Kaydet, Defter!Kaydedildi
<1> QED BY <1>2 DEF Defter!Adim, Defter!Tip, HareketTipi

-----------------------------------------------------------------------------
(* The wallet's own callers *)

LEMMA KrediBaslangic == KrediInit => KrediInv /\ Defter!Baslangic
<1> SUFFICES ASSUME KrediInit PROVE KrediInv /\ Defter!Baslangic
  OBVIOUS
<1>1. bakiye = 0 /\ defter = << >> /\ cagri = [c \in Cagiran |-> Bosta]
  BY DEF KrediInit
<1>2. defter \in Seq(Hareket) /\ Len(defter) = 0
  BY <1>1, EmptySeq
<1>3. DefterInv
  BY <1>1, <1>2 DEF DefterInv, DefterTipi, BakiyeDefterinSonucu, BakiyeEksiyeDusmez,
     TekHareket, IadeTuketimdenSonra
<1>4. Bosta \in Cagri
  BY DEF Bosta, Cagri
<1>5. cagri \in [Cagiran -> Cagri] /\ CagriTutarli
  BY <1>1, <1>4 DEF CagriTutarli, Bosta
<1> QED BY <1>1, <1>3, <1>5 DEF KrediInv, Defter!Baslangic

(* A step that leaves the ledger alone or extends it keeps what callers    *)
(* have read, if each of them stays as it was or is done.                  *)
LEMMA CagriKorunur ==
  ASSUME CagriTutarli,
         Len(defter) \in Nat, Len(defter') \in Nat, Len(defter) <= Len(defter'),
         \A i \in 1..Len(defter) : defter'[i] = defter[i],
         \A c \in Cagiran : cagri'[c] = cagri[c] \/ cagri'[c] = Bosta
  PROVE  CagriTutarli'
<1>1. ASSUME NEW c \in Cagiran, cagri'[c] = cagri[c],
             cagri[c].adim = "kilit", cagri[c].tip = "IADE"
      PROVE  Kayitli("MESAJ_GONDERIM", cagri[c].ref)'
  <2>1. PICK i \in 1..Len(defter) : /\ defter[i].tip = "MESAJ_GONDERIM"
                                    /\ defter[i].ref = cagri[c].ref
    BY <1>1 DEF CagriTutarli, Kayitli
  <2>2. i \in 1..Len(defter') /\ defter'[i] = defter[i]
    OBVIOUS
  <2> QED BY <2>1, <2>2, <1>1 DEF Kayitli
<1>2. ASSUME NEW c \in Cagiran, cagri'[c].adim \in {"tuketim", "kilit"}
      PROVE  cagri'[c] = cagri[c]
  BY <1>2 DEF Bosta
<1> QED BY <1>1, <1>2 DEF CagriTutarli

(* addCreditInTx before the lock: only the caller's record changes.        *)
LEMMA AddCreditKorur ==
  ASSUME KrediInv, NEW c \in Cagiran,
         NEW tip \in {"MANUEL_DUZELTME", "YILLIK_DAHIL", "PAKET_SATIN_ALMA"},
         NEW ref \in Referans \cup {Yok}, NEW n \in Nat,
         AddCreditInTx(c, tip, ref, n)
  PROVE  KrediInv' /\ UNCHANGED <<bakiye, defter>>
<1>1. bakiye' = bakiye /\ defter' = defter
  BY DEF AddCreditInTx
<1>2. DefterInv'
  BY <1>1 DEF KrediInv, DefterInv, DefterTipi, BakiyeDefterinSonucu, BakiyeEksiyeDusmez,
     TekHareket, IadeTuketimdenSonra
<1> DEFINE k == [adim |-> "kilit", tip |-> tip, ref |-> ref, miktar |-> n]
<1>3. k \in Cagri
  BY DEF Cagri, HareketTipi
<1>4. cagri' = [cagri EXCEPT ![c] = k] /\ cagri' \in [Cagiran -> Cagri]
  BY <1>3 DEF AddCreditInTx, KrediInv
<1>5. CagriTutarli'
  BY <1>1, <1>4 DEF KrediInv, CagriTutarli, Kayitli, HareketTipi
<1> QED BY <1>1, <1>2, <1>4, <1>5 DEF KrediInv

(* The two steps of refundForJob before the lock.                          *)
LEMMA RefundKorur ==
  ASSUME KrediInv, NEW c \in Cagiran,
         (\E j \in Is : RefundForJob(c, j)) \/ RefundTuketim(c) \/ CagriDuser(c)
  PROVE  KrediInv' /\ UNCHANGED <<bakiye, defter>>
<1>1. bakiye' = bakiye /\ defter' = defter
  BY DEF RefundForJob, RefundTuketim, CagriDuser
<1>2. DefterInv'
  BY <1>1 DEF KrediInv, DefterInv, DefterTipi, BakiyeDefterinSonucu, BakiyeEksiyeDusmez,
     TekHareket, IadeTuketimdenSonra
<1>3. Bosta \in Cagri
  BY DEF Bosta, Cagri
<1>4. CASE \E j \in Is : RefundForJob(c, j)
  <2>1. PICK j \in Is : RefundForJob(c, j)
    BY <1>4
  <2> DEFINE k == [adim |-> "tuketim", tip |-> "IADE", ref |-> j, miktar |-> 1]
  <2>2. k \in Cagri
    BY DEF Cagri, HareketTipi, Referans
  <2>3. cagri' = [cagri EXCEPT ![c] = k] /\ cagri' \in [Cagiran -> Cagri]
    BY <2>1, <2>2 DEF RefundForJob, KrediInv
  <2>4. CagriTutarli'
    BY <1>1, <2>3 DEF KrediInv, CagriTutarli, Kayitli
  <2> QED BY <1>1, <1>2, <2>3, <2>4 DEF KrediInv
<1>5. CASE RefundTuketim(c) /\ Kayitli("MESAJ_GONDERIM", cagri[c].ref)
  <2>1. cagri' = [cagri EXCEPT ![c].adim = "kilit"]
    BY <1>5 DEF RefundTuketim
  <2>2. cagri' \in [Cagiran -> Cagri]
    BY <2>1 DEF KrediInv, Cagri
  <2>3. CagriTutarli'
    BY <1>1, <1>5, <2>1 DEF KrediInv, CagriTutarli, Kayitli, RefundTuketim, HareketTipi
  <2> QED BY <1>1, <1>2, <2>2, <2>3 DEF KrediInv
<1>6. CASE \/ RefundTuketim(c) /\ ~Kayitli("MESAJ_GONDERIM", cagri[c].ref)
           \/ CagriDuser(c)
  <2>1. cagri' = [cagri EXCEPT ![c] = Bosta] /\ cagri' \in [Cagiran -> Cagri]
    BY <1>3, <1>6 DEF RefundTuketim, CagriDuser, KrediInv
  <2>2. Len(defter) \in Nat
    BY LenProperties DEF KrediInv, DefterInv, DefterTipi
  <2>3. \A b \in Cagiran : cagri'[b] = cagri[b] \/ cagri'[b] = Bosta
    BY <2>1 DEF KrediInv
  <2>4. CagriTutarli'
    BY <1>1, <2>2, <2>3, CagriKorunur DEF KrediInv
  <2> QED BY <1>1, <1>2, <2>1, <2>4 DEF KrediInv
<1> QED BY <1>4, <1>5, <1>6

(* The locked section, entered by a caller that is then done or by one     *)
(* that never left the lock.                                               *)
LEMMA KilitliKorur ==
  ASSUME KrediInv,
         NEW tip \in HareketTipi, NEW ref \in Referans \cup {Yok}, NEW n \in Int,
         ~Cakisir(tip, ref),
         bakiye + n >= 0,
         tip = "IADE" => Kayitli("MESAJ_GONDERIM", ref),
         HareketYaz(tip, ref, n),
         cagri' \in [Cagiran -> Cagri],
         \A c \in Cagiran : cagri'[c] = cagri[c] \/ cagri'[c] = Bosta
  PROVE  KrediInv' /\ Defter!Adim
<1>1. DefterInv /\ DefterTipi /\ bakiye \in Int
  BY DEF KrediInv, DefterInv, DefterTipi
<1>2. DefterInv'
  BY <1>1, HareketYazKorur
<1>3. Defter!Adim
  BY <1>1, HareketYazSozlesme
<1>4. Len(defter) \in Nat
  BY <1>1, LenProperties DEF DefterTipi
<1>5. Len(defter') = Len(defter) + 1 /\ \A i \in 1..Len(defter) : defter'[i] = defter[i]
  BY <1>1, HareketEkle
<1>6. CagriTutarli'
  BY <1>4, <1>5, CagriKorunur DEF KrediInv
<1> QED BY <1>2, <1>3, <1>6 DEF KrediInv

(* consumeForJob: the charge is taken only from a positive balance.        *)
LEMMA ConsumeKorur ==
  ASSUME KrediInv, NEW j \in Is, ConsumeForJob(j), UNCHANGED cagri
  PROVE  KrediInv' /\ Defter!Adim
<1>1. /\ ~Cakisir("MESAJ_GONDERIM", j)
      /\ j \in Referans \cup {Yok}
      /\ HareketYaz("MESAJ_GONDERIM", j, -1)
  BY DEF ConsumeForJob, Cakisir, Referans
<1>2. bakiye + (-1) >= 0
  BY DEF ConsumeForJob, BakiyeYeter, KrediInv, DefterInv, DefterTipi
<1>3. "MESAJ_GONDERIM" \in HareketTipi
  BY DEF HareketTipi
<1>4. cagri' \in [Cagiran -> Cagri] /\ \A c \in Cagiran : cagri'[c] = cagri[c]
  BY DEF KrediInv
<1> QED BY <1>1, <1>2, <1>3, <1>4, KilitliKorur

(* adjustManuelCredit, DUS: at most the balance is taken.                  *)
LEMMA ManuelDusKorur ==
  ASSUME KrediInv, ManuelDus
  PROVE  KrediInv' /\ Defter!Adim
<1>1. PICK n \in ManuelMiktar : n <= bakiye /\ HareketYaz("MANUEL_DUZELTME", Yok, -n)
  BY DEF ManuelDus
<1>2. n \in Nat /\ -n \in Int /\ bakiye + (-n) >= 0
  BY <1>1, MiktarVarsayimi DEF KrediInv, DefterInv, DefterTipi
<1>3. "MANUEL_DUZELTME" \in HareketTipi /\ ~Cakisir("MANUEL_DUZELTME", Yok)
  BY DEF HareketTipi, Cakisir
<1>4. cagri' \in [Cagiran -> Cagri] /\ \A c \in Cagiran : cagri'[c] = cagri[c]
  BY DEF KrediInv, ManuelDus
<1> QED BY <1>1, <1>2, <1>3, <1>4, KilitliKorur

(* The locked tail of addCreditInTx and refundForJob.                      *)
LEMMA KilitliYazKorur ==
  ASSUME KrediInv, NEW c \in Cagiran, KilitliYaz(c)
  PROVE  KrediInv' /\ (Defter!Adim \/ UNCHANGED <<bakiye, defter>>)
<1> DEFINE tip == cagri[c].tip  ref == cagri[c].ref  n == cagri[c].miktar
<1>1. cagri[c] \in Cagri /\ cagri[c].adim = "kilit"
  BY DEF KrediInv, KilitliYaz
<1>2. /\ tip \in HareketTipi /\ ref \in Referans \cup {Yok} /\ n \in Nat
      /\ tip = "IADE" => Kayitli("MESAJ_GONDERIM", ref)
  BY <1>1 DEF KrediInv, CagriTutarli, Cagri
<1>3. Bosta \in Cagri
  BY DEF Bosta, Cagri
<1>4. cagri' = [cagri EXCEPT ![c] = Bosta] /\ cagri' \in [Cagiran -> Cagri]
  BY <1>3 DEF KilitliYaz, KrediInv
<1>5. \A b \in Cagiran : cagri'[b] = cagri[b] \/ cagri'[b] = Bosta
  BY <1>4 DEF KrediInv
<1>6. CASE Cakisir(tip, ref)
  <2>1. bakiye' = bakiye /\ defter' = defter
    BY <1>6 DEF KilitliYaz
  <2>2. DefterInv'
    BY <2>1 DEF KrediInv, DefterInv, DefterTipi, BakiyeDefterinSonucu, BakiyeEksiyeDusmez,
       TekHareket, IadeTuketimdenSonra
  <2>3. Len(defter) \in Nat
    BY LenProperties DEF KrediInv, DefterInv, DefterTipi
  <2>4. CagriTutarli'
    BY <2>1, <2>3, <1>5, CagriKorunur DEF KrediInv
  <2> QED BY <2>1, <2>2, <2>4, <1>4 DEF KrediInv
<1>7. CASE ~Cakisir(tip, ref)
  <2>1. HareketYaz(tip, ref, n)
    BY <1>7 DEF KilitliYaz
  <2>2. bakiye + n >= 0 /\ n \in Int
    BY <1>2 DEF KrediInv, DefterInv, DefterTipi, BakiyeEksiyeDusmez
  <2> HIDE DEF tip, ref, n
  <2> QED BY <2>1, <2>2, <1>2, <1>4, <1>5, <1>7, KilitliKorur
<1> QED BY <1>6, <1>7

(* Every step of the wallet keeps the inductive invariant and is a step of *)
(* the abstract ledger or leaves it alone.                                 *)
LEMMA KrediAdimi ==
  ASSUME KrediInv, [KrediNext]_krediVars
  PROVE  KrediInv' /\ [Defter!Adim]_<<bakiye, defter>>
<1>1. CASE ManuelDus
  BY <1>1, ManuelDusKorur
<1>2. ASSUME NEW j \in Is, ConsumeForJob(j), UNCHANGED cagri
      PROVE  KrediInv' /\ Defter!Adim
  BY <1>2, ConsumeKorur
<1>3. ASSUME NEW c \in Cagiran, CagriAdimi(c)
      PROVE  KrediInv' /\ (Defter!Adim \/ UNCHANGED <<bakiye, defter>>)
  <2>1. CASE ManuelEkle(c)
    <3>1. PICK n \in ManuelMiktar : AddCreditInTx(c, "MANUEL_DUZELTME", Yok, n)
      BY <2>1 DEF ManuelEkle
    <3>2. n \in Nat
      BY MiktarVarsayimi
    <3> QED BY <3>1, <3>2, AddCreditKorur
  <2>2. CASE GrantAnnual(c)
    <3>1. PICK d \in Donem : AddCreditInTx(c, "YILLIK_DAHIL", d, YillikMiktar)
      BY <2>2 DEF GrantAnnual
    <3>2. YillikMiktar \in Nat /\ d \in Referans \cup {Yok}
      BY MiktarVarsayimi DEF Referans
    <3> QED BY <3>1, <3>2, AddCreditKorur
  <2>3. CASE (\E j \in Is : RefundForJob(c, j)) \/ RefundTuketim(c) \/ CagriDuser(c)
    BY <2>3, RefundKorur
  <2>4. CASE KilitliYaz(c)
    BY <2>4, KilitliYazKorur
  <2> QED BY <1>3, <2>1, <2>2, <2>3, <2>4 DEF CagriAdimi
<1>4. CASE UNCHANGED krediVars
  BY <1>4 DEF krediVars, KrediInv, DefterInv, DefterTipi, BakiyeDefterinSonucu,
     BakiyeEksiyeDusmez, TekHareket, IadeTuketimdenSonra, CagriTutarli, Kayitli
<1> QED BY <1>1, <1>2, <1>3, <1>4 DEF KrediNext

-----------------------------------------------------------------------------
(* Theorems *)

(* The inductive invariant: the ledger's properties, and that what a       *)
(* caller read before the lock is still true under it.                     *)
THEOREM KrediDegismez == KrediSpec => []KrediInv
<1>1. KrediInit => KrediInv
  BY KrediBaslangic
<1>2. KrediInv /\ [KrediNext]_krediVars => KrediInv'
  BY KrediAdimi
<1> QED BY <1>1, <1>2, PTL DEF KrediSpec

(* The wallet row, the ledger and the callers' records keep their types.   *)
THEOREM KrediTipi == KrediSpec => []KrediTypeOK
<1>1. KrediInv => KrediTypeOK
  BY DEF KrediInv, DefterInv, DefterTipi, KrediTypeOK
<1> QED BY <1>1, KrediDegismez, PTL

-----------------------------------------------------------------------------
(* The overview                                                            *)

\* All movements add up to the balance, a charge takes one credit, and no
\* caller waits at the lock with a charge.
OzetInv ==
  /\ KrediInv
  /\ \A c \in Cagiran : cagri[c].adim # "bosta" => cagri[c].tip # "MESAJ_GONDERIM"
  /\ \A i \in 1..Len(defter) : defter[i].tip = "MESAJ_GONDERIM" => defter[i].miktar = -1
  /\ Topla(Miktarlar, 1..Len(defter)) = bakiye

(* What a step writes to the ledger, if anything.                          *)
LEMMA KrediYazilan ==
  ASSUME OzetInv, [KrediNext]_krediVars
  PROVE  \/ UNCHANGED <<bakiye, defter>>
         \/ \E tip \in HareketTipi, ref \in Referans \cup {Yok}, n \in Int :
              HareketYaz(tip, ref, n) /\ (tip = "MESAJ_GONDERIM" => n = -1)
<1>1. CASE ManuelDus
  <2>1. PICK n \in ManuelMiktar : HareketYaz("MANUEL_DUZELTME", Yok, -n)
    BY <1>1 DEF ManuelDus
  <2>2. -n \in Int /\ "MANUEL_DUZELTME" \in HareketTipi
    BY MiktarVarsayimi DEF HareketTipi
  <2> QED BY <2>1, <2>2
<1>2. ASSUME NEW j \in Is, ConsumeForJob(j) PROVE HareketYaz("MESAJ_GONDERIM", j, -1)
  BY <1>2 DEF ConsumeForJob
<1>3. \A j \in Is : j \in Referans \cup {Yok}
  BY DEF Referans
<1>4. -1 \in Int /\ "MESAJ_GONDERIM" \in HareketTipi
  BY DEF HareketTipi
<1>5. ASSUME NEW c \in Cagiran, KilitliYaz(c), ~Cakisir(cagri[c].tip, cagri[c].ref)
      PROVE /\ HareketYaz(cagri[c].tip, cagri[c].ref, cagri[c].miktar) /\ cagri[c].tip # "MESAJ_GONDERIM"
            /\ cagri[c].tip \in HareketTipi /\ cagri[c].ref \in Referans \cup {Yok} /\ cagri[c].miktar \in Int
  <2>1. cagri[c] \in Cagri /\ cagri[c].adim = "kilit"
    BY <1>5 DEF OzetInv, KrediInv, KilitliYaz
  <2>2. cagri[c].tip \in HareketTipi /\ cagri[c].ref \in Referans \cup {Yok} /\ cagri[c].miktar \in Int
    BY <2>1 DEF OzetInv, KrediInv, CagriTutarli, Cagri
  <2>3. cagri[c].tip # "MESAJ_GONDERIM"
    BY <2>1 DEF OzetInv
  <2> QED BY <1>5, <2>2, <2>3 DEF KilitliYaz
<1>6. ASSUME NEW c \in Cagiran, CagriAdimi(c),
             ~(KilitliYaz(c) /\ ~Cakisir(cagri[c].tip, cagri[c].ref))
      PROVE UNCHANGED <<bakiye, defter>>
  BY <1>6 DEF CagriAdimi, ManuelEkle, GrantAnnual, AddCreditInTx, RefundForJob, RefundTuketim, KilitliYaz, CagriDuser
<1>7. CASE UNCHANGED krediVars
  BY <1>7 DEF krediVars
<1> QED BY <1>1, <1>2, <1>3, <1>4, <1>5, <1>6, <1>7 DEF KrediNext

(* No caller comes to wait with a charge.                                  *)
LEMMA CagriTuketmez ==
  ASSUME OzetInv, [KrediNext]_krediVars
  PROVE  \A c \in Cagiran : cagri'[c].adim # "bosta" => cagri'[c].tip # "MESAJ_GONDERIM"
<1>1. cagri \in [Cagiran -> Cagri] /\ \A c \in Cagiran : cagri[c].adim # "bosta" => cagri[c].tip # "MESAJ_GONDERIM"
  BY DEF OzetInv, KrediInv
<1>2. CASE UNCHANGED cagri
  BY <1>1, <1>2
<1>3. ASSUME NEW c \in Cagiran, NEW k, cagri' = [cagri EXCEPT ![c] = k], k.adim # "bosta" => k.tip # "MESAJ_GONDERIM"
      PROVE  \A b \in Cagiran : cagri'[b].adim # "bosta" => cagri'[b].tip # "MESAJ_GONDERIM"
  BY <1>1, <1>3
<1>4. ASSUME NEW c \in Cagiran, NEW tip \in {"MANUEL_DUZELTME", "YILLIK_DAHIL"}, NEW ref, NEW n, AddCreditInTx(c, tip, ref, n)
      PROVE  \A b \in Cagiran : cagri'[b].adim # "bosta" => cagri'[b].tip # "MESAJ_GONDERIM"
  BY <1>3, <1>4 DEF AddCreditInTx
<1>5. ASSUME NEW c \in Cagiran, NEW j \in Is, RefundForJob(c, j)
      PROVE  \A b \in Cagiran : cagri'[b].adim # "bosta" => cagri'[b].tip # "MESAJ_GONDERIM"
  BY <1>3, <1>5 DEF RefundForJob
<1>6. Bosta.adim = "bosta"
  BY DEF Bosta
<1>7. ASSUME NEW c \in Cagiran, RefundTuketim(c)
      PROVE  \A b \in Cagiran : cagri'[b].adim # "bosta" => cagri'[b].tip # "MESAJ_GONDERIM"
  <2>1. cagri' = [cagri EXCEPT ![c].adim = "kilit"] \/ cagri' = [cagri EXCEPT ![c] = Bosta]
    BY <1>7 DEF RefundTuketim
  <2>2. cagri[c].adim = "tuketim" /\ cagri[c] \in Cagri
    BY <1>1, <1>7 DEF RefundTuketim
  <2>3. CASE cagri' = [cagri EXCEPT ![c].adim = "kilit"]
    <3>1. cagri'[c].tip = cagri[c].tip /\ \A b \in Cagiran \ {c} : cagri'[b] = cagri[b]
      BY <1>1, <2>2, <2>3 DEF Cagri
    <3> QED BY <1>1, <2>2, <3>1
  <2> QED BY <1>3, <1>6, <2>1, <2>3
<1>8. ASSUME NEW c \in Cagiran, KilitliYaz(c) \/ CagriDuser(c)
      PROVE  \A b \in Cagiran : cagri'[b].adim # "bosta" => cagri'[b].tip # "MESAJ_GONDERIM"
  BY <1>3, <1>6, <1>8 DEF KilitliYaz, CagriDuser
<1>9. ASSUME NEW c \in Cagiran, CagriAdimi(c)
      PROVE  \A b \in Cagiran : cagri'[b].adim # "bosta" => cagri'[b].tip # "MESAJ_GONDERIM"
  BY <1>4, <1>5, <1>7, <1>8, <1>9 DEF CagriAdimi, ManuelEkle, GrantAnnual
<1> QED BY <1>2, <1>9 DEF KrediNext, ManuelDus, krediVars

(* A movement adds its amount to the sum of all.                           *)
LEMMA ToplamYuruyor ==
  ASSUME OzetInv, NEW tip \in HareketTipi, NEW ref \in Referans \cup {Yok}, NEW n \in Int,
         HareketYaz(tip, ref, n), tip = "MESAJ_GONDERIM" => n = -1
  PROVE  /\ \A i \in 1..Len(defter') : defter'[i].tip = "MESAJ_GONDERIM" => defter'[i].miktar = -1
         /\ Topla(Miktarlar', 1..Len(defter')) = bakiye'
<1> DEFINE L == Len(defter)  f == Miktarlar'
<1>1. DefterTipi /\ bakiye' = bakiye + n /\ bakiye \in Int
  BY DEF OzetInv, KrediInv, DefterInv, DefterTipi, HareketYaz
<1>2. /\ Len(defter') = L + 1 /\ \A i \in 1..L : defter'[i] = defter[i]
      /\ defter'[L + 1].tip = tip /\ defter'[L + 1].miktar = n
  <2>1. /\ Len(defter') = Len(defter) + 1 /\ \A i \in 1..Len(defter) : defter'[i] = defter[i]
        /\ defter'[Len(defter) + 1] = SonrakiHareket(tip, ref, n)
    BY <1>1, HareketEkle
  <2>2. SonrakiHareket(tip, ref, n).tip = tip /\ SonrakiHareket(tip, ref, n).miktar = n
    BY DEF SonrakiHareket
  <2> QED BY <2>1, <2>2
<1>3. L \in Nat /\ \A i \in 1..L : defter[i] \in Hareket
  BY <1>1, LenProperties, ElementOfSeq DEF DefterTipi
<1> HIDE DEF L
<1>4. /\ 1..(L + 1) = (1..L) \cup {L + 1} /\ L + 1 \notin 1..L /\ IsFiniteSet(1..L)
  <2>1. L \in Int /\ 1 \in Int
    BY <1>3
  <2>2. IsFiniteSet(1..L)
    BY <2>1, FS_Interval
  <2>3. 1..(L + 1) = (1..L) \cup {L + 1}
    BY <1>3
  <2>4. L + 1 \notin 1..L
    BY <1>3
  <2> QED BY <2>2, <2>3, <2>4
<1>5. /\ f = [i \in 1..(L + 1) |-> defter'[i].miktar]
      /\ Miktarlar = [i \in 1..L |-> defter[i].miktar]
  BY <1>2 DEF Miktarlar, L
<1>6. f[L + 1] = n /\ (\A i \in 1..L : f[i] = Miktarlar[i]) /\ \A i \in (1..L) \cup {L + 1} : f[i] \in Int
  BY <1>2, <1>3, <1>4, <1>5 DEF Hareket
<1> HIDE DEF f
<1>7. Topla(f, (1..L) \cup {L + 1}) = f[L + 1] + Topla(f, 1..L)
  BY <1>4, <1>6, ToplaEkle
<1>8. Topla(f, 1..L) = Topla(Miktarlar, 1..L)
  BY <1>4, <1>6, ToplaEsit
<1>9. Topla(Miktarlar, 1..L) = bakiye
  BY DEF OzetInv, L
<1>10. Topla(f, 1..(L + 1)) = bakiye'
  <2>1. Topla(f, 1..(L + 1)) = n + bakiye
    BY <1>4, <1>6, <1>7, <1>8, <1>9
  <2>2. n + bakiye = bakiye + n
    BY <1>1
  <2> QED BY <1>1, <2>1, <2>2
<1>11. \A i \in 1..(L + 1) : defter'[i].tip = "MESAJ_GONDERIM" => defter'[i].miktar = -1
  BY <1>2, <1>4 DEF OzetInv, L
<1> QED BY <1>2, <1>10, <1>11 DEF f

(* The sum of charges is not positive.                                     *)
LEMMA TuketimEksi ==
  ASSUME OzetInv, NEW S, S \subseteq 1..Len(defter), \A i \in S : defter[i].tip = "MESAJ_GONDERIM"
  PROVE  Topla(Miktarlar, S) \in Int /\ Topla(Miktarlar, S) <= 0
<1>1. Len(defter) \in Nat
  BY LenProperties DEF OzetInv, KrediInv, DefterInv, DefterTipi
<1>2. IsFiniteSet(S)
  <2>1. Len(defter) \in Int /\ 1 \in Int
    BY <1>1
  <2>2. IsFiniteSet(1..Len(defter))
    BY <2>1, FS_Interval
  <2> QED BY <2>2, FS_Subset
<1>3. \A i \in S : Miktarlar[i] = -1
  BY DEF OzetInv, Miktarlar
<1> DEFINE g == [i \in S |-> 1]
<1>4. Topla(g, S) \in Nat
  <2>1. \A i \in S : g[i] \in Nat
    OBVIOUS
  <2> HIDE DEF g
  <2> QED BY <1>2, <2>1, ToplaArtar
<1>5. Topla(Miktarlar, S) = -Topla(g, S)
  <2>1. \A i \in S : g[i] \in Int /\ Miktarlar[i] = -g[i]
    BY <1>3
  <2> HIDE DEF g
  <2> QED BY <1>2, <2>1, ToplaEksi
<1> HIDE DEF g
<1> QED BY <1>4, <1>5

(* The four kinds of movements make up the ledger.                         *)
LEMMA OzetDogru ==
  ASSUME OzetInv
  PROVE  OzetBakiyeyeUyar
<1> DEFINE D == 1..Len(defter)  G == Tipte({"MESAJ_GONDERIM"})  I == Tipte({"IADE"})  X == Verilen \ Eklenen
<1>1. DefterTipi /\ Len(defter) \in Nat
  BY LenProperties DEF OzetInv, KrediInv, DefterInv, DefterTipi
<1>2. \A i \in D : defter[i] \in Hareket
  BY <1>1, ElementOfSeq DEF DefterTipi
<1>3. \A S \in SUBSET D : IsFiniteSet(S) /\ \A i \in S : Miktarlar[i] \in Int
  <2>1. Len(defter) \in Int /\ 1 \in Int
    BY <1>1
  <2>2. IsFiniteSet(D)
    BY <2>1, FS_Interval
  <2>3. \A i \in D : Miktarlar[i] \in Int
    BY <1>2 DEF Hareket, Miktarlar
  <2> HIDE DEF D
  <2>4. \A S \in SUBSET D : IsFiniteSet(S)
    BY <2>2, FS_Subset
  <2> QED BY <2>3, <2>4
<1>4. /\ G \in SUBSET D /\ I \in SUBSET D /\ X \in SUBSET D /\ Eklenen \in SUBSET D
      /\ G \cap I = {} /\ (G \cup I) \cap X = {} /\ (G \cup I \cup X) \cap Eklenen = {}
  BY DEF Tipte, Verilen, Eklenen
<1>5. D = (G \cup I \cup X) \cup Eklenen
  BY <1>2 DEF Tipte, Verilen, Eklenen, Hareket, HareketTipi
<1>6. Topla(Miktarlar, G) \in Int /\ Topla(Miktarlar, G) <= 0
  BY TuketimEksi DEF Tipte
<1>7. bakiye \in Int /\ Topla(Miktarlar, D) = bakiye
  BY <1>1 DEF OzetInv, DefterTipi
<1>8. KrediOzeti.bakiye = bakiye /\ KrediOzeti.eklenen = Topla(Miktarlar, Eklenen)
  BY DEF KrediOzeti, KrediToplami, Topla
<1>9. KrediOzeti.kullanilan = IF Topla(Miktarlar, G) < 0 THEN -Topla(Miktarlar, G) ELSE Topla(Miktarlar, G)
  BY DEF KrediOzeti, KrediToplami, Topla
<1>10. KrediToplami(I) = Topla(Miktarlar, I) /\ KrediToplami(X) = Topla(Miktarlar, X)
  BY DEF KrediToplami, Topla
<1> HIDE DEF D, G, I, X
<1>11. Topla(Miktarlar, G \cup I) = Topla(Miktarlar, G) + Topla(Miktarlar, I)
  BY <1>3, <1>4, ToplaBirlesim
<1>12. Topla(Miktarlar, G \cup I \cup X) = Topla(Miktarlar, G \cup I) + Topla(Miktarlar, X)
  BY <1>3, <1>4, ToplaBirlesim
<1>13. Topla(Miktarlar, D) = Topla(Miktarlar, G \cup I \cup X) + Topla(Miktarlar, Eklenen)
  <2>1. G \cup I \cup X \in SUBSET D
    BY <1>4
  <2> QED BY <1>3, <1>4, <1>5, <2>1, ToplaBirlesim
<1>14. \A S \in SUBSET D : Topla(Miktarlar, S) \in Int
  BY <1>3, ToplaTamSayi
<1>15. bakiye = KrediOzeti.eklenen - KrediOzeti.kullanilan + Topla(Miktarlar, I) + Topla(Miktarlar, X)
  BY <1>4, <1>6, <1>7, <1>8, <1>9, <1>11, <1>12, <1>13, <1>14
<1> QED BY <1>8, <1>10, <1>15 DEF OzetBakiyeyeUyar, I, X

(* The sum of the movements is the balance, in every reachable state.      *)
THEOREM OzetDegismez == KrediSpec => []OzetInv
<1>1. KrediInit => OzetInv
  <2>1. SUFFICES ASSUME KrediInit PROVE OzetInv
    OBVIOUS
  <2>2. KrediInv /\ bakiye = 0 /\ Len(defter) = 0
    BY <2>1, KrediBaslangic, EmptySeq DEF KrediInit
  <2>3. Topla(Miktarlar, 1..Len(defter)) = 0
    <3>1. 1..Len(defter) = {}
      BY <2>2
    <3> QED BY <3>1, ToplaBos
  <2> QED BY <2>1, <2>2, <2>3 DEF OzetInv, KrediInit, Bosta
<1>2. OzetInv /\ [KrediNext]_krediVars => OzetInv'
  <2>1. SUFFICES ASSUME OzetInv, [KrediNext]_krediVars PROVE OzetInv'
    OBVIOUS
  <2>2. KrediInv' /\ \A c \in Cagiran : cagri'[c].adim # "bosta" => cagri'[c].tip # "MESAJ_GONDERIM"
    BY <2>1, KrediAdimi, CagriTuketmez DEF OzetInv
  <2>3. CASE UNCHANGED <<bakiye, defter>>
    BY <2>1, <2>2, <2>3 DEF OzetInv, Miktarlar
  <2>4. CASE \E tip \in HareketTipi, ref \in Referans \cup {Yok}, n \in Int :
               HareketYaz(tip, ref, n) /\ (tip = "MESAJ_GONDERIM" => n = -1)
    BY <2>1, <2>2, <2>4, ToplamYuruyor DEF OzetInv
  <2> QED BY <2>1, <2>3, <2>4, KrediYazilan
<1> QED BY <1>1, <1>2, PTL DEF KrediSpec

(* The balance is what the ledger says and never negative, and the totals  *)
(* of the overview add up to it, for any number of callers and amounts     *)
(* ("Bakiye 0 altina inemez").                                             *)
THEOREM BakiyeDogru == KrediSpec => []BakiyeSaglam
<1>1. OzetInv => BakiyeSaglam
  BY OzetDogru DEF OzetInv, KrediInv, DefterInv, BakiyeSaglam
<1> QED BY <1>1, OzetDegismez, PTL

(* No job is charged or refunded twice and no period or payment credited   *)
(* twice.                                                                  *)
THEOREM HareketTekrarlanmaz == KrediSpec => []TekHareket
<1>1. KrediInv => TekHareket
  BY DEF KrediInv, DefterInv
<1> QED BY <1>1, KrediDegismez, PTL

(* A refund follows the charge it returns.                                 *)
THEOREM IadeHakli == KrediSpec => []IadeTuketimdenSonra
<1>1. KrediInv => IadeTuketimdenSonra
  BY DEF KrediInv, DefterInv
<1> QED BY <1>1, KrediDegismez, PTL

(* The wallet implements the abstract ledger: every step of a caller is    *)
(* one of its movements or a stutter.                                      *)
THEOREM KrediSozlesmesi == KrediSpec => DefterSozlesmesi
<1>1. KrediInit => Defter!Baslangic
  BY KrediBaslangic
<1>2. KrediInv /\ [KrediNext]_krediVars => [Defter!Adim]_<<bakiye, defter>>
  BY KrediAdimi
<1> QED BY <1>1, <1>2, KrediDegismez, PTL DEF KrediSpec, DefterSozlesmesi, Defter!Sozlesme
=============================================================================
