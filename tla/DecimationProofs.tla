-------------------------- MODULE DecimationProofs --------------------------
(***************************************************************************)
(* Theorems about pickDecimation for every device rate and number of       *)
(* stages.  The last one compares the loop with the powers of two: that    *)
(* their recursive definition defines them is shown by induction, which    *)
(* here is a fact about sets of numbers (Climb).                           *)
(***************************************************************************)
EXTENDS Decimation, WellFoundedInduction, TLAPS

(* The loop invariant: picked is the rate of best and meets the target, and *)
(* rate is half of it.                                                      *)
Typed ==
    /\ maxRate \in Nat /\ stages \in Nat /\ d \in Nat /\ rate \in Nat
    /\ best \in Nat /\ picked \in Nat
    /\ found \in BOOLEAN /\ done \in BOOLEAN

NotYet == ~found => d = 0 /\ rate = maxRate /\ best = 0 /\ picked = maxRate

Held ==
    found => /\ d = best + 1
             /\ best <= stages
             /\ picked >= Target
             /\ rate = picked \div 2

Ended == done => d > stages \/ rate < Target

IInv == Typed /\ NotYet /\ Held /\ Ended

(* Halving stays in Nat.                                                    *)
LEMMA Half == \A n \in Nat : n \div 2 \in Nat
  OBVIOUS

(* The loop invariant is one.                                               *)
LEMMA Inductive == Spec => []IInv
<1>1. Init => IInv
  <2> SUFFICES ASSUME Init PROVE IInv
    OBVIOUS
  <2>1. Typed
    BY ConstantsOK DEF ConstantsOK, Init, Typed
  <2>2. ~found /\ ~done
    BY DEF Init
  <2>3. NotYet
    BY DEF Init, NotYet
  <2>4. Held /\ Ended
    BY <2>2 DEF Held, Ended
  <2> QED
    BY <2>1, <2>3, <2>4 DEF IInv
<1>2. IInv /\ [Next]_vars => IInv'
  <2> SUFFICES ASSUME IInv, [Next]_vars PROVE IInv'
    OBVIOUS
  <2> USE DEF IInv, Typed, NotYet, Held, Ended
  <2>1. CASE Stage
    BY <2>1, Half, ConstantsOK DEF ConstantsOK, Stage
  <2>2. CASE Return
    BY <2>2, ConstantsOK DEF ConstantsOK, Return
  <2>3. CASE UNCHANGED vars
    BY <2>3 DEF vars
  <2> QED
    BY <2>1, <2>2, <2>3 DEF Next
<1> QED
  BY <1>1, <1>2, PTL DEF Spec

(* iqsource.go: the rate of the stage is not below TargetIQRate, for every  *)
(* device that has it.                                                      *)
THEOREM PickMeetsTarget == Spec => []NeverBelowTarget
<1>1. IInv => NeverBelowTarget
  BY ConstantsOK DEF ConstantsOK, IInv, Typed, NotYet, Held, Ended, NeverBelowTarget
<1> QED
  BY <1>1, Inductive, PTL

(* spyserver.go: no later stage would do.                                   *)
THEOREM PickIsLightest == Spec => []Lightest
<1>1. IInv => Lightest
  BY ConstantsOK DEF ConstantsOK, IInv, Typed, NotYet, Held, Ended, Lightest
<1> QED
  BY <1>1, Inductive, PTL

------------------------------------------------------------------------------
(* The powers of two, by induction.                                         *)

(* A set of numbers has a least one.                                        *)
Below == {p \in Nat \X Nat : p[1] < p[2]}

LEMMA Least == ASSUME NEW S \in SUBSET Nat, S # {} PROVE \E x \in S : \A y \in S : x <= y
<1>1. IsWellFoundedOn(Below, Nat)
  BY NatLessThanWellFounded DEF OpToRel, Below
<1>2. PICK x \in S : \A y \in S : ~ (<<y, x>> \in Below)
  BY <1>1, WFMin, Zenon
<1>3. \A y \in Nat : y < x => <<y, x>> \in Below
  BY DEF Below
<1>4. \A y \in S : y \in Nat /\ x \in Nat /\ ~(y < x)
  BY <1>2, <1>3
<1>5. \A y \in S : x <= y
  BY <1>4
<1> QED
  BY <1>5

(* So a set that has 0, and with a number its successor, has them all.      *)
LEMMA Climb ==
    ASSUME NEW S \in SUBSET Nat, 0 \in S, \A n \in S : n + 1 \in S
    PROVE  S = Nat
<1> SUFFICES ASSUME Nat \ S # {} PROVE FALSE
  OBVIOUS
<1>1. PICK x \in Nat \ S : \A y \in Nat \ S : x <= y
  BY Least
<1>2. x - 1 \in Nat /\ x - 1 < x /\ (x - 1) + 1 = x
  BY <1>1
<1>3. x - 1 \in S
  BY <1>1, <1>2
<1> QED
  BY <1>1, <1>2, <1>3

(* The powers of two up to the n-th.                                        *)
Powers(n, g) == g[0] = 1 /\ \A i \in 1..n : g[i] = 2 * g[i - 1]

LEMMA PowersExist == \A n \in Nat : \E g \in [Nat -> Nat \ {0}] : Powers(n, g)
<1> DEFINE S == {n \in Nat : \E g \in [Nat -> Nat \ {0}] : Powers(n, g)}
<1>1. 0 \in S
  <2>1. [i \in Nat |-> 1] \in [Nat -> Nat \ {0}] /\ Powers(0, [i \in Nat |-> 1])
    BY DEF Powers
  <2> QED
    BY <2>1
<1>2. ASSUME NEW n \in S PROVE n + 1 \in S
  <2>1. PICK g \in [Nat -> Nat \ {0}] : Powers(n, g)
    OBVIOUS
  <2> DEFINE h == [g EXCEPT ![n + 1] = 2 * g[n]]
  <2>2. n \in Nat /\ g[n] \in Nat \ {0}
    OBVIOUS
  <2>3. h \in [Nat -> Nat \ {0}]
    BY <2>2
  <2>4. \A i \in 0..n : h[i] = g[i]
    BY <2>2
  <2>5. h[n + 1] = 2 * g[n]
    BY <2>2
  <2> HIDE DEF h
  <2>6. ASSUME NEW i \in 1..(n + 1) PROVE h[i] = 2 * h[i - 1]
    <3>1. CASE i = n + 1
      BY <2>2, <2>4, <2>5, <3>1
    <3>2. CASE i # n + 1
      BY <2>1, <2>2, <2>4, <3>2 DEF Powers
    <3> QED
      BY <3>1, <3>2
  <2>7. Powers(n + 1, h)
    BY <2>1, <2>2, <2>4, <2>6 DEF Powers
  <2> QED
    BY <2>2, <2>3, <2>7
<1>3. S = Nat
  BY <1>1, <1>2, Climb
<1> QED
  BY <1>3

LEMMA PowersAgree ==
    ASSUME NEW n \in Nat, NEW g, NEW h, Powers(n, g), Powers(n, h)
    PROVE  g[n] = h[n]
<1> DEFINE S == {i \in Nat : i <= n => g[i] = h[i]}
<1>1. 0 \in S
  BY DEF Powers
<1>2. ASSUME NEW i \in S PROVE i + 1 \in S
  <2> SUFFICES ASSUME i + 1 <= n PROVE g[i + 1] = h[i + 1]
    OBVIOUS
  <2>1. i \in Nat /\ i + 1 \in 1..n /\ (i + 1) - 1 = i /\ g[i] = h[i]
    OBVIOUS
  <2> QED
    BY <2>1 DEF Powers
<1>3. S = Nat
  BY <1>1, <1>2, Climb
<1> QED
  BY <1>3

(* The powers of two are what their definition says.                        *)
LEMMA TwoToStep ==
    /\ \A e \in Nat : TwoTo[e] \in Nat \ {0}
    /\ TwoTo[0] = 1
    /\ \A e \in Nat : TwoTo[e + 1] = 2 * TwoTo[e]
<1> DEFINE G(n) == CHOOSE g \in [Nat -> Nat \ {0}] : Powers(n, g)
           F == [n \in Nat |-> G(n)[n]]
<1>1. \A n \in Nat : G(n) \in [Nat -> Nat \ {0}] /\ Powers(n, G(n))
  BY PowersExist
<1> HIDE DEF G
<1>2. F[0] = 1
  BY <1>1 DEF Powers
<1>3. ASSUME NEW n \in Nat PROVE F[n + 1] = 2 * F[n]
  <2>1. Powers(n + 1, G(n + 1)) /\ Powers(n, G(n))
    BY <1>1
  <2>2. Powers(n, G(n + 1)) /\ G(n + 1)[n + 1] = 2 * G(n + 1)[n]
    <3>1. n + 1 \in 1..(n + 1) /\ (n + 1) - 1 = n /\ \A i \in 1..n : i \in 1..(n + 1)
      OBVIOUS
    <3> QED
      BY <2>1, <3>1 DEF Powers
  <2>3. G(n + 1)[n] = G(n)[n]
    BY <2>1, <2>2, PowersAgree
  <2> QED
    BY <2>2, <2>3
<1>4. \A n \in Nat : F[n] \in Nat \ {0}
  BY <1>1
<1> HIDE DEF F
<1>5. F = [e \in Nat |-> IF e = 0 THEN 1 ELSE 2 * F[e - 1]]
  <2>1. ASSUME NEW e \in Nat PROVE F[e] = IF e = 0 THEN 1 ELSE 2 * F[e - 1]
    <3>1. CASE e = 0
      BY <1>2, <3>1
    <3>2. CASE e # 0
      <4>1. e - 1 \in Nat /\ (e - 1) + 1 = e
        BY <3>2
      <4> QED
        BY <1>3, <3>2, <4>1
    <3> QED
      BY <3>1, <3>2
  <2> QED
    BY <2>1 DEF F
<1>6. TwoTo = [e \in Nat |-> IF e = 0 THEN 1 ELSE 2 * TwoTo[e - 1]]
  BY <1>5 DEF TwoTo
<1>7. \A e \in Nat : TwoTo[e] = IF e = 0 THEN 1 ELSE 2 * TwoTo[e - 1]
  BY <1>6
<1>8. TwoTo[0] = 1
  BY <1>7
<1>9. ASSUME NEW e \in Nat PROVE TwoTo[e + 1] = 2 * TwoTo[e]
  <2>1. e + 1 \in Nat /\ e + 1 # 0 /\ (e + 1) - 1 = e
    OBVIOUS
  <2> QED
    BY <1>7, <2>1
<1>10. \A e \in Nat : TwoTo[e] \in Nat \ {0}
  <2> DEFINE S == {e \in Nat : TwoTo[e] \in Nat \ {0}}
  <2>1. 0 \in S
    BY <1>8
  <2>2. ASSUME NEW e \in S PROVE e + 1 \in S
    BY <1>9
  <2>3. S = Nat
    BY <2>1, <2>2, Climb
  <2> QED
    BY <2>3
<1> QED
  BY <1>8, <1>9, <1>10

(* Halving twice, and halving what is halved.                               *)
LEMMA HalfOfQuotient ==
    ASSUME NEW m \in Nat, NEW p \in Nat \ {0}
    PROVE  (m \div p) \div 2 = m \div (2 * p)
<1> DEFINE q == m \div p
           r == m % p
           h == q \div 2
           b == q % 2
<1>1. q \in Nat /\ r \in 0..(p - 1) /\ m = p * q + r
  OBVIOUS
<1>2. h \in Nat /\ b \in 0..1 /\ q = 2 * h + b
  BY <1>1
<1> HIDE DEF q, r, h, b
<1>3. p * q = (2 * p) * h + p * b
  BY <1>1, <1>2
<1>4. p * b \in 0..p
  BY <1>2
<1>5. m = (2 * p) * h + (p * b + r) /\ p * b + r \in 0..(2 * p - 1)
  BY <1>1, <1>2, <1>3, <1>4
<1>6. m \div (2 * p) = h
  BY <1>2, <1>5
<1> QED
  BY <1>6 DEF q, h

LEMMA Lower ==
    ASSUME NEW m \in Nat, NEW p \in Nat \ {0}
    PROVE  m \div p \in Nat /\ m \div (2 * p) <= m \div p
<1>1. m \div p \in Nat
  OBVIOUS
<1>2. (m \div p) \div 2 <= m \div p
  BY <1>1
<1> QED
  BY <1>1, <1>2, HalfOfQuotient

(* The further the stage, the lower its rate.                               *)
LEMMA Descends ==
    ASSUME NEW m \in Nat, NEW i \in Nat, NEW j \in Nat, i <= j
    PROVE  m \div TwoTo[j] <= m \div TwoTo[i]
<1> DEFINE R(n) == m \div TwoTo[n]
           S == {n \in Nat : i <= n => R(n) <= R(i)}
<1>1. \A n \in Nat : R(n) \in Nat /\ R(n + 1) <= R(n)
  <2> TAKE n \in Nat
  <2>1. TwoTo[n] \in Nat \ {0} /\ TwoTo[n + 1] = 2 * TwoTo[n]
    BY TwoToStep
  <2> QED
    <3>1. m \div TwoTo[n] \in Nat /\ m \div (2 * TwoTo[n]) <= m \div TwoTo[n]
      BY <2>1, Lower
    <3> QED
      BY <2>1, <3>1
<1> HIDE DEF R
<1>2. 0 \in S
  BY <1>1
<1>3. ASSUME NEW n \in S PROVE n + 1 \in S
  <2>1. CASE i = n + 1
    BY <1>1, <2>1
  <2>2. CASE i # n + 1
    BY <1>1, <2>2
  <2> QED
    BY <2>1, <2>2
<1>4. S = Nat
  BY <1>2, <1>3, Climb
<1> QED
  BY <1>4 DEF R

(* The loop invariant with the powers of two: rate and picked are what the  *)
(* code says they are, maxRate>>d and maxRate>>best.                        *)
Shifted == rate = maxRate \div TwoTo[d] /\ picked = maxRate \div TwoTo[best]

LEMMA ShiftedAlways == Spec => [](IInv /\ Shifted)
<1>1. Init => Shifted
  <2>1. ASSUME Init PROVE maxRate \in Nat /\ maxRate \div 1 = maxRate
    BY <2>1, ConstantsOK DEF ConstantsOK, Init
  <2> QED
    BY <2>1, TwoToStep DEF Init, Shifted
<1>2. IInv /\ Shifted /\ [Next]_vars => Shifted'
  <2> SUFFICES ASSUME IInv, Shifted, [Next]_vars PROVE Shifted'
    OBVIOUS
  <2>1. CASE Stage
    <3>1. maxRate \in Nat /\ d \in Nat
      BY DEF IInv, Typed
    <3>2. TwoTo[d] \in Nat \ {0} /\ TwoTo[d + 1] = 2 * TwoTo[d]
      BY <3>1, TwoToStep
    <3>3. (maxRate \div TwoTo[d]) \div 2 = maxRate \div TwoTo[d + 1]
      BY <3>1, <3>2, HalfOfQuotient
    <3> QED
      BY <2>1, <3>3 DEF Stage, Shifted
  <2>2. CASE Return
    BY <2>2 DEF Return, Shifted, IInv, NotYet
  <2>3. CASE UNCHANGED vars
    BY <2>3 DEF vars, Shifted
  <2> QED
    BY <2>1, <2>2, <2>3 DEF Next
<1> QED
  BY <1>1, <1>2, Inductive, PTL DEF Spec

(* spyserver.go: the loop returns the last of all stages whose rate meets   *)
(* the target, and maxRate shifted by it is the rate that Start announces.  *)
THEOREM PickAsDefined == Spec => []AsDefined
<1>1. IInv /\ Shifted => AsDefined
  <2> SUFFICES ASSUME IInv, Shifted, done PROVE AsDefined
    BY DEF AsDefined
  <2>0. /\ maxRate \in Nat /\ stages \in Nat /\ d \in Nat /\ rate \in Nat /\ best \in Nat
        /\ Target \in Nat /\ found \in BOOLEAN
    BY ConstantsOK DEF ConstantsOK, IInv, Typed
  <2>1. best \in 0..stages
    BY <2>0 DEF IInv, NotYet, Held
  <2>2. Meets(best) \/ best = 0
    BY <2>0 DEF IInv, NotYet, Held, Shifted, Meets
  <2>3. ASSUME NEW e \in 0..stages, Meets(e), e > best PROVE FALSE
    <3>1. e >= d /\ rate < Target
      BY <2>0, <2>3 DEF IInv, NotYet, Held, Ended
    <3>2. maxRate \div TwoTo[e] <= rate
      BY <2>0, <3>1, Descends DEF Shifted
    <3>3. maxRate \div TwoTo[e] \in Nat
      <4>1. TwoTo[e] \in Nat \ {0}
        BY <2>0, TwoToStep
      <4> QED
        BY <2>0, <4>1, Lower
    <3> QED
      BY <2>0, <2>3, <3>1, <3>2, <3>3 DEF Meets
  <2> QED
    BY <2>0, <2>1, <2>2, <2>3 DEF AsDefined, Shifted
<1> QED
  BY <1>1, ShiftedAlways, PTL
=============================================================================
